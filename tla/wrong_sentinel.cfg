CONSTANTS
  Ids <- SomeIds
  Starts <- SomeStarts
  web = web
  dockerService = dockerService
  exec = exec
  JobId = web
  None = None
SPECIFICATION Spec
INVARIANTS
  SentinelAlwaysNamesArea
