CONSTANTS
  NumFiles = 2
  LocalDir <- Site
  Path <- DotPaths
  MaxLate = 1
  Versions <- TwoFiles
  None = None
SPECIFICATION FairSpec
INVARIANTS
  TypeOK
  SuccessIsOnNode
  EveryFileTried
  DownloadIsPrefix
PROPERTIES
  Returns
