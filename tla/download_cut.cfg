CONSTANTS
  NumFiles = 2
  LocalDir <- Site
  Path <- DotPaths
  MaxLate = 1
  Versions <- TwoFiles
  None = None
SPECIFICATION Spec
INVARIANTS
  DownloadIsWhole
