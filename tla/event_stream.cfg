CONSTANTS
  Helper = "StreamPorts"
  Lines <- AllLines
  NaN = NaN
  ValidJSON <- JSONTexts
  OwnType <- OwnTexts
  WithKind <- KindTexts
  Reports <- ReportTexts
  MaxLines = 4
SPECIFICATION FairSpec
INVARIANTS
  TypeOK
  DeliversExactly
  ResultIsTruthful
PROPERTIES
  Ends
CHECK_DEADLOCK FALSE
