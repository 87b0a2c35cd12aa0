CONSTANTS
  Helper = "StreamPorts"
  Lines <- AllLines
  NaN = NaN
  ValidJSON <- JSONTexts
  OwnType <- OwnTexts
  WithKind <- KindTexts
  Reports <- ReportTexts
  MaxLines = 3
SPECIFICATION Spec
INVARIANT ResumesAfterLoss
CHECK_DEADLOCK FALSE
