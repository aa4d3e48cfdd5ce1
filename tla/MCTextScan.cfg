SPECIFICATION FairSpec
CONSTANTS
  Texts <- MCTexts
  Delims <- MCDelims
  WordBytes = 2
  SseBlock = 3
  AvxBlock = 4
INVARIANTS VerdictExact LoadsInside
PROPERTIES ScanReturns
CHECK_DEADLOCK FALSE
