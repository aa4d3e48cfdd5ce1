SPECIFICATION Spec
CONSTANTS
  HexDigits <- MCHexDigits
  HexValue <- MCHexValue
  OtherBytes = {"x"}
  MaxHexDigits = 4
  Pow16 <- MCPow16
  IntMax = 31
  Slices <- ShortSlices
  MaxWire = 5
  RetryAfterError = FALSE
INVARIANTS RFCChunkSize
CHECK_DEADLOCK FALSE
