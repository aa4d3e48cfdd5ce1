SPECIFICATION Spec
CONSTANTS
  HexDigits <- MCHexDigits
  HexValue <- MCHexValue
  OtherBytes = {"x"}
  MaxHexDigits = 4
  Pow16 <- MCPow16
  IntMax = 31
  Slices <- LongSlices
  MaxWire = 24
  RetryAfterError = FALSE
INVARIANTS InPlace TrailingBytes TotalCountsPayload SliceIndependent
PROPERTIES ImplementsStream
CHECK_DEADLOCK FALSE
