SPECIFICATION FairSpec
CONSTANTS
  HexDigits <- MCHexDigits
  HexValue <- MCHexValue
  OtherBytes = {"x"}
  MaxHexDigits = 4
  Pow16 <- MCPow16
  IntMax = 31
  Slices <- ShortSlices
  MaxWire = 7
  RetryAfterError = FALSE
INVARIANTS TypeOK ChunkAccounting TrailerSubState TrailingBytes TotalCountsPayload SliceIndependent
PROPERTIES DoneIsFinal CallReturns
CHECK_DEADLOCK FALSE
