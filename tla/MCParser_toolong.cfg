SPECIFICATION Spec
CONSTANTS
  Modes = {"HEADERS"}
  Policies <- MCStrict
  Words = {}
  MaxHeaders <- MCMaxHeaders
  MaxRequestLine = 4
  MaxHeaderLine = 3
  Stateless = {FALSE}
  Slices <- MCSlices
  MaxBuffer <- MCMaxBuffer
INVARIANTS TooLongExceedsLimit
CHECK_DEADLOCK FALSE
