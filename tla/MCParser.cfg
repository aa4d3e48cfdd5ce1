SPECIFICATION FairSpec
CONSTANTS
  Modes = {"REQUEST", "RESPONSE", "HEADERS"}
  Policies <- MCPolicies
  Words = {}
  MaxHeaders <- MCMaxHeaders
  MaxRequestLine = 6
  MaxHeaderLine = 5
  Stateless = {TRUE, FALSE}
  Slices <- MCSlices
  MaxBuffer <- MCMaxBuffer
INVARIANTS TypeOK InsideBuffer SpansOrdered StartLineKept ConsumedOnlyWhenDone SplitIndependent
PROPERTIES Progress CallReturns
CHECK_DEADLOCK FALSE
