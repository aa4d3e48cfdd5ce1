SPECIFICATION Spec
CONSTANTS
  Kinds <- EofKinds
  Heads <- MCHeads
  StatusCodes = {"101", "1xx", "204", "304", "200"}
  RejectTeCl = {TRUE}
  ClearsOutputs = {TRUE}
INVARIANTS
  EofImpliesClose
