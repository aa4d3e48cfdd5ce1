SPECIFICATION Spec
CONSTANTS
  Kinds <- MCKinds
  Heads <- MCHeads
  StatusCodes = {"101", "1xx", "204", "304", "200"}
  RejectTeCl = {TRUE, FALSE}
  ClearsOutputs = {TRUE, FALSE}
INVARIANTS
  AcceptedIffWellFormed FramingFollowsRFC PersistenceFollowsRFC SignalsFollowMessage
