SPECIFICATION Spec
CONSTANTS
  UINT64_MAX = 31
  MaxDigits = 3
  Pieces = {0, 1, 2, 7, 30, 31}
INVARIANTS
  LengthExact FixedAccounting OkMeansWhole
PROPERTIES
  RefusedOnlyTooLarge
