CONSTANTS
  Calls = {c1, c2, c3, c4}
  Limit = 2
  Window = 2
  Skew = 1
  MaxTime = 5
SPECIFICATION Spec
SYMMETRY CallSymmetry
INVARIANTS
  TypeOK
  WindowKept
  RefusalsExplained
  RetryExact
CHECK_DEADLOCK FALSE
