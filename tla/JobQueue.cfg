CONSTANTS
  Jobs = {j1}
  Workers = {w1, w2}
  MaxAttempts = 2
  BatchSize = 2
  MaxStops = 2
SPECIFICATION FairSpec
INVARIANTS
  TypeOK
  JobTracked
  AttemptsExplained
PROPERTIES
  SuccessKept
  JobEndsOrIsOrphaned
CHECK_DEADLOCK FALSE
