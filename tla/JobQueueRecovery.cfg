CONSTANTS
  Jobs = {j1}
  Workers = {w1}
  MaxAttempts = 2
  BatchSize = 2
  MaxStops = 1
SPECIFICATION FairSpec
PROPERTY CrashRecovery
CHECK_DEADLOCK FALSE
