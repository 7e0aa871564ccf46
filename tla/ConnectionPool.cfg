CONSTANTS
  Requests = {r1, r2, r3}
  Threads = 2
  Connections = 2
SPECIFICATION FairSpec
INVARIANTS
  TypeOK
  StallNeedsTokens
PROPERTY RequestsEnd
CHECK_DEADLOCK FALSE
