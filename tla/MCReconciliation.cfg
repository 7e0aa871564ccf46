CONSTANTS
  t1 = t1
  zyla = zyla
  e1 = e1
  e2 = e2
  Tenants = {t1, zyla}
  ZylaTenant = zyla
  OpeningCredits <- MCOpeningCredits
  Sessions = {s1, s2}
  Events = {e1, e2}
  EventTenant <- MCEventTenant
  EventCredits <- MCEventCredits
  Reference <- MCReference
  TooLong = {}
  MaxLeads = 1
  IntegerMax = 3
  MaxFailures = 1
  MaxRuns = 2
  NoSession = NoSession
  NoTenant = NoTenant
  NoEvent = NoEvent
SPECIFICATION RecSpec
INVARIANTS
  RecTypeOK
  MismatchMoved
CHECK_DEADLOCK FALSE
