CONSTANTS
  t1 = t1
  zyla = zyla
  e1 = e1
  e2 = e2
  e3 = e3
  e4 = e4
  Tenants = {t1, zyla}
  ZylaTenant = zyla
  OpeningCredits <- MCOpeningCredits
  Sessions = {s1, s2}
  Events = {e1, e2, e3, e4}
  EventTenant <- MCEventTenant
  EventCredits <- MCEventCredits
  Reference <- MCReference
  TooLong = {"ref4"}
  MaxLeads = 2
  IntegerMax = 9
  MaxFailures = 1
  NoSession = NoSession
  NoTenant = NoTenant
  NoEvent = NoEvent
SPECIFICATION FairSpec
INVARIANTS
  TypeOK
  FreshUnderLock
  LedgerBalances
PROPERTIES
  ImplementsCredits
  EventsGranted
CHECK_DEADLOCK FALSE
