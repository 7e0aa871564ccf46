CONSTANTS
  acme = acme
  other = other
  ann = ann
  bob = bob
  cfo = cfo
  Searches = {s1, s2}
  ProviderRecords <- MCHostRecords
  NoValue = NoValue
  NoSearch = NoSearch
  MaxRecords = 2
  MaxSuppressions = 1
SPECIFICATION Spec
INVARIANT SuppressedNeverReturned
CHECK_DEADLOCK FALSE
