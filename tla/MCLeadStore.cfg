CONSTANTS
  acme = acme
  other = other
  ann = ann
  bob = bob
  cfo = cfo
  Searches = {s1, s2}
  ProviderRecords <- MCProviderRecords
  NoValue = NoValue
  NoSearch = NoSearch
  MaxRecords = 2
  MaxSuppressions = 2
SPECIFICATION Spec
INVARIANTS
  TypeOK
  StoredOnce
  LeadsConsistent
  LeaksExplained
CHECK_DEADLOCK FALSE
