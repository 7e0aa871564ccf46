CONSTANTS
  Null = Null
  Missing = Missing
  Unusable = Unusable
  Strip <- MCStrip
  Lower <- MCLower
  Long <- MCLong
  ZylaMaxLimit = 25
  Requests <- MCRequests
  Catalogs <- MCCatalogs
SPECIFICATION Spec
INVARIANTS
  TypeOK
  QueriesValid
  FiltersScored
  BestLeads
  FailuresExplained
