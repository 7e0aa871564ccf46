CONSTANTS
  Requests = {r1, r2, r3}
  SearchKeys = {k1}
  ZylaKeys = {}
  Fingerprints = {f1, f2}
  NoKey = NoKey
  NoFingerprint = NoFingerprint
  NoRequest = NoRequest
  MaxExpiries = 1
SPECIFICATION FairSpec
INVARIANTS
  TypeOK
  ChargesExplained
  OwnerHoldsRecord
  ReplayFaithful
  BlockedOnlyByFault
PROPERTY CallsEnd
CHECK_DEADLOCK FALSE
