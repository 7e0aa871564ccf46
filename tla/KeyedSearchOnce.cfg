CONSTANTS
  Requests = {r1, r2}
  SearchKeys = {k1}
  ZylaKeys = {}
  Fingerprints = {f1}
  NoKey = NoKey
  NoFingerprint = NoFingerprint
  NoRequest = NoRequest
  MaxExpiries = 0
SPECIFICATION Spec
INVARIANT ChargedOnce
CHECK_DEADLOCK FALSE
