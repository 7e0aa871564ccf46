CONSTANTS
  ann = ann
  bob = bob
  zoe = zoe
  lea = lea
  Registrants = {ann, bob, zoe, lea}
  Zyla = Zyla
  MarketCalls = {m1, m2}
  Keys = {k1}
  Calls = {c1}
  NoKey = NoKey
  NameSlug <- MCNameSlug
  ZylaSlug = "zyla"
  EarlierSlugs = {"acme"}
  Tight = {"zyla"}
  TooLong = {"long"}
  Spellings <- MCSpellings
  Normal <- MCNormal
  KeyOwner <- MCKeyOwner
  MaxLost = 1
SPECIFICATION Spec
INVARIANTS
  TypeOK
  LoginExplained
  RevokedEnds
PROPERTIES
  EveryoneRegisters
  MarketServed
CHECK_DEADLOCK FALSE
