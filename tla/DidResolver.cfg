SPECIFICATION FairSpec
CONSTANTS
  JwkDids <- MCJwkDids
  WebDids <- MCWebDids
  OtherDids <- MCOtherDids
  Ed25519Keys = {"k0", "k1", "k2"}
  OtherKeys = {"e0"}
  NoKey = "no key"
  Ports = {"8443"}
  Documents <- MCDocuments
  CacheTTL = 1
  WebTimeout = 1
  Handlers = {"h1", "h2"}
  MaxTime = 3
  MaxChanges = 1
INVARIANTS TypeOK KeyChangeTakesEffect
PROPERTY EveryLookupIsAnswered
CHECK_DEADLOCK FALSE
