SPECIFICATION Spec
CONSTANTS
  Callers = {"c1", "c2"}
  RateKeys = {"acme:10.0.0.1"}
  Limit = 2
  Window = 5
  KeyTTL = 5
  MaxSkew = 1
  MaxDelay = 1
  MaxTime = 7
  MaxCalls = 4
INVARIANTS TypeOK LimitIsKept RefusalIsDeserved CallCountsOnce
CHECK_DEADLOCK FALSE
