SPECIFICATION FairSpec
CONSTANTS
  Tenants = {"default", "acme"}
  Unset = ""
  Handlers = {"h1", "h2"}
  Environments <- MCEnvironments
INVARIANTS TypeOK OwnKeyUnlessRaced
PROPERTIES WarmCacheIsSafe OnlyTheBackendDelays
