SPECIFICATION Spec
CONSTANTS
  Dids <- MCDids
  Keys <- MCKeys
  Ed25519Keys <- MCEd25519Keys
  NoKey = "nokey"
  Scopes <- MCScopes
  Audiences <- MCAudiences
  Claims <- MCClaims
  NoAudience = "none"
  Times <- MCTimes
  ClockSkew = 1
  DefaultMaxDepth = 3
  Tokens <- MCTokens
  KeyOf <- MCKeyOf
  Tenants <- MCTenants
  DefaultTenant = "default"
  NoTenant = ""
  Deployments <- MCDeployments
  Registries <- MCRegistries
  Stores = {TRUE}
  Bodies <- MCBodies
  DemoPolicy <- MCDemoPolicy
  Inputs = {}
  MaxId = 2
  MaxRestarts = 0
  MaxChain = 5
  MaxChanges = 1
  MaxTime = 4
INVARIANTS TypeOK AcceptedChainNarrows AcceptedForItsTenant
PROPERTIES ReportedExpiryIsHonoured ExpiredIsFinal EditsAreAuthorized
CHECK_DEADLOCK FALSE
