SPECIFICATION Spec
CONSTANTS
  Dids <- MCDids
  Keys <- MCKeys
  Ed25519Keys <- MCKeys
  NoKey = "nokey"
  Scopes <- MCScopes
  Audiences <- MCAudiences
  Claims <- MCClaims
  NoAudience = "none"
  Times <- MCTimes
  ClockSkew = 1
  DefaultMaxDepth = 3
  Tokens <- MCTokens
  Cred <- MCCred
  KeyOf <- MCKeyOf
  Tenants <- MCTenants
  DefaultTenant = "default"
  Name <- MCName
  Synthetic <- MCSynthetic
  Registries <- MCRegistries
  Requests <- MCRunOn
  PolicySets <- MCPolicySets
  Handlers = {h1}
  MaxTTL = 2
  JwtTTL = 4
  MaxTime = 3
  MaxChanges = 0
INVARIANT CachedAnswerIsOwn
CHECK_DEADLOCK FALSE
