SPECIFICATION Spec
CONSTANTS
  Dids <- MCDids
  Keys <- MCKeys
  Ed25519Keys <- MCKeys
  NoKey = "nokey"
  Scopes <- MCScopes
  Audiences <- MCAudiences
  Claims <- MCClaims
  NoAudience = "none"
  Times <- MCTimes
  ClockSkew = 1
  DefaultMaxDepth = 3
  Tokens <- MCTokens
  Cred <- MCCred
  KeyOf <- MCKeyOf
  Tenants <- MCTenants
  DefaultTenant = "default"
  Name <- MCName
  Synthetic <- MCSynthetic
  Registries <- MCRegistries
  Requests <- MCRequests
  PolicySets <- MCPolicySets
  Handlers = {h1, h2}
  MaxTTL = 2
  JwtTTL = 4
  MaxTime = 3
  MaxChanges = 1
SYMMETRY HandlerSymmetry
INVARIANTS TypeOK CachedAllowExpiresWithChain PolicyChangeTakesEffect TrustRemovalTakesEffect
  AgentScopeWithinChain SyntheticJWTIsBounded
CHECK_DEADLOCK FALSE
