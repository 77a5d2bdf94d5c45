SPECIFICATION Spec
CONSTANTS
  Dids <- MCDids
  Keys <- MCKeys
  Ed25519Keys <- MCKeys
  NoKey = 0
  Scopes = {"read", "write"}
  Audiences = {"api"}
  NoAudience = "none"
  Claims = {}
  Times = {0}
  ClockSkew = 1
  DefaultMaxDepth = 3
  Tenants <- MCTenants
  DefaultTenant = "default"
  Requests <- MCFirstRequests
  Handlers = {h1, h2}
  MaxTTLSeconds = 3
  AllowedScopes = {}
  RequiredClaims = {}
  Day = 2
  AdminVCTTL = 4
  DurationSpan = 33
  MaxKeys = 2
  MaxIssued = 3
  MaxTime = 2
  MaxRestarts = 0
  MaxRotations = 0
SYMMETRY HandlerSymmetry
INVARIANT SignerIsCurrent
CHECK_DEADLOCK FALSE
