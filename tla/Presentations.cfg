SPECIFICATION Spec
CONSTANTS
  Dids <- MCDids
  Keys <- MCDids
  Ed25519Keys <- MCDids
  NoKey = "no key"
  Scopes = {}
  Audiences = {"client"}
  NoAudience = "none"
  Claims <- MCClaims
  Times = {0, 2}
  ClockSkew = 1
  DefaultMaxDepth = 3
  States = {"s"}
  AuthRequests <- MCAuthRequests
  Responses <- MCResponses
  QueryIds = {"b", "p"}
  Nonces = {"n1", "n2"}
  NoNonce = "no nonce"
  Tokens <- MCTokens
  Cred <- MCCred
  Ids = {"i1", "j1", "j2"}
  NoId = "no id"
  IdOf <- MCIdOf
  JtiOf <- MCJtiOf
  TypesOf <- MCTypesOf
  KeyOf <- MCKeyOf
  Trusted = {"issuer"}
  Strict = TRUE
  DefaultTTL = 1
  Handlers = {h1, h2}
  MaxTime = 2
  MaxSaves = 2
  MaxRevocations = 2
  MaxRestarts = 1
SYMMETRY HandlerSymmetry
INVARIANTS TypeOK RevokedIsRefused VerifiedIsComplete
PROPERTY ImplementsOneShot
CHECK_DEADLOCK FALSE
