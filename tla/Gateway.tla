-------------------------------- MODULE Gateway --------------------------------
(***************************************************************************)
(* POST /v1/gateway/authorize (internal/httpserver/gateway_handlers.go):   *)
(* requests that run concurrently against a shared decision cache, while   *)
(* administrators edit the trust registry and the policies and time goes   *)
(* on.  The module composes CredentialChain (what verifying one credential *)
(* finds) and PolicyEngine (what the policies decide).                     *)
(*                                                                         *)
(* A request is handled in steps, split wherever the handler calls out or  *)
(* reads the clock: the clock, the registry, the policies and the cache    *)
(* may change between any two of them.                                     *)
(***************************************************************************)
EXTENDS CredentialChain, PolicyEngine

CONSTANTS
  Tokens,        \* the tokens clients hold
  Cred,          \* Cred[t]: the credential token t encodes
  KeyOf,         \* the key each issuer DID resolves to, NoKey if it does not resolve
  Tenants,       \* tenant identifiers
  DefaultTenant, \* cfg.DefaultTenantID
  Name,          \* Name[t]: the bytes of a tenant identifier or an audience
  Synthetic,     \* the bytes "synthetic"
  Registries,    \* the trust registries the service may start with
  Requests,      \* the requests clients send
  PolicySets,    \* the contents the policy store goes through
  Handlers,      \* requests that can be in progress at once
  MaxTTL,        \* longest time a decision is cached (60 seconds)
  JwtTTL,        \* lifetime of a synthetic JWT (15 minutes)
  MaxTime,       \* bound: last clock value
  MaxChanges     \* bound: changes administrators make

ASSUME GatewayAssumption ==
  /\ Cred \in [Tokens -> Credential]
  /\ KeyOf \in [Dids -> Keys \cup {NoKey}]
  /\ DefaultTenant \in Tenants
  /\ Requests \subseteq
       [tenant : Tenants, chain : Seq(Tokens), aud : Audiences \cup {NoAudience},
        resource : Seq(STRING), action : Seq(STRING), synthetic : BOOLEAN]
  /\ Requests # {}
  /\ Registries \subseteq [Tenants -> SUBSET Dids]
  /\ \A s \in PolicySets : s \subseteq Policy(Tenants)
  /\ MaxTTL \in Nat \ {0} /\ JwtTTL \in Nat \ {0}
  /\ MaxTime \in Nat /\ MaxChanges \in Nat

VARIABLES
  clock,     \* the service's clock, in seconds
  trusted,   \* trusted[t]: the issuers the trust registry holds for tenant t
  removedAt, \* removedAt[t][d]: when d was last removed from trusted[t] (history)
  policies,  \* the stored policies
  changedAt, \* when they last changed (history)
  changes,   \* changes to the registry and the policies so far
  cache,     \* the decision cache: a function from keys to entries
  pc,        \* pc[h]: the next step of handler h
  req,       \* req[h]: the request it serves, or served last
  local,     \* local[h]: the local variables of the handler
  answer     \* answer[h]: what it answered to req[h]

admin == <<trusted, removedAt, policies, changedAt, changes>>
vars == <<clock, admin, cache, pc, req, local, answer>>

\* GatewayConfig asks for at most three delegations.
GatewayMaxDepth == 3

Chain(r) == [i \in DOMAIN r.chain |-> Cred[r.chain[i]]]

-----------------------------------------------------------------------------
(* Responses *)

AgentContext ==
  [actingFor : Dids, delegationDepth : Nat, scope : SUBSET Scopes]

GatewayErrors ==
  {"invalid_request", "rate_limited", "credential_expired", "issuer_not_trusted",
   "invalid_credential", "delegation_invalid", "policy_error", "policy_denied",
   "internal_error"}

Response ==
  [allowed         : BOOLEAN,
   error           : GatewayErrors \cup {Ok},
   delegationDepth : Nat,
   scope           : SUBSET Scopes,       \* of the claims filterSafeClaims lets through
   agent           : SUBSET AgentContext, \* empty unless the chain delegates
   jwtExp          : Nat]                 \* expiry of the synthetic JWT, 0 if none

ErrorResponse(code) ==
  [allowed |-> FALSE, error |-> code, delegationDepth |-> 0, scope |-> {},
   agent |-> {}, jwtExp |-> 0]

\* Fault: an error of the delegation rules is passed on as it is.
mapVerificationError_Raw(error) ==
  IF error = "expired" THEN "credential_expired"
  ELSE IF error = "untrusted_issuer" THEN "issuer_not_trusted"
  ELSE error

mapVerificationError(error) ==
  IF error = "expired" THEN "credential_expired"
  ELSE IF error = "untrusted_issuer" THEN "issuer_not_trusted"
  ELSE IF error \in {"delegation_depth", "delegation_scope", "delegation_ttl",
                     "invalid_delegation"} THEN "delegation_invalid"
  ELSE "invalid_credential"

\* The decision that a verified chain stands for: its leaf's.
BuildAuthzDecisionFromVerification(chain) ==
  LET leaf == Leaf(chain)
  IN  [subject |-> leaf.subject, scope |-> ScopeOf(leaf), claims |-> leaf.claims,
       delegationDepth |-> DelegationChainResult(chain).delegationDepth]

\* The response to an allowed request: the decision is the leaf's, the agent
\* context comes from the last two credentials.
AllowResponse(chain) ==
  LET n   == Len(chain)
      obo == BuildOnBehalfOfContext(chain[n - 1], chain[n])
      decision == BuildAuthzDecisionFromVerification(chain)
  IN  [allowed         |-> TRUE,
       error           |-> Ok,
       delegationDepth |-> decision.delegationDepth,
       scope           |-> decision.scope,
       agent           |-> IF n = 1 THEN {}
                           ELSE {[actingFor       |-> obo.actingFor,
                                  delegationDepth |-> obo.delegationDepth,
                                  scope           |-> obo.scope]},
       jwtExp          |-> 0]

\* What the policy engine is asked about a verified chain.
EvaluationInput(r) ==
  LET decision == BuildAuthzDecisionFromVerification(Chain(r))
  IN  [tenant |-> r.tenant, subject |-> decision.subject, scope |-> decision.scope,
       claims |-> decision.claims, resource |-> r.resource, action |-> r.action]

validateGatewayRequest(r) == r.chain # <<>> /\ r.resource # <<>> /\ r.action # <<>>

\* Resources and actions are sequences of symbols, a token is one symbol.  The
\* key is a hash, taken to be collision free, of all of them in a row.
buildCacheKey(r) ==
  r.chain \o Name[r.tenant] \o r.resource \o r.action \o Name[r.aud]
    \o (IF r.synthetic THEN Synthetic ELSE <<>>)

\* Fault: every decision is cached for the default time.
computeDecisionTTL_Default(expiresAt, at) == MaxTTL

\* How long a decision on a leaf that expires at expiresAt may be cached.
computeDecisionTTL(expiresAt, at) ==
  IF expiresAt = 0 THEN MaxTTL
  ELSE IF expiresAt <= at THEN 0
  ELSE IF expiresAt - at < MaxTTL THEN expiresAt - at
  ELSE MaxTTL

-----------------------------------------------------------------------------
(* State *)

\* When a request was started, evaluated, given a TTL, and answered or stored.
Stamps == [started : Nat, evaluated : Nat, ttl : Nat, stored : Nat]

Locals ==
  [now    : Nat,         \* the time verification was started with
   idx    : Nat \ {0},   \* the position of the credential to verify next
   draft  : Response,    \* the response being built
   ttl    : 0..MaxTTL,   \* for how long it may be cached
   stamps : Stamps]      \* history

\* A response, the request it was computed for and when.
Decision == [response : Response, origin : Requests, stamps : Stamps]

Entry == [decision : Decision, deadline : Nat]

Answer == [decision : Decision, at : Nat, cached : BOOLEAN]

Steps == {"idle", "lookup", "verify", "policy", "mint", "ttl", "persist"}

NoStamps == [started |-> 0, evaluated |-> 0, ttl |-> 0, stored |-> 0]

NoLocals ==
  [now |-> 0, idx |-> 1, draft |-> ErrorResponse("internal_error"), ttl |-> 0,
   stamps |-> NoStamps]

\* When a request was refused is of no interest.
Refusal(r, code) ==
  [decision |-> [response |-> ErrorResponse(code), origin |-> r, stamps |-> NoStamps],
   at |-> 0, cached |-> FALSE]

NoAnswer(r) == Refusal(r, "internal_error")

TypeOK ==
  /\ clock \in Nat
  /\ trusted \in [Tenants -> SUBSET Dids]
  /\ removedAt \in [Tenants -> [Dids -> Nat]]
  /\ policies \in PolicySets
  /\ changedAt \in Nat
  /\ changes \in Nat
  /\ \A k \in DOMAIN cache : cache[k] \in Entry
  /\ pc \in [Handlers -> Steps]
  /\ req \in [Handlers -> Requests]
  /\ local \in [Handlers -> Locals]
  /\ answer \in [Handlers -> Answer]

Init ==
  LET r == CHOOSE r \in Requests : TRUE
  IN  /\ clock = 0
      /\ trusted \in Registries
      /\ removedAt = [t \in Tenants |-> [d \in Dids |-> 0]]
      /\ policies \in PolicySets
      /\ changedAt = 0
      /\ changes = 0
      /\ cache = [k \in {} |-> 0]
      /\ pc = [h \in Handlers |-> "idle"]
      /\ req = [h \in Handlers |-> r]
      /\ local = [h \in Handlers |-> NoLocals]
      /\ answer = [h \in Handlers |-> NoAnswer(r)]

-----------------------------------------------------------------------------
(* The handler *)

\* The handler writes a response and returns.
Respond(h, response) ==
  /\ pc' = [pc EXCEPT ![h] = "idle"]
  /\ answer' = [answer EXCEPT ![h] = response]
  /\ local' = [local EXCEPT ![h] = NoLocals]

Refuse(h, r, code) == Respond(h, Refusal(r, code))

\* The request is validated and passes the rate limiter, or is refused; the
\* limiter's verdict depends on the traffic of the caller.
Start(h, r) ==
  /\ pc[h] = "idle"
  /\ req' = [req EXCEPT ![h] = r]
  /\ \/ /\ ~validateGatewayRequest(r)
        /\ Refuse(h, r, "invalid_request")
     \/ /\ validateGatewayRequest(r)
        /\ Refuse(h, r, "rate_limited")
     \/ /\ validateGatewayRequest(r)
        /\ pc' = [pc EXCEPT ![h] = "lookup"]
        /\ local' = [local EXCEPT ![h].stamps.started = clock]
        /\ answer' = [answer EXCEPT ![h] = NoAnswer(r)]
  /\ UNCHANGED <<clock, admin, cache>>

\* readCachedDecision finds an entry that Redis has not expired yet.
CacheHit(h) ==
  LET key == buildCacheKey(req[h])
  IN  /\ pc[h] = "lookup"
      /\ key \in DOMAIN cache /\ clock < cache[key].deadline
      /\ Respond(h, [decision |-> cache[key].decision, at |-> clock, cached |-> TRUE])
      /\ UNCHANGED <<clock, admin, cache, req>>

\* No entry, or the cache cannot be read: verification starts, with the clock
\* as it is now.
CacheMiss(h) ==
  /\ pc[h] = "lookup"
  /\ pc' = [pc EXCEPT ![h] = "verify"]
  /\ local' = [local EXCEPT ![h].now = clock]
  /\ UNCHANGED <<clock, admin, cache, req, answer>>

\* Fault: the registry is asked for the default tenant alone.
ResolveIssuerPublicKey_DefaultOnly(t, issuer) ==
  IF issuer \in trusted[DefaultTenant] THEN KeyOf[issuer] ELSE NoKey

\* The handler asks the registry for the request's tenant; the resolver it was
\* given (services/verifier/server.go) asks again for the default tenant.
ResolveIssuerPublicKey(t, issuer) ==
  IF issuer \in trusted[t] /\ issuer \in trusted[DefaultTenant]
    THEN KeyOf[issuer] ELSE NoKey

\* One iteration of the loop of VerifyCredentialChain.  The issuer is resolved
\* as the registry is at this moment, and resolving may fail (a lookup in the
\* database, a fetch for did:web); the time stays the one the loop began with.
Verify(h) ==
  LET chain == Chain(req[h])
      i     == local[h].idx
  IN  /\ pc[h] = "verify"
      /\ \E key \in {ResolveIssuerPublicKey(req[h].tenant, chain[i].issuer), NoKey} :
           LET error == ErrorAt(chain, i, key, req[h].aud, GatewayMaxDepth, local[h].now)
           IN  \/ /\ error # Ok
                  /\ Refuse(h, req[h], mapVerificationError(error))
               \/ /\ error = Ok
                  /\ pc' = [pc EXCEPT ![h] = IF i = Len(chain) THEN "policy" ELSE "verify"]
                  /\ local' = [local EXCEPT ![h].idx = i + 1]
                  /\ UNCHANGED answer
      /\ UNCHANGED <<clock, admin, cache, req>>

\* The policies are listed and evaluated; a refusal is never cached.
EvaluatePolicy(h) ==
  /\ pc[h] = "policy"
  /\ \/ Refuse(h, req[h], "policy_error")
     \/ /\ ~Evaluate(policies, EvaluationInput(req[h])).allow
        /\ Refuse(h, req[h], "policy_denied")
     \/ /\ Evaluate(policies, EvaluationInput(req[h])).allow
        /\ pc' = [pc EXCEPT ![h] = IF req[h].synthetic THEN "mint" ELSE "ttl"]
        /\ local' = [local EXCEPT ![h].draft = AllowResponse(Chain(req[h])),
                                  ![h].stamps.evaluated = clock]
        /\ UNCHANGED answer
  /\ UNCHANGED <<clock, admin, cache, req>>

\* BuildSyntheticJWT: the token's lifetime starts now and does not depend on
\* the credentials.
Mint(h) ==
  /\ pc[h] = "mint"
  /\ \/ Refuse(h, req[h], "internal_error")
     \/ /\ pc' = [pc EXCEPT ![h] = "ttl"]
        /\ local' = [local EXCEPT ![h].draft.jwtExp = clock + JwtTTL]
        /\ UNCHANGED answer
  /\ UNCHANGED <<clock, admin, cache, req>>

ComputeTTL(h) ==
  /\ pc[h] = "ttl"
  /\ pc' = [pc EXCEPT ![h] = "persist"]
  /\ local' = [local EXCEPT
       ![h].ttl = computeDecisionTTL(ExpiresAt(Leaf(Chain(req[h]))), clock),
       ![h].stamps.ttl = clock]
  /\ UNCHANGED <<clock, admin, cache, req, answer>>

\* Fault: the entry is stored without its TTL.
Put_NoTTL(k, e) ==
  [x \in DOMAIN cache \cup {k} |->
     IF x = k THEN [e EXCEPT !.deadline = MaxTime + 1] ELSE cache[x]]

\* The cache with entry e under key k.
Put(k, e) == [x \in DOMAIN cache \cup {k} |-> IF x = k THEN e ELSE cache[x]]

\* persistDecision stores the response unless its TTL is zero, ignores an error
\* of the cache, and the response is written.  Redis counts the TTL from the
\* moment it executes the command.
Persist(h) ==
  LET decision == [response |-> local[h].draft, origin |-> req[h],
                   stamps |-> [local[h].stamps EXCEPT !.stored = clock]]
  IN  /\ pc[h] = "persist"
      /\ \/ /\ local[h].ttl > 0
            /\ cache' = Put(buildCacheKey(req[h]),
                            [decision |-> decision, deadline |-> clock + local[h].ttl])
         \/ UNCHANGED cache
      /\ Respond(h, [decision |-> decision, at |-> clock, cached |-> FALSE])
      /\ UNCHANGED <<clock, admin, req>>

Step(h) ==
  \/ CacheHit(h) \/ CacheMiss(h) \/ Verify(h) \/ EvaluatePolicy(h)
  \/ Mint(h) \/ ComputeTTL(h) \/ Persist(h)

-----------------------------------------------------------------------------
(* Administrators and time *)

AdminChange == changes < MaxChanges /\ changes' = changes + 1

\* POST /v1/trust/issuers adds to the default tenant, whoever asks.
AddTrustedIssuer(d) ==
  /\ AdminChange
  /\ trusted' = [trusted EXCEPT ![DefaultTenant] = @ \cup {d}]
  /\ UNCHANGED <<clock, removedAt, policies, changedAt, cache, pc, req, local, answer>>

RemoveTrustedIssuer(t, d) ==
  /\ AdminChange
  /\ d \in trusted[t]
  /\ trusted' = [trusted EXCEPT ![t] = @ \ {d}]
  /\ removedAt' = [removedAt EXCEPT ![t][d] = clock]
  /\ UNCHANGED <<clock, policies, changedAt, cache, pc, req, local, answer>>

\* A request of the policy admin API (module PolicyStore) has changed the store.
ChangePolicies(s) ==
  /\ AdminChange
  /\ s # policies
  /\ policies' = s
  /\ changedAt' = clock
  /\ UNCHANGED <<clock, trusted, removedAt, cache, pc, req, local, answer>>

Tick ==
  /\ clock < MaxTime
  /\ clock' = clock + 1
  /\ UNCHANGED <<admin, cache, pc, req, local, answer>>

Next ==
  \/ \E h \in Handlers : (\E r \in Requests : Start(h, r)) \/ Step(h)
  \/ \E d \in Dids : AddTrustedIssuer(d)
  \/ \E t \in Tenants, d \in Dids : RemoveTrustedIssuer(t, d)
  \/ \E s \in PolicySets : ChangePolicies(s)
  \/ Tick

Spec == Init /\ [][Next]_vars

-----------------------------------------------------------------------------
(* Properties *)

AllowedAnswers == {answer[h] : h \in {h \in Handlers : answer[h].decision.response.allowed}}

\* How long the request that computed a decision took after one of its stamps,
\* and how much longer a cached copy may be served.
Delay(a, stamp) == a.decision.stamps.stored - stamp + (IF a.cached THEN MaxTTL ELSE 0)

\* A cached allow is served no longer than any credential of its chain lives,
\* give or take the time between computing the TTL and Redis storing it:
\* computeDecisionTTL looks at the leaf alone, and relies on VerifyCredentialChain
\* having refused a leaf that outlives an ancestor.
CachedAllowExpiresWithChain ==
  \A a \in AllowedAnswers : a.cached =>
    \A i \in DOMAIN a.decision.origin.chain :
      LET expiresAt == ExpiresAt(Chain(a.decision.origin)[i])
      IN  expiresAt # 0 =>
            a.at < expiresAt + (a.decision.stamps.stored - a.decision.stamps.ttl)

\* Removing an issuer from the registry takes effect: an allow for a chain with
\* an issuer that is not trusted any more was given at most MaxTTL, plus the
\* time the deciding request took, after the removal.
TrustRemovalTakesEffect ==
  \A a \in AllowedAnswers :
    \A i \in DOMAIN a.decision.origin.chain :
      \A t \in {a.decision.origin.tenant, DefaultTenant} :
        LET issuer == Chain(a.decision.origin)[i].issuer
        IN  issuer \notin trusted[t] =>
              a.at <= removedAt[t][issuer] + Delay(a, a.decision.stamps.started)

\* A policy change takes effect: an allow that the policies in force deny was
\* given at most MaxTTL, plus the time the deciding request took after
\* evaluating them, after their last change.
PolicyChangeTakesEffect ==
  \A a \in AllowedAnswers :
    Evaluate(policies, EvaluationInput(a.decision.origin)).allow
      \/ a.at <= changedAt + Delay(a, a.decision.stamps.evaluated)

\* The scope an allow reports for an agent is covered by every credential above
\* the leaf, even where the leaf or its parent carries no scope
\* (obo.go:25-27 falls back to the parent's).
AgentScopeWithinChain ==
  \A a \in AllowedAnswers :
    \A c \in a.decision.response.agent :
      \A i \in 1..(Len(a.decision.origin.chain) - 1) :
        c.scope \subseteq ScopeOf(Chain(a.decision.origin)[i])

\* A synthetic JWT has a lifetime of its own (authz_bridge.go:59) and is cached
\* with its decision.  It outlives what the chain's expiries allow by less than
\* that lifetime and the time its request took to mint it, and when it is handed
\* out, from the cache too, it has its lifetime left but for the time the request
\* and the cache held it.
SyntheticJWTIsBounded ==
  \A a \in AllowedAnswers :
    LET jwtExp == a.decision.response.jwtExp  stamps == a.decision.stamps
    IN  jwtExp # 0 =>
          /\ \A i \in DOMAIN a.decision.origin.chain :
               LET c == Chain(a.decision.origin)[i]
                   limit == IF c.format = "w3c" THEN c.exp ELSE ExpiresAt(c)
               IN  limit # 0 => jwtExp < limit + JwtTTL + (stamps.ttl - stamps.started)
          /\ a.at + JwtTTL <= jwtExp + Delay(a, stamps.evaluated)

\* docs/GATEWAY_HARDENING.md:13 "Keys include tenant, credential hash,
\* resource, action, and whether a synthetic JWT was requested": a cached answer
\* was computed for a request that agrees in all of them.
CachedAnswerIsOwn ==
  \A h \in Handlers : answer[h].cached => answer[h].decision.origin = req[h]
=============================================================================
