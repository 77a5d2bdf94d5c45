----------------------------- MODULE GatewayProofs -----------------------------
(***************************************************************************)
(* Safety of module Gateway, for every set of tokens, requests, tenants,   *)
(* policies and handlers, and every bound on time and on the number of     *)
(* changes administrators make.                                            *)
(***************************************************************************)
EXTENDS Gateway, CredentialChainProofs

-----------------------------------------------------------------------------
(* The inductive invariant *)

\* The first n credentials narrow: each is covered by all those before it, in
\* scope and in time.
Narrows(chain, n) ==
  \A j \in 1..n : \A i \in 1..j :
    /\ ScopeOf(chain[j]) \subseteq ScopeOf(chain[i])
    /\ ExpiresAt(chain[i]) # 0 =>
         ExpiresAt(chain[j]) # 0 /\ ExpiresAt(chain[j]) <= ExpiresAt(chain[i])

Verified == {"policy", "mint", "ttl", "persist"}

\* Where a handler is in its chain, and what the part behind it satisfies.
Position(h) ==
  /\ pc[h] # "idle" => req[h].chain # <<>>
  /\ pc[h] \in {"idle", "lookup"} => local[h].idx = 1
  /\ pc[h] = "verify" =>
       /\ local[h].idx <= Len(req[h].chain)
       /\ Narrows(Chain(req[h]), local[h].idx - 1)
  /\ pc[h] \in Verified => Narrows(Chain(req[h]), Len(req[h].chain))

\* The stamps of a handler lie in the past.
Stamped(h) ==
  /\ local[h].stamps.started <= clock
  /\ local[h].stamps.evaluated <= clock
  /\ local[h].stamps.ttl <= clock

\* The agent context of a response to r is covered by every credential of r
\* above the leaf.
AgentCovered(response, r) ==
  \A c \in response.agent : \A i \in 1..(Len(r.chain) - 1) :
    c.scope \subseteq ScopeOf(Chain(r)[i])

\* A response with a lifetime of ttl from the moment at on does not outlive a
\* credential of r.
WithinChain(r, at, life) ==
  \A i \in 1..Len(r.chain) :
    ExpiresAt(Chain(r)[i]) # 0 => life = 0 \/ at + life <= ExpiresAt(Chain(r)[i])

\* The issuer of r's i-th credential is trusted, or was removed at s or later.
TrustKept(r, i, s) ==
  \A t \in {r.tenant, DefaultTenant} :
    LET issuer == Chain(r)[i].issuer
    IN  issuer \in trusted[t] \/ s <= removedAt[t][issuer]

\* The policies allow r, or have changed at s or later.
PolicyKept(r, s) ==
  Evaluate(policies, EvaluationInput(r)).allow \/ s <= changedAt

\* What a handler with an allow in its hands knows.
Drafted(h) ==
  pc[h] \in {"mint", "ttl", "persist"} =>
    /\ AgentCovered(local[h].draft, req[h])
    /\ PolicyKept(req[h], local[h].stamps.evaluated)

Timed(h) ==
  pc[h] = "persist" => WithinChain(req[h], local[h].stamps.ttl, local[h].ttl)

\* What it knows of the issuers it has looked up.
Resolved(h) ==
  /\ pc[h] = "verify" =>
       \A i \in 1..(local[h].idx - 1) : TrustKept(req[h], i, local[h].stamps.started)
  /\ pc[h] \in Verified =>
       \A i \in 1..Len(req[h].chain) : TrustKept(req[h], i, local[h].stamps.started)

\* What holds of every allow, wherever it is kept.
DecisionInv(d) ==
  d.response.allowed =>
    /\ d.stamps.started <= clock /\ d.stamps.evaluated <= clock
    /\ AgentCovered(d.response, d.origin)
    /\ \A i \in 1..Len(d.origin.chain) : TrustKept(d.origin, i, d.stamps.started)
    /\ PolicyKept(d.origin, d.stamps.evaluated)

\* A decision stored for some time is in the cache no longer than MaxTTL and
\* no longer than its credentials live, counted from when the TTL was computed.
KeptUntil(d, t) ==
  /\ t <= d.stamps.stored + MaxTTL
  /\ \A i \in 1..Len(d.origin.chain) :
       ExpiresAt(Chain(d.origin)[i]) # 0 =>
         t <= ExpiresAt(Chain(d.origin)[i]) + (d.stamps.stored - d.stamps.ttl)

EntryInv(k) ==
  /\ DecisionInv(cache[k].decision)
  /\ KeptUntil(cache[k].decision, cache[k].deadline)
  /\ buildCacheKey(cache[k].decision.origin) = k

AnswerInv(h) ==
  /\ DecisionInv(answer[h].decision)
  /\ answer[h].cached =>
       /\ KeptUntil(answer[h].decision, answer[h].at + 1)
       /\ buildCacheKey(answer[h].decision.origin) = buildCacheKey(req[h])
  /\ ~answer[h].cached => answer[h].at <= answer[h].decision.stamps.stored

HandlerInv(h) ==
  Position(h) /\ Stamped(h) /\ Drafted(h) /\ Timed(h) /\ Resolved(h) /\ AnswerInv(h)

Inv ==
  /\ TypeOK
  /\ \A h \in Handlers : HandlerInv(h)
  /\ \A k \in DOMAIN cache : EntryInv(k)

-----------------------------------------------------------------------------
(* Types of the values the handler builds *)

\* The chain of a request maps to a sequence of credentials of the same length.
LEMMA RequestFacts ==
  ASSUME NEW r \in Requests
  PROVE  /\ r.chain \in Seq(Tokens)
         /\ r.tenant \in Tenants
         /\ Chain(r) \in Seq(Credential)
         /\ Len(Chain(r)) = Len(r.chain)
         /\ Len(r.chain) \in Nat
         /\ DOMAIN r.chain = 1..Len(r.chain)
         /\ \A i \in 1..Len(r.chain) : Chain(r)[i] \in Credential
<1>1. r.chain \in Seq(Tokens) /\ r.tenant \in Tenants
  BY GatewayAssumption
<1>2. Cred \in [Tokens -> Credential]
  BY GatewayAssumption
<1>3. Chain(r) = [i \in 1..Len(r.chain) |-> Cred[r.chain[i]]]
  BY <1>1 DEF Chain
<1>4. \A i \in 1..Len(r.chain) : Chain(r)[i] \in Credential
  BY <1>1, <1>2, <1>3
<1> QED BY <1>1, <1>3, <1>4

\* Every refusal the handler writes is a response.
LEMMA ErrorResponseType ==
  ASSUME NEW code \in GatewayErrors
  PROVE  ErrorResponse(code) \in Response
BY DEF ErrorResponse, Response

\* Every verification error is mapped to a code of the gateway.
LEMMA mapVerificationErrorType ==
  ASSUME NEW error
  PROVE  mapVerificationError(error) \in GatewayErrors
BY DEF mapVerificationError, GatewayErrors

\* What an allowed chain is turned into is a response, provided the chain is not
\* empty.
LEMMA AllowResponseType ==
  ASSUME NEW r \in Requests, r.chain # <<>>
  PROVE  AllowResponse(Chain(r)) \in Response
<1> DEFINE chain == Chain(r)
           n == Len(chain)
           obo == BuildOnBehalfOfContext(chain[n - 1], chain[n])
<1>1. n \in Nat /\ n >= 1 /\ \A i \in 1..n : chain[i] \in Credential
  BY RequestFacts
<1>2. ScopeOf(chain[n]) \in SUBSET Scopes
  BY <1>1, ScopeOfType
<1>3. DelegationChainResult(chain).delegationDepth \in Nat
  BY <1>1 DEF DelegationChainResult
<1>4. ASSUME n # 1
      PROVE  /\ obo.actingFor \in Dids
             /\ obo.delegationDepth \in Nat
             /\ obo.scope \in SUBSET Scopes
  <2>0. chain[n - 1] \in Credential
    <3> HIDE DEF chain, n
    <3> QED BY <1>1, <1>4
  <2>1. chain[n - 1] \in Credential /\ ScopeOf(chain[n - 1]) \in SUBSET Scopes
    BY <2>0, ScopeOfType
  <2>2. chain[n - 1].subject \in Dids /\ chain[n - 1].depth \in Nat
    BY <2>1 DEF Credential
  <2>3. /\ obo.actingFor = chain[n - 1].subject
        /\ obo.delegationDepth = chain[n - 1].depth + 1
        /\ obo.scope \in {ScopeOf(chain[n - 1]), ScopeOf(chain[n])}
    BY DEF BuildOnBehalfOfContext
  <2> HIDE DEF obo, chain, n
  <2> QED BY <1>2, <2>1, <2>2, <2>3
<1>5. AllowResponse(chain).agent \in SUBSET AgentContext
  <2>1. AllowResponse(chain).agent \in
          {{}, {[actingFor |-> obo.actingFor, delegationDepth |-> obo.delegationDepth,
                 scope |-> obo.scope]}}
    BY DEF AllowResponse
  <2>2. n = 1 => AllowResponse(chain).agent = {}
    BY DEF AllowResponse
  <2> HIDE DEF obo, chain, n
  <2> QED BY <1>4, <2>1, <2>2 DEF AgentContext
<1>d. /\ BuildAuthzDecisionFromVerification(chain).delegationDepth \in Nat
      /\ BuildAuthzDecisionFromVerification(chain).scope \in SUBSET Scopes
  BY <1>2, <1>3 DEF BuildAuthzDecisionFromVerification, Leaf
<1>6. PICK depth, scope, agent :
         /\ depth \in Nat /\ scope \in SUBSET Scopes /\ agent \in SUBSET AgentContext
         /\ AllowResponse(chain) =
              [allowed |-> TRUE, error |-> Ok, delegationDepth |-> depth,
               scope |-> scope, agent |-> agent, jwtExp |-> 0]
  BY <1>d, <1>5 DEF AllowResponse
<1> QED BY <1>6 DEF Response

\* A TTL is never negative and never beyond the window.
LEMMA computeDecisionTTLType ==
  ASSUME NEW e \in Nat, NEW t \in Nat
  PROVE  computeDecisionTTL(e, t) \in 0..MaxTTL
BY GatewayAssumption DEF computeDecisionTTL

\* A refusal is an answer, and holds no stamp.
LEMMA RefusalType ==
  ASSUME NEW r \in Requests, NEW code \in GatewayErrors
  PROVE  Refusal(r, code) \in Answer
<1>1. NoStamps \in Stamps
  BY DEF NoStamps, Stamps
<1>2. ErrorResponse(code) \in Response
  BY ErrorResponseType
<1> QED BY <1>1, <1>2 DEF Refusal, Answer, Decision

\* The values a handler starts from have their types.
LEMMA InitialValues ==
  /\ NoStamps \in Stamps
  /\ NoLocals \in Locals
  /\ \A r \in Requests : NoAnswer(r) \in Answer
<1>1. NoStamps \in Stamps
  BY DEF NoStamps, Stamps
<1>2. ErrorResponse("internal_error") \in Response
  BY ErrorResponseType DEF GatewayErrors
<1>3. 0 \in 0..MaxTTL
  BY GatewayAssumption
<1>4. \A r \in Requests : NoAnswer(r) \in Answer
  BY RefusalType DEF NoAnswer, GatewayErrors
<1> QED BY <1>1, <1>2, <1>3, <1>4 DEF NoLocals, Locals

\* Writing a response and returning keeps the types.
LEMMA RespondType ==
  ASSUME TypeOK, NEW h \in Handlers, NEW response \in Answer, Respond(h, response)
  PROVE  /\ pc' \in [Handlers -> Steps]
         /\ local' \in [Handlers -> Locals]
         /\ answer' \in [Handlers -> Answer]
BY InitialValues DEF Respond, TypeOK, Steps

\* Refusing a request keeps the types.
LEMMA RefuseType ==
  ASSUME TypeOK, NEW h \in Handlers, NEW r \in Requests, NEW code \in GatewayErrors,
         Refuse(h, r, code)
  PROVE  /\ pc' \in [Handlers -> Steps]
         /\ local' \in [Handlers -> Locals]
         /\ answer' \in [Handlers -> Answer]
<1>1. Refusal(r, code) \in Answer
  BY RefusalType
<1> QED BY <1>1, RespondType DEF Refuse

-----------------------------------------------------------------------------
(* Type correctness *)

\* The service starts with every variable of its type.
LEMMA TypeInit == Init => TypeOK
<1> SUFFICES ASSUME Init PROVE TypeOK
  OBVIOUS
<1> DEFINE r == CHOOSE r \in Requests : TRUE
<1>1. r \in Requests
  BY GatewayAssumption
<1>2. clock \in Nat /\ changedAt \in Nat /\ changes \in Nat /\ policies \in PolicySets
  BY DEF Init
<1>3. trusted \in [Tenants -> SUBSET Dids] /\ removedAt \in [Tenants -> [Dids -> Nat]]
  BY GatewayAssumption DEF Init
<1>4. DOMAIN cache = {}
  BY DEF Init
<1>5. pc \in [Handlers -> Steps] /\ req \in [Handlers -> Requests]
  BY <1>1 DEF Init, Steps
<1>6. local \in [Handlers -> Locals] /\ answer \in [Handlers -> Answer]
  BY <1>1, InitialValues DEF Init
<1> QED BY <1>2, <1>3, <1>4, <1>5, <1>6 DEF TypeOK

\* The steps of a handler keep the types.  That the chain is not empty when the
\* response is built is what Position is needed for.
LEMMA TypeStep ==
  ASSUME TypeOK, NEW h \in Handlers, Position(h), Step(h)
  PROVE  TypeOK'
<1> USE DEF admin
<1>1. CASE CacheHit(h)
  <2> DEFINE key == buildCacheKey(req[h])
  <2>1. cache[key].decision \in Decision /\ clock \in Nat
    BY <1>1 DEF CacheHit, TypeOK, Entry
  <2>2. [decision |-> cache[key].decision, at |-> clock, cached |-> TRUE] \in Answer
    BY <2>1 DEF Answer
  <2>3. answer' \in [Handlers -> Answer] /\ local' \in [Handlers -> Locals]
    BY <1>1, <2>2, RespondType DEF CacheHit
  <2> QED BY <1>1, <2>3 DEF CacheHit, Respond, TypeOK, Steps
<1>2. CASE CacheMiss(h)
  <2>1. local' \in [Handlers -> Locals]
    BY <1>2 DEF CacheMiss, TypeOK, Locals
  <2> QED BY <1>2, <2>1 DEF CacheMiss, TypeOK, Steps
<1>3. CASE Verify(h)
  <2> DEFINE chain == Chain(req[h])
             i == local[h].idx
  <2>1. PICK key : LET error == ErrorAt(chain, i, key, req[h].aud, GatewayMaxDepth, local[h].now)
           IN  \/ /\ error # Ok
                  /\ Refuse(h, req[h], mapVerificationError(error))
               \/ /\ error = Ok
                  /\ pc' = [pc EXCEPT ![h] = IF i = Len(chain) THEN "policy" ELSE "verify"]
                  /\ local' = [local EXCEPT ![h].idx = i + 1]
                  /\ UNCHANGED answer
    BY <1>3 DEF Verify
  <2>2. /\ pc' \in [Handlers -> Steps]
        /\ local' \in [Handlers -> Locals]
        /\ answer' \in [Handlers -> Answer]
    <3> DEFINE error == ErrorAt(chain, i, key, req[h].aud, GatewayMaxDepth, local[h].now)
    <3> HIDE DEF error
    <3>1. CASE Refuse(h, req[h], mapVerificationError(error))
      <4>1. mapVerificationError(error) \in GatewayErrors
        BY mapVerificationErrorType
      <4>2. req[h] \in Requests
        BY DEF TypeOK
      <4> HIDE DEF chain, i
      <4> QED BY <3>1, <4>1, <4>2, RefuseType
    <3>2. CASE /\ pc' = [pc EXCEPT ![h] = IF i = Len(chain) THEN "policy" ELSE "verify"]
               /\ local' = [local EXCEPT ![h].idx = i + 1]
               /\ UNCHANGED answer
      <4>1. local' \in [Handlers -> Locals]
        <5>1. local[h] \in Locals /\ i + 1 \in Nat \ {0}
          BY DEF TypeOK, Locals
        <5>2. [local[h] EXCEPT !.idx = i + 1] \in Locals
          BY <5>1 DEF Locals
        <5> QED BY <3>2, <5>2 DEF TypeOK
      <4>2. pc' \in [Handlers -> Steps]
        <5> HIDE DEF chain, i
        <5> QED BY <3>2 DEF TypeOK, Steps
      <4> QED BY <3>2, <4>1, <4>2 DEF TypeOK
    <3> QED BY <2>1, <3>1, <3>2 DEF error
  <2> QED BY <1>3, <2>2 DEF Verify, TypeOK
<1>4. CASE EvaluatePolicy(h)
  <2>1. req[h] \in Requests
    BY DEF TypeOK
  <2>2. CASE \E code \in GatewayErrors : Refuse(h, req[h], code)
    <3>1. /\ pc' \in [Handlers -> Steps]
          /\ local' \in [Handlers -> Locals]
          /\ answer' \in [Handlers -> Answer]
      BY <2>1, <2>2, RefuseType
    <3> QED BY <1>4, <3>1 DEF EvaluatePolicy, TypeOK
  <2>3. CASE /\ pc' = [pc EXCEPT ![h] = IF req[h].synthetic THEN "mint" ELSE "ttl"]
             /\ local' = [local EXCEPT ![h].draft = AllowResponse(Chain(req[h])),
                                       ![h].stamps.evaluated = clock]
             /\ UNCHANGED answer
    <3>1. AllowResponse(Chain(req[h])) \in Response
      BY <1>4, <2>1, AllowResponseType DEF EvaluatePolicy, Position
    <3>2. local' \in [Handlers -> Locals]
      <4> DEFINE a == AllowResponse(Chain(req[h]))
                 s == [local[h].stamps EXCEPT !.evaluated = clock]
      <4>1. a \in Response /\ local[h] \in Locals /\ clock \in Nat
        BY <3>1 DEF TypeOK
      <4>2. s \in Stamps
        <5>1. local[h].stamps \in Stamps
          BY <4>1 DEF Locals
        <5> QED BY <4>1, <5>1 DEF Stamps
      <4>3. local' = [local EXCEPT ![h] = [local[h] EXCEPT !.draft = a, !.stamps = s]]
        BY <2>3
      <4> HIDE DEF a, s
      <4>4. [local[h] EXCEPT !.draft = a, !.stamps = s] \in Locals
        BY <4>1, <4>2 DEF Locals
      <4> QED BY <4>3, <4>4 DEF TypeOK
    <3> QED BY <1>4, <2>3, <3>2 DEF EvaluatePolicy, TypeOK, Steps
  <2> QED BY <1>4, <2>2, <2>3 DEF EvaluatePolicy, GatewayErrors
<1>5. CASE Mint(h)
  <2>1. req[h] \in Requests
    BY DEF TypeOK
  <2>2. CASE Refuse(h, req[h], "internal_error")
    <3>1. "internal_error" \in GatewayErrors
      BY DEF GatewayErrors
    <3>2. /\ pc' \in [Handlers -> Steps]
          /\ local' \in [Handlers -> Locals]
          /\ answer' \in [Handlers -> Answer]
      BY <2>1, <2>2, <3>1, RefuseType
    <3> QED BY <1>5, <3>2 DEF Mint, TypeOK
  <2>3. CASE /\ pc' = [pc EXCEPT ![h] = "ttl"]
             /\ local' = [local EXCEPT ![h].draft.jwtExp = clock + JwtTTL]
             /\ UNCHANGED answer
    <3>1. local' \in [Handlers -> Locals]
      <4> DEFINE d == [local[h].draft EXCEPT !.jwtExp = clock + JwtTTL]
      <4>1. local[h] \in Locals /\ clock + JwtTTL \in Nat
        BY GatewayAssumption DEF TypeOK
      <4>2. d \in Response
        <5>1. local[h].draft \in Response
          BY <4>1 DEF Locals
        <5> QED BY <4>1, <5>1 DEF Response
      <4>3. local' = [local EXCEPT ![h] = [local[h] EXCEPT !.draft = d]]
        BY <2>3
      <4> HIDE DEF d
      <4>4. [local[h] EXCEPT !.draft = d] \in Locals
        BY <4>1, <4>2 DEF Locals
      <4> QED BY <4>3, <4>4 DEF TypeOK
    <3> QED BY <1>5, <2>3, <3>1 DEF Mint, TypeOK, Steps
  <2> QED BY <1>5, <2>2, <2>3 DEF Mint
<1>6. CASE ComputeTTL(h)
  <2> DEFINE t == computeDecisionTTL(ExpiresAt(Leaf(Chain(req[h]))), clock)
  <2>1. Leaf(Chain(req[h])) \in Credential
    <3>1. req[h] \in Requests /\ req[h].chain # <<>>
      BY <1>6 DEF ComputeTTL, TypeOK, Position
    <3> QED BY <3>1, RequestFacts DEF Leaf
  <2>2. t \in 0..MaxTTL
    BY <2>1, ExpiresAtType, computeDecisionTTLType DEF TypeOK
  <2>3. local' \in [Handlers -> Locals]
    <3> DEFINE s == [local[h].stamps EXCEPT !.ttl = clock]
    <3>1. local[h] \in Locals /\ clock \in Nat
      BY DEF TypeOK
    <3>2. s \in Stamps
      <4>1. local[h].stamps \in Stamps
        BY <3>1 DEF Locals
      <4> QED BY <3>1, <4>1 DEF Stamps
    <3>3. local' = [local EXCEPT ![h] = [local[h] EXCEPT !.ttl = t, !.stamps = s]]
      BY <1>6 DEF ComputeTTL
    <3> HIDE DEF s, t
    <3>4. [local[h] EXCEPT !.ttl = t, !.stamps = s] \in Locals
      BY <2>2, <3>1, <3>2 DEF Locals
    <3> QED BY <3>3, <3>4 DEF TypeOK
  <2> QED BY <1>6, <2>3 DEF ComputeTTL, TypeOK, Steps
<1>7. CASE Persist(h)
  <2>1. req[h] \in Requests /\ local[h].draft \in Response /\ local[h].ttl \in Nat
        /\ local[h].stamps \in Stamps /\ clock \in Nat
    BY GatewayAssumption DEF TypeOK, Locals
  <2>3. [local[h].stamps EXCEPT !.stored = clock] \in Stamps
    BY <2>1 DEF Stamps
  <2>2. /\ pc' \in [Handlers -> Steps]
        /\ local' \in [Handlers -> Locals]
        /\ answer' \in [Handlers -> Answer]
    <3>1. [decision |-> [response |-> local[h].draft, origin |-> req[h],
                         stamps |-> [local[h].stamps EXCEPT !.stored = clock]],
           at |-> clock, cached |-> FALSE] \in Answer
      BY <2>1, <2>3 DEF Answer, Decision
    <3> QED BY <1>7, <3>1, RespondType DEF Persist
  <2>4. [decision |-> [response |-> local[h].draft, origin |-> req[h],
                       stamps |-> [local[h].stamps EXCEPT !.stored = clock]],
         deadline |-> clock + local[h].ttl] \in Entry
    BY <2>1, <2>3 DEF Entry, Decision
  <2>5. \A k \in DOMAIN cache' : cache'[k] \in Entry
    <3>1. CASE UNCHANGED cache
      BY <3>1 DEF TypeOK
    <3>2. CASE cache' = Put(buildCacheKey(req[h]),
            [decision |-> [response |-> local[h].draft, origin |-> req[h],
                           stamps |-> [local[h].stamps EXCEPT !.stored = clock]],
             deadline |-> clock + local[h].ttl])
      BY <2>4, <3>2 DEF TypeOK, Put
    <3> QED BY <1>7, <3>1, <3>2 DEF Persist
  <2> QED BY <1>7, <2>2, <2>5 DEF Persist, TypeOK
<1> QED BY <1>1, <1>2, <1>3, <1>4, <1>5, <1>6, <1>7 DEF Step

\* The steps that are not part of a running request keep the types.
LEMMA TypeOther ==
  ASSUME TypeOK,
         \/ \E h \in Handlers, r \in Requests : Start(h, r)
         \/ \E d \in Dids : AddTrustedIssuer(d)
         \/ \E t \in Tenants, d \in Dids : RemoveTrustedIssuer(t, d)
         \/ \E s \in PolicySets : ChangePolicies(s)
         \/ Tick
         \/ UNCHANGED vars
  PROVE  TypeOK'
<1>1. CASE \E h \in Handlers, r \in Requests : Start(h, r)
  <2>1. PICK h \in Handlers, r \in Requests : Start(h, r)
    BY <1>1
  <2>2. /\ pc' \in [Handlers -> Steps]
        /\ local' \in [Handlers -> Locals]
        /\ answer' \in [Handlers -> Answer]
    <3>1. CASE \E code \in GatewayErrors : Refuse(h, r, code)
      BY <3>1, RefuseType
    <3>2. CASE /\ pc' = [pc EXCEPT ![h] = "lookup"]
               /\ local' = [local EXCEPT ![h].stamps.started = clock]
               /\ answer' = [answer EXCEPT ![h] = NoAnswer(r)]
      <4> DEFINE s == [local[h].stamps EXCEPT !.started = clock]
      <4>1. local[h] \in Locals /\ clock \in Nat
        BY DEF TypeOK
      <4>2. s \in Stamps
        <5>1. local[h].stamps \in Stamps
          BY <4>1 DEF Locals
        <5> QED BY <4>1, <5>1 DEF Stamps
      <4>3. local' = [local EXCEPT ![h] = [local[h] EXCEPT !.stamps = s]]
        BY <3>2
      <4> HIDE DEF s
      <4>4. [local[h] EXCEPT !.stamps = s] \in Locals
        BY <4>1, <4>2 DEF Locals
      <4>5. local' \in [Handlers -> Locals]
        BY <4>3, <4>4 DEF TypeOK
      <4> QED BY <3>2, <4>5, InitialValues DEF TypeOK, Steps
    <3> QED BY <2>1, <3>1, <3>2 DEF Start, GatewayErrors
  <2> QED BY <2>1, <2>2 DEF Start, TypeOK, admin
<1>2. CASE \E d \in Dids : AddTrustedIssuer(d)
  BY <1>2, GatewayAssumption DEF AddTrustedIssuer, AdminChange, TypeOK
<1>3. CASE \E t \in Tenants, d \in Dids : RemoveTrustedIssuer(t, d)
  <2>1. PICK t \in Tenants, d \in Dids : RemoveTrustedIssuer(t, d)
    BY <1>3
  <2>2. trusted' \in [Tenants -> SUBSET Dids] /\ removedAt' \in [Tenants -> [Dids -> Nat]]
    BY <2>1 DEF RemoveTrustedIssuer, TypeOK
  <2> QED BY <2>1, <2>2 DEF RemoveTrustedIssuer, AdminChange, TypeOK
<1>4. CASE \E s \in PolicySets : ChangePolicies(s)
  BY <1>4 DEF ChangePolicies, AdminChange, TypeOK
<1>5. CASE Tick
  BY <1>5 DEF Tick, TypeOK, admin
<1>6. CASE UNCHANGED vars
  BY <1>6 DEF vars, admin, TypeOK
<1> QED BY <1>1, <1>2, <1>3, <1>4, <1>5, <1>6

-----------------------------------------------------------------------------
(* What one iteration of the verification loop adds *)

\* An iteration of VerifyCredentialChain that finds no error makes the part of
\* the chain that narrows one credential longer: the link checks compare
\* neighbours only, and cover all ancestors because they chain up.
LEMMA NarrowsMore ==
  ASSUME NEW n \in Nat, NEW chain \in Seq(Credential), n + 1 <= Len(chain),
         Narrows(chain, n),
         NEW key, NEW aud, NEW maxDepth, NEW t,
         ErrorAt(chain, n + 1, key, aud, maxDepth, t) = Ok
  PROVE  Narrows(chain, n + 1)
<1> SUFFICES ASSUME NEW j \in 1..(n + 1), NEW i \in 1..j
             PROVE  /\ ScopeOf(chain[j]) \subseteq ScopeOf(chain[i])
                    /\ ExpiresAt(chain[i]) # 0 =>
                         /\ ExpiresAt(chain[j]) # 0
                         /\ ExpiresAt(chain[j]) <= ExpiresAt(chain[i])
  BY DEF Narrows
<1>1. \A k \in 1..(n + 1) : ExpiresAt(chain[k]) \in Nat
  BY ExpiresAtType
<1>2. CASE j <= n
  BY <1>2 DEF Narrows
<1>3. CASE j = n + 1 /\ i = n + 1
  BY <1>1, <1>3
<1>4. CASE j = n + 1 /\ i <= n
  <2>1. /\ ScopeOf(chain[n + 1]) \subseteq ScopeOf(chain[n])
        /\ IsTTLWithinParent(ExpiresAt(chain[n]), ExpiresAt(chain[n + 1]))
    <3>1. n + 1 # 1 /\ (n + 1) - 1 = n
      BY <1>4
    <3>2. /\ ScopeOf(chain[n + 1]) \subseteq ScopeOf(chain[(n + 1) - 1])
          /\ IsTTLWithinParent(ExpiresAt(chain[(n + 1) - 1]), ExpiresAt(chain[n + 1]))
      BY <3>1, LinkNarrows
    <3> QED BY <3>1, <3>2
  <2>2. /\ ScopeOf(chain[n]) \subseteq ScopeOf(chain[i])
        /\ ExpiresAt(chain[i]) # 0 =>
             ExpiresAt(chain[n]) # 0 /\ ExpiresAt(chain[n]) <= ExpiresAt(chain[i])
    BY <1>4 DEF Narrows
  <2>3. ExpiresAt(chain[n]) \in Nat /\ ExpiresAt(chain[n + 1]) \in Nat
        /\ ExpiresAt(chain[i]) \in Nat
    BY <1>1, <1>4
  <2> QED BY <1>4, <2>1, <2>2, <2>3 DEF IsTTLWithinParent
<1> QED BY <1>2, <1>3, <1>4

\* The agent context of the response built for a chain that narrows.
LEMMA AllowResponseCovered ==
  ASSUME NEW r \in Requests, r.chain # <<>>, Narrows(Chain(r), Len(r.chain))
  PROVE  AgentCovered(AllowResponse(Chain(r)), r)
<1> DEFINE chain == Chain(r)
           n == Len(chain)
<1>1. n = Len(r.chain) /\ n \in Nat /\ n >= 1
  BY RequestFacts
<1> SUFFICES ASSUME NEW c \in AllowResponse(chain).agent, NEW i \in 1..(n - 1)
             PROVE  c.scope \subseteq ScopeOf(chain[i])
  BY <1>1 DEF AgentCovered
<1>2. c.scope \in {ScopeOf(chain[n - 1]), ScopeOf(chain[n])}
  BY DEF AllowResponse, BuildOnBehalfOfContext
<1>3. Narrows(chain, n)
  BY <1>1
<1> HIDE DEF chain, n
<1>4. /\ ScopeOf(chain[n]) \subseteq ScopeOf(chain[i])
      /\ ScopeOf(chain[n - 1]) \subseteq ScopeOf(chain[i])
  <2>1. n \in 1..n /\ i \in 1..n /\ n - 1 \in 1..n /\ i \in 1..(n - 1)
    BY <1>1
  <2> QED BY <1>3, <2>1 DEF Narrows
<1> QED BY <1>2, <1>4

\* The TTL computed from the leaf is within every credential of the chain.
LEMMA TTLWithinChain ==
  ASSUME NEW r \in Requests, r.chain # <<>>, Narrows(Chain(r), Len(r.chain)),
         NEW t \in Nat
  PROVE  WithinChain(r, t, computeDecisionTTL(ExpiresAt(Leaf(Chain(r))), t))
<1> DEFINE n == Len(r.chain)
           leaf == ExpiresAt(Chain(r)[n])
<1>1. n \in Nat /\ n >= 1 /\ Leaf(Chain(r)) = Chain(r)[n]
  BY RequestFacts DEF Leaf
<1>2. \A i \in 1..n : ExpiresAt(Chain(r)[i]) \in Nat
  BY RequestFacts, ExpiresAtType
<1>3. \A i \in 1..n : ExpiresAt(Chain(r)[i]) # 0 =>
        leaf # 0 /\ leaf <= ExpiresAt(Chain(r)[i])
  BY <1>1 DEF Narrows
<1>4. leaf \in Nat /\ (leaf # 0 => computeDecisionTTL(leaf, t) = 0
                                   \/ t + computeDecisionTTL(leaf, t) <= leaf)
  <2>1. leaf \in Nat
    BY <1>1, <1>2
  <2> HIDE DEF leaf
  <2> QED BY <2>1, GatewayAssumption DEF computeDecisionTTL
<1>5. computeDecisionTTL(leaf, t) \in Nat
  <2>1. computeDecisionTTL(leaf, t) \in 0..MaxTTL
    BY <1>4, computeDecisionTTLType
  <2> QED BY <2>1
<1> HIDE DEF leaf
<1> QED BY <1>1, <1>2, <1>3, <1>4, <1>5 DEF WithinChain, leaf

-----------------------------------------------------------------------------
(* A step of a handler disturbs no other handler *)

\* A step of handler h changes neither the environment nor another handler.
LEMMA StepFrame ==
  ASSUME TypeOK, NEW h \in Handlers, Step(h) \/ \E r \in Requests : Start(h, r)
  PROVE  /\ UNCHANGED <<clock, trusted, removedAt, policies, changedAt>>
         /\ \A g \in Handlers : g # h =>
              /\ pc'[g] = pc[g] /\ req'[g] = req[g]
              /\ local'[g] = local[g] /\ answer'[g] = answer[g]
<1>1. UNCHANGED <<clock, trusted, removedAt, policies, changedAt>>
  BY DEF Step, Start, CacheHit, CacheMiss, Verify, EvaluatePolicy, Mint, ComputeTTL,
         Persist, admin
<1>2. \A g \in Handlers : g # h => pc'[g] = pc[g]
  BY DEF Step, Start, CacheHit, CacheMiss, Verify, EvaluatePolicy, Mint, ComputeTTL,
         Persist, Refuse, Respond, TypeOK
<1>3. \A g \in Handlers : g # h => req'[g] = req[g]
  BY DEF Step, Start, CacheHit, CacheMiss, Verify, EvaluatePolicy, Mint, ComputeTTL,
         Persist, TypeOK
<1>4. \A g \in Handlers : g # h => local'[g] = local[g]
  BY DEF Step, Start, CacheHit, CacheMiss, Verify, EvaluatePolicy, Mint, ComputeTTL,
         Persist, Refuse, Respond, TypeOK
<1>5. \A g \in Handlers : g # h => answer'[g] = answer[g]
  BY DEF Step, Start, CacheHit, CacheMiss, Verify, EvaluatePolicy, Mint, ComputeTTL,
         Persist, Refuse, Respond, TypeOK
<1> QED BY <1>1, <1>2, <1>3, <1>4, <1>5

\* A handler that a step does not touch keeps what it knows.
LEMMA OtherHandler ==
  ASSUME NEW g \in Handlers, HandlerInv(g),
         UNCHANGED <<clock, trusted, removedAt, policies, changedAt>>,
         pc'[g] = pc[g], req'[g] = req[g], local'[g] = local[g], answer'[g] = answer[g]
  PROVE  HandlerInv(g)'
<1>1. Position(g)'
  BY DEF HandlerInv, Position
<1>2. Stamped(g)'
  BY DEF HandlerInv, Stamped
<1>3. Drafted(g)'
  BY DEF HandlerInv, Drafted, PolicyKept
<1>4. Timed(g)'
  BY DEF HandlerInv, Timed
<1>5. Resolved(g)'
  BY DEF HandlerInv, Resolved, TrustKept
<1>6. AnswerInv(g)'
  BY DEF HandlerInv, AnswerInv, DecisionInv, TrustKept, PolicyKept
<1> QED BY <1>1, <1>2, <1>3, <1>4, <1>5, <1>6 DEF HandlerInv

\* A handler that has returned has nothing left to know but its answer.
LEMMA Returned ==
  ASSUME NEW h \in Handlers, pc'[h] = "idle", local'[h] = NoLocals, clock' \in Nat,
         AnswerInv(h)'
  PROVE  HandlerInv(h)'
<1>1. Position(h)'
  BY DEF Position, Verified, NoLocals
<1>2. Stamped(h)'
  BY DEF Stamped, NoLocals, NoStamps
<1>3. Drafted(h)' /\ Timed(h)' /\ Resolved(h)'
  BY DEF Drafted, Timed, Resolved, Verified
<1> QED BY <1>1, <1>2, <1>3 DEF HandlerInv

\* A refusal is an answer about which nothing more has to be known.
LEMMA RefusalIsSound ==
  ASSUME TypeOK, NEW h \in Handlers, NEW r \in Requests, NEW code \in GatewayErrors,
         Refuse(h, r, code), clock' = clock
  PROVE  HandlerInv(h)'
<1>1. pc'[h] = "idle" /\ local'[h] = NoLocals
  BY DEF Refuse, Respond, TypeOK
<1>2. answer'[h] = Refusal(r, code)
  BY DEF Refuse, Respond, TypeOK
<1>3. AnswerInv(h)'
  <2>1. /\ ~Refusal(r, code).decision.response.allowed
        /\ ~Refusal(r, code).cached
        /\ Refusal(r, code).at = 0 /\ Refusal(r, code).decision.stamps.stored = 0
    BY DEF Refusal, ErrorResponse, NoStamps
  <2> QED BY <1>2, <2>1 DEF AnswerInv, DecisionInv
<1> QED BY <1>1, <1>3, Returned DEF TypeOK

-----------------------------------------------------------------------------
(* The steps of a handler, one by one *)

\* A handler that accepts a request starts with nothing verified.
LEMMA StartIsSound ==
  ASSUME TypeOK, NEW h \in Handlers, HandlerInv(h), NEW r \in Requests, Start(h, r)
  PROVE  HandlerInv(h)'
<1>1. clock' = clock /\ clock \in Nat
  BY DEF Start, TypeOK
<1>2. CASE \E code \in GatewayErrors : Refuse(h, r, code)
  BY <1>1, <1>2, RefusalIsSound
<1>3. CASE /\ validateGatewayRequest(r)
           /\ pc' = [pc EXCEPT ![h] = "lookup"]
           /\ local' = [local EXCEPT ![h].stamps.started = clock]
           /\ answer' = [answer EXCEPT ![h] = NoAnswer(r)]
  <2>1. pc'[h] = "lookup" /\ req'[h] = r /\ r.chain # <<>> /\ answer'[h] = NoAnswer(r)
    BY <1>3 DEF Start, TypeOK, validateGatewayRequest
  <2>2. local[h] \in Locals /\ local[h].stamps \in Stamps
    BY DEF TypeOK, Locals
  <2>3. /\ local'[h].idx = local[h].idx
        /\ local'[h].stamps.started = clock
        /\ local'[h].stamps.evaluated = local[h].stamps.evaluated
        /\ local'[h].stamps.ttl = local[h].stamps.ttl
    BY <1>3, <2>2 DEF TypeOK, Locals, Stamps
  <2>4. Position(h)'
    BY <2>1, <2>3 DEF Position, HandlerInv, Start, Verified
  <2>5. Stamped(h)'
    BY <1>1, <2>3 DEF Stamped, HandlerInv
  <2>6. Drafted(h)' /\ Timed(h)' /\ Resolved(h)'
    BY <2>1 DEF Drafted, Timed, Resolved, Verified
  <2>7. AnswerInv(h)'
    <3>1. /\ ~NoAnswer(r).decision.response.allowed
          /\ ~NoAnswer(r).cached
          /\ NoAnswer(r).at = 0 /\ NoAnswer(r).decision.stamps.stored = 0
      BY DEF NoAnswer, Refusal, ErrorResponse, NoStamps
    <3> QED BY <2>1, <3>1 DEF AnswerInv, DecisionInv
  <2> QED BY <2>4, <2>5, <2>6, <2>7 DEF HandlerInv
<1> QED BY <1>2, <1>3 DEF Start, GatewayErrors

\* A handler that answers from the cache answers with what the entry guarantees,
\* and before its deadline.
LEMMA CacheHitIsSound ==
  ASSUME TypeOK, NEW h \in Handlers, CacheHit(h), \A k \in DOMAIN cache : EntryInv(k)
  PROVE  HandlerInv(h)'
<1> DEFINE key == buildCacheKey(req[h])
<1>1. /\ pc'[h] = "idle" /\ local'[h] = NoLocals
      /\ key \in DOMAIN cache /\ clock < cache[key].deadline
      /\ answer'[h] = [decision |-> cache[key].decision, at |-> clock, cached |-> TRUE]
      /\ UNCHANGED <<clock, trusted, removedAt, policies, changedAt>>
  BY DEF CacheHit, Respond, TypeOK, admin
<1>2. EntryInv(key) /\ cache[key] \in Entry
  BY <1>1 DEF TypeOK
<1>3. answer'[h].decision = cache[key].decision /\ answer'[h].at = clock /\ answer'[h].cached
  BY <1>1
<1> HIDE DEF key
<1>4. DecisionInv(answer[h].decision)'
  BY <1>1, <1>2, <1>3 DEF EntryInv, DecisionInv, TrustKept, PolicyKept
<1>5. KeptUntil(cache[key].decision, clock + 1)
  <2> DEFINE d == cache[key].decision
             e == cache[key].deadline
  <2>1. d \in Decision /\ e \in Nat /\ clock \in Nat /\ clock + 1 <= e /\ KeptUntil(d, e)
    BY <1>1, <1>2 DEF TypeOK, Entry, EntryInv
  <2>2. d.origin \in Requests /\ d.stamps.stored \in Nat /\ d.stamps.ttl \in Nat
    BY <2>1 DEF Decision, Stamps
  <2>3. \A i \in 1..Len(d.origin.chain) : ExpiresAt(Chain(d.origin)[i]) \in Nat
    BY <2>2, RequestFacts, ExpiresAtType
  <2> HIDE DEF d, e
  <2>4. KeptUntil(d, clock + 1)
    <3>1. clock + 1 <= d.stamps.stored + MaxTTL
      <4>1. MaxTTL \in Nat /\ e <= d.stamps.stored + MaxTTL
        BY <2>1, GatewayAssumption DEF KeptUntil
      <4> QED BY <2>1, <2>2, <4>1
    <3>2. ASSUME NEW i \in 1..Len(d.origin.chain), ExpiresAt(Chain(d.origin)[i]) # 0
          PROVE  clock + 1 <= ExpiresAt(Chain(d.origin)[i])
                                + (d.stamps.stored - d.stamps.ttl)
      <4> DEFINE x == ExpiresAt(Chain(d.origin)[i])
      <4>1. x \in Nat /\ e <= x + (d.stamps.stored - d.stamps.ttl)
        BY <2>1, <2>3, <3>2 DEF KeptUntil
      <4> HIDE DEF x
      <4>2. clock + 1 <= x + (d.stamps.stored - d.stamps.ttl)
        BY <2>1, <2>2, <4>1
      <4> QED BY <4>2 DEF x
    <3> QED BY <3>1, <3>2 DEF KeptUntil
  <2> QED BY <2>4 DEF d
<1>6. buildCacheKey(answer'[h].decision.origin) = buildCacheKey(req'[h])
  BY <1>2, <1>3 DEF EntryInv, CacheHit, key
<1>7. AnswerInv(h)'
  BY <1>3, <1>4, <1>5, <1>6 DEF AnswerInv
<1> QED BY <1>1, <1>7, Returned DEF TypeOK

\* A handler that starts verifying has verified the empty part of its chain.
LEMMA CacheMissIsSound ==
  ASSUME TypeOK, NEW h \in Handlers, HandlerInv(h), CacheMiss(h)
  PROVE  HandlerInv(h)'
<1>1. /\ pc[h] = "lookup" /\ pc'[h] = "verify"
      /\ UNCHANGED <<clock, trusted, removedAt, policies, changedAt, req, answer>>
      /\ local' = [local EXCEPT ![h].now = clock]
  BY DEF CacheMiss, TypeOK, admin
<1>2. local'[h].idx = local[h].idx /\ local'[h].stamps = local[h].stamps
  BY <1>1 DEF TypeOK, Locals
<1>3. local[h].idx = 1 /\ req[h].chain # <<>>
  BY <1>1 DEF HandlerInv, Position
<1>4. Position(h)'
  <2>1. 1 <= Len(req[h].chain)
    <3>1. req[h] \in Requests
      BY DEF TypeOK
    <3> QED BY <1>3, <3>1, RequestFacts
  <2>2. Narrows(Chain(req[h]), 1 - 1)
    BY DEF Narrows
  <2> QED BY <1>1, <1>2, <1>3, <2>1, <2>2 DEF Position, Verified
<1>5. Stamped(h)'
  BY <1>1, <1>2 DEF Stamped, HandlerInv
<1>6. Drafted(h)' /\ Timed(h)' /\ Resolved(h)'
  BY <1>1, <1>2, <1>3 DEF Drafted, Timed, Resolved, Verified
<1>7. AnswerInv(h)'
  BY <1>1 DEF HandlerInv, AnswerInv, DecisionInv, TrustKept, PolicyKept
<1> QED BY <1>4, <1>5, <1>6, <1>7 DEF HandlerInv

\* An iteration of the verification loop: the credential narrows and its issuer
\* is trusted, for the tenant of the request and for the default tenant, now.
LEMMA VerifyIsSound ==
  ASSUME TypeOK, NEW h \in Handlers, HandlerInv(h), Verify(h)
  PROVE  HandlerInv(h)'
<1> DEFINE r == req[h]
           chain == Chain(r)
           i == local[h].idx
           error(key) == ErrorAt(chain, i, key, r.aud, GatewayMaxDepth, local[h].now)
<1>1. /\ pc[h] = "verify"
      /\ UNCHANGED <<clock, trusted, removedAt, policies, changedAt, req>>
      /\ clock \in Nat /\ r \in Requests /\ i \in Nat \ {0}
  BY DEF Verify, TypeOK, Locals, admin
<1>2. PICK key \in {ResolveIssuerPublicKey(r.tenant, chain[i].issuer), NoKey} :
        \/ /\ error(key) # Ok
           /\ Refuse(h, r, mapVerificationError(error(key)))
        \/ /\ error(key) = Ok
           /\ pc' = [pc EXCEPT ![h] = IF i = Len(chain) THEN "policy" ELSE "verify"]
           /\ local' = [local EXCEPT ![h].idx = i + 1]
           /\ UNCHANGED answer
  BY DEF Verify
<1>3. i <= Len(r.chain) /\ Narrows(chain, i - 1) /\ r.chain # <<>>
  BY <1>1 DEF HandlerInv, Position
<1>4. chain \in Seq(Credential) /\ Len(chain) = Len(r.chain) /\ Len(chain) \in Nat
  BY <1>1, RequestFacts
<1>5. CASE Refuse(h, r, mapVerificationError(error(key)))
  <2>1. mapVerificationError(error(key)) \in GatewayErrors
    BY mapVerificationErrorType
  <2> HIDE DEF error, chain, i, r
  <2> QED BY <1>1, <1>5, <2>1, RefusalIsSound
<1>6. CASE /\ error(key) = Ok
           /\ pc' = [pc EXCEPT ![h] = IF i = Len(chain) THEN "policy" ELSE "verify"]
           /\ local' = [local EXCEPT ![h].idx = i + 1]
           /\ UNCHANGED answer
  <2>1. /\ pc'[h] = IF i = Len(chain) THEN "policy" ELSE "verify"
        /\ local'[h].idx = i + 1
        /\ local'[h].stamps = local[h].stamps
        /\ req'[h] = r
    BY <1>1, <1>6 DEF TypeOK, Locals
  <2>2. Narrows(chain, i)
    <3> DEFINE n == i - 1
    <3>1. n \in Nat /\ n + 1 = i /\ n + 1 <= Len(chain) /\ Narrows(chain, n)
      BY <1>1, <1>3, <1>4
    <3>2. ErrorAt(chain, n + 1, key, r.aud, GatewayMaxDepth, local[h].now) = Ok
      BY <1>6, <3>1
    <3>3. Narrows(chain, n + 1)
      <4> HIDE DEF n, chain
      <4> QED BY <1>4, <3>1, <3>2, NarrowsMore
    <3> QED BY <3>1, <3>3
  <2>3. ASSUME NEW j \in Nat, j = i
        PROVE  TrustKept(req[h], j, local[h].stamps.started)'
    <3>1. key # NoKey
      <4> HIDE DEF chain, i, r
      <4> QED BY <1>6, OkMeansResolved DEF error
    <3>2. /\ chain[i].issuer \in trusted[r.tenant]
          /\ chain[i].issuer \in trusted[DefaultTenant]
      BY <3>1 DEF ResolveIssuerPublicKey
    <3> QED BY <1>1, <2>1, <2>3, <3>2 DEF TrustKept
  <2> HIDE DEF chain, i
  <2>4. Position(h)'
    <3>1. CASE i = Len(chain)
      BY <1>3, <1>4, <2>1, <2>2, <3>1 DEF Position, Verified, chain
    <3>2. CASE i # Len(chain)
      <4>1. pc'[h] = "verify" /\ i + 1 <= Len(r.chain) /\ (i + 1) - 1 = i
        BY <1>1, <1>3, <1>4, <2>1, <3>2
      <4> QED BY <1>3, <2>1, <2>2, <4>1 DEF Position, Verified, chain
    <3> QED BY <3>1, <3>2
  <2>5. Stamped(h)'
    BY <1>1, <2>1 DEF Stamped, HandlerInv
  <2>6. Drafted(h)' /\ Timed(h)'
    BY <2>1 DEF Drafted, Timed
  <2>7. ASSUME NEW j \in 1..i
        PROVE  TrustKept(req[h], j, local[h].stamps.started)'
    <3>1. CASE j = i
      BY <1>1, <2>3, <3>1
    <3>2. CASE j # i
      <4>1. j \in 1..(i - 1)
        BY <1>1, <3>2
      <4>2. TrustKept(req[h], j, local[h].stamps.started)
        BY <1>1, <4>1 DEF HandlerInv, Resolved, i
      <4> QED BY <1>1, <2>1, <4>2 DEF TrustKept
    <3> QED BY <3>1, <3>2
  <2>8. Resolved(h)'
    <3>1. (i + 1) - 1 = i
      BY <1>1
    <3> QED BY <1>4, <2>1, <2>7, <3>1 DEF Resolved, Verified
  <2>9. AnswerInv(h)'
    BY <1>1, <1>6 DEF HandlerInv, AnswerInv, DecisionInv, TrustKept, PolicyKept
  <2> QED BY <2>4, <2>5, <2>6, <2>8, <2>9 DEF HandlerInv
<1> QED BY <1>2, <1>5, <1>6

\* The policies allow the request now, and the agent context is covered.
LEMMA EvaluatePolicyIsSound ==
  ASSUME TypeOK, NEW h \in Handlers, HandlerInv(h), EvaluatePolicy(h)
  PROVE  HandlerInv(h)'
<1>1. /\ pc[h] = "policy"
      /\ UNCHANGED <<clock, trusted, removedAt, policies, changedAt, req>>
      /\ clock \in Nat /\ req[h] \in Requests
  BY DEF EvaluatePolicy, TypeOK, admin
<1>2. CASE \E code \in GatewayErrors : Refuse(h, req[h], code)
  BY <1>1, <1>2, RefusalIsSound
<1>3. CASE /\ Evaluate(policies, EvaluationInput(req[h])).allow
           /\ pc' = [pc EXCEPT ![h] = IF req[h].synthetic THEN "mint" ELSE "ttl"]
           /\ local' = [local EXCEPT ![h].draft = AllowResponse(Chain(req[h])),
                                     ![h].stamps.evaluated = clock]
           /\ UNCHANGED answer
  <2>1. pc'[h] \in {"mint", "ttl"} /\ local[h] \in Locals /\ local[h].stamps \in Stamps
    BY <1>3 DEF TypeOK, Locals
  <2>2. local'[h] = [local[h] EXCEPT !.draft = AllowResponse(Chain(req[h])),
                       !.stamps = [local[h].stamps EXCEPT !.evaluated = clock]]
    BY <1>3 DEF TypeOK
  <2>3. /\ local'[h].draft = AllowResponse(Chain(req[h]))
        /\ local'[h].stamps.started = local[h].stamps.started
        /\ local'[h].stamps.evaluated = clock
        /\ local'[h].stamps.ttl = local[h].stamps.ttl
    BY <2>1, <2>2 DEF Locals, Stamps
  <2>4. req[h].chain # <<>> /\ Narrows(Chain(req[h]), Len(req[h].chain))
    BY <1>1 DEF HandlerInv, Position, Verified
  <2>5. Position(h)'
    BY <1>1, <2>1, <2>4 DEF Position, Verified
  <2>6. Stamped(h)'
    BY <1>1, <2>3 DEF Stamped, HandlerInv
  <2>7. Drafted(h)'
    <3>1. AgentCovered(AllowResponse(Chain(req[h])), req[h])
      BY <1>1, <2>4, AllowResponseCovered
    <3> QED BY <1>1, <1>3, <2>3, <3>1 DEF Drafted, PolicyKept
  <2>8. Timed(h)'
    BY <2>1 DEF Timed
  <2>9. Resolved(h)'
    BY <1>1, <2>1, <2>3 DEF HandlerInv, Resolved, Verified, TrustKept
  <2>10. AnswerInv(h)'
    BY <1>1, <1>3 DEF HandlerInv, AnswerInv, DecisionInv, TrustKept, PolicyKept
  <2> QED BY <2>5, <2>6, <2>7, <2>8, <2>9, <2>10 DEF HandlerInv
<1> QED BY <1>2, <1>3 DEF EvaluatePolicy, GatewayErrors

\* Minting the synthetic JWT leaves the rest of the response alone.
LEMMA MintIsSound ==
  ASSUME TypeOK, NEW h \in Handlers, HandlerInv(h), Mint(h)
  PROVE  HandlerInv(h)'
<1>1. /\ pc[h] = "mint"
      /\ UNCHANGED <<clock, trusted, removedAt, policies, changedAt, req>>
      /\ clock \in Nat /\ req[h] \in Requests
  BY DEF Mint, TypeOK, admin
<1>2. CASE \E code \in GatewayErrors : Refuse(h, req[h], code)
  BY <1>1, <1>2, RefusalIsSound
<1>3. CASE /\ pc' = [pc EXCEPT ![h] = "ttl"]
           /\ local' = [local EXCEPT ![h].draft.jwtExp = clock + JwtTTL]
           /\ UNCHANGED answer
  <2>1. pc'[h] = "ttl" /\ local[h] \in Locals /\ local[h].draft \in Response
    BY <1>3 DEF TypeOK, Locals
  <2>2. local'[h] = [local[h] EXCEPT
                       !.draft = [local[h].draft EXCEPT !.jwtExp = clock + JwtTTL]]
    BY <1>3 DEF TypeOK
  <2>3. local'[h].draft.agent = local[h].draft.agent
    <3>1. local'[h].draft = [local[h].draft EXCEPT !.jwtExp = clock + JwtTTL]
      BY <2>1, <2>2 DEF Locals
    <3> QED BY <2>1, <3>1 DEF Response
  <2>4. local'[h].stamps = local[h].stamps
    BY <2>1, <2>2 DEF Locals
  <2>5. Position(h)'
    BY <1>1, <2>1 DEF HandlerInv, Position, Verified
  <2>6. Stamped(h)'
    BY <1>1, <2>4 DEF Stamped, HandlerInv
  <2>7. Drafted(h)'
    BY <1>1, <2>1, <2>3, <2>4 DEF HandlerInv, Drafted, PolicyKept, AgentCovered
  <2>8. Timed(h)'
    BY <2>1 DEF Timed
  <2>9. Resolved(h)'
    BY <1>1, <2>1, <2>4 DEF HandlerInv, Resolved, Verified, TrustKept
  <2>10. AnswerInv(h)'
    BY <1>1, <1>3 DEF HandlerInv, AnswerInv, DecisionInv, TrustKept, PolicyKept
  <2> QED BY <2>5, <2>6, <2>7, <2>8, <2>9, <2>10 DEF HandlerInv
<1> QED BY <1>2, <1>3 DEF Mint, GatewayErrors

\* The TTL is computed from the leaf, and holds for the whole chain.
LEMMA ComputeTTLIsSound ==
  ASSUME TypeOK, NEW h \in Handlers, HandlerInv(h), ComputeTTL(h)
  PROVE  HandlerInv(h)'
<1> DEFINE life == computeDecisionTTL(ExpiresAt(Leaf(Chain(req[h]))), clock)
<1>1. /\ pc[h] = "ttl" /\ pc'[h] = "persist"
      /\ UNCHANGED <<clock, trusted, removedAt, policies, changedAt, req, answer>>
      /\ clock \in Nat /\ req[h] \in Requests
  BY DEF ComputeTTL, TypeOK, admin
<1>2. local[h] \in Locals /\ local[h].stamps \in Stamps
  BY DEF TypeOK, Locals
<1>3. local'[h] = [local[h] EXCEPT !.ttl = life,
                     !.stamps = [local[h].stamps EXCEPT !.ttl = clock]]
  BY DEF ComputeTTL, TypeOK
<1>4. req[h].chain # <<>> /\ Narrows(Chain(req[h]), Len(req[h].chain))
  BY <1>1 DEF HandlerInv, Position, Verified
<1>5. WithinChain(req[h], clock, life)
  BY <1>1, <1>4, TTLWithinChain
<1> HIDE DEF life
<1>6. /\ local'[h].draft = local[h].draft
      /\ local'[h].ttl = life
      /\ local'[h].stamps.started = local[h].stamps.started
      /\ local'[h].stamps.evaluated = local[h].stamps.evaluated
      /\ local'[h].stamps.ttl = clock
  BY <1>2, <1>3 DEF Locals, Stamps
<1>7. Position(h)'
  BY <1>1, <1>4 DEF Position, Verified
<1>8. Stamped(h)'
  BY <1>1, <1>6 DEF Stamped, HandlerInv
<1>9. Drafted(h)'
  BY <1>1, <1>6 DEF HandlerInv, Drafted, PolicyKept
<1>10. Timed(h)'
  BY <1>1, <1>5, <1>6 DEF Timed
<1>11. Resolved(h)'
  BY <1>1, <1>6 DEF HandlerInv, Resolved, Verified, TrustKept
<1>12. AnswerInv(h)'
  BY <1>1 DEF HandlerInv, AnswerInv, DecisionInv, TrustKept, PolicyKept
<1> QED BY <1>7, <1>8, <1>9, <1>10, <1>11, <1>12 DEF HandlerInv

\* The decision a handler stores is sound, and is kept no longer than it may be.
LEMMA StoredDecision ==
  ASSUME TypeOK, NEW h \in Handlers, HandlerInv(h), pc[h] = "persist",
         NEW d, d = [response |-> local[h].draft, origin |-> req[h],
                     stamps |-> [local[h].stamps EXCEPT !.stored = clock]]
  PROVE  /\ DecisionInv(d)
         /\ d.stamps.stored = clock
         /\ local[h].ttl > 0 => KeptUntil(d, clock + local[h].ttl)
<1>1. /\ local[h].stamps \in Stamps /\ clock \in Nat /\ req[h] \in Requests
      /\ local[h].ttl \in 0..MaxTTL /\ MaxTTL \in Nat
  BY GatewayAssumption DEF TypeOK, Locals
<1>2. /\ d.response = local[h].draft /\ d.origin = req[h]
      /\ d.stamps.started = local[h].stamps.started
      /\ d.stamps.evaluated = local[h].stamps.evaluated
      /\ d.stamps.ttl = local[h].stamps.ttl
      /\ d.stamps.stored = clock
  BY <1>1 DEF Stamps
<1>3. DecisionInv(d)
  BY <1>2 DEF DecisionInv, HandlerInv, Stamped, Drafted, Resolved, Verified
<1>4. ASSUME local[h].ttl > 0 PROVE KeptUntil(d, clock + local[h].ttl)
  <2>1. local[h].stamps.ttl \in Nat /\ local[h].ttl \in Nat /\ local[h].ttl <= MaxTTL
    BY <1>1 DEF Stamps
  <2>2. clock + local[h].ttl <= d.stamps.stored + MaxTTL
    BY <1>1, <1>2, <2>1
  <2>3. ASSUME NEW i \in 1..Len(req[h].chain), ExpiresAt(Chain(req[h])[i]) # 0
        PROVE  clock + local[h].ttl
                 <= ExpiresAt(Chain(req[h])[i]) + (clock - local[h].stamps.ttl)
    <3> DEFINE x == ExpiresAt(Chain(req[h])[i])
    <3>1. x \in Nat
      BY <1>1, RequestFacts, ExpiresAtType
    <3>2. local[h].stamps.ttl + local[h].ttl <= x
      BY <1>4, <2>1, <2>3 DEF HandlerInv, Timed, WithinChain
    <3> HIDE DEF x
    <3>3. clock + local[h].ttl <= x + (clock - local[h].stamps.ttl)
      BY <1>1, <2>1, <3>1, <3>2
    <3> QED BY <3>3 DEF x
  <2> QED BY <1>2, <2>2, <2>3 DEF KeptUntil
<1> QED BY <1>2, <1>3, <1>4

\* persistDecision and the answer: the entry and the answer hold the same sound
\* decision.
LEMMA PersistIsSound ==
  ASSUME TypeOK, NEW h \in Handlers, HandlerInv(h), Persist(h),
         \A k \in DOMAIN cache : EntryInv(k)
  PROVE  HandlerInv(h)' /\ \A k \in DOMAIN cache' : EntryInv(k)'
<1> DEFINE d == [response |-> local[h].draft, origin |-> req[h],
                 stamps |-> [local[h].stamps EXCEPT !.stored = clock]]
           key == buildCacheKey(req[h])
           life == local[h].ttl
<1>1. /\ pc[h] = "persist" /\ pc'[h] = "idle" /\ local'[h] = NoLocals
      /\ UNCHANGED <<clock, trusted, removedAt, policies, changedAt>>
      /\ clock \in Nat
      /\ answer'[h] = [decision |-> d, at |-> clock, cached |-> FALSE]
  BY DEF Persist, Respond, TypeOK, admin
<1>2. /\ DecisionInv(d)
      /\ d.stamps.stored = clock
      /\ life > 0 => KeptUntil(d, clock + life)
      /\ buildCacheKey(d.origin) = key
  BY <1>1, StoredDecision
<1>3. \/ life > 0 /\ cache' = Put(key, [decision |-> d, deadline |-> clock + life])
      \/ UNCHANGED cache
  BY DEF Persist
<1>4. PICK e, m, x : e = d /\ m = clock + life /\ x = key
  OBVIOUS
<1> HIDE DEF d, key, life
<1>5. /\ DecisionInv(e)
      /\ e.stamps.stored = clock
      /\ life > 0 => KeptUntil(e, m)
      /\ buildCacheKey(e.origin) = x
      /\ answer'[h] = [decision |-> e, at |-> clock, cached |-> FALSE]
      /\ \/ life > 0 /\ cache' = Put(x, [decision |-> e, deadline |-> m])
         \/ UNCHANGED cache
  BY <1>1, <1>2, <1>3, <1>4
<1>6. AnswerInv(h)'
  <2>1. answer'[h].decision = e /\ answer'[h].at = clock /\ ~answer'[h].cached
    BY <1>5
  <2>2. DecisionInv(answer[h].decision)'
    BY <1>1, <1>5, <2>1 DEF DecisionInv, TrustKept, PolicyKept
  <2> QED BY <1>1, <1>5, <2>1, <2>2 DEF AnswerInv
<1>7. HandlerInv(h)'
  BY <1>1, <1>6, Returned
<1>8. ASSUME NEW k \in DOMAIN cache' PROVE EntryInv(k)'
  <2>1. CASE k = x /\ cache'[k] = [decision |-> e, deadline |-> m] /\ life > 0
    BY <1>1, <1>5, <2>1 DEF EntryInv, DecisionInv, TrustKept, PolicyKept
  <2>2. CASE k \in DOMAIN cache /\ cache'[k] = cache[k]
    BY <1>1, <2>2 DEF EntryInv, DecisionInv, TrustKept, PolicyKept
  <2> QED BY <1>5, <1>8, <2>1, <2>2 DEF Put
<1> QED BY <1>7, <1>8

\* A step of a handler that leaves the cache alone leaves its entries sound.
LEMMA EntriesKept ==
  ASSUME UNCHANGED <<clock, trusted, removedAt, policies, changedAt, cache>>,
         \A k \in DOMAIN cache : EntryInv(k)
  PROVE  \A k \in DOMAIN cache' : EntryInv(k)'
BY DEF EntryInv, DecisionInv, TrustKept, PolicyKept

-----------------------------------------------------------------------------
(* Administrators and time *)

\* What happens besides the requests.
Environment ==
  \/ \E d \in Dids : AddTrustedIssuer(d)
  \/ \E t \in Tenants, d \in Dids : RemoveTrustedIssuer(t, d)
  \/ \E s \in PolicySets : ChangePolicies(s)
  \/ Tick

\* Administrators and time touch nothing of the handlers or of the cache; what
\* was known of the registry and the policies at s is still known.
LEMMA EnvironmentFrame ==
  ASSUME TypeOK, Environment
  PROVE  /\ UNCHANGED <<cache, pc, req, local, answer>>
         /\ clock \in Nat /\ clock' \in Nat /\ clock <= clock'
         /\ \A t \in Tenants, d \in Dids :
              \A s \in Nat : s <= clock /\ (d \in trusted[t] \/ s <= removedAt[t][d])
                               => d \in trusted'[t] \/ s <= removedAt'[t][d]
         /\ \A r : \A s \in Nat : s <= clock /\ PolicyKept(r, s) => PolicyKept(r, s)'
<1>1. CASE \E d \in Dids : AddTrustedIssuer(d)
  <2>1. PICK x \in Dids : AddTrustedIssuer(x)
    BY <1>1
  <2>2. \A t \in Tenants : trusted[t] \subseteq trusted'[t]
    BY <2>1 DEF AddTrustedIssuer, TypeOK
  <2> QED BY <2>1, <2>2 DEF AddTrustedIssuer, PolicyKept, TypeOK
<1>2. CASE \E t \in Tenants, d \in Dids : RemoveTrustedIssuer(t, d)
  <2>1. PICK u \in Tenants, x \in Dids : RemoveTrustedIssuer(u, x)
    BY <1>2
  <2>2. \A t \in Tenants, d \in Dids :
          \/ trusted'[t] = trusted[t] /\ removedAt'[t][d] = removedAt[t][d]
          \/ removedAt'[t][d] = clock
          \/ /\ d \in trusted[t] => d \in trusted'[t]
             /\ removedAt'[t][d] = removedAt[t][d]
    BY <2>1 DEF RemoveTrustedIssuer, TypeOK
  <2>3. UNCHANGED <<clock, policies, changedAt, cache, pc, req, local, answer>>
    BY <2>1 DEF RemoveTrustedIssuer
  <2> QED BY <2>2, <2>3 DEF PolicyKept, TypeOK
<1>3. CASE \E s \in PolicySets : ChangePolicies(s)
  BY <1>3 DEF ChangePolicies, PolicyKept, TypeOK
<1>4. CASE Tick
  BY <1>4 DEF Tick, PolicyKept, TypeOK, admin
<1> QED BY <1>1, <1>2, <1>3, <1>4 DEF Environment

\* What a request knows of an issuer survives registry changes and time.
LEMMA TrustKeptOverTime ==
  ASSUME TypeOK, Environment, NEW r \in Requests, NEW i \in 1..Len(r.chain),
         NEW s \in Nat, s <= clock, TrustKept(r, i, s)
  PROVE  TrustKept(r, i, s)'
<1>1. r.tenant \in Tenants /\ Chain(r)[i].issuer \in Dids
  <2>1. r.tenant \in Tenants /\ Chain(r)[i] \in Credential
    BY RequestFacts
  <2> QED BY <2>1 DEF Credential
<1>2. DefaultTenant \in Tenants
  BY GatewayAssumption
<1> QED BY <1>1, <1>2, EnvironmentFrame DEF TrustKept

\* What holds of an allow survives registry and policy changes and time.
LEMMA DecisionKeptOverTime ==
  ASSUME TypeOK, Environment, NEW d \in Decision, DecisionInv(d)
  PROVE  DecisionInv(d)'
<1> SUFFICES ASSUME d.response.allowed
             PROVE  /\ d.stamps.started <= clock' /\ d.stamps.evaluated <= clock'
                    /\ \A i \in 1..Len(d.origin.chain) :
                         TrustKept(d.origin, i, d.stamps.started)'
                    /\ PolicyKept(d.origin, d.stamps.evaluated)'
  BY DEF DecisionInv
<1>1. d.origin \in Requests /\ d.stamps.started \in Nat /\ d.stamps.evaluated \in Nat
  BY DEF Decision, Stamps
<1>2. d.stamps.started <= clock /\ d.stamps.evaluated <= clock
  BY DEF DecisionInv
<1>3. clock \in Nat /\ clock' \in Nat /\ clock <= clock'
  BY EnvironmentFrame
<1>4. ASSUME NEW i \in 1..Len(d.origin.chain)
      PROVE  TrustKept(d.origin, i, d.stamps.started)'
  <2>1. TrustKept(d.origin, i, d.stamps.started)
    BY DEF DecisionInv
  <2> QED BY <1>1, <1>2, <2>1, TrustKeptOverTime
<1>5. PolicyKept(d.origin, d.stamps.evaluated)'
  <2>1. PolicyKept(d.origin, d.stamps.evaluated)
    BY DEF DecisionInv
  <2> QED BY <1>1, <1>2, <2>1, EnvironmentFrame
<1> QED BY <1>1, <1>2, <1>3, <1>4, <1>5

\* Administrators and time keep the invariant of handlers and of the cache.
LEMMA EnvironmentIsSound ==
  ASSUME TypeOK, Environment, \A h \in Handlers : HandlerInv(h),
         \A k \in DOMAIN cache : EntryInv(k)
  PROVE  /\ \A h \in Handlers : HandlerInv(h)'
         /\ \A k \in DOMAIN cache' : EntryInv(k)'
<1>1. /\ UNCHANGED <<cache, pc, req, local, answer>>
      /\ clock \in Nat /\ clock' \in Nat /\ clock <= clock'
  BY EnvironmentFrame
<1>2. ASSUME NEW h \in Handlers PROVE HandlerInv(h)'
  <2>1. /\ local[h].stamps.started \in Nat /\ local[h].stamps.evaluated \in Nat
        /\ local[h].stamps.ttl \in Nat /\ local[h].idx \in Nat
        /\ req[h] \in Requests /\ Len(req[h].chain) \in Nat
        /\ answer[h].decision \in Decision
    BY RequestFacts DEF TypeOK, Locals, Stamps, Answer
  <2>2. Stamped(h) /\ Position(h) /\ Drafted(h) /\ Timed(h) /\ Resolved(h) /\ AnswerInv(h)
    BY DEF HandlerInv
  <2>3. Position(h)' /\ Timed(h)'
    BY <1>1, <2>2 DEF Position, Timed
  <2>4. Stamped(h)'
    BY <1>1, <2>1, <2>2 DEF Stamped
  <2>5. Drafted(h)'
    <3>1. local[h].stamps.evaluated <= clock
      BY <2>2 DEF Stamped
    <3>2. ASSUME pc[h] \in {"mint", "ttl", "persist"}
          PROVE  PolicyKept(req[h], local[h].stamps.evaluated)'
      <4>1. PICK r \in Requests, s \in Nat : r = req[h] /\ s = local[h].stamps.evaluated
        BY <2>1
      <4>2. PolicyKept(r, s) /\ s <= clock
        BY <2>2, <3>1, <3>2, <4>1 DEF Drafted
      <4>3. PolicyKept(r, s)'
        BY <4>2, EnvironmentFrame
      <4> QED BY <1>1, <4>1, <4>3 DEF PolicyKept
    <3> QED BY <1>1, <2>2, <3>2 DEF Drafted
  <2>6. Resolved(h)'
    <3>1. ASSUME NEW i \in 1..Len(req[h].chain),
                 TrustKept(req[h], i, local[h].stamps.started)
          PROVE  TrustKept(req[h], i, local[h].stamps.started)'
      <4>1. PICK r \in Requests, s \in Nat : r = req[h] /\ s = local[h].stamps.started
        BY <2>1
      <4>2. TrustKept(r, i, s) /\ s <= clock /\ i \in 1..Len(r.chain)
        BY <2>2, <3>1, <4>1 DEF Stamped
      <4>3. TrustKept(r, i, s)'
        BY <4>2, TrustKeptOverTime
      <4> QED BY <1>1, <4>1, <4>3 DEF TrustKept
    <3>2. ASSUME pc[h] = "verify", NEW i \in 1..(local[h].idx - 1)
          PROVE  TrustKept(req[h], i, local[h].stamps.started)'
      <4>1. i \in 1..Len(req[h].chain)
        BY <2>1, <2>2, <3>2 DEF Position
      <4>2. TrustKept(req[h], i, local[h].stamps.started)
        BY <2>2, <3>2 DEF Resolved
      <4> QED BY <3>1, <4>1, <4>2
    <3>3. ASSUME pc[h] \in Verified, NEW i \in 1..Len(req[h].chain)
          PROVE  TrustKept(req[h], i, local[h].stamps.started)'
      BY <2>2, <3>1, <3>3 DEF Resolved
    <3> QED BY <1>1, <3>2, <3>3 DEF Resolved
  <2>7. AnswerInv(h)'
    <3>1. PICK d \in Decision : d = answer[h].decision
      BY <2>1
    <3>2. DecisionInv(d)
      BY <2>2, <3>1 DEF AnswerInv
    <3>3. DecisionInv(d)'
      BY <3>2, DecisionKeptOverTime
    <3>4. DecisionInv(answer[h].decision)'
      BY <1>1, <3>1, <3>3 DEF DecisionInv, TrustKept, PolicyKept
    <3> QED BY <1>1, <2>2, <3>4 DEF AnswerInv
  <2> QED BY <2>3, <2>4, <2>5, <2>6, <2>7 DEF HandlerInv
<1>3. ASSUME NEW k \in DOMAIN cache' PROVE EntryInv(k)'
  <2>1. k \in DOMAIN cache /\ cache'[k] = cache[k]
    BY <1>1
  <2>2. PICK d \in Decision : d = cache[k].decision
    BY <2>1 DEF TypeOK, Entry
  <2>3. DecisionInv(d) /\ KeptUntil(d, cache[k].deadline)
    BY <2>1, <2>2 DEF EntryInv
  <2>4. DecisionInv(d)'
    BY <2>3, DecisionKeptOverTime
  <2>5. DecisionInv(cache[k].decision)'
    BY <2>1, <2>2, <2>4 DEF DecisionInv, TrustKept, PolicyKept
  <2> QED BY <2>1, <2>2, <2>3, <2>5 DEF EntryInv
<1> QED BY <1>2, <1>3

-----------------------------------------------------------------------------
(* The invariant is inductive *)

\* The invariant holds when the service starts.
LEMMA InvInit == Init => Inv
<1> SUFFICES ASSUME Init PROVE Inv
  OBVIOUS
<1>1. TypeOK
  BY TypeInit
<1>2. DOMAIN cache = {}
  BY DEF Init
<1>3. ASSUME NEW h \in Handlers PROVE HandlerInv(h)
  <2>1. PICK r \in Requests : answer[h] = NoAnswer(r)
    BY <1>3, GatewayAssumption DEF Init
  <2>2. pc[h] = "idle" /\ local[h] = NoLocals /\ clock = 0
    BY DEF Init
  <2>3. Position(h)
    BY <2>2 DEF Position, Verified, NoLocals
  <2>4. Stamped(h)
    BY <2>2 DEF Stamped, NoLocals, NoStamps
  <2>5. Drafted(h) /\ Timed(h) /\ Resolved(h)
    BY <2>2 DEF Drafted, Timed, Resolved, Verified
  <2>6. AnswerInv(h)
    <3>1. /\ ~NoAnswer(r).decision.response.allowed
          /\ ~NoAnswer(r).cached
          /\ NoAnswer(r).at = 0 /\ NoAnswer(r).decision.stamps.stored = 0
      BY DEF NoAnswer, Refusal, ErrorResponse, NoStamps
    <3> QED BY <2>1, <3>1 DEF AnswerInv, DecisionInv
  <2> QED BY <2>3, <2>4, <2>5, <2>6 DEF HandlerInv
<1> QED BY <1>1, <1>2, <1>3 DEF Inv

\* Every step keeps the invariant.
LEMMA InvNext == Inv /\ [Next]_vars => Inv'
<1> SUFFICES ASSUME Inv, [Next]_vars PROVE Inv'
  OBVIOUS
<1>1. /\ TypeOK
      /\ \A h \in Handlers : HandlerInv(h)
      /\ \A k \in DOMAIN cache : EntryInv(k)
  BY DEF Inv
<1>2. ASSUME NEW h \in Handlers, NEW r \in Requests, Start(h, r)
      PROVE  Inv'
  <2>1. TypeOK'
    BY <1>1, <1>2, TypeOther
  <2>2. HandlerInv(h)'
    BY <1>1, <1>2, StartIsSound
  <2>3. \A g \in Handlers : HandlerInv(g)'
    BY <1>1, <1>2, <2>2, StepFrame, OtherHandler
  <2>4. \A k \in DOMAIN cache' : EntryInv(k)'
    <3>1. UNCHANGED <<clock, trusted, removedAt, policies, changedAt, cache>>
      BY <1>2 DEF Start, admin
    <3> QED BY <1>1, <3>1, EntriesKept
  <2> QED BY <2>1, <2>3, <2>4 DEF Inv
<1>3. ASSUME NEW h \in Handlers, Step(h)
      PROVE  Inv'
  <2>1. TypeOK'
    BY <1>1, <1>3, TypeStep DEF HandlerInv
  <2>2. HandlerInv(h)'
    BY <1>1, <1>3, CacheHitIsSound, CacheMissIsSound, VerifyIsSound,
       EvaluatePolicyIsSound, MintIsSound, ComputeTTLIsSound, PersistIsSound DEF Step
  <2>3. \A g \in Handlers : HandlerInv(g)'
    BY <1>1, <1>3, <2>2, StepFrame, OtherHandler
  <2>4. \A k \in DOMAIN cache' : EntryInv(k)'
    <3>1. CASE Persist(h)
      BY <1>1, <3>1, PersistIsSound
    <3>2. CASE ~Persist(h)
      <4>1. UNCHANGED <<clock, trusted, removedAt, policies, changedAt, cache>>
        BY <1>3, <3>2 DEF Step, CacheHit, CacheMiss, Verify, EvaluatePolicy, Mint,
                          ComputeTTL, admin
      <4> QED BY <1>1, <4>1, EntriesKept
    <3> QED BY <3>1, <3>2
  <2> QED BY <2>1, <2>3, <2>4 DEF Inv
<1>4. CASE Environment
  <2>1. TypeOK'
    BY <1>1, <1>4, TypeOther DEF Environment
  <2> QED BY <1>1, <1>4, <2>1, EnvironmentIsSound DEF Inv
<1>5. CASE UNCHANGED vars
  <2>1. TypeOK'
    BY <1>1, <1>5, TypeOther
  <2>2. UNCHANGED <<clock, trusted, removedAt, policies, changedAt, cache, pc, req,
                    local, answer>>
    BY <1>5 DEF vars, admin
  <2>3. \A g \in Handlers : HandlerInv(g)'
    BY <1>1, <2>2, OtherHandler
  <2>4. \A k \in DOMAIN cache' : EntryInv(k)'
    BY <1>1, <2>2, EntriesKept
  <2> QED BY <2>1, <2>3, <2>4 DEF Inv
<1> QED BY <1>2, <1>3, <1>4, <1>5 DEF Next, Environment

\* Every reachable state of the gateway satisfies the inductive invariant.
THEOREM Invariance == Spec => []Inv
BY InvInit, InvNext, PTL DEF Spec

-----------------------------------------------------------------------------
(* What the invariant implies *)

\* Every variable keeps its type, for every instance of the gateway: what
\* AllowResponse builds is a response only because a chain that reached it is
\* not empty (validateGatewayRequest), and a TTL is never negative.
THEOREM TypeCorrect == Spec => []TypeOK
<1>1. Inv => TypeOK
  BY DEF Inv
<1> QED BY <1>1, Invariance, PTL

\* What the invariant says of an allow some handler has answered with.
LEMMA AllowedFacts ==
  ASSUME Inv, NEW a \in AllowedAnswers
  PROVE  /\ a \in Answer
         /\ DecisionInv(a.decision) /\ a.decision.response.allowed
         /\ a.cached => KeptUntil(a.decision, a.at + 1)
         /\ ~a.cached => a.at <= a.decision.stamps.stored
         /\ a.at \in Nat /\ a.decision.origin \in Requests
         /\ a.decision.stamps \in Stamps
<1>1. PICK h \in Handlers : a = answer[h] /\ answer[h].decision.response.allowed
  BY DEF AllowedAnswers
<1>2. TypeOK /\ AnswerInv(h)
  BY DEF Inv, HandlerInv
<1>3. a \in Answer
  BY <1>1, <1>2 DEF TypeOK
<1> QED BY <1>1, <1>2, <1>3 DEF AnswerInv, Answer, Decision

\* The allow was given no later than Delay after a moment s of the deciding
\* request, if what it relied on has changed at s or later.
LEMMA WithinDelay ==
  ASSUME Inv, NEW a \in AllowedAnswers, NEW s \in Nat, NEW c \in Nat, s <= c
  PROVE  a.at <= c + Delay(a, s)
<1>1. a.at \in Nat /\ a.decision.stamps.stored \in Nat /\ MaxTTL \in Nat
  BY AllowedFacts, GatewayAssumption DEF Stamps
<1>2. CASE a.cached
  <2>1. a.at + 1 <= a.decision.stamps.stored + MaxTTL
    BY <1>2, AllowedFacts DEF KeptUntil
  <2> QED BY <1>1, <1>2, <2>1 DEF Delay
<1>3. CASE ~a.cached
  <2>1. a.at <= a.decision.stamps.stored
    BY <1>3, AllowedFacts
  <2> QED BY <1>1, <1>3, <2>1 DEF Delay
<1> QED BY <1>2, <1>3

\* The TTL of a cached allow, computed from the leaf alone, is right for every
\* credential of its chain.
THEOREM CachedAllowExpires == Spec => []CachedAllowExpiresWithChain
<1>1. Inv => CachedAllowExpiresWithChain
  <2> SUFFICES ASSUME Inv, NEW a \in AllowedAnswers, a.cached,
                      NEW i \in DOMAIN a.decision.origin.chain,
                      ExpiresAt(Chain(a.decision.origin)[i]) # 0
               PROVE  a.at < ExpiresAt(Chain(a.decision.origin)[i])
                               + (a.decision.stamps.stored - a.decision.stamps.ttl)
    BY DEF CachedAllowExpiresWithChain
  <2> DEFINE x == ExpiresAt(Chain(a.decision.origin)[i])
  <2>1. /\ a.at \in Nat /\ a.decision.origin \in Requests
        /\ a.decision.stamps.stored \in Nat /\ a.decision.stamps.ttl \in Nat
    BY AllowedFacts DEF Stamps
  <2>2. i \in 1..Len(a.decision.origin.chain) /\ x \in Nat
    BY <2>1, RequestFacts, ExpiresAtType
  <2>3. a.at + 1 <= x + (a.decision.stamps.stored - a.decision.stamps.ttl)
    BY <2>2, AllowedFacts DEF KeptUntil
  <2> HIDE DEF x
  <2>4. \A at, e, stored, ttl \in Nat :
          at + 1 <= e + (stored - ttl) => at < e + (stored - ttl)
    OBVIOUS
  <2>5. a.at < x + (a.decision.stamps.stored - a.decision.stamps.ttl)
    BY <2>1, <2>2, <2>3, <2>4
  <2> QED BY <2>5 DEF x
<1> QED BY <1>1, Invariance, PTL

\* An issuer that was removed from the registry is honoured for at most MaxTTL
\* plus the time the deciding request took, however requests, registry changes
\* and the cache interleave.
THEOREM TrustRemoval == Spec => []TrustRemovalTakesEffect
<1>1. Inv => TrustRemovalTakesEffect
  <2> SUFFICES ASSUME Inv, NEW a \in AllowedAnswers,
                      NEW i \in DOMAIN a.decision.origin.chain,
                      NEW t \in {a.decision.origin.tenant, DefaultTenant},
                      Chain(a.decision.origin)[i].issuer \notin trusted[t]
               PROVE  a.at <= removedAt[t][Chain(a.decision.origin)[i].issuer]
                                + Delay(a, a.decision.stamps.started)
    BY DEF TrustRemovalTakesEffect
  <2> DEFINE issuer == Chain(a.decision.origin)[i].issuer
  <2>1. a.decision.origin \in Requests /\ a.decision.stamps.started \in Nat
    BY AllowedFacts DEF Stamps
  <2>2. i \in 1..Len(a.decision.origin.chain) /\ t \in Tenants /\ issuer \in Dids
    <3>1. /\ i \in 1..Len(a.decision.origin.chain)
          /\ Chain(a.decision.origin)[i] \in Credential
          /\ a.decision.origin.tenant \in Tenants
      BY <2>1, RequestFacts
    <3>2. t \in Tenants
      BY <3>1, GatewayAssumption
    <3> QED BY <3>1, <3>2 DEF Credential
  <2>3. a.decision.stamps.started <= removedAt[t][issuer]
    BY <2>2, AllowedFacts DEF DecisionInv, TrustKept
  <2>4. removedAt[t][issuer] \in Nat
    BY <2>2 DEF Inv, TypeOK
  <2> HIDE DEF issuer
  <2>5. a.at <= removedAt[t][issuer] + Delay(a, a.decision.stamps.started)
    BY <2>1, <2>3, <2>4, WithinDelay
  <2> QED BY <2>5 DEF issuer
<1> QED BY <1>1, Invariance, PTL

\* A policy that was changed or deleted is honoured for at most MaxTTL plus the
\* time the deciding request took after evaluating it.
THEOREM PolicyChange == Spec => []PolicyChangeTakesEffect
<1>1. Inv => PolicyChangeTakesEffect
  <2> SUFFICES ASSUME Inv, NEW a \in AllowedAnswers,
                      ~Evaluate(policies, EvaluationInput(a.decision.origin)).allow
               PROVE  a.at <= changedAt + Delay(a, a.decision.stamps.evaluated)
    BY DEF PolicyChangeTakesEffect
  <2>1. a.decision.stamps.evaluated \in Nat /\ changedAt \in Nat
    BY AllowedFacts DEF Stamps, Inv, TypeOK
  <2>2. a.decision.stamps.evaluated <= changedAt
    BY AllowedFacts DEF DecisionInv, PolicyKept
  <2> QED BY <2>1, <2>2, WithinDelay
<1> QED BY <1>1, Invariance, PTL

\* The scope reported for an agent is covered by every credential above the
\* leaf, for chains of any length.
THEOREM AgentScope == Spec => []AgentScopeWithinChain
<1>1. Inv => AgentScopeWithinChain
  BY AllowedFacts DEF AgentScopeWithinChain, DecisionInv, AgentCovered
<1> QED BY <1>1, Invariance, PTL

-----------------------------------------------------------------------------
(* Synthetic JWTs *)

\* The moment from which verification refuses a credential, 0 if there is none.
Limit(c) == IF c.format = "w3c" THEN c.exp ELSE ExpiresAt(c)

\* None of the first n credentials of r had expired at s.
InTime(r, n, s) ==
  \A i \in 1..n : Limit(Chain(r)[i]) # 0 => s < Limit(Chain(r)[i])

\* A token minted after the policies were evaluated and no later than last.
MintedBy(jwtExp, evaluated, last) ==
  jwtExp # 0 => evaluated + JwtTTL <= jwtExp /\ jwtExp <= last + JwtTTL

\* What is known of the token of a decision, wherever it is kept.
JwtBounded(d) ==
  d.response.jwtExp # 0 =>
    /\ InTime(d.origin, Len(d.origin.chain), d.stamps.started)
    /\ MintedBy(d.response.jwtExp, d.stamps.evaluated, d.stamps.ttl)

\* What a handler knows before it has answered: what it verified had not expired
\* when the request arrived, although it is verified at a later reading of the
\* clock, and the token it has minted lies between its stamps.
JwtKnown(h) ==
  LET stamps == local[h].stamps  jwtExp == local[h].draft.jwtExp
  IN  /\ pc[h] = "verify" =>
           stamps.started <= local[h].now /\ InTime(req[h], local[h].idx - 1, stamps.started)
      /\ pc[h] \in Verified => InTime(req[h], Len(req[h].chain), stamps.started)
      /\ pc[h] = "ttl" => MintedBy(jwtExp, stamps.evaluated, clock)
      /\ pc[h] = "persist" => MintedBy(jwtExp, stamps.evaluated, stamps.ttl)

JwtInv ==
  /\ \A h \in Handlers : JwtKnown(h) /\ JwtBounded(answer[h].decision)
  /\ \A k \in DOMAIN cache : JwtBounded(cache[k].decision)

\* A handler that has returned, or has just started, knows nothing of a token.
LEMMA JwtIdle ==
  ASSUME NEW h \in Handlers, pc'[h] \in {"idle", "lookup"},
         answer'[h].decision.response.jwtExp = 0
  PROVE  JwtKnown(h)' /\ JwtBounded(answer[h].decision)'
BY DEF JwtKnown, JwtBounded, Verified

\* A refusal carries no token.
LEMMA JwtRefused ==
  ASSUME TypeOK, NEW h \in Handlers, NEW r, NEW code, Refuse(h, r, code)
  PROVE  JwtKnown(h)' /\ JwtBounded(answer[h].decision)'
<1>1. pc'[h] = "idle" /\ answer'[h].decision.response = ErrorResponse(code)
  BY DEF Refuse, Respond, Refusal, TypeOK
<1> QED BY <1>1, JwtIdle DEF ErrorResponse

\* A handler that stands still keeps what it knows while time passes.
LEMMA JwtKept ==
  ASSUME NEW g \in Handlers, JwtKnown(g), JwtBounded(answer[g].decision),
         local[g].draft.jwtExp \in Nat, clock \in Nat, clock' \in Nat, clock <= clock',
         pc'[g] = pc[g], req'[g] = req[g], local'[g] = local[g], answer'[g] = answer[g]
  PROVE  JwtKnown(g)' /\ JwtBounded(answer[g].decision)'
<1>1. JwtBounded(answer[g].decision)'
  BY DEF JwtBounded
<1>2. pc[g] = "ttl" => MintedBy(local[g].draft.jwtExp, local[g].stamps.evaluated, clock')
  BY GatewayAssumption DEF JwtKnown, MintedBy
<1> QED BY <1>1, <1>2 DEF JwtKnown

\* The request is accepted, and verification begins.
LEMMA JwtBegins ==
  ASSUME TypeOK, NEW h \in Handlers, HandlerInv(h), JwtBounded(answer[h].decision),
         (\E r \in Requests : Start(h, r)) \/ CacheMiss(h)
  PROVE  JwtKnown(h)' /\ JwtBounded(answer[h].decision)'
<1>1. ASSUME NEW r \in Requests, Start(h, r)
      PROVE  JwtKnown(h)' /\ JwtBounded(answer[h].decision)'
  <2>1. CASE \E code \in GatewayErrors : Refuse(h, r, code)
    BY <2>1, JwtRefused
  <2>2. CASE /\ pc' = [pc EXCEPT ![h] = "lookup"]
             /\ answer' = [answer EXCEPT ![h] = NoAnswer(r)]
    <3>1. pc'[h] = "lookup" /\ answer'[h] = NoAnswer(r)
      BY <2>2 DEF TypeOK
    <3>2. answer'[h].decision.response.jwtExp = 0
      BY <3>1 DEF NoAnswer, Refusal, ErrorResponse
    <3> QED BY <3>1, <3>2, JwtIdle
  <2> QED BY <1>1, <2>1, <2>2 DEF Start, GatewayErrors
<1>2. CASE CacheMiss(h)
  <2>1. /\ pc[h] = "lookup" /\ pc'[h] = "verify" /\ req' = req /\ answer' = answer
        /\ local' = [local EXCEPT ![h].now = clock]
    BY <1>2 DEF CacheMiss, TypeOK
  <2>2. /\ local'[h].now = clock /\ local'[h].stamps = local[h].stamps
        /\ local'[h].idx = local[h].idx
    BY <2>1 DEF TypeOK, Locals
  <2>3. local[h].stamps.started <= clock /\ local[h].idx = 1
    BY <2>1 DEF HandlerInv, Stamped, Position
  <2>4. InTime(req[h], 1 - 1, local[h].stamps.started)
    BY DEF InTime
  <2>5. JwtBounded(answer[h].decision)'
    BY <2>1 DEF JwtBounded
  <2> QED BY <2>1, <2>2, <2>3, <2>4, <2>5 DEF JwtKnown, Verified
<1> QED BY <1>1, <1>2

\* A credential that verifies had not expired when the request arrived.
LEMMA JwtVerifies ==
  ASSUME TypeOK, NEW h \in Handlers, HandlerInv(h), JwtKnown(h),
         JwtBounded(answer[h].decision), Verify(h)
  PROVE  JwtKnown(h)' /\ JwtBounded(answer[h].decision)'
<1> DEFINE r == req[h]
           chain == Chain(r)
           i == local[h].idx
           s == local[h].stamps.started
           error(key) == ErrorAt(chain, i, key, r.aud, GatewayMaxDepth, local[h].now)
<1>1. /\ pc[h] = "verify" /\ req' = req /\ r \in Requests /\ i \in Nat \ {0}
      /\ s \in Nat /\ local[h].now \in Nat
  BY DEF Verify, TypeOK, Locals, Stamps
<1>2. PICK key \in {ResolveIssuerPublicKey(r.tenant, chain[i].issuer), NoKey} :
        \/ /\ error(key) # Ok
           /\ Refuse(h, r, mapVerificationError(error(key)))
        \/ /\ error(key) = Ok
           /\ pc' = [pc EXCEPT ![h] = IF i = Len(chain) THEN "policy" ELSE "verify"]
           /\ local' = [local EXCEPT ![h].idx = i + 1]
           /\ UNCHANGED answer
  BY DEF Verify
<1>3. CASE Refuse(h, r, mapVerificationError(error(key)))
  <2> HIDE DEF error, r
  <2> QED BY <1>3, JwtRefused
<1>4. CASE /\ error(key) = Ok
           /\ pc' = [pc EXCEPT ![h] = IF i = Len(chain) THEN "policy" ELSE "verify"]
           /\ local' = [local EXCEPT ![h].idx = i + 1]
           /\ UNCHANGED answer
  <2>1. /\ pc'[h] = IF i = Len(chain) THEN "policy" ELSE "verify"
        /\ local'[h].idx = i + 1 /\ local'[h].stamps = local[h].stamps
        /\ local'[h].now = local[h].now
    BY <1>4 DEF TypeOK, Locals
  <2>2. s <= local[h].now /\ InTime(r, i - 1, s)
    BY <1>1 DEF JwtKnown
  <2>3. ~Expired(chain[i], local[h].now)
    <3> HIDE DEF chain, i, r
    <3> QED BY <1>4, OkMeansResolved DEF error
  <2>4. i <= Len(r.chain) /\ Len(chain) = Len(r.chain) /\ Len(chain) \in Nat
        /\ chain[i] \in Credential
    BY <1>1, RequestFacts DEF HandlerInv, Position
  <2>5. Limit(chain[i]) # 0 => s < Limit(chain[i])
    <3>1. Limit(chain[i]) \in Nat
      BY <2>4, ExpiresAtType, CredentialChainAssumption DEF Limit, Credential
    <3>2. Limit(chain[i]) > 0 => ~(local[h].now >= Limit(chain[i]))
      BY <2>3 DEF Expired, Limit
    <3> HIDE DEF chain, i, s
    <3> QED BY <1>1, <2>2, <3>1, <3>2
  <2>6. InTime(r, i, s)
    <3> SUFFICES ASSUME NEW j \in 1..i, Limit(chain[j]) # 0 PROVE s < Limit(chain[j])
      BY DEF InTime
    <3>1. CASE j = i
      BY <2>5, <3>1
    <3>2. CASE j # i
      <4>1. j \in 1..(i - 1)
        BY <1>1, <3>2
      <4> QED BY <2>2, <4>1 DEF InTime
    <3> QED BY <3>1, <3>2
  <2>7. JwtBounded(answer[h].decision)'
    BY <1>4 DEF JwtBounded
  <2>8. pc'[h] = "verify" => /\ local'[h].stamps.started <= local'[h].now
                             /\ InTime(req'[h], local'[h].idx - 1, local'[h].stamps.started)
    <3>1. (i + 1) - 1 = i
      BY <1>1
    <3> QED BY <1>1, <2>1, <2>2, <2>6, <3>1
  <2>9. pc'[h] \in Verified => InTime(req'[h], Len(req'[h].chain), local'[h].stamps.started)
    <3>1. pc'[h] \in Verified => i = Len(r.chain)
      BY <2>1, <2>4 DEF Verified
    <3> QED BY <1>1, <2>1, <2>6, <3>1
  <2>10. pc'[h] # "ttl" /\ pc'[h] # "persist"
    BY <2>1
  <2> QED BY <2>7, <2>8, <2>9, <2>10 DEF JwtKnown
<1> QED BY <1>2, <1>3, <1>4

\* The token is minted between the evaluation of the policies and the TTL.
LEMMA JwtMinted ==
  ASSUME TypeOK, NEW h \in Handlers, HandlerInv(h), JwtKnown(h),
         JwtBounded(answer[h].decision), EvaluatePolicy(h) \/ Mint(h) \/ ComputeTTL(h)
  PROVE  JwtKnown(h)' /\ JwtBounded(answer[h].decision)'
<1>1. /\ pc[h] \in Verified /\ req' = req /\ clock' = clock /\ clock \in Nat
      /\ local[h] \in Locals /\ local[h].stamps \in Stamps /\ local[h].draft \in Response
  BY DEF EvaluatePolicy, Mint, ComputeTTL, TypeOK, Locals, Verified
<1>2. InTime(req[h], Len(req[h].chain), local[h].stamps.started)
  BY <1>1 DEF JwtKnown
<1>3. CASE \E code \in GatewayErrors : Refuse(h, req[h], code)
  BY <1>3, JwtRefused
<1>4. CASE /\ pc' = [pc EXCEPT ![h] = IF req[h].synthetic THEN "mint" ELSE "ttl"]
           /\ local' = [local EXCEPT ![h].draft = AllowResponse(Chain(req[h])),
                                     ![h].stamps.evaluated = clock]
           /\ UNCHANGED answer
  <2>1. pc'[h] \in {"mint", "ttl"} /\ answer' = answer
    BY <1>4 DEF TypeOK
  <2>2. local'[h] = [local[h] EXCEPT !.draft = AllowResponse(Chain(req[h])),
                       !.stamps = [local[h].stamps EXCEPT !.evaluated = clock]]
    BY <1>4 DEF TypeOK
  <2>3. /\ local'[h].draft = AllowResponse(Chain(req[h]))
        /\ local'[h].stamps.started = local[h].stamps.started
    BY <1>1, <2>2 DEF Locals, Stamps
  <2>4. AllowResponse(Chain(req[h])).jwtExp = 0
    BY DEF AllowResponse
  <2> QED BY <1>1, <1>2, <2>1, <2>3, <2>4 DEF JwtKnown, JwtBounded, MintedBy, Verified
<1>5. CASE /\ pc[h] = "mint" /\ pc' = [pc EXCEPT ![h] = "ttl"]
           /\ local' = [local EXCEPT ![h].draft.jwtExp = clock + JwtTTL]
           /\ UNCHANGED answer
  <2>1. pc'[h] = "ttl" /\ answer' = answer
    BY <1>5 DEF TypeOK
  <2>2. local'[h] = [local[h] EXCEPT
                       !.draft = [local[h].draft EXCEPT !.jwtExp = clock + JwtTTL]]
    BY <1>5 DEF TypeOK
  <2>3. /\ local'[h].draft = [local[h].draft EXCEPT !.jwtExp = clock + JwtTTL]
        /\ local'[h].stamps = local[h].stamps
    BY <1>1, <2>2 DEF Locals
  <2>4. local'[h].draft.jwtExp = clock + JwtTTL
    BY <1>1, <2>3 DEF Response
  <2>5. MintedBy(clock + JwtTTL, local[h].stamps.evaluated, clock)
    <3>1. local[h].stamps.evaluated <= clock /\ local[h].stamps.evaluated \in Nat
      BY <1>1 DEF HandlerInv, Stamped, Stamps
    <3> QED BY <1>1, <3>1, GatewayAssumption DEF MintedBy
  <2> QED BY <1>1, <1>2, <2>1, <2>3, <2>4, <2>5 DEF JwtKnown, JwtBounded, Verified
<1>6. CASE ComputeTTL(h)
  <2>1. pc[h] = "ttl" /\ pc'[h] = "persist" /\ answer' = answer
    BY <1>6 DEF ComputeTTL, TypeOK
  <2> DEFINE life == computeDecisionTTL(ExpiresAt(Leaf(Chain(req[h]))), clock)
  <2>2. local'[h] = [local[h] EXCEPT !.ttl = life,
                       !.stamps = [local[h].stamps EXCEPT !.ttl = clock]]
    BY <1>6 DEF ComputeTTL, TypeOK
  <2> HIDE DEF life
  <2>3. /\ local'[h].draft = local[h].draft
        /\ local'[h].stamps.started = local[h].stamps.started
        /\ local'[h].stamps.evaluated = local[h].stamps.evaluated
        /\ local'[h].stamps.ttl = clock
    BY <1>1, <2>2 DEF Locals, Stamps
  <2>4. MintedBy(local[h].draft.jwtExp, local[h].stamps.evaluated, clock)
    BY <2>1 DEF JwtKnown
  <2> QED BY <1>1, <1>2, <2>1, <2>3, <2>4 DEF JwtKnown, JwtBounded, Verified
<1> QED BY <1>3, <1>4, <1>5, <1>6 DEF EvaluatePolicy, Mint, GatewayErrors

\* The decision that is stored and answered carries the token with its stamps.
LEMMA JwtPersists ==
  ASSUME TypeOK, NEW h \in Handlers, JwtInv, Persist(h)
  PROVE  /\ JwtKnown(h)' /\ JwtBounded(answer[h].decision)'
         /\ \A k \in DOMAIN cache' : JwtBounded(cache'[k].decision)
<1> DEFINE d == [response |-> local[h].draft, origin |-> req[h],
                 stamps |-> [local[h].stamps EXCEPT !.stored = clock]]
<1>1. /\ pc[h] = "persist" /\ pc'[h] = "idle"
      /\ answer'[h] = [decision |-> d, at |-> clock, cached |-> FALSE]
  BY DEF Persist, Respond, TypeOK
<1>2. JwtBounded(d)
  <2>1. /\ InTime(req[h], Len(req[h].chain), local[h].stamps.started)
        /\ MintedBy(local[h].draft.jwtExp, local[h].stamps.evaluated, local[h].stamps.ttl)
    BY <1>1 DEF JwtInv, JwtKnown, Verified
  <2>2. local[h].stamps \in Stamps
    BY DEF TypeOK, Locals
  <2>3. /\ d.response = local[h].draft /\ d.origin = req[h]
        /\ d.stamps.started = local[h].stamps.started
        /\ d.stamps.evaluated = local[h].stamps.evaluated
        /\ d.stamps.ttl = local[h].stamps.ttl
    BY <2>2 DEF Stamps
  <2> QED BY <2>1, <2>3 DEF JwtBounded
<1> DEFINE key == buildCacheKey(req[h])
           m == clock + local[h].ttl
<1>3. cache' = Put(key, [decision |-> d, deadline |-> m]) \/ UNCHANGED cache
  BY DEF Persist
<1> HIDE DEF d, key, m
<1>4. JwtKnown(h)' /\ JwtBounded(answer[h].decision)'
  <2>1. JwtKnown(h)'
    BY <1>1 DEF JwtKnown, Verified
  <2>2. answer'[h].decision = d
    BY <1>1
  <2> QED BY <1>2, <2>1, <2>2 DEF JwtBounded
<1>5. ASSUME NEW k \in DOMAIN cache' PROVE JwtBounded(cache'[k].decision)
  <2>1. \/ cache'[k].decision = d
        \/ k \in DOMAIN cache /\ cache'[k] = cache[k]
    BY <1>3, <1>5 DEF Put
  <2> QED BY <1>2, <2>1 DEF JwtInv
<1> QED BY <1>4, <1>5

\* Every step keeps what is known of the tokens.
LEMMA JwtNext == Inv /\ JwtInv /\ [Next]_vars => JwtInv'
<1> SUFFICES ASSUME Inv, JwtInv, [Next]_vars PROVE JwtInv'
  OBVIOUS
<1>1. /\ TypeOK /\ clock \in Nat
      /\ \A g \in Handlers : local[g].draft.jwtExp \in Nat
      /\ \A g \in Handlers : HandlerInv(g) /\ JwtKnown(g) /\ JwtBounded(answer[g].decision)
  BY DEF Inv, JwtInv, TypeOK, Locals, Response
<1>2. ASSUME NEW h \in Handlers, Step(h) \/ \E r \in Requests : Start(h, r)
      PROVE  JwtInv'
  <2>1. \A g \in Handlers \ {h} : JwtKnown(g)' /\ JwtBounded(answer[g].decision)'
    BY <1>1, <1>2, StepFrame, JwtKept
  <2>2. CASE Persist(h)
    <3>1. /\ JwtKnown(h)' /\ JwtBounded(answer[h].decision)'
          /\ \A k \in DOMAIN cache' : JwtBounded(cache'[k].decision)
      BY <1>1, <2>2, JwtPersists
    <3>2. \A k \in DOMAIN cache' : JwtBounded(cache[k].decision)'
      BY <3>1 DEF JwtBounded
    <3> QED BY <2>1, <3>1, <3>2 DEF JwtInv
  <2>3. CASE ~Persist(h)
    <3>1. cache' = cache
      BY <1>2, <2>3 DEF Step, Start, CacheHit, CacheMiss, Verify, EvaluatePolicy, Mint,
                        ComputeTTL
    <3>2. \A k \in DOMAIN cache' : JwtBounded(cache[k].decision)'
      BY <3>1 DEF JwtInv, JwtBounded
    <3>3. CASE CacheHit(h)
      <4>1. pc'[h] = "idle" /\ \E k \in DOMAIN cache : answer'[h].decision = cache[k].decision
        BY <1>1, <3>3 DEF CacheHit, Respond, TypeOK
      <4>2. JwtKnown(h)'
        BY <4>1 DEF JwtKnown, Verified
      <4>3. JwtBounded(answer[h].decision)'
        BY <4>1 DEF JwtInv, JwtBounded
      <4> QED BY <2>1, <3>2, <4>2, <4>3 DEF JwtInv
    <3>4. CASE ~CacheHit(h)
      <4>1. JwtKnown(h)' /\ JwtBounded(answer[h].decision)'
        BY <1>1, <1>2, <2>3, <3>4, JwtBegins, JwtVerifies, JwtMinted DEF Step
      <4> QED BY <2>1, <3>2, <4>1 DEF JwtInv
    <3> QED BY <3>3, <3>4
  <2> QED BY <2>2, <2>3
<1>3. CASE Environment \/ UNCHANGED vars
  <2>1. /\ UNCHANGED <<cache, pc, req, local, answer>>
        /\ clock' \in Nat /\ clock <= clock'
    BY <1>1, <1>3, EnvironmentFrame DEF vars
  <2>2. \A g \in Handlers : JwtKnown(g)' /\ JwtBounded(answer[g].decision)'
    BY <1>1, <2>1, JwtKept
  <2>3. \A k \in DOMAIN cache' : JwtBounded(cache[k].decision)'
    BY <2>1 DEF JwtInv, JwtBounded
  <2> QED BY <2>2, <2>3 DEF JwtInv
<1> QED BY <1>2, <1>3 DEF Next, Environment

\* A synthetic JWT outlives the credentials it stands for by less than its own
\* lifetime plus the time its request took, from the cache too, and is handed out
\* with its lifetime left but for the time the request and the cache held it, for
\* every lifetime of tokens and of cache entries.
THEOREM SyntheticJWT == Spec => []SyntheticJWTIsBounded
<1>1. Init => JwtInv
  <2> SUFFICES ASSUME Init PROVE JwtInv
    OBVIOUS
  <2>1. DOMAIN cache = {}
    BY DEF Init
  <2>2. ASSUME NEW h \in Handlers PROVE JwtKnown(h) /\ JwtBounded(answer[h].decision)
    <3>1. \E r : answer[h] = NoAnswer(r)
      BY DEF Init
    <3>2. pc[h] = "idle" /\ answer[h].decision.response.jwtExp = 0
      BY <3>1 DEF Init, NoAnswer, Refusal, ErrorResponse
    <3> QED BY <3>2 DEF JwtKnown, JwtBounded, Verified
  <2> QED BY <2>1, <2>2 DEF JwtInv
<1>2. Inv /\ JwtInv => SyntheticJWTIsBounded
  <2> SUFFICES ASSUME Inv, JwtInv, NEW a \in AllowedAnswers, a.decision.response.jwtExp # 0
               PROVE  LET jwtExp == a.decision.response.jwtExp  stamps == a.decision.stamps
                      IN  /\ \A i \in DOMAIN a.decision.origin.chain :
                               LET c == Chain(a.decision.origin)[i]
                                   limit == IF c.format = "w3c" THEN c.exp ELSE ExpiresAt(c)
                               IN  limit # 0 =>
                                     jwtExp < limit + JwtTTL + (stamps.ttl - stamps.started)
                          /\ a.at + JwtTTL <= jwtExp + Delay(a, stamps.evaluated)
    BY DEF SyntheticJWTIsBounded
  <2> DEFINE d == a.decision
             x == d.response.jwtExp
  <2>1. /\ a \in Answer /\ d.origin \in Requests /\ d.stamps \in Stamps /\ a.at \in Nat
    BY AllowedFacts
  <2>2. /\ x \in Nat /\ d.stamps.started \in Nat /\ d.stamps.evaluated \in Nat
        /\ d.stamps.ttl \in Nat /\ d.stamps.stored \in Nat /\ JwtTTL \in Nat /\ MaxTTL \in Nat
    BY <2>1, GatewayAssumption DEF Answer, Decision, Response, Stamps
  <2>3. JwtBounded(d)
    BY DEF AllowedAnswers, JwtInv
  <2>4. /\ InTime(d.origin, Len(d.origin.chain), d.stamps.started)
        /\ d.stamps.evaluated + JwtTTL <= x /\ x <= d.stamps.ttl + JwtTTL
    BY <2>3 DEF JwtBounded, MintedBy
  <2>5. ASSUME NEW i \in DOMAIN d.origin.chain, Limit(Chain(d.origin)[i]) # 0
        PROVE  x < Limit(Chain(d.origin)[i]) + JwtTTL + (d.stamps.ttl - d.stamps.started)
    <3>1. i \in 1..Len(d.origin.chain) /\ Chain(d.origin)[i] \in Credential
      BY <2>1, RequestFacts
    <3>2. PICK limit \in Nat : limit = Limit(Chain(d.origin)[i])
      BY <3>1, ExpiresAtType, CredentialChainAssumption DEF Limit, Credential
    <3>3. d.stamps.started < limit
      BY <2>4, <2>5, <3>1, <3>2 DEF InTime
    <3> HIDE DEF d, x
    <3>4. x < limit + JwtTTL + (d.stamps.ttl - d.stamps.started)
      BY <2>2, <2>4, <3>3
    <3> QED BY <3>2, <3>4
  <2>6. a.at + JwtTTL <= x + Delay(a, d.stamps.evaluated)
    <3>1. PICK c \in Nat : x = c + JwtTTL /\ d.stamps.evaluated <= c
      <4> HIDE DEF d, x
      <4>1. x - JwtTTL \in Nat /\ x = (x - JwtTTL) + JwtTTL
            /\ d.stamps.evaluated <= x - JwtTTL
        BY <2>2, <2>4
      <4> QED BY <4>1
    <3>2. a.at <= c + Delay(a, d.stamps.evaluated)
      BY <2>2, <3>1, WithinDelay
    <3>3. Delay(a, d.stamps.evaluated) \in Int
      BY <2>2 DEF Delay
    <3> HIDE DEF d, x
    <3> QED BY <2>1, <2>2, <3>1, <3>2, <3>3
  <2> QED BY <2>5, <2>6 DEF Limit
<1> QED BY <1>1, <1>2, JwtNext, Invariance, PTL DEF Spec
=============================================================================
