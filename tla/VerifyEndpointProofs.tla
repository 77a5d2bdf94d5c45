------------------------- MODULE VerifyEndpointProofs -------------------------
(***************************************************************************)
(* What the verifier's answers mean, for every set of tenants, registries  *)
(* and credentials and chains of every length.  The reply in the state is  *)
(* the handlers' answer to the request at the time of the clock (Answered),*)
(* so each property is a fact about the operators: an accepted chain       *)
(* passed every iteration of the loop, and covering one's neighbour        *)
(* carries over to all ancestors.  What the gate found out about a request *)
(* is kept for as long as the request waits behind it (Vouched).           *)
(***************************************************************************)
EXTENDS VerifyEndpoint, CredentialChainProofs, FiniteSetTheorems

Answered == reply = Refused("none") \/ reply = ServeHTTP(request, clock)

\* Only the routes behind the admin gate have longer paths, only the verify
\* endpoint takes an audience, and a bearer token is one credential.
Routed ==
  /\ request.route = "verify" => request.segment = NoTenant
  /\ request.route = "admin" => request.aud = NoAudience /\ Len(request.chain) <= 1

Inv == TypeOK /\ Routed /\ Answered

-----------------------------------------------------------------------------
(* The loop over a chain *)

\* What an iteration reports is an error of verification or Ok.
LEMMA ErrorAtType ==
  ASSUME NEW chain, NEW i, NEW key, NEW aud, NEW maxDepth, NEW now
  PROVE  ErrorAt(chain, i, key, aud, maxDepth, now) \in VerificationErrors \cup {Ok}
<1>1. \A c, a : verifySingleCredential(c, key, a, now) \in VerificationErrors \cup {Ok}
  <2>1. \A c : DisclosureError(c) \in VerificationErrors \cup {Ok}
    BY DEF DisclosureError, VerificationErrors, Ok
  <2> QED BY <2>1 DEF verifySingleCredential, VerificationErrors, Ok
<1>2. \A p, c, n : LinkError(p, c, n, maxDepth) \in VerificationErrors \cup {Ok}
  BY DEF LinkError, VerificationErrors, Ok
<1> QED BY <1>1, <1>2 DEF ErrorAt

\* What VerifyCredentialChain finds at position i.
Iteration(chain, i, key, aud, depth, now) ==
  ErrorAt(chain, i, key[chain[i].issuer], aud, MaxDepth(depth), now)

\* The verdict of the loop: Ok if no iteration fails and the chain is not too
\* long; otherwise what an iteration reports, or the length.
LEMMA LoopVerdict ==
  ASSUME NEW S, NEW chain \in Seq(S), chain # <<>>, NEW key, NEW aud, NEW depth, NEW now
  PROVE  LET Error(i) == Iteration(chain, i, key, aud, depth, now)
             verdict == VerifyCredentialChain(chain, key, aud, depth, now)
             short == IsDepthAllowed(Len(chain) - 1, MaxDepth(depth))
         IN  \/ verdict = Ok /\ short /\ \A i \in DOMAIN chain : Error(i) = Ok
             \/ \E i \in DOMAIN chain : Error(i) # Ok /\ verdict = Error(i)
             \/ verdict = "delegation_depth" /\ ~short
<1> DEFINE Error(i) == Iteration(chain, i, key, aud, depth, now)
           failed == {i \in DOMAIN chain : Error(i) # Ok}
           n == Len(chain)
<1>1. n \in Nat /\ failed \in SUBSET (1..n) /\ DOMAIN chain = 1..n
  OBVIOUS
<1>2. failed # {} => FirstIndex(failed) \in failed
  <2> HIDE DEF failed, n
  <2> QED BY <1>1, FirstIndexExists
<1>3. failed # {} => VerifyCredentialChain(chain, key, aud, depth, now) = Error(FirstIndex(failed))
  BY DEF VerifyCredentialChain, Iteration
<1>4. failed = {} =>
        VerifyCredentialChain(chain, key, aud, depth, now) =
          IF ~IsDepthAllowed(Len(chain) - 1, MaxDepth(depth)) THEN "delegation_depth" ELSE Ok
  BY DEF VerifyCredentialChain, Iteration
<1> QED BY <1>2, <1>3, <1>4

\* Covering is transitive, so the leaf of a chain whose neighbours cover each
\* other is covered by every ancestor.
Covers(ancestor, descendant) ==
  /\ ScopeOf(descendant) \subseteq ScopeOf(ancestor)
  /\ IsTTLWithinParent(ExpiresAt(ancestor), ExpiresAt(descendant))

LEMMA CoversTransitive ==
  ASSUME NEW a \in Credential, NEW b \in Credential, NEW c \in Credential,
         Covers(a, b), Covers(b, c)
  PROVE  Covers(a, c)
<1>1. ExpiresAt(a) \in Nat /\ ExpiresAt(b) \in Nat /\ ExpiresAt(c) \in Nat
  BY ExpiresAtType
<1>2. ScopeOf(c) \subseteq ScopeOf(a)
  BY DEF Covers
<1>3. IsTTLWithinParent(ExpiresAt(a), ExpiresAt(c))
  BY <1>1 DEF Covers, IsTTLWithinParent
<1> QED BY <1>2, <1>3 DEF Covers

\* The smallest distance between an ancestor and a descendant it does not cover
\* cannot exist.
LEMMA ChainNarrows ==
  ASSUME NEW chain \in Seq(Credential),
         \A i \in DOMAIN chain : i # 1 => Covers(chain[i - 1], chain[i])
  PROVE  \A i, j \in DOMAIN chain : i < j => Covers(chain[i], chain[j])
<1> DEFINE Bad == {d \in Nat : \E i, j \in DOMAIN chain :
                                 i < j /\ j = i + d /\ ~Covers(chain[i], chain[j])}
           n == Len(chain)
<1>0. n \in Nat /\ DOMAIN chain = 1..n
  OBVIOUS
<1>1. Bad = {}
  <2> SUFFICES ASSUME Bad # {} PROVE FALSE
    OBVIOUS
  <2>1. Bad \subseteq Nat
    OBVIOUS
  <2>2. \E d \in Bad : \A k \in Bad : d <= k
    <3> HIDE DEF Bad
    <3> QED BY <2>1, LeastNumber
  <2>3. PICK d \in Bad : \A k \in Bad : ~(k < d)
    BY <2>1, <2>2
  <2>4. PICK i, j \in 1..n : i < j /\ j = i + d /\ ~Covers(chain[i], chain[j])
    BY <1>0, <2>3
  <2>5. d \in Nat /\ j - 1 \in 1..n /\ j # 1
    BY <1>0, <2>1, <2>3, <2>4
  <2>6. Covers(chain[j - 1], chain[j])
    BY <1>0, <2>5
  <2>7. i # j - 1
    BY <2>4, <2>6
  <2>8. Covers(chain[i], chain[j - 1])
    <3>1. i < j - 1 /\ j - 1 = i + (d - 1) /\ d - 1 \in Nat /\ d - 1 < d
      BY <1>0, <2>4, <2>5, <2>7
    <3>2. d - 1 \notin Bad
      BY <2>3, <3>1
    <3> QED BY <1>0, <2>4, <2>5, <3>1, <3>2
  <2>9. chain[i] \in Credential /\ chain[j - 1] \in Credential /\ chain[j] \in Credential
    BY <1>0, <2>4, <2>5
  <2> QED BY <2>4, <2>6, <2>8, <2>9, CoversTransitive
<1>2. SUFFICES ASSUME NEW i \in 1..n, NEW j \in 1..n, i < j PROVE Covers(chain[i], chain[j])
  BY <1>0
<1>3. j - i \in Nat /\ j = i + (j - i)
  BY <1>0, <1>2
<1> QED BY <1>0, <1>1, <1>2, <1>3

-----------------------------------------------------------------------------
(* The handlers *)

KeysFor(t) == [issuer \in Dids |-> ResolveIssuerPublicKey(t, issuer)]

Found(req) == Resolve(deployment.mode, deployment.table, req.header)
TenantOf(req) == HandlerTenant(req.header, req.segment, Found(req)[2])
AudOf(req) == IF req.route = "admin" THEN NoAudience ELSE req.aud
DepthOf(req) == IF req.route = "admin" THEN AdminMaxDepth ELSE VerifyMaxDepth
Verdict(req, now) == ChainError(TenantOf(req), req.chain, AudOf(req), DepthOf(req), now)

Reaches(req) == TenantError(Found(req)[1]) = "none" /\ req.chain # <<>>
Privileged(req) ==
  req.route = "admin" =>
    ValidateAdminVC(Leaf(req.chain), "super-admin") = Ok /\ req.segment = NoTenant

\* Refusals that have nothing to do with the chain.
OtherErrors ==
  TenantErrors \cup {"invalid_request", "missing_authorization", "admin_credential_required",
                    "insufficient_privileges", "not_found"}

\* The answer, case by case, on both routes.
LEMMA ServeForm ==
  ASSUME NEW req, NEW now
  PROVE  /\ ~Reaches(req) => \E e \in OtherErrors : ServeHTTP(req, now) = Refused(e)
         /\ Reaches(req) /\ Verdict(req, now) # Ok
              => ServeHTTP(req, now) = Refused(Verdict(req, now))
         /\ Reaches(req) /\ Verdict(req, now) = Ok /\ ~Privileged(req)
              => \E e \in OtherErrors : ServeHTTP(req, now) = Refused(e)
         /\ Reaches(req) /\ Verdict(req, now) = Ok /\ Privileged(req)
              => ServeHTTP(req, now) = Accepted(TenantOf(req), req.chain)
<1> DEFINE error == TenantError(Found(req)[1])
           lacking == ValidateAdminVC(Leaf(req.chain), "super-admin")
<1>1. error # "none" => error \in TenantErrors
  BY DEF TenantError, TenantErrors
<1>2. lacking # Ok => lacking \in OtherErrors
  BY DEF ValidateAdminVC, OtherErrors, Ok
<1>3. ServeHTTP(req, now) =
        IF error # "none" THEN Refused(error)
        ELSE IF req.route = "admin" THEN AdminReply(TenantOf(req), req, now)
        ELSE VerifyReply(TenantOf(req), req, now)
  BY DEF ServeHTTP, Found, TenantOf
<1>4. CASE error # "none"
  BY <1>1, <1>3, <1>4 DEF Reaches, OtherErrors
<1>5. CASE error = "none" /\ req.route = "admin"
  <2>1. ServeHTTP(req, now) = AdminReply(TenantOf(req), req, now)
    BY <1>3, <1>5
  <2>2. AdminReply(TenantOf(req), req, now) =
          IF req.chain = <<>> THEN Refused("missing_authorization")
          ELSE IF Verdict(req, now) # Ok THEN Refused(Verdict(req, now))
          ELSE IF lacking # Ok THEN Refused(lacking)
          ELSE IF req.segment # NoTenant THEN Refused("not_found")
          ELSE Accepted(TenantOf(req), req.chain)
    BY <1>5 DEF AdminReply, Verdict, AudOf, DepthOf
  <2>3. "missing_authorization" \in OtherErrors /\ "not_found" \in OtherErrors
    BY DEF OtherErrors
  <2> HIDE DEF lacking, error
  <2>4. Reaches(req) <=> req.chain # <<>>
    BY <1>5 DEF Reaches, error
  <2>5. Privileged(req) <=> lacking = Ok /\ req.segment = NoTenant
    BY <1>5 DEF Privileged, lacking
  <2> QED BY <1>2, <2>1, <2>2, <2>3, <2>4, <2>5
<1>6. CASE error = "none" /\ req.route # "admin"
  <2>1. ServeHTTP(req, now) = VerifyReply(TenantOf(req), req, now)
    BY <1>3, <1>6
  <2>2. VerifyReply(TenantOf(req), req, now) =
          IF req.chain = <<>> THEN Refused("invalid_request")
          ELSE IF Verdict(req, now) # Ok THEN Refused(Verdict(req, now))
          ELSE Accepted(TenantOf(req), req.chain)
    BY <1>6 DEF VerifyReply, Verdict, AudOf, DepthOf
  <2>3. "invalid_request" \in OtherErrors
    BY DEF OtherErrors
  <2>4. Reaches(req) <=> req.chain # <<>>
    BY <1>6 DEF Reaches
  <2>5. Privileged(req)
    BY <1>6 DEF Privileged
  <2> QED BY <2>1, <2>2, <2>3, <2>4, <2>5
<1> QED BY <1>4, <1>5, <1>6

\* A request that reaches its handler has a tenant, and TenantMiddleware has
\* found the one it resolved enabled.
LEMMA TenantFacts ==
  ASSUME NEW req \in Request, deployment \in Deployments, Reaches(req)
  PROVE  /\ TenantOf(req) \in Tenants
         /\ req.segment = NoTenant =>
              TenantOf(req) = IF req.header = NoTenant THEN DefaultTenant ELSE req.header
         /\ req.segment = NoTenant => deployment.table[TenantOf(req)] = "enabled"
<1> DEFINE table == deployment.table
           id == IF req.header = NoTenant THEN DefaultTenant ELSE req.header
<1>1. req.header \in Tenants \cup {NoTenant} /\ req.segment \in Tenants \cup {NoTenant}
  BY DEF Request, TenantNames
<1>2. DefaultTenant \in Tenants /\ NoTenant \notin Tenants
  BY TenancyAssumption
<1>3. Found(req) = <<"header_required", NoTenant>> \/ Found(req) = <<table[id], id>>
  BY DEF Found, Resolve
<1>4. Found(req)[1] = "enabled"
  BY DEF Reaches, TenantError
<1>5. Found(req) # <<"header_required", NoTenant>>
  BY <1>4
<1>6. Found(req)[1] = table[id] /\ Found(req)[2] = id
  BY <1>3, <1>5
<1>7. id \in Tenants
  BY <1>1, <1>2
<1> QED BY <1>1, <1>2, <1>4, <1>6, <1>7 DEF TenantOf, HandlerTenant, extractTenantID

\* A request holds credentials, and its two limits are small numbers.
LEMMA RequestFacts ==
  ASSUME NEW req \in Request
  PROVE  /\ req.chain \in Seq(Credential)
         /\ req.chain \in Seq(Tokens)
         /\ MaxDepth(DepthOf(req)) \in 1..VerifyMaxDepth
<1>1. req.chain \in Seq(Tokens) /\ Tokens \subseteq Credential
  BY VerifyEndpointAssumption DEF Request
<1>2. MaxDepth(DepthOf(req)) \in 1..VerifyMaxDepth
  BY DEF MaxDepth, DepthOf, AdminMaxDepth, VerifyMaxDepth
<1> QED BY <1>1, <1>2

\* The verdict is an error of verification or Ok; Ok means that every iteration
\* passed with the keys of the tenant and that the chain is short.
LEMMA VerdictFacts ==
  ASSUME NEW req \in Request, req.chain # <<>>, NEW now
  PROVE  LET Error(i) == Iteration(req.chain, i, KeysFor(TenantOf(req)), AudOf(req), DepthOf(req), now)
             short == IsDepthAllowed(Len(req.chain) - 1, MaxDepth(DepthOf(req)))
         IN  /\ Verdict(req, now) \in VerificationErrors \cup {Ok}
             /\ Verdict(req, now) = Ok => short /\ \A i \in DOMAIN req.chain : Error(i) = Ok
             /\ Verdict(req, now) # Ok =>
                  \/ \E i \in DOMAIN req.chain : Error(i) # Ok /\ Verdict(req, now) = Error(i)
                  \/ Verdict(req, now) = "delegation_depth" /\ ~short
<1> DEFINE keys == KeysFor(TenantOf(req))
           Error(i) == Iteration(req.chain, i, keys, AudOf(req), DepthOf(req), now)
           short == IsDepthAllowed(Len(req.chain) - 1, MaxDepth(DepthOf(req)))
<1>1. Verdict(req, now) = VerifyCredentialChain(req.chain, keys, AudOf(req), DepthOf(req), now)
  BY DEF Verdict, ChainError, KeysFor
<1>2. \/ Verdict(req, now) = Ok /\ short /\ \A i \in DOMAIN req.chain : Error(i) = Ok
      \/ \E i \in DOMAIN req.chain : Error(i) # Ok /\ Verdict(req, now) = Error(i)
      \/ Verdict(req, now) = "delegation_depth" /\ ~short
  BY <1>1, RequestFacts, LoopVerdict
<1>3. \A i : Error(i) \in VerificationErrors \cup {Ok}
  BY ErrorAtType DEF Iteration
<1>4. "delegation_depth" \in VerificationErrors /\ "delegation_depth" # Ok
  BY DEF VerificationErrors, Ok
<1> HIDE DEF Error, short
<1>5. /\ Verdict(req, now) \in VerificationErrors \cup {Ok}
      /\ Verdict(req, now) = Ok => short /\ \A i \in DOMAIN req.chain : Error(i) = Ok
      /\ Verdict(req, now) # Ok =>
           \/ \E i \in DOMAIN req.chain : Error(i) # Ok /\ Verdict(req, now) = Error(i)
           \/ Verdict(req, now) = "delegation_depth" /\ ~short
  BY <1>2, <1>3, <1>4
<1> QED BY <1>5 DEF Error, short

\* In a chain that verifies, every credential is covered by its ancestors.
LEMMA VerifiedNarrows ==
  ASSUME NEW req \in Request, req.chain # <<>>, NEW now, Verdict(req, now) = Ok
  PROVE  \A i, j \in DOMAIN req.chain : i < j => Covers(req.chain[i], req.chain[j])
<1>1. \A i \in DOMAIN req.chain :
        Iteration(req.chain, i, KeysFor(TenantOf(req)), AudOf(req), DepthOf(req), now) = Ok
  BY VerdictFacts
<1>2. \A i \in DOMAIN req.chain : i # 1 => Covers(req.chain[i - 1], req.chain[i])
  BY <1>1, LinkNarrows DEF Iteration, Covers
<1> QED BY <1>2, RequestFacts, ChainNarrows

\* A credential that passes was signed with the key its issuer resolves to, and
\* the tenant's registry holds that issuer.
LEMMA PassedIsTrusted ==
  ASSUME NEW req \in Request, NEW i \in DOMAIN req.chain, NEW now, NEW t \in Tenants,
         Iteration(req.chain, i, KeysFor(t), AudOf(req), DepthOf(req), now) = Ok
  PROVE  /\ req.chain[i].issuer \in trusted[t]
         /\ req.chain[i].signedBy = KeyOf[req.chain[i].issuer]
<1> DEFINE c == req.chain[i]
           key == KeysFor(t)[c.issuer]
<1>1. c \in Credential
  BY RequestFacts
<1>2. c.issuer \in Dids
  BY <1>1 DEF Credential
<1>3. \E a : verifySingleCredential(c, key, a, now) = Ok
  BY DEF Iteration, ErrorAt
<1>4. key # NoKey /\ key = c.signedBy
  <2> HIDE DEF key, c
  <2> QED BY <1>3 DEF verifySingleCredential, Ok
<1>5. key = ResolveIssuerPublicKey(t, c.issuer)
  BY <1>2 DEF KeysFor
<1> QED BY <1>4, <1>5 DEF ResolveIssuerPublicKey

\* Time only makes a credential expire: nothing else an iteration looks at can
\* begin to fail.
LEMMA OnlyExpiryFails ==
  ASSUME NEW chain, NEW i, chain[i] \in Credential, NEW key, NEW aud, NEW maxDepth,
         NEW now \in Nat, NEW later \in Nat, now <= later,
         ErrorAt(chain, i, key, aud, maxDepth, now) = Ok,
         ErrorAt(chain, i, key, aud, maxDepth, later) # Ok
  PROVE  Expired(chain[i], later)
<1> DEFINE c == chain[i]
<1>1. c.iat \in Nat /\ ClockSkew \in Nat
  BY CredentialChainAssumption DEF Credential
<1>2. ~IssuedInFuture(c, now) => ~IssuedInFuture(c, later)
  BY <1>1 DEF IssuedInFuture
<1> HIDE DEF c
<1>3. ASSUME NEW a, verifySingleCredential(c, key, a, now) = Ok, ~Expired(c, later)
      PROVE  verifySingleCredential(c, key, a, later) = Ok
  BY <1>2, <1>3 DEF verifySingleCredential, Ok
<1> QED BY <1>3 DEF ErrorAt, c

\* A credential that was found expired stays expired.
LEMMA ExpiryStays ==
  ASSUME NEW chain, NEW i, chain[i] \in Credential, NEW key, NEW aud, NEW maxDepth,
         NEW now \in Nat, NEW later \in Nat, now <= later,
         ErrorAt(chain, i, key, aud, maxDepth, now) = "expired"
  PROVE  ErrorAt(chain, i, key, aud, maxDepth, later) # Ok
<1> DEFINE c == chain[i]
<1>1. c.exp \in Nat /\ ExpiresAt(c) \in Nat
  BY ExpiresAtType, CredentialChainAssumption DEF Credential
<1>2. Expired(c, now) => Expired(c, later)
  BY <1>1 DEF Expired
<1> HIDE DEF c
<1>3. DisclosureError(c) # "expired"
  BY DEF DisclosureError, Ok
<1>4. \A p, n : LinkError(p, c, n, maxDepth) # "expired"
  BY DEF LinkError, Ok
<1>5. ASSUME NEW a, verifySingleCredential(c, key, a, now) = "expired"
      PROVE  verifySingleCredential(c, key, a, later) # Ok
  BY <1>2, <1>3, <1>5 DEF verifySingleCredential, Ok
<1>6. "expired" # Ok
  BY DEF Ok
<1> QED BY <1>4, <1>5, <1>6 DEF ErrorAt, c

-----------------------------------------------------------------------------
(* The invariant *)

\* A refusal is a reply.
LEMMA RefusedType ==
  ASSUME NEW e \in ReplyErrors
  PROVE  Refused(e) \in Reply /\ ~Refused(e).valid /\ Refused(e).error = e
<1>1. 0 \in Times /\ 0 \in 0..VerifyMaxDepth
  BY CredentialChainAssumption DEF VerifyMaxDepth
<1> QED BY <1>1 DEF Refused, Reply, TenantNames

\* An acceptance is a reply.
LEMMA AcceptedType ==
  ASSUME NEW req \in Request, req.chain # <<>>, NEW now, Verdict(req, now) = Ok,
         NEW t \in Tenants
  PROVE  Accepted(t, req.chain) \in Reply
<1> DEFINE n == Len(req.chain)
           c == Leaf(req.chain)
<1>1. n \in Nat /\ n # 0 /\ n \in DOMAIN req.chain
  BY RequestFacts
<1>2. n - 1 \in 0..VerifyMaxDepth
  <2>1. IsDepthAllowed(n - 1, MaxDepth(DepthOf(req)))
    BY VerdictFacts
  <2>2. MaxDepth(DepthOf(req)) \in 1..VerifyMaxDepth /\ VerifyMaxDepth = 3
    BY RequestFacts DEF VerifyMaxDepth
  <2> HIDE DEF n
  <2> QED BY <1>1, <2>1, <2>2 DEF IsDepthAllowed
<1>3. c \in Credential
  BY <1>1, RequestFacts DEF Leaf
<1>4. ExpiresAt(c) \in Times
  <2>1. c.exp \in Times /\ c.expiresAt \in Times
    BY <1>3 DEF Credential
  <2> QED BY <2>1 DEF ExpiresAt
<1>5. DelegationChainResult(req.chain).delegationDepth = n - 1
  BY DEF DelegationChainResult
<1>6. Ok \in ReplyErrors
  BY DEF ReplyErrors
<1> HIDE DEF n, c
<1> QED BY <1>2, <1>4, <1>5, <1>6 DEF Accepted, Reply, TenantNames, c

\* Every answer is a reply.
LEMMA ServeType ==
  ASSUME NEW req \in Request, deployment \in Deployments, NEW now
  PROVE  ServeHTTP(req, now) \in Reply
<1>1. OtherErrors \subseteq ReplyErrors /\ VerificationErrors \cup {Ok} \subseteq ReplyErrors
  BY DEF OtherErrors, ReplyErrors
<1>2. CASE ~Reaches(req) \/ (Reaches(req) /\ Verdict(req, now) = Ok /\ ~Privileged(req))
  BY <1>1, <1>2, ServeForm, RefusedType
<1>3. CASE Reaches(req) /\ Verdict(req, now) # Ok
  <2>1. Verdict(req, now) \in ReplyErrors
    BY <1>1, <1>3, VerdictFacts DEF Reaches
  <2> QED BY <1>3, <2>1, ServeForm, RefusedType
<1>4. CASE Reaches(req) /\ Verdict(req, now) = Ok /\ Privileged(req)
  <2>1. TenantOf(req) \in Tenants
    BY <1>4, TenantFacts
  <2>2. req.chain # <<>>
    BY <1>4 DEF Reaches
  <2> QED BY <1>4, <2>1, <2>2, ServeForm, AcceptedType
<1> QED BY <1>2, <1>3, <1>4

\* The answer depends on the state only through the tenants and the registry.
LEMMA ServeFrame ==
  ASSUME deployment' = deployment, trusted' = trusted
  PROVE  ServeHTTP(request, clock)' = ServeHTTP(request', clock')
BY DEF ServeHTTP, AdminReply, VerifyReply, ChainError, ResolveIssuerPublicKey

\* A chain extended by a token is a chain of tokens.
LEMMA PresentedType ==
  ASSUME NEW req \in Request, NEW c \in Tokens
  PROVE  LET next == [req EXCEPT !.chain = Append(req.chain, c)]
         IN  /\ next \in Request /\ next.route = req.route
             /\ next.segment = req.segment /\ next.aud = req.aud
<1>1. Append(req.chain, c) \in Seq(Tokens)
  BY RequestFacts
<1> QED BY <1>1 DEF Request

\* Init establishes the invariant.
LEMMA InvInit == Init => Inv
<1> SUFFICES ASSUME Init PROVE Inv
  OBVIOUS
<1>1. 0 \in 0..MaxTime
  BY VerifyEndpointAssumption
<1>2. request \in Request
  <2>1. <<>> \in Seq(Tokens)
    OBVIOUS
  <2> QED BY <2>1 DEF Init, Request, TenantNames
<1>3. reply \in Reply
  BY RefusedType DEF Init, ReplyErrors
<1>4. Routed
  BY DEF Init, Routed
<1>5. trusted \in [Tenants -> SUBSET Dids] /\ changes \in 0..MaxChanges /\ admitted = {}
  BY VerifyEndpointAssumption DEF Init
<1> QED BY <1>1, <1>2, <1>3, <1>4, <1>5 DEF Init, Inv, TypeOK, Answered

\* What the gate admits is an admission.
LEMMA AdmitType ==
  ASSUME NEW req \in Request, NEW answer, NEW now \in Nat,
         trusted \in [Tenants -> SUBSET Dids]
  PROVE  Admit(req, answer, now) \subseteq Admission
BY DEF Admit, Admission

\* Every step keeps it.
LEMMA InvNext == Inv /\ [Next]_vars => Inv'
<1> SUFFICES ASSUME Inv, [Next]_vars PROVE Inv'
  OBVIOUS
<1> USE DEF Inv, TypeOK
<1>1. ASSUME NEW c \in Tokens, Present(c) PROVE Inv'
  <2>1. /\ request' \in Request /\ request'.route = request.route
        /\ request'.segment = request.segment /\ request'.aud = request.aud
    BY <1>1, PresentedType DEF Present
  <2>2. reply' \in Reply
    BY <1>1, <2>1, ServeType DEF Present
  <2>3. reply' = ServeHTTP(request, clock)'
    BY <1>1, ServeFrame DEF Present
  <2>4. request.route = "admin" => Len(request'.chain) <= 1
    <3>1. request.chain \in Seq(Tokens) /\ request'.chain = Append(request.chain, c)
      BY <1>1, RequestFacts DEF Present, Request
    <3> QED BY <1>1, <3>1 DEF Present
  <2>5. Routed'
    BY <2>1, <2>4 DEF Routed
  <2>6. admitted' \subseteq Admission
    <3>1. clock \in Nat
      BY VerifyEndpointAssumption
    <3> QED BY <1>1, <2>1, <3>1, AdmitType DEF Present
  <2> QED BY <1>1, <2>1, <2>2, <2>3, <2>5, <2>6 DEF Present, Answered
<1>2. CASE PresentLater
  <2>1. reply' \in Reply
    BY <1>2, ServeType DEF PresentLater
  <2>2. reply' = ServeHTTP(request, clock)'
    BY <1>2, ServeFrame DEF PresentLater
  <2>3. clock' \in 0..MaxTime
    BY <1>2, VerifyEndpointAssumption DEF PresentLater
  <2>4. Routed'
    BY <1>2 DEF PresentLater, Routed
  <2>5. admitted' \subseteq Admission
    <3>1. clock' \in Nat
      BY <2>3, VerifyEndpointAssumption
    <3> QED BY <1>2, <3>1, AdmitType DEF PresentLater
  <2> QED BY <1>2, <2>1, <2>2, <2>3, <2>4, <2>5 DEF PresentLater, Answered
<1>3. ASSUME UNCHANGED <<clock, deployment, trusted, changes, request, reply>>,
             admitted' \subseteq admitted
      PROVE  Inv'
  <2>1. ServeHTTP(request, clock)' = ServeHTTP(request, clock)
    BY <1>3, ServeFrame
  <2> QED BY <1>3, <2>1 DEF Routed, Answered
<1>4. ASSUME NEW t \in Tenants, NEW issuers \in SUBSET Dids, ChangeTrust(t, issuers)
      PROVE  Inv'
  <2>1. Refused("none") \in Reply
    BY RefusedType DEF ReplyErrors
  <2>2. trusted' \in [Tenants -> SUBSET Dids]
    BY <1>4 DEF ChangeTrust
  <2>3. changes' \in 0..MaxChanges
    BY <1>4, VerifyEndpointAssumption DEF ChangeTrust
  <2>4. Routed' /\ Answered'
    BY <1>4 DEF ChangeTrust, Routed, Answered, Refused
  <2> QED BY <1>4, <2>1, <2>2, <2>3, <2>4 DEF ChangeTrust
<1>5. CASE Administer
  BY <1>3, <1>5 DEF Administer
<1>6. ASSUME NEW d \in Dids, AddTrustedIssuer(d) PROVE Inv'
  BY <1>4, <1>6, TenancyAssumption DEF AddTrustedIssuer
<1>7. ASSUME NEW t \in Tenants, NEW d \in Dids, RemoveTrustedIssuer(t, d) PROVE Inv'
  BY <1>4, <1>7 DEF RemoveTrustedIssuer
<1>8. CASE UNCHANGED vars
  BY <1>3, <1>8 DEF vars, endpointVars
<1> QED BY <1>1, <1>2, <1>5, <1>6, <1>7, <1>8 DEF Next

\* The reply in the state is always the handlers' answer to the request there.
THEOREM Invariance == Spec => []Inv
<1> QED BY InvInit, InvNext, PTL DEF Spec

-----------------------------------------------------------------------------
(* The properties *)

\* What an acceptance in the state means.
LEMMA AcceptedFacts ==
  ASSUME Inv, reply.valid
  PROVE  /\ Reaches(request) /\ request.chain # <<>> /\ Verdict(request, clock) = Ok
         /\ Privileged(request) /\ request.segment = NoTenant
         /\ reply = Accepted(TenantOf(request), request.chain)
         /\ reply.tenant = TenantOf(request)
         /\ reply.expiresAt = ExpiresAt(Leaf(request.chain))
<1>1. OtherErrors \subseteq ReplyErrors /\ VerificationErrors \cup {Ok} \subseteq ReplyErrors
      /\ "none" \in ReplyErrors
  BY DEF OtherErrors, ReplyErrors
<1>2. request \in Request
  BY DEF Inv, TypeOK
<1>3. \A e \in ReplyErrors : reply # Refused(e)
  BY RefusedType
<1>4. reply = ServeHTTP(request, clock)
  BY <1>1, <1>3 DEF Inv, Answered
<1>5. Reaches(request)
  BY <1>1, <1>3, <1>4, ServeForm
<1>6. request.chain # <<>>
  BY <1>5 DEF Reaches
<1>7. Verdict(request, clock) = Ok
  <2>1. Verdict(request, clock) \in ReplyErrors
    BY <1>1, <1>2, <1>6, VerdictFacts
  <2> QED BY <1>3, <1>4, <1>5, <2>1, ServeForm
<1>8. Privileged(request)
  BY <1>1, <1>3, <1>4, <1>5, <1>7, ServeForm
<1>9. reply = Accepted(TenantOf(request), request.chain)
  BY <1>4, <1>5, <1>7, <1>8, ServeForm
<1>10. request.route \in {"verify", "admin"}
  BY <1>2 DEF Request
<1>11. request.segment = NoTenant
  BY <1>8, <1>10 DEF Privileged, Inv, Routed
<1>12. reply.tenant = TenantOf(request) /\ reply.expiresAt = ExpiresAt(Leaf(request.chain))
  BY <1>9 DEF Accepted
<1> QED BY <1>5, <1>6, <1>7, <1>8, <1>9, <1>11, <1>12

\* Every reply, request and clock value has its type; in particular no accepted
\* chain is deeper than three delegations, whatever was presented
\* (vc_verify.go:84-112).
THEOREM TypeCorrect == Spec => []TypeOK
<1>1. Inv => TypeOK
  BY DEF Inv
<1> QED BY Invariance, <1>1, PTL

\* In an accepted chain of any length every credential is covered by all its
\* ancestors, although the loop compares neighbours (vc_verify.go:87-100).
THEOREM AcceptedNarrows == Spec => []AcceptedChainNarrows
<1>1. Inv => AcceptedChainNarrows
  <2> SUFFICES ASSUME Inv, reply.valid
               PROVE  \A i, j \in DOMAIN request.chain :
                        i < j => Covers(request.chain[i], request.chain[j])
    BY DEF AcceptedChainNarrows, Covers
  <2>1. request \in Request
    BY DEF Inv, TypeOK
  <2> QED BY <2>1, AcceptedFacts, VerifiedNarrows
<1> QED BY Invariance, <1>1, PTL

\* An acceptance is for the enabled tenant the middleware resolved, and by
\* issuers of that tenant's registry (middleware_tenant.go:11-38,
\* verifier_handlers.go:84-99, admin_middleware.go:35-57).
THEOREM AcceptedTenant == Spec => []AcceptedForItsTenant
<1>1. Inv => AcceptedForItsTenant
  <2> SUFFICES ASSUME Inv, reply.valid
               PROVE  /\ deployment.table[reply.tenant] = "enabled"
                      /\ reply.tenant =
                           IF request.header = NoTenant THEN DefaultTenant ELSE request.header
                      /\ \A i \in DOMAIN request.chain :
                           /\ request.chain[i].issuer \in trusted[reply.tenant]
                           /\ request.chain[i].signedBy = KeyOf[request.chain[i].issuer]
    BY DEF AcceptedForItsTenant
  <2>1. request \in Request /\ deployment \in Deployments
    BY DEF Inv, TypeOK
  <2>2. /\ reply.tenant = TenantOf(request) /\ TenantOf(request) \in Tenants
        /\ deployment.table[reply.tenant] = "enabled"
        /\ reply.tenant = IF request.header = NoTenant THEN DefaultTenant ELSE request.header
    BY <2>1, AcceptedFacts, TenantFacts
  <2>3. ASSUME NEW i \in DOMAIN request.chain
        PROVE  /\ request.chain[i].issuer \in trusted[reply.tenant]
               /\ request.chain[i].signedBy = KeyOf[request.chain[i].issuer]
    <3>1. Iteration(request.chain, i, KeysFor(TenantOf(request)), AudOf(request),
                    DepthOf(request), clock) = Ok
      BY <2>1, <2>3, AcceptedFacts, VerdictFacts
    <3> QED BY <2>1, <2>2, <2>3, <3>1, PassedIsTrusted
  <2> QED BY <2>2, <2>3
<1> QED BY Invariance, <1>1, PTL

\* The same request answered again: the tenant, and so the keys, are the same.
LEMMA AnsweredLater ==
  ASSUME Inv, PresentLater
  PROVE  /\ request' = request /\ request \in Request
         /\ clock \in Nat /\ clock' \in Nat /\ clock <= clock'
         /\ reply' = ServeHTTP(request, clock')
<1>1. clock \in Nat /\ clock' = clock + 1
  BY VerifyEndpointAssumption DEF Inv, TypeOK, PresentLater
<1> QED BY <1>1 DEF Inv, TypeOK, PresentLater

\* A step that leaves the request and the registry alone and changes the reply
\* asks again later.
LEMMA SameRequest ==
  ASSUME Inv, [Next]_vars, request' = request, trusted' = trusted, reply' # reply
  PROVE  PresentLater
<1>1. ASSUME NEW c \in Tokens, Present(c) PROVE FALSE
  <2>1. request \in Request
    BY DEF Inv, TypeOK
  <2>2. request.chain \in Seq(Tokens)
    BY <2>1, RequestFacts
  <2>3. request'.chain = Append(request.chain, c)
    BY <1>1, <2>1 DEF Present, Request
  <2>4. Len(Append(request.chain, c)) = Len(request.chain) + 1 /\ Len(request.chain) \in Nat
    BY <2>2
  <2> QED BY <2>3, <2>4
<1>2. ASSUME NEW t \in Tenants, NEW d \in Dids, AddTrustedIssuer(d) \/ RemoveTrustedIssuer(t, d)
      PROVE  FALSE
  <2>1. trusted \in [Tenants -> SUBSET Dids] /\ DefaultTenant \in Tenants
    BY TenancyAssumption DEF Inv, TypeOK
  <2> QED BY <1>2, <2>1 DEF AddTrustedIssuer, RemoveTrustedIssuer, ChangeTrust
<1>3. DefaultTenant \in Tenants
  BY TenancyAssumption
<1> QED BY <1>1, <1>2, <1>3 DEF Next, Administer, vars, endpointVars

\* The expires_at of a positive answer is a promise (vc_verify.go:94-100): the
\* leaf expires first, so nothing else can end the acceptance before.
THEOREM ReportedExpiry == Spec => ReportedExpiryIsHonoured
<1> DEFINE Honoured ==
      reply.valid /\ request' = request /\ trusted' = trusted /\ ~reply'.valid
        => reply.expiresAt # 0 /\ clock' >= reply.expiresAt
<1>1. Inv /\ [Next]_vars => [Honoured]_vars
  <2> SUFFICES ASSUME Inv, [Next]_vars, reply.valid, request' = request, trusted' = trusted,
                      ~reply'.valid
               PROVE  reply.expiresAt # 0 /\ clock' >= reply.expiresAt
    OBVIOUS
  <2> DEFINE chain == request.chain
             keys == KeysFor(TenantOf(request))
             Error(i, now) == Iteration(chain, i, keys, AudOf(request), DepthOf(request), now)
             n == Len(chain)
  <2>1. PresentLater
    BY SameRequest
  <2>2. /\ request \in Request /\ clock \in Nat /\ clock' \in Nat /\ clock <= clock'
        /\ reply' = ServeHTTP(request, clock')
    BY <2>1, AnsweredLater
  <2>3. /\ Reaches(request) /\ chain # <<>> /\ Verdict(request, clock) = Ok
        /\ Privileged(request) /\ reply.expiresAt = ExpiresAt(Leaf(chain))
    BY AcceptedFacts
  <2>4. Verdict(request, clock') # Ok
    <3>1. ServeHTTP(request, clock') # Accepted(TenantOf(request), chain)
      BY <2>2 DEF Accepted
    <3> QED BY <2>3, <3>1, ServeForm
  <2>5. chain \in Seq(Credential) /\ n \in Nat /\ DOMAIN chain = 1..n /\ n # 0
    BY <2>2, <2>3, RequestFacts
  <2>6. IsDepthAllowed(n - 1, MaxDepth(DepthOf(request)))
        /\ \A i \in DOMAIN chain : Error(i, clock) = Ok
    BY <2>2, <2>3, VerdictFacts
  <2>7. PICK i \in DOMAIN chain : Error(i, clock') # Ok
    BY <2>2, <2>3, <2>4, <2>6, VerdictFacts
  <2>8. chain[i] \in Credential /\ Error(i, clock) = Ok
    BY <2>5, <2>6, <2>7
  <2>9. Expired(chain[i], clock')
    <3> HIDE DEF chain, keys
    <3> QED BY <2>2, <2>7, <2>8, OnlyExpiryFails DEF Iteration
  <2>10. ExpiresAt(chain[i]) # 0 /\ ExpiresAt(chain[i]) <= clock'
    <3>1. chain[i].exp \in Nat /\ chain[i].expiresAt \in Nat
      BY <2>8, CredentialChainAssumption DEF Credential
    <3> HIDE DEF chain
    <3> QED BY <2>2, <2>9, <3>1 DEF Expired, ExpiresAt
  <2>11. chain[n] \in Credential /\ ExpiresAt(chain[n]) \in Nat /\ ExpiresAt(chain[i]) \in Nat
    BY <2>5, <2>8, ExpiresAtType
  <2>12. ExpiresAt(chain[n]) # 0 /\ ExpiresAt(chain[n]) <= clock'
    <3>1. CASE i = n
      BY <2>10, <3>1
    <3>2. CASE i < n
      <4>1. Covers(chain[i], chain[n])
        BY <2>2, <2>3, <2>5, <2>7, <3>2, VerifiedNarrows
      <4> HIDE DEF chain, n
      <4> QED BY <2>2, <2>10, <2>11, <4>1 DEF Covers, IsTTLWithinParent
    <3> QED BY <2>5, <2>7, <3>1, <3>2
  <2> QED BY <2>2, <2>3, <2>11, <2>12 DEF Leaf
<1> QED BY Invariance, <1>1, PTL DEF Spec, ReportedExpiryIsHonoured

\* A chain refused as expired stays refused (vc_verify.go: the time checks of
\* verifySingleCredential come before those that time can lift).
THEOREM ExpiredStaysRefused == Spec => ExpiredIsFinal
<1> DEFINE Final == reply.error = "expired" /\ request' = request => ~reply'.valid
<1>1. Inv /\ [Next]_vars => [Final]_vars
  <2> SUFFICES ASSUME Inv, [Next]_vars, reply.error = "expired", request' = request, reply'.valid
               PROVE  FALSE
    OBVIOUS
  <2> DEFINE chain == request.chain
             Error(i, now) == Iteration(chain, i, KeysFor(TenantOf(request)), AudOf(request),
                                        DepthOf(request), now)
  <2>1. /\ "none" \in ReplyErrors /\ OtherErrors \subseteq ReplyErrors
        /\ VerificationErrors \cup {Ok} \subseteq ReplyErrors
        /\ "expired" \notin OtherErrors /\ "expired" # Ok /\ "expired" # "none"
    BY DEF ReplyErrors, OtherErrors, TenantErrors, Ok
  <2>2. ~reply.valid
    <3>1. reply.valid => reply.error = Ok
      BY AcceptedFacts DEF Accepted
    <3> QED BY <2>1, <3>1
  <2>3. PresentLater
    <3>1. trusted' = trusted
      <4>1. ASSUME NEW t, NEW issuers, ChangeTrust(t, issuers) PROVE FALSE
        BY <2>1, <4>1, RefusedType DEF ChangeTrust
      <4> QED BY <4>1 DEF Next, Present, PresentLater, Administer, AddTrustedIssuer,
                          RemoveTrustedIssuer, vars, endpointVars
    <3> QED BY <2>2, <3>1, SameRequest
  <2>4. /\ request \in Request /\ clock \in Nat /\ clock' \in Nat /\ clock <= clock'
        /\ reply' = ServeHTTP(request, clock')
    BY <2>3, AnsweredLater
  <2>5. reply = ServeHTTP(request, clock)
    BY <2>1, RefusedType DEF Inv, Answered
  <2>6. \A e \in OtherErrors : reply # Refused(e)
    BY <2>1, RefusedType
  <2>7. Reaches(request)
    BY <2>5, <2>6, ServeForm
  <2>8. chain # <<>>
    BY <2>7 DEF Reaches
  <2>9. Verdict(request, clock) = "expired"
    <3>1. Verdict(request, clock) \in ReplyErrors
      BY <2>1, <2>4, <2>8, VerdictFacts
    <3>2. Verdict(request, clock) # Ok
      <4>1. Accepted(TenantOf(request), chain).valid
        BY DEF Accepted
      <4> QED BY <2>2, <2>5, <2>6, <2>7, <4>1, ServeForm
    <3>3. reply = Refused(Verdict(request, clock))
      BY <2>5, <2>7, <3>2, ServeForm
    <3> QED BY <3>1, <3>3, RefusedType
  <2>10. PICK i \in DOMAIN chain : Error(i, clock) = "expired"
    BY <2>1, <2>4, <2>8, <2>9, VerdictFacts
  <2>11. chain[i] \in Credential
    BY <2>4, <2>10, RequestFacts
  <2>12. Error(i, clock') # Ok
    <3> HIDE DEF chain
    <3> QED BY <2>4, <2>10, <2>11, ExpiryStays DEF Iteration
  <2>13. Verdict(request, clock') # Ok
    BY <2>4, <2>8, <2>10, <2>12, VerdictFacts
  <2>14. reply' = Refused(Verdict(request, clock')) /\ Verdict(request, clock') \in ReplyErrors
    BY <2>1, <2>4, <2>7, <2>8, <2>13, ServeForm, VerdictFacts
  <2> QED BY <2>14, RefusedType
<1> QED BY Invariance, <1>1, PTL DEF Spec, ExpiredIsFinal

-----------------------------------------------------------------------------
(* The policy engine: its sort and its scan *)

\* What the engine's sort is given: finitely many policies, told apart by id.
Sortable(S) ==
  /\ IsFiniteSet(S)
  /\ \A p \in S : p.priority \in Int /\ p.id \in Int
  /\ \A p, q \in S : p.id = q.id => p = q

EarlierThan(S, p) == {q \in S : Before(q, p)}
Rank(S, p) == Cardinality(EarlierThan(S, p))

\* Such policies are totally ordered by priority and id.
LEMMA BeforeIsTotal ==
  ASSUME NEW S, Sortable(S)
  PROVE  /\ \A p \in S : ~Before(p, p)
         /\ \A p, q, r \in S : Before(p, q) /\ Before(q, r) => Before(p, r)
         /\ \A p, q \in S : p # q => Before(p, q) \/ Before(q, p)
BY DEF Sortable, Before

\* The number of policies before one is a place in the list, and grows with the
\* order.
LEMMA RankIsMonotone ==
  ASSUME NEW S, Sortable(S)
  PROVE  /\ \A p \in S : Rank(S, p) \in Nat /\ Rank(S, p) < Cardinality(S)
         /\ \A p, q \in S : Before(p, q) => Rank(S, p) < Rank(S, q)
<1>1. IsFiniteSet(S)
  BY DEF Sortable
<1>2. ASSUME NEW p \in S
      PROVE  /\ IsFiniteSet(EarlierThan(S, p)) /\ Rank(S, p) \in Nat
             /\ Cardinality(EarlierThan(S, p) \cup {p}) = Rank(S, p) + 1
  <2>1. EarlierThan(S, p) \in SUBSET S /\ p \notin EarlierThan(S, p)
    BY BeforeIsTotal DEF EarlierThan
  <2>2. IsFiniteSet(EarlierThan(S, p))
    BY <1>1, <2>1, FS_Subset
  <2> QED BY <2>1, <2>2, FS_CardinalityType, FS_AddElement DEF Rank
<1>3. ASSUME NEW p \in S PROVE Rank(S, p) < Cardinality(S)
  <2>1. EarlierThan(S, p) \cup {p} \in SUBSET S
    BY DEF EarlierThan
  <2>2. Cardinality(EarlierThan(S, p) \cup {p}) <= Cardinality(S) /\ Cardinality(S) \in Nat
    BY <1>1, <2>1, FS_Subset, FS_CardinalityType
  <2> QED BY <1>2, <2>2
<1>4. ASSUME NEW p \in S, NEW q \in S, Before(p, q) PROVE Rank(S, p) < Rank(S, q)
  <2>1. EarlierThan(S, p) \cup {p} \in SUBSET EarlierThan(S, q)
    BY <1>4, BeforeIsTotal DEF EarlierThan
  <2>2. Cardinality(EarlierThan(S, p) \cup {p}) <= Rank(S, q)
    BY <1>2, <2>1, FS_Subset DEF Rank
  <2>3. Rank(S, p) \in Nat /\ Cardinality(EarlierThan(S, p) \cup {p}) = Rank(S, p) + 1
    BY <1>2
  <2>4. Rank(S, q) \in Nat
    BY <1>2
  <2> QED BY <2>2, <2>3, <2>4
<1> QED BY <1>2, <1>3, <1>4

\* So every place is taken, by one policy.
LEMMA RankIsOnto ==
  ASSUME NEW S, Sortable(S), NEW i \in 0..(Cardinality(S) - 1)
  PROVE  \E p \in S : Rank(S, p) = i
<1> DEFINE n == Cardinality(S)
           T == 0..(n - 1)
           f == [p \in S |-> Rank(S, p)]
<1>1. n \in Nat
  BY FS_CardinalityType DEF Sortable
<1>2. IsFiniteSet(T) /\ Cardinality(T) = n
  BY <1>1, FS_Interval
<1>3. \A p \in S : Rank(S, p) \in T
  BY <1>1, RankIsMonotone
<1>4. \A p, q \in S : Rank(S, p) = Rank(S, q) => p = q
  BY RankIsMonotone, BeforeIsTotal
<1>5. IsFiniteSet(T \ {i}) /\ Cardinality(T \ {i}) < n
  <2>1. i \in T
    OBVIOUS
  <2> HIDE DEF T, n
  <2>2. IsFiniteSet(T \ {i}) /\ Cardinality(T \ {i}) = Cardinality(T) - 1
    BY <1>2, <2>1, FS_RemoveElement
  <2> QED BY <1>1, <1>2, <2>2
<1>6. SUFFICES ASSUME f \in [S -> T \ {i}] PROVE FALSE
  BY <1>3
<1>7. \E p, q \in S : p # q /\ f[p] = f[q]
  <2> HIDE DEF f, T
  <2> QED BY <1>5, <1>6, FS_PigeonHole DEF Sortable
<1> QED BY <1>4, <1>7

\* sortPolicies lists the policies, each once, in the order of evaluation
\* (engine_impl.go:36-41).
LEMMA SortSorts ==
  ASSUME NEW S, Sortable(S)
  PROVE  LET order == sortPolicies(S)
         IN  /\ Cardinality(S) \in Nat
             /\ order \in [1..Cardinality(S) -> S]
             /\ \A p \in S : \E i \in 1..Cardinality(S) : order[i] = p
             /\ \A i, j \in 1..Cardinality(S) : i < j => Before(order[i], order[j])
<1> DEFINE n == Cardinality(S)
           order == sortPolicies(S)
<1>1. n \in Nat
  BY FS_CardinalityType DEF Sortable
<1>2. ASSUME NEW i \in 1..n PROVE order[i] \in S /\ Rank(S, order[i]) = i - 1
  <2>1. i - 1 \in 0..(n - 1)
    BY <1>1
  <2>2. \E p \in S : Rank(S, p) = i - 1
    BY <2>1, RankIsOnto
  <2>3. order[i] = CHOOSE p \in S : Rank(S, p) = i - 1
    BY DEF sortPolicies, Rank, EarlierThan
  <2> QED BY <2>2, <2>3
<1>3. order \in [1..n -> S]
  BY <1>2 DEF sortPolicies
<1>4. \A p, q \in S : Rank(S, p) = Rank(S, q) => p = q
  BY RankIsMonotone, BeforeIsTotal
<1>5. ASSUME NEW p \in S PROVE \E i \in 1..n : order[i] = p
  <2>1. Rank(S, p) + 1 \in 1..n /\ (Rank(S, p) + 1) - 1 = Rank(S, p)
    BY <1>1, RankIsMonotone
  <2>2. order[Rank(S, p) + 1] = p
    BY <1>2, <1>4, <2>1
  <2> QED BY <2>1, <2>2
<1>6. ASSUME NEW i \in 1..n, NEW j \in 1..n, i < j PROVE Before(order[i], order[j])
  <2>1. order[i] \in S /\ order[j] \in S /\ Rank(S, order[i]) = i - 1 /\ Rank(S, order[j]) = j - 1
    BY <1>2
  <2>2. order[i] # order[j] /\ ~Before(order[j], order[i])
    BY <1>6, <2>1, RankIsMonotone
  <2> QED BY <2>1, <2>2, BeforeIsTotal
<1> QED BY <1>1, <1>3, <1>5, <1>6

Having(S, effect) == {p \in S : p.effect = effect}
PlacesOf(S, effect) ==
  {i \in DOMAIN sortPolicies(S) : sortPolicies(S)[i].effect = effect}
FirstPlace(I) == CHOOSE i \in I : \A j \in I : i <= j
FirstPolicy(S) == CHOOSE p \in S : \A q \in S : q = p \/ Before(p, q)

\* The first place in the list where an effect stands holds the first policy of
\* that effect.
LEMMA FirstInOrder ==
  ASSUME NEW S, Sortable(S), NEW effect
  PROVE  /\ PlacesOf(S, effect) = {} <=> Having(S, effect) = {}
         /\ Having(S, effect) # {} =>
              sortPolicies(S)[FirstPlace(PlacesOf(S, effect))] = FirstPolicy(Having(S, effect))
<1> DEFINE n == Cardinality(S)
           order == sortPolicies(S)
           I == PlacesOf(S, effect)
           E == Having(S, effect)
           m == FirstPlace(I)
           First(p) == \A q \in E : q = p \/ Before(p, q)
<1>1. /\ n \in Nat /\ order \in [1..n -> S]
      /\ \A p \in S : \E i \in 1..n : order[i] = p
      /\ \A i, j \in 1..n : i < j => Before(order[i], order[j])
  BY SortSorts
<1>2. I = {i \in 1..n : order[i].effect = effect}
  BY <1>1 DEF PlacesOf
<1>3. I = {} <=> E = {}
  BY <1>1, <1>2 DEF Having
<1>4. SUFFICES ASSUME E # {} PROVE order[m] = FirstPolicy(E)
  BY <1>3
<1>5. m \in I /\ \A j \in I : m <= j
  <2>1. I \in SUBSET Nat /\ I # {}
    BY <1>1, <1>2, <1>3, <1>4
  <2>2. \E k \in I : \A j \in I : k <= j
    BY <2>1, LeastNumber
  <2> QED BY <2>2 DEF FirstPlace
<1>6. order[m] \in E /\ First(order[m])
  <2>1. order[m] \in E
    BY <1>1, <1>2, <1>5 DEF Having
  <2>2. ASSUME NEW q \in E PROVE q = order[m] \/ Before(order[m], q)
    <3>1. PICK j \in 1..n : order[j] = q
      BY <1>1 DEF Having
    <3>2. j \in I
      BY <1>2, <3>1 DEF Having
    <3>3. m \in 1..n /\ m <= j
      BY <1>2, <1>5, <3>2
    <3> QED BY <1>1, <3>1, <3>3
  <2> QED BY <2>1, <2>2
<1>7. \A p, q \in E : First(p) /\ First(q) => p = q
  <2>1. E \subseteq S
    BY DEF Having
  <2> QED BY <2>1, BeforeIsTotal
<1> QED
  <2>1. FirstPolicy(E) \in E /\ First(FirstPolicy(E))
    BY <1>6 DEF FirstPolicy
  <2> QED BY <1>6, <1>7, <2>1

\* The decision docs/POLICY_ENGINE.md gives for the matching policies.
ByRules(S) ==
  IF Having(S, "deny") # {} THEN Denied("policy_deny", FirstPolicy(Having(S, "deny")).id)
  ELSE IF Having(S, "allow") # {} THEN Allowed(FirstPolicy(Having(S, "allow")).id)
  ELSE Denied("no_matching_policy", NoPolicy)

\* The scan of the sorted list decides by the rules, whichever effects it holds.
LEMMA ScanFollowsRules ==
  ASSUME NEW S, Sortable(S), \A p \in S : p.effect \in {"allow", "deny"}
  PROVE  Scan(sortPolicies(S)) = ByRules(S)
<1> DEFINE n == Cardinality(S)
           order == sortPolicies(S)
<1>1. n \in Nat /\ order \in [1..n -> S]
  BY SortSorts
<1>2. Scan(order) =
        IF order = <<>> THEN Denied("no_matching_policy", NoPolicy)
        ELSE IF PlacesOf(S, "deny") # {}
          THEN Denied("policy_deny", order[FirstPlace(PlacesOf(S, "deny"))].id)
        ELSE IF PlacesOf(S, "allow") # {}
          THEN Allowed(order[FirstPlace(PlacesOf(S, "allow"))].id)
        ELSE Denied("no_allowing_policy", NoPolicy)
  BY DEF Scan, PlacesOf, FirstPlace
<1>3. CASE S = {}
  <2>1. Having(S, "deny") = {} /\ Having(S, "allow") = {}
    BY <1>3 DEF Having
  <2>2. n = 0
    BY <1>3, FS_EmptySet
  <2>3. order = <<>>
    BY <1>1, <2>2 DEF sortPolicies
  <2> QED BY <1>2, <2>1, <2>3 DEF ByRules
<1>4. CASE S # {}
  <2>1. Having(S, "deny") # {} \/ Having(S, "allow") # {}
    BY <1>4 DEF Having
  <2>2. order # <<>>
    <3>1. n # 0
      BY <1>4, FS_EmptySet DEF Sortable
    <3>2. 1 \in DOMAIN order
      BY <1>1, <3>1
    <3> QED BY <3>2
  <2> QED BY <1>2, <2>1, <2>2, FirstInOrder DEF ByRules
<1> QED BY <1>3, <1>4

-----------------------------------------------------------------------------
(* The policy store, whoever edits it *)

IdsUnique == \A p, q \in policies : p.id = q.id => p = q
IdsHandedOut == \A p \in policies : p.id < nextID

StoreInv == StoreTypeOK /\ IsFiniteSet(policies) /\ IdsUnique /\ IdsHandedOut

PolicyStates ==
  {Stored(id, t, b) : id \in 1..MaxId, t \in Tenants, b \in Bodies \cup {DemoPolicy}}

\* A stored policy has the identity it was given, and the fields the engine
\* reads.
LEMMA StoredFields ==
  ASSUME NEW id \in 1..MaxId, NEW t \in Tenants, NEW b \in Bodies \cup {DemoPolicy}
  PROVE  LET p == Stored(id, t, b)
         IN  /\ p \in PolicyStates
             /\ p.id = id /\ p.tenant = t
             /\ p.effect \in {"allow", "deny"} /\ p.priority \in Int
<1>1. Stored(id, t, b) \in Policy(Tenants)
  BY PolicyStoreAssumption
<1>2. Stored(id, t, b).id = id /\ Stored(id, t, b).tenant = t
  BY DEF Stored
<1>3. Stored(id, t, b).effect \in {"allow", "deny"} /\ Stored(id, t, b).priority \in Int
  BY <1>1 DEF Policy
<1> QED BY <1>2, <1>3 DEF PolicyStates

\* What the invariant says of the policies.
LEMMA PolicyFacts ==
  ASSUME StoreTypeOK
  PROVE  \A p \in policies :
           /\ p.id \in 1..MaxId /\ p.tenant \in Tenants
           /\ p.effect \in {"allow", "deny"} /\ p.priority \in Int
<1> SUFFICES ASSUME NEW p \in policies
             PROVE  /\ p.id \in 1..MaxId /\ p.tenant \in Tenants
                    /\ p.effect \in {"allow", "deny"} /\ p.priority \in Int
  OBVIOUS
<1>1. PICK id \in 1..MaxId, t \in Tenants, b \in Bodies \cup {DemoPolicy} : p = Stored(id, t, b)
  BY DEF StoreTypeOK
<1> QED BY <1>1, StoredFields

\* The demo policy is the first the store holds.
LEMMA StoreInvInit == StoreInit => StoreInv
<1> SUFFICES ASSUME StoreInit PROVE StoreInv
  OBVIOUS
<1> DEFINE demo == Stored(1, DefaultTenant, DemoPolicy)
<1>1. MaxId \in Nat /\ MaxId # 0 /\ MaxRestarts \in Nat /\ DefaultTenant \in Tenants
  BY PolicyStoreAssumption, TenancyAssumption
<1>2. demo \in PolicyStates /\ demo.id = 1
  BY <1>1, StoredFields
<1>3. policies = {demo} /\ nextID = 2 /\ persistent \in Stores /\ restarts = 0
  BY DEF StoreInit
<1>4. last = [op |-> "restart", tenant |-> DefaultTenant, outcome |-> "ok"]
  BY DEF StoreInit, Result
<1>5. StoreTypeOK
  BY <1>1, <1>2, <1>3, <1>4 DEF StoreTypeOK, PolicyStates
<1>6. IsFiniteSet(policies)
  BY <1>3, FS_Singleton
<1>7. IdsUnique /\ IdsHandedOut
  <2> HIDE DEF demo
  <2> QED BY <1>2, <1>3 DEF IdsUnique, IdsHandedOut
<1> QED BY <1>5, <1>6, <1>7 DEF StoreInv

\* A new policy has an id above all handed out.
LEMMA CreateKeeps ==
  ASSUME StoreInv, NEW t \in Tenants, NEW b \in Bodies, CreatePolicy(t, b)
  PROVE  StoreInv'
<1> DEFINE new == Stored(nextID, t, b)
<1>1. MaxId \in Nat /\ nextID \in 1..MaxId
  BY PolicyStoreAssumption DEF StoreInv, StoreTypeOK, CreatePolicy
<1>2. new \in PolicyStates /\ new.id = nextID
  BY <1>1, StoredFields
<1>3. policies' = policies \cup {new} /\ nextID' = nextID + 1
  BY DEF CreatePolicy
<1>4. StoreTypeOK'
  BY <1>1, <1>2, <1>3 DEF StoreInv, StoreTypeOK, PolicyStates, CreatePolicy, Result
<1>5. IsFiniteSet(policies')
  BY <1>3, FS_AddElement DEF StoreInv
<1>6. \A p \in policies : p.id \in Int /\ p.id < nextID
  BY PolicyFacts DEF StoreInv, IdsHandedOut
<1> HIDE DEF new
<1>7. IdsUnique'
  BY <1>1, <1>2, <1>3, <1>6 DEF StoreInv, IdsUnique
<1>8. IdsHandedOut'
  BY <1>1, <1>2, <1>3, <1>6 DEF IdsHandedOut
<1> QED BY <1>4, <1>5, <1>7, <1>8 DEF StoreInv

\* Replacing a policy keeps its id.
LEMMA UpdateKeeps ==
  ASSUME StoreInv, NEW t \in Tenants, NEW id \in 1..MaxId, NEW b \in Bodies, UpdatePolicy(t, id, b)
  PROVE  StoreInv'
<1> DEFINE new == Stored(id, t, b)
<1>1. new \in PolicyStates /\ new.id = id
  BY StoredFields
<1>2. nextID' = nextID /\ restarts' = restarts /\ persistent' = persistent
  BY DEF UpdatePolicy
<1>3. last' \in [op : {"create", "update", "delete", "restart"}, tenant : Tenants,
                 outcome : {"ok", "not_found"}]
  BY DEF UpdatePolicy, Result
<1>4. CASE Find(t, id) = {}
  BY <1>2, <1>3, <1>4 DEF UpdatePolicy, StoreInv, StoreTypeOK, IdsUnique, IdsHandedOut
<1>5. CASE Find(t, id) # {}
  <2>1. PICK old \in policies : old.id = id
    BY <1>5 DEF Find
  <2>2. Find(t, id) = {old}
    BY <1>5, <2>1 DEF Find, StoreInv, IdsUnique
  <2>3. policies' = (policies \ {old}) \cup {new}
    BY <1>5, <2>2 DEF UpdatePolicy
  <2>4. StoreTypeOK'
    BY <1>1, <1>2, <1>3, <2>3 DEF StoreInv, StoreTypeOK, PolicyStates
  <2>5. IsFiniteSet(policies')
    BY <2>3, FS_RemoveElement, FS_AddElement DEF StoreInv
  <2> HIDE DEF new
  <2>6. IdsUnique' /\ IdsHandedOut'
    BY <1>1, <1>2, <2>1, <2>3 DEF StoreInv, IdsUnique, IdsHandedOut
  <2> QED BY <2>4, <2>5, <2>6 DEF StoreInv
<1> QED BY <1>4, <1>5

\* Deleting a policy does not give its id back.
LEMMA DeleteKeeps ==
  ASSUME StoreInv, NEW t \in Tenants, NEW id \in 1..MaxId, DeletePolicy(t, id)
  PROVE  StoreInv'
<1>1. policies' \in SUBSET policies
  BY DEF DeletePolicy
<1>2. IsFiniteSet(policies')
  BY <1>1, FS_Subset DEF StoreInv
<1>3. StoreTypeOK'
  BY <1>1 DEF StoreInv, StoreTypeOK, DeletePolicy, Result
<1>4. IdsUnique' /\ IdsHandedOut'
  BY <1>1 DEF StoreInv, IdsUnique, IdsHandedOut, DeletePolicy
<1> QED BY <1>2, <1>3, <1>4 DEF StoreInv

\* A restart goes on from the stored policies, or begins again without them.
LEMMA RestartKeeps ==
  ASSUME StoreInv, Restart
  PROVE  StoreInv'
<1> DEFINE kept == IF persistent THEN policies ELSE {}
           id == IF persistent THEN nextID ELSE 1
           demo == Stored(id, DefaultTenant, DemoPolicy)
<1>1. /\ MaxId \in Nat /\ id \in 1..MaxId
      /\ DefaultTenant \in Tenants /\ MaxRestarts \in Nat /\ restarts < MaxRestarts
  BY PolicyStoreAssumption, TenancyAssumption DEF StoreInv, StoreTypeOK, Restart
<1>2. demo \in PolicyStates /\ demo.id = id
  BY <1>1, StoredFields
<1>3. /\ policies' = kept \cup {demo} /\ nextID' = id + 1
      /\ restarts' = restarts + 1 /\ persistent' = persistent
      /\ last' = [op |-> "restart", tenant |-> DefaultTenant, outcome |-> "ok"]
  BY DEF Restart, Result
<1>4. \A p \in kept : p.id \in Int /\ p.id < id
  BY PolicyFacts DEF StoreInv, IdsHandedOut
<1>5. IsFiniteSet(kept) /\ kept \subseteq PolicyStates
      /\ \A p, q \in kept : p.id = q.id => p = q
  BY FS_EmptySet DEF StoreInv, StoreTypeOK, PolicyStates, IdsUnique
<1> HIDE DEF kept, id, demo
<1>6. StoreTypeOK'
  BY <1>1, <1>2, <1>3, <1>5 DEF StoreInv, StoreTypeOK, PolicyStates
<1>7. IsFiniteSet(policies')
  BY <1>3, <1>5, FS_AddElement
<1>8. IdsUnique'
  BY <1>1, <1>2, <1>3, <1>4, <1>5 DEF IdsUnique
<1>9. IdsHandedOut'
  BY <1>1, <1>2, <1>3, <1>4 DEF IdsHandedOut
<1> QED BY <1>6, <1>7, <1>8, <1>9 DEF StoreInv

\* Every step of the store keeps the invariant.
LEMMA StoreInvNext == StoreInv /\ [StoreNext]_storeVars => StoreInv'
<1> SUFFICES ASSUME StoreInv, [StoreNext]_storeVars PROVE StoreInv'
  OBVIOUS
<1>1. CASE UNCHANGED storeVars
  BY <1>1 DEF storeVars, StoreInv, StoreTypeOK, IdsUnique, IdsHandedOut
<1>2. ASSUME NEW t \in Tenants, AdminRequest(t) PROVE StoreInv'
  BY <1>2, CreateKeeps, UpdateKeeps, DeleteKeeps DEF AdminRequest
<1> QED BY <1>1, <1>2, RestartKeeps DEF StoreNext

\* Ids are unique and below the counter, whatever was edited and however often
\* the verifier restarted (store_memory.go:49-73, server.go:62-81).
THEOREM StoreInvariance == StoreSpec => []StoreInv
<1> QED BY StoreInvInit, StoreInvNext, PTL DEF StoreSpec

\* The store holds policies of known tenants with ids that were handed out.
THEOREM StoreTypeCorrect == StoreSpec => []StoreTypeOK
<1>1. StoreInv => StoreTypeOK
  BY DEF StoreInv
<1> QED BY StoreInvariance, <1>1, PTL

\* The engine decides by the documented rules (engine_impl.go:21-59), for any
\* number of policies and every input: a deny, wherever it stands in the order,
\* and otherwise the first allow.
THEOREM EvaluationRules == StoreSpec => []EvaluateFollowsRules
<1>1. StoreInv => EvaluateFollowsRules
  <2> SUFFICES ASSUME StoreInv, NEW input \in Inputs
               PROVE  Evaluate(policies, input) = RuleDecision(input)
    BY DEF EvaluateFollowsRules
  <2> DEFINE S == {p \in policies : p.tenant = input.tenant /\ Matches(p, input)}
  <2>1. filterMatchingPolicies(ListPoliciesForTenant(policies, input.tenant), input) = S
    BY DEF filterMatchingPolicies, ListPoliciesForTenant
  <2>2. Evaluate(policies, input) = Scan(sortPolicies(S))
    BY <2>1 DEF Evaluate
  <2>3. S \in SUBSET policies
    OBVIOUS
  <2>4. Sortable(S) /\ \A p \in S : p.effect \in {"allow", "deny"}
    <3>1. IsFiniteSet(S)
      BY <2>3, FS_Subset DEF StoreInv
    <3> QED BY <2>3, <3>1, PolicyFacts DEF StoreInv, IdsUnique, Sortable
  <2>5. RuleDecision(input) = ByRules(S)
    BY DEF RuleDecision, ByRules, Having, FirstPolicy
  <2> HIDE DEF S
  <2> QED BY <2>2, <2>4, <2>5, ScanFollowsRules
<1> QED BY StoreInvariance, <1>1, PTL

\* A request served for one tenant leaves the policies of the others alone.
LEMMA OtherTenantUntouched ==
  ASSUME StoreInv, NEW t \in Tenants, AdminRequest(t), NEW u, u # t
  PROVE  ListPoliciesForTenant(policies', u) = ListPoliciesForTenant(policies, u)
<1>1. ASSUME NEW b \in Bodies, CreatePolicy(t, b)
      PROVE  ListPoliciesForTenant(policies', u) = ListPoliciesForTenant(policies, u)
  <2>1. nextID \in 1..MaxId
    BY <1>1, PolicyStoreAssumption DEF StoreInv, StoreTypeOK, CreatePolicy
  <2>2. Stored(nextID, t, b).tenant = t
    BY <2>1, StoredFields
  <2> QED BY <1>1, <2>2 DEF CreatePolicy, ListPoliciesForTenant
<1>2. ASSUME NEW id \in 1..MaxId, NEW b \in Bodies, UpdatePolicy(t, id, b)
      PROVE  ListPoliciesForTenant(policies', u) = ListPoliciesForTenant(policies, u)
  <2>1. Stored(id, t, b).tenant = t
    BY StoredFields
  <2>2. \/ policies' = policies
        \/ policies' = (policies \ Find(t, id)) \cup {Stored(id, t, b)}
    BY <1>2 DEF UpdatePolicy
  <2> QED BY <2>1, <2>2 DEF Find, ListPoliciesForTenant
<1>3. ASSUME NEW id \in 1..MaxId, DeletePolicy(t, id)
      PROVE  ListPoliciesForTenant(policies', u) = ListPoliciesForTenant(policies, u)
  BY <1>3 DEF DeletePolicy, Find, ListPoliciesForTenant
<1> QED BY <1>1, <1>2, <1>3 DEF AdminRequest

\* An admin request reports its own tenant and operation.
LEMMA ReportsItself ==
  ASSUME NEW t \in Tenants, AdminRequest(t)
  PROVE  last'.tenant = t /\ last'.op # "restart"
BY DEF AdminRequest, CreatePolicy, UpdatePolicy, DeletePolicy, Result

\* No admin request of one tenant changes a decision of another, although ids
\* are handed out across tenants (store_memory.go:76-130, store_pg.go:85-118).
THEOREM TenantIsolation == StoreSpec => TenantsDecideAlone
<1> DEFINE Alone ==
      \A input \in Inputs :
        input.tenant # last'.tenant
          => Evaluate(policies', input) = Evaluate(policies, input)
             \/ last'.op = "restart"
<1>1. StoreInv /\ [StoreNext]_storeVars => [Alone]_storeVars
  <2> SUFFICES ASSUME StoreInv, StoreNext, NEW input \in Inputs,
                      input.tenant # last'.tenant, last'.op # "restart"
               PROVE  Evaluate(policies', input) = Evaluate(policies, input)
    OBVIOUS
  <2>1. PICK t \in Tenants : AdminRequest(t)
    BY DEF StoreNext, Restart, Result
  <2>2. ListPoliciesForTenant(policies', input.tenant) = ListPoliciesForTenant(policies, input.tenant)
    BY <2>1, ReportsItself, OtherTenantUntouched
  <2> QED BY <2>2 DEF Evaluate
<1> QED BY StoreInvariance, <1>1, PTL DEF StoreSpec, TenantsDecideAlone

\* An id names one policy for as long as the verifier runs
\* (store_memory.go:49-130).
THEOREM IdsAreNames == StoreSpec => IdsNameOnePolicy
<1> DEFINE Named ==
      last'.op # "restart" =>
       /\ \A p, q \in policies' : p.id = q.id => p = q
       /\ \A p \in policies' :
            p.id < nextID => \E q \in policies : q.id = p.id /\ q.tenant = p.tenant
<1>1. StoreInv /\ StoreInv' /\ [StoreNext]_storeVars => [Named]_storeVars
  <2> SUFFICES ASSUME StoreInv, StoreInv', StoreNext, last'.op # "restart"
               PROVE  /\ \A p, q \in policies' : p.id = q.id => p = q
                      /\ \A p \in policies' :
                           p.id < nextID => \E q \in policies : q.id = p.id /\ q.tenant = p.tenant
    OBVIOUS
  <2>1. PICK t \in Tenants : AdminRequest(t)
    BY DEF StoreNext, Restart, Result
  <2>2. \A p, q \in policies' : p.id = q.id => p = q
    BY DEF StoreInv, IdsUnique
  <2>3. ASSUME NEW p \in policies', p.id < nextID
        PROVE  \E q \in policies : q.id = p.id /\ q.tenant = p.tenant
    <3>1. ASSUME NEW b \in Bodies, CreatePolicy(t, b) PROVE p \in policies
      <4>1. nextID \in 1..MaxId
        BY <3>1, PolicyStoreAssumption DEF StoreInv, StoreTypeOK, CreatePolicy
      <4>2. Stored(nextID, t, b).id = nextID
        BY <4>1, StoredFields
      <4> QED BY <2>3, <3>1, <4>1, <4>2 DEF CreatePolicy
    <3>2. ASSUME NEW id \in 1..MaxId, NEW b \in Bodies, UpdatePolicy(t, id, b)
          PROVE  \E q \in policies : q.id = p.id /\ q.tenant = p.tenant
      <4>1. Stored(id, t, b).id = id /\ Stored(id, t, b).tenant = t
        BY StoredFields
      <4>2. \/ p \in policies
            \/ Find(t, id) # {} /\ p = Stored(id, t, b)
        BY <2>3, <3>2 DEF UpdatePolicy
      <4> QED BY <4>1, <4>2 DEF Find
    <3>3. ASSUME NEW id \in 1..MaxId, DeletePolicy(t, id) PROVE p \in policies
      BY <2>3, <3>3 DEF DeletePolicy
    <3> QED BY <2>1, <3>1, <3>2, <3>3 DEF AdminRequest
  <2> QED BY <2>2, <2>3
<1> QED BY StoreInvariance, <1>1, PTL DEF StoreSpec, IdsNameOnePolicy

-----------------------------------------------------------------------------
(* The policy store behind the gate *)

\* A list that is not empty and no longer than one has one element.
LEMMA Singleton ==
  ASSUME NEW S, NEW s \in Seq(S), s # <<>>, Len(s) <= 1
  PROVE  Len(s) = 1 /\ 1 \in DOMAIN s /\ s[1] \in S /\ s = <<s[1]>>
<1>1. Len(s) \in Nat /\ DOMAIN s = 1..Len(s)
  OBVIOUS
<1>2. Len(s) # 0
  OBVIOUS
<1>3. Len(s) = 1
  BY <1>1, <1>2
<1> QED BY <1>1, <1>3

\* The credential of an accepted admin request: one, a super-admin's, valid now
\* and of an issuer the tenant trusts.
LEMMA AdminCredential ==
  ASSUME Inv, reply.valid, request.route = "admin"
  PROVE  \E c \in Tokens :
           /\ request.chain = <<c>>
           /\ IsAdminVC(c) /\ HasAdminRole(c, "super-admin") /\ ~Expired(c, clock)
           /\ c.issuer \in trusted[TenantOf(request)] /\ c.signedBy = KeyOf[c.issuer]
<1> DEFINE chain == request.chain
           c == chain[1]
           key == KeysFor(TenantOf(request))[c.issuer]
<1>1. /\ request \in Request /\ deployment \in Deployments
      /\ Reaches(request) /\ chain # <<>> /\ Verdict(request, clock) = Ok
      /\ ValidateAdminVC(Leaf(chain), "super-admin") = Ok
  BY AcceptedFacts DEF Inv, TypeOK, Privileged
<1>2. chain \in Seq(Tokens) /\ Len(chain) <= 1
  BY <1>1, RequestFacts DEF Inv, Routed
<1>3. Len(chain) = 1 /\ 1 \in DOMAIN chain /\ c \in Tokens /\ chain = <<c>>
  <2> HIDE DEF chain
  <2> QED BY <1>1, <1>2, Singleton
<1>4. IsAdminVC(c) /\ HasAdminRole(c, "super-admin")
  BY <1>1, <1>3 DEF Leaf, ValidateAdminVC, Ok
<1>5. Iteration(chain, 1, KeysFor(TenantOf(request)), AudOf(request), DepthOf(request), clock) = Ok
  BY <1>1, <1>3, VerdictFacts
<1>6. ~Expired(c, clock)
  <2>1. \E a : verifySingleCredential(c, key, a, clock) = Ok
    BY <1>5 DEF Iteration, ErrorAt
  <2> HIDE DEF key, c
  <2> QED BY <2>1 DEF verifySingleCredential, Ok
<1>7. TenantOf(request) \in Tenants
  BY <1>1, TenantFacts
<1>8. c.issuer \in trusted[TenantOf(request)] /\ c.signedBy = KeyOf[c.issuer]
  BY <1>1, <1>3, <1>5, <1>7, PassedIsTrusted
<1> QED BY <1>3, <1>4, <1>6, <1>8

\* What the gate has established about a request it let through, for the tenant
\* the handlers will serve it for.
Sound(a) ==
  /\ TenantFor(a.request) \in Tenants
  /\ deployment.table[TenantFor(a.request)] = "enabled"
  /\ a.at <= clock
  /\ \E c \in Tokens :
       /\ a.request.chain = <<c>>
       /\ IsAdminVC(c) /\ HasAdminRole(c, "super-admin") /\ ~Expired(c, a.at)
       /\ c.issuer \in a.trusted[TenantFor(a.request)] /\ c.signedBy = KeyOf[c.issuer]

Vouched == \A a \in admitted : Sound(a)

\* An accepted admin request is one that can be vouched for.
AdmittedNow == \A a \in Admit(request, reply, clock) : Sound(a)

\* The reply in the state says all that is needed.
LEMMA AdmitSound == Inv => AdmittedNow
<1> SUFFICES ASSUME Inv, reply.valid, request.route = "admin",
                    NEW a, a = [request |-> request, at |-> clock, trusted |-> trusted]
             PROVE  Sound(a)
  BY DEF AdmittedNow, Admit
<1>1. request \in Request /\ deployment \in Deployments /\ clock \in Nat
  BY VerifyEndpointAssumption DEF Inv, TypeOK
<1>2. TenantFor(request) = TenantOf(request)
  BY DEF TenantFor, TenantOf, Found
<1>3. TenantFor(request) \in Tenants /\ deployment.table[TenantFor(request)] = "enabled"
  BY <1>1, <1>2, AcceptedFacts, TenantFacts
<1>4. a.request = request /\ a.at = clock /\ a.trusted = trusted
  OBVIOUS
<1>5. \E c \in Tokens :
        /\ request.chain = <<c>>
        /\ IsAdminVC(c) /\ HasAdminRole(c, "super-admin") /\ ~Expired(c, clock)
        /\ c.issuer \in trusted[TenantFor(request)] /\ c.signedBy = KeyOf[c.issuer]
  BY <1>2, AdminCredential
<1> QED BY <1>1, <1>3, <1>4, <1>5 DEF Sound

\* It stays so while the request waits.
LEMMA VouchedNext == Inv /\ Vouched /\ AdmittedNow' /\ [Next]_vars => Vouched'
<1> SUFFICES ASSUME Inv, Vouched, AdmittedNow', [Next]_vars, NEW a \in admitted'
             PROVE  Sound(a)'
  BY DEF Vouched
<1>1. clock \in Nat /\ admitted \subseteq Admission
  BY VerifyEndpointAssumption DEF Inv, TypeOK
<1>2. deployment' = deployment /\ clock' \in Nat /\ clock <= clock'
  BY <1>1 DEF Next, Present, PresentLater, Administer, AddTrustedIssuer, RemoveTrustedIssuer,
              ChangeTrust, vars, endpointVars
<1>3. \/ a \in admitted
      \/ trusted' = trusted /\ a \in Admit(request', reply', clock')
  BY DEF Next, Present, PresentLater, Administer, AddTrustedIssuer, RemoveTrustedIssuer,
         ChangeTrust, vars, endpointVars
<1>4. CASE a \in admitted
  <2>1. Sound(a) /\ a.at \in Nat
    BY <1>1, <1>4 DEF Vouched, Admission
  <2>2. TenantFor(a.request)' = TenantFor(a.request)
    BY <1>2 DEF TenantFor
  <2> QED BY <1>1, <1>2, <2>1, <2>2 DEF Sound
<1>5. CASE trusted' = trusted /\ a \in Admit(request', reply', clock')
  <2>1. a \in Admit(request, reply, clock)'
    BY <1>5 DEF Admit
  <2> QED BY <2>1 DEF AdmittedNow
<1> QED BY <1>3, <1>4, <1>5

\* Whatever waits behind the gate was let through by the trust of its tenant.
THEOREM GateVouches == Spec => []Vouched
<1>1. Init => Vouched
  BY DEF Init, Vouched
<1>2. Spec => []AdmittedNow
  BY Invariance, AdmitSound, PTL
<1> QED BY <1>1, <1>2, Invariance, VouchedNext, PTL DEF Spec

\* The service edits its policies only as the admin API does: composed with the
\* gate the store is still PolicyStore (server.go:208-213).
THEOREM ImplementsStore == Spec => StoreSpec
<1>1. Init => StoreInit
  BY DEF Init
<1>2. Vouched /\ [Next]_vars => [StoreNext]_storeVars
  <2> SUFFICES ASSUME Vouched, [Next]_vars PROVE [StoreNext]_storeVars
    OBVIOUS
  <2>1. CASE Administer
    BY <2>1 DEF Administer, Vouched, Sound, StoreNext
  <2>2. CASE UNCHANGED storeVars
    BY <2>2
  <2> QED BY <2>1, <2>2 DEF Next, Present, PresentLater, AddTrustedIssuer,
                            RemoveTrustedIssuer, ChangeTrust, vars
<1> QED BY GateVouches, <1>1, <1>2, PTL DEF Spec, StoreSpec

\* So what holds of the store alone holds in the service.
THEOREM ServiceDecides ==
  Spec => []EvaluateFollowsRules /\ TenantsDecideAlone /\ IdsNameOnePolicy
<1> QED BY ImplementsStore, EvaluationRules, TenantIsolation, IdsAreNames, PTL

\* The policies of a tenant change only by an edit that spends a request the gate
\* let through, with a bearer the tenant itself trusted when the gate judged it
\* (admin_middleware.go:14-89, policy_admin_handlers.go:78-184).
THEOREM AuthorizedEdits == Spec => EditsAreAuthorized
<1> DEFINE Judged(a, t) ==
      \E c \in Tokens :
        /\ a.request.chain = <<c>> /\ a.at <= clock
        /\ IsAdminVC(c) /\ HasAdminRole(c, "super-admin") /\ ~Expired(c, a.at)
        /\ c.issuer \in a.trusted[t] /\ c.signedBy = KeyOf[c.issuer]
    Authorized ==
      \A t \in Tenants :
        ListPoliciesForTenant(policies', t) # ListPoliciesForTenant(policies, t) =>
          /\ deployment.table[t] = "enabled"
          /\ \E a \in admitted \ admitted', c \in Tokens :
               /\ a.request.chain = <<c>> /\ a.at <= clock
               /\ IsAdminVC(c) /\ HasAdminRole(c, "super-admin") /\ ~Expired(c, a.at)
               /\ c.issuer \in a.trusted[t] /\ c.signedBy = KeyOf[c.issuer]
<1>1. Vouched /\ StoreInv /\ [Next]_vars => [Authorized]_vars
  <2> SUFFICES ASSUME Vouched, StoreInv, [Next]_vars, NEW t \in Tenants,
                      ListPoliciesForTenant(policies', t) # ListPoliciesForTenant(policies, t)
               PROVE  /\ deployment.table[t] = "enabled"
                      /\ \E a \in admitted \ admitted' : Judged(a, t)
    OBVIOUS
  <2>1. policies' # policies
    OBVIOUS
  <2>2. Administer
    BY <2>1 DEF Next, Present, PresentLater, AddTrustedIssuer, RemoveTrustedIssuer,
                ChangeTrust, vars, storeVars
  <2>3. PICK a \in admitted : AdminRequest(TenantFor(a.request)) /\ admitted' = admitted \ {a}
    BY <2>2 DEF Administer
  <2>4. Sound(a)
    BY <2>3 DEF Vouched
  <2>5. t = TenantFor(a.request)
    BY <2>3, <2>4, OtherTenantUntouched DEF Sound
  <2>6. a \in admitted \ admitted'
    BY <2>3
  <2> QED BY <2>4, <2>5, <2>6 DEF Sound
<1> QED BY GateVouches, ImplementsStore, StoreInvariance, <1>1, PTL DEF Spec, EditsAreAuthorized
=============================================================================
