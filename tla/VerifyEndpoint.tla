---------------------------- MODULE VerifyEndpoint ----------------------------
(***************************************************************************)
(* The verifier's two judges of credentials: the handler of                *)
(* POST /v1/credentials/verify (internal/httpserver/verifier_handlers.go)  *)
(* for a chain, and the gate of the admin API (admin_middleware.go) for    *)
(* the one credential of a bearer token, both behind TenantMiddleware; and *)
(* the policy store (module PolicyStore) behind the gate.  A client        *)
(* presents a chain, and presents it again as time passes.  Neither judge  *)
(* keeps state; each of their runs is one step.  What a request does once  *)
(* the gate let it through is another step, for the handler first reads    *)
(* the body: time passes, the trust registry changes and other requests    *)
(* are served in between.  The verifier does not restart.                  *)
(***************************************************************************)
EXTENDS CredentialChain, PolicyStore

CONSTANTS
  Tokens,      \* the credentials a client can present
  KeyOf,       \* the key each issuer DID resolves to, NoKey if it does not resolve
  Deployments, \* the tenancy modes and tenant tables considered
  Registries,  \* the trust registries the service may start with
  MaxChain,    \* bound: longest chain presented
  MaxChanges,  \* bound: changes to the trust registry
  MaxTime      \* bound: last clock value

ASSUME VerifyEndpointAssumption ==
  /\ Tokens \subseteq Credential
  /\ KeyOf \in [Dids -> Keys \cup {NoKey}]
  /\ Deployments \subseteq [mode : Modes, table : [Tenants -> TenantStatus]]
  /\ Registries \subseteq [Tenants -> SUBSET Dids]
  /\ MaxChain \in Nat /\ MaxChanges \in Nat /\ MaxTime \in Nat

VARIABLES
  clock,      \* the service's clock, in seconds
  deployment, \* the tenancy mode and the tenant store
  trusted,    \* trusted[t]: the issuers the trust registry holds for tenant t
  changes,    \* changes to it so far
  request,    \* the last request: its route, names of a tenant, chain and audience
  reply,      \* the answer to it
  admitted    \* the admin requests behind the gate that are not carried out yet

endpointVars == <<clock, deployment, trusted, changes, request, reply, admitted>>

vars == <<endpointVars, storeVars>>

\* RegisterVerifierRoutes asks for at most three delegations, the admin gate
\* for one.
VerifyMaxDepth == 3
AdminMaxDepth == 1

\* /v1/credentials/verify matches no longer path, so it has no segment.
Request ==
  [route : {"verify", "admin"}, header : TenantNames, segment : TenantNames,
   chain : Seq(Tokens), aud : Audiences \cup {NoAudience}]

Refused(error) ==
  [valid |-> FALSE, error |-> error, tenant |-> NoTenant, expiresAt |-> 0,
   delegationDepth |-> 0]

ReplyErrors ==
  VerificationErrors \cup TenantErrors
    \cup {Ok, "none", "invalid_request", "missing_authorization", "admin_credential_required",
          "insufficient_privileges", "not_found"}

Reply ==
  [valid           : BOOLEAN,
   error           : ReplyErrors,
   tenant          : TenantNames, \* the tenant an accepted request acts for
   expiresAt       : Times,
   delegationDepth : 0..VerifyMaxDepth]

\* A request the gate let through; history: when, and with which registry.
Admission == [request : Request, at : Nat, trusted : [Tenants -> SUBSET Dids]]

TypeOK ==
  /\ clock \in 0..MaxTime
  /\ deployment \in Deployments
  /\ trusted \in [Tenants -> SUBSET Dids]
  /\ changes \in 0..MaxChanges
  /\ request \in Request
  /\ reply \in Reply
  /\ admitted \subseteq Admission

-----------------------------------------------------------------------------
\* The handler asks the registry for the request's tenant; the resolver it was
\* given (services/verifier/server.go) asks again for the default tenant.
ResolveIssuerPublicKey(t, issuer) ==
  IF issuer \in trusted[t] /\ issuer \in trusted[DefaultTenant]
    THEN KeyOf[issuer] ELSE NoKey

ChainError(t, chain, aud, depth, now) ==
  VerifyCredentialChain(chain, [issuer \in Dids |-> ResolveIssuerPublicKey(t, issuer)],
                        aud, depth, now)

Accepted(t, chain) ==
  [valid           |-> TRUE,
   error           |-> Ok,
   tenant          |-> t,
   expiresAt       |-> ExpiresAt(Leaf(chain)),
   delegationDepth |-> DelegationChainResult(chain).delegationDepth]

VerifyReply(t, req, now) ==
  LET error == ChainError(t, req.chain, req.aud, VerifyMaxDepth, now)
  IN  IF req.chain = <<>> THEN Refused("invalid_request")
      ELSE IF error # Ok THEN Refused(error)
      ELSE Accepted(t, req.chain)

IsAdminVC(c) == <<"vc_type", "admin">> \in c.claims
HasAdminRole(c, role) == <<"admin_roles", "[]", role>> \in c.claims

ValidateAdminVC(c, role) ==
  IF ~IsAdminVC(c) THEN "admin_credential_required"
  ELSE IF ~HasAdminRole(c, role) THEN "insufficient_privileges"
  ELSE Ok

\* The admin gate, and the routes behind it: none has a segment "tenants".
AdminReply(t, req, now) ==
  LET error   == ChainError(t, req.chain, NoAudience, AdminMaxDepth, now)
      lacking == ValidateAdminVC(Leaf(req.chain), "super-admin")
  IN  IF req.chain = <<>> THEN Refused("missing_authorization")
      ELSE IF error # Ok THEN Refused(error)
      ELSE IF lacking # Ok THEN Refused(lacking)
      ELSE IF req.segment # NoTenant THEN Refused("not_found")
      ELSE Accepted(t, req.chain)

\* A request passes the middleware and reaches its handler.
ServeHTTP(req, now) ==
  LET found == Resolve(deployment.mode, deployment.table, req.header)
      error == TenantError(found[1])
      t     == HandlerTenant(req.header, req.segment, found[2])
  IN  IF error # "none" THEN Refused(error)
      ELSE IF req.route = "admin" THEN AdminReply(t, req, now)
      ELSE VerifyReply(t, req, now)

\* The gate hands an admin request that it accepts to the next handler.
Admit(req, answer, now) ==
  IF req.route = "admin" /\ answer.valid
    THEN {[request |-> req, at |-> now, trusted |-> trusted]} ELSE {}

\* A client presents its chain extended by one more credential; a bearer token
\* holds one.
Present(c) ==
  /\ Len(request.chain) < IF request.route = "admin" THEN 1 ELSE MaxChain
  /\ request' = [request EXCEPT !.chain = Append(request.chain, c)]
  /\ reply' = ServeHTTP(request', clock)
  /\ admitted' = admitted \cup Admit(request', reply', clock)
  /\ UNCHANGED <<clock, deployment, trusted, changes, storeVars>>

\* A client presents the same chain at a later moment.
PresentLater ==
  /\ clock < MaxTime
  /\ clock' = clock + 1
  /\ reply' = ServeHTTP(request, clock')
  /\ admitted' = admitted \cup Admit(request, reply', clock')
  /\ UNCHANGED <<deployment, trusted, changes, request, storeVars>>

TenantFor(req) ==
  HandlerTenant(req.header, req.segment,
                Resolve(deployment.mode, deployment.table, req.header)[2])

\* Fault: the policy routes are registered outside the gate.
Administer_NoGate ==
  /\ request.route = "admin" /\ request.chain # <<>>
  /\ TenantError(Resolve(deployment.mode, deployment.table, request.header)[1]) = "none"
  /\ AdminRequest(TenantFor(request))
  /\ UNCHANGED endpointVars

\* The body of a request that the gate let through has arrived.  The handlers of
\* the policy store work out the tenant again and serve it; nobody looks at the
\* credential again.  A body that cannot be read or built from changes nothing.
Administer ==
  \E a \in admitted :
    /\ AdminRequest(TenantFor(a.request))
    /\ admitted' = admitted \ {a}
    /\ UNCHANGED <<clock, deployment, trusted, changes, request, reply>>

\* The registry is edited; the client has yet to ask again.
ChangeTrust(t, issuers) ==
  /\ changes < MaxChanges
  /\ changes' = changes + 1
  /\ trusted' = [trusted EXCEPT ![t] = issuers]
  /\ reply' = Refused("none")
  /\ UNCHANGED <<clock, deployment, request, admitted, storeVars>>

\* POST /v1/trust/issuers adds to the default tenant, whoever asks.
AddTrustedIssuer(d) ==
  /\ d \notin trusted[DefaultTenant]
  /\ ChangeTrust(DefaultTenant, trusted[DefaultTenant] \cup {d})

RemoveTrustedIssuer(t, d) ==
  /\ d \in trusted[t]
  /\ ChangeTrust(t, trusted[t] \ {d})

Init ==
  /\ clock = 0
  /\ deployment \in Deployments
  /\ trusted \in Registries
  /\ changes = 0
  /\ request \in
       [route : {"verify"}, header : TenantNames, segment : {NoTenant},
        chain : {<<>>}, aud : Audiences \cup {NoAudience}]
       \cup [route : {"admin"}, header : TenantNames, segment : TenantNames,
             chain : {<<>>}, aud : {NoAudience}]
  /\ reply = Refused("none")
  /\ admitted = {}
  /\ StoreInit

Next ==
  \/ \E c \in Tokens : Present(c)
  \/ PresentLater
  \/ Administer
  \/ \E d \in Dids : AddTrustedIssuer(d)
  \/ \E t \in Tenants, d \in Dids : RemoveTrustedIssuer(t, d)

Spec == Init /\ [][Next]_vars

-----------------------------------------------------------------------------
(* Properties *)

\* In an accepted chain no credential, at any distance from the root, has a
\* scope or an expiry its ancestors do not cover: the loop compares neighbours
\* only (vc_verify.go:87-100), and a missing scope or expiry is special-cased.
AcceptedChainNarrows ==
  reply.valid =>
    \A i, j \in DOMAIN request.chain : i < j =>
      LET ancestor == request.chain[i]  descendant == request.chain[j]
      IN  /\ ScopeOf(descendant) \subseteq ScopeOf(ancestor)
          /\ IsTTLWithinParent(ExpiresAt(ancestor), ExpiresAt(descendant))

\* The expires_at of a positive answer, which is the leaf's, is a promise: with
\* an unchanged registry the chain verifies until that time, whichever
\* ancestor's expiry the loop meets first.
ReportedExpiryIsHonoured ==
  [][reply.valid /\ request' = request /\ trusted' = trusted /\ ~reply'.valid
       => reply.expiresAt # 0 /\ clock' >= reply.expiresAt]_vars

\* A chain refused as expired is never accepted at a later time.
ExpiredIsFinal ==
  [][reply.error = "expired" /\ request' = request => ~reply'.valid]_vars

\* A tenant's own trust decides: what is accepted for a tenant, on either route,
\* is signed by issuers its registry holds, with keys they resolve to, and the
\* tenant is the one TenantMiddleware found enabled, although the handlers read
\* another value of the context first (middleware.go:72-84).
AcceptedForItsTenant ==
  reply.valid =>
    /\ deployment.table[reply.tenant] = "enabled"
    /\ reply.tenant = IF request.header = NoTenant THEN DefaultTenant ELSE request.header
    /\ \A i \in DOMAIN request.chain :
         /\ request.chain[i].issuer \in trusted[reply.tenant]
         /\ request.chain[i].signedBy = KeyOf[request.chain[i].issuer]

\* What decides for a tenant changes only by an edit that the tenant's own trust
\* let in: one admin request behind the gate is spent for it, the tenant is
\* enabled, and when the gate judged the one credential presented it was a
\* super-admin's, not expired and signed by an issuer of the tenant's registry.
\* The edit itself may come later: the body is read in between.  The gate and the
\* handlers behind it work out the tenant separately (admin_middleware.go:35-39,
\* policy_admin_handlers.go:85-184).
EditsAreAuthorized ==
  [][\A t \in Tenants :
       ListPoliciesForTenant(policies', t) # ListPoliciesForTenant(policies, t) =>
         /\ deployment.table[t] = "enabled"
         /\ \E a \in admitted \ admitted', c \in Tokens :
              /\ a.request.chain = <<c>> /\ a.at <= clock
              /\ IsAdminVC(c) /\ HasAdminRole(c, "super-admin") /\ ~Expired(c, a.at)
              /\ c.issuer \in a.trusted[t] /\ c.signedBy = KeyOf[c.issuer]]_vars
=============================================================================
