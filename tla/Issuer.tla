-------------------------------- MODULE Issuer --------------------------------
(***************************************************************************)
(* The issuer service (internal/httpserver/issuer_handlers.go and          *)
(* bootstrap_handlers.go, internal/domain/vc.go) over its key store        *)
(* (internal/keystore, internal/did/store.go): concurrent requests to      *)
(* issue, delegate and bootstrap, a key file that can fail to be written,  *)
(* key rotation by idctl beside the running service, and restarts.         *)
(*                                                                         *)
(* A did:jwk spells its key, so a DID and its key are the same value here, *)
(* and a DID document is its current key: the older keys a document keeps  *)
(* are never read.  A request is handled in steps, split where the handler *)
(* takes or releases the store's mutex and where it reads the clock.       *)
(***************************************************************************)
EXTENDS CredentialChain

CONSTANTS
  Tenants,        \* the tenants of the tenant store (the service registers the
                  \* default one; test/multitenant wires several)
  DefaultTenant,  \* cfg.DefaultTenantID
  Requests,       \* the requests clients send
  Handlers,       \* requests that can be in progress at once
  MaxTTLSeconds,  \* issuance policy: longest lifetime, 0 for none
  AllowedScopes,  \* issuance policy: the scopes allowed, {} for all
  RequiredClaims, \* issuance policy: claim names every credential needs
  Day,            \* 24 hours, in seconds
  AdminVCTTL,     \* lifetime of the root administrator's credential
  DurationSpan,   \* a time.Duration is less than this either way, in parts of a second
  MaxKeys,        \* bound: keys generated
  MaxIssued,      \* bound: credentials issued
  MaxTime,        \* bound: last clock value
  MaxRestarts,    \* bound: restarts of the service
  MaxRotations    \* bound: keys that idctl creates or rotates

\* A time.Duration counts parts of a second, here quarters: it wraps at 2^63
\* nanoseconds, which is no whole number of seconds.
Second == 4

(***************************************************************************)
(* A request has a kind, a tenant, a subject, the ttl_seconds it asks for, *)
(* a scope ({}: no scope claim) and an audience, whether it carries a      *)
(* claims object, and whether it asks for an SD-JWT.                       *)
(***************************************************************************)
ASSUME IssuerAssumption ==
  /\ DefaultTenant \in Tenants
  /\ Requests \subseteq
       [kind : {"issue", "delegate", "bootstrap"}, tenant : Tenants, subject : Dids,
        ttl : Int, scope : SUBSET Scopes, aud : Audiences \cup {NoAudience},
        claims : BOOLEAN, sd : BOOLEAN]
  /\ Requests # {}
  /\ 1..MaxKeys \subseteq Ed25519Keys /\ Ed25519Keys \subseteq Dids /\ NoKey = 0
  /\ MaxTTLSeconds \in Nat /\ Second * MaxTTLSeconds < DurationSpan
  /\ AllowedScopes \subseteq Scopes
  /\ Day \in Nat \ {0} /\ AdminVCTTL \in Nat \ {0} /\ DurationSpan \in Nat
  /\ MaxKeys \in Nat /\ MaxIssued \in Nat /\ MaxTime \in Nat \ {0}
  /\ MaxRestarts \in Nat /\ MaxRotations \in Nat

VARIABLES
  clock,     \* the service's clock, in seconds
  mode,      \* the key store in use: "file" or "memory"
  docs,      \* the store's documents: a function from tenants to keys
  disk,      \* what the key file says: such a function
  readable,  \* FALSE when the key file cannot be opened or decoded
  nextKey,   \* the next key to generate
  issued,    \* the credentials issued so far (history)
  pc,        \* pc[h]: the next step of handler h
  req,       \* req[h]: the request it serves
  local,     \* local[h]: its local variables
  restarts,  \* restarts so far
  rotations  \* keys created or rotated by idctl so far

handler == <<pc, req, local>>
file == <<disk, readable>>
store == <<mode, docs, file, nextKey>>
vars == <<clock, store, issued, handler, restarts, rotations>>

NoDocs == [t \in {} |-> 0]

\* generateKey: a key nobody has had before.
GenerateKey == nextKey <= MaxKeys /\ nextKey' = nextKey + 1

\* The key that a tenant's document says is the current one.
CurrentSigner(t) == docs[t]

Put(t, k) == [x \in DOMAIN docs \cup {t} |-> IF x = t THEN k ELSE docs[x]]

-----------------------------------------------------------------------------
(* What is checked of a request *)

\* time.Duration(s) * time.Second, which wraps.
Duration(s) == ((Second * s + DurationSpan) % (2 * DurationSpan)) - DurationSpan

\* Fault: only a zero lifetime is refused.
ValidTTL_NonZero(ttl) == ttl # 0

ValidTTL(ttl) == ttl > 0

MaxTTL ==
  IF MaxTTLSeconds > 0 /\ Duration(MaxTTLSeconds) < Second * Day
    THEN Duration(MaxTTLSeconds) ELSE Second * Day

ClaimNames(scope, aud) ==
  (IF scope = {} THEN {} ELSE {"scope"}) \cup (IF aud = NoAudience THEN {} ELSE {"aud"})

\* Fault: the policy leaves the lifetime to the handler.
ValidateRequest_NoTTL(ttlSeconds, names, scope) ==
  /\ RequiredClaims \subseteq names
  /\ AllowedScopes = {} \/ scope \subseteq AllowedScopes

\* IssuancePolicy.ValidateRequest.
ValidateRequest(ttlSeconds, names, scope) ==
  /\ MaxTTLSeconds = 0 \/ ttlSeconds <= MaxTTLSeconds
  /\ RequiredClaims \subseteq names
  /\ AllowedScopes = {} \/ scope \subseteq AllowedScopes

\* What is checked before the key store is asked.
RequestError(r) ==
  CASE r.kind = "bootstrap" -> Ok
    [] r.kind = "delegate" ->
         IF r.scope = {} \/ ~ValidTTL(Duration(r.ttl)) THEN "validation_error" ELSE Ok
    [] r.kind = "issue" ->
         IF \/ ~ValidTTL(Duration(r.ttl)) \/ Duration(r.ttl) > MaxTTL
            \/ r.claims /\ ClaimNames(r.scope, r.aud) = {}
           THEN "validation_error"
         ELSE IF ~ValidateRequest(r.ttl, ClaimNames(r.scope, r.aud), r.scope)
           THEN "policy_violation"
         ELSE Ok

\* Fault: a parent is resolved like any did:jwk.
ResolveParent_AnyKey(signer, issuer) == issuer

\* The one issuer the delegate handler trusts is itself.
ResolveParent(signer, issuer) == IF issuer = signer THEN signer ELSE NoKey

\* Fault: the lifetime is compared with the parent's whole lifetime.
DelegateError_WholeLifetime(signer, parent, r, now) ==
  LET Resolve == [issuer \in Dids |-> ResolveParent(signer, issuer)]
  IN  IF VerifyCredentialChain(<<parent>>, Resolve, NoAudience, 1, now) # Ok
        THEN "invalid_parent"
      ELSE IF ~IsScopeSubset(ScopeOf(parent), r.scope) THEN "invalid_scope"
      ELSE IF Duration(r.ttl) > Second * (parent.exp - parent.iat) THEN "invalid_ttl"
      ELSE IF ~ValidateRequest(r.ttl, ClaimNames(r.scope, AudienceOf(parent)) \cup {"parent_id"},
                               r.scope)
        THEN "policy_violation"
      ELSE Ok

\* What is checked of a delegation once its key is known, at time now.
DelegateError(signer, parent, r, now) ==
  LET Resolve == [issuer \in Dids |-> ResolveParent(signer, issuer)]
  IN  IF VerifyCredentialChain(<<parent>>, Resolve, NoAudience, 1, now) # Ok
        THEN "invalid_parent"
      ELSE IF ~IsScopeSubset(ScopeOf(parent), r.scope) THEN "invalid_scope"
      ELSE IF ~IsTTLWithinParent(Second * ExpiresAt(parent), Second * now + Duration(r.ttl))
        THEN "invalid_ttl"
      ELSE IF ~ValidateRequest(r.ttl, ClaimNames(r.scope, AudienceOf(parent)) \cup {"parent_id"},
                               r.scope)
        THEN "policy_violation"
      ELSE Ok

-----------------------------------------------------------------------------
(* What is issued *)

\* The seconds between the Unix times at which a credential is issued and
\* expires: a part of a second counts or not, with the moment it is issued at.
UnixSeconds(ttl) == {ttl \div Second, (ttl + Second - 1) \div Second}

\* IssueBasicCredential.
IssueBasicCredential(signer, subject, at, lifetime, scope, aud) ==
  [format |-> "w3c", wellFormed |-> TRUE, depth |-> 0, issuer |-> signer,
   signedBy |-> signer, subject |-> subject, scope |-> scope, aud |-> aud,
   claims |-> {}, iat |-> at, exp |-> at + lifetime, expiresAt |-> at + lifetime,
   digests |-> {}, disclosures |-> <<>>]

\* IssueSDJWTCredential makes the digests a claim "_sd" of the subject and
\* leaves the credential's own _sd member, which verification reads, empty.
IssueSDJWTCredential(signer, subject, at, lifetime) ==
  IssueBasicCredential(signer, subject, at, lifetime, {}, NoAudience)

\* A credential as it was issued: for whom, in which run of the service, from
\* which credentials, how long after it was checked.
Issue(cred, r, ancestors, lag) ==
  [cred |-> cred, tenant |-> r.tenant, kind |-> r.kind, ttl |-> r.ttl,
   ancestors |-> ancestors, lag |-> lag, mode |-> mode, run |-> restarts]

-----------------------------------------------------------------------------
(* State *)

KeyMaps == UNION {[T -> 1..MaxKeys] : T \in SUBSET Tenants}

Locals ==
  [signer : 0..MaxKeys,  \* the key GetSigningKey returned
   parent : Nat,         \* the position in issued of the parent presented, 0 if none
   now    : Nat]         \* the time the parent was verified with

TypeOK ==
  /\ clock \in 1..MaxTime
  /\ mode \in {"file", "memory"}
  /\ docs \in KeyMaps
  /\ disk \in KeyMaps /\ readable \in BOOLEAN
  /\ nextKey \in 1..(MaxKeys + 1)
  /\ \A i \in DOMAIN issued :
       /\ issued[i].cred.exp \in Nat
       /\ issued[i].ancestors \subseteq 1..(i - 1)
       /\ issued[i].lag \in Nat
  /\ pc \in [Handlers -> {"idle", "key", "create", "verify", "sign"}]
  /\ req \in [Handlers -> Requests]
  /\ local \in [Handlers -> Locals]

NoLocals == [signer |-> 0, parent |-> 0, now |-> 0]

\* An idle handler has no request; one of them stands for that.
NoRequest == CHOOSE r \in Requests : TRUE

\* Start-up falls back to a store in memory when the key file cannot be read.
Init ==
  /\ clock = 1
  /\ readable \in BOOLEAN
  /\ mode = IF readable THEN "file" ELSE "memory"
  /\ docs = NoDocs /\ disk = NoDocs
  /\ nextKey = 1
  /\ issued = <<>>
  /\ pc = [h \in Handlers |-> "idle"]
  /\ req = [h \in Handlers |-> NoRequest]
  /\ local = [h \in Handlers |-> NoLocals]
  /\ restarts = 0 /\ rotations = 0

-----------------------------------------------------------------------------
(* The handlers *)

\* The handler answers and returns; a refusal leaves nothing else behind.
Respond(h) ==
  /\ pc' = [pc EXCEPT ![h] = "idle"]
  /\ local' = [local EXCEPT ![h] = NoLocals]
  /\ req' = [req EXCEPT ![h] = NoRequest]

\* A request that is not refused at once arrives; a delegation presents a
\* credential issued earlier.
Start(h, r) ==
  /\ pc[h] = "idle" /\ RequestError(r) = Ok
  /\ pc' = [pc EXCEPT ![h] = "key"]
  /\ req' = [req EXCEPT ![h] = r]
  /\ \E i \in IF r.kind = "delegate" THEN DOMAIN issued ELSE {0} :
       local' = [local EXCEPT ![h].parent = i]
  /\ UNCHANGED <<clock, store, issued, restarts, rotations>>

Tenant(h) == IF req[h].kind = "bootstrap" THEN DefaultTenant ELSE req[h].tenant

\* The handler goes on with the key.
WithKey(h, k) ==
  /\ pc' = [pc EXCEPT ![h] = IF req[h].kind = "delegate" THEN "verify" ELSE "sign"]
  /\ local' = [local EXCEPT ![h].signer = k]
  /\ UNCHANGED req

\* Either store's GetSigningKey finds a key.
GetSigningKey(h) ==
  /\ pc[h] = "key" /\ Tenant(h) \in DOMAIN docs
  /\ WithKey(h, CurrentSigner(Tenant(h)))
  /\ UNCHANGED <<clock, store, issued, restarts, rotations>>

\* Fault: the key is handed out without being kept.
MemoryGetSigningKey_NoStore(h) ==
  /\ pc[h] = "key" /\ mode = "memory" /\ Tenant(h) \notin DOMAIN docs
  /\ GenerateKey
  /\ WithKey(h, nextKey)
  /\ UNCHANGED <<clock, mode, docs, file, issued, restarts, rotations>>

\* MemoryKeyStore looks and creates under one lock.
MemoryGetSigningKey(h) ==
  /\ pc[h] = "key" /\ mode = "memory" /\ Tenant(h) \notin DOMAIN docs
  /\ GenerateKey
  /\ docs' = Put(Tenant(h), nextKey)
  /\ WithKey(h, nextKey)
  /\ UNCHANGED <<clock, mode, file, issued, restarts, rotations>>

\* FileBackedKeyStore looks under the lock of the file store and releases it.
FileGetMisses(h) ==
  /\ pc[h] = "key" /\ mode = "file" /\ Tenant(h) \notin DOMAIN docs
  /\ pc' = [pc EXCEPT ![h] = "create"]
  /\ UNCHANGED <<clock, store, issued, req, local, restarts, rotations>>

\* os.WriteFile has emptied the file and written nothing, or only a part.
Truncate == disk' = NoDocs /\ readable' = FALSE

\* It then generates a key and saves it under the lock, whatever was saved in
\* between.  A failed write, which may have truncated the file, leaves the
\* document in memory.
FileSave(h) ==
  /\ pc[h] = "create" /\ GenerateKey
  /\ docs' = Put(Tenant(h), nextKey)
  /\ \/ /\ disk' = docs' /\ readable' = TRUE
        /\ WithKey(h, nextKey)
     \/ /\ UNCHANGED file \/ Truncate
        /\ Respond(h)
  /\ UNCHANGED <<clock, mode, issued, restarts, rotations>>

\* The delegate handler reads the clock and verifies the parent.
VerifyParent(h) ==
  LET error == DelegateError(local[h].signer, issued[local[h].parent].cred, req[h], clock)
  IN  /\ pc[h] = "verify"
      /\ \/ /\ error # Ok
            /\ Respond(h)
         \/ /\ error = Ok
            /\ pc' = [pc EXCEPT ![h] = "sign"]
            /\ local' = [local EXCEPT ![h].now = clock]
            /\ UNCHANGED req
      /\ UNCHANGED <<clock, store, issued, restarts, rotations>>

\* The root administrator's credential, of the default tenant.
BootstrapIssue(k, r) ==
  Issue(IssueBasicCredential(k, r.subject, clock, AdminVCTTL, {}, NoAudience),
        [r EXCEPT !.tenant = DefaultTenant], {}, 0)

\* The credential is built, with the clock as it is by now, and signed.
NewIssue(h, lifetime) ==
  LET r == req[h]  k == local[h].signer  parent == issued[local[h].parent]
  IN  CASE r.kind = "bootstrap" -> BootstrapIssue(k, r)
        [] r.kind = "issue" /\ r.sd ->
             Issue(IssueSDJWTCredential(k, r.subject, clock, lifetime), r, {}, 0)
        [] r.kind = "issue" /\ ~r.sd ->
             Issue(IssueBasicCredential(k, r.subject, clock, lifetime, r.scope, r.aud),
                   r, {}, 0)
        [] r.kind = "delegate" ->
             Issue(IssueBasicCredential(k, r.subject, clock, lifetime, r.scope,
                                        AudienceOf(parent.cred)),
                   r, parent.ancestors \cup {local[h].parent},
                   parent.lag + clock - local[h].now)

Sign(h) ==
  /\ pc[h] = "sign" /\ Len(issued) < MaxIssued
  /\ \E lifetime \in UnixSeconds(Duration(req[h].ttl)) :
       issued' = Append(issued, NewIssue(h, lifetime))
  /\ Respond(h)
  /\ UNCHANGED <<clock, store, restarts, rotations>>

-----------------------------------------------------------------------------
(* Time, idctl, restarts *)

Tick ==
  /\ clock < MaxTime
  /\ clock' = clock + 1
  /\ UNCHANGED <<store, issued, handler, restarts, rotations>>

\* The documents on disk with key k as t's current one.
RotateKeys(t, k) == [x \in DOMAIN disk \cup {t} |-> IF x = t THEN k ELSE disk[x]]

\* Another process reads the file, gives t a new key and writes the file, beside
\* the running service, which does not look at the file again.
ReplaceKey(t) ==
  /\ rotations < MaxRotations /\ readable
  /\ GenerateKey
  /\ disk' = RotateKeys(t, nextKey)
  /\ rotations' = rotations + 1
  /\ UNCHANGED <<clock, mode, docs, readable, issued, handler, restarts>>

\* idctl did create, whether or not there is a document with that label.
Create(t) == ReplaceKey(t)

\* idctl did rotate.
Rotate(t) == t \in DOMAIN disk /\ ReplaceKey(t)

\* The service stops at any moment, in the middle of a write too, and starts
\* from the key file; without one it can read, it starts with no keys.
Restart ==
  /\ restarts < MaxRestarts
  /\ restarts' = restarts + 1
  /\ \/ UNCHANGED file
     \/ (\E h \in Handlers : pc[h] = "create") /\ Truncate
  /\ mode' = IF readable' THEN "file" ELSE "memory"
  /\ docs' = disk'
  /\ pc' = [h \in Handlers |-> "idle"]
  /\ req' = [h \in Handlers |-> NoRequest]
  /\ local' = [h \in Handlers |-> NoLocals]
  /\ UNCHANGED <<clock, nextKey, issued, rotations>>

Next ==
  \/ \E h \in Handlers :
       \/ \E r \in Requests : Start(h, r)
       \/ GetSigningKey(h) \/ MemoryGetSigningKey(h) \/ FileGetMisses(h) \/ FileSave(h)
       \/ VerifyParent(h) \/ Sign(h)
  \/ Tick
  \/ \E t \in Tenants : Create(t) \/ Rotate(t)
  \/ Restart

Spec == Init /\ [][Next]_vars

-----------------------------------------------------------------------------
(* Properties *)

\* A delegated credential keeps within the scope and the audience of every
\* credential it descends from, and outlives none of them by more than the time
\* that passed, summed over its descent, between checking a delegation
\* (issuer_handlers.go:262) and dating it (vc.go:208).
DelegationNarrows ==
  \A j \in DOMAIN issued : \A i \in issued[j].ancestors :
    LET child == issued[j].cred  ancestor == issued[i].cred
    IN  /\ child.scope \subseteq ancestor.scope
        /\ child.aud = ancestor.aud
        /\ child.exp <= ancestor.exp + issued[j].lag

\* issuer_handlers.go:263 "delegated credential must expire before parent",
\* delegation.go:42 "a child credential expires no later than the parent".
DelegationExpiresFirst ==
  \A j \in DOMAIN issued : \A i \in issued[j].ancestors :
    issued[j].cred.exp <= issued[i].cred.exp

\* No two tenants' credentials are ever signed with one key, and nobody
\* delegates from another tenant's credential, whatever is lost, overwritten
\* or rotated between two requests.
TenantsStayApart ==
  \A i, j \in DOMAIN issued :
    \/ issued[i].tenant = issued[j].tenant
    \/ issued[i].cred.signedBy # issued[j].cred.signedBy /\ i \notin issued[j].ancestors

\* Although a lifetime in seconds wraps when it is turned into a time.Duration
\* (issuer_handlers.go:73 and 210), and the issuance policy looks at it before
\* that: a credential lives no longer than the policy allows, and exactly as
\* long as was asked for unless a negative lifetime was asked for and wrapped, to
\* less than a second perhaps; what is not a delegation lives at most a day.
IssuedLifetimes ==
  \A i \in DOMAIN issued : issued[i].kind # "bootstrap" =>
    LET lifetime == issued[i].cred.exp - issued[i].cred.iat
    IN  /\ lifetime >= 0
        /\ issued[i].ttl > 0 /\ MaxTTLSeconds > 0 => lifetime = issued[i].ttl
        /\ MaxTTLSeconds > 0 => lifetime <= MaxTTLSeconds
        /\ issued[i].kind = "issue" => lifetime <= Day

\* Within one run of the service, the store in memory signs for a tenant with
\* one key, however its first requests overlap.
MemoryKeysAreStable ==
  \A i, j \in DOMAIN issued :
    /\ issued[i].tenant = issued[j].tenant
    /\ issued[i].run = issued[j].run /\ issued[i].mode = "memory"
    => issued[i].cred.signedBy = issued[j].cred.signedBy

\* did_keystore.go:40 "GetSigningKey returns the current signer for the tenant,
\* creating one if needed": within one run of the service a tenant has one.
SignerIsCurrent ==
  \A i, j \in DOMAIN issued :
    issued[i].tenant = issued[j].tenant /\ issued[i].run = issued[j].run
    => issued[i].cred.signedBy = issued[j].cred.signedBy
=============================================================================
