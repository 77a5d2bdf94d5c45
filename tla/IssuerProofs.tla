----------------------------- MODULE IssuerProofs -----------------------------
(***************************************************************************)
(* Safety of module Issuer, for every set of tenants, requests and         *)
(* handlers and every bound: delegations narrow, tenants stay apart, and   *)
(* the store in memory keeps one key for each tenant.                      *)
(***************************************************************************)
EXTENDS Issuer, CredentialChainProofs

-----------------------------------------------------------------------------
(* The inductive invariant *)

IssuedCredential ==
  [format : {"w3c"}, wellFormed : {TRUE}, depth : {0}, issuer : 1..MaxKeys,
   signedBy : 1..MaxKeys, subject : Dids, scope : SUBSET Scopes,
   aud : Audiences \cup {NoAudience}, claims : {{}}, iat : Nat, exp : Nat \ {0},
   expiresAt : Nat, digests : {{}}, disclosures : {<<>>}]

Issuance ==
  [cred : IssuedCredential, tenant : Tenants, kind : {"issue", "delegate", "bootstrap"},
   ttl : Int, ancestors : SUBSET Nat, lag : Nat,
   mode : {"file", "memory"}, run : Nat]

\* What is issued is a sequence of credentials that name the key they are
\* signed with.
TypeInv ==
  /\ TypeOK
  /\ restarts \in Nat
  /\ issued \in Seq(Issuance)
  /\ \A i \in DOMAIN issued : issued[i].cred.issuer = issued[i].cred.signedBy

HoldsKey(h) == pc[h] \in {"verify", "sign"}

\* A handler serves an admitted request and, from a step on, holds a key.
Admitted(h) ==
  /\ pc[h] # "idle" => RequestError(req[h]) = Ok
  /\ pc[h] # "idle" /\ req[h].kind = "delegate" => local[h].parent \in DOMAIN issued
  /\ HoldsKey(h) => local[h].signer \in 1..MaxKeys
  /\ pc[h] = "verify" => req[h].kind = "delegate"

\* What a handler knows of the parent when it is about to sign a delegation.
Delegable(h) ==
  pc[h] = "sign" /\ req[h].kind = "delegate" =>
    LET parent == issued[local[h].parent].cred
    IN  /\ parent.signedBy = local[h].signer
        /\ req[h].scope \subseteq parent.scope
        /\ Second * local[h].now + Duration(req[h].ttl) <= Second * parent.exp
        /\ local[h].now <= clock

\* Key k is kept, used or was used for tenant t.
Held(t, k) ==
  \/ t \in DOMAIN docs /\ docs[t] = k
  \/ t \in DOMAIN disk /\ disk[t] = k
  \/ \E h \in Handlers : HoldsKey(h) /\ Tenant(h) = t /\ local[h].signer = k
  \/ \E i \in DOMAIN issued : issued[i].tenant = t /\ issued[i].cred.signedBy = k

\* A key is one tenant's, and the next one is new.
Owned ==
  /\ \A t, u \in Tenants, k \in 1..MaxKeys : Held(t, k) /\ Held(u, k) => t = u
  /\ \A t \in Tenants, k \in 1..MaxKeys : Held(t, k) => k < nextKey

\* A credential and those it descends from are one tenant's.
Family ==
  \A j \in DOMAIN issued : \A i \in issued[j].ancestors :
    issued[i].tenant = issued[j].tenant

\* The store in memory gives out what it keeps.
MemoryInv ==
  /\ \A i \in DOMAIN issued :
       /\ issued[i].run <= restarts
       /\ issued[i].run = restarts =>
            /\ issued[i].mode = mode
            /\ mode = "memory" =>
                 /\ issued[i].tenant \in DOMAIN docs
                 /\ docs[issued[i].tenant] = issued[i].cred.signedBy
  /\ mode = "memory" =>
       \A h \in Handlers :
         /\ pc[h] # "create"
         /\ HoldsKey(h) => Tenant(h) \in DOMAIN docs /\ docs[Tenant(h)] = local[h].signer

Inv ==
  /\ TypeInv
  /\ \A h \in Handlers : Admitted(h) /\ Delegable(h)
  /\ Owned
  /\ Family /\ DelegationNarrows
  /\ MemoryInv /\ MemoryKeysAreStable

-----------------------------------------------------------------------------
(* Requests and the values the handlers build *)

\* The fields of a request.
LEMMA RequestFacts ==
  ASSUME NEW r \in Requests
  PROVE  /\ r.kind \in {"issue", "delegate", "bootstrap"}
         /\ r.tenant \in Tenants /\ r.subject \in Dids /\ r.ttl \in Int
         /\ r.scope \in SUBSET Scopes /\ r.aud \in Audiences \cup {NoAudience}
         /\ r.claims \in BOOLEAN /\ r.sd \in BOOLEAN
BY IssuerAssumption

\* A lifetime, wrapped, is still an integer.
LEMMA DurationType ==
  ASSUME NEW s \in Int
  PROVE  Duration(s) \in Int
BY IssuerAssumption DEF Duration, Second

\* What a lifetime comes to in whole seconds: no more than any number of them
\* that covers it.
LEMMA UnixSecondsFacts ==
  ASSUME NEW ttl \in Nat, NEW l \in UnixSeconds(ttl)
  PROVE  /\ l \in Nat
         /\ \A n \in Int : ttl <= Second * n => l <= n
         /\ \A n \in Int : ttl = Second * n => l = n
BY DEF UnixSeconds, Second

\* An admitted request asks, after wrapping, for a positive lifetime.
LEMMA AdmittedTTL ==
  ASSUME NEW r \in Requests, RequestError(r) = Ok, r.kind # "bootstrap"
  PROVE  Duration(r.ttl) \in Nat \ {0}
<1>1. r.kind \in {"issue", "delegate"} /\ Duration(r.ttl) \in Int
  BY RequestFacts, DurationType
<1>2. ValidTTL(Duration(r.ttl))
  BY <1>1 DEF RequestError, Ok
<1> QED BY <1>1, <1>2 DEF ValidTTL

\* Nothing an issued credential carries is disclosed: what verification reads
\* off it is what it says.
LEMMA IssuedFields ==
  ASSUME NEW c \in IssuedCredential
  PROVE  ScopeOf(c) = c.scope /\ AudienceOf(c) = c.aud /\ ExpiresAt(c) = c.exp
BY DEF IssuedCredential, ScopeOf, AudienceOf, DisclosedAt, ExpiresAt

\* Saving a key keeps the store a function from tenants to keys.
LEMMA PutType ==
  ASSUME docs \in KeyMaps, NEW t \in Tenants, NEW k \in 1..MaxKeys
  PROVE  /\ Put(t, k) \in KeyMaps
         /\ DOMAIN Put(t, k) = DOMAIN docs \cup {t} /\ Put(t, k)[t] = k
         /\ \A u \in DOMAIN docs : u # t => Put(t, k)[u] = docs[u]
<1>1. PICK T \in SUBSET Tenants : docs \in [T -> 1..MaxKeys]
  BY DEF KeyMaps
<1>2. Put(t, k) \in [T \cup {t} -> 1..MaxKeys]
  BY <1>1 DEF Put
<1>3. Put(t, k) \in KeyMaps
  BY <1>2 DEF KeyMaps
<1> QED BY <1>1, <1>3 DEF Put

\* The empty store, and what a store is made of.
LEMMA KeyMapFacts ==
  /\ NoDocs \in KeyMaps
  /\ \A d \in KeyMaps : DOMAIN d \subseteq Tenants /\ \A t \in DOMAIN d : d[t] \in 1..MaxKeys
<1>1. NoDocs \in [{} -> 1..MaxKeys]
  BY DEF NoDocs
<1> QED BY <1>1 DEF KeyMaps

\* The tenant a request is served for.
LEMMA TenantType ==
  ASSUME TypeOK, NEW h \in Handlers
  PROVE  Tenant(h) \in Tenants
BY RequestFacts, IssuerAssumption DEF TypeOK, Tenant

\* What a handler knows after verifying a parent.
LEMMA DelegateOk ==
  ASSUME NEW signer \in 1..MaxKeys, NEW parent \in IssuedCredential, NEW r \in Requests,
         NEW now \in Nat, parent.issuer = parent.signedBy,
         DelegateError(signer, parent, r, now) = Ok
  PROVE  /\ parent.signedBy = signer
         /\ r.scope \subseteq parent.scope
         /\ Second * now + Duration(r.ttl) <= Second * parent.exp
<1> DEFINE Resolve == [issuer \in Dids |-> ResolveParent(signer, issuer)]
<1>1. VerifyCredentialChain(<<parent>>, Resolve, NoAudience, 1, now) = Ok
  BY DEF DelegateError, Ok
<1>2. Resolve[parent.issuer] # NoKey
  <2> HIDE DEF Resolve
  <2> QED BY <1>1, AcceptedAlone
<1>3. parent.issuer \in Dids
  BY IssuerAssumption DEF IssuedCredential
<1>4. parent.signedBy = signer
  BY <1>2, <1>3 DEF ResolveParent
<1>5. IsScopeSubset(ScopeOf(parent), r.scope)
  BY <1>1 DEF DelegateError, Ok
<1>6. IsTTLWithinParent(Second * ExpiresAt(parent), Second * now + Duration(r.ttl))
  BY <1>1, <1>5 DEF DelegateError, Ok
<1>7. Second * parent.exp # 0 /\ Second * parent.exp \in Nat
  BY DEF IssuedCredential, Second
<1> QED BY <1>4, <1>5, <1>6, <1>7, IssuedFields DEF IsScopeSubset, IsTTLWithinParent

\* The credential IssueBasicCredential makes, from arguments of the right type.
LEMMA BasicCredentialFacts ==
  ASSUME NEW k \in 1..MaxKeys, NEW subject \in Dids, NEW at \in Nat \ {0}, NEW ttl \in Nat,
         NEW scope \in SUBSET Scopes, NEW aud \in Audiences \cup {NoAudience}
  PROVE  LET c == IssueBasicCredential(k, subject, at, ttl, scope, aud)
         IN  /\ c \in IssuedCredential
             /\ c.issuer = k /\ c.signedBy = k /\ c.scope = scope /\ c.aud = aud
             /\ c.exp = at + ttl
BY DEF IssueBasicCredential, IssuedCredential

\* What a handler signs: it names and carries the handler's key and tenant, and
\* a delegation extends its parent's descent.
LEMMA NewIssueFacts ==
  ASSUME TypeInv, NEW h \in Handlers, Admitted(h), Delegable(h), pc[h] = "sign",
         NEW l \in UnixSeconds(Duration(req[h].ttl))
  PROVE  LET new == NewIssue(h, l)
             parent == issued[local[h].parent]
         IN  /\ new \in Issuance
             /\ new.cred.issuer = local[h].signer /\ new.cred.signedBy = local[h].signer
             /\ new.tenant = Tenant(h) /\ new.mode = mode /\ new.run = restarts
             /\ req[h].kind # "delegate" => new.ancestors = {}
             /\ req[h].kind = "delegate" =>
                  /\ new.ancestors = parent.ancestors \cup {local[h].parent}
                  /\ new.cred.scope = req[h].scope /\ new.cred.aud = parent.cred.aud
                  /\ new.cred.exp = clock + l
                  /\ new.lag = parent.lag + clock - local[h].now
<1> DEFINE r == req[h]
           k == local[h].signer
           parent == issued[local[h].parent]
<1>1. /\ r \in Requests /\ k \in 1..MaxKeys /\ clock \in Nat \ {0}
      /\ mode \in {"file", "memory"} /\ restarts \in Nat /\ RequestError(r) = Ok
      /\ local[h].now \in Nat
  BY IssuerAssumption DEF TypeInv, TypeOK, Admitted, HoldsKey, Locals
<1>2. /\ r.kind \in {"issue", "delegate", "bootstrap"}
      /\ r.tenant \in Tenants /\ r.subject \in Dids /\ r.ttl \in Int
      /\ r.scope \in SUBSET Scopes /\ r.aud \in Audiences \cup {NoAudience}
      /\ r.sd \in BOOLEAN
  BY <1>1, RequestFacts
<1>3. CASE r.kind = "bootstrap"
  <2> DEFINE c == IssueBasicCredential(k, r.subject, clock, AdminVCTTL, {}, NoAudience)
             q == [r EXCEPT !.tenant = DefaultTenant]
  <2>1. NewIssue(h, l) = Issue(c, q, {}, 0)
    BY <1>3 DEF NewIssue, BootstrapIssue
  <2>2. q.tenant = DefaultTenant /\ q.kind = r.kind /\ q.ttl = r.ttl
    BY <1>1, IssuerAssumption
  <2>3. c \in IssuedCredential /\ c.issuer = k /\ c.signedBy = k
    BY <1>1, <1>2, BasicCredentialFacts, IssuerAssumption
  <2>4. Tenant(h) = DefaultTenant /\ DefaultTenant \in Tenants
    BY <1>3, IssuerAssumption DEF Tenant
  <2> HIDE DEF c, q
  <2> QED BY <1>1, <1>2, <1>3, <2>1, <2>2, <2>3, <2>4 DEF Issue, Issuance
<1>4. CASE r.kind = "issue"
  <2>0. l \in Nat
    BY <1>1, <1>4, AdmittedTTL, UnixSecondsFacts
  <2> DEFINE c == IF r.sd THEN IssueSDJWTCredential(k, r.subject, clock, l)
                  ELSE IssueBasicCredential(k, r.subject, clock, l, r.scope, r.aud)
  <2>1. NewIssue(h, l) = Issue(c, r, {}, 0)
    BY <1>2, <1>4 DEF NewIssue
  <2>2. c \in IssuedCredential /\ c.issuer = k /\ c.signedBy = k
    BY <1>1, <1>2, <2>0, BasicCredentialFacts DEF IssueSDJWTCredential
  <2>3. Tenant(h) = r.tenant
    BY <1>4 DEF Tenant
  <2> HIDE DEF c
  <2> QED BY <1>1, <1>2, <1>4, <2>1, <2>2, <2>3 DEF Issue, Issuance
<1>5. CASE r.kind = "delegate"
  <2>0. l \in Nat
    BY <1>1, <1>5, AdmittedTTL, UnixSecondsFacts
  <2>1. parent \in Issuance
    BY <1>5 DEF TypeInv, Admitted
  <2>2. parent.cred \in IssuedCredential /\ parent.lag \in Nat /\ parent.ancestors \in SUBSET Nat
    BY <2>1 DEF Issuance
  <2>3. AudienceOf(parent.cred) = parent.cred.aud /\ parent.cred.aud \in Audiences \cup {NoAudience}
    BY <2>2, IssuedFields DEF IssuedCredential
  <2> DEFINE c == IssueBasicCredential(k, r.subject, clock, l, r.scope, parent.cred.aud)
             lag == parent.lag + clock - local[h].now
             ancestors == parent.ancestors \cup {local[h].parent}
  <2>4. NewIssue(h, l) = Issue(c, r, ancestors, lag)
    BY <1>5, <2>3 DEF NewIssue
  <2>5. /\ c \in IssuedCredential /\ c.issuer = k /\ c.signedBy = k
        /\ c.scope = r.scope /\ c.aud = parent.cred.aud /\ c.exp = clock + l
    <3>1. ASSUME NEW a, a = parent.cred.aud
          PROVE  LET b == IssueBasicCredential(k, r.subject, clock, l, r.scope, a)
                 IN  /\ b \in IssuedCredential /\ b.issuer = k /\ b.signedBy = k
                     /\ b.scope = r.scope /\ b.aud = a /\ b.exp = clock + l
      <4>1. a \in Audiences \cup {NoAudience}
        BY <2>3, <3>1
      <4> QED BY <1>1, <1>2, <2>0, <4>1, BasicCredentialFacts
    <3> HIDE DEF r, k, parent
    <3> QED BY <3>1
  <2>6. lag \in Nat
    BY <1>1, <1>5, <2>2 DEF Delegable
  <2>7. ancestors \in SUBSET Nat
    BY <2>2 DEF TypeInv, TypeOK, Locals
  <2>8. Tenant(h) = r.tenant
    BY <1>5 DEF Tenant
  <2> HIDE DEF c, lag, ancestors
  <2>9. /\ NewIssue(h, l) \in Issuance
        /\ NewIssue(h, l).cred = c /\ NewIssue(h, l).tenant = r.tenant
        /\ NewIssue(h, l).mode = mode /\ NewIssue(h, l).run = restarts
        /\ NewIssue(h, l).ancestors = ancestors /\ NewIssue(h, l).lag = lag
    BY <1>1, <1>2, <1>5, <2>4, <2>5, <2>6, <2>7 DEF Issue, Issuance
  <2> QED BY <1>5, <2>5, <2>8, <2>9 DEF lag, ancestors
<1> QED BY <1>2, <1>3, <1>4, <1>5

-----------------------------------------------------------------------------
(* One handler moves *)

\* A step of one handler leaves the others where they are.
Moves(h) ==
  /\ pc' = [pc EXCEPT ![h] = pc'[h]]
  /\ req' = [req EXCEPT ![h] = req'[h]]
  /\ local' = [local EXCEPT ![h] = local'[h]]

\* The initial values of a handler's variables.
LEMMA InitialValues ==
  NoLocals \in Locals /\ NoRequest \in Requests
BY IssuerAssumption DEF NoLocals, Locals, NoRequest

\* A handler that returns goes back to its initial values.
LEMMA RespondFacts ==
  ASSUME TypeOK, NEW h \in Handlers, Respond(h)
  PROVE  /\ Moves(h) /\ pc'[h] = "idle" /\ req'[h] = NoRequest /\ local'[h] = NoLocals
         /\ pc' \in [Handlers -> {"idle", "key", "create", "verify", "sign"}]
         /\ req' \in [Handlers -> Requests] /\ local' \in [Handlers -> Locals]
BY InitialValues DEF TypeOK, Respond, Moves

\* A handler that was given a key holds it.
LEMMA WithKeyFacts ==
  ASSUME TypeOK, NEW h \in Handlers, NEW k \in 1..MaxKeys, WithKey(h, k)
  PROVE  /\ Moves(h) /\ req' = req
         /\ pc'[h] = IF req[h].kind = "delegate" THEN "verify" ELSE "sign"
         /\ local'[h].signer = k /\ local'[h].parent = local[h].parent
         /\ pc' \in [Handlers -> {"idle", "key", "create", "verify", "sign"}]
         /\ local' \in [Handlers -> Locals]
<1>1. /\ local[h] \in Locals /\ req \in [Handlers -> Requests]
      /\ local' = [local EXCEPT ![h] = [local[h] EXCEPT !.signer = k]]
  BY DEF TypeOK, WithKey
<1>2. /\ [local[h] EXCEPT !.signer = k] \in Locals
      /\ [local[h] EXCEPT !.signer = k].signer = k
      /\ [local[h] EXCEPT !.signer = k].parent = local[h].parent
  BY <1>1 DEF Locals
<1> QED BY <1>1, <1>2 DEF TypeOK, WithKey, Moves

-----------------------------------------------------------------------------
(* What a step has to show *)

\* What is known of a handler is kept while it stands still, whatever is issued.
LEMMA OtherHandler ==
  ASSUME TypeInv, NEW g \in Handlers, Admitted(g), Delegable(g),
         pc'[g] = pc[g], req'[g] = req[g], local'[g] = local[g],
         clock' \in Nat, clock <= clock',
         \A i \in DOMAIN issued : i \in DOMAIN issued' /\ issued'[i] = issued[i]
  PROVE  Admitted(g)' /\ Delegable(g)'
<1>1. Admitted(g)'
  BY DEF Admitted, HoldsKey
<1>2. clock \in Nat /\ local[g].now \in Nat
  BY IssuerAssumption DEF TypeInv, TypeOK, Locals
<1>3. ASSUME pc[g] = "sign", req[g].kind = "delegate"
      PROVE  issued'[local[g].parent] = issued[local[g].parent]
  BY <1>3 DEF Admitted
<1> QED BY <1>1, <1>2, <1>3 DEF Delegable

\* Keys stay apart if a step hands out no key but a new one, to one tenant.
LEMMA OwnedKept ==
  ASSUME Owned, nextKey \in Nat, nextKey' \in Nat, nextKey <= nextKey', NEW t0,
         \A t \in Tenants, k \in 1..MaxKeys :
           Held(t, k)' => Held(t, k) \/ (t = t0 /\ k = nextKey /\ nextKey' = nextKey + 1)
  PROVE  Owned'
<1>1. ASSUME NEW t \in Tenants, NEW k \in 1..MaxKeys, Held(t, k)'
      PROVE  k < nextKey'
  BY <1>1 DEF Owned
<1>2. ASSUME NEW t \in Tenants, NEW u \in Tenants, NEW k \in 1..MaxKeys,
             Held(t, k)', Held(u, k)'
      PROVE  t = u
  <2>1. Held(t, k) => k # nextKey
    BY DEF Owned
  <2>2. Held(u, k) => k # nextKey
    BY DEF Owned
  <2> QED BY <1>2, <2>1, <2>2 DEF Owned
<1> QED BY <1>1, <1>2 DEF Owned

\* A key held after a step of one handler was held before, unless the step put
\* it into the store, into the file, or into that handler's hands.
LEMMA HeldAfterMove ==
  ASSUME TypeOK, NEW h \in Handlers, Moves(h), issued' = issued,
         NEW t \in Tenants, NEW k \in 1..MaxKeys, Held(t, k)'
  PROVE  \/ Held(t, k)
         \/ t \in DOMAIN docs' /\ docs'[t] = k
         \/ t \in DOMAIN disk' /\ disk'[t] = k
         \/ HoldsKey(h)' /\ Tenant(h)' = t /\ local'[h].signer = k
<1>1. ASSUME NEW g \in Handlers, g # h
      PROVE  pc'[g] = pc[g] /\ req'[g] = req[g] /\ local'[g] = local[g]
  BY <1>1 DEF Moves, TypeOK
<1>2. ASSUME NEW g \in Handlers, g # h, HoldsKey(g)', Tenant(g)' = t, local'[g].signer = k
      PROVE  Held(t, k)
  BY <1>1, <1>2 DEF HoldsKey, Tenant, Held
<1>3. ASSUME NEW i \in DOMAIN issued, issued[i].tenant = t, issued[i].cred.signedBy = k
      PROVE  Held(t, k)
  BY <1>3 DEF Held
<1> QED BY <1>2, <1>3 DEF Held

\* The store in memory is still what was given out, if it only grows and the
\* handler that moves has what it holds from there.
LEMMA MemoryKept ==
  ASSUME TypeOK, MemoryInv, MemoryKeysAreStable, UNCHANGED <<issued, mode, restarts>>,
         NEW h \in Handlers, Moves(h),
         mode = "memory" =>
           /\ \A t \in DOMAIN docs : t \in DOMAIN docs' /\ docs'[t] = docs[t]
           /\ pc'[h] # "create"
           /\ HoldsKey(h)' => Tenant(h)' \in DOMAIN docs' /\ docs'[Tenant(h)'] = local'[h].signer
  PROVE  MemoryInv' /\ MemoryKeysAreStable'
<1>1. ASSUME NEW g \in Handlers, g # h
      PROVE  pc'[g] = pc[g] /\ req'[g] = req[g] /\ local'[g] = local[g]
  BY <1>1 DEF Moves, TypeOK
<1>2. ASSUME mode = "memory", NEW g \in Handlers
      PROVE  /\ pc'[g] # "create"
             /\ HoldsKey(g)' => Tenant(g)' \in DOMAIN docs' /\ docs'[Tenant(g)'] = local'[g].signer
  <2>1. CASE g = h
    BY <1>2, <2>1
  <2>2. CASE g # h
    BY <1>1, <1>2, <2>2 DEF MemoryInv, HoldsKey, Tenant
  <2> QED BY <2>1, <2>2
<1>3. ASSUME NEW i \in DOMAIN issued
      PROVE  /\ issued[i].run <= restarts
             /\ issued[i].run = restarts =>
                  /\ issued[i].mode = mode
                  /\ mode = "memory" =>
                       /\ issued[i].tenant \in DOMAIN docs'
                       /\ docs'[issued[i].tenant] = issued[i].cred.signedBy
  BY DEF MemoryInv
<1>4. MemoryInv'
  BY <1>2, <1>3 DEF MemoryInv
<1>5. MemoryKeysAreStable'
  BY DEF MemoryKeysAreStable
<1> QED BY <1>4, <1>5

\* The invariant after a step of one handler that issues nothing.
LEMMA MoveKeeps ==
  ASSUME Inv, NEW h \in Handlers, Moves(h), TypeOK',
         UNCHANGED <<clock, issued, mode, restarts>>,
         nextKey <= nextKey',
         Admitted(h)', Delegable(h)',
         \A t \in DOMAIN docs' :
           Held(t, docs'[t]) \/ (t = Tenant(h) /\ docs'[t] = nextKey /\ nextKey' = nextKey + 1),
         \A t \in DOMAIN disk' :
           Held(t, disk'[t]) \/ (t = Tenant(h) /\ disk'[t] = nextKey /\ nextKey' = nextKey + 1),
         HoldsKey(h)' =>
           \/ Held(Tenant(h)', local'[h].signer)
           \/ /\ Tenant(h)' = Tenant(h) /\ local'[h].signer = nextKey
              /\ nextKey' = nextKey + 1,
         mode = "memory" =>
           /\ \A t \in DOMAIN docs : t \in DOMAIN docs' /\ docs'[t] = docs[t]
           /\ pc'[h] # "create"
           /\ HoldsKey(h)' => Tenant(h)' \in DOMAIN docs' /\ docs'[Tenant(h)'] = local'[h].signer
  PROVE  Inv'
<1>0. /\ TypeOK /\ TypeInv /\ Owned /\ Family /\ DelegationNarrows /\ MemoryInv
      /\ MemoryKeysAreStable /\ \A g \in Handlers : Admitted(g) /\ Delegable(g)
  BY DEF Inv, TypeInv
<1>1. TypeInv'
  BY <1>0 DEF TypeInv
<1>2. ASSUME NEW g \in Handlers PROVE Admitted(g)' /\ Delegable(g)'
  <2>1. CASE g = h
    BY <2>1
  <2>2. CASE g # h
    <3>1. pc'[g] = pc[g] /\ req'[g] = req[g] /\ local'[g] = local[g]
      BY <1>0, <2>2 DEF Moves, TypeOK
    <3>2. clock \in Nat
      BY <1>0, IssuerAssumption DEF TypeOK
    <3> QED BY <1>0, <3>1, <3>2, OtherHandler
  <2> QED BY <2>1, <2>2
<1>3. Owned'
  <2>1. nextKey \in Nat /\ nextKey' \in Nat
    BY <1>0, IssuerAssumption DEF TypeOK
  <2>2. ASSUME NEW t \in Tenants, NEW k \in 1..MaxKeys, Held(t, k)'
        PROVE  Held(t, k) \/ (t = Tenant(h) /\ k = nextKey /\ nextKey' = nextKey + 1)
    BY <1>0, <2>2, HeldAfterMove
  <2> QED BY <1>0, <2>1, <2>2, OwnedKept
<1>4. Family' /\ DelegationNarrows'
  BY <1>0 DEF Family, DelegationNarrows
<1>5. MemoryInv' /\ MemoryKeysAreStable'
  BY <1>0, MemoryKept
<1> QED BY <1>1, <1>2, <1>3, <1>4, <1>5 DEF Inv

-----------------------------------------------------------------------------
(* The steps of a handler that issue nothing *)

\* What the invariant says of the store, the file and a handler.
LEMMA InvFacts ==
  ASSUME Inv
  PROVE  /\ TypeOK /\ TypeInv /\ Owned /\ Family /\ DelegationNarrows
         /\ MemoryInv /\ MemoryKeysAreStable
         /\ \A h \in Handlers : Admitted(h) /\ Delegable(h)
         /\ \A t \in DOMAIN docs : Held(t, docs[t])
         /\ \A t \in DOMAIN disk : Held(t, disk[t])
         /\ nextKey \in Nat /\ clock \in Nat
<1>1. TypeOK /\ TypeInv
  BY DEF Inv, TypeInv
<1> QED BY <1>1, IssuerAssumption DEF Inv, TypeOK, Held

\* A request arrives.
LEMMA StartKeeps ==
  ASSUME Inv, NEW h \in Handlers, NEW r \in Requests, Start(h, r)
  PROVE  Inv'
<1>0. TypeOK /\ TypeInv /\ Admitted(h) /\ MemoryInv
  BY InvFacts
<1>1. PICK i \in IF r.kind = "delegate" THEN DOMAIN issued ELSE {0} :
        local' = [local EXCEPT ![h] = [local[h] EXCEPT !.parent = i]]
  BY <1>0 DEF Start, TypeOK
<1>2. i \in Nat
  BY <1>0 DEF TypeInv
<1>3. /\ [local[h] EXCEPT !.parent = i] \in Locals
      /\ [local[h] EXCEPT !.parent = i].parent = i
  BY <1>0, <1>2 DEF TypeOK, Locals
<1>4. /\ Moves(h) /\ pc'[h] = "key" /\ req'[h] = r /\ local'[h].parent = i
      /\ UNCHANGED <<clock, mode, docs, disk, readable, nextKey, issued, restarts, rotations>>
      /\ RequestError(r) = Ok
  BY <1>0, <1>1, <1>3 DEF Start, TypeOK, Moves, store, file
<1>5. TypeOK'
  BY <1>0, <1>1, <1>3, <1>4 DEF Start, TypeOK
<1>6. Admitted(h)' /\ Delegable(h)' /\ ~HoldsKey(h)'
  BY <1>1, <1>4 DEF Admitted, Delegable, HoldsKey
<1> QED BY <1>4, <1>5, <1>6, InvFacts, MoveKeeps

\* The store has a key for the tenant.
LEMMA GetSigningKeyKeeps ==
  ASSUME Inv, NEW h \in Handlers, GetSigningKey(h)
  PROVE  Inv'
<1>0. TypeOK /\ TypeInv /\ Admitted(h) /\ MemoryInv
  BY InvFacts
<1>1. docs[Tenant(h)] \in 1..MaxKeys
  BY <1>0, KeyMapFacts DEF GetSigningKey, CurrentSigner, TypeOK
<1>2. /\ pc[h] = "key" /\ Tenant(h) \in DOMAIN docs /\ WithKey(h, docs[Tenant(h)])
      /\ UNCHANGED <<clock, mode, docs, disk, readable, nextKey, issued, restarts, rotations>>
  BY DEF GetSigningKey, CurrentSigner, store, file
<1>3. /\ Moves(h) /\ req' = req
      /\ pc'[h] = IF req[h].kind = "delegate" THEN "verify" ELSE "sign"
      /\ local'[h].signer = docs[Tenant(h)] /\ local'[h].parent = local[h].parent
      /\ pc' \in [Handlers -> {"idle", "key", "create", "verify", "sign"}]
      /\ local' \in [Handlers -> Locals]
  BY <1>0, <1>1, <1>2, WithKeyFacts
<1>4. TypeOK'
  BY <1>0, <1>2, <1>3 DEF TypeOK
<1>5. Admitted(h)' /\ Delegable(h)' /\ Tenant(h)' = Tenant(h)
  BY <1>0, <1>1, <1>2, <1>3 DEF Admitted, Delegable, HoldsKey, Tenant
<1> QED BY <1>2, <1>3, <1>4, <1>5, InvFacts, MoveKeeps

\* The store in memory creates a key.
LEMMA MemoryGetSigningKeyKeeps ==
  ASSUME Inv, NEW h \in Handlers, MemoryGetSigningKey(h)
  PROVE  Inv'
<1>0. TypeOK /\ TypeInv /\ Admitted(h) /\ MemoryInv /\ Tenant(h) \in Tenants
  BY InvFacts, TenantType
<1>1. nextKey \in 1..MaxKeys
  BY <1>0, IssuerAssumption DEF MemoryGetSigningKey, GenerateKey, TypeOK
<1>2. /\ pc[h] = "key" /\ Tenant(h) \notin DOMAIN docs /\ WithKey(h, nextKey)
      /\ docs' = Put(Tenant(h), nextKey) /\ nextKey' = nextKey + 1
      /\ UNCHANGED <<clock, mode, disk, readable, issued, restarts, rotations>>
  BY DEF MemoryGetSigningKey, GenerateKey, file
<1>3. /\ Moves(h) /\ req' = req
      /\ pc'[h] = IF req[h].kind = "delegate" THEN "verify" ELSE "sign"
      /\ local'[h].signer = nextKey /\ local'[h].parent = local[h].parent
      /\ pc' \in [Handlers -> {"idle", "key", "create", "verify", "sign"}]
      /\ local' \in [Handlers -> Locals]
  BY <1>0, <1>1, <1>2, WithKeyFacts
<1>4. /\ docs' \in KeyMaps /\ DOMAIN docs' = DOMAIN docs \cup {Tenant(h)}
      /\ docs'[Tenant(h)] = nextKey
      /\ \A u \in DOMAIN docs : u # Tenant(h) => docs'[u] = docs[u]
  BY <1>0, <1>1, <1>2, PutType DEF TypeOK
<1>5. TypeOK' /\ nextKey <= nextKey'
  <2>1. nextKey' \in 1..(MaxKeys + 1) /\ nextKey <= nextKey'
    BY <1>1, <1>2, IssuerAssumption
  <2> QED BY <1>0, <1>2, <1>3, <1>4, <2>1 DEF TypeOK
<1>6. Admitted(h)' /\ Delegable(h)' /\ Tenant(h)' = Tenant(h)
  BY <1>0, <1>1, <1>2, <1>3 DEF Admitted, Delegable, HoldsKey, Tenant
<1>7. \A t \in DOMAIN docs' : Held(t, docs'[t]) \/ (t = Tenant(h) /\ docs'[t] = nextKey)
  BY <1>4, InvFacts
<1> QED BY <1>2, <1>3, <1>4, <1>5, <1>6, <1>7, InvFacts, MoveKeeps

\* The file store has no key for the tenant.
LEMMA FileGetMissesKeeps ==
  ASSUME Inv, NEW h \in Handlers, FileGetMisses(h)
  PROVE  Inv'
<1>0. TypeOK /\ TypeInv /\ Admitted(h) /\ MemoryInv
  BY InvFacts
<1>1. /\ pc[h] = "key" /\ mode = "file" /\ pc' = [pc EXCEPT ![h] = "create"]
      /\ UNCHANGED <<clock, mode, docs, disk, readable, nextKey, issued, req, local, restarts,
                     rotations>>
  BY DEF FileGetMisses, store, file
<1>2. Moves(h) /\ pc'[h] = "create" /\ TypeOK'
  BY <1>0, <1>1 DEF TypeOK, Moves
<1>3. Admitted(h)' /\ Delegable(h)' /\ ~HoldsKey(h)'
  BY <1>0, <1>1, <1>2 DEF Admitted, Delegable, HoldsKey
<1> QED BY <1>1, <1>2, <1>3, InvFacts, MoveKeeps

\* The file store creates a key and saves it, or fails to.
LEMMA FileSaveKeeps ==
  ASSUME Inv, NEW h \in Handlers, FileSave(h)
  PROVE  Inv'
<1>0. TypeOK /\ TypeInv /\ Admitted(h) /\ MemoryInv /\ Tenant(h) \in Tenants
  BY InvFacts, TenantType
<1>1. nextKey \in 1..MaxKeys
  BY <1>0, IssuerAssumption DEF FileSave, GenerateKey, TypeOK
<1>2. /\ pc[h] = "create" /\ docs' = Put(Tenant(h), nextKey) /\ nextKey' = nextKey + 1
      /\ UNCHANGED <<clock, mode, issued, restarts, rotations>>
  BY DEF FileSave, GenerateKey
<1>3. mode # "memory"
  BY <1>0, <1>2 DEF MemoryInv
<1>4. /\ docs' \in KeyMaps /\ DOMAIN docs' = DOMAIN docs \cup {Tenant(h)}
      /\ docs'[Tenant(h)] = nextKey
      /\ \A u \in DOMAIN docs : u # Tenant(h) => docs'[u] = docs[u]
  BY <1>0, <1>1, <1>2, PutType DEF TypeOK
<1>5. nextKey' \in 1..(MaxKeys + 1) /\ nextKey <= nextKey'
  BY <1>1, <1>2, IssuerAssumption
<1>6. \A t \in DOMAIN docs' :
        Held(t, docs'[t]) \/ (t = Tenant(h) /\ docs'[t] = nextKey /\ nextKey' = nextKey + 1)
  BY <1>2, <1>4, InvFacts
<1>7. CASE disk' = docs' /\ readable' = TRUE /\ WithKey(h, nextKey)
  <2>1. /\ Moves(h) /\ req' = req
        /\ pc'[h] = IF req[h].kind = "delegate" THEN "verify" ELSE "sign"
        /\ local'[h].signer = nextKey /\ local'[h].parent = local[h].parent
        /\ pc' \in [Handlers -> {"idle", "key", "create", "verify", "sign"}]
        /\ local' \in [Handlers -> Locals]
    BY <1>0, <1>1, <1>7, WithKeyFacts
  <2>2. TypeOK'
    BY <1>0, <1>2, <1>4, <1>5, <1>7, <2>1 DEF TypeOK
  <2>3. Admitted(h)' /\ Delegable(h)' /\ Tenant(h)' = Tenant(h)
    BY <1>0, <1>1, <1>2, <2>1 DEF Admitted, Delegable, HoldsKey, Tenant
  <2>4. \A t \in DOMAIN disk' :
          Held(t, disk'[t]) \/ (t = Tenant(h) /\ disk'[t] = nextKey /\ nextKey' = nextKey + 1)
    BY <1>6, <1>7
  <2> QED BY <1>2, <1>3, <1>5, <1>6, <2>1, <2>2, <2>3, <2>4, MoveKeeps
<1>8. CASE (UNCHANGED file \/ Truncate) /\ Respond(h)
  <2>1. /\ Moves(h) /\ pc'[h] = "idle" /\ req'[h] = NoRequest /\ local'[h] = NoLocals
        /\ pc' \in [Handlers -> {"idle", "key", "create", "verify", "sign"}]
        /\ req' \in [Handlers -> Requests] /\ local' \in [Handlers -> Locals]
    BY <1>0, <1>8, RespondFacts
  <2>2. /\ disk' \in KeyMaps /\ readable' \in BOOLEAN
        /\ \A t \in DOMAIN disk' : Held(t, disk'[t])
    <3>1. CASE UNCHANGED file
      BY <1>0, <3>1, InvFacts DEF file, TypeOK
    <3>2. CASE Truncate
      BY <3>2, KeyMapFacts DEF Truncate, NoDocs
    <3> QED BY <1>8, <3>1, <3>2
  <2>3. TypeOK'
    BY <1>0, <1>2, <1>4, <1>5, <2>1, <2>2 DEF TypeOK
  <2>4. Admitted(h)' /\ Delegable(h)' /\ ~HoldsKey(h)'
    BY <2>1 DEF Admitted, Delegable, HoldsKey
  <2> QED BY <1>2, <1>3, <1>5, <1>6, <2>1, <2>2, <2>3, <2>4, MoveKeeps
<1> QED BY <1>7, <1>8 DEF FileSave

\* The delegate handler verifies the parent.
LEMMA VerifyParentKeeps ==
  ASSUME Inv, NEW h \in Handlers, VerifyParent(h)
  PROVE  Inv'
<1> DEFINE parent == issued[local[h].parent].cred
           error == DelegateError(local[h].signer, parent, req[h], clock)
<1>0. TypeOK /\ TypeInv /\ Admitted(h) /\ MemoryInv /\ clock \in Nat
  BY InvFacts
<1>1. /\ pc[h] = "verify"
      /\ UNCHANGED <<clock, mode, docs, disk, readable, nextKey, issued, restarts, rotations>>
  BY DEF VerifyParent, store, file
<1>2. /\ local[h].signer \in 1..MaxKeys /\ req[h].kind = "delegate"
      /\ local[h].parent \in DOMAIN issued
  BY <1>0, <1>1 DEF Admitted, HoldsKey
<1>3. CASE error # Ok /\ Respond(h)
  <2>1. /\ Moves(h) /\ pc'[h] = "idle"
        /\ pc' \in [Handlers -> {"idle", "key", "create", "verify", "sign"}]
        /\ req' \in [Handlers -> Requests] /\ local' \in [Handlers -> Locals]
    BY <1>0, <1>3, RespondFacts
  <2>2. TypeOK'
    BY <1>0, <1>1, <2>1 DEF TypeOK
  <2>3. Admitted(h)' /\ Delegable(h)' /\ ~HoldsKey(h)'
    BY <2>1 DEF Admitted, Delegable, HoldsKey
  <2> QED BY <1>1, <2>1, <2>2, <2>3, InvFacts, MoveKeeps
<1>4. CASE /\ error = Ok /\ pc' = [pc EXCEPT ![h] = "sign"]
           /\ local' = [local EXCEPT ![h].now = clock] /\ UNCHANGED req
  <2>1. /\ [local[h] EXCEPT !.now = clock] \in Locals
        /\ [local[h] EXCEPT !.now = clock].signer = local[h].signer
        /\ [local[h] EXCEPT !.now = clock].parent = local[h].parent
        /\ [local[h] EXCEPT !.now = clock].now = clock
    BY <1>0 DEF TypeOK, Locals
  <2>2. /\ Moves(h) /\ pc'[h] = "sign" /\ req' = req
        /\ local'[h].signer = local[h].signer /\ local'[h].parent = local[h].parent
        /\ local'[h].now = clock
        /\ pc' \in [Handlers -> {"idle", "key", "create", "verify", "sign"}]
        /\ local' \in [Handlers -> Locals]
    BY <1>0, <1>4, <2>1 DEF TypeOK, Moves
  <2>3. TypeOK'
    BY <1>0, <1>1, <2>2 DEF TypeOK
  <2>4. Admitted(h)' /\ Tenant(h)' = Tenant(h)
    BY <1>0, <1>1, <1>2, <2>2 DEF Admitted, HoldsKey, Tenant
  <2>5. parent \in IssuedCredential /\ parent.issuer = parent.signedBy
    <3>1. issued[local[h].parent] \in Issuance
      BY <1>0, <1>2 DEF TypeInv
    <3> QED BY <1>0, <1>2, <3>1 DEF TypeInv, Issuance
  <2>6. /\ parent.signedBy = local[h].signer /\ req[h].scope \subseteq parent.scope
        /\ Second * clock + Duration(req[h].ttl) <= Second * parent.exp
    <3>1. req[h] \in Requests
      BY <1>0 DEF TypeOK
    <3> HIDE DEF parent
    <3> QED BY <1>0, <1>2, <1>4, <2>5, <3>1, DelegateOk
  <2>7. Delegable(h)'
    BY <1>0, <1>1, <2>2, <2>6 DEF Delegable
  <2>8. Held(Tenant(h), local[h].signer)
    BY <1>1 DEF Held, HoldsKey
  <2>9. mode = "memory" => Tenant(h) \in DOMAIN docs /\ docs[Tenant(h)] = local[h].signer
    BY <1>0, <1>1 DEF MemoryInv, HoldsKey
  <2> QED BY <1>1, <2>2, <2>3, <2>4, <2>7, <2>8, <2>9, InvFacts, MoveKeeps
<1> QED BY <1>3, <1>4 DEF VerifyParent

-----------------------------------------------------------------------------
(* Signing *)

\* What a credential descends from after signing: what its handler was shown,
\* checked and holds bounds it by every credential of the parent's descent.
LEMMA NewIssueNarrows ==
  ASSUME Inv, NEW h \in Handlers, pc[h] = "sign",
         NEW l \in UnixSeconds(Duration(req[h].ttl)), NEW i \in NewIssue(h, l).ancestors
  PROVE  /\ i \in DOMAIN issued
         /\ issued[i].tenant = NewIssue(h, l).tenant
         /\ NewIssue(h, l).cred.scope \subseteq issued[i].cred.scope
         /\ NewIssue(h, l).cred.aud = issued[i].cred.aud
         /\ NewIssue(h, l).cred.exp <= issued[i].cred.exp + NewIssue(h, l).lag
<1> DEFINE new == NewIssue(h, l)
           p == local[h].parent
           ttl == Duration(req[h].ttl)
<1>0. /\ TypeOK /\ TypeInv /\ Admitted(h) /\ Delegable(h) /\ Family /\ DelegationNarrows
      /\ Owned /\ clock \in Nat /\ Tenant(h) \in Tenants
  BY InvFacts, TenantType
<1>1. req[h].kind = "delegate"
  BY <1>0, NewIssueFacts
<1>2. /\ new \in Issuance /\ new.cred.signedBy = local[h].signer /\ new.tenant = Tenant(h)
      /\ new.ancestors = issued[p].ancestors \cup {p}
      /\ new.cred.scope = req[h].scope /\ new.cred.aud = issued[p].cred.aud
      /\ new.cred.exp = clock + l /\ new.lag = issued[p].lag + clock - local[h].now
  BY <1>0, <1>1, NewIssueFacts
<1> HIDE DEF new
<1>3. /\ p \in DOMAIN issued /\ issued[p] \in Issuance
      /\ local[h].signer \in 1..MaxKeys /\ local[h].now \in Nat /\ l \in Nat
      /\ issued[p].cred.exp \in Nat /\ issued[p].lag \in Nat /\ issued[p].tenant \in Tenants
      /\ issued[p].ancestors \subseteq DOMAIN issued
  <2>1. p \in DOMAIN issued /\ issued \in Seq(Issuance) /\ local[h].signer \in 1..MaxKeys
    BY <1>0, <1>1 DEF Admitted, HoldsKey, TypeInv
  <2>2. issued[p] \in Issuance /\ issued[p].tenant \in Tenants
    <3>1. issued[p] \in Issuance
      BY <2>1
    <3> QED BY <3>1 DEF Issuance
  <2>3. issued[p].cred.exp \in Nat /\ issued[p].lag \in Nat /\ issued[p].ancestors \subseteq 1..(p - 1)
    BY <1>0, <2>1 DEF TypeOK
  <2>4. p \in 1..Len(issued) /\ DOMAIN issued = 1..Len(issued) /\ Len(issued) \in Nat
    BY <2>1
  <2>5. issued[p].ancestors \subseteq DOMAIN issued
    BY <2>3, <2>4
  <2>6. local[h].now \in Nat /\ l \in Nat
    <3>1. req[h] \in Requests /\ RequestError(req[h]) = Ok /\ local[h].now \in Nat
      BY <1>0 DEF TypeOK, Locals, Admitted
    <3>2. ttl \in Nat
      BY <1>1, <3>1, AdmittedTTL
    <3> QED BY <3>1, <3>2, UnixSecondsFacts
  <2> QED BY <2>1, <2>2, <2>3, <2>5, <2>6
<1>4. /\ issued[p].cred.signedBy = local[h].signer /\ req[h].scope \subseteq issued[p].cred.scope
      /\ local[h].now + l <= issued[p].cred.exp /\ local[h].now <= clock
  <2>1. /\ issued[p].cred.signedBy = local[h].signer /\ req[h].scope \subseteq issued[p].cred.scope
        /\ Second * local[h].now + ttl <= Second * issued[p].cred.exp /\ local[h].now <= clock
    BY <1>0, <1>1 DEF Delegable
  <2>2. ttl \in Nat
    BY <1>0, <1>1, AdmittedTTL DEF TypeOK, Admitted
  <2> HIDE DEF ttl
  <2>3. /\ issued[p].cred.exp - local[h].now \in Int
        /\ ttl <= Second * (issued[p].cred.exp - local[h].now)
    BY <1>3, <2>1, <2>2 DEF Second
  <2>4. l <= issued[p].cred.exp - local[h].now
    BY <2>2, <2>3, UnixSecondsFacts DEF ttl
  <2> QED BY <1>3, <2>1, <2>4
<1>5. issued[p].tenant = Tenant(h)
  <2>1. Held(issued[p].tenant, local[h].signer)
    BY <1>3, <1>4 DEF Held
  <2>2. Held(Tenant(h), local[h].signer)
    BY DEF Held, HoldsKey
  <2> QED BY <1>0, <1>3, <2>1, <2>2 DEF Owned
<1>6. CASE i = p
  <2>1. clock + l <= issued[p].cred.exp + (issued[p].lag + clock - local[h].now)
    BY <1>0, <1>3, <1>4
  <2> QED BY <1>2, <1>3, <1>4, <1>5, <1>6, <2>1 DEF new
<1>7. CASE i \in issued[p].ancestors
  <2>1. /\ i \in DOMAIN issued /\ issued[i].tenant = issued[p].tenant
        /\ issued[p].cred.scope \subseteq issued[i].cred.scope
        /\ issued[p].cred.aud = issued[i].cred.aud
        /\ issued[p].cred.exp <= issued[i].cred.exp + issued[p].lag
    BY <1>0, <1>3, <1>7 DEF Family, DelegationNarrows
  <2>2. issued[i].cred.exp \in Nat
    BY <1>0, <2>1 DEF TypeOK
  <2>3. clock + l <= issued[i].cred.exp + (issued[p].lag + clock - local[h].now)
    BY <1>0, <1>3, <1>4, <2>1, <2>2
  <2> QED BY <1>2, <1>4, <1>5, <2>1, <2>3 DEF new
<1> QED BY <1>2, <1>6, <1>7 DEF new

\* A credential is signed.
LEMMA SignKeeps ==
  ASSUME Inv, NEW h \in Handlers, Sign(h)
  PROVE  Inv'
<1>l. PICK l \in UnixSeconds(Duration(req[h].ttl)) : issued' = Append(issued, NewIssue(h, l))
  BY DEF Sign
<1> DEFINE new == NewIssue(h, l)
           n == Len(issued) + 1
<1>0. /\ TypeOK /\ TypeInv /\ Admitted(h) /\ Delegable(h) /\ Family /\ DelegationNarrows
      /\ Owned /\ MemoryInv /\ MemoryKeysAreStable /\ clock \in Nat /\ nextKey \in Nat
      /\ \A g \in Handlers : Admitted(g) /\ Delegable(g)
  BY InvFacts
<1>1. /\ pc[h] = "sign" /\ Respond(h) /\ issued' = Append(issued, new)
      /\ UNCHANGED <<clock, mode, docs, disk, readable, nextKey, restarts, rotations>>
  BY <1>l DEF Sign, store, file
<1>2. /\ new \in Issuance
      /\ new.cred.issuer = local[h].signer /\ new.cred.signedBy = local[h].signer
      /\ new.tenant = Tenant(h) /\ new.mode = mode /\ new.run = restarts
  BY <1>0, <1>1, NewIssueFacts
<1>3. \A i \in new.ancestors :
        /\ i \in DOMAIN issued /\ issued[i].tenant = new.tenant
        /\ new.cred.scope \subseteq issued[i].cred.scope
        /\ new.cred.aud = issued[i].cred.aud
        /\ new.cred.exp <= issued[i].cred.exp + new.lag
  BY <1>1, NewIssueNarrows
<1> HIDE DEF new
<1>4. /\ issued' \in Seq(Issuance) /\ n \in DOMAIN issued' /\ issued'[n] = new
      /\ DOMAIN issued = 1..(n - 1) /\ n \in Nat
      /\ \A i \in DOMAIN issued : i \in DOMAIN issued' /\ issued'[i] = issued[i]
      /\ \A i \in DOMAIN issued' : i \in DOMAIN issued \/ i = n
  BY <1>0, <1>1, <1>2 DEF TypeInv
<1> HIDE DEF n
<1>5. /\ Moves(h) /\ pc'[h] = "idle"
      /\ pc' \in [Handlers -> {"idle", "key", "create", "verify", "sign"}]
      /\ req' \in [Handlers -> Requests] /\ local' \in [Handlers -> Locals]
  BY <1>0, <1>1, RespondFacts
<1>6. \A i \in DOMAIN issued : issued[i].ancestors \subseteq DOMAIN issued
  <2>1. ASSUME NEW i \in DOMAIN issued PROVE issued[i].ancestors \subseteq DOMAIN issued
    BY <1>0, <1>4 DEF TypeOK
  <2> QED BY <2>1
<1>7. TypeInv'
  <2>1. new.cred.exp \in Nat /\ new.lag \in Nat /\ new.ancestors \subseteq 1..(n - 1)
    BY <1>2, <1>3, <1>4 DEF Issuance, IssuedCredential
  <2>2. \A i \in DOMAIN issued' :
          /\ issued'[i].cred.exp \in Nat
          /\ issued'[i].ancestors \subseteq 1..(i - 1)
          /\ issued'[i].lag \in Nat
    BY <1>0, <1>4, <2>1 DEF TypeOK
  <2>3. TypeOK'
    BY <1>0, <1>1, <1>5, <2>2 DEF TypeOK
  <2>4. \A i \in DOMAIN issued' : issued'[i].cred.issuer = issued'[i].cred.signedBy
    BY <1>0, <1>2, <1>4 DEF TypeInv
  <2> QED BY <1>0, <1>1, <1>4, <2>3, <2>4 DEF TypeInv
<1>8. ASSUME NEW g \in Handlers, g # h
      PROVE  pc'[g] = pc[g] /\ req'[g] = req[g] /\ local'[g] = local[g]
  BY <1>0, <1>5, <1>8 DEF Moves, TypeOK
<1>9. ASSUME NEW g \in Handlers PROVE Admitted(g)' /\ Delegable(g)'
  <2>1. CASE g = h
    BY <1>5, <2>1 DEF Admitted, Delegable, HoldsKey
  <2>2. CASE g # h
    BY <1>0, <1>1, <1>4, <1>8, <2>2, OtherHandler
  <2> QED BY <2>1, <2>2
<1>10. Owned'
  <2>1. ASSUME NEW t \in Tenants, NEW k \in 1..MaxKeys, Held(t, k)' PROVE Held(t, k)
    <3>1. ASSUME NEW g \in Handlers, HoldsKey(g)', Tenant(g)' = t, local'[g].signer = k
          PROVE  Held(t, k)
      <4>1. g # h
        BY <1>5, <3>1 DEF HoldsKey
      <4> QED BY <1>8, <3>1, <4>1 DEF HoldsKey, Tenant, Held
    <3>2. ASSUME NEW i \in DOMAIN issued', issued'[i].tenant = t, issued'[i].cred.signedBy = k
          PROVE  Held(t, k)
      <4>1. CASE i \in DOMAIN issued
        BY <1>4, <3>2, <4>1 DEF Held
      <4>2. CASE i = n
        BY <1>1, <1>2, <1>4, <3>2, <4>2 DEF Held, HoldsKey
      <4> QED BY <1>4, <4>1, <4>2
    <3> QED BY <1>1, <2>1, <3>1, <3>2 DEF Held
  <2> QED BY <1>0, <1>1, <2>1, OwnedKept
<1>11. Family' /\ DelegationNarrows'
  <2>1. ASSUME NEW j \in DOMAIN issued', NEW i \in issued'[j].ancestors
        PROVE  /\ issued'[i].tenant = issued'[j].tenant
               /\ issued'[j].cred.scope \subseteq issued'[i].cred.scope
               /\ issued'[j].cred.aud = issued'[i].cred.aud
               /\ issued'[j].cred.exp <= issued'[i].cred.exp + issued'[j].lag
    <3>1. CASE j \in DOMAIN issued
      <4>1. issued'[j] = issued[j] /\ i \in issued[j].ancestors
        BY <1>4, <3>1
      <4>2. i \in DOMAIN issued /\ issued'[i] = issued[i]
        BY <1>4, <1>6, <3>1, <4>1
      <4> QED BY <1>0, <3>1, <4>1, <4>2 DEF Family, DelegationNarrows
    <3>2. CASE j = n
      <4>1. issued'[j] = new /\ i \in new.ancestors
        BY <1>4, <3>2
      <4>2. i \in DOMAIN issued /\ issued'[i] = issued[i]
        BY <1>3, <1>4, <4>1
      <4> QED BY <1>3, <4>1, <4>2
    <3> QED BY <1>4, <3>1, <3>2
  <2> QED BY <2>1 DEF Family, DelegationNarrows
<1>12. MemoryInv'
  <2>1. mode = "memory" => Tenant(h) \in DOMAIN docs /\ docs[Tenant(h)] = local[h].signer
    BY <1>0, <1>1 DEF MemoryInv, HoldsKey
  <2>2. ASSUME NEW i \in DOMAIN issued'
        PROVE  /\ issued'[i].run <= restarts
               /\ issued'[i].run = restarts =>
                    /\ issued'[i].mode = mode
                    /\ mode = "memory" =>
                         /\ issued'[i].tenant \in DOMAIN docs
                         /\ docs[issued'[i].tenant] = issued'[i].cred.signedBy
    <3>1. CASE i \in DOMAIN issued
      BY <1>0, <1>4, <3>1 DEF MemoryInv
    <3>2. CASE i = n
      <4>1. restarts \in Nat
        BY <1>0 DEF TypeInv
      <4> QED BY <1>2, <1>4, <2>1, <3>2, <4>1
    <3> QED BY <1>4, <3>1, <3>2
  <2>3. ASSUME mode = "memory", NEW g \in Handlers
        PROVE  /\ pc'[g] # "create"
               /\ HoldsKey(g)' => Tenant(g)' \in DOMAIN docs /\ docs[Tenant(g)'] = local'[g].signer
    <3>1. CASE g = h
      BY <1>5, <3>1 DEF HoldsKey
    <3>2. CASE g # h
      BY <1>0, <1>8, <2>3, <3>2 DEF MemoryInv, HoldsKey, Tenant
    <3> QED BY <3>1, <3>2
  <2> QED BY <1>1, <2>2, <2>3 DEF MemoryInv
<1>13. MemoryKeysAreStable'
  <2>1. ASSUME NEW i \in DOMAIN issued', NEW j \in DOMAIN issued',
               issued'[i].tenant = issued'[j].tenant,
               issued'[i].run = issued'[j].run, issued'[i].mode = "memory"
        PROVE  issued'[i].cred.signedBy = issued'[j].cred.signedBy
    <3>1. CASE i \in DOMAIN issued /\ j \in DOMAIN issued
      BY <1>0, <1>4, <2>1, <3>1 DEF MemoryKeysAreStable
    <3>2. CASE i = n \/ j = n
      <4>1. issued'[i].run = restarts /\ issued'[j].run = restarts
        BY <1>2, <1>4, <2>1, <3>2
      <4> QED BY <1>1, <1>12, <2>1, <4>1 DEF MemoryInv
    <3> QED BY <1>4, <3>1, <3>2
  <2> QED BY <2>1 DEF MemoryKeysAreStable
<1> QED BY <1>7, <1>9, <1>10, <1>11, <1>12, <1>13 DEF Inv

-----------------------------------------------------------------------------
(* Time, idctl, restarts *)

\* The handlers stand still and nothing is issued.
Still == UNCHANGED <<issued, pc, req, local>>

\* Time passes, or nothing happens.
LEMMA TickKeeps ==
  ASSUME Inv, Tick \/ UNCHANGED vars
  PROVE  Inv'
<1>0. /\ TypeOK /\ TypeInv /\ Owned /\ Family /\ DelegationNarrows /\ MemoryInv
      /\ MemoryKeysAreStable /\ clock \in Nat
      /\ \A g \in Handlers : Admitted(g) /\ Delegable(g)
  BY InvFacts
<1>1. Still /\ UNCHANGED <<mode, docs, disk, readable, nextKey, restarts>>
  BY DEF Tick, vars, store, file, handler, Still
<1>2. clock' \in 1..MaxTime /\ clock <= clock'
  BY <1>0, IssuerAssumption DEF Tick, vars, TypeOK
<1>3. TypeInv'
  <2>1. TypeOK'
    BY <1>0, <1>1, <1>2 DEF TypeOK, Still
  <2> QED BY <1>0, <1>1, <2>1 DEF TypeInv, Still
<1>4. ASSUME NEW g \in Handlers PROVE Admitted(g)' /\ Delegable(g)'
  <2>1. clock' \in Nat
    BY <1>2, IssuerAssumption
  <2> QED BY <1>0, <1>1, <1>2, <2>1, OtherHandler DEF Still
<1>5. Owned'
  BY <1>0, <1>1 DEF Owned, Held, HoldsKey, Tenant, Still
<1>6. Family' /\ DelegationNarrows' /\ MemoryInv' /\ MemoryKeysAreStable'
  BY <1>0, <1>1
     DEF Family, DelegationNarrows, MemoryInv, MemoryKeysAreStable, HoldsKey, Tenant, Still
<1> QED BY <1>3, <1>4, <1>5, <1>6 DEF Inv

\* idctl gives a tenant a new key in the file.
LEMMA ReplaceKeyKeeps ==
  ASSUME Inv, NEW t0 \in Tenants, ReplaceKey(t0)
  PROVE  Inv'
<1>0. /\ TypeOK /\ TypeInv /\ Owned /\ Family /\ DelegationNarrows /\ MemoryInv
      /\ MemoryKeysAreStable /\ clock \in Nat /\ nextKey \in Nat
      /\ \A g \in Handlers : Admitted(g) /\ Delegable(g)
  BY InvFacts
<1>1. /\ Still /\ UNCHANGED <<clock, mode, docs, readable, restarts>>
      /\ disk' = [t \in DOMAIN disk \cup {t0} |-> IF t = t0 THEN nextKey ELSE disk[t]]
      /\ nextKey' = nextKey + 1 /\ nextKey <= MaxKeys
  BY DEF ReplaceKey, RotateKeys, GenerateKey, handler, Still
<1>2. nextKey \in 1..MaxKeys /\ nextKey' \in 1..(MaxKeys + 1) /\ nextKey <= nextKey'
  BY <1>0, <1>1, IssuerAssumption DEF TypeOK
<1>3. PICK T \in SUBSET Tenants : disk \in [T -> 1..MaxKeys]
  BY <1>0 DEF TypeOK, KeyMaps
<1>4. DOMAIN disk = T /\ \A t \in T : disk[t] \in 1..MaxKeys
  BY <1>3
<1>5. disk' \in KeyMaps
  <2> DEFINE U == T \cup {t0}
  <2>1. U \in SUBSET Tenants
    BY <1>3
  <2>2. disk' = [t \in U |-> IF t = t0 THEN nextKey ELSE disk[t]]
    BY <1>1, <1>4
  <2>3. disk' \in [U -> 1..MaxKeys]
    BY <2>2, <1>2, <1>4
  <2> HIDE DEF U
  <2> QED BY <2>1, <2>3 DEF KeyMaps
<1>a. ASSUME NEW t \in DOMAIN disk'
      PROVE  \/ t \in DOMAIN disk /\ disk'[t] = disk[t]
             \/ t = t0 /\ disk'[t] = nextKey
  BY <1>1
<1>6. TypeInv'
  <2>1. TypeOK'
    BY <1>0, <1>1, <1>2, <1>5 DEF TypeOK, Still
  <2> QED BY <1>0, <1>1, <2>1 DEF TypeInv, Still
<1>7. ASSUME NEW g \in Handlers PROVE Admitted(g)' /\ Delegable(g)'
  BY <1>0, <1>1, OtherHandler DEF Still
<1>8. Owned'
  <2>1. ASSUME NEW t \in Tenants, NEW k \in 1..MaxKeys, Held(t, k)'
        PROVE  Held(t, k) \/ (t = t0 /\ k = nextKey /\ nextKey' = nextKey + 1)
    BY <1>1, <1>a, <2>1 DEF Held, HoldsKey, Tenant, Still
  <2>2. nextKey' \in Nat
    BY <1>0, <1>1
  <2> QED BY <1>0, <1>2, <2>1, <2>2, OwnedKept
<1>9. Family' /\ DelegationNarrows' /\ MemoryInv' /\ MemoryKeysAreStable'
  BY <1>0, <1>1
     DEF Family, DelegationNarrows, MemoryInv, MemoryKeysAreStable, HoldsKey, Tenant, Still
<1> QED BY <1>6, <1>7, <1>8, <1>9 DEF Inv

\* The service starts again from the key file.
LEMMA RestartKeeps ==
  ASSUME Inv, Restart
  PROVE  Inv'
<1>0. /\ TypeOK /\ TypeInv /\ Owned /\ Family /\ DelegationNarrows /\ MemoryInv
      /\ MemoryKeysAreStable /\ clock \in Nat /\ nextKey \in Nat
      /\ \A t \in DOMAIN disk : Held(t, disk[t])
  BY InvFacts
<1>1. /\ UNCHANGED <<clock, nextKey, issued>> /\ restarts' = restarts + 1
      /\ mode' = (IF readable' THEN "file" ELSE "memory") /\ docs' = disk'
      /\ pc' = [g \in Handlers |-> "idle"] /\ req' = [g \in Handlers |-> NoRequest]
      /\ local' = [g \in Handlers |-> NoLocals]
  BY DEF Restart
<1>2. /\ disk' \in KeyMaps /\ readable' \in BOOLEAN
      /\ \A t \in DOMAIN disk' : Held(t, disk'[t])
  <2>1. CASE UNCHANGED file
    BY <1>0, <2>1 DEF file, TypeOK
  <2>2. CASE Truncate
    BY <2>2, KeyMapFacts DEF Truncate, NoDocs
  <2> QED BY <2>1, <2>2 DEF Restart
<1>3. TypeInv'
  <2>1. TypeOK'
    BY <1>0, <1>1, <1>2, InitialValues DEF TypeOK
  <2> QED BY <1>0, <1>1, <2>1 DEF TypeInv
<1>4. \A g \in Handlers : Admitted(g)' /\ Delegable(g)' /\ ~HoldsKey(g)' /\ pc'[g] = "idle"
  BY <1>1 DEF Admitted, Delegable, HoldsKey
<1>5. Owned'
  <2>1. ASSUME NEW t \in Tenants, NEW k \in 1..MaxKeys, Held(t, k)' PROVE Held(t, k)
    <3>1. ASSUME NEW i \in DOMAIN issued, issued[i].tenant = t, issued[i].cred.signedBy = k
          PROVE  Held(t, k)
      BY <3>1 DEF Held
    <3>2. \/ t \in DOMAIN disk' /\ disk'[t] = k
          \/ \E i \in DOMAIN issued : issued[i].tenant = t /\ issued[i].cred.signedBy = k
      BY <1>1, <1>4, <2>1 DEF Held
    <3> QED BY <1>2, <3>1, <3>2
  <2> QED BY <1>0, <1>1, <2>1, OwnedKept
<1>6. MemoryInv'
  <2>1. \A i \in DOMAIN issued : issued[i].run < restarts'
    <3>1. ASSUME NEW i \in DOMAIN issued PROVE issued[i].run < restarts'
      <4>1. issued[i] \in Issuance /\ restarts \in Nat
        BY <1>0 DEF TypeInv
      <4>2. issued[i].run \in Nat
        BY <4>1 DEF Issuance
      <4> QED BY <1>0, <1>1, <4>1, <4>2 DEF MemoryInv
    <3> QED BY <3>1
  <2>2. \A i \in DOMAIN issued : issued[i].run <= restarts' /\ issued[i].run # restarts'
    <3>1. ASSUME NEW i \in DOMAIN issued PROVE issued[i].run \in Nat /\ restarts' \in Nat
      <4>1. issued[i] \in Issuance /\ restarts \in Nat
        BY <1>0 DEF TypeInv
      <4> QED BY <1>1, <4>1 DEF Issuance
    <3> QED BY <2>1, <3>1
  <2> QED BY <1>1, <1>4, <2>2 DEF MemoryInv
<1>7. Family' /\ DelegationNarrows' /\ MemoryKeysAreStable'
  BY <1>0, <1>1 DEF Family, DelegationNarrows, MemoryKeysAreStable
<1> QED BY <1>3, <1>4, <1>5, <1>6, <1>7 DEF Inv

-----------------------------------------------------------------------------
(* The theorems *)

\* The service starts with no keys and nothing issued.
LEMMA InvInit == Init => Inv
<1> SUFFICES ASSUME Init PROVE Inv
  OBVIOUS
<1>1. /\ issued = <<>> /\ DOMAIN issued = {} /\ docs = NoDocs /\ disk = NoDocs
      /\ DOMAIN docs = {} /\ DOMAIN disk = {} /\ restarts = 0
      /\ \A h \in Handlers : pc[h] = "idle"
  BY DEF Init, NoDocs
<1>2. TypeOK
  BY <1>1, InitialValues, KeyMapFacts, IssuerAssumption DEF Init, TypeOK
<1>3. TypeInv
  BY <1>1, <1>2 DEF TypeInv
<1>4. \A h \in Handlers : Admitted(h) /\ Delegable(h)
  BY <1>1 DEF Admitted, Delegable, HoldsKey
<1>5. \A t \in Tenants, k \in 1..MaxKeys : ~Held(t, k)
  BY <1>1 DEF Held, HoldsKey
<1>6. Owned
  BY <1>5 DEF Owned
<1>7. Family /\ DelegationNarrows /\ MemoryInv /\ MemoryKeysAreStable
  BY <1>1 DEF Family, DelegationNarrows, MemoryInv, MemoryKeysAreStable, HoldsKey
<1> QED BY <1>3, <1>4, <1>6, <1>7 DEF Inv

\* Every step keeps the invariant.
LEMMA InvNext == Inv /\ [Next]_vars => Inv'
<1> SUFFICES ASSUME Inv, [Next]_vars PROVE Inv'
  OBVIOUS
<1>1. CASE UNCHANGED vars
  BY <1>1, TickKeeps
<1>2. ASSUME NEW h \in Handlers, NEW r \in Requests, Start(h, r) PROVE Inv'
  BY <1>2, StartKeeps
<1>3. ASSUME NEW h \in Handlers, GetSigningKey(h) PROVE Inv'
  BY <1>3, GetSigningKeyKeeps
<1>4. ASSUME NEW h \in Handlers, MemoryGetSigningKey(h) PROVE Inv'
  BY <1>4, MemoryGetSigningKeyKeeps
<1>5. ASSUME NEW h \in Handlers, FileGetMisses(h) PROVE Inv'
  BY <1>5, FileGetMissesKeeps
<1>6. ASSUME NEW h \in Handlers, FileSave(h) PROVE Inv'
  BY <1>6, FileSaveKeeps
<1>7. ASSUME NEW h \in Handlers, VerifyParent(h) PROVE Inv'
  BY <1>7, VerifyParentKeeps
<1>8. ASSUME NEW h \in Handlers, Sign(h) PROVE Inv'
  BY <1>8, SignKeeps
<1>9. CASE Tick
  BY <1>9, TickKeeps
<1>10. ASSUME NEW t \in Tenants, Create(t) \/ Rotate(t) PROVE Inv'
  BY <1>10, ReplaceKeyKeeps DEF Create, Rotate
<1>11. CASE Restart
  BY <1>11, RestartKeeps
<1> QED BY <1>1, <1>2, <1>3, <1>4, <1>5, <1>6, <1>7, <1>8, <1>9, <1>10, <1>11 DEF Next

\* The invariant of the issuer service, over all its requests, writes,
\* rotations and restarts.
THEOREM Invariance == Spec => []Inv
BY InvInit, InvNext, PTL DEF Spec

\* The issuer's state keeps its type: in particular no lifetime an admitted
\* request asks for (issuer_handlers.go:73 and 210), wrapped or not, dates a
\* credential before the epoch or lets it expire before it exists.
THEOREM TypeCorrect == Spec => []TypeOK
<1>1. Inv => TypeOK
  BY DEF Inv, TypeInv
<1> QED BY <1>1, Invariance, PTL

\* However requests, failing writes, rotations and restarts interleave, no two
\* tenants' credentials share a key and no delegation (issuer_handlers.go:229)
\* crosses tenants.
THEOREM TenantsApart == Spec => []TenantsStayApart
<1>1. Inv => TenantsStayApart
  <2> SUFFICES ASSUME Inv, NEW i \in DOMAIN issued, NEW j \in DOMAIN issued,
                      issued[i].tenant # issued[j].tenant
               PROVE  /\ issued[i].cred.signedBy # issued[j].cred.signedBy
                      /\ i \notin issued[j].ancestors
    BY DEF TenantsStayApart
  <2>1. Owned /\ Family /\ TypeInv
    BY InvFacts
  <2>2. issued[i] \in Issuance /\ issued[j] \in Issuance
    BY <2>1 DEF TypeInv
  <2>3. /\ issued[i].tenant \in Tenants /\ issued[j].tenant \in Tenants
        /\ issued[i].cred.signedBy \in 1..MaxKeys
    BY <2>2 DEF Issuance, IssuedCredential
  <2>4. /\ Held(issued[i].tenant, issued[i].cred.signedBy)
        /\ Held(issued[j].tenant, issued[j].cred.signedBy)
    BY DEF Held
  <2> QED BY <2>1, <2>3, <2>4 DEF Owned, Family
<1> QED BY <1>1, Invariance, PTL

\* A delegated credential stays within the scope and audience of all it descends
\* from, however long a chain of delegations the service has signed, and outlives
\* none of it by more than the delegations of its descent took between their check
\* (issuer_handlers.go:239-262) and their date (vc.go:208).
THEOREM Delegation == Spec => []DelegationNarrows
<1>1. Inv => DelegationNarrows
  BY DEF Inv
<1> QED BY <1>1, Invariance, PTL

\* The store in memory (keystore.go:32-57) signs for a tenant with one key in
\* each run of the service.
THEOREM MemoryKeys == Spec => []MemoryKeysAreStable
<1>1. Inv => MemoryKeysAreStable
  BY DEF Inv
<1> QED BY <1>1, Invariance, PTL

-----------------------------------------------------------------------------
(* Lifetimes *)

\* What the issuance policy let pass of a delegation about to be signed: a
\* negative lifetime passes unseen, so the parent must bound what it wraps to.
Passed(h) ==
  pc[h] = "sign" /\ req[h].kind = "delegate" =>
    /\ MaxTTLSeconds = 0 \/ req[h].ttl <= MaxTTLSeconds
    /\ issued[local[h].parent].cred.iat <= local[h].now

\* Nothing is dated ahead of the clock, and the one credential the policy does
\* not bound has no scope to delegate.
Dated ==
  \A i \in DOMAIN issued :
    /\ issued[i].cred.iat <= clock
    /\ issued[i].kind = "bootstrap" => issued[i].cred.scope = {}

LifetimeInv ==
  /\ Dated
  /\ \A h \in Handlers : Passed(h)
  /\ IssuedLifetimes

\* A lifetime within a time.Duration's range does not wrap.
LEMMA DurationInRange ==
  ASSUME NEW s \in Int, 0 < s, Second * s < DurationSpan
  PROVE  Duration(s) = Second * s
<1>1. DurationSpan \in Nat
  BY IssuerAssumption
<1>2. (Second * s + DurationSpan) % (2 * DurationSpan) = Second * s + DurationSpan
  BY <1>1 DEF Second
<1> QED BY <1>1, <1>2 DEF Duration, Second

\* The longest lifetime of a credential of one's own: a day, or what the policy
\* allows.
LEMMA MaxTTLFacts ==
  /\ MaxTTL \in Int /\ MaxTTL <= Second * Day
  /\ MaxTTLSeconds > 0 => MaxTTL <= Second * MaxTTLSeconds
<1>1. MaxTTLSeconds \in Nat /\ Day \in Nat
  BY IssuerAssumption
<1>2. CASE MaxTTLSeconds = 0
  BY <1>1, <1>2 DEF MaxTTL, Second
<1>3. CASE MaxTTLSeconds > 0
  <2>1. Duration(MaxTTLSeconds) = Second * MaxTTLSeconds
    BY <1>1, <1>3, DurationInRange, IssuerAssumption
  <2> QED BY <1>1, <1>3, <2>1 DEF MaxTTL, Second
<1> QED BY <1>1, <1>2, <1>3

\* What an admitted request for a credential of one's own asks for.
LEMMA AdmittedIssue ==
  ASSUME NEW r \in Requests, RequestError(r) = Ok, r.kind = "issue"
  PROVE  /\ Duration(r.ttl) <= MaxTTL
         /\ MaxTTLSeconds = 0 \/ r.ttl <= MaxTTLSeconds
<1>1. ~(Duration(r.ttl) > MaxTTL)
  BY DEF RequestError, Ok
<1>2. ValidateRequest(r.ttl, ClaimNames(r.scope, r.aud), r.scope)
  BY DEF RequestError, Ok
<1>3. Duration(r.ttl) \in Int /\ MaxTTL \in Int
  BY RequestFacts, DurationType, MaxTTLFacts
<1> QED BY <1>1, <1>2, <1>3 DEF ValidateRequest

\* The dates of a credential.
LEMMA BasicCredentialDates ==
  ASSUME NEW k, NEW subject, NEW at, NEW ttl, NEW scope, NEW aud
  PROVE  LET c == IssueBasicCredential(k, subject, at, ttl, scope, aud)
         IN  c.iat = at /\ c.exp = at + ttl /\ c.scope = scope
BY DEF IssueBasicCredential

\* What a handler signs is dated now and lives as long as was asked for.
LEMMA NewIssueDates ==
  ASSUME TypeInv, NEW h \in Handlers, NEW l
  PROVE  LET new == NewIssue(h, l)
         IN  /\ new.kind = req[h].kind /\ new.ttl = req[h].ttl /\ new.cred.iat = clock
             /\ req[h].kind = "bootstrap" => new.cred.scope = {}
             /\ req[h].kind # "bootstrap" => new.cred.exp = clock + l
<1> DEFINE r == req[h]
           k == local[h].signer
           parent == issued[local[h].parent]
<1>1. r \in Requests
  BY DEF TypeInv, TypeOK
<1>2. r.kind \in {"issue", "delegate", "bootstrap"} /\ r.sd \in BOOLEAN
  BY <1>1, RequestFacts
<1>3. CASE r.kind = "bootstrap"
  <2> DEFINE c == IssueBasicCredential(k, r.subject, clock, AdminVCTTL, {}, NoAudience)
             q == [r EXCEPT !.tenant = DefaultTenant]
  <2>1. NewIssue(h, l) = Issue(c, q, {}, 0)
    BY <1>3 DEF NewIssue, BootstrapIssue
  <2>2. q.kind = r.kind /\ q.ttl = r.ttl
    BY <1>1, IssuerAssumption
  <2>3. c.iat = clock /\ c.scope = {}
    BY BasicCredentialDates
  <2> HIDE DEF c, q
  <2> QED BY <1>3, <2>1, <2>2, <2>3 DEF Issue
<1>4. CASE r.kind = "issue"
  <2> DEFINE c == IF r.sd THEN IssueSDJWTCredential(k, r.subject, clock, l)
                  ELSE IssueBasicCredential(k, r.subject, clock, l, r.scope, r.aud)
  <2>1. NewIssue(h, l) = Issue(c, r, {}, 0)
    BY <1>2, <1>4 DEF NewIssue
  <2>2. c.iat = clock /\ c.exp = clock + l
    BY <1>2, BasicCredentialDates DEF IssueSDJWTCredential
  <2> HIDE DEF c
  <2> QED BY <1>4, <2>1, <2>2 DEF Issue
<1>5. CASE r.kind = "delegate"
  <2> DEFINE c == IssueBasicCredential(k, r.subject, clock, l, r.scope,
                                       AudienceOf(parent.cred))
             lag == parent.lag + clock - local[h].now
             ancestors == parent.ancestors \cup {local[h].parent}
  <2>1. NewIssue(h, l) = Issue(c, r, ancestors, lag)
    BY <1>5 DEF NewIssue
  <2>2. c.iat = clock /\ c.exp = clock + l
    BY BasicCredentialDates
  <2> HIDE DEF c, lag, ancestors
  <2> QED BY <1>5, <2>1, <2>2 DEF Issue
<1> QED BY <1>2, <1>3, <1>4, <1>5

\* What is signed keeps to the policy.  Of a delegation whose lifetime wrapped
\* the policy saw nothing, but its parent kept to the policy.
LEMMA NewIssueLives ==
  ASSUME Inv, LifetimeInv, NEW h \in Handlers, pc[h] = "sign", req[h].kind # "bootstrap",
         NEW l \in UnixSeconds(Duration(req[h].ttl))
  PROVE  /\ l \in Nat
         /\ req[h].ttl > 0 /\ MaxTTLSeconds > 0 => l = req[h].ttl
         /\ MaxTTLSeconds > 0 => l <= MaxTTLSeconds
         /\ req[h].kind = "issue" => l <= Day
<1> DEFINE r == req[h]
           ttl == Duration(r.ttl)
           p == local[h].parent
<1>0. /\ TypeOK /\ TypeInv /\ Admitted(h) /\ Delegable(h) /\ Passed(h) /\ Dated
      /\ IssuedLifetimes
  BY InvFacts DEF LifetimeInv
<1>1. /\ r \in Requests /\ RequestError(r) = Ok /\ r.kind \in {"issue", "delegate"}
      /\ r.ttl \in Int /\ r.scope \in SUBSET Scopes
  BY <1>0, RequestFacts DEF TypeOK, Admitted
<1>2. ttl \in Nat
  BY <1>1, AdmittedTTL
<1>u. /\ l \in Nat
      /\ \A n \in Int : ttl <= Second * n => l <= n
      /\ \A n \in Int : ttl = Second * n => l = n
  BY <1>2, UnixSecondsFacts
<1>c. MaxTTLSeconds \in Int /\ Day \in Int /\ Second * MaxTTLSeconds < DurationSpan
      /\ DurationSpan \in Nat
  BY IssuerAssumption
<1>3. MaxTTLSeconds = 0 \/ r.ttl <= MaxTTLSeconds
  BY <1>0, <1>1, AdmittedIssue DEF Passed
<1>4. r.ttl > 0 /\ MaxTTLSeconds > 0 => l = r.ttl
  <2> SUFFICES ASSUME r.ttl > 0, MaxTTLSeconds > 0 PROVE l = r.ttl
    OBVIOUS
  <2>1. Second * r.ttl < DurationSpan
    BY <1>1, <1>3, <1>c DEF Second
  <2>2. ttl = Second * r.ttl
    BY <1>1, <2>1, DurationInRange
  <2> QED BY <1>1, <1>u, <2>2
<1>5. r.kind = "issue" => l <= Day /\ (MaxTTLSeconds > 0 => l <= MaxTTLSeconds)
  <2> HIDE DEF ttl
  <2>1. r.kind = "issue" => ttl <= MaxTTL
    BY <1>1, AdmittedIssue DEF ttl
  <2>2. r.kind = "issue" => /\ ttl <= Second * Day
                            /\ MaxTTLSeconds > 0 => ttl <= Second * MaxTTLSeconds
    BY <1>2, <1>c, <2>1, MaxTTLFacts DEF Second
  <2> QED BY <1>u, <1>c, <2>2
<1>6. ASSUME r.kind = "delegate", MaxTTLSeconds > 0 PROVE l <= MaxTTLSeconds
  <2>1. p \in DOMAIN issued /\ issued[p] \in Issuance
    BY <1>0, <1>6 DEF Admitted, TypeInv
  <2>2. issued[p].cred \in IssuedCredential
    BY <2>1 DEF Issuance
  <2>3. issued[p].cred.iat \in Nat /\ issued[p].cred.exp \in Nat /\ local[h].now \in Nat
    BY <1>0, <2>2 DEF IssuedCredential, TypeOK, Locals
  <2>4. r.scope # {}
    BY <1>1, <1>6 DEF RequestError, Ok
  <2>5. /\ r.scope \subseteq issued[p].cred.scope
        /\ Second * local[h].now + ttl <= Second * issued[p].cred.exp
        /\ issued[p].cred.iat <= local[h].now
    BY <1>0, <1>6 DEF Delegable, Passed
  <2>6. issued[p].kind # "bootstrap"
    BY <1>0, <2>1, <2>4, <2>5 DEF Dated
  <2>7. issued[p].cred.exp - issued[p].cred.iat <= MaxTTLSeconds
    BY <1>0, <1>6, <2>1, <2>6 DEF IssuedLifetimes
  <2> HIDE DEF ttl
  <2>8. ttl <= Second * MaxTTLSeconds
    BY <1>2, <1>c, <2>3, <2>5, <2>7 DEF Second
  <2> QED BY <1>u, <1>c, <2>8
<1> QED BY <1>1, <1>4, <1>5, <1>6, <1>u

\* What the policy is known to have let pass stays known while a handler stands
\* still.
LEMMA PassedKept ==
  ASSUME TypeInv, NEW g \in Handlers, Admitted(g), Passed(g),
         pc'[g] = pc[g], req'[g] = req[g], local'[g] = local[g],
         \A i \in DOMAIN issued : i \in DOMAIN issued' /\ issued'[i] = issued[i]
  PROVE  Passed(g)'
BY DEF Admitted, Passed

\* A handler that does not verify a parent is not about to sign a delegation.
LEMMA OnlyVerifyParentPasses ==
  ASSUME Inv, NEW h \in Handlers, NEW g \in Handlers,
         \/ \E r \in Requests : Start(h, r)
         \/ GetSigningKey(h) \/ MemoryGetSigningKey(h) \/ FileGetMisses(h) \/ FileSave(h)
         \/ Sign(h)
  PROVE  \/ pc'[g] = pc[g] /\ req'[g] = req[g] /\ local'[g] = local[g]
         \/ ~(pc'[g] = "sign" /\ req'[g].kind = "delegate")
<1>0. TypeOK
  BY InvFacts
<1>1. /\ pc \in [Handlers -> {"idle", "key", "create", "verify", "sign"}]
      /\ req \in [Handlers -> Requests] /\ local \in [Handlers -> Locals]
  BY <1>0 DEF TypeOK
<1>2. ASSUME NEW r \in Requests, Start(h, r)
      PROVE  \/ pc'[g] = pc[g] /\ req'[g] = req[g] /\ local'[g] = local[g]
             \/ pc'[g] # "sign"
  BY <1>1, <1>2 DEF Start
<1>3. ASSUME NEW k, WithKey(h, k)
      PROVE  \/ pc'[g] = pc[g] /\ req'[g] = req[g] /\ local'[g] = local[g]
             \/ ~(pc'[g] = "sign" /\ req'[g].kind = "delegate")
  BY <1>1, <1>3 DEF WithKey
<1>4. ASSUME Respond(h)
      PROVE  \/ pc'[g] = pc[g] /\ req'[g] = req[g] /\ local'[g] = local[g]
             \/ pc'[g] # "sign"
  BY <1>1, <1>4 DEF Respond
<1>5. ASSUME FileGetMisses(h)
      PROVE  \/ pc'[g] = pc[g] /\ req'[g] = req[g] /\ local'[g] = local[g]
             \/ pc'[g] # "sign"
  BY <1>1, <1>5 DEF FileGetMisses
<1> QED BY <1>2, <1>3, <1>4, <1>5 DEF GetSigningKey, MemoryGetSigningKey, FileSave, Sign

\* A verified parent was issued before and the policy saw the lifetime.
LEMMA VerifyParentPasses ==
  ASSUME Inv, LifetimeInv, NEW h \in Handlers, VerifyParent(h), NEW g \in Handlers
  PROVE  Passed(g)'
<1> DEFINE p == local[h].parent
           error == DelegateError(local[h].signer, issued[p].cred, req[h], clock)
<1>0. /\ TypeOK /\ TypeInv /\ Admitted(g) /\ Admitted(h) /\ Passed(g) /\ Dated /\ clock \in Nat
  BY InvFacts DEF LifetimeInv
<1>1. /\ pc \in [Handlers -> {"idle", "key", "create", "verify", "sign"}]
      /\ req \in [Handlers -> Requests] /\ local \in [Handlers -> Locals]
      /\ pc[h] = "verify" /\ issued' = issued
  BY <1>0 DEF TypeOK, VerifyParent
<1>2. CASE error # Ok /\ Respond(h)
  <2>1. \/ pc'[g] = pc[g] /\ req'[g] = req[g] /\ local'[g] = local[g]
        \/ pc'[g] # "sign"
    BY <1>1, <1>2 DEF Respond
  <2> QED BY <1>0, <1>1, <2>1, PassedKept DEF Passed
<1>3. CASE /\ error = Ok /\ pc' = [pc EXCEPT ![h] = "sign"]
           /\ local' = [local EXCEPT ![h].now = clock] /\ UNCHANGED req
  <2>1. CASE g # h
    <3>1. pc'[g] = pc[g] /\ req'[g] = req[g] /\ local'[g] = local[g]
      BY <1>1, <1>3, <2>1
    <3> QED BY <1>0, <1>1, <3>1, PassedKept
  <2>2. CASE g = h
    <3>1. req[h].kind = "delegate" /\ p \in DOMAIN issued
      BY <1>0, <1>1 DEF Admitted
    <3>2. local'[h].parent = p /\ local'[h].now = clock
      <4>1. local[h] \in Locals
        BY <1>1
      <4>2. /\ [local[h] EXCEPT !.now = clock].parent = p
            /\ [local[h] EXCEPT !.now = clock].now = clock
        BY <4>1 DEF Locals
      <4> QED BY <1>1, <1>3, <4>2
    <3>3. ValidateRequest(req[h].ttl,
            ClaimNames(req[h].scope, AudienceOf(issued[p].cred)) \cup {"parent_id"}, req[h].scope)
      BY <1>3 DEF DelegateError, Ok
    <3>4. issued[p].cred.iat <= clock
      BY <1>0, <3>1 DEF Dated
    <3> QED BY <1>1, <1>3, <2>2, <3>1, <3>2, <3>3, <3>4 DEF Passed, ValidateRequest
  <2> QED BY <2>1, <2>2
<1> QED BY <1>2, <1>3 DEF VerifyParent

\* What is said of lifetimes is kept by a step that issues nothing.
LEMMA NothingIssuedKeeps ==
  ASSUME Inv, LifetimeInv, issued' = issued, clock' \in Nat, clock <= clock',
         \A g \in Handlers : Passed(g)'
  PROVE  LifetimeInv'
<1>1. /\ TypeInv /\ clock \in Nat /\ Dated /\ IssuedLifetimes
  BY InvFacts DEF LifetimeInv
<1>2. ASSUME NEW i \in DOMAIN issued PROVE issued[i].cred.iat <= clock'
  <2>1. issued[i] \in Issuance
    BY <1>1 DEF TypeInv
  <2>2. issued[i].cred \in IssuedCredential
    BY <2>1 DEF Issuance
  <2>3. issued[i].cred.iat \in Nat
    BY <2>2 DEF IssuedCredential
  <2> QED BY <1>1, <2>3 DEF Dated
<1>3. Dated'
  BY <1>1, <1>2 DEF Dated
<1>4. IssuedLifetimes'
  BY <1>1 DEF IssuedLifetimes
<1> QED BY <1>3, <1>4 DEF LifetimeInv

\* Signing keeps it.
LEMMA SignKeepsLifetimes ==
  ASSUME Inv, LifetimeInv, NEW h \in Handlers, Sign(h)
  PROVE  LifetimeInv'
<1>l. PICK l \in UnixSeconds(Duration(req[h].ttl)) : issued' = Append(issued, NewIssue(h, l))
  BY DEF Sign
<1> DEFINE new == NewIssue(h, l)
           n == Len(issued) + 1
<1>0. /\ TypeOK /\ TypeInv /\ clock \in Nat /\ Dated /\ IssuedLifetimes
      /\ \A g \in Handlers : Admitted(g) /\ Passed(g)
  BY InvFacts DEF LifetimeInv
<1>1. pc[h] = "sign" /\ issued' = Append(issued, new) /\ clock' = clock
  BY <1>l DEF Sign
<1>2. /\ new.kind = req[h].kind /\ new.ttl = req[h].ttl /\ new.cred.iat = clock
      /\ req[h].kind = "bootstrap" => new.cred.scope = {}
      /\ req[h].kind # "bootstrap" => new.cred.exp = clock + l
  BY <1>0, NewIssueDates
<1>3. req[h].kind # "bootstrap" =>
        /\ l \in Nat
        /\ req[h].ttl > 0 /\ MaxTTLSeconds > 0 => l = req[h].ttl
        /\ MaxTTLSeconds > 0 => l <= MaxTTLSeconds
        /\ req[h].kind = "issue" => l <= Day
  BY <1>1, NewIssueLives
<1> HIDE DEF new
<1>4. /\ DOMAIN issued' = DOMAIN issued \cup {n} /\ issued'[n] = new
      /\ \A i \in DOMAIN issued : issued'[i] = issued[i]
  BY <1>0, <1>1 DEF TypeInv
<1>5. Dated'
  <2>1. ASSUME NEW i \in DOMAIN issued'
        PROVE  /\ issued'[i].cred.iat <= clock
               /\ issued'[i].kind = "bootstrap" => issued'[i].cred.scope = {}
    <3>1. CASE i \in DOMAIN issued
      BY <1>0, <1>4, <3>1 DEF Dated
    <3>2. CASE i = n
      BY <1>0, <1>2, <1>4, <3>2
    <3> QED BY <1>4, <3>1, <3>2
  <2> QED BY <1>1, <2>1 DEF Dated
<1>6. IssuedLifetimes'
  <2>1. ASSUME NEW i \in DOMAIN issued', issued'[i].kind # "bootstrap"
        PROVE  LET lifetime == issued'[i].cred.exp - issued'[i].cred.iat
               IN  /\ lifetime >= 0
                   /\ issued'[i].ttl > 0 /\ MaxTTLSeconds > 0 => lifetime = issued'[i].ttl
                   /\ MaxTTLSeconds > 0 => lifetime <= MaxTTLSeconds
                   /\ issued'[i].kind = "issue" => lifetime <= Day
    <3>1. CASE i \in DOMAIN issued
      BY <1>0, <1>4, <2>1, <3>1 DEF IssuedLifetimes
    <3>2. CASE i = n
      <4>1. l \in Nat => (clock + l) - clock = l /\ l >= 0
        BY <1>0
      <4> QED BY <1>2, <1>3, <1>4, <2>1, <3>2, <4>1
    <3> QED BY <1>4, <3>1, <3>2
  <2> QED BY <2>1 DEF IssuedLifetimes
<1>7. ASSUME NEW g \in Handlers PROVE Passed(g)'
  <2>1. \/ pc'[g] = pc[g] /\ req'[g] = req[g] /\ local'[g] = local[g]
        \/ ~(pc'[g] = "sign" /\ req'[g].kind = "delegate")
    BY OnlyVerifyParentPasses
  <2> QED BY <1>0, <1>4, <2>1, PassedKept DEF Passed
<1> QED BY <1>5, <1>6, <1>7 DEF LifetimeInv

\* Every step keeps it.
LEMMA LifetimeNext == Inv /\ LifetimeInv /\ [Next]_vars => LifetimeInv'
<1> SUFFICES ASSUME Inv, LifetimeInv, [Next]_vars PROVE LifetimeInv'
  OBVIOUS
<1>0. /\ TypeOK /\ TypeInv /\ clock \in Nat
      /\ \A g \in Handlers : Admitted(g) /\ Passed(g)
  BY InvFacts DEF LifetimeInv
<1>1. ASSUME NEW h \in Handlers,
             \/ \E r \in Requests : Start(h, r)
             \/ GetSigningKey(h) \/ MemoryGetSigningKey(h) \/ FileGetMisses(h) \/ FileSave(h)
      PROVE  LifetimeInv'
  <2>1. issued' = issued /\ clock' = clock
    BY <1>1 DEF Start, GetSigningKey, MemoryGetSigningKey, FileGetMisses, FileSave
  <2>2. ASSUME NEW g \in Handlers PROVE Passed(g)'
    <3>1. \/ pc'[g] = pc[g] /\ req'[g] = req[g] /\ local'[g] = local[g]
          \/ ~(pc'[g] = "sign" /\ req'[g].kind = "delegate")
      BY <1>1, OnlyVerifyParentPasses
    <3> QED BY <1>0, <2>1, <3>1, PassedKept DEF Passed
  <2> QED BY <1>0, <2>1, <2>2, NothingIssuedKeeps
<1>2. ASSUME NEW h \in Handlers, VerifyParent(h) PROVE LifetimeInv'
  <2>1. issued' = issued /\ clock' = clock
    BY <1>2 DEF VerifyParent
  <2> QED BY <1>0, <1>2, <2>1, VerifyParentPasses, NothingIssuedKeeps
<1>3. ASSUME NEW h \in Handlers, Sign(h) PROVE LifetimeInv'
  BY <1>3, SignKeepsLifetimes
<1>4. CASE Tick \/ UNCHANGED vars \/ \E t \in Tenants : Create(t) \/ Rotate(t)
  <2>1. Still /\ clock' \in Nat /\ clock <= clock'
    BY <1>0, <1>4
       DEF Tick, Create, Rotate, ReplaceKey, vars, store, file, handler, Still
  <2> QED BY <1>0, <2>1, PassedKept, NothingIssuedKeeps DEF Still
<1>5. CASE Restart
  <2>1. issued' = issued /\ clock' = clock /\ \A g \in Handlers : pc'[g] = "idle"
    BY <1>5 DEF Restart
  <2>2. \A g \in Handlers : Passed(g)'
    BY <2>1 DEF Passed
  <2> QED BY <1>0, <2>1, <2>2, NothingIssuedKeeps
<1> QED BY <1>1, <1>2, <1>3, <1>4, <1>5 DEF Next

\* However a lifetime wraps on its way from the request to the credential
\* (issuer_handlers.go:73 and 210), what is issued keeps to the policy.
THEOREM Lifetimes == Spec => []IssuedLifetimes
<1>1. Init => LifetimeInv
  <2> SUFFICES ASSUME Init PROVE LifetimeInv
    OBVIOUS
  <2>1. DOMAIN issued = {} /\ \A h \in Handlers : pc[h] = "idle"
    BY DEF Init
  <2> QED BY <2>1 DEF LifetimeInv, Dated, Passed, IssuedLifetimes
<1>2. LifetimeInv => IssuedLifetimes
  BY DEF LifetimeInv
<1> QED BY <1>1, <1>2, LifetimeNext, Invariance, PTL DEF Spec
=============================================================================
