--------------------------- MODULE DidResolverProofs ---------------------------
(***************************************************************************)
(* For every set of DIDs and documents, every life of a cache entry and    *)
(* every timeout: a key that a document stopped naming is returned for a   *)
(* bounded time only, whatever the order in which lookups store what they  *)
(* fetched.                                                                *)
(***************************************************************************)
EXTENDS DidResolver, TLAPS

\* The DIDs a lookup can get a key for.
Resolvable == JwkDids \cup {d \in WebDids : didToURL(d) # NoUrl}

\* What a lookup in progress knows: the document it was served was published
\* when the fetch started or later, and so the key it is about to store was
\* named at most one timeout before it had arrived.
LookupOK(h) ==
  /\ pc[h] \in {"fetch", "read"} =>
       /\ local[h].did \in WebDids /\ didToURL(local[h].did) # NoUrl
       /\ local[h].started <= clock
  /\ pc[h] = "read" =>
       LET k == extractPublicKeyFromDocument(local[h].document)
       IN  k = NoKey \/ NamedSince(local[h].did, k, local[h].started)
  /\ pc[h] = "store" =>
       /\ local[h].did \in Resolvable
       /\ local[h].key \in Ed25519Keys
       /\ local[h].received <= clock
       /\ NamedSince(local[h].did, local[h].key, local[h].received - WebTimeout)

\* The same of an entry, counted back from when it expires.
EntryOK(d) ==
  /\ d \in Resolvable
  /\ cache[d].expires <= clock + CacheTTL
  /\ NamedSince(d, cache[d].key, cache[d].expires - (CacheTTL + WebTimeout + cache[d].lag))

\* The inductive invariant.
IInv ==
  /\ TypeOK
  /\ \A h \in Handlers : LookupOK(h)
  /\ \A d \in DOMAIN cache : EntryOK(d)

-----------------------------------------------------------------------------
(* Lemmas *)

\* A JWK is read as an Ed25519 key or not at all.
LEMMA KeyType ==
  ASSUME NEW jwk
  PROVE  toPublicKey(jwk) \in Ed25519Keys \cup {NoKey}
BY DEF toPublicKey

\* So is a document.
LEMMA DocumentKeyType ==
  ASSUME NEW document
  PROVE  extractPublicKeyFromDocument(document) \in Ed25519Keys \cup {NoKey}
BY KeyType DEF extractPublicKeyFromDocument

\* The two methods have no DID in common.
LEMMA MethodsApart == JwkDids \cap WebDids = {}
<1> SUFFICES ASSUME NEW d \in JwkDids, d \in WebDids PROVE FALSE
  OBVIOUS
<1>1. d.method = "jwk"
  BY ResolverAssumption
<1>2. d.method = "web"
  BY ResolverAssumption
<1> QED BY <1>1, <1>2

\* An idle lookup's variables have their type.
LEMMA NoLocalsType == NoLocals \in Locals
<1>1. (CHOOSE d \in Dids : TRUE) \in Dids
  BY ResolverAssumption
<1> QED BY <1>1 DEF NoLocals, Locals

\* So have those of a lookup with a key.
LEMMA FoundType ==
  ASSUME NEW d \in Dids, NEW k \in Ed25519Keys, clock \in Nat
  PROVE  LET l == Found(d, k)
         IN  l \in Locals /\ l.did = d /\ l.received = clock /\ l.key = k
BY NoLocalsType DEF Found, NoLocals, Locals

\* So have those of a lookup that starts to fetch.
LEMMA FetchType ==
  ASSUME NEW d \in Dids, NEW t \in Nat
  PROVE  LET l == [NoLocals EXCEPT !.did = d, !.started = t]
         IN  l \in Locals /\ l.did = d /\ l.started = t
BY NoLocalsType DEF NoLocals, Locals

\* Replacing a document takes no key away from the past: the key that was named
\* until now was named at every earlier time.
LEMMA PublishKeeps ==
  ASSUME TypeOK, NEW u \in Urls, NEW document \in Documents, Publish(u, document),
         NEW d \in Resolvable, NEW k, NEW t \in Int, t <= clock, NamedSince(d, k, t)
  PROVE  NamedSince(d, k, t)'
<1>1. CASE d \in JwkDids
  <2>1. d \notin WebDids
    BY <1>1, MethodsApart
  <2> QED BY <1>1, <2>1 DEF NamedSince, CurrentKey
<1>2. CASE d \in WebDids /\ didToURL(d) # NoUrl
  <2>1. d \notin JwkDids
    BY <1>2, MethodsApart
  <2>2. didToURL(d) \in Urls
    BY <1>2 DEF Urls
  <2>3. past \subseteq past' /\ clock \in Int
    BY DEF Publish, TypeOK
  <2>4. CASE didToURL(d) # u
    <3>1. doc'[didToURL(d)] = doc[didToURL(d)]
      BY <2>2, <2>4 DEF Publish, TypeOK
    <3> QED BY <1>2, <2>1, <2>3, <3>1 DEF NamedSince, CurrentKey
  <2>5. CASE didToURL(d) = u
    <3>1. CASE extractPublicKeyFromDocument(doc[u]) = k
      <4> DEFINE p == [url |-> u, key |-> extractPublicKeyFromDocument(doc[u]), until |-> clock]
      <4>1. p \in past'
        BY DEF Publish
      <4>2. p.url = didToURL(d) /\ p.key = k /\ p.until >= t
        BY <2>5, <3>1, <2>3
      <4> HIDE DEF p
      <4> QED BY <1>2, <4>1, <4>2 DEF NamedSince
    <3>2. CASE extractPublicKeyFromDocument(doc[u]) # k
      BY <1>2, <2>1, <2>3, <2>5, <3>2 DEF NamedSince, CurrentKey
    <3> QED BY <3>1, <3>2
  <2> QED BY <2>4, <2>5
<1> QED BY <1>1, <1>2 DEF Resolvable

\* A key named since t was named since any earlier time.
LEMMA NamedEarlier ==
  ASSUME TypeOK, NEW d, NEW k, NEW t \in Int, NEW s \in Int, s <= t, NamedSince(d, k, t)
  PROVE  NamedSince(d, k, s)
<1>1. CASE CurrentKey(d) = k
  BY <1>1 DEF NamedSince
<1>2. CASE /\ d \in WebDids
           /\ \E p \in past : p.url = didToURL(d) /\ p.key = k /\ p.until >= t
  <2>1. PICK p \in past : p.url = didToURL(d) /\ p.key = k /\ p.until >= t
    BY <1>2
  <2>2. p.until \in Int
    BY DEF TypeOK
  <2>3. p.until >= s
    BY <2>1, <2>2
  <2> QED BY <1>2, <2>1, <2>3 DEF NamedSince
<1> QED BY <1>1, <1>2 DEF NamedSince

-----------------------------------------------------------------------------
(* The invariant is inductive *)

\* The three parts of the invariant hold of what a step of lookup h leaves alone:
\* it is enough to look at h itself.
LEMMA OneLookup ==
  ASSUME IInv, NEW h \in Handlers, UNCHANGED <<clock, web, cache>>,
         NEW c \in {"idle", "fetch", "read", "store"}, NEW l \in Locals,
         pc' = [pc EXCEPT ![h] = c], local' = [local EXCEPT ![h] = l],
         LookupOK(h)'
  PROVE  IInv'
<1>1. TypeOK'
  BY DEF IInv, TypeOK, web
<1>2. \A d \in DOMAIN cache' : EntryOK(d)'
  <2>1. \A d \in DOMAIN cache : EntryOK(d)
    BY DEF IInv
  <2> QED BY <2>1 DEF EntryOK, NamedSince, CurrentKey, web
<1>3. ASSUME NEW g \in Handlers PROVE LookupOK(g)'
  <2>1. CASE g = h
    BY <2>1
  <2>2. CASE g # h
    <3>1. pc'[g] = pc[g] /\ local'[g] = local[g]
      BY <2>2 DEF IInv, TypeOK
    <3>2. LookupOK(g)
      BY DEF IInv
    <3> QED BY <3>1, <3>2 DEF LookupOK, NamedSince, CurrentKey, web
  <2> QED BY <2>1, <2>2
<1> QED BY <1>1, <1>2, <1>3 DEF IInv

\* The initial states satisfy the invariant.
LEMMA InitInv == Init => IInv
<1> SUFFICES ASSUME Init PROVE IInv
  OBVIOUS
<1>1. TypeOK
  BY NoLocalsType, ResolverAssumption DEF Init, TypeOK
<1>2. \A h \in Handlers : LookupOK(h)
  BY DEF Init, LookupOK
<1>3. \A d \in DOMAIN cache : EntryOK(d)
  BY DEF Init
<1> QED BY <1>1, <1>2, <1>3 DEF IInv

\* Every step keeps it.
LEMMA NextInv == IInv /\ [Next]_vars => IInv'
<1> SUFFICES ASSUME IInv, [Next]_vars PROVE IInv'
  OBVIOUS
<1> USE DEF IInv
<1>a. TypeOK /\ clock \in Nat /\ WebTimeout \in Nat /\ CacheTTL \in Nat
  BY ResolverAssumption DEF TypeOK
<1>b. ASSUME NEW h \in Handlers, Return(h), UNCHANGED <<clock, web, cache>> PROVE IInv'
  <2>1. pc'[h] = "idle"
    BY <1>b, <1>a DEF Return, TypeOK
  <2>2. LookupOK(h)'
    BY <2>1 DEF LookupOK
  <2> HIDE DEF IInv
  <2> QED BY <1>b, <2>2, NoLocalsType, OneLookup DEF Return
<1>c. ASSUME UNCHANGED vars PROVE IInv'
  <2>1. TypeOK'
    BY <1>c DEF vars, web, TypeOK
  <2>2. ASSUME NEW h \in Handlers PROVE LookupOK(h)'
    <3>1. LookupOK(h)
      OBVIOUS
    <3> QED BY <1>c, <3>1 DEF vars, web, LookupOK, NamedSince, CurrentKey
  <2>3. ASSUME NEW d \in DOMAIN cache' PROVE EntryOK(d)'
    <3>1. EntryOK(d)
      BY <1>c DEF vars
    <3> QED BY <1>c, <3>1 DEF vars, web, EntryOK, NamedSince, CurrentKey
  <2> QED BY <2>1, <2>2, <2>3
<1>1. ASSUME NEW h \in Handlers, NEW d \in JwkDids, LookupJwk(h, d) PROVE IInv'
  <2> DEFINE k == toPublicKey(d.jwk)
             l == Found(d, k)
  <2>1. CASE k = NoKey
    BY <1>1, <1>b, <2>1, ResolverAssumption DEF LookupJwk
  <2>2. CASE k # NoKey
    <3>1. k \in Ed25519Keys /\ d \in Dids
      BY <2>2, KeyType DEF Dids
    <3>2. l \in Locals /\ l.did = d /\ l.received = clock /\ l.key = k
      BY <3>1, <1>a, FoundType
    <3>3. /\ pc' = [pc EXCEPT ![h] = "store"] /\ local' = [local EXCEPT ![h] = l]
          /\ UNCHANGED <<clock, web, cache>>
      BY <1>1, <2>2 DEF LookupJwk
    <3>4. NamedSince(d, k, clock - WebTimeout)'
      BY DEF NamedSince, CurrentKey
    <3> HIDE DEF k, l
    <3>5. pc'[h] = "store" /\ local'[h] = l
      BY <3>3, <1>a DEF TypeOK
    <3>6. LookupOK(h)'
      BY <3>1, <3>2, <3>3, <3>4, <3>5, <1>a DEF LookupOK, NamedSince, CurrentKey, Resolvable
    <3> HIDE DEF IInv
    <3> QED BY <3>2, <3>3, <3>6, OneLookup
  <2> QED BY <2>1, <2>2
<1>2. ASSUME NEW h \in Handlers, NEW d \in WebDids, LookupWeb(h, d) PROVE IInv'
  <2> DEFINE l == [NoLocals EXCEPT !.did = d, !.started = clock]
  <2>1. CASE didToURL(d) = NoUrl
    BY <1>2, <1>b, <2>1 DEF LookupWeb
  <2>2. CASE didToURL(d) # NoUrl
    <3>1. l \in Locals /\ l.did = d /\ l.started = clock
      BY <1>a, FetchType DEF Dids
    <3>2. /\ pc' = [pc EXCEPT ![h] = "fetch"] /\ local' = [local EXCEPT ![h] = l]
          /\ UNCHANGED <<clock, web, cache>>
      BY <1>2, <2>2 DEF LookupWeb
    <3> HIDE DEF l
    <3>3. pc'[h] = "fetch" /\ local'[h] = l
      BY <3>2, <1>a DEF TypeOK
    <3>4. LookupOK(h)'
      BY <2>2, <3>1, <3>2, <3>3, <1>a DEF LookupOK
    <3> HIDE DEF IInv
    <3> QED BY <3>1, <3>2, <3>4, OneLookup
  <2> QED BY <2>1, <2>2
<1>3. ASSUME NEW h \in Handlers, Serve(h) PROVE IInv'
  <2> DEFINE d == local[h].did
             answer == doc[didToURL(d)]
             l == [local[h] EXCEPT !.document = answer]
  <2>1. d \in WebDids /\ didToURL(d) # NoUrl /\ local[h].started <= clock
    BY <1>3 DEF Serve, LookupOK
  <2>2. answer \in Documents
    BY <2>1, <1>a DEF TypeOK, Urls
  <2>3. local[h] \in Locals
    BY <1>a DEF TypeOK
  <2>4. l \in Locals /\ l.did = d /\ l.started = local[h].started /\ l.document = answer
    BY <2>2, <2>3 DEF Locals
  <2>5. /\ pc' = [pc EXCEPT ![h] = "read"] /\ local' = [local EXCEPT ![h] = l]
        /\ UNCHANGED <<clock, web, cache>>
    BY <1>3 DEF Serve
  <2>6. d \notin JwkDids
    BY <2>1, MethodsApart
  <2>7. pc'[h] = "read" /\ local'[h] = l
    BY <2>5, <1>a DEF TypeOK
  <2>8. doc' = doc
    BY <2>5 DEF web
  <2> HIDE DEF l
  <2>9. extractPublicKeyFromDocument(doc'[didToURL(l.did)]) = extractPublicKeyFromDocument(l.document)
    BY <2>4, <2>8
  <2>10. LookupOK(h)'
    BY <2>1, <2>4, <2>5, <2>6, <2>7, <2>9 DEF LookupOK, NamedSince, CurrentKey
  <2> HIDE DEF IInv
  <2> QED BY <2>4, <2>5, <2>10, OneLookup
<1>4. ASSUME NEW h \in Handlers, Receive(h) PROVE IInv'
  <2> DEFINE d == local[h].did
             k == extractPublicKeyFromDocument(local[h].document)
             l == Found(d, k)
  <2>1. CASE k = NoKey
    BY <1>4, <1>b, <2>1, ResolverAssumption DEF Receive
  <2>2. CASE k # NoKey
    <3>0. local[h] \in Locals
      BY <1>a DEF TypeOK
    <3>1. k \in Ed25519Keys /\ d \in Dids
      BY <3>0, <2>2, DocumentKeyType DEF Locals
    <3>2. l \in Locals /\ l.did = d /\ l.received = clock /\ l.key = k
      BY <3>1, <1>a, FoundType
    <3>3. /\ pc' = [pc EXCEPT ![h] = "store"] /\ local' = [local EXCEPT ![h] = l]
          /\ UNCHANGED <<clock, web, cache>>
      BY <1>4, <2>2 DEF Receive
    <3>4. /\ d \in Resolvable
          /\ NamedSince(d, k, local[h].started)
      BY <1>4, <2>2 DEF Receive, LookupOK, Resolvable
    <3>5. local[h].started \in Int /\ clock - WebTimeout <= local[h].started
      BY <1>4, <1>a, <3>0 DEF Receive, Locals
    <3>6. NamedSince(d, k, clock - WebTimeout)
      BY <3>4, <3>5, <1>a, NamedEarlier
    <3> HIDE DEF k, l, d
    <3>7. pc'[h] = "store" /\ local'[h] = l
      BY <3>3, <1>a DEF TypeOK
    <3>8. LookupOK(h)'
      BY <3>1, <3>2, <3>3, <3>4, <3>6, <3>7, <1>a DEF LookupOK, NamedSince, CurrentKey, web
    <3> HIDE DEF IInv
    <3> QED BY <3>2, <3>3, <3>8, OneLookup
  <2> QED BY <2>1, <2>2
<1>5. ASSUME NEW h \in Handlers, Fail(h) \/ TimesOut(h) PROVE IInv'
  BY <1>5, <1>b DEF Fail, TimesOut
<1>6. ASSUME NEW h \in Handlers, Store(h) PROVE IInv'
  <2> DEFINE d == local[h].did
             e == [key |-> local[h].key, expires |-> clock + CacheTTL,
                   lag |-> clock - local[h].received]
  <2>0. local[h] \in Locals
    BY <1>a DEF TypeOK
  <2>1. /\ d \in Resolvable /\ local[h].key \in Ed25519Keys
        /\ local[h].received \in Nat /\ local[h].received <= clock
        /\ NamedSince(d, local[h].key, local[h].received - WebTimeout)
    BY <1>6, <2>0 DEF Store, LookupOK, Locals
  <2>2. /\ pc' = [pc EXCEPT ![h] = "idle"] /\ local' = [local EXCEPT ![h] = NoLocals]
        /\ clock' = clock /\ doc' = doc /\ past' = past
        /\ cache' = IF CacheTTL = 0 THEN cache ELSE Put(d, e)
    BY <1>6 DEF Store, Return, web
  <2>3. e \in Entries
    BY <2>1, <1>a DEF Entries
  <2>4. e.expires - (CacheTTL + WebTimeout + e.lag) = local[h].received - WebTimeout
    BY <2>1, <1>a
  <2>5. e.key = local[h].key /\ e.expires = clock + CacheTTL
    OBVIOUS
  <2>6. d \in Dids
    BY <2>1 DEF Resolvable, Dids
  <2> HIDE DEF e, d
  <2>7. ASSUME NEW x \in DOMAIN cache'
        PROVE  \/ x \in DOMAIN cache /\ cache'[x] = cache[x]
               \/ x = d /\ cache'[x] = e
    BY <2>2 DEF Put
  <2>8. TypeOK'
    <3>1. clock' \in 0..MaxTime /\ doc' \in [Urls -> Documents]
          /\ past' \subseteq [url : Urls, key : Ed25519Keys \cup {NoKey}, until : Nat]
      BY <1>a, <2>2 DEF TypeOK
    <3>2. pc' \in [Handlers -> {"idle", "fetch", "read", "store"}] /\ local' \in [Handlers -> Locals]
      BY <1>a, <2>2, NoLocalsType DEF TypeOK
    <3>3. DOMAIN cache' \subseteq Dids /\ \A x \in DOMAIN cache' : cache'[x] \in Entries
      BY <1>a, <2>3, <2>6, <2>7 DEF TypeOK
    <3> QED BY <3>1, <3>2, <3>3 DEF TypeOK
  <2>9. ASSUME NEW g \in Handlers PROVE LookupOK(g)'
    <3>1. CASE g = h
      <4>1. pc'[g] = "idle"
        BY <3>1, <2>2, <1>a DEF TypeOK
      <4> QED BY <4>1 DEF LookupOK
    <3>2. CASE g # h
      <4>1. pc'[g] = pc[g] /\ local'[g] = local[g]
        BY <3>2, <2>2, <1>a DEF TypeOK
      <4>2. LookupOK(g)
        OBVIOUS
      <4> QED BY <4>1, <4>2, <2>2 DEF LookupOK, NamedSince, CurrentKey
    <3> QED BY <3>1, <3>2
  <2>10. ASSUME NEW x \in DOMAIN cache' PROVE EntryOK(x)'
    <3>1. CASE x \in DOMAIN cache /\ cache'[x] = cache[x]
      <4>1. EntryOK(x)
        BY <3>1
      <4> QED BY <3>1, <4>1, <2>2 DEF EntryOK, NamedSince, CurrentKey
    <3>2. CASE x = d /\ cache'[x] = e
      <4>1. NamedSince(d, e.key, e.expires - (CacheTTL + WebTimeout + e.lag))
        BY <2>1, <2>4, <2>5 DEF d
      <4>2. d \in Resolvable /\ e.expires <= clock + CacheTTL
        BY <2>1, <2>5, <1>a DEF d
      <4> QED BY <3>2, <4>1, <4>2, <2>2 DEF EntryOK, NamedSince, CurrentKey
    <3> QED BY <2>7, <3>1, <3>2
  <2> QED BY <2>8, <2>9, <2>10
<1>7. ASSUME NEW u \in Urls, NEW document \in Documents, Publish(u, document) PROVE IInv'
  <2>1. UNCHANGED <<clock, cache, pc, local>>
    BY <1>7 DEF Publish
  <2>2. TypeOK'
    <3> DEFINE k == extractPublicKeyFromDocument(doc[u])
    <3>1. k \in Ed25519Keys \cup {NoKey}
      BY DocumentKeyType
    <3> HIDE DEF k
    <3>2. past' \subseteq [url : Urls, key : Ed25519Keys \cup {NoKey}, until : Nat]
      BY <1>7, <1>a, <3>1 DEF Publish, TypeOK, k
    <3>3. doc' \in [Urls -> Documents]
      BY <1>7, <1>a DEF Publish, TypeOK
    <3> QED BY <2>1, <3>2, <3>3, <1>a DEF TypeOK
  <2>3. ASSUME NEW h \in Handlers PROVE LookupOK(h)'
    <3>0. local[h] \in Locals /\ LookupOK(h)
      BY <1>a DEF TypeOK
    <3> DEFINE d == local[h].did
               k == extractPublicKeyFromDocument(local[h].document)
    <3>1. local[h].started \in Int /\ local[h].received \in Int
      BY <3>0 DEF Locals
    <3>2. CASE pc[h] = "read" /\ k # NoKey
      <4>1. d \in Resolvable /\ local[h].started <= clock /\ NamedSince(d, k, local[h].started)
        BY <3>0, <3>2 DEF LookupOK, Resolvable
      <4> HIDE DEF IInv
      <4>2. ASSUME NEW x, NEW y, NEW t, x = d, y = k, t = local[h].started
            PROVE NamedSince(x, y, t)'
        BY <4>1, <4>2, <3>1, <1>7, <1>a, PublishKeeps
      <4> QED BY <2>1, <3>0, <3>2, <4>2 DEF LookupOK, NamedSince, CurrentKey
    <3>3. CASE pc[h] = "store"
      <4>1. /\ d \in Resolvable /\ local[h].received - WebTimeout <= clock
            /\ NamedSince(d, local[h].key, local[h].received - WebTimeout)
        BY <3>0, <3>1, <3>3, <1>a DEF LookupOK
      <4> HIDE DEF IInv
      <4>2. ASSUME NEW x, NEW y, NEW t, x = d, y = local[h].key,
                   t = local[h].received - WebTimeout
            PROVE NamedSince(x, y, t)'
        BY <4>1, <4>2, <3>1, <1>7, <1>a, PublishKeeps
      <4> QED BY <2>1, <3>0, <3>3, <4>2 DEF LookupOK, NamedSince, CurrentKey
    <3>4. CASE ~(pc[h] = "read" /\ k # NoKey) /\ pc[h] # "store"
      BY <2>1, <3>0, <3>4 DEF LookupOK
    <3> QED BY <3>2, <3>3, <3>4
  <2>4. ASSUME NEW d \in DOMAIN cache' PROVE EntryOK(d)'
    <3> DEFINE e == cache[d]
    <3>1. d \in DOMAIN cache /\ EntryOK(d) /\ e \in Entries
      BY <2>1, <1>a DEF TypeOK
    <3>2. e.expires \in Nat /\ e.lag \in Nat
      BY <3>1 DEF Entries
    <3>3. /\ e.expires - (CacheTTL + WebTimeout + e.lag) \in Int
          /\ e.expires - (CacheTTL + WebTimeout + e.lag) <= clock
      BY <3>1, <3>2, <1>a DEF EntryOK
    <3> HIDE DEF IInv
    <3>4. ASSUME NEW y, NEW t, y = e.key, t = e.expires - (CacheTTL + WebTimeout + e.lag)
          PROVE NamedSince(d, y, t)'
      BY <3>1, <3>3, <3>4, <1>7, <1>a, PublishKeeps DEF EntryOK
    <3> QED BY <2>1, <3>1, <3>4 DEF EntryOK, NamedSince, CurrentKey
  <2> QED BY <2>2, <2>3, <2>4
<1>8. ASSUME Tick PROVE IInv'
  <2>1. /\ doc' = doc /\ past' = past /\ cache' = cache /\ pc' = pc /\ local' = local
        /\ clock < MaxTime /\ clock' = clock + 1
    BY <1>8 DEF Tick, web
  <2>2. TypeOK'
    BY <2>1, <1>a, ResolverAssumption DEF TypeOK
  <2>3. ASSUME NEW h \in Handlers PROVE LookupOK(h)'
    <3>1. LookupOK(h) /\ local[h] \in Locals
      BY <1>a DEF TypeOK
    <3>2. local[h].started \in Nat /\ local[h].received \in Nat
      BY <3>1 DEF Locals
    <3> QED BY <2>1, <3>1, <3>2, <1>a DEF LookupOK, NamedSince, CurrentKey
  <2>4. ASSUME NEW d \in DOMAIN cache' PROVE EntryOK(d)'
    <3>1. EntryOK(d) /\ cache[d] \in Entries
      BY <2>1, <1>a DEF TypeOK
    <3>2. cache[d].expires \in Nat
      BY <3>1 DEF Entries
    <3> QED BY <2>1, <3>1, <3>2, <1>a DEF EntryOK, NamedSince, CurrentKey
  <2> QED BY <2>2, <2>3, <2>4
<1>9. ASSUME NEW h \in Handlers, NEW d \in Dids, LookupAnswered(h, d) PROVE IInv'
  BY <1>9, <1>c DEF LookupAnswered
<1> HIDE DEF IInv
<1> QED BY <1>c, <1>1, <1>2, <1>3, <1>4, <1>5, <1>6, <1>7, <1>8, <1>9 DEF Next

-----------------------------------------------------------------------------
(* Theorems *)

\* Every behaviour satisfies the invariant.
THEOREM Invariance == Spec => []IInv
<1>1. Init => IInv
  BY InitInv
<1>2. IInv /\ [Next]_vars => IInv'
  BY NextInv
<1> QED BY <1>1, <1>2, PTL DEF Spec

\* The cache and the lookups have their types; above all only Ed25519 keys are
\* stored and returned (toPublicKey, did_resolver_jwk.go:87).
THEOREM TypeCorrect == Spec => []TypeOK
<1>1. IInv => TypeOK
  BY DEF IInv
<1> QED BY <1>1, Invariance, PTL

\* A key that a document stopped naming is used for at most one fetch, one life
\* of a cache entry and the time its lookup took to store it
\* (ResolvePublicKey, did_resolver.go:206), for any number of lookups that
\* overwrite each other's entries.
THEOREM KeyChange == Spec => []KeyChangeTakesEffect
<1>1. IInv => KeyChangeTakesEffect
  <2> SUFFICES ASSUME IInv PROVE KeyChangeTakesEffect
    OBVIOUS
  <2>1. TypeOK /\ clock \in Nat /\ WebTimeout \in Nat /\ CacheTTL \in Nat
    BY ResolverAssumption DEF IInv, TypeOK
  <2>2. ASSUME NEW d \in DOMAIN cache, Cached(d)
        PROVE  NamedSince(d, cache[d].key, clock - (CacheTTL + WebTimeout + cache[d].lag))
    <3> DEFINE age == CacheTTL + WebTimeout + cache[d].lag
    <3>1. cache[d].expires \in Nat /\ cache[d].lag \in Nat
      BY <2>1 DEF TypeOK, Entries
    <3>2. /\ clock - age \in Int /\ cache[d].expires - age \in Int
          /\ clock - age <= cache[d].expires - age
      BY <2>1, <2>2, <3>1 DEF Cached
    <3>3. NamedSince(d, cache[d].key, cache[d].expires - age)
      BY DEF IInv, EntryOK
    <3> HIDE DEF age
    <3>4. NamedSince(d, cache[d].key, clock - age)
      BY <2>1, <3>2, <3>3, NamedEarlier
    <3> QED BY <3>4 DEF age
  <2>3. ASSUME NEW h \in Handlers, pc[h] = "store"
        PROVE  NamedSince(local[h].did, local[h].key, local[h].received - WebTimeout)
    BY <2>3 DEF IInv, LookupOK
  <2> QED BY <2>2, <2>3 DEF KeyChangeTakesEffect
<1> QED BY <1>1, Invariance, PTL
=============================================================================
