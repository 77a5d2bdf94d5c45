------------------------------ MODULE DidResolver ------------------------------
(***************************************************************************)
(* Resolution of DIDs to public keys (internal/domain/did_resolver.go with *)
(* its two methods, did_resolver_jwk.go and did_resolver_web.go): lookups  *)
(* that run concurrently against a cache of keys, while the documents that *)
(* did:web names are replaced on their servers and fetches are slow, fail  *)
(* or time out.                                                            *)
(*                                                                         *)
(* A lookup is split where it takes or releases the cache's lock and where *)
(* it waits for the network.  Errors are not told apart.                   *)
(***************************************************************************)
EXTENDS Integers, Sequences

CONSTANTS
  JwkDids,     \* did:jwk DIDs: each the JWK it spells
  WebDids,     \* did:web DIDs: each its parts, and whether ':' is written %3A
  OtherDids,   \* DIDs of other methods, or malformed ones
  Ed25519Keys, \* public keys of Ed25519
  OtherKeys,   \* public keys of other types
  NoKey,       \* no key
  Ports,       \* the strings of digits only
  Documents,   \* the documents servers may publish: the JWKs of their methods
  CacheTTL,    \* CacheTTLSeconds: 0 disables the cache
  WebTimeout,  \* WebTimeoutSeconds: the services ask for 10; 0 would be no timeout
  Handlers,    \* lookups that can be in progress at once
  MaxTime,     \* bound: last clock value
  MaxChanges   \* bound: documents replaced

JWK == [kty : {"OKP", "EC"}, crv : {"Ed25519", "X25519"}, x : Ed25519Keys \cup OtherKeys]

Dids == JwkDids \cup WebDids \cup OtherDids

\* A document that cannot be fetched, is too large or does not decode is <<>>,
\* as one without verification methods.
ASSUME ResolverAssumption ==
  /\ JwkDids \subseteq [method : {"jwk"}, jwk : JWK]
  /\ WebDids \subseteq [method : {"web"}, parts : Seq(STRING) \ {<<>>}, escaped : BOOLEAN]
  /\ OtherDids \subseteq [method : {"other"}]
  /\ Dids # {}
  /\ Ed25519Keys \cap OtherKeys = {} /\ NoKey \notin Ed25519Keys
  /\ Documents \subseteq Seq(JWK) /\ Documents # {}
  /\ CacheTTL \in Nat /\ WebTimeout \in Nat \ {0}
  /\ MaxTime \in Nat /\ MaxChanges \in Nat

VARIABLES
  clock,   \* the service's clock, in seconds
  doc,     \* doc[u]: the document published at u
  past,    \* the keys that documents had, and until when (history)
  changes, \* documents replaced so far
  cache,   \* the cache: a function from DIDs to entries
  pc,      \* pc[h]: the next step of lookup h
  local    \* local[h]: its local variables

web == <<doc, past, changes>>
vars == <<clock, web, cache, pc, local>>

-----------------------------------------------------------------------------
(* What a DID and a document say *)

\* Fault: the curve is not looked at.
toPublicKey_AnyCurve(jwk) == IF jwk.kty = "OKP" THEN jwk.x ELSE NoKey

toPublicKey(jwk) ==
  IF jwk.kty = "OKP" /\ jwk.crv = "Ed25519" /\ jwk.x \in Ed25519Keys THEN jwk.x ELSE NoKey

NoUrl == [host |-> "", port |-> "", path |-> <<>>]

\* The identifier is unescaped before it is split at ':', so that an escaped
\* ':' separates like any other.  A first part of digits only is a port.
didToURL(d) ==
  LET rest == Tail(d.parts)
      hasPort == rest # <<>> /\ Head(rest) \in Ports
  IN  IF Head(d.parts) = "" THEN NoUrl
      ELSE [host |-> Head(d.parts),
            port |-> IF hasPort THEN Head(rest) ELSE "443",
            path |-> IF hasPort THEN Tail(rest) ELSE rest]

\* The first verification method with a key that is supported.
extractPublicKeyFromDocument(document) ==
  LET usable == {i \in DOMAIN document : toPublicKey(document[i]) # NoKey}
  IN  IF usable = {} THEN NoKey
      ELSE toPublicKey(document[CHOOSE i \in usable : \A j \in usable : i <= j])

Urls == {didToURL(d) : d \in WebDids} \ {NoUrl}

-----------------------------------------------------------------------------
(* State *)

Entries ==
  [key     : Ed25519Keys,
   expires : Nat,
   lag     : Nat]  \* history: time from receiving the document to storing the key

Locals ==
  [did      : Dids,
   started  : Nat,        \* when the fetch was started
   document : Documents \cup {<<>>},
   received : Nat,        \* history: when the document had arrived
   key      : Ed25519Keys \cup {NoKey}]

TypeOK ==
  /\ clock \in 0..MaxTime
  /\ doc \in [Urls -> Documents]
  /\ past \subseteq [url : Urls, key : Ed25519Keys \cup {NoKey}, until : Nat]
  /\ DOMAIN cache \subseteq Dids /\ \A d \in DOMAIN cache : cache[d] \in Entries
  /\ pc \in [Handlers -> {"idle", "fetch", "read", "store"}]
  /\ local \in [Handlers -> Locals]

NoLocals ==
  [did |-> CHOOSE d \in Dids : TRUE, started |-> 0, document |-> <<>>,
   received |-> 0, key |-> NoKey]

Init ==
  /\ clock = 0
  /\ doc \in [Urls -> Documents]
  /\ past = {} /\ changes = 0
  /\ cache = [d \in {} |-> 0]
  /\ pc = [h \in Handlers |-> "idle"]
  /\ local = [h \in Handlers |-> NoLocals]

-----------------------------------------------------------------------------
(* A lookup *)

\* ResolvePublicKey returns, with a key or an error.
Return(h) ==
  /\ pc' = [pc EXCEPT ![h] = "idle"]
  /\ local' = [local EXCEPT ![h] = NoLocals]

\* The resolver of d's method has returned key k.
Found(d, k) == [NoLocals EXCEPT !.did = d, !.received = clock, !.key = k]

\* Fault: an entry that was stored is used, however old.
Cached_Forever(d) == CacheTTL > 0 /\ d \in DOMAIN cache

\* The cache, if there is one, holds a key that has not expired.
Cached(d) == CacheTTL > 0 /\ d \in DOMAIN cache /\ clock < cache[d].expires

\* A lookup that the cache answers, or of a method nobody resolves, ends where
\* it began.
LookupAnswered(h, d) ==
  /\ pc[h] = "idle"
  /\ d \in OtherDids \/ Cached(d)
  /\ UNCHANGED vars

\* JWKResolver reads the key off the DID.
LookupJwk(h, d) ==
  LET k == toPublicKey(d.jwk)
  IN  /\ pc[h] = "idle" /\ d \in JwkDids /\ ~Cached(d)
      /\ \/ /\ k = NoKey
            /\ Return(h)
         \/ /\ k # NoKey
            /\ pc' = [pc EXCEPT ![h] = "store"]
            /\ local' = [local EXCEPT ![h] = Found(d, k)]
      /\ UNCHANGED <<clock, web, cache>>

\* WebResolver turns the DID into a URL and starts to fetch.
LookupWeb(h, d) ==
  /\ pc[h] = "idle" /\ d \in WebDids /\ ~Cached(d)
  /\ clock + WebTimeout <= MaxTime
  /\ \/ /\ didToURL(d) = NoUrl
        /\ Return(h)
     \/ /\ didToURL(d) # NoUrl
        /\ pc' = [pc EXCEPT ![h] = "fetch"]
        /\ local' = [local EXCEPT ![h] = [NoLocals EXCEPT !.did = d, !.started = clock]]
  /\ UNCHANGED <<clock, web, cache>>

\* The server answers the request with the document it has.
Serve(h) ==
  /\ pc[h] = "fetch"
  /\ pc' = [pc EXCEPT ![h] = "read"]
  /\ local' = [local EXCEPT ![h].document = doc[didToURL(local[h].did)]]
  /\ UNCHANGED <<clock, web, cache>>

\* The whole document has arrived in time, and is decoded.
Receive(h) ==
  LET k == extractPublicKeyFromDocument(local[h].document)
  IN  /\ pc[h] = "read" /\ clock <= local[h].started + WebTimeout
      /\ \/ /\ k = NoKey
            /\ Return(h)
         \/ /\ k # NoKey
            /\ pc' = [pc EXCEPT ![h] = "store"]
            /\ local' = [local EXCEPT ![h] = Found(local[h].did, k)]
      /\ UNCHANGED <<clock, web, cache>>

\* The connection fails.
Fail(h) ==
  /\ pc[h] \in {"fetch", "read"}
  /\ Return(h)
  /\ UNCHANGED <<clock, web, cache>>

\* Fault: the client has a timeout for connecting only.
TimesOut_Connecting(h) ==
  /\ pc[h] = "fetch" /\ clock >= local[h].started + WebTimeout
  /\ Return(h)
  /\ UNCHANGED <<clock, web, cache>>

\* The HTTP client gives up.
TimesOut(h) ==
  /\ pc[h] \in {"fetch", "read"} /\ clock >= local[h].started + WebTimeout
  /\ Return(h)
  /\ UNCHANGED <<clock, web, cache>>

Put(d, e) == [x \in DOMAIN cache \cup {d} |-> IF x = d THEN e ELSE cache[x]]

\* The key is stored, over whatever another lookup stored meanwhile, to expire
\* CacheTTL from now, and returned.
Store(h) ==
  LET d == local[h].did
      lag == clock - local[h].received
  IN  /\ pc[h] = "store"
      /\ cache' = IF CacheTTL = 0 THEN cache
                  ELSE Put(d, [key |-> local[h].key, expires |-> clock + CacheTTL,
                               lag |-> lag])
      /\ Return(h)
      /\ UNCHANGED <<clock, web>>

-----------------------------------------------------------------------------
(* The web, time *)

\* A document is replaced on its server.
Publish(u, document) ==
  /\ changes < MaxChanges
  /\ changes' = changes + 1
  /\ doc' = [doc EXCEPT ![u] = document]
  /\ past' = past \cup {[url |-> u, key |-> extractPublicKeyFromDocument(doc[u]),
                         until |-> clock]}
  /\ UNCHANGED <<clock, cache, pc, local>>

Tick ==
  /\ clock < MaxTime
  /\ clock' = clock + 1
  /\ UNCHANGED <<web, cache, pc, local>>

Next ==
  \/ \E h \in Handlers :
       \/ \E d \in Dids : LookupAnswered(h, d)
       \/ \E d \in JwkDids : LookupJwk(h, d)
       \/ \E d \in WebDids : LookupWeb(h, d)
       \/ Serve(h) \/ Receive(h) \/ Fail(h) \/ TimesOut(h) \/ Store(h)
  \/ \E u \in Urls, document \in Documents : Publish(u, document)
  \/ Tick

Spec == Init /\ [][Next]_vars

\* Time goes on, the HTTP client's timer fires and a lookup that has its key
\* finishes; no server has to answer.
Fairness ==
  /\ WF_vars(Tick)
  /\ \A h \in Handlers : WF_vars(TimesOut(h) \/ Store(h))

FairSpec == Spec /\ Fairness

-----------------------------------------------------------------------------
(* Properties *)

\* The key a DID names now.
CurrentKey(d) ==
  IF d \in JwkDids THEN toPublicKey(d.jwk)
  ELSE extractPublicKeyFromDocument(doc[didToURL(d)])

\* Key k was named by d at time t or later.
NamedSince(d, k, t) ==
  \/ CurrentKey(d) = k
  \/ /\ d \in WebDids
     /\ \E p \in past : p.url = didToURL(d) /\ p.key = k /\ p.until >= t

\* A key that a document stopped naming is returned, from the cache or by a
\* lookup about to store it, for no longer than one fetch and one life of a
\* cache entry (did_resolver.go:206) and what the lookup that stored it took to
\* store it, although a slow lookup can put the old key back over the new one.
KeyChangeTakesEffect ==
  /\ \A d \in DOMAIN cache : Cached(d) =>
       NamedSince(d, cache[d].key, clock - (CacheTTL + WebTimeout + cache[d].lag))
  /\ \A h \in Handlers : pc[h] = "store" =>
       NamedSince(local[h].did, local[h].key, local[h].received - WebTimeout)

\* Every lookup is answered (did_resolver.go:157), even if the server never is.
EveryLookupIsAnswered ==
  \A h \in Handlers : pc[h] # "idle" ~> pc[h] = "idle"
=============================================================================
