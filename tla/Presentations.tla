----------------------------- MODULE Presentations -----------------------------
(***************************************************************************)
(* POST /v1/oidc4vp/response (internal/httpserver/oidc4vp_handlers.go): a  *)
(* wallet answers a stored authorization request with presentations        *)
(* (internal/oidc4vp: store.go, validation.go, types.go).  Responses to    *)
(* the same request run concurrently; each reads the request, validates    *)
(* against its copy, and marks the request as used, in that order and      *)
(* without a lock over the three.  Requests are saved by an upstream       *)
(* component, which may save a state again; administrators revoke          *)
(* credentials (domain/revocation.go); the service may restart.            *)
(*                                                                         *)
(* All the presentations of one credential query are validated in one      *)
(* step; the queries are visited in any order, as Go visits a map.         *)
(***************************************************************************)
EXTENDS CredentialChain, Functions

CONSTANTS
  States,        \* values of the "state" parameter
  AuthRequests,  \* the authorization requests upstream saves
  Responses,     \* the vp_token values wallets send
  QueryIds,      \* credential query ids
  Nonces,
  NoNonce,       \* no nonce in the request or the presentation
  Tokens,        \* the tokens wallets hold
  Cred,          \* Cred[t]: the credential token t encodes
  Ids,           \* values of a credential's id and jti
  NoId,          \* a missing id or jti
  IdOf, JtiOf,   \* the id and the jti of a token
  TypesOf,       \* the type array of a token, as a set
  KeyOf,         \* the key a DID resolves to, NoKey if it does not resolve
  Trusted,       \* the issuers the trust registry holds
  Strict,        \* OIDC4VP_REVOCATION_STRICT
  DefaultTTL,    \* lifetime of a request saved without one (5 minutes)
  Handlers,      \* responses that can be in progress at once
  MaxTime,       \* bound: last clock value
  MaxSaves,      \* bound: requests saved
  MaxRevocations,\* bound: changes to the revocation list
  MaxRestarts    \* bound: restarts of the verifier

(***************************************************************************)
(* A request has a clientID, a nonce, an expiry (0: unset), its credential *)
(* queries by id, and its credential sets: [options, required].  A query   *)
(* has a format, whether it takes multiple presentations and whether it    *)
(* requires holder binding, the alternatives of type_values (sets of       *)
(* types) or vct_values, and claim queries [path, values], with values {}  *)
(* for any.  A response maps query ids to sequences of presentations.      *)
(***************************************************************************)
Presentation ==
  [jwt         : BOOLEAN,                 \* two dots: read as a JWT presentation
   holder      : Dids,                    \* its issuer
   signedBy    : Keys \cup {NoKey},
   exp         : Times, iat : Times,
   aud         : SUBSET Audiences,
   nonce       : Nonces \cup {NoNonce},
   credentials : Seq(Tokens),             \* its vp claim, <<>> if missing or empty
   token       : Tokens]                  \* the string, read as a credential

ASSUME PresentationsAssumption ==
  /\ \A r \in AuthRequests :
       /\ DOMAIN r = {"clientID", "nonce", "queries", "sets", "expiresAt"}
       /\ r.clientID \in Audiences /\ r.nonce \in Nonces \cup {NoNonce}
       /\ r.expiresAt \in Nat /\ DOMAIN r.queries \subseteq QueryIds
  /\ NoNonce \notin Nonces /\ NoId \notin Ids
  /\ Cred \in [Tokens -> Credential]
  /\ IdOf \in [Tokens -> Ids \cup {NoId}] /\ JtiOf \in [Tokens -> Ids \cup {NoId}]
  /\ KeyOf \in [Dids -> Keys \cup {NoKey}]
  /\ Trusted \subseteq Dids /\ Strict \in BOOLEAN
  /\ AuthRequests # {} /\ Responses # {} /\ States # {}
  /\ \A v \in Responses :
       DOMAIN v \subseteq QueryIds /\ \A id \in DOMAIN v : v[id] \in Seq(Presentation)
  /\ DefaultTTL \in Nat /\ MaxTime \in Nat /\ MaxSaves \in Nat
  /\ MaxRevocations \in Nat /\ MaxRestarts \in Nat

VARIABLES
  clock,    \* the service's clock, in seconds
  records,  \* the request store: a function from states to records
  revoked,  \* the revoked ids
  pc,       \* pc[h]: the next step of handler h
  post,     \* post[h]: the form it was sent
  local,    \* local[h]: its local variables
  answer,   \* answer[h]: what it answered
  verified, \* verified[s]: responses to s answered as verified (history)
  saves,    \* requests saved so far
  revocations, \* changes to the revocation list so far
  restarts  \* restarts so far

handler == <<pc, post, local, answer>>
history == <<verified, saves, revocations, restarts>>
vars == <<clock, records, revoked, handler, history>>

-----------------------------------------------------------------------------
(* Validation of a response, for a request, at a moment *)

\* The first error of a sequence of outcomes, Ok if there is none.
FirstError(outcomes) ==
  LET failed == {i \in DOMAIN outcomes : outcomes[i] # Ok}
  IN  IF failed = {} THEN Ok ELSE outcomes[FirstIndex(failed)]

\* AuthorizationRequest.Validate, as far as a saved request can fail it.
ValidRequest(r) ==
  /\ r.queries # <<>>
  /\ \A set \in r.sets : set.options # {} /\ {} \notin set.options

\* Query ids the response answers with at least one presentation.
Presented(v) == {id \in DOMAIN v : v[id] # <<>>}

\* Fault: one satisfied set is enough, as if the sets were alternatives.
verifyCredentialSetRequirements_Any(r, v) ==
  IF r.sets = {} THEN DOMAIN r.queries \subseteq Presented(v)
  ELSE \E set \in r.sets :
         ~set.required \/ \E option \in set.options : option \subseteq Presented(v)

verifyCredentialSetRequirements(r, v) ==
  IF r.sets = {} THEN DOMAIN r.queries \subseteq Presented(v)
  ELSE \A set \in r.sets :
         set.required =>
           \E option \in set.options : option # {} /\ option \subseteq Presented(v)

\* What is checked before a presentation is looked at.
StructureError(r, v) ==
  \/ ~ValidRequest(r)
  \/ \E id \in DOMAIN r.queries : r.queries[id].binding /\ r.nonce = NoNonce
  \/ ~(DOMAIN v \subseteq DOMAIN r.queries)
  \/ ~verifyCredentialSetRequirements(r, v)

\* What can fail to answer while a response is validated: the resolver asked for
\* a holder's key, and the trust registry or the resolver asked for an issuer's.
Outages == SUBSET {"holder", "issuer"}

\* A JWT presentation is signed by the holder it names, whose key resolves; one
\* that must be bound is made for this client and carries the request's nonce.
validateJWTPresentation(r, binding, p, down, now) ==
  IF ~p.jwt THEN ~binding
  ELSE /\ "holder" \notin down
       /\ KeyOf[p.holder] \in Ed25519Keys /\ p.signedBy = KeyOf[p.holder]
       /\ p.exp = 0 \/ now < p.exp
       /\ p.iat <= now + ClockSkew
       /\ binding => r.clientID \in p.aud /\ p.nonce = r.nonce
       /\ p.credentials # <<>>

validatePresentation(r, q, p, down, now) ==
  IF q.format = "jwt_vc_json" THEN validateJWTPresentation(r, q.binding, p, down, now)
  ELSE ~q.binding

\* The credentials a valid presentation carries: those of a JWT presentation,
\* otherwise the presentation itself.
extractCredentials(q, p) ==
  IF q.format = "jwt_vc_json" /\ p.jwt THEN p.credentials ELSE <<p.token>>

credentialIDForRevocation(t) == IF IdOf[t] # NoId THEN IdOf[t] ELSE JtiOf[t]

\* Fault: the jti is never looked up.
IsRevokedStrict_IdOnly(t, R) == Strict /\ IdOf[t] \in R

\* A credential that cannot be looked up is refused like a revoked one.
IsRevokedStrict(t, R) ==
  Strict /\ credentialIDForRevocation(t) \in R \cup {NoId}

validateCredentialMetadata(q, t) ==
  IF q.format = "jwt_vc_json"
    THEN \E option \in q.values : option # {} /\ option \subseteq TypesOf[t]
    ELSE \E vct \in q.values : <<"vct", vct>> \in Cred[t].claims

validateClaimQueries(q, t) ==
  \A c \in q.claims : \E x \in Cred[t].claims :
    x[1] = c.path /\ (c.values = {} \/ x[2] \in c.values)

\* Fault: the verification error itself is written as the code.
CredentialOutcome_RawCode(q, t, R, down, now) ==
  LET Resolve == [issuer \in Dids |->
                    IF issuer \in Trusted /\ "issuer" \notin down THEN KeyOf[issuer] ELSE NoKey]
  IN  VerifyCredentialChain(<<Cred[t]>>, Resolve, NoAudience, 0, now)

CredentialOutcome(q, t, R, down, now) ==
  LET Resolve == [issuer \in Dids |->
                    IF issuer \in Trusted /\ "issuer" \notin down THEN KeyOf[issuer] ELSE NoKey]
      error == VerifyCredentialChain(<<Cred[t]>>, Resolve, NoAudience, 0, now)
  IN  IF error = "untrusted_issuer" THEN "access_denied"
      ELSE IF error # Ok \/ IsRevokedStrict(t, R)
              \/ ~validateCredentialMetadata(q, t) \/ ~validateClaimQueries(q, t)
        THEN "invalid_request"
      ELSE Ok

PresentationOutcome(r, q, p, R, down, now) ==
  LET creds == extractCredentials(q, p)
  IN  IF ~validatePresentation(r, q, p, down, now) THEN "invalid_request"
      ELSE FirstError([i \in DOMAIN creds |->
                         CredentialOutcome(q, creds[i], R, down, now)])

\* One iteration of the loop of ValidateResponse over the vp_token.
QueryOutcome(r, v, id, R, down, now) ==
  IF ~r.queries[id].multiple /\ Len(v[id]) > 1 THEN "invalid_request"
  ELSE FirstError([i \in DOMAIN v[id] |->
                     PresentationOutcome(r, r.queries[id], v[id][i], R, down, now)])

-----------------------------------------------------------------------------
(* State *)

Record == [request : AuthRequests, expiresAt : Nat, used : BOOLEAN]

Posts == [state : States, response : Responses]

Locals ==
  [request : AuthRequests,     \* the copy Get returned
   pending : SUBSET QueryIds,  \* the query ids of the response still to visit
   started : Nat,              \* history: when the response arrived
   revoked : SUBSET Ids]       \* history: ids revoked ever since it arrived

Answers == {"none", "verified", "invalid_request", "access_denied"}

TypeOK ==
  /\ clock \in 0..MaxTime
  /\ DOMAIN records \subseteq States
  /\ \A s \in DOMAIN records : records[s] \in Record
  /\ revoked \subseteq Ids
  /\ pc \in [Handlers -> {"idle", "validate", "mark"}]
  /\ post \in [Handlers -> Posts]
  /\ local \in [Handlers -> Locals]
  /\ answer \in [Handlers -> Answers]
  /\ verified \in [States -> Nat]
  /\ saves \in Nat /\ revocations \in Nat /\ restarts \in Nat

\* A handler that serves no response keeps none.
NoPost == CHOOSE p \in Posts : TRUE

NoLocals ==
  [request |-> CHOOSE r \in AuthRequests : TRUE, pending |-> {}, started |-> 0,
   revoked |-> {}]

Init ==
  /\ clock = 0
  /\ records = [s \in {} |-> 0]
  /\ revoked = {}
  /\ pc = [h \in Handlers |-> "idle"]
  /\ post = [h \in Handlers |-> NoPost]
  /\ local = [h \in Handlers |-> NoLocals]
  /\ answer = [h \in Handlers |-> "none"]
  /\ verified = [s \in States |-> 0]
  /\ saves = 0 /\ revocations = 0 /\ restarts = 0

Put(s, record) == [x \in DOMAIN records \cup {s} |-> IF x = s THEN record ELSE records[x]]

-----------------------------------------------------------------------------
(* The handler *)

Respond(h, code) ==
  /\ pc' = [pc EXCEPT ![h] = "idle"]
  /\ answer' = [answer EXCEPT ![h] = code]

\* A refusal leaves nothing else behind.
Refuse(h, code) ==
  /\ Respond(h, code)
  /\ post' = [post EXCEPT ![h] = NoPost]
  /\ local' = [local EXCEPT ![h] = NoLocals]

\* RequestStore.Get: the record exists and has not expired; that it was used
\* already is not looked at.
Get(s) == s \in DOMAIN records /\ clock <= records[s].expiresAt

\* A form arrives; the request is read, and what can be checked without looking
\* at a presentation is checked.
Begin(h, p) ==
  /\ pc[h] = "idle"
  /\ \/ /\ ~(Get(p.state) /\ ~StructureError(records[p.state].request, p.response))
        /\ Refuse(h, "invalid_request")
     \/ /\ Get(p.state) /\ ~StructureError(records[p.state].request, p.response)
        /\ pc' = [pc EXCEPT ![h] = "validate"]
        /\ post' = [post EXCEPT ![h] = p]
        /\ local' = [local EXCEPT ![h] =
             [request |-> records[p.state].request, pending |-> DOMAIN p.response,
              started |-> clock, revoked |-> revoked]]
        /\ answer' = [answer EXCEPT ![h] = "none"]
  /\ UNCHANGED <<clock, records, revoked, history>>

\* The presentations for one query id are validated.
ValidateQuery(h, id) ==
  /\ pc[h] = "validate" /\ id \in local[h].pending
  /\ \E outcome \in {QueryOutcome(local[h].request, post[h].response, id, revoked,
                                   down, clock) : down \in Outages} :
       \/ /\ outcome # Ok
          /\ Refuse(h, outcome)
       \/ /\ outcome = Ok
          /\ local' = [local EXCEPT ![h].pending = @ \ {id}]
          /\ UNCHANGED <<pc, post, answer>>
  /\ UNCHANGED <<clock, records, revoked, history>>

\* ValidateResponse returns.
Validated(h) ==
  /\ pc[h] = "validate" /\ local[h].pending = {}
  /\ pc' = [pc EXCEPT ![h] = "mark"]
  /\ UNCHANGED <<clock, records, revoked, post, local, answer, history>>

\* Fault: the mutex is dropped between the check and the update, so that the
\* check reads as if no other response were there.
MarkUsed_NoCheck(h) ==
  LET s == post[h].state
  IN  /\ pc[h] = "mark"
      /\ \/ /\ s \in DOMAIN records
            /\ records' = Put(s, [records[s] EXCEPT !.used = TRUE])
            /\ verified' = [verified EXCEPT ![s] = @ + 1]
            /\ Respond(h, "verified")
            /\ UNCHANGED <<post, local>>
         \/ /\ s \notin DOMAIN records
            /\ Refuse(h, "invalid_request")
            /\ UNCHANGED <<records, verified>>
      /\ UNCHANGED <<clock, revoked, saves, revocations, restarts>>

\* RequestStore.MarkUsed, under the store's mutex: the response is verified
\* unless the record is gone or was used.  Its expiry is not looked at again.
MarkUsed(h) ==
  LET s == post[h].state
      usable == s \in DOMAIN records /\ ~records[s].used
  IN  /\ pc[h] = "mark"
      /\ \/ /\ usable
            /\ records' = Put(s, [records[s] EXCEPT !.used = TRUE])
            /\ verified' = [verified EXCEPT ![s] = @ + 1]
            /\ Respond(h, "verified")
            /\ UNCHANGED <<post, local>>
         \/ /\ ~usable
            /\ Refuse(h, "invalid_request")
            /\ UNCHANGED <<records, verified>>
      /\ UNCHANGED <<clock, revoked, saves, revocations, restarts>>

Step(h) == (\E id \in QueryIds : ValidateQuery(h, id)) \/ Validated(h) \/ MarkUsed(h)

-----------------------------------------------------------------------------
(* Upstream, administrators, time, restarts *)

\* RequestStore.Save replaces whatever was stored for the state.
Save(s, r) ==
  /\ saves < MaxSaves
  /\ saves' = saves + 1
  /\ records' = Put(s, [request   |-> r,
                        expiresAt |-> IF r.expiresAt = 0 THEN clock + DefaultTTL ELSE r.expiresAt,
                        used      |-> FALSE])
  /\ UNCHANGED <<clock, revoked, handler, verified, revocations, restarts>>

AddRevocation(id) ==
  /\ revocations < MaxRevocations
  /\ revocations' = revocations + 1
  /\ revoked' = revoked \cup {id}
  /\ UNCHANGED <<clock, records, handler, verified, saves, restarts>>

RemoveRevocation(id) ==
  /\ revocations < MaxRevocations
  /\ revocations' = revocations + 1
  /\ revoked' = revoked \ {id}
  /\ local' = [h \in Handlers |-> [local[h] EXCEPT !.revoked = @ \ {id}]]
  /\ UNCHANGED <<clock, records, pc, post, answer, verified, saves, restarts>>

Tick ==
  /\ clock < MaxTime
  /\ clock' = clock + 1
  /\ UNCHANGED <<records, revoked, handler, history>>

\* Requests and revocations are kept in memory; responses in progress are cut.
Restart ==
  /\ restarts < MaxRestarts
  /\ restarts' = restarts + 1
  /\ records' = [s \in {} |-> 0]
  /\ revoked' = {}
  /\ pc' = [h \in Handlers |-> "idle"]
  /\ post' = [h \in Handlers |-> NoPost]
  /\ local' = [h \in Handlers |-> NoLocals]
  /\ answer' = [h \in Handlers |-> "none"]
  /\ UNCHANGED <<clock, verified, saves, revocations>>

Next ==
  \/ \E h \in Handlers : (\E p \in Posts : Begin(h, p)) \/ Step(h)
  \/ \E s \in States, r \in AuthRequests : Save(s, r)
  \/ \E id \in Ids : AddRevocation(id) \/ RemoveRevocation(id)
  \/ Tick
  \/ Restart

Spec == Init /\ [][Next]_vars

-----------------------------------------------------------------------------
(* Properties *)

\* store.go:61 "MarkUsed marks a request as used to prevent replay": the store
\* and the handlers together behave like a store of one-shot requests, however
\* concurrent responses, refusals, saves of the same state and restarts
\* interleave: a response is verified exactly when it consumes an open request.
OneShot == INSTANCE OneShotRequests WITH
  phase <- [s \in States |-> IF s \notin DOMAIN records THEN "none"
                             ELSE IF records[s].used THEN "consumed" ELSE "open"]

ImplementsOneShot == OneShot!Spec

\* The tokens of a response that its request's queries made credentials of.
CredentialsOf(h) ==
  LET v == post[h].response  r == local[h].request
  IN  UNION {UNION {Range(extractCredentials(r.queries[id], v[id][i])) : i \in DOMAIN v[id]} :
               id \in DOMAIN v}

\* With strict revocation, a credential whose id, or whose jti if it has no id,
\* was revoked all the while its response was handled is never accepted, wherever
\* in the response it is and in whichever order the queries are visited
\* (validation.go:83-110).  A credential with an id is not looked up by its jti
\* (383-391).
RevokedIsRefused ==
  \A h \in Handlers : answer[h] = "verified" /\ Strict =>
    \A t \in CredentialsOf(h) : credentialIDForRevocation(t) \notin local[h].revoked \cup {NoId}

\* docs/OIDC4VP.md:44 "Reject revoked credentials (by VC `id`/`jti`)": one whose
\* id or jti was revoked all the while is never accepted.
RevokedByEitherName ==
  \A h \in Handlers : answer[h] = "verified" /\ Strict =>
    \A t \in CredentialsOf(h) : {IdOf[t], JtiOf[t]} \cap local[h].revoked = {}

\* A verified response arrived in the lifetime its request states, although the
\* request may have expired by the time it is marked, and covers what the request
\* asked for: every required credential set, or every query, with credentials of a
\* kind its query names and with the claims it wants, unexpired when the response
\* arrived; where a query asks for it, in presentations their holder signed for
\* this client and this nonce.
VerifiedIsComplete ==
  \A h \in Handlers : answer[h] = "verified" =>
    LET r == local[h].request  v == post[h].response
        bound(p) == /\ p.signedBy = KeyOf[p.holder] /\ r.clientID \in p.aud
                    /\ p.nonce = r.nonce /\ r.nonce # NoNonce
        fits(q, t) == /\ validateCredentialMetadata(q, t) /\ validateClaimQueries(q, t)
                      /\ Cred[t].issuer \in Trusted
                      /\ ~Expired(Cred[t], local[h].started)
        good(id) == v[id] # <<>> /\ \A i \in DOMAIN v[id] :
                      /\ r.queries[id].binding => bound(v[id][i])
                      /\ \A t \in Range(extractCredentials(r.queries[id], v[id][i])) :
                           fits(r.queries[id], t)
        met == {id \in DOMAIN v : good(id)}
    IN  /\ r.expiresAt = 0 \/ local[h].started <= r.expiresAt
        /\ IF r.sets = {} THEN met = DOMAIN r.queries
           ELSE \A set \in r.sets : set.required => \E o \in set.options : o \subseteq met
=============================================================================
