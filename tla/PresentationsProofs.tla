-------------------------- MODULE PresentationsProofs --------------------------
(***************************************************************************)
(* Safety of module Presentations, for every set of requests, responses,   *)
(* credentials and handlers, and that it implements OneShotRequests.       *)
(***************************************************************************)
EXTENDS Presentations, CredentialChainProofs

Codes == {"invalid_request", "access_denied"}

-----------------------------------------------------------------------------
(* Outcomes *)

\* FirstError finds no error only if there is none, and otherwise one of them.
LEMMA FirstErrorFacts ==
  ASSUME NEW n \in Nat, NEW f, DOMAIN f = 1..n
  PROVE  /\ FirstError(f) = Ok => \A i \in 1..n : f[i] = Ok
         /\ (\A i \in 1..n : f[i] \in Codes \cup {Ok}) => FirstError(f) \in Codes \cup {Ok}
<1> DEFINE failed == {i \in 1..n : f[i] # Ok}
<1>1. failed \in SUBSET (1..n) /\ FirstError(f) = IF failed = {} THEN Ok ELSE f[FirstIndex(failed)]
  BY DEF FirstError
<1>2. failed # {} => FirstIndex(failed) \in failed
  BY <1>1, FirstIndexExists
<1> QED BY <1>1, <1>2

\* The codes a response is refused with.
LEMMA CredentialOutcomeType ==
  ASSUME NEW q, NEW t, NEW R, NEW down, NEW now
  PROVE  CredentialOutcome(q, t, R, down, now) \in Codes \cup {Ok}
BY DEF CredentialOutcome, Codes

\* A presentation's credentials form a sequence of tokens.
LEMMA ExtractedTokens ==
  ASSUME NEW q, NEW p \in Presentation
  PROVE  extractCredentials(q, p) \in Seq(Tokens)
<1>1. p.credentials \in Seq(Tokens) /\ p.token \in Tokens
  BY DEF Presentation
<1>2. <<p.token>> \in Seq(Tokens)
  BY <1>1
<1> QED BY <1>1, <1>2 DEF extractCredentials

\* A presentation passes only if none of its credentials is refused as revoked.
LEMMA PresentationOutcomeFacts ==
  ASSUME NEW r, NEW q, NEW p \in Presentation, NEW R, NEW down, NEW now
  PROVE  /\ PresentationOutcome(r, q, p, R, down, now) \in Codes \cup {Ok}
         /\ PresentationOutcome(r, q, p, R, down, now) = Ok =>
              \A t \in Range(extractCredentials(q, p)) : ~IsRevokedStrict(t, R)
<1> DEFINE creds == extractCredentials(q, p)
           f == [i \in DOMAIN creds |-> CredentialOutcome(q, creds[i], R, down, now)]
<1>1. creds \in Seq(Tokens)
  BY ExtractedTokens
<1>2. PICK n \in Nat : DOMAIN creds = 1..n
  BY <1>1
<1>3. /\ DOMAIN f = 1..n
      /\ \A i \in 1..n : f[i] = CredentialOutcome(q, creds[i], R, down, now)
  BY <1>2
<1>4. \A i \in 1..n : f[i] \in Codes \cup {Ok}
  BY <1>3, CredentialOutcomeType
<1>5. FirstError(f) \in Codes \cup {Ok} /\ (FirstError(f) = Ok => \A i \in 1..n : f[i] = Ok)
  <2> HIDE DEF f
  <2> QED BY <1>3, <1>4, FirstErrorFacts
<1>6. \A i \in 1..n : f[i] = Ok => ~IsRevokedStrict(creds[i], R)
  BY <1>3 DEF CredentialOutcome, Ok
<1>7. PresentationOutcome(r, q, p, R, down, now) \in {"invalid_request", FirstError(f)}
      /\ (PresentationOutcome(r, q, p, R, down, now) = Ok => FirstError(f) = Ok)
  BY DEF PresentationOutcome, Ok
<1> HIDE DEF f, creds
<1>8. \A t \in Range(creds) : \E i \in 1..n : t = creds[i]
  BY <1>2 DEF Range
<1> QED BY <1>5, <1>6, <1>7, <1>8 DEF Codes, creds

\* The tokens v presents for query id of r.
TokensFor(r, v, id) ==
  UNION {Range(extractCredentials(r.queries[id], v[id][i])) : i \in DOMAIN v[id]}

\* An iteration over the vp_token passes only if no credential is refused as
\* revoked.
LEMMA QueryOutcomeFacts ==
  ASSUME NEW r, NEW v \in Responses, NEW id \in DOMAIN v, NEW R, NEW down, NEW now
  PROVE  /\ QueryOutcome(r, v, id, R, down, now) \in Codes \cup {Ok}
         /\ QueryOutcome(r, v, id, R, down, now) = Ok =>
              \A t \in TokensFor(r, v, id) : ~IsRevokedStrict(t, R)
<1> DEFINE q == r.queries[id]
           f == [i \in DOMAIN v[id] |-> PresentationOutcome(r, q, v[id][i], R, down, now)]
<1>1. v[id] \in Seq(Presentation)
  BY PresentationsAssumption
<1>2. PICK n \in Nat : DOMAIN v[id] = 1..n
  BY <1>1
<1>3. /\ DOMAIN f = 1..n
      /\ \A i \in 1..n : f[i] = PresentationOutcome(r, q, v[id][i], R, down, now)
  BY <1>2
<1>4. \A i \in 1..n : v[id][i] \in Presentation
  BY <1>1, <1>2
<1>5. \A i \in 1..n :
        /\ f[i] \in Codes \cup {Ok}
        /\ f[i] = Ok => \A t \in Range(extractCredentials(q, v[id][i])) : ~IsRevokedStrict(t, R)
  <2> HIDE DEF q, f
  <2> QED BY <1>3, <1>4, PresentationOutcomeFacts
<1>6. FirstError(f) \in Codes \cup {Ok} /\ (FirstError(f) = Ok => \A i \in 1..n : f[i] = Ok)
  <2> HIDE DEF f
  <2> QED BY <1>3, <1>5, FirstErrorFacts
<1>7. QueryOutcome(r, v, id, R, down, now) \in {"invalid_request", FirstError(f)}
      /\ (QueryOutcome(r, v, id, R, down, now) = Ok => FirstError(f) = Ok)
  BY DEF QueryOutcome, Ok
<1>8. \A t \in TokensFor(r, v, id) : \E i \in 1..n : t \in Range(extractCredentials(q, v[id][i]))
  BY <1>2 DEF TokensFor
<1> HIDE DEF f, q
<1> QED BY <1>5, <1>6, <1>7, <1>8 DEF Codes

-----------------------------------------------------------------------------
(* The inductive invariant *)

\* What the queries a handler has visited were found to satisfy.
Checked(h) ==
  (pc[h] # "idle" \/ answer[h] = "verified") /\ Strict =>
    \A id \in DOMAIN post[h].response \ local[h].pending :
      \A t \in TokensFor(local[h].request, post[h].response, id) :
        credentialIDForRevocation(t) \notin local[h].revoked \cup {NoId}

\* All queries are visited before the request is marked as used.
Visited(h) ==
  /\ pc[h] # "idle" =>
       answer[h] = "none" /\ local[h].pending \subseteq DOMAIN post[h].response
  /\ pc[h] = "mark" \/ answer[h] = "verified" => local[h].pending = {}

HandlerInv(h) == Checked(h) /\ Visited(h) /\ local[h].revoked \subseteq revoked

Inv == TypeOK /\ \A h \in Handlers : HandlerInv(h)

\* The values handlers and responses start from.
LEMMA InitialValues ==
  /\ NoPost \in Posts /\ NoLocals \in Locals
  /\ NoLocals.revoked = {} /\ NoLocals.pending = {} /\ NoLocals.started = 0
<1>1. (CHOOSE r \in AuthRequests : TRUE) \in AuthRequests
  BY PresentationsAssumption
<1>2. \E p \in Posts : TRUE
  <2>1. PICK s \in States, v \in Responses : TRUE
    BY PresentationsAssumption
  <2>2. [state |-> s, response |-> v] \in Posts
    BY DEF Posts
  <2> QED BY <2>2
<1>3. NoLocals \in Locals
  BY <1>1 DEF NoLocals, Locals
<1>4. NoLocals.revoked = {} /\ NoLocals.pending = {} /\ NoLocals.started = 0
  BY DEF NoLocals
<1> QED BY <1>2, <1>3, <1>4 DEF NoPost

\* Storing a record for a state keeps the store a store.
LEMMA PutType ==
  ASSUME TypeOK, NEW s \in States, NEW r \in AuthRequests, NEW e \in Nat, NEW u \in BOOLEAN,
         records' = Put(s, [request |-> r, expiresAt |-> e, used |-> u])
  PROVE  /\ DOMAIN records' \subseteq States
         /\ \A x \in DOMAIN records' : records'[x] \in Record
BY DEF TypeOK, Put, Record

\* A handler that a step does not touch keeps its part of the invariant, if no
\* id is taken off the revocation list.
LEMMA OtherHandler ==
  ASSUME NEW g \in Handlers, HandlerInv(g), revoked \subseteq revoked',
         pc'[g] = pc[g], post'[g] = post[g], local'[g] = local[g], answer'[g] = answer[g]
  PROVE  HandlerInv(g)'
BY DEF HandlerInv, Checked, Visited

\* A refused response has nothing left to satisfy.
LEMMA Refused ==
  ASSUME TypeOK, NEW h \in Handlers, NEW code \in Codes, Refuse(h, code)
  PROVE  /\ HandlerInv(h)' /\ pc' \in [Handlers -> {"idle", "validate", "mark"}]
         /\ answer' \in [Handlers -> Answers]
         /\ post' \in [Handlers -> Posts] /\ local' \in [Handlers -> Locals]
         /\ \A g \in Handlers : g # h =>
              pc'[g] = pc[g] /\ post'[g] = post[g] /\ local'[g] = local[g] /\ answer'[g] = answer[g]
<1>1. /\ pc'[h] = "idle" /\ answer'[h] = code /\ code # "verified"
      /\ local'[h] = NoLocals
  BY DEF Refuse, Respond, TypeOK, Codes
<1>2. /\ pc' \in [Handlers -> {"idle", "validate", "mark"}]
      /\ answer' \in [Handlers -> Answers]
  BY DEF Refuse, Respond, TypeOK, Codes, Answers
<1>3. post' \in [Handlers -> Posts] /\ local' \in [Handlers -> Locals]
  BY InitialValues DEF Refuse, TypeOK
<1>4. HandlerInv(h)'
  BY <1>1, InitialValues DEF HandlerInv, Checked, Visited
<1>5. \A g \in Handlers : g # h =>
        pc'[g] = pc[g] /\ post'[g] = post[g] /\ local'[g] = local[g] /\ answer'[g] = answer[g]
  BY DEF Refuse, Respond, TypeOK
<1> QED BY <1>2, <1>3, <1>4, <1>5

\* A form arrives.
LEMMA BeginKeeps ==
  ASSUME Inv, NEW h \in Handlers, NEW p \in Posts, Begin(h, p)
  PROVE  Inv'
<1>1. TypeOK /\ HandlerInv(h) /\ \A g \in Handlers : HandlerInv(g)
  BY DEF Inv
<1>2. UNCHANGED <<clock, records, revoked, verified, saves, revocations, restarts>>
  BY <1>1 DEF Begin, history, TypeOK
<1>3. /\ pc' \in [Handlers -> {"idle", "validate", "mark"}]
      /\ answer' \in [Handlers -> Answers]
      /\ post' \in [Handlers -> Posts]
      /\ local' \in [Handlers -> Locals]
      /\ HandlerInv(h)'
  <2>1. CASE Refuse(h, "invalid_request")
    BY <1>1, <2>1, Refused DEF Codes
  <2>2. CASE /\ Get(p.state)
             /\ pc' = [pc EXCEPT ![h] = "validate"]
             /\ post' = [post EXCEPT ![h] = p]
             /\ local' = [local EXCEPT ![h] =
                  [request |-> records[p.state].request, pending |-> DOMAIN p.response,
                   started |-> clock, revoked |-> revoked]]
             /\ answer' = [answer EXCEPT ![h] = "none"]
    <3> DEFINE l == [request |-> records[p.state].request, pending |-> DOMAIN p.response,
                     started |-> clock, revoked |-> revoked]
    <3>1. p.response \in Responses /\ p.state \in DOMAIN records
      BY <2>2 DEF Posts, Get
    <3>2. l \in Locals
      <4>1. records[p.state] \in Record /\ clock \in Nat /\ revoked \in SUBSET Ids
        BY <1>1, <3>1, PresentationsAssumption DEF TypeOK
      <4>2. records[p.state].request \in AuthRequests /\ DOMAIN p.response \in SUBSET QueryIds
        BY <3>1, <4>1, PresentationsAssumption DEF Record
      <4> QED BY <4>1, <4>2 DEF Locals
    <3>3. /\ local'[h] = l /\ pc'[h] = "validate" /\ answer'[h] = "none" /\ post'[h] = p
          /\ l.pending = DOMAIN p.response /\ l.revoked = revoked
      BY <1>1, <1>2, <2>2 DEF TypeOK
    <3> HIDE DEF l
    <3>4. HandlerInv(h)'
      BY <1>2, <3>3 DEF HandlerInv, Checked, Visited
    <3> QED BY <1>1, <2>2, <3>2, <3>4 DEF TypeOK, Answers, l
  <2> QED BY <2>1, <2>2 DEF Begin
<1>4. TypeOK'
  BY <1>1, <1>2, <1>3 DEF TypeOK
<1>5. \A g \in Handlers : g # h => HandlerInv(g)'
  <2> SUFFICES ASSUME NEW g \in Handlers, g # h PROVE HandlerInv(g)'
    OBVIOUS
  <2>1. pc'[g] = pc[g] /\ post'[g] = post[g] /\ local'[g] = local[g] /\ answer'[g] = answer[g]
    BY <1>1 DEF Begin, Refuse, Respond, TypeOK
  <2> QED BY <1>1, <1>2, <2>1, OtherHandler
<1> QED BY <1>3, <1>4, <1>5 DEF Inv

\* One query is visited.
LEMMA ValidateQueryKeeps ==
  ASSUME Inv, NEW h \in Handlers, NEW id \in QueryIds, ValidateQuery(h, id)
  PROVE  Inv'
<1> DEFINE r == local[h].request
           v == post[h].response
<1>1. TypeOK /\ HandlerInv(h) /\ \A g \in Handlers : HandlerInv(g)
  BY DEF Inv
<1>2. /\ pc[h] = "validate" /\ id \in local[h].pending
      /\ UNCHANGED <<clock, records, revoked, verified, saves, revocations, restarts>>
  BY DEF ValidateQuery, history
<1>3. v \in Responses
  BY <1>1 DEF TypeOK, Posts
<1>4. PICK down \in Outages :
        LET outcome == QueryOutcome(r, v, id, revoked, down, clock)
        IN  \/ /\ outcome # Ok
               /\ Refuse(h, outcome)
            \/ /\ outcome = Ok
               /\ local' = [local EXCEPT ![h].pending = @ \ {id}]
               /\ UNCHANGED <<pc, post, answer>>
  BY DEF ValidateQuery
<1> DEFINE outcome == QueryOutcome(r, v, id, revoked, down, clock)
<1>5. id \in DOMAIN v =>
        /\ outcome \in Codes \cup {Ok}
        /\ outcome = Ok => \A t \in TokensFor(r, v, id) : ~IsRevokedStrict(t, revoked)
  BY <1>3, QueryOutcomeFacts
<1>6. id \in DOMAIN v
  BY <1>1, <1>2 DEF HandlerInv, Visited
<1>7. /\ pc' \in [Handlers -> {"idle", "validate", "mark"}]
      /\ answer' \in [Handlers -> Answers]
      /\ post' \in [Handlers -> Posts]
      /\ local' \in [Handlers -> Locals]
      /\ HandlerInv(h)'
  <2>1. CASE outcome # Ok /\ Refuse(h, outcome)
    <3>1. outcome \in Codes
      BY <1>5, <1>6, <2>1
    <3> HIDE DEF outcome
    <3> QED BY <1>1, <2>1, <3>1, Refused
  <2>2. CASE /\ outcome = Ok
             /\ local' = [local EXCEPT ![h].pending = @ \ {id}]
             /\ UNCHANGED <<pc, post, answer>>
    <3>1. /\ local'[h].pending = local[h].pending \ {id}
          /\ local'[h].request = r /\ local'[h].revoked = local[h].revoked
          /\ post'[h] = post[h] /\ pc'[h] = pc[h] /\ answer'[h] = answer[h]
      BY <1>1, <1>2, <2>2 DEF TypeOK, Locals
    <3>2. local' \in [Handlers -> Locals]
      <4>1. local[h] \in Locals /\ local[h].pending \ {id} \in SUBSET QueryIds
        BY <1>1 DEF TypeOK, Locals
      <4>2. [local[h] EXCEPT !.pending = @ \ {id}] \in Locals
        BY <4>1 DEF Locals
      <4> QED BY <1>1, <2>2, <4>2 DEF TypeOK
    <3>3. Strict => \A t \in TokensFor(r, v, id) :
                      credentialIDForRevocation(t) \notin local[h].revoked \cup {NoId}
      <4>1. local[h].revoked \subseteq revoked
        BY <1>1 DEF HandlerInv
      <4> QED BY <1>5, <1>6, <2>2, <4>1 DEF IsRevokedStrict
    <3>4. Checked(h)'
      <4> SUFFICES ASSUME Strict, NEW x \in DOMAIN v \ (local[h].pending \ {id}),
                          NEW t \in TokensFor(r, v, x)
                   PROVE  credentialIDForRevocation(t) \notin local[h].revoked \cup {NoId}
        BY <3>1 DEF Checked
      <4>1. CASE x = id
        BY <3>3, <4>1
      <4>2. CASE x # id
        BY <1>1, <1>2, <4>2 DEF HandlerInv, Checked
      <4> QED BY <4>1, <4>2
    <3>5. Visited(h)'
      BY <1>1, <1>2, <3>1 DEF HandlerInv, Visited
    <3>6. HandlerInv(h)'
      BY <1>1, <1>2, <3>1, <3>4, <3>5 DEF HandlerInv
    <3> QED BY <1>1, <2>2, <3>2, <3>6 DEF TypeOK
  <2> QED BY <1>4, <2>1, <2>2
<1>8. TypeOK'
  BY <1>1, <1>2, <1>7 DEF TypeOK
<1>9. \A g \in Handlers : g # h => HandlerInv(g)'
  <2> SUFFICES ASSUME NEW g \in Handlers, g # h PROVE HandlerInv(g)'
    OBVIOUS
  <2>1. pc'[g] = pc[g] /\ post'[g] = post[g] /\ local'[g] = local[g] /\ answer'[g] = answer[g]
    <3> HIDE DEF outcome
    <3> QED BY <1>1, <1>2, <1>4 DEF Refuse, Respond, TypeOK, outcome
  <2> QED BY <1>1, <1>2, <2>1, OtherHandler
<1> QED BY <1>7, <1>8, <1>9 DEF Inv

\* The request is marked as used, or the response comes too late.
LEMMA MarkUsedKeeps ==
  ASSUME Inv, NEW h \in Handlers, MarkUsed(h)
  PROVE  Inv'
<1> DEFINE s == post[h].state
<1>1. TypeOK /\ HandlerInv(h) /\ \A g \in Handlers : HandlerInv(g)
  BY DEF Inv
<1>2. /\ pc[h] = "mark"
      /\ UNCHANGED <<clock, revoked, saves, revocations, restarts>>
      /\ s \in States
  BY <1>1 DEF MarkUsed, TypeOK, Posts
<1>3. CASE /\ s \in DOMAIN records
           /\ records' = Put(s, [records[s] EXCEPT !.used = TRUE])
           /\ verified' = [verified EXCEPT ![s] = @ + 1]
           /\ Respond(h, "verified")
           /\ UNCHANGED <<post, local>>
  <2>1. pc'[h] = "idle" /\ answer'[h] = "verified"
    BY <1>1, <1>3 DEF Respond, TypeOK
  <2>2. HandlerInv(h)'
    BY <1>1, <1>2, <1>3, <2>1 DEF HandlerInv, Checked, Visited
  <2>3. /\ DOMAIN records' \subseteq States
        /\ \A x \in DOMAIN records' : records'[x] \in Record
    <3>1. records[s] \in Record
      BY <1>1, <1>3 DEF TypeOK
    <3>2. [records[s] EXCEPT !.used = TRUE] \in Record
      BY <3>1 DEF Record
    <3> QED BY <1>1, <1>2, <1>3, <3>2 DEF TypeOK, Put
  <2>4. TypeOK'
    <3>1. /\ pc' \in [Handlers -> {"idle", "validate", "mark"}]
          /\ answer' \in [Handlers -> Answers]
      BY <1>1, <1>3 DEF TypeOK, Respond, Answers
    <3>2. verified' \in [States -> Nat]
      BY <1>1, <1>2, <1>3 DEF TypeOK
    <3> QED BY <1>1, <1>2, <1>3, <2>3, <3>1, <3>2 DEF TypeOK
  <2>5. \A g \in Handlers : g # h => HandlerInv(g)'
    <3> SUFFICES ASSUME NEW g \in Handlers, g # h PROVE HandlerInv(g)'
      OBVIOUS
    <3>1. pc'[g] = pc[g] /\ answer'[g] = answer[g]
      BY <1>1, <1>3 DEF Respond, TypeOK
    <3> QED BY <1>1, <1>2, <1>3, <3>1, OtherHandler
  <2> QED BY <2>2, <2>4, <2>5 DEF Inv
<1>4. CASE Refuse(h, "invalid_request") /\ UNCHANGED <<records, verified>>
  <2>1. /\ HandlerInv(h)'
        /\ pc' \in [Handlers -> {"idle", "validate", "mark"}]
        /\ answer' \in [Handlers -> Answers]
        /\ post' \in [Handlers -> Posts] /\ local' \in [Handlers -> Locals]
        /\ \A g \in Handlers : g # h =>
             pc'[g] = pc[g] /\ post'[g] = post[g] /\ local'[g] = local[g] /\ answer'[g] = answer[g]
    BY <1>1, <1>4, Refused DEF Codes
  <2>2. TypeOK'
    BY <1>1, <1>2, <1>4, <2>1 DEF TypeOK
  <2>3. \A g \in Handlers : g # h => HandlerInv(g)'
    BY <1>1, <1>2, <2>1, OtherHandler
  <2> QED BY <2>1, <2>2, <2>3 DEF Inv
<1> QED BY <1>3, <1>4 DEF MarkUsed

\* The invariant holds initially and is kept by every step.
LEMMA InvInit == Init => Inv
<1> SUFFICES ASSUME Init PROVE Inv
  OBVIOUS
<1>1. TypeOK
  BY InitialValues, PresentationsAssumption DEF Init, TypeOK, Answers
<1>2. \A h \in Handlers : HandlerInv(h)
  BY InitialValues DEF Init, HandlerInv, Checked, Visited
<1> QED BY <1>1, <1>2 DEF Inv

\* Every step keeps the invariant.
LEMMA InvNext == Inv /\ [Next]_vars => Inv'
<1> SUFFICES ASSUME Inv, [Next]_vars PROVE Inv'
  OBVIOUS
<1>0. TypeOK /\ \A g \in Handlers : HandlerInv(g)
  BY DEF Inv
<1>1. ASSUME NEW h \in Handlers, NEW p \in Posts, Begin(h, p) PROVE Inv'
  BY <1>1, BeginKeeps
<1>2. ASSUME NEW h \in Handlers, NEW id \in QueryIds, ValidateQuery(h, id) PROVE Inv'
  BY <1>2, ValidateQueryKeeps
<1>3. ASSUME NEW h \in Handlers, Validated(h) PROVE Inv'
  <2>1. TypeOK'
    BY <1>0, <1>3 DEF Validated, TypeOK, history
  <2>2. HandlerInv(h)'
    BY <1>0, <1>3 DEF Validated, TypeOK, HandlerInv, Checked, Visited
  <2>3. \A g \in Handlers : g # h => HandlerInv(g)'
    BY <1>0, <1>3, OtherHandler DEF Validated, TypeOK
  <2> QED BY <2>1, <2>2, <2>3 DEF Inv
<1>4. ASSUME NEW h \in Handlers, MarkUsed(h) PROVE Inv'
  BY <1>4, MarkUsedKeeps
<1>5. ASSUME NEW s \in States, NEW r \in AuthRequests, Save(s, r) PROVE Inv'
  <2>1. /\ UNCHANGED <<clock, revoked, pc, post, local, answer, verified, revocations, restarts>>
        /\ saves' \in Nat
    BY <1>0, <1>5 DEF Save, handler, TypeOK
  <2>2. (IF r.expiresAt = 0 THEN clock + DefaultTTL ELSE r.expiresAt) \in Nat
    BY <1>0, PresentationsAssumption DEF TypeOK
  <2>3. TypeOK'
    BY <1>0, <1>5, <2>1, <2>2, PutType DEF Save, TypeOK
  <2>4. \A g \in Handlers : HandlerInv(g)'
    BY <1>0, <2>1, OtherHandler
  <2> QED BY <2>3, <2>4 DEF Inv
<1>6. ASSUME NEW id \in Ids, AddRevocation(id) PROVE Inv'
  <2>1. TypeOK'
    BY <1>0, <1>6 DEF AddRevocation, handler, TypeOK
  <2>2. \A g \in Handlers : HandlerInv(g)'
    BY <1>0, <1>6, OtherHandler DEF AddRevocation, handler
  <2> QED BY <2>1, <2>2 DEF Inv
<1>7. ASSUME NEW id \in Ids, RemoveRevocation(id) PROVE Inv'
  <2>1. /\ UNCHANGED <<clock, records, pc, post, answer, verified, saves, restarts>>
        /\ revoked' = revoked \ {id} /\ revocations' \in Nat
        /\ local' = [h \in Handlers |-> [local[h] EXCEPT !.revoked = @ \ {id}]]
    BY <1>0, <1>7 DEF RemoveRevocation, TypeOK
  <2>2. ASSUME NEW g \in Handlers
        PROVE  /\ local'[g] \in Locals
               /\ local'[g].request = local[g].request
               /\ local'[g].pending = local[g].pending
               /\ local'[g].revoked = local[g].revoked \ {id}
    <3>1. local[g] \in Locals
      BY <1>0 DEF TypeOK
    <3>2. local'[g] = [local[g] EXCEPT !.revoked = local[g].revoked \ {id}]
      BY <2>1
    <3> QED BY <3>1, <3>2 DEF Locals
  <2>3. local' \in [Handlers -> Locals]
    BY <2>1, <2>2
  <2>4. TypeOK'
    BY <1>0, <2>1, <2>3 DEF TypeOK
  <2>5. ASSUME NEW g \in Handlers PROVE HandlerInv(g)'
    <3>1. HandlerInv(g)
      BY <1>0
    <3>2. Checked(g)'
      BY <2>1, <2>2, <3>1 DEF HandlerInv, Checked
    <3>3. Visited(g)' /\ (local[g].revoked \subseteq revoked)'
      BY <2>1, <2>2, <3>1 DEF HandlerInv, Visited
    <3> QED BY <3>2, <3>3 DEF HandlerInv
  <2> QED BY <2>4, <2>5 DEF Inv
<1>8. CASE Tick
  <2>1. TypeOK'
    BY <1>0, <1>8, PresentationsAssumption DEF Tick, handler, history, TypeOK
  <2>2. \A g \in Handlers : HandlerInv(g)'
    BY <1>0, <1>8, OtherHandler DEF Tick, handler
  <2> QED BY <2>1, <2>2 DEF Inv
<1>9. CASE Restart
  <2>1. TypeOK'
    BY <1>0, <1>9, InitialValues DEF Restart, TypeOK, Answers
  <2>2. ASSUME NEW g \in Handlers PROVE HandlerInv(g)'
    <3>1. pc'[g] = "idle" /\ answer'[g] = "none" /\ local'[g] = NoLocals /\ revoked' = {}
      BY <1>9 DEF Restart
    <3> QED BY <3>1, InitialValues DEF HandlerInv, Checked, Visited
  <2> QED BY <2>1, <2>2 DEF Inv
<1>10. CASE UNCHANGED vars
  <2>1. UNCHANGED <<clock, records, revoked, pc, post, local, answer, verified, saves,
                    revocations, restarts>>
    BY <1>10 DEF vars, handler, history
  <2>2. TypeOK'
    BY <1>0, <2>1 DEF TypeOK
  <2>3. \A g \in Handlers : HandlerInv(g)'
    BY <1>0, <2>1, OtherHandler
  <2> QED BY <2>2, <2>3 DEF Inv
<1> QED BY <1>1, <1>2, <1>3, <1>4, <1>5, <1>6, <1>7, <1>8, <1>9, <1>10 DEF Next, Step

\* Every reachable state satisfies the inductive invariant.
THEOREM Invariance == Spec => []Inv
BY InvInit, InvNext, PTL DEF Spec

-----------------------------------------------------------------------------
(* Results *)

\* Every variable keeps its type: in particular a response is answered with one
\* of the handler's codes, whichever check of ValidateResponse fails first.
THEOREM TypeCorrect == Spec => []TypeOK
<1>1. Inv => TypeOK
  BY DEF Inv
<1> QED BY <1>1, Invariance, PTL

\* Strict revocation, by the id of a credential or else its jti, holds for
\* responses of any shape, any number of handlers and every order of visiting the
\* queries (validation.go:104-115, 383-391).
THEOREM Revocation == Spec => []RevokedIsRefused
<1>1. Inv => RevokedIsRefused
  <2> SUFFICES ASSUME Inv, NEW h \in Handlers, answer[h] = "verified", Strict,
                      NEW t \in CredentialsOf(h)
               PROVE  credentialIDForRevocation(t) \notin local[h].revoked \cup {NoId}
    BY DEF RevokedIsRefused
  <2>1. PICK id \in DOMAIN post[h].response :
          t \in TokensFor(local[h].request, post[h].response, id)
    BY DEF CredentialsOf, TokensFor
  <2>2. local[h].pending = {} /\ Checked(h)
    BY DEF Inv, HandlerInv, Visited
  <2> QED BY <2>1, <2>2 DEF Checked
<1> QED BY <1>1, Invariance, PTL

\* The store and the handlers implement a store of one-shot requests: every
\* step is a step of OneShotRequests or leaves its variables alone.
THEOREM Refinement == Spec => ImplementsOneShot
<1> DEFINE phase == [s \in States |-> IF s \notin DOMAIN records THEN "none"
                                      ELSE IF records[s].used THEN "consumed" ELSE "open"]
<1>1. Init => OneShot!Init
  BY DEF Init, OneShot!Init
<1>2. Inv /\ [Next]_vars => [OneShot!Next]_(OneShot!vars)
  <2> SUFFICES ASSUME Inv, [Next]_vars PROVE OneShot!Next \/ UNCHANGED <<phase, verified>>
    BY DEF OneShot!vars
  <2>0. TypeOK
    BY DEF Inv
  <2>1. CASE UNCHANGED <<records, verified>>
    BY <2>1
  <2>2. ASSUME NEW h \in Handlers, MarkUsed(h) PROVE OneShot!Next \/ UNCHANGED <<phase, verified>>
    <3> DEFINE s == post[h].state
    <3>1. s \in States
      BY <2>0 DEF TypeOK, Posts
    <3>2. CASE UNCHANGED <<records, verified>>
      BY <2>1, <3>2
    <3>3. CASE /\ s \in DOMAIN records /\ ~records[s].used
               /\ records' = Put(s, [records[s] EXCEPT !.used = TRUE])
               /\ verified' = [verified EXCEPT ![s] = @ + 1]
      <4>1. PICK x \in States : x = s
        BY <3>1
      <4> HIDE DEF s
      <4>2. /\ x \in DOMAIN records /\ ~records[x].used
            /\ records' = Put(x, [records[x] EXCEPT !.used = TRUE])
            /\ verified' = [verified EXCEPT ![x] = @ + 1]
        BY <3>3, <4>1
      <4>3. records[x] \in Record
        BY <2>0, <4>2 DEF TypeOK
      <4>4. records'[x].used /\ DOMAIN records' = DOMAIN records
            /\ \A y \in DOMAIN records : y # x => records'[y] = records[y]
        BY <4>2, <4>3 DEF Put, Record
      <4>5. phase[x] = "open" /\ phase' = [phase EXCEPT ![x] = "consumed"]
        BY <4>2, <4>4
      <4>6. OneShot!Consume(x)
        BY <4>2, <4>5 DEF OneShot!Consume
      <4> QED BY <4>6 DEF OneShot!Next
    <3> QED BY <2>2, <3>2, <3>3 DEF MarkUsed
  <2>3. ASSUME NEW s \in States, NEW r \in AuthRequests, Save(s, r)
        PROVE  OneShot!Next
    <3>1. OneShot!Open(s)
      BY <2>3 DEF Save, Put, OneShot!Open
    <3> QED BY <3>1 DEF OneShot!Next
  <2>4. CASE Restart
    <3>1. OneShot!Forget
      BY <2>4 DEF Restart, OneShot!Forget
    <3> QED BY <3>1 DEF OneShot!Next
  <2>5. CASE \/ \E h \in Handlers, p \in Posts : Begin(h, p)
             \/ \E h \in Handlers, id \in QueryIds : ValidateQuery(h, id)
             \/ \E h \in Handlers : Validated(h)
             \/ \E id \in Ids : AddRevocation(id) \/ RemoveRevocation(id)
             \/ Tick
             \/ UNCHANGED vars
    <3>1. UNCHANGED <<records, verified>>
      BY <2>5 DEF Begin, ValidateQuery, Validated, AddRevocation, RemoveRevocation, Tick,
                  vars, history
    <3> QED BY <2>1, <3>1
  <2> QED BY <2>2, <2>3, <2>4, <2>5 DEF Next, Step
<1> QED BY <1>1, <1>2, Invariance, PTL DEF Spec, ImplementsOneShot, OneShot!Spec

-----------------------------------------------------------------------------
(* What a verified response covers *)

\* What VerifiedIsComplete asks of one credential.
Fits(q, t, at) ==
  /\ validateCredentialMetadata(q, t) /\ validateClaimQueries(q, t)
  /\ Cred[t].issuer \in Trusted
  /\ ~Expired(Cred[t], at)

\* What it asks of one presentation: that its holder made it for this request,
\* where the query asks for that, and that its credentials fit.
Shows(r, q, p, at) ==
  /\ q.binding => /\ p.signedBy = KeyOf[p.holder] /\ r.clientID \in p.aud
                  /\ p.nonce = r.nonce
  /\ \A t \in Range(extractCredentials(q, p)) : Fits(q, t, at)

\* A credential that expired earlier is expired now.
LEMMA ExpiryIsFinal ==
  ASSUME NEW t \in Tokens, NEW at \in Nat, NEW now \in Nat, at <= now, ~Expired(Cred[t], now)
  PROVE  ~Expired(Cred[t], at)
<1>1. Cred[t] \in Credential
  BY PresentationsAssumption
<1>2. Cred[t].exp \in Nat /\ ExpiresAt(Cred[t]) \in Nat
  BY <1>1, ExpiresAtType, CredentialChainAssumption DEF Credential
<1> QED BY <1>2 DEF Expired

\* An accepted credential fits its query, ever since the response arrived.
LEMMA CredentialFits ==
  ASSUME NEW q, NEW t \in Tokens, NEW R, NEW down, NEW now \in Nat, NEW at \in Nat, at <= now,
         CredentialOutcome(q, t, R, down, now) = Ok
  PROVE  Fits(q, t, at)
<1> DEFINE Resolve == [issuer \in Dids |->
                         IF issuer \in Trusted /\ "issuer" \notin down THEN KeyOf[issuer] ELSE NoKey]
<1>1. /\ VerifyCredentialChain(<<Cred[t]>>, Resolve, NoAudience, 0, now) = Ok
      /\ validateCredentialMetadata(q, t) /\ validateClaimQueries(q, t)
  BY DEF CredentialOutcome, Ok
<1>2. Resolve[Cred[t].issuer] # NoKey /\ ~Expired(Cred[t], now)
  <2> HIDE DEF Resolve
  <2> QED BY <1>1, AcceptedAlone
<1>3. Cred[t].issuer \in Dids
  BY PresentationsAssumption DEF Credential
<1>4. Cred[t].issuer \in Trusted
  BY <1>2, <1>3
<1> QED BY <1>1, <1>2, <1>4, ExpiryIsFinal DEF Fits

\* So do all the credentials of an accepted presentation, which is bound to its
\* holder and to the request if it has to be.
LEMMA PresentationFits ==
  ASSUME NEW r, NEW q, NEW p \in Presentation, NEW R, NEW down, NEW now \in Nat,
         NEW at \in Nat, at <= now, PresentationOutcome(r, q, p, R, down, now) = Ok
  PROVE  Shows(r, q, p, at)
<1> DEFINE creds == extractCredentials(q, p)
           f == [i \in DOMAIN creds |-> CredentialOutcome(q, creds[i], R, down, now)]
<1>1. creds \in Seq(Tokens)
  BY ExtractedTokens
<1>2. PICK n \in Nat : DOMAIN creds = 1..n
  BY <1>1
<1>3. /\ DOMAIN f = 1..n
      /\ \A i \in 1..n : f[i] = CredentialOutcome(q, creds[i], R, down, now)
  BY <1>2
<1>4. FirstError(f) = Ok
  BY DEF PresentationOutcome, Ok
<1>5. \A i \in 1..n : f[i] = Ok
  <2> HIDE DEF f
  <2> QED BY <1>3, <1>4, FirstErrorFacts
<1>6. \A i \in 1..n : creds[i] \in Tokens
  BY <1>1, <1>2
<1> HIDE DEF f, creds
<1>7. \A i \in 1..n : Fits(q, creds[i], at)
  BY <1>3, <1>5, <1>6, CredentialFits
<1>8. \A t \in Range(creds) : \E i \in 1..n : t = creds[i]
  BY <1>2 DEF Range
<1>9. validatePresentation(r, q, p, down, now)
  BY DEF PresentationOutcome, Ok
<1>10. q.binding => /\ p.signedBy = KeyOf[p.holder] /\ r.clientID \in p.aud
                    /\ p.nonce = r.nonce
  BY <1>9 DEF validatePresentation, validateJWTPresentation
<1> QED BY <1>7, <1>8, <1>10 DEF creds, Shows

\* And all those of an accepted query.
LEMMA QueryFits ==
  ASSUME NEW r, NEW v \in Responses, NEW id \in DOMAIN v, NEW R, NEW down, NEW now \in Nat,
         NEW at \in Nat, at <= now, QueryOutcome(r, v, id, R, down, now) = Ok
  PROVE  \A i \in DOMAIN v[id] : Shows(r, r.queries[id], v[id][i], at)
<1> DEFINE q == r.queries[id]
           f == [i \in DOMAIN v[id] |-> PresentationOutcome(r, q, v[id][i], R, down, now)]
<1>1. v[id] \in Seq(Presentation)
  BY PresentationsAssumption
<1>2. PICK n \in Nat : DOMAIN v[id] = 1..n
  BY <1>1
<1>3. /\ DOMAIN f = 1..n
      /\ \A i \in 1..n : f[i] = PresentationOutcome(r, q, v[id][i], R, down, now)
  BY <1>2
<1>4. FirstError(f) = Ok
  BY DEF QueryOutcome, Ok
<1>5. \A i \in 1..n : f[i] = Ok
  <2> HIDE DEF f
  <2> QED BY <1>3, <1>4, FirstErrorFacts
<1>6. \A i \in 1..n : v[id][i] \in Presentation
  BY <1>1, <1>2
<1> HIDE DEF f, q
<1>7. \A i \in 1..n : Shows(r, q, v[id][i], at)
  BY <1>3, <1>5, <1>6, PresentationFits
<1> QED BY <1>2, <1>7 DEF q

\* A response that arrived at a moment arrived in the lifetime its request states.
InLifetime(r, at) == r.expiresAt = 0 \/ at <= r.expiresAt

\* What a handler has found out about its response: it was in time, it has the
\* right structure, and the queries visited so far hold what they ask for.
Found(h) ==
  pc[h] # "idle" \/ answer[h] = "verified" =>
    LET r == local[h].request  v == post[h].response
    IN  /\ InLifetime(r, local[h].started)
        /\ ~StructureError(r, v)
        /\ \A id \in DOMAIN v \ local[h].pending : \A i \in DOMAIN v[id] :
             Shows(r, r.queries[id], v[id][i], local[h].started)

\* A record keeps the expiry of a request that states one (RequestStore.Save):
\* without it Get would say nothing of the lifetime of the handler's copy.
KeepsExpiry(record) ==
  record.request.expiresAt = 0 \/ record.expiresAt = record.request.expiresAt

FoundInv ==
  /\ \A h \in Handlers : Found(h) /\ local[h].started <= clock
  /\ \A s \in DOMAIN records : KeepsExpiry(records[s])

\* What a handler found stays found while it stands still; revocations are not
\* among it.
LEMMA FoundKept ==
  ASSUME NEW g \in Handlers, Found(g), local[g].started <= clock,
         local[g].started \in Nat, clock \in Nat, clock' \in Nat, clock <= clock',
         pc'[g] = pc[g], post'[g] = post[g], answer'[g] = answer[g],
         local'[g].request = local[g].request, local'[g].pending = local[g].pending,
         local'[g].started = local[g].started
  PROVE  Found(g)' /\ (local[g].started <= clock)'
BY DEF Found

\* A response that is refused leaves nothing to be found.
LEMMA RefusedFound ==
  ASSUME TypeOK, NEW h \in Handlers, NEW code, code # "verified", Refuse(h, code),
         clock \in Nat, clock' = clock
  PROVE  Found(h)' /\ (local[h].started <= clock)'
<1>1. pc'[h] = "idle" /\ answer'[h] = code /\ local'[h] = NoLocals
  BY DEF TypeOK, Refuse, Respond
<1>2. local'[h].started = 0
  BY <1>1, InitialValues
<1> QED BY <1>1, <1>2 DEF Found

\* A form arrives.
LEMMA BeginFinds ==
  ASSUME Inv, FoundInv, NEW h \in Handlers, NEW p \in Posts, Begin(h, p)
  PROVE  Found(h)' /\ (local[h].started <= clock)'
<1>0. TypeOK /\ local[h].started <= clock /\ clock \in Nat
  BY PresentationsAssumption DEF Inv, TypeOK, FoundInv
<1>1. clock' = clock
  BY DEF Begin
<1>2. CASE Refuse(h, "invalid_request")
  BY <1>0, <1>1, <1>2, RefusedFound
<1>3. CASE /\ Get(p.state) /\ ~StructureError(records[p.state].request, p.response)
           /\ pc' = [pc EXCEPT ![h] = "validate"]
           /\ post' = [post EXCEPT ![h] = p]
           /\ local' = [local EXCEPT ![h] =
                [request |-> records[p.state].request, pending |-> DOMAIN p.response,
                 started |-> clock, revoked |-> revoked]]
           /\ answer' = [answer EXCEPT ![h] = "none"]
  <2>1. /\ local'[h].request = records[p.state].request
        /\ local'[h].pending = DOMAIN p.response /\ local'[h].started = clock
        /\ post'[h] = p
    BY <1>0, <1>1, <1>3 DEF TypeOK
  <2>3. InLifetime(records[p.state].request, clock)
    BY <1>3 DEF FoundInv, KeepsExpiry, Get, InLifetime
  <2>2. DOMAIN p.response \ local'[h].pending = {}
    BY <2>1
  <2> QED BY <1>0, <1>1, <1>3, <2>1, <2>2, <2>3 DEF Found
<1> QED BY <1>2, <1>3 DEF Begin

\* A query is visited.
LEMMA ValidateQueryFinds ==
  ASSUME Inv, FoundInv, NEW h \in Handlers, NEW id \in QueryIds, ValidateQuery(h, id)
  PROVE  Found(h)' /\ (local[h].started <= clock)'
<1> DEFINE r == local[h].request
           v == post[h].response
           at == local[h].started
<1>0. /\ TypeOK /\ HandlerInv(h) /\ Found(h) /\ at <= clock /\ clock \in Nat /\ at \in Nat
  BY PresentationsAssumption DEF Inv, TypeOK, FoundInv, Locals
<1>1. pc[h] = "validate" /\ id \in local[h].pending /\ clock' = clock
  BY DEF ValidateQuery
<1>2. v \in Responses /\ id \in DOMAIN v
  BY <1>0, <1>1 DEF TypeOK, Posts, HandlerInv, Visited
<1>3. PICK down \in Outages :
        LET outcome == QueryOutcome(r, v, id, revoked, down, clock)
        IN  \/ /\ outcome # Ok
               /\ Refuse(h, outcome)
            \/ /\ outcome = Ok
               /\ local' = [local EXCEPT ![h].pending = @ \ {id}]
               /\ UNCHANGED <<pc, post, answer>>
  BY DEF ValidateQuery
<1> DEFINE outcome == QueryOutcome(r, v, id, revoked, down, clock)
<1>4. outcome \in Codes \cup {Ok}
  BY <1>2, QueryOutcomeFacts
<1>5. CASE outcome # Ok /\ Refuse(h, outcome)
  <2>1. outcome # "verified"
    BY <1>4 DEF Codes, Ok
  <2> HIDE DEF outcome
  <2> QED BY <1>0, <1>1, <1>5, <2>1, RefusedFound
<1>6. CASE /\ outcome = Ok
           /\ local' = [local EXCEPT ![h].pending = @ \ {id}]
           /\ UNCHANGED <<pc, post, answer>>
  <2>1. /\ local'[h].pending = local[h].pending \ {id}
        /\ local'[h].request = r /\ local'[h].started = at
        /\ post'[h] = post[h] /\ pc'[h] = pc[h] /\ answer'[h] = answer[h]
    BY <1>0, <1>1, <1>6 DEF TypeOK, Locals
  <2>2. \A i \in DOMAIN v[id] : Shows(r, r.queries[id], v[id][i], at)
    <3> HIDE DEF r, v, at
    <3> QED BY <1>0, <1>2, <1>6, QueryFits
  <2>3. ASSUME NEW x \in DOMAIN v \ (local[h].pending \ {id}), NEW i \in DOMAIN v[x]
        PROVE  Shows(r, r.queries[x], v[x][i], at)
    <3>1. CASE x = id
      BY <2>2, <3>1
    <3>2. CASE x # id
      BY <1>0, <1>1, <3>2 DEF Found
    <3> QED BY <3>1, <3>2
  <2>4. InLifetime(r, at) /\ ~StructureError(r, v)
    BY <1>0, <1>1 DEF Found
  <2> QED BY <1>0, <1>1, <2>1, <2>3, <2>4 DEF Found
<1> QED BY <1>3, <1>5, <1>6

\* The records keep the expiry their requests state.
LEMMA ExpiryKept ==
  ASSUME Inv, FoundInv, [Next]_vars, NEW x \in DOMAIN records'
  PROVE  KeepsExpiry(records'[x])
<1>1. ASSUME NEW h \in Handlers, MarkUsed(h) PROVE KeepsExpiry(records'[x])
  <2> DEFINE s == post[h].state
  <2>1. \/ records' = records
        \/ s \in DOMAIN records /\ records' = Put(s, [records[s] EXCEPT !.used = TRUE])
    BY <1>1 DEF MarkUsed
  <2> HIDE DEF s
  <2>2. \A y \in DOMAIN records : records[y] \in Record
    BY DEF Inv, TypeOK
  <2>3. /\ x \in DOMAIN records
        /\ records'[x].request = records[x].request
        /\ records'[x].expiresAt = records[x].expiresAt
    BY <2>1, <2>2 DEF Put, Record
  <2> QED BY <2>3 DEF FoundInv, KeepsExpiry
<1>2. ASSUME NEW s \in States, NEW r \in AuthRequests, Save(s, r)
      PROVE  KeepsExpiry(records'[x])
  <2>1. \/ x \in DOMAIN records /\ records'[x] = records[x]
        \/ /\ records'[x].request = r
           /\ r.expiresAt # 0 => records'[x].expiresAt = r.expiresAt
    BY <1>2 DEF Save, Put
  <2> QED BY <2>1 DEF FoundInv, KeepsExpiry
<1>3. CASE Restart
  BY <1>3 DEF Restart
<1>4. CASE records' = records
  BY <1>4 DEF FoundInv
<1>5. CASE \/ \E h \in Handlers, p \in Posts : Begin(h, p)
           \/ \E h \in Handlers, id \in QueryIds : ValidateQuery(h, id)
           \/ \E h \in Handlers : Validated(h)
           \/ \E id \in Ids : AddRevocation(id) \/ RemoveRevocation(id)
           \/ Tick
           \/ UNCHANGED vars
  BY <1>4, <1>5 DEF Begin, ValidateQuery, Validated, AddRevocation, RemoveRevocation, Tick,
                    vars
<1> QED BY <1>1, <1>2, <1>3, <1>5 DEF Next, Step

\* Every step keeps what the handlers found.
LEMMA FoundNext == Inv /\ FoundInv /\ [Next]_vars => FoundInv'
<1> SUFFICES ASSUME Inv, FoundInv, [Next]_vars, NEW g \in Handlers
             PROVE  Found(g)' /\ (local[g].started <= clock)'
  BY ExpiryKept DEF FoundInv, KeepsExpiry
<1>0. /\ TypeOK /\ HandlerInv(g) /\ Found(g) /\ local[g].started <= clock
      /\ clock \in Nat /\ local[g].started \in Nat /\ local[g] \in Locals
  BY PresentationsAssumption DEF Inv, FoundInv, TypeOK, Locals
<1>1. ASSUME UNCHANGED <<pc, post, local, answer>>, clock' \in Nat, clock <= clock'
      PROVE  Found(g)' /\ (local[g].started <= clock)'
  BY <1>0, <1>1, FoundKept
<1>2. ASSUME NEW h \in Handlers, h # g, (\E p \in Posts : Begin(h, p)) \/ Step(h)
      PROVE  Found(g)' /\ (local[g].started <= clock)'
  <2>1. /\ pc'[g] = pc[g] /\ post'[g] = post[g] /\ answer'[g] = answer[g]
        /\ local'[g] = local[g] /\ clock' = clock
    BY <1>0, <1>2 DEF TypeOK, Begin, Step, ValidateQuery, Validated, MarkUsed, Refuse,
                          Respond
  <2> QED BY <1>0, <2>1, FoundKept
<1>3. ASSUME NEW p \in Posts, Begin(g, p) PROVE Found(g)' /\ (local[g].started <= clock)'
  BY <1>3, BeginFinds
<1>4. ASSUME NEW id \in QueryIds, ValidateQuery(g, id)
      PROVE  Found(g)' /\ (local[g].started <= clock)'
  BY <1>4, ValidateQueryFinds
<1>5. CASE Validated(g) \/ MarkUsed(g)
  <2>1. CASE Refuse(g, "invalid_request") /\ clock' = clock
    BY <1>0, <2>1, RefusedFound
  <2>2. CASE post'[g] = post[g] /\ local'[g] = local[g] /\ clock' = clock /\ pc[g] # "idle"
    BY <1>0, <2>2 DEF Found
  <2> QED BY <1>5, <2>1, <2>2 DEF Validated, MarkUsed
<1>6. ASSUME NEW id \in Ids, RemoveRevocation(id)
      PROVE  Found(g)' /\ (local[g].started <= clock)'
  <2>1. UNCHANGED <<clock, pc, post, answer>>
    BY <1>6 DEF RemoveRevocation
  <2>2. local'[g] = [local[g] EXCEPT !.revoked = local[g].revoked \ {id}]
    BY <1>6 DEF RemoveRevocation
  <2>3. /\ local'[g].request = local[g].request /\ local'[g].pending = local[g].pending
        /\ local'[g].started = local[g].started
    BY <1>0, <2>2 DEF Locals
  <2> QED BY <1>0, <2>1, <2>3, FoundKept
<1>7. CASE Restart
  <2>1. pc'[g] = "idle" /\ answer'[g] = "none" /\ local'[g] = NoLocals /\ clock' = clock
    BY <1>7 DEF Restart
  <2>2. NoLocals.started = 0
    BY DEF NoLocals
  <2> QED BY <1>0, <2>1, <2>2 DEF Found
<1>8. CASE \/ \E s \in States, r \in AuthRequests : Save(s, r)
           \/ \E id \in Ids : AddRevocation(id)
           \/ Tick
           \/ UNCHANGED vars
  <2>1. UNCHANGED <<pc, post, local, answer>> /\ clock' \in Nat /\ clock <= clock'
    <3>1. CASE \E s \in States, r \in AuthRequests : Save(s, r)
      BY <1>0, <3>1 DEF Save, handler
    <3>2. CASE \E id \in Ids : AddRevocation(id)
      BY <1>0, <3>2 DEF AddRevocation, handler
    <3>3. CASE Tick \/ UNCHANGED vars
      BY <1>0, <3>3 DEF Tick, vars, handler
    <3> QED BY <1>8, <3>1, <3>2, <3>3
  <2> QED BY <1>1, <2>1
<1> QED BY <1>2, <1>3, <1>4, <1>5, <1>6, <1>7, <1>8 DEF Next, Step

\* A verified response arrived in its request's lifetime, however long its
\* validation took, and covers its request (validation.go:44-97), for requests and
\* responses of any shape, whichever handlers run beside it.
THEOREM Completeness == Spec => []VerifiedIsComplete
<1>1. Init => FoundInv
  BY InitialValues, PresentationsAssumption DEF Init, FoundInv, Found
<1>2. Inv /\ FoundInv => VerifiedIsComplete
  <2> SUFFICES ASSUME Inv, FoundInv, NEW h \in Handlers, answer[h] = "verified"
               PROVE  LET r == local[h].request  v == post[h].response
                          bound(p) == /\ p.signedBy = KeyOf[p.holder] /\ r.clientID \in p.aud
                                      /\ p.nonce = r.nonce /\ r.nonce # NoNonce
                          fits(q, t) == /\ validateCredentialMetadata(q, t) /\ validateClaimQueries(q, t)
                                        /\ Cred[t].issuer \in Trusted
                                        /\ ~Expired(Cred[t], local[h].started)
                          good(id) == v[id] # <<>> /\ \A i \in DOMAIN v[id] :
                                        /\ r.queries[id].binding => bound(v[id][i])
                                        /\ \A t \in Range(extractCredentials(r.queries[id], v[id][i])) :
                                             fits(r.queries[id], t)
                          met == {id \in DOMAIN v : good(id)}
                      IN  /\ r.expiresAt = 0 \/ local[h].started <= r.expiresAt
                          /\ IF r.sets = {} THEN met = DOMAIN r.queries
                             ELSE \A set \in r.sets :
                                    set.required => \E o \in set.options : o \subseteq met
    BY DEF VerifiedIsComplete
  <2> DEFINE r == local[h].request
             v == post[h].response
             bound(p) == /\ p.signedBy = KeyOf[p.holder] /\ r.clientID \in p.aud
                         /\ p.nonce = r.nonce /\ r.nonce # NoNonce
             fits(q, t) == /\ validateCredentialMetadata(q, t) /\ validateClaimQueries(q, t)
                           /\ Cred[t].issuer \in Trusted
                           /\ ~Expired(Cred[t], local[h].started)
             good(id) == v[id] # <<>> /\ \A i \in DOMAIN v[id] :
                           /\ r.queries[id].binding => bound(v[id][i])
                           /\ \A t \in Range(extractCredentials(r.queries[id], v[id][i])) :
                                fits(r.queries[id], t)
             met == {id \in DOMAIN v : good(id)}
  <2>1. Found(h) /\ local[h].pending = {}
    BY DEF Inv, HandlerInv, Visited, FoundInv
  <2>2. /\ r.expiresAt = 0 \/ local[h].started <= r.expiresAt
        /\ ~StructureError(r, v)
        /\ \A id \in DOMAIN v : \A i \in DOMAIN v[id] :
             Shows(r, r.queries[id], v[id][i], local[h].started)
    BY <2>1 DEF Found, InLifetime
  <2>3. met = Presented(v)
    <3>1. \A id \in DOMAIN v : r.queries[id].binding => r.nonce # NoNonce
      BY <2>2 DEF StructureError
    <3>2. ASSUME NEW id \in DOMAIN v, v[id] # <<>> PROVE good(id)
      BY <2>2, <3>1, <3>2 DEF Shows, Fits
    <3>3. \A id \in DOMAIN v : v[id] = <<>> => ~good(id)
      OBVIOUS
    <3> HIDE DEF good
    <3> QED BY <3>2, <3>3 DEF Presented
  <2>4. verifyCredentialSetRequirements(r, v) /\ DOMAIN v \subseteq DOMAIN r.queries
    BY <2>2 DEF StructureError
  <2> HIDE DEF met, r, v
  <2>5. Presented(v) \subseteq DOMAIN v
    BY DEF Presented
  <2>6. IF r.sets = {} THEN met = DOMAIN r.queries
        ELSE \A set \in r.sets : set.required => \E o \in set.options : o \subseteq met
    BY <2>3, <2>4, <2>5 DEF verifyCredentialSetRequirements
  <2> QED BY <2>2, <2>6 DEF met, r, v
<1> QED BY <1>1, <1>2, FoundNext, Invariance, PTL DEF Spec
=============================================================================
