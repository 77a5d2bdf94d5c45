--------------------------- MODULE RateLimiterProofs ---------------------------
(***************************************************************************)
(* The limiter keeps its limit for every number of callers, every limit    *)
(* and window, and every skew and delay.  The argument: a reading that has *)
(* left the sorted set is older, by the window less Lateness, than any     *)
(* reading still to come (Forgotten).  So when a reading is recorded, all  *)
(* readings within Span of it that were ever let through are still in the  *)
(* set, and the set never holds more than Limit.                           *)
(***************************************************************************)
EXTENDS RateLimiter, FiniteSetTheorems, TLAPS

Life == IF Window < KeyTTL THEN Window ELSE KeyTTL

\* Readings of calls in progress, against the clock of Redis.
Timely ==
  \A c \in Callers : Pending(c) =>
    /\ call[c].at <= call[c].now
    /\ call[c].now <= clock + MaxSkew
    /\ clock <= call[c].at + MaxDelay

\* The set holds readings that were let through, at most Limit of them.
Bounded ==
  \A k \in RateKeys :
    /\ zset[k] \subseteq counted[k]
    /\ IsFiniteSet(counted[k])
    /\ Cardinality(zset[k]) <= Limit

\* What was recorded is not ahead of the clocks, and the key outlives it.
Recorded ==
  \A k \in RateKeys : \A e \in counted[k] :
    /\ e <= clock + MaxSkew
    /\ e \in zset[k] => e + KeyTTL <= deadline[k] + MaxSkew

\* A reading that has left the set is old, or its key has expired.
Forgotten ==
  \A k \in RateKeys : \A e \in counted[k] :
    e \notin zset[k] => e + Life <= clock + MaxSkew

Within(k, a) == {e \in counted[k] : a < e /\ e <= a + Span}

\* LimitIsKept over all intervals.
Kept_All == \A k \in RateKeys : \A a \in Int : Cardinality(Within(k, a)) <= Limit

\* The readings that calls of Allow(k) have taken and that may still matter.
Readings(k) == counted[k] \cup {call[c].now : c \in {d \in Callers : Pending(d) /\ call[d].key = k}}

Numbered ==
  \A k \in RateKeys : IsFiniteSet(Readings(k)) /\ Cardinality(Readings(k)) <= calls[k]

\* Near the reading of a refused call, Limit readings were let through, its own
\* among them perhaps.
Crowded ==
  \A c \in Callers :
    verdict[c].result = "refused" =>
      Cardinality({e \in counted[verdict[c].key] :
                     /\ e > verdict[c].now - Window
                     /\ e <= verdict[c].now + Lateness}) >= Limit

RedisInv == Bounded /\ Recorded /\ Forgotten /\ Kept_All
Inv == TypeOK /\ Timely /\ RedisInv /\ Crowded /\ Numbered

-----------------------------------------------------------------------------
\* The number of elements of a finite set is a natural number, and a part of it
\* has no more.
LEMMA PartIsSmaller ==
  ASSUME NEW S, NEW T, IsFiniteSet(T), S \subseteq T
  PROVE  /\ IsFiniteSet(S) /\ Cardinality(S) \in Nat /\ Cardinality(T) \in Nat
         /\ Cardinality(S) <= Cardinality(T)
  BY FS_Subset, FS_CardinalityType

\* A set with one element more has at most one element more.
LEMMA OneMore ==
  ASSUME NEW S, NEW x, IsFiniteSet(S)
  PROVE  /\ IsFiniteSet(S \cup {x})
         /\ Cardinality(S \cup {x}) \in Nat /\ Cardinality(S) \in Nat
         /\ Cardinality(S \cup {x}) <= Cardinality(S) + 1
  <1>1. Cardinality(S) \in Nat
    BY FS_CardinalityType
  <1>2. /\ IsFiniteSet(S \cup {x})
        /\ Cardinality(S \cup {x}) = IF x \in S THEN Cardinality(S) ELSE Cardinality(S) + 1
    BY FS_AddElement
  <1> QED BY <1>1, <1>2

\* What the script adds to the set.
Added(k, now) == IF Admits(k, now) THEN {now} ELSE {}

\* The script's effect, key by key.
LEMMA ScriptEffect ==
  ASSUME TypeOK, NEW k \in RateKeys, NEW now \in Nat, Script(k, now)
  PROVE  /\ zset' = [zset EXCEPT ![k] = Kept(k, now) \cup Added(k, now)]
         /\ deadline' = [deadline EXCEPT ![k] =
                            IF Added(k, now) = {} THEN deadline[k] ELSE clock + KeyTTL]
         /\ counted' = [counted EXCEPT ![k] = counted[k] \cup Added(k, now)]
         /\ Kept(k, now) \subseteq zset[k]
         /\ Added(k, now) \subseteq {now}
  BY DEF Script, Added, Kept, Live, TypeOK

\* The script keeps the types.
LEMMA ScriptType ==
  ASSUME TypeOK, NEW k \in RateKeys, NEW now \in Nat, Script(k, now)
  PROVE  /\ zset' \in [RateKeys -> SUBSET Nat]
         /\ deadline' \in [RateKeys -> Nat]
         /\ counted' \in [RateKeys -> SUBSET Nat]
  <1> USE RateLimiterAssumption
  <1>1. Kept(k, now) \in SUBSET Nat /\ Added(k, now) \in SUBSET Nat
    BY ScriptEffect DEF TypeOK
  <1>2. (Kept(k, now) \cup Added(k, now)) \in SUBSET Nat
        /\ (counted[k] \cup Added(k, now)) \in SUBSET Nat
    BY <1>1 DEF TypeOK
  <1>3. zset' \in [RateKeys -> SUBSET Nat] /\ counted' \in [RateKeys -> SUBSET Nat]
    BY <1>2, ScriptEffect DEF TypeOK
  <1>4. deadline' \in [RateKeys -> Nat]
    BY ScriptEffect DEF TypeOK
  <1> QED BY <1>3, <1>4

\* Type correctness.
LEMMA TypeStep == TypeOK /\ [Next]_vars => TypeOK'
  <1> SUFFICES ASSUME TypeOK, [Next]_vars PROVE TypeOK'
    OBVIOUS
  <1> USE RateLimiterAssumption
  <1>script. ASSUME NEW c \in Callers, Pending(c), Script(call[c].key, call[c].now)
             PROVE  /\ zset' \in [RateKeys -> SUBSET Nat]
                    /\ deadline' \in [RateKeys -> Nat]
                    /\ counted' \in [RateKeys -> SUBSET Nat]
    <2>1. call[c] \in Call
      BY <1>script DEF TypeOK, Pending, NoCall
    <2>2. call[c].key \in RateKeys /\ call[c].now \in Nat
      BY <2>1 DEF Call
    <2> QED BY <1>script, <2>2, ScriptType
  <1>finish. ASSUME NEW c \in Callers, Pending(c), NEW r \in {"allowed", "refused", "error"},
                    Finish(c, r)
             PROVE  /\ call' \in [Callers -> Call \cup {NoCall}]
                    /\ verdict' \in [Callers -> Verdict \cup {NoVerdict}]
    <2>1. call[c] \in Call
      BY <1>finish DEF TypeOK, Pending, NoCall
    <2>2. [result |-> r, key |-> call[c].key, now |-> call[c].now,
          passed |-> call[c].passed] \in Verdict
      BY <2>1 DEF Call, Verdict
    <2> QED BY <1>finish, <2>2 DEF Finish, TypeOK
  <1>1. ASSUME NEW c \in Callers, NEW k \in RateKeys, Allow(c, k) PROVE TypeOK'
    <2>1. [busy |-> TRUE, key |-> k, now |-> clock + skew[c], at |-> clock,
          passed |-> FALSE] \in Call
      BY DEF Call, TypeOK
    <2> QED BY <1>1, <2>1 DEF Allow, TypeOK, redis
  <1>2. ASSUME NEW c \in Callers, Eval(c) PROVE TypeOK'
    <2>1. (IF Admits(call[c].key, call[c].now) THEN "allowed" ELSE "refused")
            \in {"allowed", "refused", "error"}
      OBVIOUS
    <2> QED BY <1>2, <2>1, <1>script, <1>finish DEF Eval, TypeOK
  <1>3. ASSUME NEW c \in Callers, EvalLost(c) PROVE TypeOK'
    <2>1. Pending(c) /\ call[c] \in Call
      BY <1>3 DEF EvalLost, TypeOK, Pending, NoCall
    <2> DEFINE b == call[c].passed \/ Admits(call[c].key, call[c].now)
    <2>2. call' = [call EXCEPT ![c] = [call[c] EXCEPT !.passed = b]]
      BY <1>3 DEF EvalLost, TypeOK
    <2>3. b \in BOOLEAN
      OBVIOUS
    <2> HIDE DEF b
    <2>4. [call[c] EXCEPT !.passed = b] \in Call
      BY <2>1, <2>3 DEF Call
    <2>5. call' \in [Callers -> Call \cup {NoCall}]
      BY <2>2, <2>4 DEF TypeOK
    <2> QED BY <1>3, <2>1, <2>5, <1>script DEF EvalLost, TypeOK
  <1>4. ASSUME NEW c \in Callers, EvalFails(c) PROVE TypeOK'
    BY <1>4, <1>finish DEF EvalFails, TypeOK, redis
  <1>5. CASE Tick
    BY <1>5 DEF Tick, TypeOK, redis
  <1>6. CASE UNCHANGED vars
    BY <1>6 DEF vars, redis, TypeOK
  <1> QED BY <1>1, <1>2, <1>3, <1>4, <1>5, <1>6 DEF Next

-----------------------------------------------------------------------------
\* A reading that is not older than the client's timeouts keeps the limit: what
\* lies within Span of it is in the set.
LEMMA ScriptKeepsLimit ==
  ASSUME TypeOK, RedisInv, NEW k \in RateKeys, NEW now \in Nat, Script(k, now),
         now <= clock + MaxSkew, clock <= now + MaxDelay, UNCHANGED clock
  PROVE  RedisInv'
  <1> USE RateLimiterAssumption
  <1> DEFINE K == Kept(k, now)
             A == Added(k, now)
  <1>0. /\ clock \in Nat /\ zset[k] \subseteq Nat /\ counted[k] \subseteq Nat
        /\ deadline[k] \in Nat
    BY DEF TypeOK
  <1>1. /\ zset' = [zset EXCEPT ![k] = K \cup A]
        /\ deadline' = [deadline EXCEPT ![k] = IF A = {} THEN deadline[k] ELSE clock + KeyTTL]
        /\ counted' = [counted EXCEPT ![k] = counted[k] \cup A]
        /\ K \subseteq zset[k]
        /\ A \subseteq {now}
    BY ScriptEffect
  <1>2. \A e \in zset[k] : e \notin K => (e + Life <= clock + MaxSkew)
    <2> SUFFICES ASSUME NEW e \in zset[k], e \notin K PROVE e + Life <= clock + MaxSkew
      OBVIOUS
    <2>1. CASE clock < deadline[k]
      <3>1. ~(e > now - Window)
        BY <2>1 DEF Kept, Live
      <3> QED BY <3>1, <1>0 DEF Life
    <2>2. CASE ~(clock < deadline[k])
      <3>1. e + KeyTTL <= deadline[k] + MaxSkew
        BY DEF RedisInv, Recorded, Bounded
      <3> QED BY <3>1, <2>2, <1>0 DEF Life
    <2> QED BY <2>1, <2>2
  <1>3. /\ IsFiniteSet(counted[k]) /\ IsFiniteSet(zset[k]) /\ IsFiniteSet(K)
        /\ Cardinality(K) \in Nat /\ Cardinality(zset[k]) \in Nat
        /\ Cardinality(K) <= Limit
    <2>1. IsFiniteSet(counted[k]) /\ zset[k] \subseteq counted[k] /\ Cardinality(zset[k]) <= Limit
      BY DEF RedisInv, Bounded
    <2>2. IsFiniteSet(zset[k])
      BY <2>1, PartIsSmaller
    <2>3. IsFiniteSet(K) /\ Cardinality(K) \in Nat /\ Cardinality(zset[k]) \in Nat
          /\ Cardinality(K) <= Cardinality(zset[k])
      BY <2>2, <1>1, PartIsSmaller
    <2> QED BY <2>1, <2>2, <2>3
  <1>4. /\ IsFiniteSet(K \cup A) /\ Cardinality(K \cup A) \in Nat
        /\ Cardinality(K \cup A) <= Limit
        /\ IsFiniteSet(counted[k] \cup A)
    <2>1. CASE A = {}
      <3>1. K \cup A = K /\ counted[k] \cup A = counted[k]
        BY <2>1
      <3> QED BY <3>1, <1>3
    <2>2. CASE A # {}
      <3>1. Cardinality(K) < Limit /\ A = {now}
        BY <2>2 DEF Added, Admits
      <3> HIDE DEF K, A
      <3>2. /\ IsFiniteSet(K \cup {now}) /\ Cardinality(K \cup {now}) \in Nat
            /\ Cardinality(K \cup {now}) <= Cardinality(K) + 1
        BY <1>3, OneMore
      <3>3. IsFiniteSet(counted[k] \cup {now})
        BY <1>3, OneMore
      <3> QED BY <3>1, <3>2, <3>3, <1>3
    <2> QED BY <2>1, <2>2
  <1> HIDE DEF K, A
  <1>5. \A j \in RateKeys : j # k => /\ zset'[j] = zset[j] /\ counted'[j] = counted[j]
                                     /\ deadline'[j] = deadline[j]
    BY <1>1 DEF TypeOK
  <1>6. /\ zset'[k] = K \cup A /\ counted'[k] = counted[k] \cup A
        /\ deadline'[k] = IF A = {} THEN deadline[k] ELSE clock + KeyTTL
    BY <1>1 DEF TypeOK
  <1>7. Bounded'
    <2> SUFFICES ASSUME NEW j \in RateKeys
                 PROVE  /\ zset'[j] \subseteq counted'[j] /\ IsFiniteSet(counted'[j])
                        /\ Cardinality(zset'[j]) <= Limit
      BY DEF Bounded
    <2>1. CASE j = k
      <3>1. zset[k] \subseteq counted[k]
        BY DEF RedisInv, Bounded
      <3>2. K \cup A \subseteq counted[k] \cup A
        BY <3>1, <1>1
      <3> QED BY <3>2, <2>1, <1>6, <1>4
    <2>2. CASE j # k
      BY <2>2, <1>5 DEF RedisInv, Bounded
    <2> QED BY <2>1, <2>2
  <1>8. Recorded'
    <2> SUFFICES ASSUME NEW j \in RateKeys, NEW e \in counted'[j]
                 PROVE  /\ e <= clock + MaxSkew
                        /\ e \in zset'[j] => e + KeyTTL <= deadline'[j] + MaxSkew
      BY DEF Recorded
    <2>1. CASE j = k
      <3>1. e \in counted[k] \/ e = now
        BY <2>1, <1>6, <1>1
      <3>2. e \in Nat /\ e <= clock + MaxSkew
        BY <3>1, <1>0 DEF RedisInv, Recorded
      <3>3. ASSUME e \in zset'[k] PROVE e + KeyTTL <= deadline'[k] + MaxSkew
        <4>1. CASE A = {}
          <5>1. e \in zset[k]
            BY <3>3, <4>1, <1>6, <1>1
          <5>2. e \in counted[k]
            BY <5>1 DEF RedisInv, Bounded
          <5> QED BY <5>1, <5>2, <4>1, <1>6 DEF RedisInv, Recorded
        <4>2. CASE A # {}
          BY <4>2, <3>2, <1>6, <1>0
        <4> QED BY <4>1, <4>2
      <3> QED BY <2>1, <3>2, <3>3
    <2>2. CASE j # k
      BY <2>2, <1>5 DEF RedisInv, Recorded
    <2> QED BY <2>1, <2>2
  <1>9. Forgotten'
    <2> SUFFICES ASSUME NEW j \in RateKeys, NEW e \in counted'[j], e \notin zset'[j]
                 PROVE  e + Life <= clock + MaxSkew
      BY DEF Forgotten
    <2>1. CASE j = k
      <3>1. e \in counted[k] /\ e \notin K
        BY <2>1, <1>6
      <3>2. CASE e \in zset[k]
        BY <3>1, <3>2, <1>2
      <3>3. CASE e \notin zset[k]
        BY <3>1, <3>3 DEF RedisInv, Forgotten
      <3> QED BY <3>2, <3>3
    <2>2. CASE j # k
      BY <2>2, <1>5 DEF RedisInv, Forgotten
    <2> QED BY <2>1, <2>2
  <1>10. Kept_All'
    <2> SUFFICES ASSUME NEW j \in RateKeys, NEW a \in Int
                 PROVE  Cardinality(Within(j, a)') <= Limit
      BY DEF Kept_All
    <2>0. Cardinality(Within(j, a)) <= Limit
      BY DEF RedisInv, Kept_All
    <2>1. CASE j # k
      <3>1. Within(j, a)' = Within(j, a)
        BY <2>1, <1>5 DEF Within
      <3> QED BY <3>1, <2>0
    <2>2. CASE j = k /\ (A = {} \/ ~(a < now /\ now <= a + Span))
      <3>1. Within(k, a)' = Within(k, a)
        <4>1. counted'[k] \subseteq counted[k] \cup {now} /\ counted[k] \subseteq counted'[k]
          BY <1>6, <1>1
        <4>2. A = {} => counted'[k] = counted[k]
          BY <1>6
        <4> QED BY <4>1, <4>2, <2>2 DEF Within
      <3> QED BY <3>1, <2>0, <2>2
    <2>3. CASE j = k /\ a < now /\ now <= a + Span
      <3>1. Within(k, a)' \subseteq K \cup A
        <4> SUFFICES ASSUME NEW e \in counted'[k], a < e, e <= a + Span, e \notin K \cup A
                     PROVE  FALSE
          BY DEF Within
        <4>1. e \in counted[k] /\ e \in Nat
          BY <1>6, <1>0
        <4>2. e + Life <= clock + MaxSkew
          BY <1>9, <1>6 DEF Forgotten
        <4>3. Span = Life - (MaxSkew + MaxDelay) /\ Life \in Nat /\ Span \in Int
          BY DEF Span, Life, Lateness
        <4>4. a + Span < now
          BY <4>1, <4>2, <4>3, <1>0
        <4> QED BY <4>4, <4>3, <2>3
      <3>2. Cardinality(Within(k, a)') <= Cardinality(K \cup A) /\ Cardinality(Within(k, a)') \in Nat
        BY <3>1, <1>4, PartIsSmaller
      <3> QED BY <3>2, <1>4, <2>3
    <2> QED BY <2>1, <2>2, <2>3
  <1> QED BY <1>7, <1>8, <1>9, <1>10 DEF RedisInv

\* A script answers "refused" only with Limit readings near the request's.
LEMMA RefusedNearby ==
  ASSUME TypeOK, RedisInv, NEW k \in RateKeys, NEW now \in Nat, ~Admits(k, now),
         clock <= now + MaxDelay
  PROVE  Cardinality({e \in counted[k] : e > now - Window /\ e <= now + Lateness}) >= Limit
  <1> USE RateLimiterAssumption
  <1> DEFINE near == {e \in counted[k] : e > now - Window /\ e <= now + Lateness}
  <1>1. clock \in Nat /\ zset[k] \subseteq counted[k] /\ counted[k] \subseteq Nat
        /\ IsFiniteSet(counted[k]) /\ \A e \in counted[k] : e <= clock + MaxSkew
    BY DEF TypeOK, RedisInv, Bounded, Recorded
  <1>2. Kept(k, now) \subseteq near
    BY <1>1 DEF Kept, Live, Lateness
  <1>3. near \subseteq counted[k]
    OBVIOUS
  <1> HIDE DEF near
  <1>4. IsFiniteSet(near)
    BY <1>1, <1>3, PartIsSmaller
  <1>5. /\ Cardinality(Kept(k, now)) \in Nat /\ Cardinality(near) \in Nat
        /\ Cardinality(Kept(k, now)) <= Cardinality(near)
    BY <1>2, <1>4, PartIsSmaller
  <1>6. Cardinality(Kept(k, now)) >= Limit
    BY <1>5 DEF Admits
  <1>7. Cardinality(near) >= Limit
    BY <1>5, <1>6
  <1> QED BY <1>7 DEF near

\* Readings that were let through stay so: a refusal that was deserved stays so.
LEMMA DeservedStays ==
  ASSUME TypeOK, NEW k \in RateKeys, NEW now \in Nat, IsFiniteSet(counted'[k]),
         counted[k] \subseteq counted'[k],
         Cardinality({e \in counted[k] : e > now - Window /\ e <= now + Lateness}) >= Limit
  PROVE  Cardinality({e \in counted'[k] : e > now - Window /\ e <= now + Lateness}) >= Limit
  <1> USE RateLimiterAssumption
  <1> DEFINE P(S) == {e \in S : e > now - Window /\ e <= now + Lateness}
  <1>1. P(counted'[k]) \subseteq counted'[k] /\ P(counted[k]) \subseteq P(counted'[k])
    OBVIOUS
  <1> HIDE DEF P
  <1>2. IsFiniteSet(P(counted'[k]))
    BY <1>1, PartIsSmaller
  <1>3. /\ Cardinality(P(counted[k])) \in Nat /\ Cardinality(P(counted'[k])) \in Nat
        /\ Cardinality(P(counted[k])) <= Cardinality(P(counted'[k]))
    BY <1>1, <1>2, PartIsSmaller
  <1>4. Cardinality(P(counted[k])) >= Limit
    BY DEF P
  <1>5. Cardinality(P(counted'[k])) >= Limit
    BY <1>3, <1>4
  <1> QED BY <1>5 DEF P

\* A call that Redis is asked for has a reading within the client's timeouts.
LEMMA PendingReading ==
  ASSUME TypeOK, Timely, NEW c \in Callers, Pending(c)
  PROVE  /\ call[c].key \in RateKeys /\ call[c].now \in Nat
         /\ call[c].now <= clock + MaxSkew /\ clock <= call[c].now + MaxDelay
  <1>1. call[c] \in Call
    BY DEF TypeOK, Pending, NoCall
  <1>2. call[c].key \in RateKeys /\ call[c].now \in Nat /\ call[c].at \in Nat /\ clock \in Nat
    BY <1>1 DEF Call, TypeOK
  <1> QED BY <1>2, RateLimiterAssumption DEF Timely

\* Time passing takes nothing back from what Redis holds.
LEMMA TickKeeps == ASSUME TypeOK, RedisInv, Tick PROVE RedisInv'
  <1> USE RateLimiterAssumption
  <1>1. clock' = clock + 1 /\ clock \in Nat
        /\ zset' = zset /\ deadline' = deadline /\ counted' = counted
    BY DEF Tick, TypeOK, redis
  <1>2. \A k \in RateKeys : counted[k] \subseteq Nat
    BY DEF TypeOK
  <1>3. Bounded' /\ Kept_All'
    BY <1>1 DEF RedisInv, Bounded, Kept_All, Within
  <1>4. Life \in Nat
    BY DEF Life
  <1>5. Recorded'
    BY <1>1, <1>2 DEF RedisInv, Recorded
  <1>6. Forgotten'
    BY <1>1, <1>2, <1>4 DEF RedisInv, Forgotten
  <1> QED BY <1>3, <1>5, <1>6 DEF RedisInv

\* The invariants of the sorted set are kept by every step.
LEMMA RedisStep == TypeOK /\ Timely /\ RedisInv /\ [Next]_vars => RedisInv'
  <1> SUFFICES ASSUME TypeOK, Timely, RedisInv, [Next]_vars PROVE RedisInv'
    OBVIOUS
  <1>1. ASSUME NEW c \in Callers, Eval(c) \/ EvalLost(c) PROVE RedisInv'
    <2>1. Pending(c) /\ Script(call[c].key, call[c].now) /\ UNCHANGED clock
      BY <1>1 DEF Eval, EvalLost
    <2> QED BY <2>1, PendingReading, ScriptKeepsLimit
  <1>2. CASE UNCHANGED <<clock, redis>>
    BY <1>2 DEF redis, RedisInv, Bounded, Recorded, Forgotten, Kept_All, Within
  <1>3. CASE Tick
    BY <1>3, TickKeeps
  <1> QED BY <1>1, <1>2, <1>3 DEF Next, Allow, EvalFails, vars, redis

\* A step of a caller ends its call or keeps the call's reading.
LEMMA CallKept ==
  ASSUME TypeOK, NEW c \in Callers, NEW d \in Callers,
         Eval(c) \/ EvalLost(c) \/ EvalFails(c), Pending(d)'
  PROVE  /\ Pending(d) /\ call'[d].key = call[d].key
         /\ call'[d].now = call[d].now /\ call'[d].at = call[d].at
  <1>1. Pending(c)
    BY DEF Eval, EvalLost, EvalFails
  <1>2. CASE c # d
    BY <1>2 DEF Eval, EvalLost, EvalFails, Finish, TypeOK, Pending
  <1>3. CASE c = d
    <2>1. call'[d] # NoCall
      BY DEF Pending, NoCall
    <2>2. EvalLost(d)
      BY <2>1, <1>3 DEF Eval, EvalFails, Finish, TypeOK
    <2>3. call[d] \in Call
      BY <1>1, <1>3 DEF TypeOK, Pending, NoCall
    <2>4. call'[d] = [call[d] EXCEPT !.passed = @ \/ Admits(call[d].key, call[d].now)]
      BY <2>2 DEF EvalLost, TypeOK
    <2> QED BY <1>1, <1>3, <2>3, <2>4 DEF Call
  <1> QED BY <1>2, <1>3

\* Calls in progress keep their readings in time.
LEMMA TimelyStep == TypeOK /\ Timely /\ [Next]_vars => Timely'
  <1> SUFFICES ASSUME TypeOK, Timely, [Next]_vars, NEW d \in Callers, Pending(d)'
               PROVE  /\ call'[d].at <= call'[d].now
                      /\ call'[d].now <= clock' + MaxSkew
                      /\ clock' <= call'[d].at + MaxDelay
    BY DEF Timely
  <1> USE RateLimiterAssumption
  <1>1. ASSUME NEW c \in Callers, NEW k \in RateKeys, Allow(c, k), c = d
        PROVE  /\ call'[d].at <= call'[d].now
               /\ call'[d].now <= clock' + MaxSkew
               /\ clock' <= call'[d].at + MaxDelay
    BY <1>1 DEF Allow, TypeOK
  <1>2. CASE Tick
    <2>1. call' = call /\ clock' = clock + 1 /\ Pending(d) /\ clock < call[d].at + MaxDelay
      BY <1>2 DEF Tick, Pending
    <2>2. call[d] \in Call
      BY <2>1 DEF TypeOK, Pending, NoCall
    <2>3. call[d].at \in Nat /\ call[d].now \in Nat /\ clock \in Nat
      BY <2>2 DEF Call, TypeOK
    <2> QED BY <2>1, <2>3 DEF Timely
  <1>3. CASE /\ clock' = clock /\ Pending(d)
             /\ call'[d].now = call[d].now /\ call'[d].at = call[d].at
    BY <1>3 DEF Timely
  <1>4. ASSUME NEW c \in Callers, NEW k \in RateKeys, Allow(c, k), c # d
        PROVE  /\ clock' = clock /\ Pending(d)
               /\ call'[d].now = call[d].now /\ call'[d].at = call[d].at
    BY <1>4 DEF Allow, TypeOK, Pending
  <1>5. ASSUME NEW c \in Callers, Eval(c) \/ EvalLost(c) \/ EvalFails(c)
        PROVE  /\ clock' = clock /\ Pending(d)
               /\ call'[d].now = call[d].now /\ call'[d].at = call[d].at
    <2>1. clock' = clock
      BY <1>5 DEF Eval, EvalLost, EvalFails
    <2> QED BY <1>5, <2>1, CallKept
  <1>6. CASE UNCHANGED vars
    BY <1>6, <1>3 DEF vars, Pending
  <1> QED BY <1>1, <1>2, <1>3, <1>4, <1>5, <1>6 DEF Next

\* What the script has let through is never taken back.
LEMMA CountedGrows ==
  ASSUME TypeOK, Timely, [Next]_vars, NEW k \in RateKeys
  PROVE  counted[k] \subseteq counted'[k]
  <1>1. ASSUME NEW c \in Callers, Eval(c) \/ EvalLost(c) PROVE counted[k] \subseteq counted'[k]
    <2>1. Pending(c) /\ Script(call[c].key, call[c].now)
      BY <1>1 DEF Eval, EvalLost
    <2>2. call[c].key \in RateKeys /\ call[c].now \in Nat
      BY <2>1, PendingReading
    <2>3. counted' = [counted EXCEPT ![call[c].key] =
                        counted[call[c].key] \cup Added(call[c].key, call[c].now)]
      BY <2>1, <2>2, ScriptEffect
    <2> QED BY <2>2, <2>3 DEF TypeOK
  <1>2. CASE UNCHANGED counted
    BY <1>2
  <1> QED BY <1>1, <1>2 DEF Next, Allow, EvalFails, Tick, vars, redis

\* Refusals stay deserved, and a new one is.
LEMMA RefusalStep ==
  TypeOK /\ Timely /\ RedisInv /\ Crowded /\ [Next]_vars => Crowded'
  <1> SUFFICES ASSUME TypeOK, Timely, RedisInv, Crowded, [Next]_vars,
                      NEW d \in Callers, verdict'[d].result = "refused"
               PROVE  Cardinality({e \in counted'[verdict'[d].key] :
                                     /\ e > verdict'[d].now - Window
                                     /\ e <= verdict'[d].now + Lateness}) >= Limit
    BY DEF Crowded
  <1>0. TypeOK' /\ RedisInv'
    BY TypeStep, RedisStep
  <1>1. verdict'[d] \in Verdict
    BY <1>0 DEF TypeOK, NoVerdict
  <1>2. verdict'[d].key \in RateKeys /\ verdict'[d].now \in Nat
    BY <1>1 DEF Verdict
  <1>3. IsFiniteSet(counted'[verdict'[d].key])
    BY <1>0, <1>2 DEF RedisInv, Bounded
  <1>4. counted[verdict'[d].key] \subseteq counted'[verdict'[d].key]
    BY <1>2, CountedGrows
  <1>5. SUFFICES Cardinality({e \in counted[verdict'[d].key] :
                                e > verdict'[d].now - Window
                                /\ e <= verdict'[d].now + Lateness}) >= Limit
    BY <1>2, <1>3, <1>4, <1>5, DeservedStays
  <1>6. CASE verdict'[d] = verdict[d]
    BY <1>6 DEF Crowded
  <1>7. ASSUME NEW c \in Callers, Eval(c), c = d
        PROVE  Cardinality({e \in counted[verdict'[d].key] :
                              e > verdict'[d].now - Window
                              /\ e <= verdict'[d].now + Lateness}) >= Limit
    <2>1. /\ Pending(d)
          /\ verdict'[d] = [result |-> IF Admits(call[d].key, call[d].now)
                                       THEN "allowed" ELSE "refused",
                            key |-> call[d].key, now |-> call[d].now,
                            passed |-> call[d].passed]
      BY <1>7 DEF Eval, Finish, TypeOK
    <2>2. ~Admits(call[d].key, call[d].now)
      BY <2>1
    <2>3. verdict'[d].key = call[d].key /\ verdict'[d].now = call[d].now
      BY <2>1
    <2> QED BY <2>1, <2>2, <2>3, PendingReading, RefusedNearby
  <1>8. ASSUME NEW c \in Callers, EvalFails(c), c = d PROVE FALSE
    <2>1. verdict'[d].result = "error"
      BY <1>8 DEF EvalFails, Finish, TypeOK
    <2> QED BY <2>1
  <1>9. ASSUME NEW c \in Callers, Eval(c) \/ EvalFails(c), c # d PROVE verdict'[d] = verdict[d]
    BY <1>9 DEF Eval, EvalFails, Finish, TypeOK
  <1> QED BY <1>6, <1>7, <1>8, <1>9 DEF Next, Allow, EvalLost, Tick, vars

\* Each call takes one reading, and a script records no other.
LEMMA NumberedStep == TypeOK /\ Timely /\ Numbered /\ [Next]_vars => Numbered'
  <1> SUFFICES ASSUME TypeOK, Timely, Numbered, [Next]_vars, NEW k \in RateKeys
               PROVE  IsFiniteSet(Readings(k)') /\ Cardinality(Readings(k)') <= calls'[k]
    BY DEF Numbered
  <1>0. /\ IsFiniteSet(Readings(k)) /\ Cardinality(Readings(k)) <= calls[k]
        /\ calls[k] \in Nat /\ Cardinality(Readings(k)) \in Nat
    BY FS_CardinalityType, RateLimiterAssumption DEF Numbered, TypeOK
  <1>1. ASSUME Readings(k)' \subseteq Readings(k), calls'[k] = calls[k]
        PROVE  IsFiniteSet(Readings(k)') /\ Cardinality(Readings(k)') <= calls'[k]
    <2>1. /\ IsFiniteSet(Readings(k)') /\ Cardinality(Readings(k)') \in Nat
          /\ Cardinality(Readings(k)') <= Cardinality(Readings(k))
      BY <1>0, <1>1, PartIsSmaller
    <2> QED BY <2>1, <1>0, <1>1
  <1>2. ASSUME NEW c \in Callers, NEW j \in RateKeys, Allow(c, j)
        PROVE  IsFiniteSet(Readings(k)') /\ Cardinality(Readings(k)') <= calls'[k]
    <2> DEFINE r == clock + skew[c]
    <2>1. /\ call' = [call EXCEPT ![c] = [busy |-> TRUE, key |-> j, now |-> r, at |-> clock,
                                          passed |-> FALSE]]
          /\ counted' = counted /\ calls' = [calls EXCEPT ![j] = calls[j] + 1]
      BY <1>2 DEF Allow, redis, TypeOK
    <2>2. \A d \in Callers : d # c => call'[d] = call[d]
      BY <2>1 DEF TypeOK
    <2>3. call'[c] = [busy |-> TRUE, key |-> j, now |-> r, at |-> clock, passed |-> FALSE]
      BY <2>1 DEF TypeOK
    <2> HIDE DEF r
    <2>4. CASE j = k
      <3>1. Readings(k)' \subseteq Readings(k) \cup {r}
        BY <2>1, <2>2, <2>3 DEF Readings, Pending
      <3>2. /\ IsFiniteSet(Readings(k) \cup {r}) /\ Cardinality(Readings(k) \cup {r}) \in Nat
            /\ Cardinality(Readings(k) \cup {r}) <= Cardinality(Readings(k)) + 1
        BY <1>0, OneMore
      <3>3. /\ IsFiniteSet(Readings(k)') /\ Cardinality(Readings(k)') \in Nat
            /\ Cardinality(Readings(k)') <= Cardinality(Readings(k) \cup {r})
        BY <3>1, <3>2, PartIsSmaller
      <3>4. calls'[k] = calls[k] + 1
        BY <2>1, <2>4 DEF TypeOK
      <3> QED BY <3>2, <3>3, <3>4, <1>0
    <2>5. CASE j # k
      <3>1. Readings(k)' \subseteq Readings(k)
        BY <2>1, <2>2, <2>3, <2>5 DEF Readings, Pending
      <3>2. calls'[k] = calls[k]
        BY <2>1, <2>5 DEF TypeOK
      <3> QED BY <3>1, <3>2, <1>1
    <2> QED BY <2>4, <2>5
  <1>3. ASSUME NEW c \in Callers, Eval(c) \/ EvalLost(c)
        PROVE  Readings(k)' \subseteq Readings(k) /\ calls'[k] = calls[k]
    <2>1. Pending(c) /\ Script(call[c].key, call[c].now) /\ calls' = calls
      BY <1>3 DEF Eval, EvalLost
    <2>2. call[c].key \in RateKeys /\ call[c].now \in Nat
      BY <2>1, PendingReading
    <2>3. /\ counted' = [counted EXCEPT ![call[c].key] =
                           counted[call[c].key] \cup Added(call[c].key, call[c].now)]
          /\ Added(call[c].key, call[c].now) \subseteq {call[c].now}
      BY <2>1, <2>2, ScriptEffect
    <2>4. counted'[k] \subseteq Readings(k)
      <3>1. CASE call[c].key = k
        <4>1. call[c].now \in Readings(k)
          BY <3>1, <2>1 DEF Readings
        <4>2. counted'[k] \subseteq counted[k] \cup {call[c].now}
          BY <3>1, <2>2, <2>3 DEF TypeOK
        <4> QED BY <4>1, <4>2 DEF Readings
      <3>2. CASE call[c].key # k
        BY <3>2, <2>2, <2>3 DEF Readings, TypeOK
      <3> QED BY <3>1, <3>2
    <2>5. \A d \in Callers : Pending(d)' =>
            Pending(d) /\ call'[d].key = call[d].key /\ call'[d].now = call[d].now
      BY <1>3, CallKept DEF Pending
    <2> QED BY <2>1, <2>4, <2>5 DEF Readings, Pending
  <1>4. ASSUME NEW c \in Callers, EvalFails(c)
        PROVE  Readings(k)' \subseteq Readings(k) /\ calls'[k] = calls[k]
    <2>1. counted' = counted /\ calls' = calls
      BY <1>4 DEF EvalFails, redis
    <2>2. \A d \in Callers : Pending(d)' => call'[d] = call[d]
      BY <1>4 DEF EvalFails, Finish, Pending, NoCall, TypeOK
    <2> QED BY <2>1, <2>2 DEF Readings, Pending
  <1>5. CASE UNCHANGED <<counted, call, calls>>
    <2>1. Readings(k)' \subseteq Readings(k) /\ calls'[k] = calls[k]
      BY <1>5 DEF Readings, Pending
    <2> QED BY <2>1, <1>1
  <1> QED BY <1>1, <1>2, <1>3, <1>4, <1>5 DEF Next, Tick, vars, redis

-----------------------------------------------------------------------------
\* The inductive invariant holds in every state.
LEMMA Invariance == Spec => []Inv
  <1>1. Init => Inv
    <2> SUFFICES ASSUME Init PROVE Inv
      OBVIOUS
    <2> USE RateLimiterAssumption
    <2>0. IsFiniteSet({}) /\ Cardinality({}) = 0
      BY FS_EmptySet
    <2>1. TypeOK
      BY DEF Init, TypeOK
    <2>2. Timely
      BY DEF Init, Timely, Pending, NoCall
    <2>3. \A k \in RateKeys : zset[k] = {} /\ counted[k] = {} /\ calls[k] = 0
      BY DEF Init
    <2>4. Bounded /\ Recorded /\ Forgotten
      BY <2>0, <2>3 DEF Bounded, Recorded, Forgotten
    <2>5. Kept_All
      <3>1. \A k \in RateKeys, a \in Int : Within(k, a) = {}
        BY <2>3 DEF Within
      <3> QED BY <3>1, <2>0 DEF Kept_All
    <2>6. Crowded
      BY DEF Init, Crowded, NoVerdict
    <2>7. Numbered
      <3>1. \A k \in RateKeys : Readings(k) = {}
        BY <2>3 DEF Init, Readings, Pending, NoCall
      <3> QED BY <3>1, <2>0, <2>3 DEF Numbered
    <2> QED BY <2>1, <2>2, <2>4, <2>5, <2>6, <2>7 DEF Inv, RedisInv
  <1>2. Inv /\ [Next]_vars => Inv'
    BY TypeStep, TimelyStep, RedisStep, RefusalStep, NumberedStep DEF Inv
  <1> QED BY <1>1, <1>2, PTL DEF Spec

\* The values of the limiter's variables keep their types.
THEOREM TypeCorrect == Spec => []TypeOK
  <1>1. Inv => TypeOK
    BY DEF Inv
  <1> QED BY <1>1, Invariance, PTL

\* Whatever the order in which delayed scripts and skewed clocks reach Redis, no
\* interval of length Span sees more than Limit readings let through.
THEOREM LimitTheorem == Spec => []LimitIsKept
  <1>1. Inv => LimitIsKept
    <2> SUFFICES ASSUME Inv, NEW k \in RateKeys, NEW a \in -1..(MaxTime + MaxSkew)
                 PROVE  Cardinality({e \in counted[k] : a < e /\ e <= a + Span}) <= Limit
      BY DEF LimitIsKept
    <2>1. a \in Int
      BY RateLimiterAssumption
    <2> QED BY <2>1 DEF Inv, RedisInv, Kept_All, Within
  <1> QED BY <1>1, Invariance, PTL

\* A client is refused only after Limit other requests near its own were let
\* through, or Limit - 1 when a lost reply had let it through itself.
THEOREM RefusalTheorem == Spec => []RefusalIsDeserved
  <1>1. Inv => RefusalIsDeserved
    <2> SUFFICES ASSUME Inv, NEW c \in Callers, verdict[c].result = "refused"
                 PROVE  LET own    == IF verdict[c].passed THEN {verdict[c].now} ELSE {}
                            others == {e \in counted[verdict[c].key] \ own :
                                         /\ e > verdict[c].now - Window
                                         /\ e <= verdict[c].now + Lateness}
                        IN  Cardinality(others) >= Limit - Cardinality(own)
      BY DEF RefusalIsDeserved
    <2> DEFINE near == {e \in counted[verdict[c].key] :
                          /\ e > verdict[c].now - Window
                          /\ e <= verdict[c].now + Lateness}
               own == IF verdict[c].passed THEN {verdict[c].now} ELSE {}
               others == {e \in counted[verdict[c].key] \ own :
                            /\ e > verdict[c].now - Window
                            /\ e <= verdict[c].now + Lateness}
    <2>1. verdict[c] \in Verdict
      BY DEF Inv, TypeOK, NoVerdict
    <2>2. verdict[c].key \in RateKeys /\ verdict[c].passed \in BOOLEAN
      BY <2>1 DEF Verdict
    <2>3. near \subseteq counted[verdict[c].key] /\ IsFiniteSet(counted[verdict[c].key])
      BY <2>2 DEF Inv, RedisInv, Bounded
    <2>4. Cardinality(near) >= Limit
      BY DEF Inv, Crowded
    <2>5. others = near \ own
      OBVIOUS
    <2>6. own = {} \/ own = {verdict[c].now}
      OBVIOUS
    <2> HIDE DEF near, own, others
    <2>7. IsFiniteSet(near) /\ Cardinality(near) \in Nat
      BY <2>3, PartIsSmaller
    <2>8. Cardinality({}) = 0 /\ Cardinality({verdict[c].now}) = 1
      BY FS_EmptySet, FS_Singleton
    <2>9. CASE own = {}
      <3>1. others = near
        BY <2>5, <2>9
      <3> QED BY <3>1, <2>4, <2>7, <2>8, <2>9, RateLimiterAssumption DEF own, others
    <2>10. CASE own = {verdict[c].now}
      <3>1. others = near \ {verdict[c].now}
        BY <2>5, <2>10
      <3>2. Cardinality(others) = IF verdict[c].now \in near
                                  THEN Cardinality(near) - 1 ELSE Cardinality(near)
        BY <3>1, <2>7, FS_RemoveElement
      <3>3. Cardinality(others) >= Limit - 1
        BY <3>2, <2>4, <2>7, RateLimiterAssumption
      <3>4. Cardinality(own) = 1
        BY <2>8, <2>10
      <3>5. Cardinality(others) >= Limit - Cardinality(own)
        BY <3>3, <3>4
      <3> QED BY <3>5 DEF own, others
    <2> QED BY <2>6, <2>9, <2>10
  <1> QED BY <1>1, Invariance, PTL

\* A call of Allow takes at most one place, however often its script is resent.
THEOREM CallsCountOnceTheorem == Spec => []CallCountsOnce
  <1>1. Inv => CallCountsOnce
    <2> SUFFICES ASSUME Inv, NEW k \in RateKeys PROVE Cardinality(counted[k]) <= calls[k]
      BY DEF CallCountsOnce
    <2>1. IsFiniteSet(Readings(k)) /\ Cardinality(Readings(k)) <= calls[k] /\ calls[k] \in Nat
      BY RateLimiterAssumption DEF Inv, Numbered, TypeOK
    <2>2. counted[k] \subseteq Readings(k)
      BY DEF Readings
    <2>3. /\ Cardinality(counted[k]) \in Nat /\ Cardinality(Readings(k)) \in Nat
          /\ Cardinality(counted[k]) <= Cardinality(Readings(k))
      BY <2>1, <2>2, PartIsSmaller
    <2> QED BY <2>1, <2>3
  <1> QED BY <1>1, Invariance, PTL
=============================================================================
