------------------------------ MODULE RateLimiter ------------------------------
(***************************************************************************)
(* The sliding window that the verifiers of a deployment keep in one Redis *)
(* (internal/ratelimit/redis_limiter.go).  Allow reads the clock of its    *)
(* process, and that reading is the score and the member under which the   *)
(* Lua script records the request.  A script runs atomically, but in       *)
(* whichever order the calls reach Redis: readings of skewed clocks, and   *)
(* of calls that were delayed, arrive out of order.  The client library    *)
(* sends a script again, with the same arguments, when the reply is lost.  *)
(***************************************************************************)
EXTENDS Integers, FiniteSets

CONSTANTS
  Callers,    \* gateway handlers, of every verifier process
  RateKeys,   \* tenant and client address, as buildRateLimitKey joins them
  Limit,      \* RATELIMIT_REQUESTS
  Window,     \* RATELIMIT_WINDOW
  KeyTTL,     \* the hour after which Redis drops a key nobody was admitted under
  MaxSkew,    \* how far the clocks of the processes are apart
  MaxDelay,   \* longest time from the reading to the script (client timeouts)
  MaxTime,    \* bound: last clock value
  MaxCalls    \* bound: calls under each key

ASSUME RateLimiterAssumption ==
  /\ Limit \in Nat /\ Window \in Nat /\ KeyTTL \in Nat
  /\ MaxSkew \in Nat /\ MaxDelay \in Nat
  /\ MaxTime \in Nat /\ MaxCalls \in Nat

VARIABLES
  clock,    \* the clock of Redis
  skew,     \* skew[c]: how far the clock of c's process is ahead of it
  zset,     \* zset[k]: the members of the sorted set at k, each its own score
  deadline, \* deadline[k]: when the key expires
  call,     \* call[c]: the call of Allow in progress
  verdict,  \* verdict[c]: how c's last call ended
  counted,  \* counted[k]: the readings the script has let through (history)
  calls     \* calls[k]: calls of Allow(k) so far (history)

redis == <<zset, deadline, counted>>
vars == <<clock, skew, redis, call, verdict, calls>>

NoCall == [busy |-> FALSE]
\* passed: a script of the call has let it through, and the reply was lost
\* (history).
Call == [busy : {TRUE}, key : RateKeys, now : Nat, at : Nat, passed : BOOLEAN]
Pending(c) == call[c].busy

NoVerdict == [result |-> "none"]
Verdict ==
  [result : {"allowed", "refused", "error"}, key : RateKeys, now : Nat, passed : BOOLEAN]

TypeOK ==
  /\ clock \in 0..MaxTime
  /\ skew \in [Callers -> 0..MaxSkew]
  /\ zset \in [RateKeys -> SUBSET Nat]
  /\ deadline \in [RateKeys -> Nat]
  /\ call \in [Callers -> Call \cup {NoCall}]
  /\ verdict \in [Callers -> Verdict \cup {NoVerdict}]
  /\ counted \in [RateKeys -> SUBSET Nat]
  /\ calls \in [RateKeys -> 0..MaxCalls]

-----------------------------------------------------------------------------
(* The script *)

Live(k) == IF clock < deadline[k] THEN zset[k] ELSE {}

\* Fault: everything before the reading is purged, not what left the window.
Kept_NoWindow(k, now) == {e \in Live(k) : e > now}

\* ZREMRANGEBYSCORE key -inf window_start, the bound included.
Kept(k, now) == {e \in Live(k) : e > now - Window}

Admits(k, now) == Cardinality(Kept(k, now)) < Limit

\* Fault: refused requests are recorded as well and keep the window full.
Script_CountsRefused(k, now) ==
  /\ zset' = [zset EXCEPT ![k] = Kept(k, now) \cup {now}]
  /\ deadline' = [deadline EXCEPT ![k] = clock + KeyTTL]
  /\ counted' = [counted EXCEPT ![k] = IF Admits(k, now) THEN @ \cup {now} ELSE @]

\* Fault: the arguments are swapped, and the start of the window is recorded.
Script_SwappedArguments(k, now) ==
  LET added == IF Admits(k, now) THEN {now - Window} ELSE {}
  IN  /\ zset' = [zset EXCEPT ![k] = Kept(k, now) \cup added]
      /\ deadline' = [deadline EXCEPT ![k] = IF added = {} THEN @ ELSE clock + KeyTTL]
      /\ counted' = [counted EXCEPT ![k] = @ \cup added]

\* Fault: the script stamps the request with the time at which it runs.
Script_OwnClock(k, now) ==
  LET added == IF Admits(k, clock) THEN {clock} ELSE {}
  IN  /\ zset' = [zset EXCEPT ![k] = Kept(k, clock) \cup added]
      /\ deadline' = [deadline EXCEPT ![k] = IF added = {} THEN @ ELSE clock + KeyTTL]
      /\ counted' = [counted EXCEPT ![k] = @ \cup added]

\* Purge, count, and record the reading if there is room.  Only a request that
\* is let through extends the life of the key.
Script(k, now) ==
  LET added == IF Admits(k, now) THEN {now} ELSE {}
  IN  /\ zset' = [zset EXCEPT ![k] = Kept(k, now) \cup added]
      /\ deadline' = [deadline EXCEPT ![k] = IF added = {} THEN @ ELSE clock + KeyTTL]
      /\ counted' = [counted EXCEPT ![k] = @ \cup added]

-----------------------------------------------------------------------------
(* Allow *)

Finish(c, result) ==
  /\ call' = [call EXCEPT ![c] = NoCall]
  /\ verdict' = [verdict EXCEPT ![c] =
                   [result |-> result, key |-> call[c].key, now |-> call[c].now,
                    passed |-> call[c].passed]]

\* The clock is read before Redis is asked.
Allow(c, k) ==
  /\ ~Pending(c)
  /\ calls[k] < MaxCalls
  /\ call' = [call EXCEPT ![c] = [busy |-> TRUE, key |-> k, now |-> clock + skew[c],
                                  at |-> clock, passed |-> FALSE]]
  /\ calls' = [calls EXCEPT ![k] = @ + 1]
  /\ UNCHANGED <<clock, skew, redis, verdict>>

\* The script runs and its answer arrives.
Eval(c) ==
  /\ Pending(c)
  /\ Script(call[c].key, call[c].now)
  /\ Finish(c, IF Admits(call[c].key, call[c].now) THEN "allowed" ELSE "refused")
  /\ UNCHANGED <<clock, skew, calls>>

\* The script runs, its answer is lost, and the client will send it again.
EvalLost(c) ==
  /\ Pending(c)
  /\ Script(call[c].key, call[c].now)
  /\ call' = [call EXCEPT ![c].passed = @ \/ Admits(call[c].key, call[c].now)]
  /\ UNCHANGED <<clock, skew, verdict, calls>>

\* The client gives up, whether or not the script ran: an error, which the
\* gateway logs before it refuses the request.
EvalFails(c) ==
  /\ Pending(c)
  /\ Finish(c, "error")
  /\ UNCHANGED <<clock, skew, redis, calls>>

\* A call that is under way is over within the client's timeouts.
Tick ==
  /\ clock < MaxTime
  /\ \A c \in Callers : Pending(c) => clock < call[c].at + MaxDelay
  /\ clock' = clock + 1
  /\ UNCHANGED <<skew, redis, call, verdict, calls>>

Init ==
  /\ clock = 0
  /\ skew \in [Callers -> 0..MaxSkew]
  /\ zset = [k \in RateKeys |-> {}]
  /\ deadline = [k \in RateKeys |-> 0]
  /\ call = [c \in Callers |-> NoCall]
  /\ verdict = [c \in Callers |-> NoVerdict]
  /\ counted = [k \in RateKeys |-> {}]
  /\ calls = [k \in RateKeys |-> 0]

Next ==
  \/ \E c \in Callers, k \in RateKeys : Allow(c, k)
  \/ \E c \in Callers : Eval(c) \/ EvalLost(c) \/ EvalFails(c)
  \/ Tick

Spec == Init /\ [][Next]_vars

-----------------------------------------------------------------------------
(* Properties *)

Lateness == MaxSkew + MaxDelay

\* The span over which the limit is kept: the window, or the life of a key if
\* that is shorter, less what readings may be out of order by.
Span == (IF Window < KeyTTL THEN Window ELSE KeyTTL) - Lateness

\* Over no interval of that span are more than Limit readings let through, in
\* whichever order the scripts run (redis_limiter.go:72-94).  Requests of equal
\* readings are one member of the set and count once.
LimitIsKept ==
  \A k \in RateKeys : \A a \in -1..(MaxTime + MaxSkew) :
    Cardinality({e \in counted[k] : a < e /\ e <= a + Span}) <= Limit

\* A request is refused only if Limit other requests were let through in the
\* window before it, or so close after it that they overtook it: refused requests,
\* and a key's earlier bursts, do not count against a client
\* (redis_limiter.go:82-95).  A call whose script let it through with the reply
\* lost is the exception: the repeated script finds the call's own reading in the
\* set, and Limit - 1 others are enough for it to be refused (88-98).
RefusalIsDeserved ==
  \A c \in Callers :
    verdict[c].result = "refused" =>
      LET own    == IF verdict[c].passed THEN {verdict[c].now} ELSE {}
          others == {e \in counted[verdict[c].key] \ own :
                       /\ e > verdict[c].now - Window
                       /\ e <= verdict[c].now + Lateness}
      IN  Cardinality(others) >= Limit - Cardinality(own)

\* A call takes one place in the window, however often its script is sent
\* again: the reading is taken once and names the member (redis_limiter.go:90-99).
CallCountsOnce ==
  \A k \in RateKeys : Cardinality(counted[k]) <= calls[k]
=============================================================================
