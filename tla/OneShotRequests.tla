---------------------------- MODULE OneShotRequests ----------------------------
(***************************************************************************)
(* What the OIDC4VP request store promises the verifier's frontend: an     *)
(* authorization request, once saved, can be answered by one verified      *)
(* response and by no other, until it is saved again.                      *)
(***************************************************************************)
EXTENDS Naturals

CONSTANT States \* the state values that name authorization requests

VARIABLES
  phase,   \* phase[s]: "none", "open" or "consumed"
  verified \* verified[s]: the verified responses to s so far

vars == <<phase, verified>>

TypeOK ==
  /\ phase \in [States -> {"none", "open", "consumed"}]
  /\ verified \in [States -> Nat]

Init ==
  /\ phase = [s \in States |-> "none"]
  /\ verified = [s \in States |-> 0]

Open(s) ==
  /\ phase' = [phase EXCEPT ![s] = "open"]
  /\ UNCHANGED verified

\* The only way a response is verified.
Consume(s) ==
  /\ phase[s] = "open"
  /\ phase' = [phase EXCEPT ![s] = "consumed"]
  /\ verified' = [verified EXCEPT ![s] = @ + 1]

\* The store is kept in memory.
Forget ==
  /\ phase' = [s \in States |-> "none"]
  /\ UNCHANGED verified

Next == Forget \/ \E s \in States : Open(s) \/ Consume(s)

Spec == Init /\ [][Next]_vars
=============================================================================
