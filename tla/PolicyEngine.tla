----------------------------- MODULE PolicyEngine -----------------------------
(***************************************************************************)
(* EngineV1.Evaluate (internal/policy/engine_impl.go): the decision the    *)
(* policies of a tenant give for one input.                                *)
(*                                                                         *)
(* A policy is a record                                                    *)
(*   [id, tenant, name, effect, actions, resources, subjects, conditions,  *)
(*    priority, enabled]                                                   *)
(* whose actions, resources and subjects are sets.  Actions and resources  *)
(* are sequences of symbols.  A resource pattern is                        *)
(* [path |-> a sequence, star |-> whether it ended in "*"]; a subject is   *)
(* [kind |-> "any" | "did" | "role", name |-> ...]; conditions is          *)
(* [scopeContains |-> a set of scopes, claimEquals |-> a set of claims,    *)
(* unknown |-> whether it has a key the engine does not know or a value of *)
(* the wrong shape].  Names compared without regard to case are taken in   *)
(* one case.  An input is [tenant, subject, scope, claims, resource,       *)
(* action]; claims is a set that holds <<name, value>> for a claim with    *)
(* one value and <<name, "[]", value>> for each element of a list.         *)
(***************************************************************************)
EXTENDS Integers, Sequences, FiniteSets
LOCAL INSTANCE SequencesExt

Policy(Tenants) ==
  [id         : Nat,
   tenant     : Tenants,
   name       : STRING,
   effect     : {"allow", "deny"},
   actions    : SUBSET Seq(STRING),
   resources  : SUBSET [path : Seq(STRING), star : BOOLEAN],
   subjects   : SUBSET [kind : {"any", "did", "role"}, name : STRING],
   conditions : [scopeContains : SUBSET STRING, claimEquals : SUBSET (STRING \X STRING),
                 unknown : BOOLEAN],
   priority   : Int,
   enabled    : BOOLEAN]

matchesAction(p, action) == action \in p.actions

matchesResource(p, resource) ==
  \E r \in p.resources :
    r.path = resource \/ (r.star /\ IsPrefix(r.path, resource))

hasRole(claims, role) == <<"roles", "[]", role>> \in claims

matchesSubject(p, subject, claims) ==
  \E s \in p.subjects :
    \/ s.kind = "any"
    \/ s.kind = "did" /\ s.name = subject
    \/ s.kind = "role" /\ hasRole(claims, s.name)

\* claim_equals asks for the claim itself, never for an element of a list.
matchesConditions(p, input) ==
  /\ ~p.conditions.unknown
  /\ p.conditions.scopeContains \subseteq input.scope
  /\ p.conditions.claimEquals \subseteq input.claims

\* Does an enabled policy of the tenant apply to the input?
Matches(p, input) ==
  /\ p.enabled
  /\ matchesAction(p, input.action)
  /\ matchesResource(p, input.resource)
  /\ matchesSubject(p, input.subject, input.claims)
  /\ matchesConditions(p, input)

ListPoliciesForTenant(policies, tenant) == {p \in policies : p.tenant = tenant}

filterMatchingPolicies(policies, input) == {p \in policies : Matches(p, input)}

\* The order of evaluation: priority, then id.
Before(p, q) ==
  p.priority < q.priority \/ (p.priority = q.priority /\ p.id < q.id)

\* The matches in that order: a policy's place is the number of those before it.
sortPolicies(S) ==
  [i \in 1..Cardinality(S) |->
     CHOOSE p \in S : Cardinality({q \in S : Before(q, p)}) = i - 1]

NoPolicy == 0

Denied(reason, id) == [allow |-> FALSE, reason |-> reason, policyId |-> id]
Allowed(id) == [allow |-> TRUE, reason |-> "policy_allow", policyId |-> id]

\* Fault: the first matching policy decides.
Scan_FirstMatchWins(order) ==
  IF order = <<>> THEN Denied("no_matching_policy", NoPolicy)
  ELSE IF order[1].effect = "deny" THEN Denied("policy_deny", order[1].id)
  ELSE Allowed(order[1].id)

\* The scan of the sorted matches: it returns at a deny, and otherwise
\* remembers the first allow until the end.
Scan(order) ==
  LET at(effect) == {i \in DOMAIN order : order[i].effect = effect}
      first(I)   == CHOOSE i \in I : \A j \in I : i <= j
  IN  IF order = <<>> THEN Denied("no_matching_policy", NoPolicy)
      ELSE IF at("deny") # {}
        THEN Denied("policy_deny", order[first(at("deny"))].id)
      ELSE IF at("allow") # {} THEN Allowed(order[first(at("allow"))].id)
      ELSE Denied("no_allowing_policy", NoPolicy)

Evaluate(policies, input) ==
  Scan(sortPolicies(
         filterMatchingPolicies(ListPoliciesForTenant(policies, input.tenant), input)))
=============================================================================
