------------------------------ MODULE PolicyStore ------------------------------
(***************************************************************************)
(* The policies of all tenants: the admin API that edits them              *)
(* (internal/httpserver/policy_admin_handlers.go), the two stores behind   *)
(* it (internal/policy/store_memory.go, store_pg.go) and the seeding of    *)
(* the demo policy when the verifier starts (services/verifier/server.go). *)
(* Every store operation is one step: it holds the store's mutex, or is    *)
(* one SQL statement.  Who may call the admin API is VerifyEndpoint's.     *)
(***************************************************************************)
EXTENDS PolicyEngine, Tenancy

CONSTANTS
  Stores,     \* the kinds of store considered: TRUE, Postgres; FALSE, memory
  Bodies,     \* valid request bodies: policies without id and tenant
  DemoPolicy, \* the body NewServer seeds
  Inputs,     \* inputs the engine is asked about
  MaxId,      \* bound: ids handed out
  MaxRestarts \* bound: restarts of the verifier

\* A body with the identity the store gives it.
Stored(id, t, body) ==
  [f \in DOMAIN body \cup {"id", "tenant"} |->
     IF f = "id" THEN id ELSE IF f = "tenant" THEN t ELSE body[f]]

ASSUME PolicyStoreAssumption ==
  /\ Stores \subseteq BOOLEAN
  /\ \A id \in 1..MaxId, t \in Tenants, b \in Bodies \cup {DemoPolicy} :
       "id" \notin DOMAIN b /\ "tenant" \notin DOMAIN b /\ Stored(id, t, b) \in Policy(Tenants)
  /\ MaxId \in Nat \ {0} /\ MaxRestarts \in Nat

VARIABLES
  persistent, \* cfg.DB_DSN is set: Postgres, otherwise the memory store
  policies,   \* the stored policies
  nextID,     \* the next id to hand out
  restarts,   \* restarts so far
  last        \* the last operation: its name, tenant and result

storeVars == <<persistent, policies, nextID, restarts, last>>

Result(op, t, outcome) == [op |-> op, tenant |-> t, outcome |-> outcome]

StoreTypeOK ==
  /\ persistent \in Stores
  /\ policies \subseteq {Stored(id, t, b) : id \in 1..MaxId, t \in Tenants,
                                b \in Bodies \cup {DemoPolicy}}
  /\ nextID \in 1..(MaxId + 1)
  /\ restarts \in 0..MaxRestarts
  /\ last \in [op : {"create", "update", "delete", "restart"}, tenant : Tenants,
               outcome : {"ok", "not_found"}]

-----------------------------------------------------------------------------
Find(t, id) == {p \in policies : p.tenant = t /\ p.id = id}

\* Fault: the lowest free id is handed out, so a deleted policy's id returns.
CreatePolicy_ReusesIds(t, body) ==
  /\ nextID <= MaxId
  /\ LET id == CHOOSE i \in 1..MaxId : /\ \A p \in policies : p.id # i
                                       /\ \A j \in 1..(i - 1) : \E p \in policies : p.id = j
     IN  policies' = policies \cup {Stored(id, t, body)}
  /\ nextID' = nextID + 1
  /\ last' = Result("create", t, "ok")
  /\ UNCHANGED <<restarts, persistent>>

\* Fault: the policy is stored before an id is assigned to it.
CreatePolicy_NoId(t, body) ==
  /\ nextID <= MaxId
  /\ policies' = policies \cup {Stored(0, t, body)}
  /\ nextID' = nextID + 1
  /\ last' = Result("create", t, "ok")
  /\ UNCHANGED <<restarts, persistent>>

\* POST /v1/admin/policies.
CreatePolicy(t, body) ==
  /\ nextID <= MaxId
  /\ policies' = policies \cup {Stored(nextID, t, body)}
  /\ nextID' = nextID + 1
  /\ last' = Result("create", t, "ok")
  /\ UNCHANGED <<restarts, persistent>>

\* Fault: the row is found by its id alone and keeps the caller's tenant.
UpdatePolicy_AnyTenant(t, id, body) ==
  LET found == {p \in policies : p.id = id}
  IN  /\ policies' = IF found = {} THEN policies
                     ELSE (policies \ found) \cup {Stored(id, t, body)}
      /\ last' = Result("update", t, IF found = {} THEN "not_found" ELSE "ok")
      /\ UNCHANGED <<nextID, restarts, persistent>>

\* PUT /v1/admin/policies/{id} replaces every field of the policy.
UpdatePolicy(t, id, body) ==
  LET found == Find(t, id)
  IN  /\ policies' = IF found = {} THEN policies
                     ELSE (policies \ found) \cup {Stored(id, t, body)}
      /\ last' = Result("update", t, IF found = {} THEN "not_found" ELSE "ok")
      /\ UNCHANGED <<nextID, restarts, persistent>>

\* DELETE /v1/admin/policies/{id}.
DeletePolicy(t, id) ==
  LET found == Find(t, id)
  IN  /\ policies' = policies \ found
      /\ last' = Result("delete", t, IF found = {} THEN "not_found" ELSE "ok")
      /\ UNCHANGED <<nextID, restarts, persistent>>

\* NewServer opens the store and creates the demo policy, whatever it finds.
Restart ==
  LET kept == IF persistent THEN policies ELSE {}
      id   == IF persistent THEN nextID ELSE 1
  IN  /\ restarts < MaxRestarts /\ id <= MaxId
      /\ policies' = kept \cup {Stored(id, DefaultTenant, DemoPolicy)}
      /\ nextID' = id + 1
      /\ restarts' = restarts + 1
      /\ last' = Result("restart", DefaultTenant, "ok")
      /\ UNCHANGED persistent

StoreInit ==
  /\ persistent \in Stores
  /\ policies = {Stored(1, DefaultTenant, DemoPolicy)}
  /\ nextID = 2
  /\ restarts = 0
  /\ last = Result("restart", DefaultTenant, "ok")

\* A request to the admin API that its handlers serve for tenant t.
AdminRequest(t) ==
  \/ \E b \in Bodies : CreatePolicy(t, b)
  \/ \E id \in 1..MaxId, b \in Bodies : UpdatePolicy(t, id, b)
  \/ \E id \in 1..MaxId : DeletePolicy(t, id)

StoreNext == (\E t \in Tenants : AdminRequest(t)) \/ Restart

StoreSpec == StoreInit /\ [][StoreNext]_storeVars

-----------------------------------------------------------------------------
(* Properties *)

\* The decision the evaluation rules of docs/POLICY_ENGINE.md give: a matching
\* deny decides, whatever its priority; otherwise the first matching allow.
RuleDecision(input) ==
  LET matching == {p \in policies : p.tenant = input.tenant /\ Matches(p, input)}
      of(effect) == {p \in matching : p.effect = effect}
      first(S) == CHOOSE p \in S : \A q \in S : q = p \/ Before(p, q)
  IN  IF of("deny") # {} THEN Denied("policy_deny", first(of("deny")).id)
      ELSE IF of("allow") # {} THEN Allowed(first(of("allow")).id)
      ELSE Denied("no_matching_policy", NoPolicy)

\* The engine's sort and scan (engine_impl.go:37-58) decide by those rules and
\* name the same policy, for every set of policies the admin API can build.
EvaluateFollowsRules ==
  \A input \in Inputs : Evaluate(policies, input) = RuleDecision(input)

\* An admin request of one tenant changes no decision of another tenant: ids
\* are handed out across tenants, so a tenant can name another's policy.
TenantsDecideAlone ==
  [][\A input \in Inputs :
       input.tenant # last'.tenant
         => Evaluate(policies', input) = Evaluate(policies, input)
            \/ last'.op = "restart"]_storeVars

\* While the verifier runs, an id that a decision reported never comes to name
\* a policy created later, or one of another tenant.
IdsNameOnePolicy ==
  [][last'.op # "restart" =>
       /\ \A p, q \in policies' : p.id = q.id => p = q
       /\ \A p \in policies' :
            p.id < nextID => \E q \in policies : q.id = p.id /\ q.tenant = p.tenant]_storeVars
=============================================================================
