----------------------------- MODULE MCPolicyStore -----------------------------
(***************************************************************************)
(* Small instances of PolicyStore.                                         *)
(***************************************************************************)
EXTENDS PolicyStore

MCTenants == {"default", "acme"}

Any == [kind |-> "any", name |-> "*"]
Agent == [kind |-> "role", name |-> "agent"]
NoConditions == [scopeContains |-> {}, claimEquals |-> {}, unknown |-> FALSE]

MCDemoPolicy ==
  [name |-> "demo-read-orders", effect |-> "allow", actions |-> {<<"read">>},
   resources |-> {[path |-> <<"orders">>, star |-> FALSE]}, subjects |-> {Any},
   conditions |-> NoConditions, priority |-> 100, enabled |-> TRUE]

\* A late freeze of everything; an allow of a subtree for a
\* role, a scope and a claim, evaluated first; a policy the engine must skip.
MCBodies ==
  {[MCDemoPolicy EXCEPT !.name = "freeze", !.effect = "deny",
      !.resources = {[path |-> <<>>, star |-> TRUE]}, !.priority = 200],
   [MCDemoPolicy EXCEPT !.name = "agents",
      !.resources = {[path |-> <<"orders">>, star |-> TRUE]}, !.subjects = {Agent},
      !.conditions.scopeContains = {"orders:read"},
      !.conditions.claimEquals = {<<"dept", "sales">>}, !.priority = 1],
   [MCDemoPolicy EXCEPT !.name = "skipped", !.effect = "deny",
      !.conditions.unknown = TRUE, !.priority = 1]}

Sales == {<<"roles", "[]", "agent">>, <<"dept", "sales">>}

Input(t, path, scope, claims) ==
  [tenant |-> t, subject |-> "did", scope |-> scope, claims |-> claims,
   resource |-> path, action |-> <<"read">>]

MCInputs ==
  {Input(t, path, scope, claims) :
     t \in MCTenants, path \in {<<"orders">>, <<"orders", "1">>},
     scope \in {{}, {"orders:read"}}, claims \in {{}, Sales}}
=============================================================================
