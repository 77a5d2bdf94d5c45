------------------------------- MODULE MCGateway -------------------------------
(***************************************************************************)
(* Small instances of Gateway.                                             *)
(***************************************************************************)
EXTENDS Gateway, TLC

MCDids == {"issuer"}
MCKeys == {"k1"}
MCScopes == {"read", "write"}
MCAudiences == {"api"}
MCClaims == {}
MCTimes == 0..4
MCTokens == {"root", "leaf", "bare", "open"}
MCKeyOf == [d \in MCDids |-> "k1"]
MCTenants == {"default", "acme"}
MCName == [n \in {"default", "acme", "api", "none"} |->
             IF n = "none" THEN <<>> ELSE <<n>>]
MCSynthetic == <<"synthetic">>

Root ==
  [format |-> "w3c", wellFormed |-> TRUE, depth |-> 0, issuer |-> "issuer",
   signedBy |-> "k1", subject |-> "issuer", scope |-> {"read", "write"},
   aud |-> "api", claims |-> {}, iat |-> 0, exp |-> 3, expiresAt |-> 0,
   digests |-> {}, disclosures |-> <<>>]

\* A root; a narrower credential that expires earlier; one without a scope; one
\* without an expiry.
MCCred ==
  [t \in MCTokens |->
     CASE t = "root" -> Root
       [] t = "leaf" -> [Root EXCEPT !.exp = 2, !.scope = {"read"}]
       [] t = "bare" -> [Root EXCEPT !.exp = 2, !.scope = {}]
       [] t = "open" -> [Root EXCEPT !.exp = 0]]

MCRegistries == {[t \in MCTenants |-> MCDids]}

AnySubject == [kind |-> "any", name |-> "*"]

AllowRead ==
  [id |-> 1, tenant |-> "acme", name |-> "allow", effect |-> "allow",
   actions |-> {<<"r">>, <<"x", "r">>}, resources |-> {[path |-> <<>>, star |-> TRUE]},
   subjects |-> {AnySubject}, priority |-> 1, enabled |-> TRUE,
   conditions |-> [scopeContains |-> {}, claimEquals |-> {}, unknown |-> FALSE]]

MCPolicySets == {{AllowRead}, {AllowRead, [AllowRead EXCEPT !.id = 2, !.effect = "deny"]}}

Request(chain, synthetic) ==
  [tenant |-> "acme", chain |-> chain, aud |-> "none", resource |-> <<"o">>,
   action |-> <<"r">>, synthetic |-> synthetic]

HandlerSymmetry == Permutations(Handlers)

\* A chain that narrows, with a synthetic JWT: no expiry at its root, then two
\* that the run reaches.  One whose leaf has a scope and its parent none; and a
\* request that is not valid.
MCRequests ==
  {Request(<<"open", "root", "bare">>, TRUE), Request(<<"bare", "leaf">>, FALSE),
   Request(<<>>, FALSE)}

\* Two requests whose resource and action read the same in a row.
MCRunOn ==
  {[Request(<<"root", "leaf">>, FALSE) EXCEPT !.resource = <<"o", "x">>],
   [Request(<<"root", "leaf">>, FALSE) EXCEPT !.action = <<"x", "r">>]}
=============================================================================
