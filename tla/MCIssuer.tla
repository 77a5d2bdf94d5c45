------------------------------- MODULE MCIssuer -------------------------------
(***************************************************************************)
(* Small instances of Issuer.                                              *)
(***************************************************************************)
EXTENDS Issuer, TLC

MCKeys == 1..3
Alice == 4
MCDids == 1..4
MCTenants == {"default", "acme"}

Request(kind, tenant, ttl, scope) ==
  [kind |-> kind, tenant |-> tenant, subject |-> Alice, ttl |-> ttl, scope |-> scope,
   aud |-> IF kind = "issue" THEN "api" ELSE "none", claims |-> scope # {}, sd |-> FALSE]

\* Credentials of both tenants, delegations that one asks for, of either's, a
\* bootstrap, whose credential has no scope, and lifetimes that wrap: 17 to half
\* a second, -31 to two and -15 to one and a half, while -2 stays negative.
MCRequests ==
  {Request("issue", "default", 2, {"read", "write"}), Request("issue", "acme", -31, {"read"}),
   Request("delegate", "default", -15, {"read"}), Request("delegate", "default", -2, {"read"}),
   Request("issue", "default", 17, {"read"}), Request("bootstrap", "default", 0, {})}

\* The first credentials of one tenant, one of them an SD-JWT.
MCFirstRequests ==
  {Request("issue", "default", 2, {"read", "write"}),
   [Request("issue", "default", 2, {"read"}) EXCEPT !.sd = TRUE]}

\* A credential and a delegation of it.
MCDelegationRequests ==
  {Request("issue", "default", 2, {"read", "write"}),
   Request("delegate", "default", 2, {"read"})}

HandlerSymmetry == Permutations(Handlers)
=============================================================================
