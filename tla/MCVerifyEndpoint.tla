--------------------------- MODULE MCVerifyEndpoint ---------------------------
(***************************************************************************)
(* Small instances of VerifyEndpoint.                                      *)
(***************************************************************************)
EXTENDS VerifyEndpoint

MCDids == {"issuer", "partner"}
MCKeys == {"k1", "k2", "rsa"}
MCEd25519Keys == {"k1", "k2"}
MCScopes == {"read", "write"}
MCAudiences == {"api"}
MCClaims == {<<"vc_type", "admin">>, <<"admin_roles", "[]", "super-admin">>}
MCTimes == 0..4
MCTenants == {"default", "acme"}
Enabled == [t \in MCTenants |-> "enabled"]

\* Every tenant enabled, and a header required; or the other tenant disabled.
MCDeployments ==
  {[mode |-> "multi", table |-> Enabled],
   [mode |-> "single", table |-> [Enabled EXCEPT !["acme"] = "disabled"]]}
MCKeyOf == [d \in MCDids |-> IF d = "issuer" THEN "k1" ELSE "k2"]

Root ==
  [format |-> "w3c", wellFormed |-> TRUE, depth |-> 0, issuer |-> "issuer",
   signedBy |-> "k1", subject |-> "issuer", scope |-> {"read", "write"},
   aud |-> "api", claims |-> MCClaims, iat |-> 1, exp |-> 4, expiresAt |-> 0,
   digests |-> {}, disclosures |-> <<>>]

ScopeDisclosure == [claim |-> "scope", scope |-> {"read"}, aud |-> "none"]

\* A root that expires; the same of a partner; a delegated credential that
\* expires earlier; one without an expiry or a scope; a legacy one whose own
\* field and exp differ and whose scope is disclosed; and one that is refused
\* first for its issue time and then for a missing disclosure.  Some would let
\* their bearer administer, one names no role and one is no admin credential.
MCTokens ==
  {Root,
   [Root EXCEPT !.issuer = "partner", !.signedBy = "k2"],
   [Root EXCEPT !.exp = 3, !.scope = {"read"}, !.aud = "none",
                !.claims = {<<"vc_type", "admin">>}],
   [Root EXCEPT !.exp = 0, !.scope = {}, !.claims = {}],
   [Root EXCEPT !.format = "legacy", !.expiresAt = 2, !.scope = {},
                !.digests = {ScopeDisclosure}, !.disclosures = <<ScopeDisclosure>>],
   [Root EXCEPT !.format = "legacy", !.digests = {ScopeDisclosure}, !.iat = 4]}

\* The tenants trust one issuer each.  The other tenant's is of no use to it until
\* the default tenant's registry holds it too.
MCRegistries == {[t \in MCTenants |-> IF t = "default" THEN {"partner"} ELSE {"issuer"}]}

\* The policy the service seeds, and one an administrator may put in its place.
MCDemoPolicy ==
  [name |-> "demo-read-orders", effect |-> "allow", actions |-> {<<"read">>},
   resources |-> {[path |-> <<"orders">>, star |-> FALSE]},
   subjects |-> {[kind |-> "any", name |-> "*"]},
   conditions |-> [scopeContains |-> {}, claimEquals |-> {}, unknown |-> FALSE],
   priority |-> 100, enabled |-> TRUE]
MCBodies == {[MCDemoPolicy EXCEPT !.effect = "deny"]}
=============================================================================
