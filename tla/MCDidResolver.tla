----------------------------- MODULE MCDidResolver -----------------------------
(***************************************************************************)
(* A small instance of DidResolver.                                        *)
(***************************************************************************)
EXTENDS DidResolver

Key(x) == [kty |-> "OKP", crv |-> "Ed25519", x |-> x]
Exchange(x) == [kty |-> "OKP", crv |-> "X25519", x |-> x]

\* A did:jwk that is supported and one that is not; a did:web whose port is
\* escaped, and one without a host.
MCJwkDids == {[method |-> "jwk", jwk |-> Key("k0")], [method |-> "jwk", jwk |-> Exchange("e0")]}
MCWebDids ==
  {[method |-> "web", parts |-> <<"example.com", "8443">>, escaped |-> TRUE],
   [method |-> "web", parts |-> <<"", "issuer">>, escaped |-> FALSE]}
MCOtherDids == {[method |-> "other"]}

\* A document with one key; its successor, after a method that is not
\* supported; one that cannot be read.
MCDocuments == {<<Key("k1")>>, <<Exchange("e0"), Key("k2")>>, <<>>}
=============================================================================
