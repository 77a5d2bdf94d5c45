---------------------------- MODULE MCPresentations ----------------------------
(***************************************************************************)
(* Small instances of Presentations.                                       *)
(***************************************************************************)
EXTENDS Presentations, TLC

MCDids == {"issuer", "other", "wallet"}
MCKeyOf == [d \in MCDids |-> d]

Base ==
  [format |-> "w3c", wellFormed |-> TRUE, depth |-> 0, issuer |-> "issuer",
   signedBy |-> "issuer", subject |-> "wallet", scope |-> {}, aud |-> "none",
   claims |-> {<<"dept", "sales">>}, iat |-> 0, exp |-> 0, expiresAt |-> 0,
   digests |-> {}, disclosures |-> <<>>]

\* A badge with an id and another jti, a short-lived SD-JWT pass with a jti alone, and one of
\* an issuer that is not trusted.
MCCred ==
  [badge |-> Base,
   pass  |-> [Base EXCEPT !.claims = {<<"vct", "pass">>}, !.exp = 2],
   alien |-> [Base EXCEPT !.issuer = "other", !.signedBy = "other"]]
MCTokens == DOMAIN MCCred
MCClaims == {<<"dept", "sales">>, <<"vct", "pass">>}
MCIdOf == [badge |-> "i1", pass |-> "no id", alien |-> "i1"]
MCJtiOf == [badge |-> "j1", pass |-> "j2", alien |-> "i1"]
MCTypesOf == [t \in MCTokens |-> {"VerifiableCredential", "Badge"}]

Badge ==
  [format |-> "jwt_vc_json", multiple |-> FALSE, binding |-> TRUE,
   values |-> {{"Badge"}}, claims |-> {[path |-> "dept", values |-> {"sales"}]}]
Pass ==
  [format |-> "dc+sd-jwt", multiple |-> TRUE, binding |-> FALSE,
   values |-> {"pass"}, claims |-> {}]

\* A request for both; one for either, with an optional set besides.
Both ==
  [clientID |-> "client", nonce |-> "n1", queries |-> [b |-> Badge, p |-> Pass],
   sets |-> {}, expiresAt |-> 0]
Either ==
  [Both EXCEPT !.nonce = "n2",
     !.sets = {[options |-> {{"b"}, {"p"}}, required |-> TRUE],
               [options |-> {{"b", "p"}}, required |-> FALSE]},
     !.expiresAt = 1]

MCAuthRequests == {Both, Either}

VP(nonce, credentials) ==
  [jwt |-> TRUE, holder |-> "wallet", signedBy |-> "wallet", exp |-> 0, iat |-> 0,
   aud |-> {"client"}, nonce |-> nonce, credentials |-> credentials, token |-> "alien"]
Bare(token) == [VP("no nonce", <<>>) EXCEPT !.token = token]

\* Answers to the one and to the other, one of an issuer that is not trusted, and
\* one without a presentation.
MCResponses ==
  {[b |-> <<VP("n1", <<"badge">>)>>, p |-> <<Bare("pass"), Bare("pass")>>],
   [p |-> <<Bare("pass")>>],
   [p |-> <<Bare("alien")>>],
   [b |-> <<>>]}

HandlerSymmetry == Permutations(Handlers)
=============================================================================
