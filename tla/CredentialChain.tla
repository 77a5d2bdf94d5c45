--------------------------- MODULE CredentialChain ---------------------------
(***************************************************************************)
(* Verification of a chain of delegated credentials                        *)
(* (internal/domain/vc_verify.go, delegation.go, vc_helpers.go, obo.go).   *)
(*                                                                         *)
(* A chain is the sequence of tokens a caller presents, root first.  A     *)
(* token is abstracted to a record: what it says (issuer, subject, scope,  *)
(* audience, times), which key really signed it, and the SD-JWT            *)
(* disclosures attached to it.  Times are whole seconds; 0 stands for an   *)
(* absent time, as the zero value does in the code.                        *)
(***************************************************************************)
EXTENDS Integers, Sequences, FiniteSets

CONSTANTS
  Dids,           \* issuer and subject DIDs
  Keys,           \* public keys
  Ed25519Keys,    \* the keys of the one algorithm the verifier accepts
  NoKey,          \* result of a failed issuer resolution
  Scopes,         \* scope strings
  Audiences,      \* audience strings
  Claims,         \* the other claims: <<name, value>>, or <<name, "[]", value>>
                  \* for an element of a list
  NoAudience,     \* no "aud" claim, or no expected audience
  Times,          \* the times a token may carry
  ClockSkew,      \* tolerated lead of a token's issue time (one minute)
  DefaultMaxDepth \* delegation depth when the caller names none (3)

ASSUME CredentialChainAssumption ==
  /\ Ed25519Keys \subseteq Keys
  /\ NoKey \notin Keys
  /\ NoAudience \notin Audiences
  /\ Times \subseteq Nat /\ 0 \in Times
  /\ ClockSkew \in Nat
  /\ DefaultMaxDepth \in Nat \ {0}

(***************************************************************************)
(* An SD-JWT disclosure reveals one claim: the scope, the audience, or a   *)
(* claim verification does not look at.  Digests are collision free, so a  *)
(* digest is identified with the disclosure it was computed from.          *)
(***************************************************************************)
Disclosure ==
  [claim : {"scope", "aud", "other", "malformed"},
   scope : SUBSET Scopes,
   aud   : Audiences \cup {NoAudience}]

Credential ==
  [format      : {"w3c", "legacy"},
   wellFormed  : BOOLEAN,               \* three decodable segments, JSON payload
   depth       : Nat,                   \* the "delegation_depth" claim, 0 when missing
   issuer      : Dids,
   signedBy    : Keys \cup {NoKey},      \* NoKey: an undecodable signature segment
   subject     : Dids,
   scope       : SUBSET Scopes,         \* {} when the claim is missing
   aud         : Audiences \cup {NoAudience},
   claims      : SUBSET Claims,
   iat         : Times,                 \* issue time
   exp         : Times,                 \* the "exp" claim
   expiresAt   : Times,                 \* the credential's own expires_at field
   digests     : SUBSET Disclosure,
   disclosures : Seq(Disclosure)]

Ok == "ok"

VerificationErrors ==
  {"invalid_token", "untrusted_issuer", "invalid_signature", "expired",
   "issued_in_future", "invalid_disclosure", "missing_disclosure",
   "unexpected_audience", "delegation_depth", "delegation_scope",
   "delegation_ttl", "invalid_delegation"}

-----------------------------------------------------------------------------
(* Times of one credential *)

\* The ExpiresAt field verification leaves in the credential.  A W3C token's
\* exp overrides the nested field; a legacy token's own field comes first.
ExpiresAt(c) ==
  IF c.format = "w3c"
    THEN IF c.exp > 0 THEN c.exp ELSE c.expiresAt
    ELSE IF c.expiresAt = 0 THEN c.exp ELSE c.expiresAt

\* Fault: only the instant of expiry is refused.
Expired_OnlyAtLimit(c, now) ==
  LET limit == IF c.format = "w3c" THEN c.exp ELSE ExpiresAt(c)
  IN  limit > 0 /\ now = limit

\* Fault: the leeway for clocks is given to expiries too.
Expired_Leeway(c, now) ==
  LET limit == IF c.format = "w3c" THEN c.exp ELSE ExpiresAt(c)
  IN  limit > 0 /\ now > limit + ClockSkew

\* The W3C branch looks at the exp claim alone, the legacy one at ExpiresAt.
Expired(c, now) ==
  LET limit == IF c.format = "w3c" THEN c.exp ELSE ExpiresAt(c)
  IN  limit > 0 /\ now >= limit

IssuedInFuture(c, now) == c.iat > 0 /\ c.iat > now + ClockSkew

-----------------------------------------------------------------------------
(* Selective disclosure *)

FirstIndex(I) == CHOOSE i \in I : \A j \in I : i <= j
LastIndex(I) == CHOOSE i \in I : \A j \in I : j <= i

\* Every disclosure must be well formed and hash to a digest of the
\* credential, and every digest must be disclosed.
DisclosureError(c) ==
  LET ds  == c.disclosures
      bad == {i \in DOMAIN ds : ds[i].claim = "malformed" \/ ds[i] \notin c.digests}
  IN  IF c.digests = {} THEN Ok
      ELSE IF bad # {}
        THEN IF ds[FirstIndex(bad)].claim = "malformed"
               THEN "invalid_token" ELSE "invalid_disclosure"
      ELSE IF \E d \in c.digests : \A i \in DOMAIN ds : ds[i] # d
        THEN "missing_disclosure"
      ELSE Ok

\* The positions of the disclosures of a claim.  Disclosures attached to a
\* credential without digests are never looked at.
DisclosedAt(c, claim) ==
  IF c.digests = {} THEN {}
  ELSE {i \in DOMAIN c.disclosures : c.disclosures[i].claim = claim}

\* The credential's scope and audience once its disclosures are merged into
\* its claims: a later disclosure of a claim overwrites an earlier one.
ScopeOf(c) ==
  LET at == DisclosedAt(c, "scope")
  IN  IF at = {} THEN c.scope ELSE c.disclosures[LastIndex(at)].scope

AudienceOf(c) ==
  LET at == DisclosedAt(c, "aud")
  IN  IF at = {} THEN c.aud ELSE c.disclosures[LastIndex(at)].aud

-----------------------------------------------------------------------------
(* One credential.  key is what resolving c.issuer returned (NoKey: the    *)
(* resolution failed for whatever reason).                                 *)

verifySingleCredential(c, key, expectedAudience, now) ==
  IF ~c.wellFormed THEN "invalid_token"
  ELSE IF key = NoKey THEN "untrusted_issuer"
  ELSE IF key \notin Ed25519Keys THEN "invalid_token"
  ELSE IF c.signedBy = NoKey THEN "invalid_token"
  ELSE IF key # c.signedBy THEN "invalid_signature"
  ELSE IF Expired(c, now) THEN "expired"
  ELSE IF IssuedInFuture(c, now) THEN "issued_in_future"
  ELSE IF DisclosureError(c) # Ok THEN DisclosureError(c)
  ELSE IF expectedAudience # NoAudience /\ AudienceOf(c) # expectedAudience
    THEN "unexpected_audience"
  ELSE Ok

-----------------------------------------------------------------------------
(* Delegation rules between a credential and its parent *)

\* Fault: an empty parent scope is taken for an unrestricted one.
IsScopeSubset_EmptyIsAll(parentScope, childScope) ==
  parentScope = {} \/ childScope \subseteq parentScope

\* An empty child scope is a subset of any scope.
IsScopeSubset(parentScope, childScope) == childScope \subseteq parentScope

\* Fault: a child without an expiry passes as expiring early.
IsTTLWithinParent_ZeroIsEarly(parentExpiresAt, childExpiresAt) ==
  parentExpiresAt = 0 \/ childExpiresAt <= parentExpiresAt

IsTTLWithinParent(parentExpiresAt, childExpiresAt) ==
  \/ parentExpiresAt = 0
  \/ childExpiresAt # 0 /\ childExpiresAt <= parentExpiresAt

\* Fault: one delegation too many.
IsDepthAllowed_OffByOne(depth, maxDepth) == maxDepth <= 0 \/ depth <= maxDepth + 1

IsDepthAllowed(depth, maxDepth) == maxDepth <= 0 \/ depth <= maxDepth

MaxDepth(requested) == IF requested = 0 THEN DefaultMaxDepth ELSE requested

\* The checks on the credential at position i (1 is the root) against the
\* one before it, after both verified on their own.
LinkError(parent, child, i, maxDepth) ==
  IF ~IsDepthAllowed(i - 1, maxDepth) THEN "delegation_depth"
  ELSE IF ~IsScopeSubset(ScopeOf(parent), ScopeOf(child)) THEN "delegation_scope"
  ELSE IF ~IsTTLWithinParent(ExpiresAt(parent), ExpiresAt(child)) THEN "delegation_ttl"
  ELSE Ok

\* What the loop of VerifyCredentialChain finds at position i.  Only the leaf
\* is held to the expected audience.
ErrorAt(chain, i, key, expectedAudience, maxDepth, now) ==
  LET aud    == IF i = Len(chain) THEN expectedAudience ELSE NoAudience
      single == verifySingleCredential(chain[i], key, aud, now)
  IN  IF single # Ok THEN single
      ELSE IF i = 1 THEN Ok
      ELSE LinkError(chain[i - 1], chain[i], i, maxDepth)

\* The whole loop, for callers that run it without interruption: the first
\* error wins.  key[issuer] is a key or NoKey.
VerifyCredentialChain(chain, key, expectedAudience, requestedDepth, now) ==
  LET failed == {i \in DOMAIN chain :
                   ErrorAt(chain, i, key[chain[i].issuer], expectedAudience,
                           MaxDepth(requestedDepth), now) # Ok}
  IN  IF chain = <<>> THEN "invalid_delegation"
      ELSE IF failed # {}
        THEN LET i == FirstIndex(failed)
             IN  ErrorAt(chain, i, key[chain[i].issuer], expectedAudience,
                         MaxDepth(requestedDepth), now)
      ELSE IF ~IsDepthAllowed(Len(chain) - 1, MaxDepth(requestedDepth))
        THEN "delegation_depth"
      ELSE Ok

-----------------------------------------------------------------------------
(* What an accepted chain is turned into *)

Leaf(chain) == chain[Len(chain)]

DelegationChainResult(chain) ==
  [currentSubject  |-> Leaf(chain).subject,
   rootDelegator   |-> chain[1].subject,
   delegationDepth |-> Len(chain) - 1]

\* What the gateway reports for an agent, from the last two credentials: the
\* scope is the leaf's, or its parent's when the leaf carries none.
BuildOnBehalfOfContext(parent, child) ==
  [subject         |-> child.subject,
   actingFor       |-> parent.subject,
   delegationDepth |-> parent.depth + 1,
   scope           |-> IF ScopeOf(child) = {} THEN ScopeOf(parent) ELSE ScopeOf(child)]
=============================================================================
