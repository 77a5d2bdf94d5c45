------------------------- MODULE CredentialChainProofs -------------------------
(***************************************************************************)
(* Facts about the operators of CredentialChain, for every choice of its   *)
(* constants.                                                              *)
(***************************************************************************)
EXTENDS CredentialChain, WellFoundedInduction, TLAPS

\* A nonempty set of numbers has a least one.
LEMMA LeastNumber ==
  ASSUME NEW S \in SUBSET Nat, S # {}
  PROVE  \E m \in S : \A k \in S : m <= k
<1> DEFINE R == OpToRel(<, Nat)
<1>1. \E m \in S : \A k \in S : ~(<<k, m>> \in R)
  BY NatLessThanWellFounded, WFMin
<1>2. PICK m \in S : \A k \in S : ~(k < m)
  BY <1>1 DEF OpToRel
<1> QED BY <1>2

\* A nonempty set of positions has a last one (for the loops that let a later
\* disclosure overwrite an earlier one).
LEMMA LastIndexExists ==
  ASSUME NEW n \in Nat, NEW I \in SUBSET (1..n), I # {}
  PROVE  LastIndex(I) \in I /\ \A j \in I : j <= LastIndex(I)
<1> DEFINE Bounds == {k \in Nat : \A i \in I : i <= k}
<1>1. Bounds \subseteq Nat /\ Bounds # {}
  <2>1. n \in Bounds
    OBVIOUS
  <2> QED BY <2>1
<1>2. \E m \in Bounds : \A k \in Bounds : m <= k
  <2> HIDE DEF Bounds
  <2> QED BY <1>1, LeastNumber
<1>3. PICK m \in Bounds : \A k \in Bounds : ~(k < m)
  BY <1>1, <1>2
<1>4. m \in I
  <2>1. SUFFICES ASSUME m \notin I PROVE FALSE
    OBVIOUS
  <2>2. PICK i \in I : TRUE
    OBVIOUS
  <2>3. m - 1 \in Bounds
    BY <2>1, <2>2
  <2> QED BY <1>3, <2>3
<1> QED BY <1>3, <1>4 DEF LastIndex

\* A nonempty set of positions has a first one: the error a loop stops at.
LEMMA FirstIndexExists ==
  ASSUME NEW n \in Nat, NEW I \in SUBSET (1..n), I # {}
  PROVE  FirstIndex(I) \in I
<1>1. I \subseteq Nat
  OBVIOUS
<1>2. \E m \in I : \A k \in I : m <= k
  BY <1>1, LeastNumber
<1> QED BY <1>2 DEF FirstIndex

\* The scope verification leaves in a credential is a set of scopes, also when
\* disclosures were merged into it.
LEMMA ScopeOfType ==
  ASSUME NEW c \in Credential
  PROVE  ScopeOf(c) \in SUBSET Scopes
<1> DEFINE at == DisclosedAt(c, "scope")
           n == Len(c.disclosures)
<1>1. c.scope \in SUBSET Scopes /\ c.disclosures \in Seq(Disclosure)
  BY DEF Credential
<1>2. n \in Nat /\ at \in SUBSET (1..n)
  BY <1>1 DEF DisclosedAt
<1>3. CASE at = {}
  BY <1>1, <1>3 DEF ScopeOf
<1>4. CASE at # {}
  <2>1. LastIndex(at) \in 1..n
    <3> HIDE DEF at, n
    <3> QED BY <1>2, <1>4, LastIndexExists
  <2>2. c.disclosures[LastIndex(at)] \in Disclosure
    BY <1>1, <2>1
  <2> QED BY <1>4, <2>2 DEF ScopeOf, Disclosure
<1> QED BY <1>3, <1>4

\* The expiry verification leaves in a credential is a time, 0 when absent.
LEMMA ExpiresAtType ==
  ASSUME NEW c \in Credential
  PROVE  ExpiresAt(c) \in Nat
<1>1. c.exp \in Nat /\ c.expiresAt \in Nat
  BY CredentialChainAssumption DEF Credential
<1> QED BY <1>1 DEF ExpiresAt

\* A credential that passed its iteration of the loop is covered by its parent
\* in scope and in time.
LEMMA LinkNarrows ==
  ASSUME NEW chain, NEW i, i # 1, NEW key, NEW aud, NEW maxDepth, NEW now,
         ErrorAt(chain, i, key, aud, maxDepth, now) = Ok
  PROVE  /\ ScopeOf(chain[i]) \subseteq ScopeOf(chain[i - 1])
         /\ IsTTLWithinParent(ExpiresAt(chain[i - 1]), ExpiresAt(chain[i]))
<1>1. LinkError(chain[i - 1], chain[i], i, maxDepth) = Ok
  BY DEF ErrorAt
<1>2. IsScopeSubset(ScopeOf(chain[i - 1]), ScopeOf(chain[i]))
  BY <1>1 DEF LinkError, Ok
<1>3. IsTTLWithinParent(ExpiresAt(chain[i - 1]), ExpiresAt(chain[i]))
  BY <1>1 DEF LinkError, Ok
<1> QED BY <1>2, <1>3 DEF IsScopeSubset

\* A credential passes its iteration only if its issuer resolved to a key and it
\* has not expired.
LEMMA OkMeansResolved ==
  ASSUME NEW chain, NEW i, NEW key, NEW aud, NEW maxDepth, NEW now,
         ErrorAt(chain, i, key, aud, maxDepth, now) = Ok
  PROVE  key # NoKey /\ ~Expired(chain[i], now)
<1>1. \E a : verifySingleCredential(chain[i], key, a, now) = Ok
  BY DEF ErrorAt
<1> QED BY <1>1 DEF verifySingleCredential, Ok

\* A credential presented alone is accepted only if its issuer resolved and it
\* has not expired.
LEMMA AcceptedAlone ==
  ASSUME NEW c, NEW key, NEW aud, NEW depth, NEW now,
         VerifyCredentialChain(<<c>>, key, aud, depth, now) = Ok
  PROVE  key[c.issuer] # NoKey /\ ~Expired(c, now)
<1> DEFINE chain == <<c>>
           Error(i) == ErrorAt(chain, i, key[chain[i].issuer], aud, MaxDepth(depth), now)
           failed == {i \in DOMAIN chain : Error(i) # Ok}
<1>1. DOMAIN chain = 1..1 /\ chain[1] = c /\ chain # <<>>
  OBVIOUS
<1>2. failed \in SUBSET (1..1)
  BY <1>1
<1>3. failed = {}
  <2>1. failed # {} => Error(FirstIndex(failed)) = Ok
    BY <1>1 DEF VerifyCredentialChain
  <2>2. failed # {} => FirstIndex(failed) \in failed
    <3> HIDE DEF failed
    <3> QED BY <1>2, FirstIndexExists
  <2>3. failed # {} => Error(FirstIndex(failed)) # Ok
    <3> HIDE DEF Error
    <3> QED BY <2>2
  <2> QED BY <2>1, <2>3
<1>4. Error(1) = Ok
  BY <1>1, <1>3
<1>5. ErrorAt(chain, 1, key[c.issuer], aud, MaxDepth(depth), now) = Ok
  BY <1>1, <1>4
<1>6. key[c.issuer] # NoKey /\ ~Expired(chain[1], now)
  BY <1>5, OkMeansResolved
<1> QED BY <1>1, <1>6
=============================================================================
