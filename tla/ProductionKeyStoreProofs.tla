------------------------ MODULE ProductionKeyStoreProofs ------------------------
(***************************************************************************)
(* For every set of tenants, requests and settings: a request that was not *)
(* overtaken in VAULT_KEY_NAME gets its tenant's own key, and a warm cache *)
(* stays warm until it is cleared.  The argument: the variable holds the   *)
(* name of every handler about to read it, or that handler has been        *)
(* overtaken (Announced); what a handler has read is its tenant's name, or *)
(* it was overtaken (Named); and only what was read is stored.             *)
(***************************************************************************)
EXTENDS ProductionKeyStore, TLAPS

\* Handler h has read a name that it may still use.
Knows(h) ==
  \/ pc[h] \in {"info", "create", "reinfo", "store"}
  \/ pc[h] = "unsetenv" /\ local[h].ok

Announced ==
  \A h \in Handlers : pc[h] = "getenv" => env = local[h].tenant \/ local[h].raced

Named ==
  \A h \in Handlers : Knows(h) =>
    /\ local[h].name \in Tenants
    /\ local[h].name = local[h].tenant \/ local[h].raced

OwnCached == \A t \in Tenants : cache[t] = NoSigner \/ cache[t].name = t \/ cache[t].raced
OwnAnswer ==
  \A h \in Handlers :
    pc[h] # "idle" \/ answer[h] = NoSigner \/ answer[h].name = local[h].tenant
    \/ answer[h].raced

Inv == TypeOK /\ Announced /\ Named /\ OwnCached /\ OwnAnswer

-----------------------------------------------------------------------------
\* The fields of a handler's knowledge.
LEMMA LocalsFields ==
  ASSUME NEW l \in Locals
  PROVE  /\ l.tenant \in Tenants /\ l.name \in Tenants \cup {Unset}
         /\ l.raced \in BOOLEAN /\ l.ok \in BOOLEAN
  BY DEF Locals

\* The three updates of it.
LEMMA LocalsUpdates ==
  ASSUME NEW l \in Locals, NEW n \in Tenants \cup {Unset}
  PROVE  /\ Renamed(l, n) \in Locals /\ Renamed(l, n).name = n
         /\ Renamed(l, n).tenant = l.tenant /\ Renamed(l, n).raced = l.raced
         /\ Overtaken(l) \in Locals /\ Overtaken(l).name = l.name
         /\ Overtaken(l).tenant = l.tenant /\ Overtaken(l).ok = l.ok
         /\ Overtaken(l).raced = TRUE
  BY DEF Locals, Renamed, Overtaken

\* A failure is noted.
LEMMA FailedFields ==
  ASSUME NEW l \in Locals
  PROVE  Failed(l) \in Locals /\ Failed(l).ok = FALSE
  BY DEF Locals, Failed

\* A request begins with nothing known.
LEMMA NewLocalsType ==
  /\ \A t \in Tenants : NewLocals(t) \in Locals /\ NewLocals(t).tenant = t
  /\ NoLocals \in Locals
  BY ProductionKeyStoreAssumption DEF NewLocals, NoLocals, Locals

\* What the backend is, is one of the three.
LEMMA BackendType ==
  ASSUME NEW e \in Environments
  PROVE  NewProductionKeyStoreFromEnv(e) \in Backends
  BY DEF NewProductionKeyStoreFromEnv, validateBackend, Backends

\* Init establishes the invariant.
LEMMA InitInv == Init => Inv
  <1> SUFFICES ASSUME Init PROVE Inv
    OBVIOUS
  <1>1. TypeOK
    BY BackendType, NewLocalsType DEF Init, TypeOK, Steps
  <1>2. Announced /\ Named /\ OwnCached /\ OwnAnswer
    BY DEF Init, Announced, Named, Knows, OwnCached, OwnAnswer
  <1> QED BY <1>1, <1>2 DEF Inv

\* What overtaking does to each handler.
LEMMA OvertakeEffect ==
  ASSUME TypeOK, NEW h \in Handlers, Overtake(h)
  PROVE  /\ local' \in [Handlers -> Locals]
         /\ local'[h] = local[h]
         /\ \A g \in Handlers :
              /\ local'[g].tenant = local[g].tenant
              /\ local'[g].name = local[g].name
              /\ local'[g].ok = local[g].ok
              /\ local[g].raced => local'[g].raced
              /\ g # h /\ pc[g] = "getenv" => local'[g].raced
  <1>1. \A g \in Handlers :
          LET l == local[g] r == Overtaken(l)
          IN  l \in Locals /\ r \in Locals /\ r.tenant = l.tenant /\ r.name = l.name
              /\ r.ok = l.ok /\ r.raced = TRUE
    BY LocalsUpdates DEF TypeOK
  <1> QED BY <1>1 DEF Overtake

\* An update of one handler's knowledge.
LEMMA UpdateEffect ==
  ASSUME TypeOK, NEW h \in Handlers, NEW l \in Locals, Update(h, l)
  PROVE  /\ local' \in [Handlers -> Locals]
         /\ local'[h] = l
         /\ \A g \in Handlers : g # h => local'[g] = local[g]
  BY DEF Update, TypeOK

\* A call of Vault that fails.
LEMMA FailsEffect ==
  ASSUME TypeOK, NEW h \in Handlers, Fails(h)
  PROVE  /\ local' \in [Handlers -> Locals]
         /\ local'[h].ok = FALSE
         /\ \A g \in Handlers : g # h => local'[g] = local[g]
         /\ pc' = [pc EXCEPT ![h] = "unsetenv"]
  <1>1. local[h] \in Locals
    BY DEF TypeOK
  <1>2. Failed(local[h]) \in Locals /\ Failed(local[h]).ok = FALSE
    BY <1>1, FailedFields
  <1> QED BY <1>2, UpdateEffect DEF Fails, Goto

\* The name a handler reads, or is given, becomes its key's name.
LEMMA NameEffect ==
  ASSUME TypeOK, NEW h \in Handlers, NEW n \in Tenants, Update(h, Renamed(local[h], n))
  PROVE  /\ local' \in [Handlers -> Locals]
         /\ local'[h].name = n /\ local'[h].tenant = local[h].tenant
         /\ local'[h].raced = local[h].raced
         /\ \A g \in Handlers : g # h => local'[g] = local[g]
  <1>1. local[h] \in Locals
    BY DEF TypeOK
  <1>2. /\ Renamed(local[h], n) \in Locals /\ Renamed(local[h], n).name = n
        /\ Renamed(local[h], n).tenant = local[h].tenant
        /\ Renamed(local[h], n).raced = local[h].raced
    BY <1>1, LocalsUpdates
  <1> QED BY <1>2, UpdateEffect

\* Type correctness.
LEMMA TypeStep == TypeOK /\ Named /\ [Next]_vars => TypeOK'
  <1> SUFFICES ASSUME TypeOK, Named, [Next]_vars PROVE TypeOK'
    OBVIOUS
  <1> USE ProductionKeyStoreAssumption DEF Steps, TypeOK
  <1>fields. \A g \in Handlers : local[g] \in Locals
    OBVIOUS
  <1>1. ASSUME NEW h \in Handlers, NEW t \in Tenants, Begin(h, t) PROVE TypeOK'
    BY <1>1, NewLocalsType DEF Begin, Goto, Update
  <1>2. ASSUME NEW h \in Handlers, Lookup(h) PROVE TypeOK'
    BY <1>2, LocalsFields DEF Lookup, Return, Goto, cacheKey
  <1>3. ASSUME NEW h \in Handlers, Setenv(h) PROVE TypeOK'
    BY <1>3, LocalsFields, OvertakeEffect DEF Setenv, Goto
  <1>4. ASSUME NEW h \in Handlers, Getenv(h) PROVE TypeOK'
    <2>1. Update(h, Failed(local[h])) \/ (env \in Tenants /\ Update(h, Renamed(local[h], env)))
      BY <1>4 DEF Getenv
    <2>2. local' \in [Handlers -> Locals]
      BY <1>fields, <2>1, FailedFields, UpdateEffect, NameEffect
    <2> QED BY <1>4, <2>2 DEF Getenv, Goto
  <1>5. ASSUME NEW h \in Handlers, KeyInfo(h) PROVE TypeOK'
    BY <1>5, FailsEffect DEF KeyInfo, Goto
  <1>6. ASSUME NEW h \in Handlers, CreateKey(h) PROVE TypeOK'
    BY <1>6, FailsEffect DEF CreateKey, Goto, Named, Knows
  <1>7. ASSUME NEW h \in Handlers, KeyInfoAgain(h) PROVE TypeOK'
    BY <1>7, FailsEffect DEF KeyInfoAgain, Goto
  <1>8. ASSUME NEW h \in Handlers, Unsetenv(h) PROVE TypeOK'
    BY <1>8, OvertakeEffect DEF Unsetenv, Return, Goto
  <1>9. ASSUME NEW h \in Handlers, KmsKey(h) PROVE TypeOK'
    BY <1>9, LocalsFields, NameEffect DEF KmsKey, Return, Goto
  <1>10. ASSUME NEW h \in Handlers, MemoryKey(h) PROVE TypeOK'
    BY <1>10, LocalsFields, NameEffect DEF MemoryKey, Goto
  <1>11. ASSUME NEW h \in Handlers, Store(h) PROVE TypeOK'
    <2>1. [name |-> local[h].name, raced |-> local[h].raced] \in Signer
      BY <1>11, LocalsFields DEF Store, Named, Knows, Signer
    <2> QED BY <1>11, <2>1, LocalsFields DEF Store, Return, Goto, cacheKey
  <1>12. CASE ClearCache
    BY <1>12 DEF ClearCache
  <1>13. CASE ConcurrentMapAccess
    BY <1>13, NewLocalsType DEF ConcurrentMapAccess
  <1>14. CASE UNCHANGED vars
    BY <1>14 DEF vars
  <1> QED
    BY <1>1, <1>2, <1>3, <1>4, <1>5, <1>6, <1>7, <1>8, <1>9, <1>10, <1>11, <1>12, <1>13, <1>14
    DEF Next, OwnStep, BackendCall

\* The environment variable and what is read from it.
LEMMA NamedStep == Inv /\ [Next]_vars => Announced' /\ Named'
  <1> SUFFICES ASSUME Inv, [Next]_vars PROVE Announced' /\ Named'
    OBVIOUS
  <1> USE ProductionKeyStoreAssumption DEF Inv, TypeOK, Announced, Named, Knows
  <1>1. ASSUME NEW h \in Handlers, NEW t \in Tenants, Begin(h, t) PROVE Announced' /\ Named'
    BY <1>1 DEF Begin, Goto, Update
  <1>2. ASSUME NEW h \in Handlers, Lookup(h) PROVE Announced' /\ Named'
    BY <1>2 DEF Lookup, Return, Goto
  <1>3. ASSUME NEW h \in Handlers, Setenv(h) PROVE Announced' /\ Named'
    <2>1. \A g \in Handlers :
            /\ local'[g].tenant = local[g].tenant /\ local'[g].name = local[g].name
            /\ local'[g].ok = local[g].ok /\ (local[g].raced => local'[g].raced)
            /\ g # h /\ pc[g] = "getenv" => local'[g].raced
      BY <1>3, OvertakeEffect DEF Setenv
    <2>2. /\ env' = local[h].tenant /\ pc'[h] = "getenv"
          /\ \A g \in Handlers : g # h => pc'[g] = pc[g]
      BY <1>3 DEF Setenv, Goto
    <2>3. Announced'
      BY <2>1, <2>2
    <2>4. Named'
      BY <2>1, <2>2
    <2> QED BY <2>3, <2>4
  <1>4. ASSUME NEW h \in Handlers, Getenv(h) PROVE Announced' /\ Named'
    <2>1. CASE env = Unset
      <3>1. local[h] \in Locals
        OBVIOUS
      <3>2. Failed(local[h]) \in Locals /\ Failed(local[h]).ok = FALSE
        BY <3>1, FailedFields
      <3>3. Update(h, Failed(local[h]))
        BY <1>4, <2>1 DEF Getenv
      <3> QED BY <1>4, <2>1, <3>2, <3>3, UpdateEffect DEF Getenv, Goto
    <2>2. CASE env # Unset
      <3>1. env \in Tenants /\ Update(h, Renamed(local[h], env))
        BY <1>4, <2>2 DEF Getenv
      <3>2. /\ local'[h].name = env /\ local'[h].tenant = local[h].tenant
            /\ local'[h].raced = local[h].raced
            /\ \A g \in Handlers : g # h => local'[g] = local[g]
        BY <3>1, NameEffect
      <3> QED BY <1>4, <2>2, <3>1, <3>2 DEF Getenv, Goto
    <2> QED BY <2>1, <2>2
  <1>5. ASSUME NEW h \in Handlers, KeyInfo(h) PROVE Announced' /\ Named'
    BY <1>5, FailsEffect DEF KeyInfo, Goto
  <1>6. ASSUME NEW h \in Handlers, CreateKey(h) PROVE Announced' /\ Named'
    BY <1>6, FailsEffect DEF CreateKey, Goto
  <1>7. ASSUME NEW h \in Handlers, KeyInfoAgain(h) PROVE Announced' /\ Named'
    BY <1>7, FailsEffect DEF KeyInfoAgain, Goto
  <1>8. ASSUME NEW h \in Handlers, Unsetenv(h) PROVE Announced' /\ Named'
    <2>1. \A g \in Handlers :
            /\ local'[g].tenant = local[g].tenant /\ local'[g].name = local[g].name
            /\ local'[g].ok = local[g].ok /\ (local[g].raced => local'[g].raced)
            /\ g # h /\ pc[g] = "getenv" => local'[g].raced
      BY <1>8, OvertakeEffect DEF Unsetenv
    <2>2. /\ pc[h] = "unsetenv"
          /\ \/ local[h].ok /\ pc' = [pc EXCEPT ![h] = "store"]
             \/ pc' = [pc EXCEPT ![h] = "idle"]
      BY <1>8 DEF Unsetenv, Return, Goto
    <2>3. /\ \A g \in Handlers : g # h => pc'[g] = pc[g]
          /\ pc'[h] = "idle" \/ (pc'[h] = "store" /\ Knows(h))
      BY <2>2
    <2>4. Announced'
      BY <2>1, <2>3
    <2>5. Named'
      BY <2>1, <2>3
    <2> QED BY <2>4, <2>5
  <1>9. ASSUME NEW h \in Handlers, KmsKey(h) PROVE Announced' /\ Named'
    <2>1. local[h].tenant \in Tenants
      BY LocalsFields
    <2>2. CASE local' = local /\ pc' = [pc EXCEPT ![h] = "idle"]
      BY <1>9, <2>2 DEF KmsKey
    <2>3. CASE Update(h, Renamed(local[h], local[h].tenant)) /\ pc' = [pc EXCEPT ![h] = "store"]
      <3>1. /\ local'[h].name = local[h].tenant /\ local'[h].tenant = local[h].tenant
            /\ \A g \in Handlers : g # h => local'[g] = local[g]
        BY <2>1, <2>3, NameEffect
      <3> QED BY <1>9, <2>1, <2>3, <3>1 DEF KmsKey
    <2> QED BY <1>9, <2>2, <2>3 DEF KmsKey, Return, Goto
  <1>10. ASSUME NEW h \in Handlers, MemoryKey(h) PROVE Announced' /\ Named'
    <2>1. local[h].tenant \in Tenants
      BY LocalsFields
    <2>2. /\ local'[h].name = local[h].tenant /\ local'[h].tenant = local[h].tenant
          /\ \A g \in Handlers : g # h => local'[g] = local[g]
      BY <1>10, <2>1, NameEffect DEF MemoryKey
    <2> QED BY <1>10, <2>1, <2>2 DEF MemoryKey, Goto
  <1>11. ASSUME NEW h \in Handlers, Store(h) PROVE Announced' /\ Named'
    BY <1>11 DEF Store, Return, Goto
  <1>12. CASE ClearCache
    BY <1>12 DEF ClearCache
  <1>13. CASE ConcurrentMapAccess
    BY <1>13 DEF ConcurrentMapAccess
  <1>14. CASE UNCHANGED vars
    BY <1>14 DEF vars
  <1> QED
    BY <1>1, <1>2, <1>3, <1>4, <1>5, <1>6, <1>7, <1>8, <1>9, <1>10, <1>11, <1>12, <1>13, <1>14
    DEF Next, OwnStep, BackendCall

\* What is stored and handed out.
LEMMA OwnStepKeeps == Inv /\ [Next]_vars => OwnCached' /\ OwnAnswer'
  <1> SUFFICES ASSUME Inv, [Next]_vars PROVE OwnCached' /\ OwnAnswer'
    OBVIOUS
  <1> USE DEF Inv, TypeOK, OwnCached, OwnAnswer
  <1>1. ASSUME NEW h \in Handlers, NEW t \in Tenants, Begin(h, t)
        PROVE  OwnCached' /\ OwnAnswer'
    BY <1>1 DEF Begin, Goto, Update
  <1>2. ASSUME NEW h \in Handlers, Lookup(h) PROVE OwnCached' /\ OwnAnswer'
    BY <1>2, LocalsFields DEF Lookup, Return, Goto, cacheKey
  <1>3. ASSUME NEW h \in Handlers, Setenv(h) PROVE OwnCached' /\ OwnAnswer'
    BY <1>3, OvertakeEffect DEF Setenv, Goto
  <1>4. ASSUME NEW h \in Handlers, Getenv(h) PROVE OwnCached' /\ OwnAnswer'
    BY <1>4 DEF Getenv, Goto, Update
  <1>5. ASSUME NEW h \in Handlers, KeyInfo(h) PROVE OwnCached' /\ OwnAnswer'
    BY <1>5 DEF KeyInfo, Fails, Goto, Update
  <1>6. ASSUME NEW h \in Handlers, CreateKey(h) PROVE OwnCached' /\ OwnAnswer'
    BY <1>6 DEF CreateKey, Fails, Goto, Update
  <1>7. ASSUME NEW h \in Handlers, KeyInfoAgain(h) PROVE OwnCached' /\ OwnAnswer'
    BY <1>7 DEF KeyInfoAgain, Fails, Goto, Update
  <1>8. ASSUME NEW h \in Handlers, Unsetenv(h) PROVE OwnCached' /\ OwnAnswer'
    BY <1>8, OvertakeEffect DEF Unsetenv, Return, Goto
  <1>9. ASSUME NEW h \in Handlers, KmsKey(h) PROVE OwnCached' /\ OwnAnswer'
    BY <1>9 DEF KmsKey, Return, Goto, Update
  <1>10. ASSUME NEW h \in Handlers, MemoryKey(h) PROVE OwnCached' /\ OwnAnswer'
    BY <1>10 DEF MemoryKey, Goto, Update
  <1>11. ASSUME NEW h \in Handlers, Store(h) PROVE OwnCached' /\ OwnAnswer'
    BY <1>11, LocalsFields DEF Store, Return, Goto, cacheKey, Named, Knows
  <1>12. CASE ClearCache
    BY <1>12 DEF ClearCache
  <1>13. CASE ConcurrentMapAccess
    BY <1>13 DEF ConcurrentMapAccess
  <1>14. CASE UNCHANGED vars
    BY <1>14 DEF vars
  <1> QED
    BY <1>1, <1>2, <1>3, <1>4, <1>5, <1>6, <1>7, <1>8, <1>9, <1>10, <1>11, <1>12, <1>13, <1>14
    DEF Next, OwnStep, BackendCall

\* The invariant holds throughout, whatever order the handlers' steps of
\* GetSigningKey (production.go:85-134) interleave in.
THEOREM InvTheorem == Spec => []Inv
  <1>1. Inv /\ [Next]_vars => Inv'
    BY TypeStep, NamedStep, OwnStepKeeps DEF Inv
  <1> QED BY InitInv, <1>1, PTL DEF Spec

\* Every variable keeps its type: in particular a signer is never built for the
\* empty key name NewVaultSignerFromEnv refuses (vault_signer.go:45-48).
THEOREM TypeCorrect == Spec => []TypeOK
  <1>1. Inv => TypeOK
    BY DEF Inv
  <1> QED BY InvTheorem, <1>1, PTL

\* A signer handed out or cached holds the tenant's own key unless its maker
\* was overtaken between Setenv and Getenv (production.go:125).
THEOREM OwnKeyTheorem == Spec => []OwnKeyUnlessRaced
  <1>1. Inv => OwnKeyUnlessRaced
    BY DEF Inv, OwnCached, OwnAnswer, OwnKeyUnlessRaced
  <1> QED BY InvTheorem, <1>1, PTL

\* A warm cache keeps every handler away from the variable (production.go:90).
THEOREM WarmTheorem == Spec => WarmCacheIsSafe
  <1>1. Inv /\ [Next]_vars
          => [Warm => Warm' \/ cache' = [t \in Tenants |-> NoSigner]]_vars
    <2> SUFFICES ASSUME Inv, [Next]_vars, Warm, cache' # [t \in Tenants |-> NoSigner]
                 PROVE  Warm'
      BY DEF WarmCacheIsSafe
    <2> USE DEF Inv, TypeOK, Warm
    <2>1. ASSUME NEW h \in Handlers, NEW t \in Tenants, Begin(h, t) PROVE Warm'
      BY <2>1 DEF Begin, Goto
    <2>2. ASSUME NEW h \in Handlers, Lookup(h) PROVE Warm'
      BY <2>2, LocalsFields DEF Lookup, Return, Goto, cacheKey
    <2>3. ASSUME NEW h \in Handlers, OwnStep(h) \/ BackendCall(h), ~Lookup(h) PROVE FALSE
      BY <2>3 DEF OwnStep, BackendCall, Setenv, Getenv, Unsetenv, MemoryKey, Store, KeyInfo,
                  CreateKey, KeyInfoAgain, KmsKey
    <2>4. CASE UNCHANGED vars
      BY <2>4 DEF vars
    <2> QED BY <2>1, <2>2, <2>3, <2>4 DEF Next, ClearCache, ConcurrentMapAccess
  <1> QED BY InvTheorem, <1>1, PTL DEF Spec, WarmCacheIsSafe
=============================================================================
