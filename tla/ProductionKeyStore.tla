--------------------------- MODULE ProductionKeyStore ---------------------------
(***************************************************************************)
(* The key store for production (internal/keystore/production.go): a map   *)
(* of signers, without a lock, over Vault, Google KMS or keys in memory.   *)
(* The Vault signer (internal/crypto/vault_signer.go) takes the name of    *)
(* its key from an environment variable of the process, which GetSigningKey*)
(* sets before and clears after.  Requests of several tenants run at once, *)
(* so they share the variable and the map.                                 *)
(***************************************************************************)

CONSTANTS
  Tenants,      \* tenants; the prefixed tenant is the name of its key
  Unset,        \* the environment variable has no value
  Handlers,     \* issuer requests that can be in progress at once
  Environments  \* the settings the service may be started with; vaultConfigured: the
                \* address and the token of Vault are set

ASSUME ProductionKeyStoreAssumption ==
  /\ Tenants # {} /\ Unset \notin Tenants
  /\ \A e \in Environments :
       e \in [KEY_BACKEND : {"", "auto", "vault", "gcp-kms", "memory", "other"},
              vaultEnabled : BOOLEAN, vaultConfigured : BOOLEAN, kmsEnabled : BOOLEAN]

VARIABLES
  backend, \* the backend the store was built with
  env,     \* VAULT_KEY_NAME
  vault,   \* the names of the keys in Vault's transit engine
  cache,   \* cache[t]: the signer cached for t
  pc,      \* pc[h]: the next step of handler h
  local,   \* local[h]: the request of h and what it knows
  answer   \* answer[h]: the signer it was given last, or NoSigner after an error

vars == <<backend, env, vault, cache, pc, local, answer>>

Backends == {"vault", "gcp-kms", "memory"}

\* A signer: the name of its key, and whether another handler touched the
\* variable between the moment this one's maker set it and read it (history).
Signer == [name : Tenants, raced : BOOLEAN]
NoSigner == [name |-> Unset]

Steps ==
  {"idle", "lookup", "setenv", "getenv", "info", "create", "reinfo", "unsetenv",
   "kms", "memory", "store"}

\* ok: the call of the backend has gone well so far.
Locals == [tenant : Tenants, name : Tenants \cup {Unset}, raced : BOOLEAN, ok : BOOLEAN]

TypeOK ==
  /\ backend \in Backends
  /\ env \in Tenants \cup {Unset}
  /\ vault \subseteq Tenants
  /\ cache \in [Tenants -> Signer \cup {NoSigner}]
  /\ pc \in [Handlers -> Steps]
  /\ local \in [Handlers -> Locals]
  /\ answer \in [Handlers -> Signer \cup {NoSigner}]

-----------------------------------------------------------------------------
(* Construction *)

detectBackend(e) ==
  IF e.vaultEnabled /\ e.vaultConfigured THEN "vault"
  ELSE IF e.kmsEnabled THEN "gcp-kms"
  ELSE "memory"

validateBackend(b, e) ==
  \/ b = "vault" /\ e.vaultEnabled /\ e.vaultConfigured
  \/ b = "gcp-kms" /\ e.kmsEnabled
  \/ b = "memory"

\* A backend that is not available, or not known, gives way to memory.
NewProductionKeyStoreFromEnv(e) ==
  LET wanted == IF e.KEY_BACKEND \in {"", "auto"} THEN detectBackend(e) ELSE e.KEY_BACKEND
  IN  IF validateBackend(wanted, e) THEN wanted ELSE "memory"

NewLocals(t) == [tenant |-> t, name |-> Unset, raced |-> FALSE, ok |-> TRUE]
NoLocals == NewLocals(CHOOSE t \in Tenants : TRUE)

Init ==
  /\ backend \in {NewProductionKeyStoreFromEnv(e) : e \in Environments}
  /\ env = Unset
  /\ vault = {}
  /\ cache = [t \in Tenants |-> NoSigner]
  /\ pc = [h \in Handlers |-> "idle"]
  /\ local = [h \in Handlers |-> NoLocals]
  /\ answer = [h \in Handlers |-> NoSigner]

-----------------------------------------------------------------------------
(* GetSigningKey *)

Goto(h, step) == pc' = [pc EXCEPT ![h] = step]

Renamed(l, n) == [l EXCEPT !.name = n]
Overtaken(l) == [l EXCEPT !.raced = TRUE]
Failed(l) == [l EXCEPT !.ok = FALSE]

Update(h, l) == local' = [local EXCEPT ![h] = l]

Return(h, signer) ==
  /\ Goto(h, "idle")
  /\ answer' = [answer EXCEPT ![h] = signer]

\* A request of tenant t needs its key.
Begin(h, t) ==
  /\ pc[h] = "idle"
  /\ Goto(h, "lookup")
  /\ Update(h, NewLocals(t))
  /\ UNCHANGED <<backend, env, vault, cache, answer>>

\* Fault: the prefix alone is the key of the map.
cacheKey_PrefixOnly(t) == CHOOSE u \in Tenants : TRUE

cacheKey(t) == t

\* Fault: the map is not consulted.
Lookup_AlwaysCreates(h) ==
  /\ pc[h] = "lookup"
  /\ Goto(h, IF backend = "vault" THEN "setenv"
             ELSE IF backend = "gcp-kms" THEN "kms" ELSE "memory")
  /\ UNCHANGED <<backend, env, vault, cache, local, answer>>

\* A cached signer is the answer; otherwise getOrCreateKey turns to the backend.
Lookup(h) ==
  LET signer == cache[cacheKey(local[h].tenant)]
  IN  /\ pc[h] = "lookup"
      /\ \/ /\ signer # NoSigner
            /\ Return(h, signer)
         \/ /\ signer = NoSigner
            /\ Goto(h, IF backend = "vault" THEN "setenv"
                       ELSE IF backend = "gcp-kms" THEN "kms" ELSE "memory")
            /\ UNCHANGED answer
      /\ UNCHANGED <<backend, env, vault, cache, local>>

\* Handlers that have set the variable and not read it yet are overtaken.
Overtake(h) ==
  local' = [g \in Handlers |->
              IF g # h /\ pc[g] = "getenv" THEN Overtaken(local[g]) ELSE local[g]]

\* Fault: the variable is used as a lock.
Setenv_WaitsForOthers(h) ==
  /\ pc[h] = "setenv"
  /\ env = Unset
  /\ env' = local[h].tenant
  /\ Overtake(h)
  /\ Goto(h, "getenv")
  /\ UNCHANGED <<backend, vault, cache, answer>>

Setenv(h) ==
  /\ pc[h] = "setenv"
  /\ env' = local[h].tenant
  /\ Overtake(h)
  /\ Goto(h, "getenv")
  /\ UNCHANGED <<backend, vault, cache, answer>>

\* Fault: an empty name is not refused.
Getenv_NoCheck(h) ==
  /\ pc[h] = "getenv"
  /\ Update(h, Renamed(local[h], env))
  /\ Goto(h, "info")
  /\ UNCHANGED <<backend, env, vault, cache, answer>>

\* NewVaultSignerFromEnv reads the name, and fails if there is none.
Getenv(h) ==
  /\ pc[h] = "getenv"
  /\ Update(h, IF env = Unset THEN Failed(local[h]) ELSE Renamed(local[h], env))
  /\ Goto(h, IF env = Unset THEN "unsetenv" ELSE "info")
  /\ UNCHANGED <<backend, env, vault, cache, answer>>

Fails(h) ==
  /\ Goto(h, "unsetenv")
  /\ Update(h, Failed(local[h]))

\* initialize looks for the key in Vault.
KeyInfo(h) ==
  /\ pc[h] = "info"
  /\ \/ /\ Goto(h, IF local[h].name \in vault THEN "unsetenv" ELSE "create")
        /\ UNCHANGED local
     \/ Fails(h)
  /\ UNCHANGED <<backend, env, vault, cache, answer>>

\* A key that is missing is created; creating one that exists changes nothing.
\* A call can fail after Vault has created the key, its reply being lost.
CreateKey(h) ==
  /\ pc[h] = "create"
  /\ \/ /\ vault' = vault \cup {local[h].name}
        /\ Goto(h, "reinfo")
        /\ UNCHANGED local
     \/ /\ Fails(h)
        /\ vault' \in {vault, vault \cup {local[h].name}}
  /\ UNCHANGED <<backend, env, cache, answer>>

\* initialize reads the key it has created.
KeyInfoAgain(h) ==
  /\ pc[h] = "reinfo"
  /\ \/ /\ Goto(h, "unsetenv")
        /\ UNCHANGED local
     \/ Fails(h)
  /\ UNCHANGED <<backend, env, vault, cache, answer>>

\* The deferred Unsetenv runs when getVaultKey returns, on success and failure.
Unsetenv(h) ==
  /\ pc[h] = "unsetenv"
  /\ env' = Unset
  /\ Overtake(h)
  /\ \/ /\ local[h].ok
        /\ Goto(h, "store")
        /\ UNCHANGED answer
     \/ /\ ~local[h].ok
        /\ Return(h, NoSigner)
  /\ UNCHANGED <<backend, vault, cache>>

\* NewKMSSignerWithKeyID gets the public key of the tenant's key, or fails.
KmsKey(h) ==
  /\ pc[h] = "kms"
  /\ \/ /\ Update(h, Renamed(local[h], local[h].tenant))
        /\ Goto(h, "store")
        /\ UNCHANGED answer
     \/ /\ Return(h, NoSigner)
        /\ UNCHANGED local
  /\ UNCHANGED <<backend, env, vault, cache>>

\* The memory store has, or makes, one key for the name under its own lock.
MemoryKey(h) ==
  /\ pc[h] = "memory"
  /\ Update(h, Renamed(local[h], local[h].tenant))
  /\ Goto(h, "store")
  /\ UNCHANGED <<backend, env, vault, cache, answer>>

\* The signer goes into the map, whatever another handler has put there.
Store(h) ==
  LET signer == [name |-> local[h].name, raced |-> local[h].raced]
  IN  /\ pc[h] = "store"
      /\ cache' = [cache EXCEPT ![cacheKey(local[h].tenant)] = signer]
      /\ Return(h, signer)
      /\ UNCHANGED <<backend, env, vault, local>>

\* Steps the process takes by itself, and calls that end when the backend ends
\* them: the HTTP client has no timeout and the context no deadline.
OwnStep(h) ==
  Lookup(h) \/ Setenv(h) \/ Getenv(h) \/ Unsetenv(h) \/ MemoryKey(h) \/ Store(h)
BackendCall(h) == KeyInfo(h) \/ CreateKey(h) \/ KeyInfoAgain(h) \/ KmsKey(h)

-----------------------------------------------------------------------------
(* The rest of the process *)

\* ClearCache replaces the map.
ClearCache ==
  /\ cache' = [t \in Tenants |-> NoSigner]
  /\ UNCHANGED <<backend, env, vault, pc, local, answer>>

\* Go ends the process when it notices that a map is written while it is read
\* or written; it starts again with nothing but what Vault and KMS keep.
ConcurrentMapAccess ==
  /\ \E g, h \in Handlers : g # h /\ pc[g] = "store" /\ pc[h] \in {"store", "lookup"}
  /\ env' = Unset
  /\ cache' = [t \in Tenants |-> NoSigner]
  /\ pc' = [h \in Handlers |-> "idle"]
  /\ local' = [h \in Handlers |-> NoLocals]
  /\ answer' = [h \in Handlers |-> NoSigner]
  /\ UNCHANGED <<backend, vault>>

Next ==
  \/ \E h \in Handlers, t \in Tenants : Begin(h, t)
  \/ \E h \in Handlers : OwnStep(h) \/ BackendCall(h)
  \/ ClearCache
  \/ ConcurrentMapAccess

Spec == Init /\ [][Next]_vars
FairSpec == Spec /\ \A h \in Handlers : WF_vars(OwnStep(h))

-----------------------------------------------------------------------------
(* Properties *)

\* A signer handed out for a tenant holds the tenant's own key, unless another
\* handler touched VAULT_KEY_NAME between this one's Setenv and Getenv
\* (production.go:125, vault_signer.go:45): requests that are not overtaken
\* there, and the two other backends, always get their own key.
OwnKeyUnlessRaced ==
  /\ \A t \in Tenants : cache[t] = NoSigner \/ cache[t].name = t \/ cache[t].raced
  /\ \A h \in Handlers :
       pc[h] # "idle" \/ answer[h] = NoSigner \/ answer[h].name = local[h].tenant
       \/ answer[h].raced

\* Every tenant has its own signer cached and nobody is creating one.
Warm ==
  /\ \A t \in Tenants : cache[t] # NoSigner /\ cache[t].name = t
  /\ \A h \in Handlers : pc[h] \in {"idle", "lookup"}

\* Once every tenant's own signer is cached and no key is being created, the
\* variable is not touched again and every answer is the tenant's own key,
\* until the cache is cleared or lost (production.go:90-103).
WarmCacheIsSafe ==
  [][Warm => Warm' \/ cache' = [t \in Tenants |-> NoSigner]]_vars

\* A request for a key waits for nothing but its own call of Vault or KMS: one
\* that hangs there, which nothing ends (vault_signer.go:56), holds up neither
\* the other tenants nor another request of its own (production.go:85-134).
OnlyTheBackendDelays ==
  \A h \in Handlers :
    pc[h] # "idle" ~> pc[h] \in {"idle", "info", "create", "reinfo", "kms"}
=============================================================================
