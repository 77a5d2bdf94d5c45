# credential-service: TLA+ models, checks and proofs

This directory models the credential service: an **issuer** that signs
verifiable credentials for tenants and lets their holders delegate them, and a
**verifier** that checks chains of such credentials, decides gateway requests
by policy, and accepts OIDC4VP presentations. The models are written from the
Go code under `src/`; `PROJECT.json` names, for each definition, the lines it
stands for.

Contents: [the system](#1-the-system) · [the modules](#2-modules-and-code) ·
[the runs](#3-model-checking) · [the proofs](#4-proofs) ·
[findings](#5-where-code-and-documents-disagree) ·
[what is left out](#6-what-is-not-modelled) · [the plan](#7-plan)

## 1. The system

| component | state | operations | interacts with |
|---|---|---|---|
| Credential chain verification (`internal/domain/vc_verify.go`, `delegation.go`, `vc_helpers.go`, `obo.go`) | none | verify one credential (signature, expiry, issue time, disclosures, audience), verify a chain root first, agent context | called by the verify, gateway and delegate handlers; calls back into the resolver it is given |
| Verify endpoint (`httpserver/verifier_handlers.go`) | none | `POST /v1/credentials/verify` | chain verification, trust registry |
| Admin gate (`httpserver/admin_middleware.go`, `domain/admin.go`) | none | verify the bearer's credential, look for the role | chain verification, trust registry; in front of the policy admin API |
| Tenants (`tenant/`, `httpserver/middleware_tenant.go`, `middleware.go`) | the tenant table, written at start-up | resolve the tenant of a request, read it back in a handler | in front of every route |
| Gateway (`httpserver/gateway_handlers.go`, `domain/authz_bridge.go`, `cache/`) | the decision cache in Redis | `POST /v1/gateway/authorize`: validate, rate-limit, look up, verify, evaluate, mint, store, answer | everything below; runs concurrently with administrators |
| Trust registry (`domain/trust_registry.go`, `storage/trust_registry_pg.go`, `httpserver/trust_handlers.go`) | the issuers each tenant trusts | add, remove, list, lookup | read twice per credential of a chain |
| Policy engine (`policy/engine_impl.go`) | none | filter, sort, scan | policy store |
| Policy store and admin API (`policy/store_memory.go`, `store_pg.go`, `httpserver/policy_admin_handlers.go`) | policies of all tenants, next id | create, update, delete, seed at start-up | read by the engine |
| OIDC4VP endpoint (`oidc4vp/`, `httpserver/oidc4vp_handlers.go`) | authorization requests by `state`, in memory | save, get, validate a response, mark used | revocation list, trust registry, chain verification |
| Revocation list (`domain/revocation.go`) | revoked ids, in memory | add, remove, lookup | read per presented credential |
| Issuer (`httpserver/issuer_handlers.go`, `bootstrap_handlers.go`, `domain/vc.go`, `policy/issuance_policy.go`) | none of its own | issue (JWT or SD-JWT), delegate, bootstrap | key store, chain verification (of the parent) |
| Key stores (`keystore/`, `did/`) | a signing key per tenant, in memory or in a file | get or create, create and rotate (`idctl`), reload | shared by concurrent issuer requests and, through the file, by another process |
| Production key store (`keystore/production.go`, `crypto/vault_signer.go`) | signers by tenant, an environment variable of the process, keys in Vault or KMS | choose a backend, get or create, clear the cache | shared by concurrent requests, without a lock |
| Rate limiter (`ratelimit/`) | a sliding window in Redis, shared by all verifier processes | allow | gateway |
| DID resolution (`domain/did_resolver*.go`) | a cache of resolved keys | resolve `did:jwk` and `did:web`, with a fetch that may time out | called by the verifiers, concurrently |
| SDKs, CLI, metrics, audit, configuration | see `PROJECT.json` | | |

What is hard about it, and what would make each part wrong:

* **A decision is a sequence of readings.** A gateway request reads the clock
  (twice, and Redis counts a third time), the registry (per credential), the
  policies and the cache. Anything may change between two of them, and the
  result is then served from the cache. The question is how stale an *allow*
  can get.
* **Delegation is checked by neighbours.** The loop compares each credential
  with the one before it only, and treats a missing scope or expiry specially;
  the conclusion wanted is about every ancestor.
* **A request must be answered once.** The OIDC4VP handler reads a request,
  validates against its copy and marks it used, with no lock over the three.
* **First use creates a key.** Look-up and creation are one critical section in
  the memory store and two in the file store.
* **A torn key file.** The only copy of the keys is truncated before it is
  rewritten, and a file that cannot be read makes the service start afresh.
* **Lookups overwrite each other.** A DID is fetched without the lock; a slow
  lookup may store a key that was replaced over the one that replaced it.
* **Numbers.** A lifetime in seconds becomes an `int64` of nanoseconds and
  wraps; the policy looks at it before it does. Depth is length minus one.
* **Policies are sorted and scanned**, with a late deny beating an early allow.
* **A window counted by several clocks.** The limiter's script is atomic, but
  the reading it records was taken earlier, by another machine; scripts run in
  another order than their readings, and more than once when a reply is lost.
* **A parameter passed through the environment.** The production store tells
  the Vault signer its key's name in a variable that all requests share.
* **Two tenants in one context.** One value is copied from the header or the
  path, the other checked against the store; handlers read the first one first.
* **A gate in front of a body.** The admin gate judges the bearer before the
  handler behind it reads the body, which no timeout bounds.

`PROJECT.json` lists these as hazards, each at its line, with the properties
that would catch it going wrong.

## 2. Modules and code

```
CredentialChain ────────────┬─ VerifyEndpoint ─┬─ MCVerifyEndpoint
Tenancy ──────┬─ PolicyStore ┤                 └─ VerifyEndpointProofs
PolicyEngine ─┘              └─ MCPolicyStore
CredentialChain ─┬─ Issuer ─────────┬─ MCIssuer
                 │                  └─ IssuerProofs
                 ├─ Presentations ──┬─ MCPresentations
                 │  OneShotRequests ┘  PresentationsProofs
                 └─ Gateway ────────┬─ MCGateway
PolicyEngine ──────┘                └─ GatewayProofs
DidResolver ───────────┬─ MCDidResolver
                       └─ DidResolverProofs
RateLimiter ───────────┬─ MCRateLimiter
                       └─ RateLimiterProofs
ProductionKeyStore ────┬─ MCProductionKeyStore
                       └─ ProductionKeyStoreProofs
CredentialChainProofs: lemmas shared by the proofs of the four at the top
```

**CredentialChain** — operators only. `Credential` is what a token decodes to:
both formats (the W3C wrapper and the legacy one, whose expiries are read from
different fields), issuer, the key that signed it, scope, audience, times,
digests and disclosures. Signatures and hashes are ideal: a token is signed by
a key or not. `ErrorAt` is one iteration of the loop in
`VerifyCredentialChain`, in the code's order; `VerifyCredentialChain` is the
first error over the whole chain. Time 0 stands for a missing date, as Go's
zero time does.

**Tenancy** — operators only: `Resolve` and `TenantError` are the resolver and the
middleware, in single- and multi-tenant mode; `extractTenantID` and
`HandlerTenant` are what the correlation middleware copies and what a handler
then reads. The table of tenants is an input: it is written at start-up alone.

**VerifyEndpoint** — the verify endpoint and the admin gate, behind both
middlewares: `VerifyReply` for a chain, `AdminReply` for a bearer's credential,
`ServeHTTP` in front of them. A client extends its chain (`Present`) and presents
it again later (`PresentLater`). The module composes `PolicyStore`: a request that
the gate lets through waits in `admitted` for its body (`Admit`) and reaches the
handlers in a step of its own (`Administer`), which work out the tenant for
themselves and do not look at the credential again. In between the clock, other
requests and the trust registry (`AddTrustedIssuer`, `RemoveTrustedIssuer`) move on.
An admission carries history, when it was judged and by which registry, that no
action reads. The resolver that `services/verifier/server.go`
installs asks the registry a second time, for the default tenant;
`ResolveIssuerPublicKey` has both questions.

**PolicyEngine**, **PolicyStore** — `Evaluate` is the filter, the sort
(`sortPolicies` by `Before`: priority, then id) and the scan of `engine_impl.go`; a
path is a sequence of segments. The sort is written by rank, a policy's place being
the number of those before it. `PolicyStore` has an action per admin operation and
`Restart`, which creates the demo policy whatever the store holds, so that with
Postgres every start adds a copy; `persistent`, chosen at the start among `Stores`,
says which store it is. Its specification is `StoreSpec`, its state `storeVars`, so that
`VerifyEndpoint` can have its own beside them. Each store operation is one step: it holds the mutex or is one SQL
statement.

**Gateway** — the handler in steps, `Start`, `CacheHit`/`CacheMiss`, `Verify`
(once per credential), `EvaluatePolicy`, `Mint`, `ComputeTTL`, `Persist`,
composed of `CredentialChain` and `PolicyEngine`, beside `AddTrustedIssuer`,
`RemoveTrustedIssuer`, `ChangePolicies` and `Tick`. A handler that answers (`Respond`,
`Refuse`) forgets what it knew. Steps end where the handler
calls out or reads the clock. Resolving, policy evaluation, minting and the
cache may fail, each the way the code handles it; the limiter's verdict is a
free choice. An answer carries history (which request it was computed for, and
when) that no action reads.

**Presentations** — `Begin` (form, `Get`, structural checks), `ValidateQuery`
once per credential query in any order (Go visits a map), `Validated`,
`MarkUsed`; the resolution of the holder's and of the issuer's key may fail, each
by itself (`Outages`); beside `Save`, `AddRevocation`, `RemoveRevocation`, `Restart` and
`Tick`. **OneShotRequests** is what the store promises: a saved request is
consumed by one verified response. `Presentations` implements it under the
mapping of its records to the phases none, open and consumed.

**Issuer** — requests to issue, delegate and bootstrap: `Start` (the checks
before the key store is asked), `GetSigningKey` / `MemoryGetSigningKey` /
`FileGetMisses` + `FileSave`, `VerifyParent`, `Sign`. `FileSave` may fail and may
leave the file truncated; `Restart` may happen in the middle of it and falls
back to keys in memory as `services/issuer/server.go` does; `Create` and `Rotate`
are `idctl did create` and `did rotate` editing the file beside the service. A `did:jwk` spells its key, so both are one
value. A `time.Duration` counts quarters of a second here (`Second`) and wraps at
`DurationSpan`, so that what it wraps to need not be whole; expiries are Unix times,
and a part of a second moves one on or not (`UnixSeconds`). A request that is refused leaves no trace, so one refused at once is not
started at all.

**DidResolver** — `ResolvePublicKey` of the composite resolver: `LookupAnswered`
(from the cache, or refused for its method), `LookupJwk`, `LookupWeb` with
`Serve`, `Receive`, `Fail` and `TimesOut`, then `Store`, which takes the lock again
and overwrites whatever was stored meanwhile. `Publish` replaces a document on
its server. Steps end where the lock is released and where the lookup waits for
the network. A DID of `did:web` is the sequence of its parts, with a port or
without; a document is the sequence of the keys of its verification methods, and
one that cannot be fetched, read or decoded is empty. `past` and `lag` are
history that no action reads. The other modules take a resolver as a function
that may fail; `did:jwk` issuers, the only ones the service creates, never change
their key.

**RateLimiter** — `Allow` reads the clock of its process, `Eval` runs the Lua script
(`Script`: purge, count, record, expire) and takes its answer, `EvalLost` runs it
and loses the answer, so that it runs again, `EvalFails` gives up before or after
it ran. `skew` sets the clocks of the processes apart, and `Tick` lets a call be
under way for `MaxDelay`. A member of the sorted set is its own score, as in the
code; equal readings are one member. Redis drops a key `KeyTTL` after the last
request it let through. `counted` and `calls` are history that no action reads.
`Gateway` takes the limiter's verdict as a free choice.

**ProductionKeyStore** — `NewProductionKeyStoreFromEnv` with its fallbacks, then
`GetSigningKey` in steps: `Lookup` in the map, for Vault `Setenv`, `Getenv`, `KeyInfo`,
`CreateKey`, `KeyInfoAgain`, `Unsetenv` (deferred: on errors too), for the others
`KmsKey` or `MemoryKey`, and `Store`. Steps end where another request can touch the
variable or the map. Each call of a backend may fail or never return.
`ClearCache` empties the map; `ConcurrentMapAccess` is the Go runtime ending the
process when a write of the map meets another access. `raced` is history: another
request touched the variable between this one's `Setenv` and `Getenv`. A call that
fails may have created its key all the same, with the reply lost.

Names ending in `_Something` next to a definition, marked *Fault*, are not part
of the model: each is a plausible mistake in that definition, used to see that
the property named with it in `PROJECT.json` notices.

## 3. Model checking

`tlc -config X.cfg M`, in this directory.

| run | configuration | what it shows |
|---|---|---|
| `verify_endpoint` | every chain of up to 5 of 6 credentials, 2 tenants that trust one issuer each, both modes, with and without header and path segment, clock to 4, 1 change of the registry, a store of 2 ids | an accepted chain narrows at every distance (`AcceptedChainNarrows`) and is accepted for the tenant the request names, which trusts its issuers (`AcceptedForItsTenant`); the reported expiry is kept (`ReportedExpiryIsHonoured`); expired stays expired (`ExpiredIsFinal`); a tenant's policies change only by a request that the gate let in on the tenant's own trust, once for each (`EditsAreAuthorized`) |
| `policy_store` | both stores, 2 tenants, 3 bodies, 4 ids, 1 restart, 16 inputs | sort-and-scan gives the documented decision (`EvaluateFollowsRules`), tenants are independent (`TenantsDecideAlone`), ids are not reused (`IdsNameOnePolicy`) |
| `gateway_cache` | 2 handlers, a chain of three, a chain that is refused and a request that is, 1 administrative change at any moment, clock to 3, cache window 2 | `CachedAllowExpiresWithChain`, `PolicyChangeTakesEffect`, `TrustRemovalTakesEffect`, `AgentScopeWithinChain`, `SyntheticJWTIsBounded` |
| `gateway_keys` | 2 requests that concatenate alike, *violated* | `CachedAnswerIsOwn` |
| `rate_limiter` | 2 callers, 1 key, limit 2, window 5, skew and delay 1, 4 calls, clock to 7 | the limit holds over the window less skew and delay (`LimitIsKept`); nobody is refused for requests that were refused, nor for its own unless a reply was lost (`RefusalIsDeserved`); a repeated script takes one place (`CallCountsOnce`) |
| `presentations` | 2 handlers, 2 requests, 4 responses, 2 saves, 2 changes of the revocation list, 1 restart, clock to 2 | `ImplementsOneShot`, `RevokedIsRefused`, `VerifiedIsComplete` |
| `presentation_revocation` | 1 handler, a credential with an id and another jti, *violated* | `RevokedByEitherName` |
| `issuer` | 2 handlers, 2 tenants, 6 requests, 2 keys, 3 credentials, 1 restart, 1 key changed by `idctl`, clock to 2 | `DelegationNarrows`, `TenantsStayApart`, `IssuedLifetimes`, `MemoryKeysAreStable` |
| `issuer_first_key` | 2 handlers, a JWT and an SD-JWT, *violated* | `SignerIsCurrent` |
| `issuer_delegation` | 2 handlers, 1 tenant, *violated* | `DelegationExpiresFirst` |
| `production_keys` | 2 handlers, 2 tenants, all settings of the environment, fairness | a tenant gets another one's key only if its variable was overtaken (`OwnKeyUnlessRaced`); a warm cache ends the danger (`WarmCacheIsSafe`); a request waits for its own call of the backend alone (`OnlyTheBackendDelays`) |
| `did_resolver` | 2 handlers, 5 DIDs, 3 documents, 1 replaced at any moment, clock to 3, timeout and cache life 1, fairness | `KeyChangeTakesEffect`, `EveryLookupIsAnswered` |

One run of each module also checks its type invariant.

**Why the bounds are enough.** Five credentials exceed the depth limit of four
by one. The store in `verify_endpoint` is there for who may edit it, not for what it
decides: it holds the demo policy and one more, never restarts (so that the two kinds
of store behave alike and one of them is enough), and evaluates nothing; `policy_store`
is the run about its contents. Two handlers suffice for an overlap: each property speaks of one answer
or of a pair. One change, placed anywhere, is the one the answer is stale about.
In `gateway_cache` the chain that is allowed has no expiry at its root, then 3, then 2
at its leaf, all reached by the clock: with a window of 2 the TTL is the window's at
time 0, cut to 1 at time 1 and 0 after that, and a handler that waits between
computing and storing it leaves an entry that is served past the leaf's expiry. A token is asked for before, at and after the expiries, minted before or
after a tick, and served from the cache. The key of `buildCacheKey` tells these three
requests apart; `gateway_keys` is about requests it does not.
Two keys make two tenants, or one tenant whose key is lost,
overwritten or rotated; three credentials make a chain of delegations, and two ticks
let each of them be dated late. The tenant that delegates also presents the other
tenant's credential, and the bootstrap's, which has neither scope nor audience as
an SD-JWT has neither.
In `verify_endpoint` one change of the registry gives a tenant an issuer or takes it
away, before or after an admin request passed the gate; credentials expire while
requests wait behind it.
In `did_resolver` a lookup that started before the change can finish its fetch,
wait, and store the old key after another lookup stored the new one, and the
entry still expires before the clock ends; a fetch starts only while its timeout
lies within the bound, so that every lookup can end.
`DurationSpan = 33` quarters of a second make lifetimes of 17, -31 and -15 seconds wrap,
the way 2^63 nanoseconds do, to half a second, two, and one and a half; a delegation
that asks for -15 passes the policy as a negative number and is then bounded by its
parent, one that asks for -2 is refused.
In `rate_limiter` the window is long enough for a burst, its purge and the next
burst, with readings out of order by up to 2, and 4 calls exceed the limit twice.
In `production_keys` nothing but the two handlers and tenants is bounded.
A tick stands for any span of a second or more.
Symmetry is used only where handlers are interchangeable and no property is a
liveness property. Deadlock is checked in `production_keys`, which has no final
state; elsewhere it is not: an idle service and a used-up bound both are.

**Fairness.** Two specifications have it. Starting a request, time other than that
of a running timer, administrators and restarts are never assumed to happen.
`DidResolver!FairSpec` asks for time to pass, for the timer of the HTTP client
(`http.Client.Timeout`, which covers the reading of the body) to fire and for a
lookup that has its key to store it; servers need never answer.
`ProductionKeyStore!FairSpec` asks for weak fairness of `OwnStep` alone, the steps the
process takes by itself: the HTTP client for Vault has no timeout
(`vault_signer.go:56`) and the context no deadline, so a call of a backend need
never end, and `OnlyTheBackendDelays` is what is left to say.

## 4. Proofs

Checked by TLAPS for every value of the constants that the assumptions of the
modules allow: any number of handlers, tenants and tokens, chains of any
length, any lifetimes.

*GatewayProofs.* `Invariance` (`Spec => []Inv`), and from it `TypeCorrect`,
`CachedAllowExpires`, `TrustRemoval`, `PolicyChange`, `AgentScope` and `SyntheticJWT`. None of the properties is inductive: an answer served from the
cache gives no hint of why it was computed. `Inv` therefore carries, for a
handler in progress, what it knows at its step — `Position` (the part of the
chain verified so far narrows), `Resolved` (each issuer looked up so far is
trusted, or was removed after the request started), `Drafted` (the policies in
force allow, or changed after they were evaluated), `Timed` (the TTL ends before
any credential of the chain) and `Stamped` (history lies in the past) — and for a
cache entry and an answer the same facts about the request they were computed
for (`EntryInv`, `AnswerInv`). The key step is `TTLWithinChain`: the TTL is cut by
the leaf's expiry alone, and the narrowing that `Verify` established makes it
end before every ancestor's. `SyntheticJWT` (`SyntheticJWTIsBounded`) layers `JwtInv` over
`Inv`: the part of the chain verified so far had not expired when the request arrived,
which the later reading of the clock implies, and the token was minted between two of
the request's stamps. Neither depends on the clock once the decision is stored, so the
bound reaches the cache and whoever is answered from it.

*PresentationsProofs.* `TypeCorrect`, `Revocation`, `Refinement` and `Completeness`. `Inv` adds
to the types, for each handler, that the queries already visited hold no
credential revoked throughout under the name the code looks up (`Checked`), and that nothing is pending once the
handler is about to mark the request (`Visited`). `local.revoked`, the ids
revoked during the whole request, only shrinks. `Refinement` maps each step to
`Open`, `Consume`, `Forget` or a stutter: only `MarkUsed` consumes, and it tests
and sets under the store's mutex. `Completeness` (`VerifiedIsComplete`) layers
`FoundInv` over `Inv`: the response arrived in the lifetime its request states, and the
queries no longer pending were answered with presentations bound to the request, where
the query asks for that, and with credentials that were trusted and had not expired
when the handler began, so that once none is pending the required sets are covered.
`KeepsExpiry` ties the expiry `Get` looks at to the one in the handler's copy of the
request. Nothing is said of the moment of `MarkUsed`: the code does not look.

*IssuerProofs.* `TypeCorrect`, `TenantsApart`, `Delegation`, `MemoryKeys` and
`Lifetimes`, from `Invariance`. The credentials issued say nothing of the keys still to be
used, so `Inv` follows a key wherever it is: `Held(t, k)` says that `k` is in the
store, in the file, in a handler's hands or on a credential for tenant `t`, and
`Owned` that a key is held for one tenant and is older than `nextKey` — which is
why neither a file that was lost or rotated nor a save that overwrote another
can bring two tenants to one key. `TenantsStayApart` then follows for parents
too: the delegate handler trusts only its own key, so the parent's key is
`Held` by both tenants (`Family`). `Delegable` records what a handler about to
sign has checked of the parent; `NewIssueNarrows` adds the parent's own descent
to it, with the lag of both. `Delegation` bounds by that lag how long a child outlives
its ancestors; that it may outlive them is what `issuer_delegation` shows. `MemoryInv` says that what a handler holds, or has
signed with in this run, is what the store in memory keeps. `Lifetimes`
(`IssuedLifetimes`) needs more: a delegation may ask for a negative number, which
the policy lets pass and which wraps to a positive one, so that only the parent
bounds it. `LifetimeInv` says that a credential was not dated in the future
(`Dated`) and that a handler about to sign a delegation passed the policy and has
a parent issued before it read the clock (`Passed`); the child then ends no later
after its issue than the parent, but for the time the handler took.

*DidResolverProofs.* `TypeCorrect` and `KeyChange`. `KeyChangeTakesEffect` is not
inductive: it says nothing of a lookup that is still fetching. `IInv` adds, per
lookup, that the document it was served was published when the fetch started or
later (`LookupOK`), and, per entry, the same counted back from its expiry
(`EntryOK`) rather than from the clock, so that time passing disturbs neither.
`PublishKeeps` is the step that matters: replacing a document records the key it
had until now, so whatever was named since `t` still was. Overwriting needs no
case of its own, because each entry carries its own bound.

*VerifyEndpointProofs.* `TypeCorrect`, `AcceptedNarrows`, `AcceptedTenant`,
`ReportedExpiry` and `ExpiredStaysRefused`, from `Invariance`. The
reply in the state is the handlers' answer to the request at the time of the
clock (`Answered`), and requests have the shape of their route (`Routed`), so each
property becomes a fact about operators. `VerifiedNarrows` carries the comparison of
neighbours over to all ancestors of a chain of any length: `Covers` is
transitive although a missing expiry is special-cased. `AcceptedTenant` shows
that the value handlers read first and the value that was checked agree whenever
a request reaches an answer that accepts. The two action properties compare the
answer before and after a tick: of the reasons to refuse an accepted chain only
expiry can arise with time, and the leaf's comes first; and the reasons that
time can lift come after expiry in the order of the checks.

The same module has the theorems about policies, in three layers.

* *The engine.* `ScanFollowsRules`: for any finite set of policies in which no two
  have one id, the scan of the sorted matches gives the decision of the rules. That
  the list is sorted is not proved by induction over it: `Before` is a total order on
  such a set (`BeforeIsTotal`), so the number of policies before one grows along it
  (`RankIsMonotone`), and by counting every place is taken exactly once (`RankIsOnto`).
  `SortSorts` follows, and `FirstInOrder` turns "the first index with this effect" into
  "the first policy with it".
* *The store.* `StoreTypeCorrect`, `EvaluationRules`, `TenantIsolation` and `IdsAreNames`,
  from `StoreInvariance`. `EvaluateFollowsRules` is not inductive, and false for a set in
  which two policies share an id; `StoreInv` adds that the policies are finitely many,
  that an id is below `nextID` and belongs to one policy. `TenantIsolation` needs no more
  than that an admin request of `t` touches policies of `t` alone.
* *The service.* `ImplementsStore` (`Spec => StoreSpec`): the gated edits are edits of
  the store for one of its tenants and all other steps leave it alone, so `ServiceDecides`
  carries the three properties over to the service. What an edit is carried out for was
  judged in an earlier state, so both need an invariant about the requests that wait:
  `Vouched` says of each of them what the gate established, at the time and with the
  registry of its history, about the tenant the handlers will serve it for (`Sound`).
  `GateVouches` proves it: a new admission is sound because the reply in the state is the
  gate's answer (`AdmitSound`), and an old one stays so because neither its request nor
  the tenant table changes (`VouchedNext`). `AuthorizedEdits` (`EditsAreAuthorized`) follows:
  the step that changes what decides for `t` spends such a request. Nothing is said of
  the credential at the moment of the edit: the code does not look again.

*RateLimiterProofs.* `TypeCorrect`, `LimitTheorem`, `RefusalTheorem` and
`CallsCountOnceTheorem`. The set itself never exceeds the limit, but what was let
through is more than what it still holds. `Forgotten` is the heart of `Inv`: a
reading that has left the set is older, by the window or the life of the key
less the skew, than the clock; with `Timely` (a call in progress is late by at
most `MaxDelay`) no reading still to come is within `Span` of it. So whatever is
within `Span` of a new reading is still in the set, and the set has room. `Crowded`
keeps for a refused call the crowd it was refused for, its own reading apart. `Recorded` ties
members to the key's deadline, `Numbered` counts readings, those of pending calls
included, against calls. `MaxSkew` and `MaxDelay` are assumptions about the
deployment: without them the window says nothing.

*ProductionKeyStoreProofs.* `TypeCorrect`, `OwnKeyTheorem` and `WarmTheorem`. `Inv` says
where the tenant's name is on its way: in the variable (`Announced`), then in
the handler (`Named`), then in the map (`OwnCached`), or that the handler was
overtaken. `WarmTheorem` is proved from `Inv` as an action property.

*CredentialChainProofs.* The lemmas the others share: the type of a scope and
of an expiry, that an accepted link narrows (`LinkNarrows`), that an accepted
credential was resolved (`OkMeansResolved`, `AcceptedAlone`), and that a set of numbers
has a least one (`LeastNumber`), which first and last indices rest on.

Assumptions are those of the modules: types of the constants, and of `PolicyStore` that
what the admin API stores for a body is a policy. `RateLimiterProofs` has its two about
the deployment besides.

Model-checked only: the liveness properties `EveryLookupIsAnswered` and
`OnlyTheBackendDelays`, since fairness is out of the prover's reach. Every safety
property of a passing run is a theorem.

## 5. Where code and documents disagree

1. `gateway_keys` — the cache key has no separators; `docs/GATEWAY_HARDENING.md:13`.
2. `issuer_first_key` — `did_keystore.go:46` looks up and saves under two locks;
   the comment at line 40 promises the current signer. A credential signed with
   the key that was overwritten can no longer be delegated.
3. `issuer_delegation` — a delegation is checked against the time read before the
   parent is verified and dated by a later reading (`vc.go:208`), so it can expire after
   its parent; `issuer_handlers.go:263` says it "must expire before parent",
   `delegation.go:42` "no later than the parent". `DelegationNarrows` bounds the excess.
4. `presentation_revocation` — a credential with an id that was revoked by its `jti` is
   accepted (`oidc4vp/validation.go:384`); `docs/OIDC4VP.md:44` says "by VC `id`/`jti`".
   `RevokedIsRefused` is what holds: revoked under the name the code looks up.

Read off the code, without a run of their own:

* Trust: `services/verifier/server.go:93` looks issuers up for the default tenant
  as well, so a tenant's own issuer is refused unless the default tenant trusts
  it too; `docs/TENANCY.md:18` says lookups use the resolved tenant.
  `AcceptedForItsTenant` shows that the second question only refuses more.
* SD-JWT: the issuer puts the digests where the verifier does not look
  (`domain/vc.go:290`), so a missing disclosure goes unnoticed; `docs/GATEWAY.md:86`
  lists it as an error.
* Admin edits: the gate judges the bearer before the body is read, and the servers
  set no read timeout, so an edit can land after the credential expired or its issuer
  was removed (`admin_middleware.go:58`, `policy_admin_handlers.go:80`, `138`).
* OIDC4VP: a request saved again under its `state` while a response to the old one is
  validated is consumed by that response (`oidc4vp/store.go:34`).
* Vault keys: an overtaken request creates or is handed another tenant's key and
  caches it under its own tenant (`production.go:125`), where the comment at line 84
  says the key is "for the given tenant". `OwnKeyUnlessRaced` shows that this
  is the only way. Nothing but a test calls `ClearCache`, so it lasts until the
  process ends.
* `vault_signer.go:144` says "Get the latest key version" and takes the first one
  in map order.
* The Vault client has no timeout (`vault_signer.go:56`).
* Tenants: a failed query of the tenant table is answered as `tenant_required`; in
  multi-tenant mode health and metrics need the header too, since the middleware
  wraps the whole mux; every start enables the default tenant again
  (`services/verifier/server.go:62`).
* Rate limiter: requests with equal readings count once, and scores are doubles,
  which cannot hold every nanosecond (`redis_limiter.go:90`). A call that was let
  through and lost its reply counts against its own repetition: with one place fewer
  taken by others than the limit it is refused (`redis_limiter.go:88`).
* Policies: with Postgres each start adds another demo policy, where the warning
  at `services/verifier/server.go:78` expects the second creation to fail.
* `docs/GATEWAY.md:87` says `credential_expired` is about the leaf, the code answers
  it for any credential of the chain; `docs/DEVELOPER_GUIDE.md:27` says claims are
  merged, the code returns the leaf's.
* Lifetimes: a hugely negative `ttl_seconds` wraps to a positive lifetime and is
  accepted although it "must be positive" (`issuer_handlers.go:75`, `212`) —
  `IssuedLifetimes` shows that it then still stays within the policy.
* Agent SDK: `sdk/go/agent.go:144` reads scope and expiry at the top of a token's
  payload, where the issuer's tokens have them under `vc` (`domain/vc.go:237`), so
  that `StartAgentSession` refuses every scope of an issued credential; and a
  refresh asks for the time left until the expired session's end, which
  `clampTTL` (line 201), being negative, turns into all that is left of the parent.
* OIDC4VP: the holder reported for a response with several presentations is that of
  the one visited last, in map order (`oidc4vp/validation.go:94`).
* A W3C token without `exp` is not refused when its nested `expiresAt` has passed
  (`domain/vc_verify.go:184`); the legacy branch looks at that field (line 250). The
  issuer sets both. `SyntheticJWTIsBounded` counts from the limit the code applies.
* The DID cache keeps an expired entry until its DID is looked up again
  (`domain/did_resolver.go:193`).
* The issuer registers the default tenant only, so other tenants' requests end in
  `tenant_not_found` (`services/issuer/server.go:61`).

## 6. What is not modelled

* Encodings, signatures and hashes: ideal. HTTP plumbing, logging, metrics, the
  audit trail and configuration: no decision reads them back.
* Tenant resolution is modelled for the routes of `VerifyEndpoint`; elsewhere the
  resolved tenant is an input of each request. `Tenants` has several members in the
  models, as with the Postgres tenant store or the wiring of `test/multitenant`.
  `Presentations` has one tenant. `trust/tenant_registry.go` is used by no service.
* The client SDKs make one HTTP call per method; the session of the Go agent
  (`sdk/go/agent.go`) is in the plan.
* Of the production key store: signing with Vault or KMS, and rotation inside
  Vault, which nothing in the repository triggers.
* Of the rate limiter: `NoopLimiter`, which has no state, and scores as doubles.
* Of DID resolution: the limits on lengths and sizes (a DID beyond them is among
  `OtherDids`, a document beyond them is empty), cancelled contexts, and the
  insecure mode for tests.
* `httpserver/router.go` (`NewRouter`) and the revocation routes are called by no
  binary; revocation is modelled because the OIDC4VP validator reads it.
* The presentations of one credential query are validated in one step, and the
  holder DID of a response with several presentations (the last one in map
  order) is left out.
* Two admin requests that are equal and pass the gate at the same second are one in
  `VerifyEndpoint`; a refusal of the gateway keeps no time, since no property speaks
  of it.
* Nothing is claimed about whether gateway and OIDC4VP requests end: the policy engine
  asks its store with `context.Background()` (`engine_impl.go:26`), so that nothing in
  the code bounds the time a query takes.
* The synthetic JWT is kept as its expiry. No statement of the repository bounds
  it by the credentials; `SyntheticJWTIsBounded` says by how much it can outlive them.
* `idctl did create` and `did rotate` read and write the file in one step; torn
  writes are modelled for the service. `did import` is left out: it can put one
  document under two labels, and tenants would share a key by the operator's
  choice; so are ES256 keys, which the issuer cannot sign credentials with.
* `Issuer` leaves out the older keys of a DID document, which nothing reads,
  and `/v1/keys/generate`, which keeps nothing.
* `MaxTTLSeconds` is assumed to fit a `time.Duration`.

## 7. Plan

Done, in this order: chain verification and its endpoint; policies; the gateway
with its proofs; OIDC4VP with its refinement; the issuer with its key stores and
its proofs; DID resolution with its proofs; the rate limiter, the production key
store, tenants and the admin gate with their proofs; theorems about what a
verified response covers and about issued lifetimes; the policy engine and store with
their proofs, and the gate composed with the store; the bound on synthetic JWTs; the
gate and the edit behind it as two steps, and the runs about revocation by `jti` and
about delegations that outlive their parents.

Next, most important first:

1. An abstract specification of the limiter (a log of admitted requests) that
   `RateLimiter` implements, composed with `Gateway` in place of the free choice.
2. The session of the Go agent SDK against `Issuer` and `Gateway`.
3. The holder of a response with several presentations, once a document says
   which one it should be.
