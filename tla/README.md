# Finsplitter in TLA+

Finsplitter is a Go HTTP service for splitting card expenses. Identities live in
Logto (an OIDC provider), everything else in Postgres, and Valkey caches Logto's
signing keys. This directory holds TLA+ models of the parts of the service in
which several actors can get in each other's way, the TLC configurations that
check them, and proofs checked by TLAPS.

## Running

    tlasany CardBrands.tla
    tlc -workers 2 -config MCCardBrands_all.cfg MCCardBrands
    tlapm M2MTokenCache_proofs.tla

`PROJECT.json` lists every run, the properties it checks, the source lines each
definition models, and for each property a mutated definition that breaks it.
The mutants are defined in the modules, just before the definition they replace,
and are marked `Mutant:`.

## The system

| Component | State | Operations | What is hard | What makes it correct |
|---|---|---|---|---|
| Registration, setup, account checks (`usecases/auth`, `usecases/profile`, `postgres/user.go`, middleware) | the table `user`; identities in Logto | register, setup, me, the database check of `requireAuth` | two stores and no common transaction; concurrent requests of one person; replies lost or late; crashes | at most one account per identity and one client told so; answers never contradict earlier ones; no account without a confirmed identity |
| Management API token (`logto/m2m_client.go`) | one cached token and an RWMutex shared by all requests | `getToken`, then the call that carries the token | double-checked locking, an HTTP call under the write lock, clocks and expiry, revocation | one fetch at a time, no expired token sent, no valid token replaced, nobody starves |
| Card brands (`postgres/card_brand.go`, `postgres/tx.go`) | the table `card_brand`, the connection pool | create, update, delete, get | row locks, the index on `lower(name)`, deadlocks, foreign key, lost commits, full pool | the endpoints behave like a registry that serves one request at a time; connections come back; answers tell the truth |
| Listing (`domain/pagination.go`) | none; a client's position in the pages | list | pages are separate queries over a table that changes; 32-bit arithmetic | what a walk may miss or repeat, and when it may not |
| Auth middleware, routes (`middleware.go`, the `routes.go` files) | none | public, optional and required authentication | stale keys, stale accounts; what a route documents and what is enforced are in different files | who does not meet what the route documents is told 401, by the middleware or, at `/profile/setup`, by the handler; claims reach exactly the handlers that ask for them; and see registration and the JWKS cache |
| JWKS cache (`middleware.go`, `pkg/cache`, `pkg/httpclient`) | one key in Valkey with a TTL | read through, store, direct fetch, the UserInfo question | rotation racing a store, cache faults, fetches that stall for any time; questions asked again while a session ends | how long after its withdrawal a validation may still begin and trust a key; no opaque token passes whose session had ended before; a broken cache turns no good token away |
| Device flow (`logto/device_flow.go`) | in Logto only | start, poll, refresh, revoke | one-time codes and rotating tokens, answers lost, calls served late | what a device is told is true and stays true; it holds the token Logto honours next; it does not poll for ever |
| Configuration (`internal/config`) | none after start | load, decode, validate | values that load and fail later, somewhere else | a process that serves has what its requests need |
| Process start and stop (`cmd/api/main.go`, `pkg/telemetry`) | server, pools, telemetry | start, signal, shutdown | shutdown shorter than a call to Logto, missing clean-up, a data race on `err` | what requests use outlives them, no query is cut short, clean-up is complete, a timeout is reported, the stop ends |
| Migrations, OpenAPI document, health, request ids | none after start | | libraries and their wiring | see Not modelled |

Components interact by calls within one process. The handlers of concurrent
requests are goroutines that share the token cache, the connection pool and the
two stores; the models are composed along these lines. `UserProvisioning` has
"get a token" as one step that succeeds or fails: `M2MTokenCache` shows what is
inside that step and that it ends. "The bearer token is valid or not" is one choice
there as well, made at any later time or never; `JwksCache` shows which tokens are found valid. To `UserProvisioning` a
shutdown that runs out of time is a crash of the requests it gave up; `Lifecycle` shows
when that happens and what it leaves. `UserProvisioning` extends `Routes`, whose paths its
operations belong to; `Lifecycle` extends `Settings`, which turns the environment it is
started in into a configuration; `JwksCache` extends `HttpClient`, which says what is sent
again. `DeviceFlow` shares nothing with the others: the
service keeps no state for it.

## Modules

### UserProvisioning, AccountLink

`UserProvisioning` has one process per HTTP request, with the program counter
`pc[r]` and what it has been told so far (`arg`, `call`, `resp`). Its shared state
is Logto (`identity`) and the table `user` (`rows`). One action per step that other
actors can observe:

| Action | Code |
|---|---|
| `ArriveRegister`, `ArriveAnonymous`, `ArriveBearer` | path class in the middleware: public, without a token, with one |
| `Validate` | `parseAndValidate`, which may wait for Logto for ever; then 401, setup's refusal of an empty subject, or on to the handler |
| `CheckExists` | `SetupUseCase.Execute`, `ExistsByLogtoUserID` |
| `SendCall` | `getToken`, then the POST or PATCH leaves |
| `LogtoCreate`, `LogtoUpdate`, `LogtoReject` | Logto serves the call, refuses it, or never sees it; also after the caller has given up |
| `ReceiveCreate`, `ReceiveUpdate`, `Timeout` | the switch over statuses in `CreateUser` and `UpdateUser`, the client's timeout |
| `InsertRow` | `UserRepository.Create` under the unique index, the result possibly lost |
| `LookupMe`, `LookupApi` | the read of the row in `MeUseCase.Execute` and in `requireAuth` |
| `Answer` | the client is told what the handler made of its last step, however old that is by then |
| `Crash` | the process dies with all its requests |
| `LogtoSignUp`, `LogtoDelete` | people and administrators use Logto directly |

What a handler has read or written and what its client is told are separate steps, so a request
that read before another's INSERT may answer after the other's client was told. `NeverSentBack`
is therefore about the requests in `told`: those that came after somebody was told that their
account exists.

`AccountLink` is the abstract life of an account: an identity appears, is linked
once and for good by one request, and only that request's client is ever told that it
created the account. `AccountSpec` states that `UserProvisioning` implements it under the mapping
*known: Logto knows the identity*, *creator: the request whose row it is*, *acked: the
creating requests whose clients were told 200*.

### Routes

Operators only. `Routes` is the set of all routes with the alternatives of their documented
`Security`; `skipPrefixes`, `skipExact` and `optionalExact` are the lists of the middleware,
`Serve` its switch with `Try` (`tryPopulateClaims`) and `Require` (`requireAuth`). A path is a
sequence of pieces, cut where an entry of the lists may end, so that `strings.HasPrefix` asks
whether the first piece is in `skipPrefixes`. `DocumentedSecurityIsEnforced`, checked in `UserProvisioning`, relates the two, and
the requests of the state machine to both.

### M2MTokenCache, TokenSource, M2MTokenCache_proofs

`getToken` step by step for every goroutine (`pc[t]`), the RWMutex (`readers`,
`writer`: a writer that waits already keeps new readers out, as Go's does), the
cached token with the instants at which it was issued, expires and stops being
served, and a clock. The token endpoint is external: `Issue` happens some time
before `Store`, and `FetchFail` may come before or after it. `Use` is the Management
API call; it changes nothing in the cache, a 401 included, as in the code.

`TokenSource` is what callers are promised: one token that all of them share, given out only
while it is valid (`Take`), replaced only when it is not (`Renew`), by one that Logto granted
within the last timeout and that lapses a buffer, less a timeout, before it expires. It knows
neither locks nor fetches. `TokenSourceSpec` states that `M2MTokenCache` implements it, with the
cached token for the shared one and `got` for what each caller holds: `Check` or `Recheck` is a
`Take`, `Store` a `Renew`, everything else a stutter or the clock.

The program's numbers are a buffer of 60 s and a client timeout of 10 s. The model
has them as the constants `Buffer` and `Latency`; the theorems hold for all values.

### CardBrands, BrandRegistry, CardBrands_proofs

One process per request through handler, use case, `TxManager.WithTx` and
repository. `brands` is what is committed, `write[r]` the uncommitted row version of
r's transaction, from which the locks follow: the row it changes, the index keys it
frees or takes. `Waits` says whom a statement waits for, `Deadlocked` who is on a
cycle. An UPDATE takes two steps (lock the row, enter the new key), which is what
makes two renames deadlock. The repository's sentinels (`InsertError` and so on) and the
statuses of the handlers (`CreateStatus` and so on) are operators of their own, method by method;
`Malformed` is refused by huma, `Incomplete` by the use cases. A callback that panics is rolled
back and answered 500 by Recoverer, like a statement that fails.

`BrandRegistry` is the abstract registry, a linearizable object. A request comes in (`Ask`), is
settled in one atomic step (`Decide`: brand created, renamed, removed or found, or missing,
taken, referenced, failed), and is answered what the outcome permits (`Answers`). Hence what a
client is told, 404 and 409 included, was true of the registry at an instant between its request and
its answer. Only a request that is still open when it is answered 500 may be settled later: a lost
COMMIT. `RegistrySpec` states that `CardBrands` implements the registry; `Outcome` maps
a request's failure, its answer, and whether its write is committed to what became of it. That a
`create` takes an id no brand has is the freshness of `uuidv7`.

### Listing, Listing_proofs

Pages of a filtered, ordered table whose rows come and go, and a client that walks
them until a page is short (`total_count` in the answer is the length of the page,
so it cannot do better). `Modulus` is 2^32 in the program, and the names there can be
are assumed to be fewer.

### JwksCache, JwksCache_proofs, HttpClient

`parseAndValidate` step by step for every handler: read the entry in Valkey
(`Lookup`: hit, miss, or an error of either kind), fetch the keys from Logto
(`Serve`, `FetchFail`), store them with `jwksCacheTTL` (`Store`, which may fail
without consequence), check the token (`Verify`), or ask UserInfo about an opaque one
(`ServeUserInfo`, `HearUserInfo`, and `MissUserInfo` when no answer comes). `HttpClient` says
which calls may be repeated: a GET after 429 or 5xx is asked again up to `RetryCount` times, one
that ran into its timeout may be, POST and PATCH are not.
A failed fetch after a miss is a cache error to `getJWKS`, which fetches once more. Keys
are published and withdrawn (`birth`, `death`), sessions end. The client that fetches keys has no
timeout, so no step has a deadline: a key set may be under way to its handler, or wait to be
stored, for any time. What can be bounded is bounded from where a validation begins (`began`,
`late`) and by how long the cached set was under way before it was stored (`lag`): a validation
that begins the TTL and the lag after a key was withdrawn does not trust it, one that fetches
keys itself trusts no key withdrawn before it began, and neither depends on when the verdict is
given. A key set carries its lag and the instant at which Logto served it for the properties only. A middleware without a
cache client behaves as one whose cache always fails.

### Lifecycle, Lifecycle_proofs, Settings

`Settings` is `internal/config` as operators: `Value` is a variable of the environment or its
default, `Decodes` what the types of the fields accept, `Missing` what `validate` finds
missing, `Config` what is left of it for the process. `OptionsValid`, `SamplerValid` and
`HasLogHandler` are what the telemetry packages refuse, or fail to provide, later.

`Lifecycle` is `cmd/api/main.go` from start to end, in any environment of the constant
`Environment`. `main` is where it is: configuration, telemetry options, the
providers one by one, pool and migrations, cache, serving, and then the stages
of OnStop with its deferred calls in their order. `err` is the variable that OnStart's
goroutine and OnStop share: `ListenReturns` may assign it at any time after the server was
closed, `Report` reads it or what OnStop has just assigned, as the compiler likes. (That the
race could tear the two words of an interface value is not modelled.) Requests are at work or in a
query, which holds a connection of the pool. `hook` says whether
`initializeOpenTelemetry` has handed out its shutdown function: it does so only with the
logs on. Every stage of the start may fail, exporters may fail to flush, and the
process may be killed.

### DeviceFlow, DeviceFlow_proofs

One login: what Logto knows of it (`stage`, and `gen`, the number of the refresh
token it honours), what the device knows (`view`, `known`, the definite answers it was
`told`), and the requests between the two. `Handle` has the checks before the call,
`PollStatus`, `RefreshStatus` and `PlainStatus` turn outcomes into statuses, the `Answer`
actions hand them to the device, `GiveUp` is a timeout of the client or a lost answer
(Logto may serve the call later). One login is enough because logins share no state.

## Runs

| Run | Bounds | Distinct states | Shows |
|---|---|---|---|
| `provisioning_pair` | 2 requests of any of 4 kinds (5 bodies), 2 identities, 1 crash | 427,541 | the inductive invariant, `LinksAreConfirmed`, `SuccessIsExclusive`, `ConflictMeansLinked`, `NoOrphanWithoutFault`, `NeverSentBack`, `AccountSpec`, `DocumentedSecurityIsEnforced`, `EveryRequestEnds` |
| `setup_conflict` | 2 setups, 1 identity | violation | finding 1 |
| `token_timing` | 2 goroutines, buffer 3, timeout 1, lifetimes 3 and 5, clock to 8 | 105,207 | the inductive invariant, `SingleFetch`, `NoExpiredUse`, `RevocationOutageIsBounded`, `TokenSourceSpec`, `EveryCallEnds`, no deadlock |
| `brands_all` | 3 requests, 3 brands, 2 connections, 8 kinds of work | 352,500 | the inductive invariant, `RegistrySpec`, `UniqueNames`, `NoDanglingReference`, `ConnectionsAreReturned`, `NobodyIsStuck`, `EveryRequestEnds` |
| `referenced_delete` | 2 requests | violation | finding 2 |
| `listing_walk` | 5 rows, pages of 1 to 3, 2 filters, 3 changes | 47,313 | the inductive invariant, `QuietWalkIsExact`, `CreatesSkipNothing`, `DeletesRepeatNothing`, `WalkEnds` |
| `listing_overflow` | words of 3 bits | violation | finding 3 |
| `jwks_rotation` | 2 handlers, 2 keys, 1 session, TTL 1, 1 retry, clock to 2 | 2,836,107 | the inductive invariant, `AcceptedTokensAreRecent`, `GoodTokensAreAccepted` |
| `lifecycle_stop` | 3 requests of up to 2 queries, 1 connection, 18 environments | 1,004,152 | the inductive invariant, `ResourcesOutliveRequests`, `StopIsGraceful`, `NoProviderIsLeftRunning`, `StopTimeoutIsReported`, `StopEnds` |
| `lifecycle_flush` | 2 requests | violation | finding 4 |
| `logger_json` | 2 requests | violation | finding 5 |
| `device_login` | 1 login, 3 requests, 3 refresh tokens | 13,428 | the inductive invariant, `DefiniteAnswersAreTrue`, `StoredTokenIsGood`, `PollingEnds`, no deadlock |

Why the bounds are enough. Every conflict over an account is between two requests
for one identity, and so is every answer that could contradict an earlier one; all
safety properties of provisioning are also proved for any number of requests.
Two goroutines are a reader and a writer, or two writers that found the token expired at
once; a third would only queue behind them, and the theorems hold for any number. The token run has a lifetime
equal to the buffer (never cached), one above it, and time for two generations of
tokens. A cycle of waiting transactions needs two, the third competes for a name, a
row or one of the two connections. A slow store racing a fresh one needs two handlers;
a clock of 2 lets a key be published, fetched, withdrawn, stored late and read again within the
TTL by a validation that begins after the withdrawal, and every step but the stall itself takes no
time; `JwksCache_proofs` has any TTL and clock. One retry lets a session end
between two attempts. One
connection makes requests wait for each other during a stop. Two of the three requests of
the device may have been given up while it awaits the third, and three tokens are two
rotations, enough for a token to be spent by a request that was given up. `MaxCrashes`, `MaxTime`, `MaxGen` and `MaxChanges` bound
counters in the guards; deadlock checking is off where requests are served once and
everything may have been answered.

Symmetry is used in `jwks_rotation` and `referenced_delete` only, whose properties are safety properties.

### Fairness

- `UserProvisioning`: weak fairness on what a handler does by itself, its timeout
  included, and on the answer. Nothing is assumed of Logto, of arrivals, or of `Validate`: the
  client that fetches keys has no timeout, so a request may wait there for ever, and
  `EveryRequestEnds` is about those that are past it.
- `M2MTokenCache`: weak fairness on steps of a goroutine, strong fairness on taking
  the lock. Go's mutex hands itself to the longest waiter after a millisecond, and an
  RWMutex lets the readers that waited in when a writer leaves. The step that ends a
  fetch is fair because the HTTP client times out.
- `CardBrands`: weak fairness on what a request needs next, be it a step of its handler, the
  deadlock detector, or Postgres noticing a lost connection.
- `Listing`: the walking client goes on.
- `Lifecycle`: the steps of the stop (its log lines included), its timer, and the end of queries, which Postgres is
  trusted with. A handler may stay at work for ever (it may wait for Logto). A stop
  that begins under this fairness ends because `Shutdown` has a deadline.
- `DeviceFlow`: handlers run, devices poll on, codes expire; strong fairness that of
  calls made again and again one is served, and of answers sent one arrives. Without it
  a device that never hears anything polls for ever, whatever the service does.

### Findings

1. `setup_conflict`: the route says "Idempotent: returns 409 Conflict if the user is
   already fully registered", but setup writes the profile to Logto before the insert
   that may answer 409; of two setups that both passed the existence check, the one that
   loses has overwritten username and name all the same.
2. `referenced_delete`: the route says "Returns 409 Conflict if the brand is referenced
   by other entities"; the repository has a sentinel for that, the handler answers 500.
3. `listing_overflow`: the comment says "without overflow risk"; `(page - 1) * PageSize`
   is multiplied in uint32, and `page_number` has no maximum.
4. `lifecycle_flush`: a provider's shutdown function "should be called when the
   application exits to ensure all telemetry data is flushed". `initializeOpenTelemetry`
   returns no function when telemetry is off or its logs are, and OnStop calls it
   without a test. With the default configuration (telemetry off) the panic costs an exit
   code and the last log line, the deferred calls still run; with traces or metrics on and
   logs off, what they have buffered is lost.

5. `logger_json`: `.env.example` says `LOG_FORMAT=text # or "json"`. The case for `json` in
   `NewContextWithLogger` is empty, and Go does not fall through to the JSON handler of the
   default case: the handler stays nil, and the first log line, in `RunMigrations`, dereferences
   it. Any other word gives the JSON handler.

## Proofs

`M2MTokenCache_proofs` proves, for any set of goroutines, any natural `Buffer`,
`Latency`, `MaxTime` and `MaxLife` and any set of lifetimes up to `MaxLife`
(`TokenAssumption`):

| Theorem | States |
|---|---|
| `TypeCorrect` | the variables keep their types |
| `OneFetchAtATime` | `SingleFetch` |
| `Invariance` | `IInv` |
| `CachedTokensHaveMargin` | `CachedTokenHasMargin` |
| `NoCallCarriesAnExpiredToken` | `NoExpiredUse` |
| `OutageIsBounded` | `RevocationOutageIsBounded` |
| `ValidTokenIsKept` | `NoNeedlessRefresh` |
| `ImplementsTokenSource` | `TokenSourceSpec` |
| `TheLockIsFreed` | `NobodyIsStuck`: of goroutines waiting for the lock, one can go on |

None of the safety properties is inductive. `SingleFetch` needs to know that the program
counters agree with the lock (`LockInv`). That a served token is alive needs the history of
the token: a fetch in progress is younger than a timeout and its reply no older than the
fetch (`FetchInv`), so what `Store` puts in the cache is served for at most the lifetime less the
buffer from an instant at most one timeout after the issue (`CacheInv`); a call took its
token from the cache while it was served, or from a fetch, and is itself younger than a
timeout (`UseInv`). `CacheInv` speaks of tokens in the cache from their point of view at any
later instant, which is why `Tick` preserves it. `IInv` is the conjunction; each lemma
`TypeStep`, `LockStep`, `CacheStep`, `FetchStep`, `UseStep` shows that a step preserves one conjunct, with one
case per action that can disturb it. `token_timing` checks `IInv` too.

The refinement needs two facts more. `FetchOnlyStale`: whoever fetches does so because the cached
token has lapsed, and it stays so, because the write lock is held from the second check to the
store and time only makes it staler; this is what the second check is for. `HoldInv`: a
goroutine holds a token exactly while it uses it. A step then maps to what `SourceStep` says, one
case per action. `NoNeedlessRefresh` is the part of the refinement that needs no mapping. For
`TheLockIsFreed`: who waits for the write lock waits for a goroutine that owns it or for readers, and
`LockInv` names one that can move.

`UserProvisioning_proofs` proves, for all sets of requests, identities, emails and bodies, that
`IInv` is invariant and with it `LinksAreConfirmed`, `SuccessIsExclusive`, `ConflictMeansLinked`,
`NoOrphanWithoutFault`, `DocumentedSecurityIsEnforced`, `NeverSentBack`, and
`AccountSpec`: every behaviour of provisioning is one of `AccountLink`. The argument: a row remembers the request that
inserted it, and that request is frozen behind it: its identity is the one Logto confirmed
to it, and it can only answer. `ArgInv` says what a request knows in each phase, `CallInv` what a
call in flight may still do, `RowInv` ties a row to its creator, `AnswerInv` ties answers, those on their way included, to
rows. `ToldInv` says that whoever came after somebody was told has an account, hence a row to be
found by its read. Two creators told of success would be two rows of one identity. `SubjectInv` says that a
request without a subject asks what needs none or was refused for it; with what the lists of the
middleware make of every route (`ListsMatch`, route by route, since these are constants of the
program) it gives `SecurityIsEnforced`. `ConflictsAreLostRaces` delimits finding 1: whoever inserted a
row was told 200 or 500 (`OwnersHeard`), so a setup that is told 409 found the row of another
request. For the
refinement each action is either a link (`InsertRow`), an appearance (`LogtoCreate`,
`LogtoSignUp`), an acknowledgement (`Answer`, of a request that created an account), or a stutter.

`JwksCache_proofs` proves `AcceptedTokensAreRecent` and `GoodTokensAreAccepted` for any handlers, keys,
sessions and TTL, with no bound on how long a call or its answer is under way. A key set is a snapshot of what Logto published when it was
served (`Snapshot`), and stays one as keys come and go later. The entry in Valkey lapses a TTL
after it was stored, which is its lag after its snapshot (`EntryInv`). A handler that verifies
with keys it fetched holds a snapshot younger than its own beginning; one that verifies with cached keys
read them while they were good, so it began before they lapsed (`HeldInv`). Neither fact is disturbed by
time that passes before the verdict, which is why no delay needs a bound. A bound of the TTL
alone, as the comment on `Middleware` suggests, does not hold: the lag of a stalled fetch comes
on top of it. For opaque tokens, an answer on its way was true after the validation began (`UserInfoInv`).

`Lifecycle_proofs` proves `ResourcesOutliveRequests`, `StopIsGraceful` and `NoProviderIsLeftRunning` for any
number of requests, connections and queries. `PhaseInv` says in which phases requests may be at
work, `ResourceInv` what is open in each, `ConnectionInv` that queries do not
outnumber connections, `ProviderInv` when providers have been shut down, `HowInv` what the
way it ended says of the phase.

`StopTimeoutIsReported` rests on the timeout's error being there until it is reported
(`ErrorInv`): OnStart can only add an error, and Shutdown's own success is the only step that
clears one.

`StopIsForward` is the part of `StopEnds` that needs no fairness. What a stop has left to do is
ordered: stages, then providers that still run, then an open pool, then the queries that run when it
is closed. Every step of the stop makes this smaller (`StopSteps`), and requests and the listener never
make it larger (`RequestsLetGo`), though they go on meanwhile.

`CardBrands_proofs` proves, for any number of requests, brands, names and connections,
`UniqueNames`, `NoDanglingReference`, `ConnectionsAreReturned`, `AnswersAreTruthful`, `NobodyIsStuck`
and `RegistrySpec`: every behaviour of the endpoints, with their waits, faults and lost commits, is
one of the registry. What makes it so are the locks. A
transaction that has written holds its row (`WriteInv`, which also says that no card can come to
refer to a brand that is being removed); no two transactions hold one row or one key, and none
holds a key that a committed row other than its own has (`LockInv`). A statement may write only
if it waits for nobody and violates nothing (`RowFree`, `KeyFree`), which is what establishes
`LockInv`; committing then puts a name nobody else has (`Committed`), the registry's `Set`.
`ConnectionInv` ties the pool to the program counters, `AppliedInv` makes a commit
happen once. For the answers, the refinement needs to know what a transaction is about until it
ends (`EffectInv`: the row it writes is as it found it, and what it will commit is what it was asked
for) and what a failure and an answer can still mean at each stage (`OutcomeInv`). A write is
settled when it commits, a refusal when the statement fails, since that is when the rival, the
missing row or the card is seen; a read when it reads. Every other step leaves the registry alone,
answers, or adds and removes a card.

`RegistryIsConsistent` is about the abstract registry by itself: its names are unique, its
references valid, and what a client has been told of its request is never taken back. So a reader
who trusts the refinement need not look below it.

`SomebodyCanProceed` is the absence of deadlock that `EveryRequestEnds` needs. Suppose that nobody can
go on. Then those that hold connections all wait for locks, each only for transactions that wait
as well (`WaitsForWriters`): together they are a closed set of waiters, in which every member waits for
a member. Requests are finitely many, so it contains a smallest such set (`SmallestCycle`, from
the library's `WFMin`), a cycle of the waits-for graph, and the detector aborts one that is on a
cycle. A transaction that has lost its connection but not yet its locks is one that Postgres reaps.

`Listing_proofs` proves the three properties of walks, for any rows, filters and page sizes. Its lemmas
say what `ORDER BY`, `LIMIT` and `OFFSET` do: positions number the rows from 0 without gap or
repetition (`PositionInjective`, `PositionOnto`), so a full page ends within the rows
(`FullPageFits`) and a short one is the last (`ShortPageIsLast`). The first of these keeps the
offset of the next page below the number of names, which is why it does not wrap (`OffsetInv`,
`NextPage`): finding 3 needs a client that names a page beyond the end. `PagesEnd` says that a
page behind the last row is empty as long as its offset fits into a word. A create moves rows
only towards later positions and a delete towards earlier ones (`PositionGrows`), which is what
keeps `CreateInv` and `DeleteInv` true between two pages; `QuietInv` is what a walk knows when
neither happened.

`DeviceFlow_proofs` proves `DefiniteAnswersAreTrue` and `StoredTokenIsGood` for any set of requests and any
`MaxGen`. Neither is inductive: an answer on its way must be true already (`ReplyInv`), a device
must await one answer at a time and to a question that fits (`AwaitInv`, `ViewInv`), and while nothing
was lost exactly one of device and request holds the current token (`TurnInv`).

The theorems by module, with the property each states (those without a property state `IInv`):

| Module | Theorems |
|---|---|
| `UserProvisioning_proofs` | `Invariance`, `AccountsAreConfirmed` (`LinksAreConfirmed`), `OneCreatorPerIdentity` (`SuccessIsExclusive`), `ConflictsAreTrue` (`ConflictMeansLinked`), `NoOrphans` (`NoOrphanWithoutFault`), `NobodyIsSentBack` (`NeverSentBack`), `SecurityIsEnforced` (`DocumentedSecurityIsEnforced`), `ConflictsAreLostRaces`, `ImplementsAccount` (`AccountSpec`) |
| `JwksCache_proofs` | `Invariance`, `StalenessIsBounded` (`AcceptedTokensAreRecent`), `DegradationIsGraceful` (`GoodTokensAreAccepted`) |
| `Lifecycle_proofs` | `Invariance`, `ResourcesLastLongEnough` (`ResourcesOutliveRequests`), `GracefulStop` (`StopIsGraceful`), `CleanUpIsComplete` (`NoProviderIsLeftRunning`), `TimeoutIsReported` (`StopTimeoutIsReported`), `StopIsForward` |
| `CardBrands_proofs` | `Invariance`, `NamesAreUnique` (`UniqueNames`), `ReferencesHold` (`NoDanglingReference`), `PoolIsRespected` (`ConnectionsAreReturned`), `AnswersHold` (`AnswersAreTruthful`), `SomebodyCanProceed` (`NobodyIsStuck`), `ImplementsRegistry` (`RegistrySpec`), `RegistryIsConsistent` |
| `Listing_proofs` | `Invariance`, `QuietWalksAreExact` (`QuietWalkIsExact`), `CreatesHideNothing` (`CreatesSkipNothing`), `DeletesShowNothingTwice` (`DeletesRepeatNothing`), `PagesEnd` |
| `DeviceFlow_proofs` | `Invariance`, `DevicesAreToldTheTruth` (`DefiniteAnswersAreTrue`), `RotationIsPassedOn` (`StoredTokenIsGood`) |

Each rests on the assumption named in its module (`ProvisioningAssumption` and so on) and on
nothing else. Every safety property and every refinement that a passing run checks is proved. What
stays with TLC is liveness (`EveryRequestEnds`, `EveryCallEnds`, `WalkEnds`, `StopEnds`, `PollingEnds`),
since fairness and ENABLED are outside what the prover handles. For three of them the part without
fairness is proved: `SomebodyCanProceed` and `TheLockIsFreed` say that the system never stops short,
`StopIsForward` that a stop never goes back. `CanProceed` states the guards of the steps by hand, where
ENABLED would.

## Assumptions about what is not in this repository

- The HTTP client sends POST and PATCH once: resty retries idempotent methods only, and
  the repository does not change that.
- Logto: usernames and emails are unique among live users; ids are never reused; 409 is
  a taken username, 422 a taken email on POST; a JWT stays valid after its identity is deleted.
- `gen_random_uuid` and `uuidv7` do not repeat: a user row's id is identified with the request
  whose INSERT created it.
- Postgres runs at READ COMMITTED; an INSERT or UPDATE waits for the transaction that
  holds a conflicting index entry; the deadlock detector aborts one on the cycle.
- A cached token's delays are those of HTTP calls: the time a goroutine waits for the
  processor between two steps is neglected against a timeout.
- A call to Valkey or Logto takes effect at one instant, any time after it was made, and the
  caller goes on any time later. A SET takes effect before its handler goes on, or not at all;
  one that Valkey carries out after its caller gave up is to all others like a handler that
  stalls before it stores.
- A JWT's own checks (signature, issuer, audience, expiry) are one bad token.
- humacli calls OnStop upon a signal, and ends the process without it when OnStart returns.
  `pgxpool.Close` refuses new queries and waits for those that run. A panic in OnStop still runs
  its deferred calls.
- Logto exchanges a device code once, rotates refresh tokens, may end a login when it
  sees a spent token, and does not call revoking one an error. It does not answer
  `expired_token` for a code that was exchanged or denied. A device waits for one
  answer at a time, keeps the refresh token it is given, and stops polling at the first
  answer other than 401.
- Paths are the registered ones: how the router normalises any other is not modelled.
- resty repeats idempotent methods only, always after 429 and 5xx, perhaps after a timeout.
- koanf and mapstructure: an empty text decodes to zero or false, but not to a duration; a
  pool without room for a connection is refused by pgxpool.

## Not modelled

- Persons, cards, bills and transactions: the migrations create their tables, and no code reads
  or writes them. `CardBrands` has the one thing that matters now, a card's reference to its brand.
- How migrations are applied: golang-migrate's versions, locks and dirty states are the
  library's. `Lifecycle` has the step that succeeds or fails, and the constraints that the
  migrations leave behind are in `CardBrands` and `UserProvisioning`.
- The text of the OpenAPI document, tracing spans, request ids, what a log line says, and
  how a logger travels in a context: no decision of the program depends on them.
- Normalisation of paths in the router: the routes are the registered ones.
- In the HTTP client, options no caller sets (headers, TLS, hooks) and the length
  of the pauses between attempts: a pause is part of the time a call takes.
- The tearing of the variable `err` that OnStart's goroutine and OnStop share: a Go interface is
  two words, and a read may mix those of two errors. `Lifecycle` has which of the assignments is
  seen.
- How long a request waits for the token lock. It does not watch its context while it waits
  (`m2m_client.go:131`), so with tokens of less than a minute requests queue behind fetches
  for clients that have left. `EveryCallEnds` shows that the queue drains. Its length is the number of
  requests, which nothing in the code limits, so there is no bound to state.
- Code without callers (`UserRepository.GetByID`, the cache's `GetJSON` and `Ping`, the error for
  nested transactions), generated mocks and test utilities.

## Plan

Written in this order; what is done is marked.

1. `AccountLink`, `UserProvisioning` and its runs (done): the one place where data can
   become inconsistent across two stores.
2. `M2MTokenCache` and its proofs (done).
3. `BrandRegistry`, `CardBrands` (done).
4. `Listing` (done).
5. `UserProvisioning_proofs`: the invariant, the safety properties and the refinement of
   `AccountLink` (done).
6. `JwksCache` and its proofs (done).
7. `Lifecycle` and its proofs (done).
8. `DeviceFlow` and its proofs (done).
9. `CardBrands_proofs`: the invariant, the safety properties and the refinement of
   `BrandRegistry` (done).
   `Settings`, `HttpClient` and `Routes`, on which other modules rest (done).
10. `Listing_proofs`: positions, pages and walks (done).
11. `TokenSource`, the abstract token cache; `BrandRegistry` as a linearizable registry with its
    answers; `SomebodyCanProceed`, `TheLockIsFreed` (done). Validation has no abstract module:
    `AcceptedTokensAreRecent` and `GoodTokensAreAccepted` already state it without locks (a verdict
    is true of Logto at some instant, which lies at most so far before the validation began).
    `StopIsForward` (done).
12. What `PollingEnds` needs besides fairness: that no answer lets a device poll on once its login
    has been decided.
13. Which of the assumptions on the constants the theorems can do without.
