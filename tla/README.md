# A verification project for the AppDynamics MCP server

`appdynamics-mcp-server` is one asyncio process that offers 35 MCP tools to a
language model and answers them from one or more AppDynamics controllers. This
directory holds TLA+ modules that model it, TLC configurations that check them
on small instances, and TLAPS proofs of the theorems that hold for every
instance. `PROJECT.json` maps every definition to the lines it translates.

Everything runs on one event loop, so a task is interrupted only at an `await`.
All models use that: **one action is the code from one suspension point to the
next**, and what the environment does (controllers, Vault, administrators,
clients that give up, the death of the process, the clock) happens between.

## The system

| Component | State | Operations | Hard because |
|---|---|---|---|
| Token manager (`auth/appd_auth.py`, `auth/vault_client.py`), used by `_get` of both HTTP clients | `_cache`, an `asyncio.Lock`, a background task | `initialise`, `get_token`, `handle_401`, `_refresh_loop`, Vault retry | many calls and the loop share one lock across two servers; 401s, retries and cancellations at every await |
| Rate limiter (`utils/rate_limiter.py`) | global, team and user buckets | `check_and_wait`, `_prune_loop` | callers sleep and go on without asking again; buckets are pruned meanwhile |
| Application access (`services/user_resolver.py`, `client/rbac_client.py`) | `_app_access_cache`, per-UPN locks | `resolve`, `invalidate_user`, the gate `_require_app_access` | a graph read node by node while it is edited; invalidation without the lock |
| Sessions and tool calls (`auth/appd_auth.py`, `main.py`) | `_sessions`, the calls in flight, the audit log | `get_user_role`, `require_permission`, `require_license`, 35 handlers, `audit_log` | overlapping lookups, failures and cancellations between gate, body and `finally` |
| Golden registry (`registries/golden_registry.py`) | in-memory mirror, diskcache | `get`, `set`, `invalidate`, `invalidate_app`, load | a crash between two writes, a disk that fails half way |
| Golden tools (`main.py`, `services/cache_invalidator.py`) | the registry, the cached BT list | `set_golden_snapshot`, `compare_snapshots`, deployment and restart detection | a total read before an await is compared after it; handlers that swallow exceptions |
| Response cache (`utils/cache.py`) | `_mem`, `_disk` | `get`, `set` around the tools' requests | two layers whose ages add up; overlapping requests |
| `TwoLayerCache` (`utils/cache.py`) | `_mem`, `_disk` of the instance, a lock | `get_or_fetch`, `invalidate`, `invalidate_prefix` | the fetch is awaited without the lock; the layers have different lifetimes; a disk that raises half way. The server does not use the class |
| Applications registry (`registries/apps_registry.py`) and the tools that answer from it | `_mem`, `_disk` | `get_all`, `is_warm`, `update`; `list_applications`, `get_team_health_summary` | a page replaces the whole list; the ages of two layers and of an answer on its way add up; a fan-out behind a semaphore |
| Startup, licences, health (`main.py`, `services/license_check.py`, `services/health.py`) | `_token_managers`, `_clients`, `_vault_ok`, the signal handlers | `startup`, `detect_licenses`, `compute_health`, signals | one failing step of several, controllers that hang, signals at any moment |
| Snapshot scoring and comparison (`parsers/snapshot_parser.py`) | none | `score_golden_candidate`, `compare_snapshots` | weights and bounds; chains that repeat and skip methods |
| Rankings (`services/bt_classifier.py`, the summary in `main.py`) | none | `filter_and_sort_bts`, the summary's order | filters and tiers that may hide or sink what fails |
| Runbooks (`services/runbook_generator.py`) | a directory | `generate_runbook`, `load_recent_runbooks`, `save_runbook` | file names by the second, a search by pattern and of limited length, torn writes |
| Stack parsers, naming, teams, time zones, sanitizer, metrics | none, or counters | pure functions | text |

How they interact. A tool call awaits `check_and_wait` (rate limiter), asks
`get_user_role` (session, or a role lookup through the client), passes
`require_permission`, `_require_app_access` (application access, through the
RBAC client and its own token manager) and `require_license`, reads the response
cache, makes requests through `_get` (token manager, tenacity retries), writes
the caches, tells the invalidator of deployments and restarts (golden registry),
and writes its audit entry in a `finally`. There are no messages between
components: they share module-level dictionaries and call each other.

What makes each correct is stated by the properties below.

## The modules

| Module | Models | Checked by | Proved in |
|---|---|---|---|
| `TokenManager` | the token of one controller and the `_get` calls that use it | `token` | `TokenManagerProofs` |
| `RateLimiter`, `TokenBuckets` (abstract) | the three layers, sleepers, pruning | `limiter` | `RateLimiterProofs` |
| `AppAccess` | `resolve` with the RBAC traversal, refresh, the gate | `access`, `access_refresh`, `access_empty` | `AppAccessProofs` |
| `ToolTable`, `ToolCalls` | each tool as gates and requests; a call from session to audit entry | `tools` | `ToolCallsProofs` |
| `GoldenRegistry`, `GoldenPromise` (abstract) | the registry, write by write | `golden` | `GoldenProofs` |
| `GoldenTools` (extends `GoldenRegistry`) | the tools and handlers on top of it | `golden_tools`, `golden_pinned` | `GoldenProofs` |
| `ResponseCache` | the module-level two layers and the tools around them | `cache` | `CacheProofs` |
| `TwoLayerCache`, `OneCopyCache` (abstract) | the class, with an invalidation during a fetch | `cache` | `CacheProofs` |
| `AppsRegistry` | the applications registry, `list_applications`, `get_team_health_summary` | `server` | `StartupProofs` |
| `Startup` (extends `AppsRegistry`) | the process: `startup`, signals, restart, the health tool, around the registry it seeds | `server` | `StartupProofs` |
| `SnapshotAnalysis` | scoring and choice of a baseline, comparison of two call chains | `analysis` | `AnalysesProofs` |
| `Rankings` | the order of transactions and of applications | `analysis` | `AnalysesProofs` |
| `Runbooks` | the files and the search for recurrences | `analysis` | `AnalysesProofs` |

`MC*` modules give the constants their values. An operator whose comment begins
with "Mutant:" is a plausible bug, not part of any specification; each property
is violated when its mutant takes the place of the definition it varies.

### TokenManager
State: `cache` is `_cache`, `owner` and `waiters` are the lock and its FIFO
queue, `pc` says at which await each task stands, `call` holds a call's locals
(its token, the attempt). Actions: `CallTool`, `EnterGetToken`,
`EnterHandle401`, `Unauthorized`, `UnauthorizedAgain`, `Answered`,
`TransportError`, `Retry` are the stages of `_get`; `VaultAnswers`,
`VaultFails`, `IssueToken`, `Install`, `TokenRefused`, `TokenUnreachable` the
stages of `_refresh`; `LoopWakes`, `EnterLoop` and `LoopRefreshFails` the loop.
Cancellation is possible at every await of a call. The endpoint issues a token
in one step and the answer arrives in another. Exponential backoff is a state
that is left at any time.

### RateLimiter
`Available` is the lazily computed content of a bucket, `Charged` the outcome
of `acquire`, `Path` the buckets a call goes through in order. A call is one
action up to its sleep or its return; the end of a sleep (`WakeUp`) goes on
**without** asking the short bucket again, as in the code. The clock ticks in a
common measure of the buckets' refills (`Refill` is the number of ticks per token
of each bucket: 2, 5 and 10 ticks of 10 ms at 50, 20 and 10 tokens a second), and
contents are counted in ticks, so that a sleep of `(tokens - _tokens) / _rate`
is exact and ends between two tokens, as in the code. That the code computes it in
floating point is not modelled. `granted` and `mark` observe an arbitrary window;
`unpaid` is the weight of a caller's last sleep at the global bucket until
somebody pays there. `TokenBuckets` is what the layers promise: everlasting
buckets, refilled by the clock.

### AppAccess
`grants` is the RBAC graph at the controller and is edited at any moment; each
`Answer` reads one node. `Resolve` is the code under the per-UPN lock, `Store`
the end of a fetch, `Refresh` is `invalidate_user`, `Decided` the gate. A
request that fails drops its part of the graph (`RequestFails`), as the code
does.

### ToolTable and ToolCalls
`ToolTable` is the table of the 35 tools: the name each hands to
`require_permission`, whether it asks for the application, its licence, the
courses its requests can take (a failing "get" fails the call, a "try" is
caught, "archive" changes the controller; fan-outs over applications stand at
two) and how it is audited. It also holds the permission sets and the mapping of
role names. `ToolCalls` runs calls through it. `session` is `_sessions`; no
session is one that has long expired. A lookup is two steps, `RoleRead` at the
controller and `RoleArrives` at the server, so lookups overtake each other.
`LookupFails` denies. `AppGate` takes either verdict, which is `AppAccess`'s
subject. `Ended` writes the entry as the tool's `finally` does. `Restart` loses
sessions and calls and detects licences and RBAC clients anew. `lastHeld` is an
observer.

### GoldenRegistry, GoldenTools
A method is a sequence of writes (`prog`) that `WriteMem` and `WriteDisk` carry out
one by one; a crash cuts it short, a disk operation may raise. `GoldenPromise` has
one copy and no crashes; after a disk operation raised it promises nothing (`Lose`),
because mirror and disk may then differ until the next restart. `GoldenTools` adds `set_golden_snapshot`, `compare_snapshots`,
`get_business_transactions` with the detection by totals, and the restart
detection of `get_health_violations`; the invalidator's handlers are programs of
the same kind.

### ResponseCache
`mem` has one TTL for everything, `disk` ten times the tool's TTL; a disk hit is
promoted to memory. `Hit`, `Miss`, `Store`, `Evict`, `Restart`. `served`
observes the age of what is answered.

### TwoLayerCache
`l1` and `l2` are the layers of an instance, `fetch` the `get_or_fetch` calls that
await their fetch. Up to the await a call is one action: `HitMemory` (a copy that
no longer validates is dropped first), `HitDisk` with its promotion, `MissBoth`.
`Returns` writes both layers, `StoreRaises` the memory only, because the disk
raised; `Invalidate` and `InvalidateRaises` likewise. `OneCopyCache` is one copy per
key that is filled by fetches and forgotten by invalidations. Two things the code
does are visible in it and kept: a fetch that began before an invalidation still
fills the copy (`Fill`), and a raising disk leaves the copy torn (`FillTorn`).

### AppsRegistry and Startup
A stored list carries whether it was the complete one. `Promoted` is what
reading does to the memory. `Ask`, `Answer` and `ListArrives`, `SummaryArrives`,
`SeedArrives` are the stages of a call: the controller reads its list in one step
and the answer arrives in another. `list_applications` stores the page it was
given; the summary asks for everything and stores nothing; startup stores
everything. The summary's tasks enter a semaphore (`Enter`) and leave it answered
or failed (`Checked`). `Startup` has one action per await of `startup()`: `pc` is
the step, `todo` the controllers still to be done at it. `Exit` is every way
startup or Vault ends the process, `Signal` what a SIGTERM does given the handler
in force, `StdinCloses` the end of the stdio transport. `compute_health` asks the
controllers in turn (`Pinged`, `PingFails`) and judges (`HealthComputed`).

### SnapshotAnalysis, Rankings, Runbooks
Judgements that do not suspend, as operators; an action applies one to any
input of small sets, and its result is the state. The properties say what a
reader of the answer may rely on and are stated without the operators that
compute it. Times are hours, rates tenths of a percent, and a name is its two
traits (`vital`, `probe`). `Runbooks` keeps a directory: `SaveRunbook` writes and
searches in one step; `SaveFails` leaves a file that may be cut short, and no
warning. `Safe` is the name of an application in file names (two applications may
share one), `Found` the names whose files the glob pattern of an application finds:
any set, because a bracket, star or question mark in a name is not escaped, so that
a pattern may find the files of others and miss its own.

## The runs

| Run | Question | Result |
|---|---|---|
| `token` | Two calls and the loop, tokens that are revoked and expire: one refresh at a time (`SingleRefresh`), a retry never carries the rejected token (`RetryUsesNewToken`), no newer token is overwritten by an older one (`NewTokenIsNewest`), the loop pauses between attempts (`RefreshPaced`), every request comes back (`CallReturns`) | holds, the last under fairness |
| `limiter` | Per bucket, burst plus refill in any window (`WindowBound`); a wait that does not grow with the number of callers (`WaitBound`); a caller that slept at the global bucket, and so passed it unpaid, sleeps there again only after somebody has paid or with a heavier call (`PaidInBetween`); refinement of `TokenBuckets` | holds |
| `access` | Cached sets between two readings of the graph (`CachedBetween`), no double fetch (`StoresWhenStale`), a refresh outside a fetch takes effect (`QuietRefreshTakesEffect`), no decision from an entry beyond its TTL (`DecisionFresh`), every waiting call gets its verdict (`ResolveReturns`) | holds, the last under fairness |
| `access_refresh` | Does `refresh_user_access` take effect on the next call? | violated: a fetch in flight stores the old set afterwards |
| `access_empty` | Does the empty set deny? | violated: it is falsy and the check is skipped |
| `tools` | The gate admits only for a role the user held within one session and one lookup (`AdmittedByHeldRole`); denials are not remembered (`RefusedByHeldRole`); whoever got a snapshot archived was permitted to, and exactly the archive calls that are answered have an entry, of a snapshot that was archived (`ArchiveAccounted`) | holds |
| `golden` | Mirror and disk are one registry through crashes (`Mirror`), no golden comes back until a disk operation raises (refinement of `GoldenPromise`), `get` answers with the golden in force (`GetAnswersInForce`) | holds |
| `golden_tools` | After crashes and disk errors: detected restarts forget (`RestartForgets`), what was cleared stays gone (`ClearedStaysGone`), no golden older than the last one reported is pinned (`PinnedIsNewest`) | holds |
| `golden_pinned` | Is the golden there after `set_golden_snapshot`? | violated: the tool's own invalidation handler deletes it |
| `cache` | The module-level cache: age at most both layers' lifetimes (`ServedAgeBound`), no step back unless requests overlap or the disk fails (`ServedMovesForward`). `TwoLayerCache`: the layers are one copy (refinement of `OneCopyCache`) | holds |
| `server` | What a tool tells of a controller's applications is no older than the answer's delay and both layers' lifetimes together, and an application is missing only if a page replaced the list (`ToldWithinAge`); a stored list is found, also after a restart, until the disk copy expires (`KnownUntilExpiry`); a serving process has a token for every controller, and "healthy" is the word of each (`NonePassedOver`); startup comes to an end (`StartupDecides`); listings, summaries and the health tool come back (`FanOutsReturn`) | holds, the last two under fairness |
| `analysis` | A baseline of HIGH confidence has no errors, and a sound candidate is not passed over for one with errors (`BaselineIsSound`); a premature exit is one, and HIGH confidence names a culprit (`ReportIsGrounded`); no transaction with errors is hidden, the worse stands first among the vital ones and among the others that fail in more than 1 % of their calls, no sick application stands below a healthy one (`FailuresPlaced`); of the files its pattern finds a runbook misses a recurrence only for the reasons named, and invents none (`WarningIsRight`) | holds |

`token`, `limiter`, `access`, `tools` and `cache` also check the type invariant of
their module, which carries the bounds of each field (a bucket between empty and
full, a session stamped no later than now, expiry no further away than a layer's
TTL). `GoldenRegistry`, `TwoLayerCache` and `Runbooks` have theirs proved.

### Bounds, and why they are enough
* **Callers: two** (plus the loop in `token`; one open listing in
  `golden_tools`, where the interleaving that matters is with the other tools).
  All hazards are between two tasks: two 401s, two fetches, a fetch and a
  refresh, two lookups. Callers are interchangeable and reduced by symmetry where
  no liveness is checked. `server` has one call besides the health tool: what
  two listings could do to each other a listing does to the seeding.
* **Users and keys: one**, except two users of different teams in `limiter`,
  because only the buckets join them; elsewhere users, controllers and keys are
  entries of dictionaries that do not touch. `server` has two controllers, because
  startup and the health tool go through all of them; only the first one's listing
  is answered, so that the registry holds one list. `tools` has two controllers for one
  user, because the session is shared between them. `cache` has a key of each
  kind for both caches, and a behaviour uses one key of one of them.
* **Clock:** each `MaxTime` (`MaxEvents` in `token`) reaches the lifetime under test,
  so that entries expire while calls are open. The constants of the code (1800 s, 86400 s, 600 s)
  are replaced by 1 or 2; only their order matters. In `token`
  a token lives 2 and is refreshed 1 before its end, after a failure again 1 later;
  `MaxEvents` bounds ticks and issued tokens together by 4. The loop can refresh
  several times one after another (succeeding or failing), so that its pace is
  compared from one refresh to the next; the clock can pass the expiry while calls
  and the loop hold a token; and three tokens of racing refreshes can be under way
  or in use. In `limiter` a global token takes two ticks and the burst is two
  tokens, so that calls come and sleeps end between two tokens; a team or user
  bucket takes one tick and holds two; a bucket idle for two ticks is pruned; four
  ticks let a caller sleep at the global bucket several times. In `access` TTL and clock are 2: an entry expires
  while a call waits. In `server` the memory lives 1, the disk 2, an answer is
  under way for 1, and the clock ends at 5, so that all three ages add up and
  pass; time and applications move while the process seeds, serves or is down.
* **Inputs of the judgements:** values on both sides of each bound of the code
  (750 and 751 ms against the slowness bound, 9 and 10 ms, 10 and 11 tenths of
  a percent, noon and the hours around a midnight), call chains up to three
  segments over three methods, lists of two, three snapshots; in `Runbooks` the
  search reads two files instead of five, with four runbooks in four seconds, and
  of the four applications two share a file name that another's prefix finds, and
  the fourth's name is a pattern that misses its own files and finds others'.
* **Environment:** one edit of the graph (`access`; two in its violations), one
  change of roles, four ticks and tokens in `token`, three promotions, two crashes, one disk
  error, one restart and one change in `server`: each is enough to reach every
  action and to violate each mutant. All bounds are guards named `Max*` (`Last*`
  in `TwoLayerCache` and `Runbooks`), not state constraints, so liveness is checked
  on the graph that is explored.
* Deadlock is checked everywhere but in `server`, where the process really ends;
  a deadlock of its callers would violate `FanOutsReturn`.

### Fairness
Only the liveness properties use it. `token`: weak fairness of every step of a
call or of the loop while the process lives; the event loop runs every ready
task, the HTTP clients have timeouts, and sleeps end. `access`: weak fairness of
`Enter` (a lock that is released wakes its first waiter), `Collect` and of
"answered or failed" (every request of the RBAC client has a timeout). `server`:
weak fairness of the steps of startup, of each call's steps (answered or failed,
enter, report) and of the health tool's, whose pings are given up after five
seconds (`health.py:64`). Nothing is assumed of the controller's answers, of
administrators, of signals or of clients.

## What is proved

For every value of the constants under the named assumptions of each module.
Most say that kinds of names are disjoint, that rates and lifetimes are positive
and that bounds are numbers. The others: `IdleAssumption`, an idle bucket is full
again before it is pruned; `BurstAssumption`, the heaviest tool (3 tokens) fits the
burst of the global bucket (100), so that a sleeper's weight is there when it wakes;
finitely many snapshots in a listing (`SnapshotAssumption`); `ToolsAssumption` of `ToolCalls`, which
`ToolTable` asserts of all 35 tools and TLC evaluates.

Every invariant and every action property that a passing run checks, and each of
the three refinements, is a theorem.

* **TokenManagerProofs.** `TypeCorrect`, `MutualExclusion`, `RetryIsFresh`,
  `CacheMovesForward`, `LoopPaced`. `LockInv` says that a task inside `_refresh`
  owns the lock, and that nobody else is there before startup is over. `TokenInv`
  says that a token the endpoint has granted and not yet delivered is newer than
  every token in use, and that a call refreshes only over an empty cache
  (`InUseBelow` is what "in use" means: cached, carried by a call, or rejected).
  None of the properties is inductive without the first. `PaceInv` dates the end
  of each sleep of the loop from its last refresh; the sleep of ten seconds without
  a token keeps it because it begins only after the one before it ended.
* **RateLimiterProofs.** `TypeCorrect`, `WindowBounded`, `WaitBounded`,
  `PaidBetweenSleeps`, `Implementation`. A window's bound follows from `WindowInv`:
  granted plus still available is at most burst plus refill. `WeightInv` keeps the
  weight a sleeper goes on with within the table, `SleepInv` bounds each sleep.
  `PaidBetweenSleeps` follows from `FreeInv`: until somebody pays, the global bucket
  holds the weight of a caller that went to sleep there by the end of the sleep and
  from then on, so that a further call of no greater weight does not sleep there. The
  refinement maps pruning to a stutter because an idle bucket is full.
* **AppAccessProofs.** `TypeCorrect`, `CacheIsBetween`, `NoDoubleFetch`,
  `DecidedFresh`, `QuietRefreshHolds`. `LockInv` ties a fetch to the per-UPN lock
  and to a stale entry; `DataInv` relates what a fetch has found and still asks for,
  stage by stage, to the grants that held at some moment of it and those that held
  throughout. `EpochInv` says that a fetch under way, and an entry that is there,
  began after every refresh that found no fetch, and that an entry is as old as the
  fetch it came from; both action properties follow from what it says of a decision.
* **CacheProofs**, the module-level cache. `TypeCorrect`, `AgeBounded`,
  `AnswersMoveForward`. `AgeInv` bounds each layer's expiry by the age of its answer.
  `OrderInv` is about the keys that did not race: at most one request is open, no
  copy is older than what was served, the two layers of a persisted key have one
  version, and an answer on its way is no older than either. Without the equality
  of the layers a hit in the memory could be followed by an older one on disk.
* **CacheProofs**, the class. `LayersTypeCorrect`, `LayersImplementation`. `SameInv`
  says that both layers hold the same result wherever both hold one, unless the
  disk raised; without it a disk hit could bring back what an invalidation left.
* **ToolCallsProofs.** `TypeCorrect`, `AdmittedByHeld`, `RefusedByHeld`,
  `ArchivesAccounted`. `RoleInv` says that a session's role was held a lookup's time
  before it was stored and that a reply on its way carries a role that was held
  when it was read; it survives overtaking because each reply is bounded on its
  own. `EntryInv` says what a call past a gate shows. Every step of a call has the
  shape `Step(c, n)`, from which all four theorems follow.
* **GoldenProofs**, the registry. `TypeCorrect`, `MirrorsDisk`, `GetIsInForce`,
  `RegistryImplementation`. `RegistryInv` says what mirror and disk will be once the
  writes still to be done are done: `ProgInv` has one case for each shape a
  method's remaining writes can have (`Between` methods, `DiskLeft`, `MemLeft`,
  `BothLeft`). `Mirror` says something only between methods and is therefore not
  inductive. The golden in force is always the one on disk (`VisibleIsDisk`), so a
  write to disk is a promotion or a deletion, and every other step a stutter.
* **GoldenProofs**, the tools. `RestartedIsForgotten`, `ClearedIsForgotten`,
  `PinnedNeverOlder`. A handler's program is longer than a method's and its end is
  what the history records, so `ToolsInv` speaks of positions: what is stored is
  dated after the last clearing and not before the last reported golden (`Dated`),
  and before the step that records a clearing (`ClearsOK`) or a set golden (`SetsOK`)
  a copy that contradicts it is gone or its deletion is still to come (`Coming`); for
  a set golden that write is one that no `try` skips. `Advance` is the lemma that
  taking the first write off a program keeps this.
* **StartupProofs.** `NoControllerPassedOver`, `ToldIsRecent`, `FallbackHolds`.
  `RegistryInv` dates every copy: there is a moment, at most the copy's age back, at
  which the controller showed what it names, and what is wrong about it changed
  since (`Seen`). `KeptSound` says that the list last stored in both layers is the one
  on disk while it lasts. `ProcessInv` follows startup through the controllers.
* **AnalysesProofs**, the runbooks. `DirectoryWellFormed`, `WarningsAreRight`. Runbooks
  are numbered (`NumberInv`), and a file is gone only if a later one took its name
  (`KeptInv`). That a recurrence is found is then counting: the files read before
  it are no more than the pairs of a name and a second behind it.
* **AnalysesProofs**, the judgements. `BaselinesAreSound`, `ReportsAreGrounded`,
  `FailuresArePlaced`, `SortedExists`. These judge what an operator computes from any
  input. That a greatest score, a last call or a slowest method exists, and that
  every list has an order by its keys, is shown by the least counterexample
  (`LeastOf`, `LastOf`, `OrderExists`). A score is at least 100 for a snapshot
  neither errored nor slow and at most 80 for an errored one, so a healthy one wins
  (`ScoreBounds`); a lower place in the
  chain means fewer methods met before it (`LowerPlaceSkips`); three of the four
  signals of HIGH include one that names a culprit (`HighHasCulpritSignal`).

Only model-checked: the liveness properties (`CallReturns`, `ResolveReturns`,
`StartupDecides`, `FanOutsReturn`), which need fairness and `ENABLED` and are out of
the prover's reach, and the three runs that show a violation. Induction over data is
out of reach too where a theorem would quantify over operators; the operators a
theorem is about are therefore written with `CHOOSE`, sets and functions, and facts
about every length are proved from the least counterexample (`WFMin`).

## Where code and comments disagree

Three disagreements are findings with a counterexample (`access_refresh`,
`access_empty`, `golden_pinned`). The others met while modelling, all of them in
the models as the code does it:

* `vault_client.py:163` exits the process when Vault fails three times, also from
  the background refresh, whose handler (`appd_auth.py:124`) means to "Continue
  with existing token": `SystemExit` is not an `Exception`.
* `appd_auth.py:7-9` says the refresh never blocks tool calls; the loop holds, at
  `:117`, the lock that `get_token` needs, while it waits for two servers.
* `get_token` promises a valid token (`:58`) and returns the cached one unchecked
  (`:63`); the 401 that follows repairs it.
* `rate_limiter.py:11` calls the global bucket a hard ceiling; a call that slept
  goes on without paying it (`:181`), and any number of calls can sleep for the same
  refill, so there is no ceiling. What there is: `WindowBound` for the paid ones, and
  no caller does so twice unless somebody paid in between or it asks for more
  (`PaidInBetween`).
* `user_resolver.py:16` says errors give an empty set; a failing role or group
  request (`:161`) leaves a partial set that is cached for a day.
* `cache_invalidator.py:66` swallows a disk error after which the golden is only
  half forgotten: it comes back with the next restart.
* `golden_registry.py:6-7` describes automatic selection as stored; the tool
  (`main.py:1055`) computes it on each call and stores nothing.
* Deployments are detected by totals (`main.py:594`) of lists with and without
  health checks (`cache_invalidator.py:45`): asking for health checks looks like
  a deployment, and one that changes no total goes unseen.
* The deployment sweep uses a prefix (`cache_invalidator.py:60`) that no key has
  (`utils/cache.py:166-168`).
* The memory layer keeps everything for 600 s (`utils/cache.py:89`), health
  violations too, for which `docs/REQUIREMENTS.md:340` says 30 s.
* The key of the BT list (`main.py:582`) has no page in it
  (`docs/REQUIREMENTS.md:533`): another page is answered from it.
* A 403 is said to drop the session (`appd_auth.py:12-13`); `_get` does so only
  with a `upn` (`appd_client.py:150`), and no caller passes one.
* The session is keyed by upn only: a role looked up at one controller is used at
  another. `AdmittedByHeldRole` therefore speaks of any controller.
* `docs/REQUIREMENTS.md:98-99` puts every per-application tool behind the
  application gate; the EUM tools and `load_api_spec` are not. `:121` gives
  `get_policies` to TROUBLESHOOT, the code to CONFIGURE_ALERTING. `save_runbook`
  and `get_server_health` ask for no role although the sets list them.
* `docs/REQUIREMENTS.md:129-131` logs every call: a call refused by a gate, and
  three tools, are not logged; a cancelled call is logged as "success", because
  the `finally` (`main.py:549`, and likewise in the other tools) finds the status
  unchanged: `CancelledError` is no `Exception`. Nothing is therefore claimed of the
  log but `ArchiveAccounted`, of the one tool that writes its entry elsewhere; `:262`
  always audits archiving, which a lost answer or a cancellation prevents.
* `docs/REQUIREMENTS.md:462-463` fails closed when an RBAC client cannot start;
  `main.py:2482` skips the gate then.
* `docs/REQUIREMENTS.md:590` shuts down gracefully; the main loop is said to check
  a stop event (`health.py:12-14`), which is read by nobody: under stdio the
  process goes on after a SIGTERM.
* Startup calls a failing RBAC client non-fatal (`main.py:2563`); when the cause
  is Vault, the retry ends in `SystemExit`, which no handler there catches.
* `_vault_ok` is set once (`main.py:2567`) and never cleared, and no tool is served
  before: "vault unreachable" and "unhealthy" (`health.py:70`, `:84`) are never
  reported. The liveness port answers "ok" whatever is wrong (`health.py:123`).
* `apps_registry.py:10` loads from disk "at startup"; the disk is read when the
  memory has nothing (`:118`).
* Startup stores every application, a later first page of `list_applications`
  replaces them all (`main.py:403-408`); the summary of "every app scoped to the
  caller's team" (`main.py:2349`) then speaks of that page. It "seeds from
  AppDynamics" (`:2356`), but stores nothing.
* A live `list_applications` compares the page *after* scoping with the page size
  (`main.py:440`): a caller whose team does not see the whole page is told there
  is no next one.
* The summary is "sorted by severity" (`main.py:2353`) and "errors first"
  (`main.py:2418`); the code sorts those that are not healthy by the number of their open
  violations, so that a critical one goes below two warnings, and puts those that
  could not be asked last among them. "healthy" has no critical and no
  warning violation and may have others.
* `same_hour` promises "within tolerance of the same time of day"
  (`utils/timezone.py:84`); 23:30 and 00:10 are not (`:87`).
* An automatically chosen baseline is always said to have "No errors, response
  time within baseline" (`main.py:1098`); with nothing better listed it has both.
  "in the last 7 days" (`:1079`) are the 60 minutes `list_snapshots` asks for
  (`appd_client.py:309`).
* A repeated method is compared by the time of its last call
  (`snapshot_parser.py:161-168`); a report of MEDIUM confidence may name no culprit
  (an early exit with an error).
* `bt_classifier.py:83` sorts by "CRITICAL first, then by error_rate"; the code has
  four tiers, so that a healthy transaction with a vital name is above one that
  fails, and up to 1 % of errors goes below a busy or slow one without any.
  `docs/REQUIREMENTS.md:238` and `main.py:569` say "sorted by error rate".
  `FailuresPlaced` states what does hold. A fast transaction without errors is dropped as a health check
  even if its name makes it CRITICAL (`:35`).
* `docs/REQUIREMENTS.md:320-324` compares with the last five runbooks *of the
  application*; the prefix also finds those of applications whose name goes on
  behind the hyphen (`runbook_generator.py:88`), and two runbooks of one second
  have one file (`:78`). Brackets, stars and question marks of a name are not escaped
  in that pattern: an application `[PROD] Pay` misses its own files and may find
  those of others, and a name that ends in `**` makes the search raise after the file
  is written. `WarningIsRight` speaks of the files the pattern finds.

## Not modelled, and why

* Operations nothing calls: `BTRegistry.get_all`, `AppsRegistry.invalidate`,
  `on_cache_validation_failure`, `is_stopping`, `can_access_controller`. On the BT
  registry only its deletion by the deployment handler is modelled.
* The stack parsers, `find_hot_path`, the suggested fix, BT naming, the type of a
  BT, the sanitizer, the formatting of times, the truncation to a budget: text or
  labels in, text out, no state, and no decision of the server rests on them.
* Team patterns: the applications a team sees are the constant `Scope`, the team
  of a user a constant of `RateLimiter`.
* The parameters of the individual AppDynamics endpoints: a request is "get",
  "try" or "archive".
* A search and the later pages of `list_applications`: they store nothing.
* Metrics: counters that nothing reads back. (`_active_upns` is never trimmed and
  the hourly window moves only when a tool is called, `utils/metrics.py:38`, `:78`.)

## Plan

Done: all components above but those under "Not modelled", in the order core
(`TokenManager`, `RateLimiter`, `AppAccess`, golden modules, `ResponseCache`,
`ToolCalls`), then `TwoLayerCache`, `AppsRegistry`, `Startup` and the judgements; and
the theorems listed under "What is proved", which state every safety property of
the passing runs.

What is left would be an abstract specification of what a token manager and an
access cache promise a call, with the proof that they implement it.
