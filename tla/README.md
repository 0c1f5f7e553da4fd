# A TLA+ verification project for Go-Key-Pool-System

The repository is a service that accepts HTTP requests, saves them in SQLite,
queues them by priority, and lets a pool of workers send them upstream with API
keys from a shared pool. Keys have concurrency slots, rate limits and circuit
breakers; failed attempts are retried after a delay; administrators change keys
while the service runs. Everything interesting happens between goroutines.

Module names below are files of this directory; source names are paths under
`src/`. `PROJECT.json` lists the components, runs, mutants, the map from
definitions to lines, the findings, the hazards and the theorems.

## 1. Inventory

| Component | State | Operations | Talks to |
|---|---|---|---|
| Priority queue `internal/queue` | heap `pq`, `closed`, the `notify` token, the `done` channel | `Enqueue` (reject, push, preempt), `Close` | handlers and retry timers push, the dispatcher pops |
| Dispatcher (`dispatchLoop`) | its position, the popped item | wait, pop, send, abandon, drain | an unbuffered channel to the workers |
| Worker loop `internal/worker` | its position, the item it has | receive, `processItem`, exit | queue, key pool, database, upstream |
| Request processing and retries | the row as it was read, timers | load, get key, mark, call, settle, retry | queue (again), `requests` table |
| Submission `internal/api` | the request's row | idempotency check, insert, enqueue | `requests` table, queue |
| Circuit breaker `internal/keypool` | state, failure count, time of the last failure | `AllowRequest`, `RecordSuccess`, `RecordFailure` | `GetKey`, `MarkSuccess`, `MarkFailed` |
| Key health | the row's health columns, `key_events` | `MarkSuccess`, `MarkFailed`, admin reset | breaker, database |
| Key pool manager | `keys`, per key: slots used, window counters | `GetKey`, `ReleaseKey`, `reloadKeys` | `api_keys` table, workers |
| Strategies | current weights, a counter, which one is active | `Select`, `Reset`, `updateStrategy` | `GetKey`, hot reload |
| Static configuration `internal/config` | the `Config` that `Load` returned | `Load`, `validate` | environment, main |
| Configuration hot reload | the table `system_config`, `HotReloadConfig`, the active strategy | PUT `/admin/config`, the reload loop, `updateStrategy` | table, key pool, workers |
| Migrations `internal/db` | `schema_migrations`, the lists of the processes that migrate | `RunMigrations` | SQLite, main |
| main | the root context | start, cancel, close | all of the above |
| Metrics, crypto, HTTP client, router | | | not modelled, see section 8 |

What is hard here: one notify token stands for many pushes; the dispatcher pops
before it knows of a free worker; `Close` is two steps; a retry timer pushes an
item from its own goroutine; database errors are ignored in the places that
carry the retry count and the result; `MarkFailed` asks the breaker four
questions under four separate locks; a reload replaces the pool while its keys
are in use; a crash leaves rows half-way; an eviction trusts an index that every
swap has to maintain; processes that start together migrate one database from stale
lists; a configuration goes through two copies, each refreshed by a loop of its own,
before it is used. `PROJECT.json` lists each of these
under `hazards`, at its line, with the properties that watch it.

What makes each component correct:

- queue: the bound holds, no wake-up is lost, nothing is stranded by a shutdown,
  an item has one owner, preemption only improves the queue, priority inversion
  is bounded, shutdown ends;
- key health: count and state agree, a failed probe reopens, an open circuit is
  left again;
- heap: the slice is a heap, the index fields are right, and together they do what
  the queue's set of items does;
- key pool: slots are neither leaked nor freed twice, limits hold, a call of
  `GetKey` works on the pool as it is, a deleted key leaves it, and for the workers
  it is a table of slots;
- strategies: exact proportions per period, smoothness, cycling, never nil;
- service: the queue's contract is kept, one request per idempotency key is
  processed, the table tells the truth about the upstream's answers, finished is
  final, accepted requests are finished;
- migrations: each is applied once and after its predecessors, a process that serves
  has all of its release;
- configuration: the running values are usable, what an administrator sets stays,
  and the running values converge to the table.

## 2. Modules

| Module | Models | Notes |
|---|---|---|
| `Queue` | `queue.go`, `priority_queue.go`, `Worker.Start` | one action per critical section and per channel operation |
| `QueueOrder` | `Queue` with a history variable | counts how often a queued item is passed by a worse one |
| `QueueProofs`, `QueueOrderProofs` | | theorems about the two |
| `HeapQueue` | the slice `q.pq`, `Item.index`, `container/heap` | implements `Queue` |
| `HeapQueueProofs` | | theorems about `HeapQueue`, on top of `QueueProofs` |
| `CircuitBreaker` | `circuitbreaker.go` | operators on a breaker record, no state machine |
| `KeyHealth` | `MarkSuccess`, `MarkFailed`, `logKeyEvent`, admin reset | one key, one step per use of the breaker's mutex |
| `KeyHealthProofs` | | theorems about `KeyHealth` |
| `KeyPool` | `GetKey`, `types.go`, the reload loop, add and delete | one step per mutex, the RWMutex explicit |
| `KeySlots` | what `GetKey` and `ReleaseKey` promise | abstract; `KeyPool` implements it, `Service` uses it |
| `KeyPoolProofs` | | theorems about `KeyPool`, the refinement included |
| `Strategies` | `weightedrr.go`, `roundrobin.go`, `updateStrategy` | sums as prefix sums over the list |
| `StrategiesProofs` | | theorems about `Strategies`, with lemmas on sums, maxima and remainders |
| `Service` | `SubmitRequest`, `processItem`, retries, shutdown | extends `Queue`, uses `KeySlots` |
| `ServiceCrash` | `Service` with crashes and restarts | only the `requests` table survives |
| `ServiceProofs` | | theorems about `Service` and `ServiceCrash`, on top of `QueueProofs` |
| `Migrations` | `migrations.go` as main runs it, in several processes | one transaction per file, SQLite's writer lock explicit |
| `HotReload` | `config.go`, `reload.go`, `UpdateConfig`, `updateStrategy` | extends `Migrations` |
| `HotReloadProofs` | | theorems about `Migrations` and `HotReload` |
| `MCQueue`, `MCHeapQueue`, `MCKeyHealth`, `MCKeyPool`, `MCStrategies`, `MCService`, `MCServiceCrash`, `MCHotReload` | | constants for TLC |

**Queue.** `pq` is the set of queued items. `container/heap` promises a
`Less`-minimal item from `Pop` and leaves ties open; so does `Front`. `Enqueue`
is one step because it runs under `q.mu`. `dispatch` is the program counter of
`dispatchLoop`: `wait` (outer select), `pop` (the locked part), `send` (inner
select, item in `hand`), `drain`, `exited`. A worker is `idle` before its select,
`recv` when parked in it: the difference matters, because the non-blocking send
of `drainRemaining` reaches only parked workers and closing the context's channel
wakes exactly those. `lost` is history: items refused, evicted or dropped.
`Outside(i)` is the queue's assumption about its callers; `Service` shows that the
service meets it (`KeepsQueueContract`).

**HeapQueue.** The slice is a sequence and `index` maps every item to its field, also
while it is outside. `Up`, `Down`, `HeapPush`, `HeapPop` and `Remove` are
`container/heap`, an external library, written after its contract and the calls that
`queue.go` makes: `Remove(h, i)` moves the last item to place `i` and restores the
order, whoever is there. A loop is a recursive function of the number of its turns,
`UpTurn` and `DownTurn`; a turn changes nothing once the code would have left the loop, and
the number of turns is one that no run of the loop exceeds. Only the steps that touch the heap are new; the rest are
`Queue`'s own actions, taken through the instance `Q`.

**CircuitBreaker / KeyHealth.** Time is one bit: `cooled` says whether
`openDuration` has passed since the last failure. `MarkFailed` is six steps
(previous state, record, new state, event, count, save) since every other worker
may act between them. `LogKeyEvent` inserts with the zero id, as the code does, so that
`events` never has more than one element.
The admin reset changes the row only.

**KeyPool.** `blocked` abstracts the breakers to the answer of `AllowRequest`, the
strategy is a choice from the list (or nil, `MayPickNone`). `reloader` distinguishes
reading the table, waiting for the write lock (new readers wait from then on, as
`sync.RWMutex` makes them) and holding it. Created keys have new ids (`fresh`).
A window is a counter and the bit "its reset time has passed". The filter of
`GetKey` is one step for the whole loop, since each answer concerns one key only.

**KeySlots.** The only state is who holds which key. A worker holds a key from the
moment `GetKey` returns it; the slot it occupies between `TryConcurrentAcquire` and
the rate check is internal to `KeyPool`.

**Strategies.** Keys are numbered in pool order. `picks`, `calls`, `recent` and
`picked` are history. `reweighed` says whether weights have changed since the
current weights were last cleared.

**Service.** A request is its queue item. `api` is the progress of its handler,
`row` its row, `step` the worker's place in `processItem`, `timers` the
`delayedEnqueue` goroutines. `DBAnswers` is what a database call may do: a cancelled
context fails it, and with `DBFails` it may fail at any time. The key pool is
`KeySlots` (`holders`): `GetKey` may always come back with nothing, and what it gives
comes out of the slots, so a path that forgets `ReleaseKey` starves the service. The
upstream is a choice of answers. `AttemptLimits` are the values that
`retry_max_attempts` takes while the service runs; each failure reads one of them,
since the configuration may have been reloaded in between. `main` is `Stop` (rootCancel) and `Close`. Handlers
are not stopped by either, since `Shutdown` gives up on slow ones.

**ServiceCrash.** `CrashRestart` empties everything but the table; `Requeued` is
what `main` puts into the new queue, namely nothing.

**Migrations.** `recorded` is `schema_migrations`, `applied` counts committed executions
of a file's SQL (history), `writer` is SQLite's lock. A process starts with the files
of some release, reads the recorded versions once, and executes what is missing in
order of version, each file in a transaction. A failed transaction ends the process
(`logger.Fatal`), and it may die at any point. SQLite's deferred transactions are
simplified: one that would have to wait for the lock waits in `Execute`, one that is
told "busy" is a `Die`.

**HotReload.** The steps of `Migrations` with what happens around them: `Load` and
`validate` before, seeding when the seed's transaction commits, the HTTP handlers and
two loops after. Settings have one of four kinds of check: a name, a count that
`validate` looks at too, a number, a ratio. Texts are integers or words; `NaN` is a
word that `ParseFloat` accepts. A PUT is written entry by entry in any order and may
stop after any of them. The memory of one process (`Server`) is modelled; the others
migrate and write to the table.

## 3. Runs

| Run | Configuration | Checks |
|---|---|---|
| `queue` | 5 items in 3 tiers, 2 workers, capacity 2, preemption | `TypeOK`, `SizeBound`, `NoLostWakeup`, `NothingStranded`, `OnePlace`, `BoundedInversion`, `PreemptionImproves`, `ShutdownCompletes`, `BestItemServed` |
| `heap` | 7 items in 3 tiers with equal times, 1 worker, capacity 6; 2.6 million states | `HeapWellFormed`, `ImplementsQueue` |
| `key_health` | 2 workers, threshold 2, at most 3 failures | `TypeOK`, `CountMatchesState`, `FailedProbeReopens`, `OpenIsLeft` |
| `key_pool` | 3 keys, 2 workers, 1 slot, 1 grant per window | `TypeOK`, `SlotAccounting`, `WithinLimits`, `ListIsCurrent` |
| `key_pool_live` | 2 keys, 2 workers; 151 000 states | `DeletedKeyLeaves`, `ImplementsKeySlots` |
| `strategies` | 3 keys, all weights up to 4, 2 changes of weights | `Proportional`, `Smooth`, `Cycles`, `AlwaysPicks` |
| `service` | 2 requests with or without a shared idempotency key, 2 workers, one key with 2 slots, capacity 1 with preemption, retry limit changing between 1 and 2, failing database, shutdown; 915 000 states | `ServiceTypeOK`, `OneOwner`, `ProcessedOnce`, `ResultIsTrue`, `KeepsQueueContract`, `FinishedIsFinal` |
| `service_crash` | 2 requests, 2 workers that contend for one slot, capacity 2, retry limit changing between 2 and 3, one crash; 210 000 states | `TrueAcrossCrashes`, `AcceptedIsFinished` |
| `hot_reload` | 2 processes, 2 releases with and without the seed, 4 environments, 2 PUTs, 1 fault; 981 000 states | `HotReloadTypeOK`, `AppliedOnce`, `UpMeansMigrated`, `PredecessorsFirst`, `HotIsSane`, `AdminValueSurvives`, `ConfigConverges` |

Why the bounds are enough:

- `queue`: capacity 2 with five items makes the queue full, empties it and fills it
  again; two items share a tier twice, so both halves of `Less` decide; with two
  workers one can be busy while the other is parked. An item is enqueued once
  (re-enqueueing is in `Service`).
- `key_health`: threshold 2 separates "one failure" from "open"; a third failure
  arrives late, in an open or half-open circuit.
- `key_pool`: three keys are the least with which `GetKey` goes round its loop a
  second time; one slot makes two workers collide. The day window is left to the
  theorem `WithinLimitsHolds`, which holds for any set of windows.
- `strategies`: periods of up to 12 calls, then again after a switch of strategies. The
  four properties are proved for every number of keys and all weights.
- `heap`: six places are three levels with an incomplete last one, so the worst item
  is some leaf that need not be the last, and the item that takes its place can have
  to go down or up; one worker suffices since workers do not touch the heap.
- `service`: capacity 1 makes retries meet a full queue; the largest retry limit is 2
  and `MaxCalls` 3, one more than the attempts allow. `service_crash` has one slot for
  two workers, so one that keeps it starves the other.
- `hot_reload`: two processes are enough for a stale list of versions, and with two
  releases the table may be written before it is seeded. The two PUTs carry usable
  values, unusable ones and both; one fault (a crash, a failed transaction or a failed
  upsert) can fall anywhere. `AppliedOnce`, `UpMeansMigrated`, `PredecessorsFirst`,
  `HotIsSane` and `AdminValueSurvives` are proved without these bounds.

Bounds on counters are in the guards and named: `MaxFailures`, `MaxReweighs`,
`Strategies!MaxCalls`, `Service!MaxCalls`, `MaxCrashes`, `MaxFaults`, `MaxPuts`. Symmetry of workers (and of
keys with equal limits, and of items of one tier and time) is used in runs without
liveness only.
`CHECK_DEADLOCK FALSE` stands where the system may stop: the queue and the service
after a shutdown, or when every request is finished. Elsewhere, in `hot_reload` too,
a state without successor would be an error.

### Runs that show a disagreement

| Run | Repository | Code |
|---|---|---|
| `one_probe` | README: in half-open "one test request goes through" | `AllowRequest` lets everyone through until a report arrives |
| `tries_every_key` | "Returns nil if no key is available" | the loop counter rises while the list shrinks; with two keys the second is never tried |
| `nothing_lost_in_crash` | "If the server crashes, nothing is silently lost" | `GetPendingRequests` has no caller; the new queue is empty |

Others were seen while modelling and have no run of their own:

- items do not always leave in priority order (`queue.go:104`): the one in the
  dispatcher's hand may be worse than a newer one. `BoundedInversion` says how far
  this goes: one item;
- `drainRemaining` drops items when no worker is parked, and the select in
  `dispatchLoop` may drop the popped item although one is (`queue.go:155`), against
  `queue.go:117`;
- the newest item of the worst tier is evicted, not "the oldest" (README, line 96);
- a late success closes an open circuit directly (`circuitbreaker.go:73`), which the
  diagram at `circuitbreaker.go:15-18` does not have;
- the admin reset does not reach the breaker in memory (`handlers.go:352`), and
  `Server.logKeyEvent` derives a context from nil, which panics after the table has
  been changed (`handlers.go:423`);
- with keys that come and go the weighted strategy can return nil for a list of
  usable keys (`weightedrr.go:53`); this is why `KeyPool` has `MayPickNone`;
- when the write at `worker.go:132` is lost the attempt is not counted, so a request
  may be called more often than `RETRY_MAX_ATTEMPTS`. `AttemptsRespected` is therefore
  checked with a database that works (`service_crash`);
- a retry that meets a full queue is dropped with a log line (`worker.go:248`) and its
  row stays "processing"; likewise a submission that is answered 503 leaves a pending
  row, with which a repetition under the same idempotency key is then answered;
- key events are built without an id (`manager.go:332`), so all of them have the primary
  key "" and every insert but the first fails, with a line in the log;
- at a shutdown the context is cancelled before anything else (`main.go:150`), so a 2xx
  that has arrived is not stored, although `.env.example:17` says "workers finish
  in-flight requests";
- the README sets `key_pool_strategy` (lines 581 and 727); the code reads `strategy`;
- "All tuning parameters can be changed at runtime" (README, line 202): `worker_count`
  and `queue_max_size` are reloaded into `HotReloadConfig` and read by nobody, and the
  breaker's threshold and duration reach only keys that are new to the pool
  (`manager.go:293`);
- the seeded table overrides the environment at the first reload: a setting given by a
  variable is replaced by the seed's value unless the table is changed too;
- the jitter is added after the cap (`retry.go:26`), so a delay may exceed
  `retry_max_delay_ms`; `updateFloat` accepts NaN (`reload.go:119`);
- an interval of zero or less, which `validate` lets pass, makes `time.NewTicker` panic
  (`reload.go:148`, `manager.go:231`);
- of two migration files with one version the second fails the first startup and is
  skipped by all later ones (`migrations.go:42`), hence `VersionAssumption`.

## 4. Fairness

- `Queue`: weak fairness of the dispatcher, of each worker and of the second half of
  `Close`. The Go scheduler runs goroutines that can run; `processItem` ends since
  every database and HTTP call in it has a timeout. Enqueueing, `Close` and
  cancellation are not fair: nobody has to call them.
- `KeyHealth`: the clock advances (`Cooldown`), calls end, and workers keep asking.
  `OpenIsLeft` needs the last: an open circuit is left only by a `GetKey`.
- `KeyPool`: the reload loop and calls of `GetKey` that have begun. Holders of keys
  need not be fair: a reload does not wait for them.
- `Service`: as `Queue`, with timers and handlers that have begun, plus strong
  fairness of `KeyFound`: a request that asks again and again gets a key at some
  point, since breakers cool down, slots are released and windows end. This is an
  assumption about the load and the keys, needed for `AcceptedIsFinished` only.
  Crashes are never fair.
- `HotReload`: startups go on and a process that is down is started again
  (`docker-compose.yml:12`, `restart: unless-stopped`); the tickers of the two loops
  tick, reads of the table succeed now and then (a failed one changes nothing), and
  handlers that have begun write on. PUTs and faults are not fair, and bounded:
  `ConfigConverges` says what holds when they have ceased.

## 5. Abstract specifications

- `KeySlots` is what the key pool promises. `KeyPool` implements it with
  `holders <- [k \in Keys |-> Holders(k)]`: a `Rate` step that succeeds is a `Grant`,
  `ReleaseKey` a `Return`, everything else (reloads, deletions, rate windows, breakers,
  the loop of `GetKey`) stutters. `ImplementsKeySlots` is checked in `key_pool_live` and
  proved in `KeyPoolProofs`. `Service` is built on `KeySlots` and so does not have to
  carry the pool.
- `Queue` is the detailed model of `internal/queue` and the abstract specification of
  two others. `Service` implements it (`KeepsQueueContract`, proved as `ContractKept`),
  with handlers and timers that have no `Outside` guard of their own. `HeapQueue` implements it with the set of
  the items in the slice (`ImplementsQueue`, checked in `heap` and proved): the heap never
  returns, evicts or refuses anything that `Queue` would not, so the theorems of
  `QueueProofs` hold of the slice (`HeapKeepsQueueInvariants`, `SliceBound`).
- `QueueOrder` implements `Queue` by dropping its history variable (`OrderRefines`,
  proved).
- Every step of `HotReload` is, for the schema, a step of `Migrations` or none
  (`HotReloadSteps`, proved).

## 6. Mutants

Each property of each passing run has a mutant: an operator defined just before the
one it replaces, commented with the bug it stands for (a forgotten notification, an
off-by-one, a missing reset, a lock not taken, a constraint left out). With it TLC
finds that property violated under the run's own configuration.

## 7. Proofs

All theorems are for every value of the constants that satisfies the named
assumptions (finite sets of items or workers, a positive capacity, integer limits).

`QueueProofs`. `TypeCorrect` and `NoLostWakeupHolds` are inductive as they stand,
given types. `SizeBoundHolds` rests on two lemmas on what steps do to the heap
(`EnqueueHeap`, `OtherHeap`) and one on cardinality. `NothingStranded` is not
inductive: `ShutdownInv` adds that the dispatcher drains only after `done` and `done`
follows `closed`, after which nothing is pushed. `OnePlaceHolds` goes by actions.
`PreemptionImproves`, an action property, comes from `SwapImproves`: exchanging an item
for one of a better tier cannot lower the number of items of any tier or better.
`BoundedInversion` (in `QueueOrderProofs`) is not inductive either: `BoundedDebt` also counts the item in the
dispatcher's hand, which may be about to pass; a pop takes a minimal item, so the new
hand adds no debt, and a delivery turns the hand's debt into a pass.

`HeapQueueProofs`. `HeapWellFormed` is inductive with types (`GoodHeap`), but a step is a
whole run of `up` or `down`, during which it does not hold. What holds instead is stated as
the set of the states a loop may be in:

- `Rising`: a slice of the same items whose indices are right, in order but for the item
  that rises, below which everything is in order with that item's parent already
  (`RisesAt`). A turn stays in the set (`UpTurnKeeps`) and lowers the place or has stopped,
  and then the slice is in order; hence `UpFacts`;
- `Sinking`: likewise for `down`. The item may be out of order with its parent only while it
  has not moved, and then the heap is as it was (`SinksAt`). That is the reason why
  `heap.Remove` may decide from "nothing moved" that the item has to go up: `DownFacts`
  gives `RisesAt` in that case, and order in the other.

Both sets contain their own loop invariant, so that the loop has a solution in them
(`RecursionExists`) and all its turns are there (`UpTo`, induction with the statement as a
set). `HeapPushFacts`, `HeapPopFacts` and `RemoveFacts` say of the three operations that a
heap stays one and which item comes or goes; `RootIsLeast` goes up along the parents, and
`FindLowestFacts` along the scan. The right indices are what makes `Remove` take out the
item that the scan found (`LowestIsWorst`), and what makes the length of the slice the
cardinality of `Queue`'s set (`HeapCardinality`). From these facts each action is an action
of `Queue` (`EnqueueStep`, `PopStep`, `DrainStep`). Only the assumptions of `Queue` are
used; priorities and times may coincide in any way, since `Less` need only be a strict weak
order (`LessIsWeakOrder`). `HeapKeepsQueueInvariants` and `SliceBound` apply the theorems
of `QueueProofs` to the instance.

`KeyHealthProofs`. `BreakerSteps` reduces every step to at most one method of the
breaker. `CountMatchesState` is inductive for every threshold, zero and negative ones
included. `FailedProbeReopens`, an action property, follows from it: outside "closed"
the count is at the threshold already, and `AllowRequest` leaves it there.

`KeyPoolProofs`. `WithinLimits` and `ListIsCurrent` are inductive with types.
`SlotAccounting` is not: a reload gives keys that are new to the pool a zero counter,
so one in use must never be new. `Provenance` says why: a key in use is in the pool, or
deleted and absent from the snapshot under way; a pool key missing from the snapshot is
deleted; ids are never reused. `AcquireCounts` and `ReleaseCounts` tie the counter to
the cardinality of the set of users. `ImplementsKeySlotsHolds` needs all of this: that
the slot given out is free in `KeySlots` follows from the counter being the number of
users, the grantee being one of them, and the counter being within the limit
(`RateGrants`).

`HotReloadProofs`, migrations. `SchemaInv` joins types, `AppliedOnce` and `Progress`: a process in
its loop misses nothing of its release but what is on its list, one in a transaction has
the lock, one that is up has an empty list. It is inductive because versions are never
removed. That the sorted list has a first file is the well-foundedness of the naturals
(`CurrentIsFirst`); with it `Progress` says that what precedes the file being committed
is recorded (`CommitsInOrder`).

`HotReloadProofs`, settings. `SchemaHolds` carries the invariant over to the whole. `HotIsSane`
needs `StartedSane`: from the moment the process has passed `validate` its static
configuration is usable where the update functions later insist on it. The assumptions
are on the inputs: PUT bodies name settings only, and defaults of counts are integers.

`ServiceProofs`. One invariant, `ServiceInv`, carries everything; none of the properties
is inductive without it. Its parts, and what each is there for:

- `OnePlace` and `OneOwner`: a request is in one place. A step of a worker therefore
  touches no other worker's row, and what a timer or handler offers to the queue is
  outside of it; that is `ContractKept`, and with it every theorem of `QueueProofs` holds
  in the service (`QueueSafeInService`);
- `WorkersInv`: a worker has an item, a step and a loaded count only within
  `processItem`, and never two keys;
- `WaitingInv`: what waits (saved, queued, in the dispatcher's hand, on a timer) is
  `Open`: its row is not final, no call of it has succeeded, an attempt is left. Without
  it a worker could load a finished row and process it again;
- `ProcessingInv`: what a worker knows of its row. The row's count may lag behind the
  attempt under way, since the error of `UpdateRequestStatus` is ignored;
- `TableInv`: requests without a row have not been sent, and of those that share an
  idempotency key at most one has a row (the UNIQUE constraint; the check before it
  contributes nothing).

A crash empties everything but the table and the history, and `ServiceInv` holds of the
result (`RestartKeeps`), so the same properties hold across any number of crashes.
`TrueAcrossCrashesHolds` assumes a database that works (`DBFails = FALSE`, as in the run):
with a failing one attempts go uncounted, see section 3. It needs `CountedInv`: the
calls made never exceed the attempts in the row, and are fewer while one is due. Before
they were proved `ServiceInv` and `CountedInv` were model-checked, on instances of up to
2.9 million states with crashes, failing writes and shutdowns.

`StrategiesProofs`. What the loops over the list compute is proved by induction over the
list: `Upwards` states it with the set of the places for which the claim holds, and
follows from the well-foundedness of the naturals. On it rest the facts on sums
(`PrefixComputes`, `SumAdds`, `SumChanges`, `SumDominates`, `PositiveSummand`) and that
some key comes first among the heaviest (`FirstMaximum`). The theorems assume
`Lists = {Keys}`, as in the run: every key is available on every call. With lists that
change they need not hold; `AlwaysPicks` then fails, see section 3.

- `BalanceInv`: the current weights add up to zero, whatever the weights are changed to.
  After raising them they add up to the total, so one is positive and is picked.
- `PeriodInv`: a current weight is what the key is owed, `calls * weight - picks * total`.
  It is above `-total`, because the picked key had more than zero; and a key that is
  passed over has at most half of what it and the picked key have together, of which the
  other keys, each above `-total`, leave them only so much. That gives `Smooth`.
  `Proportional` follows at the end of the period: no key can be ahead, and the picks add
  up to the weights.
- `RoundInv`: the recent results are those of successive values of the counter, and
  numbers less than `KeyCount` apart have different remainders.

The proof corrected the property: that no key is ever a whole pick behind its share holds
for up to three keys, which is what the run tries, and fails for four (weights 1, 5, 37
and 37). `Smooth` now states the bound that holds for every pool.

Only model-checked is liveness (`ShutdownCompletes`, `BestItemServed`, `OpenIsLeft`,
`DeletedKeyLeaves`, `AcceptedIsFinished`, `ConfigConverges`): the prover has no fairness.
Every invariant, action property and refinement that a passing run checks is proved.

Strengthenings (`ShutdownInv`, `BoundedDebt`, `GoodHeap`, `Provenance`, `SchemaInv`, `ServiceInv`,
`PeriodInv` and the like) serve the proofs and have no runs of their own.

## 8. Not modelled, and the plan

Not modelled: encryption, router, authentication, logging, the reading endpoints and the
SQLite connection (no state of their own); metrics (nothing calls the recorders, so its
counters never change); the settings that only other components' constants stand for
(ports, timeouts, paths); the length of backoffs; bodies, headers and names; weights that
are not positive, which `AddKey` accepts when negative; wrap-around of the 64-bit counter
of the round robin; the length of the staggered start; load shedding beyond its
settings, since no code reads those. The health columns that `MarkFailed` writes may pair values of two moments
(`manager.go:180`); nothing reads them back, so no property depends on them.

Order of work: 1. queue, 2. key health, 3. key pool, 4. strategies, 5. service and
crashes, 6. the abstract key pool and the service on it, 7. the heap, 8. migrations and
hot reload, 9. the proofs of all but the heap, 10. the heap's loops as functions of their
turns, and its proofs. All of this is done.
