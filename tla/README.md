# TLA+ models of Tempest

Tempest is a workflow engine: a client submits a run of a definition (a DAG of
steps), the engine queues the steps whose dependencies have succeeded, a pool of
goroutines leases them from the store's queue and calls their handlers, and
maintenance workers release expired leases and delete old runs.  Around the
engine the repository has about a hundred small packages: coordination (leader
election, fencing tokens, leases), what threads block on (locks, barriers, token
buckets, lanes), stores (a write-ahead log, a compacting checkpoint store, caches),
delivery (outbox, event buses, webhooks), graph algorithms, and utilities.  Most
of them are not imported by the engine and share no state with each other.

This directory models the engine as a whole and the packages whose correctness
depends on interleavings, crashes or long call sequences.  `PROJECT.json` lists
every package with what became of it, maps each definition to the lines it models,
and lists the hazards the properties were chosen for.

## Layout

| Module | Models | Proofs |
| --- | --- | --- |
| `Engine` | `internal/scheduler` on `internal/persistence/memstore`, `internal/workflow`, the workers of `internal/worker` | `EngineLemmas`, `EngineProofs` |
| `Leader` | `internal/leader` | `LeaderProofs` |
| `Fencing` | `internal/fencing` | `FencingProofs` |
| `Compactor`, `KVMap` | `internal/compactor`, and the map it promises to be | `CompactorProofs` |
| `Wal` | `internal/wal` | |
| `RWLock` | `RWLock` of `internal/lock` | |
| `Barrier` | `internal/barrier` | |
| `TokenBucket` | `internal/tokenbucket` | |
| `Lanes` | `internal/lane` | |
| `Shaper` | `internal/shaper` | |
| `Outbox` | `internal/outbox` | |

`MCEngine`, `MCEngineLive`, `MCCoordination`, `MCStorage`, `MCLocks` and `MCFlow`
instantiate them for TLC.  The last four put packages that share no state next to
each other, and `MCEngineLive` two settings of the engine: a behaviour is about one
*unit*, chosen in the initial state, and the variables of the other packages keep
their initial values.  So the states of a run are the sum, not the product, of those
of its units, and one unit may be the same package with other parameters (with or
without `Reset`, with or without contexts that end).

Conventions: an action is what the code does between two points where another
goroutine can get in (a mutex, a channel, a call of the store); a mutex is a
variable only where it is held across such points.  A definition whose comment
begins with *Mutant* is a plausible bug in the definition after it, used to see
that a property notices it.  Variables marked *history* do not exist in the code.

## The engine

`Engine.tla` models `internal/scheduler` on `internal/persistence/memstore`, with
`internal/workflow` (NewRun, ReadySteps) and the lease reaper and expiry worker of
`internal/worker`, seen by one run.

* **Atomicity.**  memstore holds its mutex for a whole call and the engine holds
  nothing between two calls, so one action is one store call together with what
  the engine computes from its result.
* **State.**  `runState`, `startedAt`, `finishedAt`, `stepState` are the stored
  run; `queue` says of each step's item whether it is absent, visible, or hidden by
  a lease; `batch` are the leases `drain` has taken and not yet given to the pool.
  Every process (the client, the goroutines of the pool) has a `pc` that names its
  next store call, the `step` it works on, `snap`, its own clone of the run's step
  states, and `ready`, the rest of the list it is enqueuing.
* **Processes.**  The client (`SubmitCreateRun`, `SubmitQueued`, `Enqueue`,
  `MarkQueued`), the loop (`Drain`), time (`LeaseTimeout`), each goroutine
  (`SubmitContext`, `GetRun`, `MarkStepRunning`, `ExecuteOk`, `ExecuteError`,
  `CompleteStep`, `MarkSucceeded`, `PromoteRun`, `FailStep...`), a caller of
  `Cancel`, the reaper and the expiry worker.
* **Abstractions.**  Times become what the code compares them for; the lease token
  is left out because `CompleteStep` ignores it; outputs, error texts and attempt
  numbers are left out because nothing reads them back; the event sink is nil in
  the server.  `ReadySteps` keeps no order: any order of enqueuing is allowed.

`DependsOn`, the pool size and the batch size of `DequeueAny` are constants.
`PoolSpec` is the client and the pool; `CancelSpec` adds `Cancel`; `Spec` adds the
reaper and the expiry worker; `SequentialSpec` is `ProcessLeases` called by one
goroutine, as the package's tests do.

| Run | Instance | Shows |
| --- | --- | --- |
| `engine_chain` | a → b, 2 goroutines, a may fail; everything of `Spec` | `StepRecordJustified` and the inductive invariant `Inv`, which contains `TypeOK` |
| `engine_join` | a, b → c, 2 goroutines, leases that time out, a may fail | `DependenciesRespected`, `RunOutcomeJustified` |
| `engine_live` | unit `sequential`: a diamond, `ProcessLeases` by one goroutine, b may fail | `RunFinishes`: the run reaches a result |
| | unit `pool`: a → b, 2 goroutines, b without a handler, a may fail | `QueueDrains`: every item leaves the queue |
| `engine_lost_run` | as `engine_join` | **violated:** `NoLostRun` |
| `engine_cancel_final` | a → b with `Cancel`, a may fail | **violated:** `CancelledNeverFails` |

Bounds.  Two goroutines and a batch of two are the smallest pool in which a lease
can time out under its holder, be delivered again and complete twice, and in which
two branches complete at the same time; the fan-in is the smallest workflow with a
join.  The model has no counters, so these sizes are the only bounds; the proofs
remove them for the safety properties.

Fairness.  `Fairness` says that `Submit` runs to its end, that the ticker calls
`drain` again and again (`loop.go`), that a goroutine that holds a lease reaches the
end of `processLease` (handlers return; their context has a deadline), and that a
hidden item becomes visible when its 30 seconds are over.  `MCEngineLive` states the
fairness of `SequentialSpec` for one unit and of `FairPoolSpec` for the other.
Nothing is assumed about `Cancel`, the reaper or the expiry worker.

The two violations are what the code does.  In `engine_lost_run` both branches of a
fan-in read the run before either has stored its result; each decides on its own
copy that c is not ready, nobody enqueues it, and the run stays QUEUED with an
empty queue.  In `engine_cancel_final` the first step of a run is still leased and
executed after `Cancel` has written CANCELLED, and when its handler returns an error
`failStep` writes FAILED over it.  (Every write of a run's state is blind: the more
general `CancelledIsFinal` fails sooner, because `Submit` itself writes QUEUED over a
`Cancel` that came right after `CreateRun`.)

## Coordination

`Leader.tla`: candidates run their election loop against the in-memory
coordinator.  A coordinator call is atomic; what a candidate does under its own
mutex is atomic; the passing of time, which moves a lease from `fresh` through `due`
to `over`, comes in between anywhere.  Per candidate `pc` follows `runLoop`
(`select`, `elected`, `renewed`, `stepDown`, `release`, `revoke`, `stopped`), `got` is
the term of the record a renewal has returned and not yet written to `term`.  After
`Stop` the `select` may still take ticks that are ready, and between `Release` and the
`onRevoked` callbacks another node may be elected.

`Fencing.tla`: the token generator, `LeaseManager` and `FencedStorage` for one
resource.  `ExtendLease` reads the generator twice and writes it in a third critical
section, `Put` and `Delete` test the expiry before they lock: the model has a step
for each, so that a client may be overtaken anywhere in between.

| Run `coordination` | |
| --- | --- |
| `TermsFence`, `HolderHasNewestTerm`, `TermsGrow` | a leader that has not noticed the loss of its lease has an older term than its successor |
| `FreshLeaseKept` | a lease that has not run out is vacated by its holder alone: the late `Release` of an old leader, which names no term, spares its successor's |
| `StoppedYields` | `Stop` leaves no lease behind |
| `StandbyLeads` | when the other node has stopped the standby takes over |
| `TokensUnique`, `ZombieWritesRejected` | numbers are issued once, and the storage never goes back to an older one |

`TokensUnique` rests on `NextEpoch` leaving the counter alone.  The comment on it
(`token.go:84`) says that it "resets sequence for a resource"; had the code done so,
numbers would be issued again, and the storage, which compares numbers and not epochs,
would refuse the new holder (the mutant `NextEpochResets` is that code).

Units: `leader` (three nodes, three terms), `standby` (two nodes, fair), `fencing`
(two clients, four tokens, two epochs).  Two nodes that both believe they lead and a
third that may take over, and an old token that is extended after a newer one has
been issued, are all reached.  Fairness in `standby`: time passes and the ticker of a
node that is not stopped fires again (`leader.go`, `runLoop`).

## Storage

`Compactor.tla`: the mutable table, the list of snapshots, tombstones, `Flush`,
`Compact`.  All calls hold the mutex throughout; what is hard is the sequence.
`Get` looks up by position, `Compact` merges by sequence number and drops
tombstones.  `KVMap.tla` is the map a user sees; `RefinesMap` says that the store
with `data` mapped to what `Get` returns implements it, so flushing and compacting
are stuttering steps.

`Wal.tla`: the file, what of it is synced, the buffered writer, and two kinds of
crash.  An entry is three chunks (two parts of the JSON and the newline) so that a
file can end inside a line; parsing is modelled by which lines `replay` and `readAll`
would accept.  Some entries are long: `Append` takes them, but the line scanner of
`replay` and `readAll` stops at their line with an error, so that `readAll` returns what
comes before it, `Truncate` changes nothing and `Open` fails.

| Run | Shows |
| --- | --- |
| `storage` | `RefinesMap` and `NewestMetFirst` of `Compactor`; `IndicesIncrease` through torn lines, `Truncate`, long lines and crashes; `SyncedEntriesSurvive` where lines are whole and nothing is truncated: a synced entry can be read unless it is, or comes after, a line that is too long |
| `storage_torn` | **violated:** `CrashConsistent`: a crash cuts off the newline of the last line; `Open` still reads that line, but the next entry is appended to it, and then neither can be read, although the new one was synced |
| `storage_long` | **violated:** `LongEntriesSurvive`: an entry of 64 KiB or more is synced and cannot be read back |

Bounds: five writes over two keys and two values with a table that is flushed at two
entries give up to five snapshots, overwritten and deleted keys among them; six
(with faults five) appends, three crashes and a sync at every second index give
logs that were torn, reopened, and torn again.  Long entries pass the limit of the
scanner with the second part of their JSON; what is left of two torn short lines that
have become one is taken to stay below it.

## Locks

`RWLock.tla`: the queue of waiters with a channel each; a waiter whose context is
done and whose message has come takes either branch of its `select`, and its
clean-up is a step of its own.  `Barrier.tla`: a party that was woken takes the
mutex in a later step and finds the barrier in whatever state it is in; a goroutine
per waiter watches the context.  `TokenBucket.tla`: the mutex of the bucket and one
per lease, `Release` in two steps and the reaper in four.  A lease has the amount it was
asked for, which nobody checks: `Acquire` fails above the capacity and takes nothing for
zero or less, and the end of the lease adds the amount to the bucket whatever its sign.

| Run `locks` | |
| --- | --- |
| `MutualExclusion`, `NoLostWakeup`, `CountersExact`, `WaitersServed` | the lock excludes, and where no waiter gives up it loses no wake-up, counts right, and starves nobody |
| `NobodyLeftBehind`, `TripsAtThreshold`, `ReleasedByTrip`, `LateContextHarmless`, `WaitersReturn` | a generation trips with its own parties, a late context breaks nothing, everyone returns |
| `Conserved`, `NeverOverflows`, `NoneForgotten` | tokens of a lease come back exactly once, whoever of holder and reaper is first; only leases of a negative amount drain the bucket, each by that amount |

`locks_deadlock` is a **violation** of `NoCircularWait`: `Release` holds the mutex of
the lease and waits for the bucket's, `ReapExpiredLeases` the other way round.

Units and bounds: `rwlock` and `impatient` with four callers (a holder, two waiters
of each kind, a late comer); `barrier` with three parties and three generations,
`reset` with two; `bucket` with three leases and no refill (so that tokens are
conserved), `refill` with two, both with amounts of one and two; `odd` with two
leases of minus one, zero, two, or one more than the capacity.  Fairness: a holder
unlocks, a caller whose `select` is ready goes on, a woken goroutine is scheduled,
and the contexts of waiting parties end.  No fairness is assumed for `Lock`,
`ArriveAndWait`, `Break` or `Reset`.

## Flow

`Lanes.tla`: producers append to a lane under its mutex and count the task later
under the scheduler's; a consumer holds the scheduler's mutex (`smu`) throughout
`ScheduleNext`, except while it sleeps on the condition variable, and looks at one
lane per step, so that tasks arrive and heads age between two looks.  `tasks`,
`deficit`, `quantum`, `roundIndex` and `quantumAdded` are the code's; a task is its
cost, and `aged` stands for the clock.  `Shaper.tla`: everything under the mutex is
one step, a caller that was woken takes the mutex later; `Close` sets its flag and
broadcasts in two steps.  `Outbox.tla`: a tick lists messages, then each is handled in
turn while clients save and delete.  Nothing protects the fields of a message that two
processors have listed, so `RetryCount++` is a read and a write, and the test of the
count uses the one in the message or the one just written.

| Run `flow` | |
| --- | --- |
| `CountAgrees`, `WakeupsCoverTasks` | the count lags by the uncounted tasks only, and while a consumer sleeps another is on its way for every counted task |
| `CreditsBounded`, `LaneServed` | no lane saves up credit for a burst, and each is served again and again |
| `SpaceWaitersBlocked`, `PacketsHaveTakers`, `CloseReleases` | one condition variable is enough for both sides: the one caller `Enqueue` signals is always a consumer, and nobody sleeps through `Close` |
| `AttemptsCounted`, `Settles` | one processor counts its attempts, and settles every message |
| `GivenUpEarned` | however many processors work on a message and lose each other's counts, it is given up only after as many failures as the limit says |

Units and bounds: `lanes` and `leaving` with two producers and two consumers, two
lanes of capacity two and costs up to twice the quantum, so that a head may need two
turns; `aging` with one of each, starving heads and doubled quanta; four units for
the shaper's policies with two callers on each side and two places; `outbox` with
three messages, one without a handler, and three retries (five in the code),
`rivals` with two processors that share one message.  The history counters stop at
the limit, and none of them bounds the length of a behaviour except that an ID is
used once.  Fairness: consumers keep calling `ScheduleNext` and are scheduled, a
producer goes on to count its task, a running processor ticks, handlers return, a
backoff ends.  `LaneServed` is about the round robin: lanes that starve are served
first, in order, and a lane whose heads are always overdue can keep the scan to
itself.  `Settles` relies on a finite number of messages: above the limit of 100 the
map's order decides which are listed.

With contexts that end, `WakeupsCoverTasks` and `PacketsHaveTakers` fail: the caller
that was signalled returns its context's error, and the others sleep on beside a
queued task until the next one arrives.  With two processors `Outbox!NoDoubleDelivery`
fails: each has the message in its list, and calls its handler whatever the other did.
A message that is deleted while its handler runs is put back by `Update`.

## Proofs

TLAPS checks all proofs, for every value of the constants that satisfies the named
assumptions (in `Engine`: steps depend on steps, the client is not a pool goroutine;
in the others: bounds are natural numbers, the "none" value is not a member).

* **Engine.**  `Invariance`: `Spec => []Inv`; from it `TypeCorrect`,
  `DependenciesSafe`, `OutcomeSafe`, `RecordSafe`.  None of the last three is
  inductive: a goroutine decides on a copy of the run.  `Inv` adds that copies err in
  one direction only: a SUCCEEDED in a copy, in the store, or implied by where a
  goroutine is in `completeStep` belongs to a step whose handler has succeeded, and
  what is queued or about to be is unblocked.  `EngineLemmas` splits `Inv` into what a
  process knows and what the store holds, so that an action disturbs one of them.
* **Leader.**  `Invariance`, `Fencing`, `HolderNewest`, `StopReleases`,
  `TermsMonotone`, `LeaseKept`.  The strengthening is that a term is granted to one node only
  (`TermsApart`), that the record's term bounds all others (`TermsGranted`), and that
  whoever holds the lease knows it or is releasing it (`LeadershipKnown`).  `LeaseKept`
  needs none of it: only `Campaign`, a renewal and `Release` change who holds the lease.
* **Fencing.**  `Invariance`, `UniqueTokens`, `ZombiesRejected`.  The counter is ahead
  of every token in use, although `ExtendLease` may make an old token active again and
  epochs change.
* **Compactor.**  `Invariance`, `PositionsAgreeWithNumbers`, and `StoreImplementsMap`:
  `Spec => RefinesMap`.  The invariant orders the entries of a key by position and by
  number at once; with it the entry `Compact` keeps is the one `Get` finds.

Only model-checked: all liveness properties (`QueueDrains`, `RunFinishes`,
`StandbyLeads`, `WaitersServed`, `WaitersReturn`, `LaneServed`, `Settles`), because the
prover does not handle fairness and ENABLED; and `Wal`, `RWLock`, `Barrier`,
`TokenBucket`, `Lanes`, `Shaper` and `Outbox`, whose proofs are planned.

## Statements of the documentation the models refute

Five are kept as runs (`engine_lost_run`, `engine_cancel_final`, `storage_torn`,
`storage_long`, `locks_deadlock`).  The modules define further ones that fail; each
can be reproduced by naming it in a configuration.

| Definition | Source | What happens |
| --- | --- | --- |
| `Engine!StepExclusive` | `DESIGN.md:97` "Per-lease mutex for step execution" | a lease times out and two goroutines run the handler of one step |
| `Engine!CancelSparesResults` | `scheduler_test.go:168` | `Cancel` tests the state in one store call and writes in another |
| `Engine!CancelledIsFinal` | `DESIGN.md:75` | `Submit` writes QUEUED, and `completeStep` SUCCEEDED, over CANCELLED |
| `Leader!IsLeaderAccurate` | `leader.go:144` | an old leader answers true until its next renewal |
| `Fencing!LatestTokenIsLatest` | `token.go:93` | `ExtendLease` overwrites a token issued after its second check |
| `Fencing!EpochAdvances` | `token.go:84` | the first `AcquireToken` sets the epoch back to 1 |
| `Fencing!EpochResetsSequence` | `token.go:84` "resets sequence for a resource" | `NextEpoch` leaves the counter alone |
| `TokenBucket!NeverOverdrawn` with a negative amount | `tokenbucket.go:54` "yields the leased tokens back" | the end of the lease takes tokens that were never leased out of the bucket |
| `RWLock!WaitersServed` with an impatient caller | `README.md:124` | a caller that gives up keeps the lock it was just handed, or leaves readers behind it asleep |
| `Barrier!BreakFailsWaiters` with `Reset` | `barrier.go:95` | `Reset` clears the flag before the woken parties look at it |
| `MCStorage!CrashConsistent` with `Truncates` | `docs/ARCHITECTURE.md:89` | a crash inside `Truncate` loses synced entries |

## Inventory, and what comes next

`PROJECT.json` has an entry for each part with its files; in short:

| Part of the system | Packages | State |
| --- | --- | --- |
| engine | `scheduler`, `workflow`, `persistence/memstore`, `worker` | modelled for one run; secrets, blobs and audit records of the store are not |
| second store | `persistence/pgstore`, `migration` | planned |
| coordination | `leader`, `fencing` modelled; `cluster`, `idempotency`, `lease` | planned |
| blocking | `lock`, `barrier`, `tokenbucket` modelled; `keylock`, `semaphore`, `deadlock`, rate limiters, circuit breaker | planned |
| storage | `wal`, `compactor` modelled; caches, checkpoints, ledger, blob store, ring buffers | planned |
| flow | `lane`, `shaper`, `outbox` modelled; event buses, webhooks, saga, approval, dead letters, notifier, work stealing | planned |
| algorithms | `dag`, `graphmutator`, `analyzer`, `cron`, `deltadiff`, hashing, collections | planned |
| interfaces | `api`, `grpcapi`, `dashboard`, command line, configuration, metrics, tracing | out of scope |
| data | ciphers and secret providers, templates, text helpers | out of scope |

What is out of scope holds no state that another part decides on, or its content is
text.  Planned, in this order:

1. **More of flow**: `eventbus`, `webhook` and `webhookdelivery` (with `Redeliver`, which
   works on a copy between two critical sections), `saga`, `approval`.  Properties:
   compensation runs in reverse order and once, a decided approval stays decided, a
   delivered webhook leaves the dead letters.
2. **More units of the existing runs**: `lease`, `keylock`, `semaphore`, the plain
   `Lock`, `ratepool`, `quota`, `circuitbreaker`, `statemachine`, `deadlock` in
   `MCLocks`; `cluster` and `idempotency` in `MCCoordination`; `cache`, `memoize`, `ledger`,
   `checkpoint`, `blobstore`, `migration`, the ring buffers in `MCStorage`.
3. **Engine on Postgres**: `pgstore` as a second store, with `UpdateStepState` as a
   read and a write; the store's contract (`persistence.Store`) as an abstract
   specification that both refine or fail to refine.
4. **Algorithms**: topological sort and cycle search of `dag`, `graphmutator` and
   `analyzer`, `cron` next-time search, `deltadiff`, against reference definitions
   over bounded inputs.  These use recursion and stay with TLC.
5. **Proofs**: mutual exclusion of `RWLock` and conservation of tokens in
   `TokenBucket`, then the invariants of the lanes and of the outbox.
