------------------------------- MODULE Engine -------------------------------
(***************************************************************************)
(* The workflow engine (internal/scheduler) on the in-memory store         *)
(* (internal/persistence/memstore), seen by one run.                       *)
(*                                                                         *)
(* Every store call is one atomic step, because memstore holds its mutex   *)
(* for the whole call; the engine holds no lock between two calls, so an   *)
(* action of this module is one store call and what the engine computes    *)
(* from its result.  Processes that interleave: the client that submits    *)
(* the run, the goroutines of the worker pool, a caller of Cancel, the     *)
(* lease reaper and the expiry worker.                                     *)
(*                                                                         *)
(* A pool goroutine works on the clone of the run that GetRun gave it      *)
(* (snap), never on the stored run, and takes its decisions from it.       *)
(*                                                                         *)
(* Runs share only the slots of the pool, so one run is modelled.  Times   *)
(* are abstracted to what the code compares them for: a queue item is      *)
(* visible to DequeueAny or hidden by a lease; a run has its StartedAt or  *)
(* FinishedAt stamp or not.  The event sink is nil in the server           *)
(* (internal/cli/server.go), so emit returns at once and is left out, as   *)
(* are outputs, error texts and attempt numbers: nothing reads them back.  *)
(***************************************************************************)
EXTENDS Naturals, FiniteSets

CONSTANTS
    Step,        \* the step IDs of the definition
    DependsOn,   \* StepDefinition.DependsOn, per step
    Worker,      \* the slots of the worker pool
    Client,      \* the goroutine that calls Submit
    MaxDequeue,  \* Engine.maxDequeue, the size of a batch of leases
    Registered,  \* the steps whose handler is in the registry
    Fallible     \* the steps whose handler may return an error

ASSUME StepAssumption == IsFiniteSet(Step) /\ Step # {}
ASSUME DependsOnAssumption == DependsOn \in [Step -> SUBSET Step]
ASSUME HandlerAssumption == Registered \subseteq Step /\ Fallible \subseteq Step
ASSUME ClientAssumption == Client \notin Worker
ASSUME MaxDequeueAssumption == MaxDequeue \in Nat \ {0}

Proc == Worker \cup {Client}

StepState == {"PENDING", "QUEUED", "RUNNING", "SUCCEEDED", "FAILED"}
RunState == {"PENDING", "QUEUED", "SUCCEEDED", "FAILED", "CANCELLED"}
IsTerminal(state) == state \in {"SUCCEEDED", "FAILED", "CANCELLED"}

\* Where a process is between two store calls.
PC == {"idle", "get", "start", "exec", "complete", "succeed", "promote",
       "enqueue", "mark", "fail", "failComplete", "failRun",
       "create", "queued", "done"}

VARIABLES
    runState,    \* Run.State, "NONE" when the store has no such run
    startedAt,   \* Run.StartedAt is set
    finishedAt,  \* Run.FinishedAt is set
    stepState,   \* the State of each StepRun (of no meaning without a run)
    queue,       \* memstore.queue: "absent", "visible", or "hidden" by a lease
    batch,       \* the leases drain has dequeued and not yet submitted
    pc,          \* per process: the store call it is about to make,
    step,        \*   the step it is executing or enqueuing,
    snap,        \*   the step states of its own copy of the run,
    ready,       \*   what is left of the list ReadySteps gave it
    cancelling,  \* a caller of Cancel is past the IsTerminal check
    reaped,      \* the items LeaseExpired returned to the reaper
    expired,     \* the expiry worker holds the run's ID for DeleteRuns
    done,        \* history: the steps whose handler returned success
    failures     \* history: the steps whose handler failed or was missing

store == <<runState, startedAt, finishedAt, stepState, queue>>
procs == <<pc, step, snap, ready>>
maintenance == <<cancelling, reaped, expired>>
history == <<done, failures>>
vars == <<store, batch, procs, maintenance, history>>

AllPending == [s \in Step |-> "PENDING"]
AnyStep == CHOOSE s \in Step : TRUE     \* the step of a process that has none

Init ==
    /\ runState = "NONE" /\ startedAt = FALSE /\ finishedAt = FALSE
    /\ stepState = AllPending
    /\ queue = [s \in Step |-> "absent"]
    /\ batch = {}
    /\ pc = [p \in Proc |-> IF p = Client THEN "create" ELSE "idle"]
    /\ step = [p \in Proc |-> AnyStep]
    /\ snap = [p \in Proc |-> AllPending]
    /\ ready = [p \in Proc |-> {}]
    /\ cancelling = FALSE /\ reaped = {} /\ expired = FALSE
    /\ done = {} /\ failures = {}

-----------------------------------------------------------------------------
(***************************************************************************)
(* The store's calls, as far as the engine uses them.                      *)
(***************************************************************************)

\* The first case of the switch wins: a run that was never started gets its
\* StartedAt stamp, and not FinishedAt, when it goes straight to a result.
UpdateRunState(to) ==
    IF runState = "NONE"
    THEN UNCHANGED <<runState, startedAt, finishedAt>>
    ELSE LET starts == ~startedAt /\ to \in {"SUCCEEDED", "FAILED"}
         IN  /\ runState' = to
             /\ startedAt' = (startedAt \/ starts)
             /\ finishedAt' = (finishedAt \/ (~starts /\ IsTerminal(to)))

UpdateStepState(s, to) ==
    stepState' = IF runState = "NONE" THEN stepState
                                      ELSE [stepState EXCEPT ![s] = to]

\* Enqueue overwrites the item with the same key, lease and all.
EnqueueItem(s) == queue' = [queue EXCEPT ![s] = "visible"]

\* The batches DequeueAny may lease: all visible items, or as many of them as
\* the limit allows, in the order of Go's map iteration, that is in any order.
DequeueAny ==
    LET visible == {s \in Step : queue[s] = "visible"}
    IN  {B \in SUBSET visible : \/ B = visible /\ Cardinality(B) <= MaxDequeue
                                \/ Cardinality(B) = MaxDequeue}

\* Mutants of ReadySteps: the dependencies are not looked at; one is enough.
ReadyStepsUnchecked(steps) == {s \in Step : steps[s] = "PENDING"}
ReadyStepsAny(steps) ==
    {s \in Step : /\ steps[s] = "PENDING"
                  /\ \/ DependsOn[s] = {}
                     \/ \E d \in DependsOn[s] : steps[d] = "SUCCEEDED"}

\* The steps of a run that are PENDING with every dependency SUCCEEDED.
ReadySteps(steps) ==
    {s \in Step : /\ steps[s] = "PENDING"
                  /\ \A d \in DependsOn[s] : steps[d] = "SUCCEEDED"}

\* Mutant of AllDone: the loop stops at the first step that is done.
AllDoneFirst(steps) == \E s \in Step : steps[s] = "SUCCEEDED"

AllDone(steps) == \A s \in Step : steps[s] = "SUCCEEDED"

(***************************************************************************)
(* Process p is about to make call l for step s, with sn as its copy of    *)
(* the step states and r left to enqueue.                                  *)
(***************************************************************************)
Become(p, l, s, sn, r) ==
    /\ pc' = [pc EXCEPT ![p] = l]
    /\ step' = [step EXCEPT ![p] = s]
    /\ snap' = [snap EXCEPT ![p] = sn]
    /\ ready' = [ready EXCEPT ![p] = r]

\* The call returned to its caller: the pool slot is free, or Submit is over.
Return(p) ==
    Become(p, IF p = Client THEN "done" ELSE "idle", AnyStep, AllPending, {})

EnqueueOrReturn(p, s, sn, r) ==
    IF r = {} THEN Return(p) ELSE Become(p, "enqueue", s, sn, r)

-----------------------------------------------------------------------------
(***************************************************************************)
(* Submit: CreateRun, UpdateRunState(QUEUED), then enqueueReadySteps.      *)
(***************************************************************************)

SubmitCreateRun ==
    /\ pc[Client] = "create"
    /\ runState' = "PENDING"
    /\ Become(Client, "queued", AnyStep, AllPending, {})
    /\ UNCHANGED <<startedAt, finishedAt, stepState, queue, batch, maintenance,
                   history>>

SubmitQueued ==
    /\ pc[Client] = "queued"
    /\ UpdateRunState("QUEUED")
    /\ IF runState = "NONE"
       THEN Return(Client)
       ELSE EnqueueOrReturn(Client, AnyStep, AllPending, ReadySteps(AllPending))
    /\ UNCHANGED <<stepState, queue, batch, maintenance, history>>

(***************************************************************************)
(* enqueueReadySteps, of Submit and of completeStep: Enqueue, then the     *)
(* step is marked QUEUED in the caller's copy and in the store.            *)
(***************************************************************************)

Enqueue(p) ==
    /\ pc[p] = "enqueue"
    /\ \E s \in ready[p] :
        /\ EnqueueItem(s)
        /\ Become(p, "mark", s, snap[p], ready[p] \ {s})
    /\ UNCHANGED <<runState, startedAt, finishedAt, stepState, batch,
                   maintenance, history>>

MarkQueued(p) ==
    /\ pc[p] = "mark"
    /\ UpdateStepState(step[p], "QUEUED")
    /\ EnqueueOrReturn(p, step[p], [snap[p] EXCEPT ![step[p]] = "QUEUED"],
                       ready[p])
    /\ UNCHANGED <<runState, startedAt, finishedAt, queue, batch, maintenance,
                   history>>

-----------------------------------------------------------------------------
(***************************************************************************)
(* The scheduler loop.  drain returns, and can be called again, when every *)
(* lease of its batch has got a slot of the pool.                          *)
(***************************************************************************)

Drain ==
    /\ batch = {}
    /\ batch' \in DequeueAny \ {{}}
    /\ queue' = [s \in Step |-> IF s \in batch' THEN "hidden" ELSE queue[s]]
    /\ UNCHANGED <<runState, startedAt, finishedAt, stepState, procs,
                   maintenance, history>>

\* The visibility timeout of a lease runs out, whatever its holder is doing.
LeaseTimeout(s) ==
    /\ queue[s] = "hidden"
    /\ queue' = [queue EXCEPT ![s] = "visible"]
    /\ UNCHANGED <<runState, startedAt, finishedAt, stepState, batch, procs,
                   maintenance, history>>

SubmitContext(w) ==
    /\ pc[w] = "idle"
    /\ \E s \in batch : /\ batch' = batch \ {s}
                         /\ Become(w, "get", s, AllPending, {})
    /\ UNCHANGED <<store, maintenance, history>>

(***************************************************************************)
(* executeLease.  Neither the state of the run nor that of the step is     *)
(* looked at before the handler is called.                                 *)
(***************************************************************************)

\* GetRun, and the look-up of the handler in the registry.  (The definition of a
\* run is there: nothing calls DeleteDefinition.)
GetRun(w) ==
    /\ pc[w] = "get"
    /\ IF runState = "NONE"
       THEN Return(w) /\ UNCHANGED failures
       ELSE IF step[w] \in Registered
       THEN Become(w, "start", step[w], stepState, {}) /\ UNCHANGED failures
       ELSE /\ Become(w, "fail", step[w], stepState, {})
            /\ failures' = failures \cup {step[w]}
    /\ UNCHANGED <<store, batch, maintenance, done>>

MarkStepRunning(w) ==
    /\ pc[w] = "start"
    /\ UpdateStepState(step[w], "RUNNING")
    /\ Become(w, "exec", step[w], [snap[w] EXCEPT ![step[w]] = "RUNNING"], {})
    /\ UNCHANGED <<runState, startedAt, finishedAt, queue, batch, maintenance,
                   history>>

ExecuteOk(w) ==
    /\ pc[w] = "exec"
    /\ done' = done \cup {step[w]}
    /\ Become(w, "complete", step[w], snap[w], {})
    /\ UNCHANGED <<store, batch, maintenance, failures>>

\* Mutant of ExecuteError: the error in the result is overlooked.
ExecuteErrorOverlooked(w) ==
    /\ pc[w] = "exec"
    /\ step[w] \in Fallible
    /\ failures' = failures \cup {step[w]}
    /\ Become(w, "complete", step[w], snap[w], {})
    /\ UNCHANGED <<store, batch, maintenance, done>>

ExecuteError(w) ==
    /\ pc[w] = "exec"
    /\ step[w] \in Fallible
    /\ failures' = failures \cup {step[w]}
    /\ Become(w, "fail", step[w], snap[w], {})
    /\ UNCHANGED <<store, batch, maintenance, done>>

(***************************************************************************)
(* completeStep.  CompleteStep does not look at the lease token: whoever   *)
(* finds the item deletes it, and who does not find it gives up.           *)
(***************************************************************************)

CompleteStep(w) ==
    /\ pc[w] = "complete"
    /\ IF queue[step[w]] = "absent"
       THEN Return(w) /\ UNCHANGED queue
       ELSE /\ queue' = [queue EXCEPT ![step[w]] = "absent"]
            /\ Become(w, "succeed", step[w], snap[w], {})
    /\ UNCHANGED <<runState, startedAt, finishedAt, stepState, batch,
                   maintenance, history>>

\* Mutants of MarkSucceeded: nothing is enqueued; the run is not promoted.
MarkSucceededNoEnqueue(w) ==
    /\ pc[w] = "succeed"
    /\ UpdateStepState(step[w], "SUCCEEDED")
    /\ LET steps == [snap[w] EXCEPT ![step[w]] = "SUCCEEDED"]
       IN  IF AllDone(steps) THEN Become(w, "promote", step[w], steps, {})
                             ELSE Return(w)
    /\ UNCHANGED <<runState, startedAt, finishedAt, queue, batch, maintenance,
                   history>>

MarkSucceededNoPromote(w) ==
    /\ pc[w] = "succeed"
    /\ UpdateStepState(step[w], "SUCCEEDED")
    /\ LET steps == [snap[w] EXCEPT ![step[w]] = "SUCCEEDED"]
       IN  EnqueueOrReturn(w, step[w], steps, ReadySteps(steps))
    /\ UNCHANGED <<runState, startedAt, finishedAt, queue, batch, maintenance,
                   history>>

\* The step is SUCCEEDED in the copy and in the store; what comes next is
\* decided on the copy.
MarkSucceeded(w) ==
    /\ pc[w] = "succeed"
    /\ UpdateStepState(step[w], "SUCCEEDED")
    /\ LET steps == [snap[w] EXCEPT ![step[w]] = "SUCCEEDED"]
       IN  IF AllDone(steps)
           THEN Become(w, "promote", step[w], steps, {})
           ELSE EnqueueOrReturn(w, step[w], steps, ReadySteps(steps))
    /\ UNCHANGED <<runState, startedAt, finishedAt, queue, batch, maintenance,
                   history>>

PromoteRun(w) ==
    /\ pc[w] = "promote"
    /\ UpdateRunState("SUCCEEDED")
    /\ Return(w)
    /\ UNCHANGED <<stepState, queue, batch, maintenance, history>>

(***************************************************************************)
(* failStep: the errors of the first two calls are ignored.                *)
(***************************************************************************)

FailStepMark(w) ==
    /\ pc[w] = "fail"
    /\ UpdateStepState(step[w], "FAILED")
    /\ Become(w, "failComplete", step[w], snap[w], {})
    /\ UNCHANGED <<runState, startedAt, finishedAt, queue, batch, maintenance,
                   history>>

\* Mutant of FailStepComplete: the item of a failed step stays in the queue.
FailStepNoComplete(w) ==
    /\ pc[w] = "failComplete"
    /\ Become(w, "failRun", step[w], snap[w], {})
    /\ UNCHANGED <<store, batch, maintenance, history>>

FailStepComplete(w) ==
    /\ pc[w] = "failComplete"
    /\ queue' = [queue EXCEPT ![step[w]] = "absent"]
    /\ Become(w, "failRun", step[w], snap[w], {})
    /\ UNCHANGED <<runState, startedAt, finishedAt, stepState, batch,
                   maintenance, history>>

FailStepFinishRun(w) ==
    /\ pc[w] = "failRun"
    /\ UpdateRunState("FAILED")
    /\ Return(w)
    /\ UNCHANGED <<stepState, queue, batch, maintenance, history>>

-----------------------------------------------------------------------------
(***************************************************************************)
(* Cancel reads the state in one call and writes it in another.            *)
(***************************************************************************)

CancelCheck ==
    /\ ~cancelling
    /\ runState # "NONE" /\ ~IsTerminal(runState)
    /\ cancelling' = TRUE
    /\ UNCHANGED <<store, batch, procs, reaped, expired, history>>

CancelFinish ==
    /\ cancelling
    /\ UpdateRunState("CANCELLED")
    /\ cancelling' = FALSE
    /\ UNCHANGED <<stepState, queue, batch, procs, reaped, expired, history>>

(***************************************************************************)
(* The lease reaper: LeaseExpired returns items that have been visible for *)
(* longer than the lease timeout, then each one is released, leased again  *)
(* in between or not.                                                      *)
(***************************************************************************)

LeaseExpired ==
    /\ reaped = {}
    /\ reaped' \in (SUBSET {s \in Step : queue[s] = "visible"}) \ {{}}
    /\ UNCHANGED <<store, batch, procs, cancelling, expired, history>>

ReleaseStep(s) ==
    /\ s \in reaped
    /\ reaped' = reaped \ {s}
    /\ queue' = [queue EXCEPT ![s] = IF @ = "absent" THEN @ ELSE "visible"]
    /\ UNCHANGED <<runState, startedAt, finishedAt, stepState, batch, procs,
                   cancelling, expired, history>>

(***************************************************************************)
(* The expiry worker (and CompactRuns): the runs that finished before the  *)
(* cutoff are listed in one call and deleted, with their items, in another.*)
(***************************************************************************)

ListExpiredRuns ==
    /\ ~expired
    /\ IsTerminal(runState) /\ finishedAt
    /\ expired' = TRUE
    /\ UNCHANGED <<store, batch, procs, cancelling, reaped, history>>

DeleteRuns ==
    /\ expired
    /\ expired' = FALSE
    /\ runState' = "NONE" /\ startedAt' = FALSE /\ finishedAt' = FALSE
    /\ queue' = [s \in Step |-> "absent"]
    /\ UNCHANGED <<stepState, batch, procs, cancelling, reaped, history>>

-----------------------------------------------------------------------------
Submit == SubmitCreateRun \/ SubmitQueued \/ Enqueue(Client) \/ MarkQueued(Client)

ExecuteLease(w) ==
    \/ GetRun(w) \/ MarkStepRunning(w) \/ ExecuteOk(w) \/ ExecuteError(w)
    \/ CompleteStep(w) \/ MarkSucceeded(w) \/ PromoteRun(w)
    \/ Enqueue(w) \/ MarkQueued(w)
    \/ FailStepMark(w) \/ FailStepComplete(w) \/ FailStepFinishRun(w)

Cancel == CancelCheck \/ CancelFinish

Reap == LeaseExpired \/ \E s \in Step : ReleaseStep(s)

Expire == ListExpiredRuns \/ DeleteRuns

\* The engine and its pool, without Cancel and the maintenance workers.
PoolNext ==
    \/ Submit
    \/ Drain
    \/ \E s \in Step : LeaseTimeout(s)
    \/ \E w \in Worker : SubmitContext(w) \/ ExecuteLease(w)

Next == PoolNext \/ Cancel \/ Reap \/ Expire

Spec == Init /\ [][Next]_vars

PoolSpec == Init /\ [][PoolNext]_vars
CancelSpec == Init /\ [][PoolNext \/ Cancel]_vars

(***************************************************************************)
(* The ticker of Scheduler.Run calls drain again and again, a goroutine of *)
(* the pool that has a lease runs to the end of processLease (handlers     *)
(* return), Submit runs to its end, and a hidden item becomes visible when *)
(* its 30 seconds are over.                                                *)
(***************************************************************************)
Fairness ==
    /\ WF_vars(Submit)
    /\ WF_vars(Drain)
    /\ \A s \in Step : WF_vars(LeaseTimeout(s))
    /\ \A w \in Worker : WF_vars(SubmitContext(w) \/ ExecuteLease(w))

FairPoolSpec == PoolSpec /\ Fairness

(***************************************************************************)
(* ProcessLeases instead of the scheduler loop, called as the tests of the *)
(* package call it: by one goroutine, which has seen Submit return.  It    *)
(* processes the leases of a batch one after the other, and dequeues again *)
(* only when the last one is done.                                         *)
(***************************************************************************)
ProcessLeases ==
    /\ pc[Client] = "done"
    /\ \A w \in Worker : pc[w] = "idle"
    /\ Drain

SequentialNext ==
    \/ Submit
    \/ ProcessLeases
    \/ \E s \in Step : LeaseTimeout(s)
    \/ \E w \in Worker : SubmitContext(w) \/ ExecuteLease(w)

SequentialSpec ==
    /\ Init /\ [][SequentialNext]_vars
    /\ WF_vars(Submit)
    /\ WF_vars(ProcessLeases)
    /\ \A w \in Worker : WF_vars(SubmitContext(w) \/ ExecuteLease(w))

-----------------------------------------------------------------------------
\* Every variable holds a value of its type.
TypeOK ==
    /\ runState \in RunState \cup {"NONE"}
    /\ startedAt \in BOOLEAN /\ finishedAt \in BOOLEAN
    /\ stepState \in [Step -> StepState]
    /\ queue \in [Step -> {"absent", "visible", "hidden"}]
    /\ batch \in SUBSET Step
    /\ pc \in [Proc -> PC]
    /\ step \in [Proc -> Step]
    /\ snap \in [Proc -> [Step -> StepState]]
    /\ ready \in [Proc -> SUBSET Step]
    /\ cancelling \in BOOLEAN /\ reaped \in SUBSET Step /\ expired \in BOOLEAN
    /\ done \in SUBSET Step /\ failures \in SUBSET Step

\* The workers that hold a lease and have not given it back.
Executing == {"get", "start", "exec", "complete"}

\* No handler runs before every step it depends on has run successfully:
\* executeLease trusts that only ready steps are queued, and ReadySteps is
\* computed on copies of the run that may be out of date.
DependenciesRespected ==
    \A w \in Worker : pc[w] \in Executing => DependsOn[step[w]] \subseteq done

\* A run is SUCCEEDED only when every handler has succeeded at least once, and
\* FAILED only when some step failed, although promoteRun and failStep decide
\* on a copy of the run and write without looking at the stored state.
RunOutcomeJustified ==
    /\ runState = "SUCCEEDED" => done = Step
    /\ runState = "FAILED" => failures # {}

\* The record of a step never claims a result its handler did not give,
\* although every UpdateStepState writes back a whole, possibly stale, record.
StepRecordJustified ==
    \A s \in Step : /\ stepState[s] = "SUCCEEDED" => s \in done
                    /\ stepState[s] = "FAILED" => s \in failures

\* Every step that s depends on has run successfully.
Unblocked(s) == DependsOn[s] \subseteq done

(***************************************************************************)
(* The inductive invariant.  The copies of the run are stale, but only in  *)
(* one direction: a SUCCEEDED in a copy, in the store, or implied by where *)
(* a goroutine is in completeStep was true once, and done never shrinks.   *)
(***************************************************************************)
CopiesJustified ==
    \A p \in Proc : \A s \in Step : snap[p][s] = "SUCCEEDED" => s \in done

QueuedUnblocked ==
    /\ \A s \in Step : queue[s] # "absent" => Unblocked(s)
    /\ \A s \in batch : Unblocked(s)
    /\ \A p \in Proc : \A s \in ready[p] : Unblocked(s)

ProgressJustified ==
    \A p \in Proc :
        /\ pc[p] \in Executing => Unblocked(step[p])
        /\ pc[p] \in {"complete", "succeed"} => step[p] \in done
        /\ pc[p] = "promote" => done = Step
        /\ pc[p] \in {"fail", "failComplete", "failRun"} => step[p] \in failures

\* What a goroutine holds, what is queued and what is stored rest on results
\* that handlers have really given, at every step of the engine.
Inv ==
    /\ TypeOK
    /\ StepRecordJustified
    /\ CopiesJustified
    /\ QueuedUnblocked
    /\ ProgressJustified
    /\ RunOutcomeJustified

\* Every queued item is consumed in the end: a lease that expires under a
\* working goroutine, and the double delivery that follows, never keeps an item
\* in the queue for ever, because CompleteStep takes it out without looking at
\* the lease token.
QueueDrains == \A s \in Step : (queue[s] # "absent") ~> (queue[s] = "absent")

\* A run that ProcessLeases works on reaches a result: completeStep enqueues
\* what has become ready, and promotes the run after the last step.
RunFinishes == (runState = "QUEUED") ~> IsTerminal(runState)

\* Nothing is left to do: no lease, no queue item, no call in progress.
Quiet ==
    /\ batch = {} /\ pc[Client] = "done"
    /\ \A w \in Worker : pc[w] = "idle"
    /\ \A s \in Step : queue[s] = "absent"

\* When nothing is left to do the run has a result: no completion is lost
\* between the copies of the run that completeStep decides on.
NoLostRun == Quiet => IsTerminal(runState)

\* A lease gives its holder the step for itself: no two goroutines run the
\* handler of the same step at the same time.
StepExclusive ==
    \A v, w \in Worker :
        v # w /\ pc[v] = "exec" /\ pc[w] = "exec" => step[v] # step[w]

\* The error of a step that comes after Cancel does not turn the cancelled run
\* into a failed one.
CancelledNeverFails == [][runState = "CANCELLED" => runState' # "FAILED"]_vars

\* Nothing leads out of CANCELLED.
CancelledIsFinal ==
    [][runState = "CANCELLED" => runState' \in {"CANCELLED", "NONE"}]_vars

\* Cancel does not touch a run that already has a result.
CancelSparesResults ==
    [][(runState \in {"SUCCEEDED", "FAILED"}) => runState' # "CANCELLED"]_vars
=============================================================================
