---------------------------- MODULE EngineLemmas ----------------------------
(***************************************************************************)
(* Lemmas for EngineProofs.  An action of Engine changes two things: the   *)
(* state of the process that takes the step, and the store.  Inv splits    *)
(* into a half about each, and there is one lemma for every way in which   *)
(* an action touches one half.                                             *)
(***************************************************************************)
EXTENDS Engine, TLAPS

\* The conjuncts of Inv about the processes.
ProcessInv ==
    /\ pc \in [Proc -> PC]
    /\ step \in [Proc -> Step]
    /\ snap \in [Proc -> [Step -> StepState]]
    /\ ready \in [Proc -> SUBSET Step]
    /\ CopiesJustified
    /\ \A p \in Proc : \A s \in ready[p] : Unblocked(s)
    /\ ProgressJustified

\* The conjuncts of Inv about the store, the queue and the maintenance workers.
StoreInv ==
    /\ runState \in RunState \cup {"NONE"}
    /\ startedAt \in BOOLEAN /\ finishedAt \in BOOLEAN
    /\ stepState \in [Step -> StepState]
    /\ queue \in [Step -> {"absent", "visible", "hidden"}]
    /\ batch \in SUBSET Step
    /\ cancelling \in BOOLEAN /\ reaped \in SUBSET Step /\ expired \in BOOLEAN
    /\ done \in SUBSET Step /\ failures \in SUBSET Step
    /\ StepRecordJustified
    /\ \A s \in Step : queue[s] # "absent" => Unblocked(s)
    /\ \A s \in batch : Unblocked(s)
    /\ RunOutcomeJustified

\* Inv is the conjunction of its two halves.
LEMMA InvSplit == Inv <=> ProcessInv /\ StoreInv
BY DEF Inv, TypeOK, QueuedUnblocked, ProcessInv, StoreInv

\* The same of the next state.
LEMMA InvSplitNext == ProcessInv' /\ StoreInv' => Inv'
BY DEF Inv, TypeOK, QueuedUnblocked, ProcessInv, StoreInv

\* The placeholder step of an idle process is a step.
LEMMA AnyStepIsStep == AnyStep \in Step
BY StepAssumption DEF AnyStep

\* The copy of a process without a run makes no claim.
LEMMA AllPendingType ==
    /\ AllPending \in [Step -> StepState]
    /\ \A s \in Step : AllPending[s] # "SUCCEEDED"
BY DEF AllPending, StepState

\* ReadySteps, computed on any copy whose SUCCEEDED entries are true, returns
\* unblocked steps only: workflow.ReadySteps may be given a stale copy.
LEMMA ReadyStepsUnblocked ==
    ASSUME NEW sn \in [Step -> StepState], NEW D,
           \A s \in Step : sn[s] = "SUCCEEDED" => s \in D
    PROVE  /\ ReadySteps(sn) \in SUBSET Step
           /\ \A s \in ReadySteps(sn) : DependsOn[s] \subseteq D
BY DependsOnAssumption DEF ReadySteps

\* A process that moves to call l, with a copy, a list and a step that are
\* justified by the results given so far, keeps the half of Inv about processes.
LEMMA ProcessMoves ==
    ASSUME ProcessInv, done \subseteq done', failures \subseteq failures',
           done' \in SUBSET Step,
           NEW p \in Proc, NEW l \in PC, NEW s \in Step,
           NEW sn \in [Step -> StepState], NEW r \in SUBSET Step,
           \A t \in Step : sn[t] = "SUCCEEDED" => t \in done',
           \A t \in r : DependsOn[t] \subseteq done',
           l \in Executing => DependsOn[s] \subseteq done',
           l \in {"complete", "succeed"} => s \in done',
           l = "promote" => done' = Step,
           l \in {"fail", "failComplete", "failRun"} => s \in failures',
           Become(p, l, s, sn, r)
    PROVE  ProcessInv'
<1>1. /\ pc' \in [Proc -> PC] /\ step' \in [Proc -> Step]
      /\ snap' \in [Proc -> [Step -> StepState]]
      /\ ready' \in [Proc -> SUBSET Step]
  BY DEF ProcessInv, Become
<1>2. CopiesJustified'
  BY DEF ProcessInv, Become, CopiesJustified
<1>3. (\A q \in Proc : \A t \in ready[q] : Unblocked(t))'
  BY DEF ProcessInv, Become, Unblocked
<1>4. ProgressJustified'
  <2> SUFFICES ASSUME NEW q \in Proc
               PROVE  /\ pc'[q] \in Executing => DependsOn[step'[q]] \subseteq done'
                      /\ pc'[q] \in {"complete", "succeed"} => step'[q] \in done'
                      /\ pc'[q] = "promote" => done' = Step
                      /\ pc'[q] \in {"fail", "failComplete", "failRun"}
                            => step'[q] \in failures'
    BY DEF ProgressJustified, Unblocked, Executing
  <2>1. CASE q = p
    BY <2>1 DEF ProcessInv, Become
  <2>2. CASE q # p
    <3>1. pc'[q] = pc[q] /\ step'[q] = step[q]
      BY <2>2 DEF ProcessInv, Become
    <3>2. QED
      BY <3>1, ZenonT(30) DEF ProcessInv, ProgressJustified, Unblocked
  <2>3. QED
    BY <2>1, <2>2
<1>5. QED
  BY <1>1, <1>2, <1>3, <1>4 DEF ProcessInv

\* A process that returns holds nothing.
LEMMA ProcessReturns ==
    ASSUME ProcessInv, done' = done, failures' = failures, done \in SUBSET Step,
           NEW p \in Proc, Return(p)
    PROVE  ProcessInv'
<1> DEFINE l == IF p = Client THEN "done" ELSE "idle"
<1>1. l \in PC /\ l \notin Executing /\ l # "promote"
      /\ l \notin {"complete", "succeed"}
      /\ l \notin {"fail", "failComplete", "failRun"}
  BY DEF PC, Executing
<1>2. Become(p, l, AnyStep, AllPending, {})
  BY DEF Return
<1> HIDE DEF l
<1>3. QED
  BY <1>1, <1>2, AnyStepIsStep, AllPendingType, ProcessMoves

\* A process goes on enqueuing, or returns when nothing is left to enqueue.
LEMMA ProcessEnqueues ==
    ASSUME ProcessInv, done' = done, failures' = failures, done \in SUBSET Step,
           NEW p \in Proc, NEW s \in Step,
           NEW sn \in [Step -> StepState], NEW r \in SUBSET Step,
           \A t \in Step : sn[t] = "SUCCEEDED" => t \in done,
           \A t \in r : DependsOn[t] \subseteq done,
           EnqueueOrReturn(p, s, sn, r)
    PROVE  ProcessInv'
<1>1. CASE r = {}
  BY <1>1, ProcessReturns DEF EnqueueOrReturn
<1>2. CASE r # {}
  <2>1. Become(p, "enqueue", s, sn, r)
    BY <1>2 DEF EnqueueOrReturn
  <2>2. "enqueue" \in PC /\ "enqueue" \notin Executing
    BY DEF PC, Executing
  <2>3. QED
    BY <2>1, <2>2, ProcessMoves
<1>3. QED
  BY <1>1, <1>2

-----------------------------------------------------------------------------
\* Writing a result of the run that is justified keeps the half of Inv about
\* the store, whether the run still exists or not.
LEMMA StoreRunState ==
    ASSUME StoreInv, NEW to \in RunState, UpdateRunState(to),
           to = "SUCCEEDED" => done = Step,
           to = "FAILED" => failures # {},
           UNCHANGED <<stepState, queue, batch, done, failures, reaped, expired>>,
           cancelling' \in BOOLEAN
    PROVE  StoreInv'
<1>1. /\ runState' \in RunState \cup {"NONE"}
      /\ startedAt' \in BOOLEAN /\ finishedAt' \in BOOLEAN
  BY ZenonT(30) DEF StoreInv, UpdateRunState
<1>2. RunOutcomeJustified'
  BY DEF StoreInv, UpdateRunState, RunOutcomeJustified
<1>3. QED
  BY <1>1, <1>2 DEF StoreInv, StepRecordJustified, Unblocked

\* Likewise for the state of a step.
LEMMA StoreStepState ==
    ASSUME StoreInv, NEW s \in Step, NEW to \in StepState, UpdateStepState(s, to),
           to = "SUCCEEDED" => s \in done,
           to = "FAILED" => s \in failures,
           UNCHANGED <<runState, startedAt, finishedAt, queue, batch,
                       maintenance, history>>
    PROVE  StoreInv'
<1>1. stepState' \in [Step -> StepState]
  BY DEF StoreInv, UpdateStepState
<1>2. StepRecordJustified'
  BY DEF StoreInv, UpdateStepState, StepRecordJustified, history
<1>3. QED
  BY <1>1, <1>2 DEF StoreInv, maintenance, history, RunOutcomeJustified, Unblocked

\* The queue may lose items, and show or hide those it has.
LEMMA StoreQueue ==
    ASSUME StoreInv, queue' \in [Step -> {"absent", "visible", "hidden"}],
           batch' \in SUBSET Step,
           \A s \in Step : queue'[s] # "absent" => Unblocked(s),
           \A s \in batch' : Unblocked(s),
           reaped' \in SUBSET Step,
           UNCHANGED <<runState, startedAt, finishedAt, stepState, cancelling,
                       expired, history>>
    PROVE  StoreInv'
BY DEF StoreInv, StepRecordJustified, RunOutcomeJustified, Unblocked, history

\* The handlers' results only grow.
LEMMA StoreHistory ==
    ASSUME StoreInv, UNCHANGED <<store, batch, maintenance>>,
           done \subseteq done', failures \subseteq failures',
           done' \in SUBSET Step, failures' \in SUBSET Step
    PROVE  StoreInv'
BY ZenonT(30)
   DEF StoreInv, store, maintenance, StepRecordJustified, RunOutcomeJustified,
       Unblocked

\* A step of the client or of a maintenance worker that leaves the processes
\* and the results alone keeps the half of Inv about processes.
LEMMA ProcessesIdle ==
    ASSUME ProcessInv, UNCHANGED <<procs, history>>
    PROVE  ProcessInv'
BY DEF ProcessInv, procs, history, CopiesJustified, ProgressJustified, Unblocked

-----------------------------------------------------------------------------
\* The initial state satisfies Inv.
LEMMA InitInv == Init => Inv
<1> SUFFICES ASSUME Init PROVE Inv
  OBVIOUS
<1>1. ProcessInv
  BY AnyStepIsStep, AllPendingType
     DEF Init, ProcessInv, CopiesJustified, ProgressJustified, PC, Executing
<1>2. StoreInv
  BY AllPendingType, ZenonT(30)
     DEF Init, StoreInv, StepRecordJustified, RunOutcomeJustified, RunState,
         AllPending
<1>3. QED
  BY <1>1, <1>2, InvSplit

\* Submit's CreateRun and UpdateRunState(QUEUED).
LEMMA SubmitInv ==
    ASSUME Inv, SubmitCreateRun \/ SubmitQueued PROVE Inv'
<1> USE InvSplit, InvSplitNext
<1>0. Client \in Proc /\ done \in SUBSET Step
  BY DEF Proc, StoreInv
<1>1. CASE SubmitCreateRun
  <2>1. ProcessInv'
    <3>1. Become(Client, "queued", AnyStep, AllPending, {}) /\ UNCHANGED history
      BY <1>1 DEF SubmitCreateRun
    <3>2. "queued" \in PC /\ "queued" \notin Executing
      BY DEF PC, Executing
    <3>3. QED
      BY <1>0, <3>1, <3>2, AnyStepIsStep, AllPendingType, ProcessMoves DEF history
  <2>2. StoreInv'
    BY <1>1 DEF SubmitCreateRun, StoreInv, maintenance, history, RunState,
                StepRecordJustified, RunOutcomeJustified, Unblocked
  <2>3. QED
    BY <2>1, <2>2
<1>2. CASE SubmitQueued
  <2>1. ProcessInv'
    <3>1. CASE runState = "NONE"
      BY <1>0, <1>2, <3>1, ProcessReturns DEF SubmitQueued, history
    <3>2. CASE runState # "NONE"
      <4>1. EnqueueOrReturn(Client, AnyStep, AllPending, ReadySteps(AllPending))
            /\ UNCHANGED history
        BY <1>2, <3>2 DEF SubmitQueued
      <4>2. /\ ReadySteps(AllPending) \in SUBSET Step
            /\ \A s \in ReadySteps(AllPending) : DependsOn[s] \subseteq done
        BY AllPendingType, ReadyStepsUnblocked
      <4>3. QED
        BY <1>0, <4>1, <4>2, AnyStepIsStep, AllPendingType, ProcessEnqueues
           DEF history
    <3>3. QED
      BY <3>1, <3>2
  <2>2. StoreInv'
    BY <1>2, StoreRunState
       DEF SubmitQueued, maintenance, history, RunState, StoreInv
  <2>3. QED
    BY <2>1, <2>2
<1>3. QED
  BY <1>1, <1>2

\* enqueueReadySteps, whoever calls it.
LEMMA EnqueueInv ==
    ASSUME Inv, NEW p \in Proc, Enqueue(p) \/ MarkQueued(p) PROVE Inv'
<1> USE InvSplit, InvSplitNext
<1>0. /\ done \in SUBSET Step /\ step[p] \in Step
      /\ snap[p] \in [Step -> StepState] /\ ready[p] \in SUBSET Step
      /\ \A t \in Step : snap[p][t] = "SUCCEEDED" => t \in done
      /\ \A t \in ready[p] : DependsOn[t] \subseteq done
  BY DEF ProcessInv, StoreInv, CopiesJustified, Unblocked
<1>1. CASE Enqueue(p)
  <2>1. PICK s \in ready[p] : /\ queue' = [queue EXCEPT ![s] = "visible"]
                              /\ Become(p, "mark", s, snap[p], ready[p] \ {s})
    BY <1>1, ZenonT(30) DEF Enqueue, EnqueueItem
  <2>2. ProcessInv'
    <3>1. "mark" \in PC /\ "mark" \notin Executing
      BY DEF PC, Executing
    <3>2. UNCHANGED history /\ s \in Step
      BY <1>0, <1>1 DEF Enqueue
    <3>3. QED
      BY <1>0, <2>1, <3>1, <3>2, ProcessMoves DEF history
  <2>3. StoreInv'
    <3>1. \A t \in Step : queue'[t] # "absent" => Unblocked(t)
      BY <1>0, <2>1 DEF StoreInv, Unblocked
    <3>2. queue' \in [Step -> {"absent", "visible", "hidden"}]
      BY <2>1, ZenonT(30) DEF StoreInv
    <3>3. QED
      BY <1>1, <3>1, <3>2, StoreQueue DEF Enqueue, StoreInv, maintenance
  <2>4. QED
    BY <2>2, <2>3
<1>2. CASE MarkQueued(p)
  <2> DEFINE sn == [snap[p] EXCEPT ![step[p]] = "QUEUED"]
  <2>1. /\ sn \in [Step -> StepState]
        /\ \A t \in Step : sn[t] = "SUCCEEDED" => t \in done
    BY <1>0 DEF StepState
  <2>2. EnqueueOrReturn(p, step[p], sn, ready[p]) /\ UNCHANGED history
    BY <1>2 DEF MarkQueued
  <2> HIDE DEF sn
  <2>3. ProcessInv'
    BY <1>0, <2>1, <2>2, ProcessEnqueues DEF history
  <2>4. StoreInv'
    BY <1>0, <1>2, StoreStepState DEF MarkQueued, StepState
  <2>5. QED
    BY <2>3, <2>4
<1>3. QED
  BY <1>1, <1>2

\* The scheduler loop: drain, the visibility timeout, and the pool.
LEMMA LoopInv ==
    ASSUME Inv,
           \/ Drain
           \/ \E s \in Step : LeaseTimeout(s)
           \/ \E w \in Worker : SubmitContext(w)
    PROVE  Inv'
<1> USE InvSplit, InvSplitNext
<1>1. CASE Drain
  <2>1. /\ batch' \subseteq {s \in Step : queue[s] = "visible"}
        /\ queue' = [s \in Step |-> IF s \in batch' THEN "hidden" ELSE queue[s]]
    BY <1>1 DEF Drain, DequeueAny
  <2>2. StoreInv'
    <3>1. /\ queue' \in [Step -> {"absent", "visible", "hidden"}]
          /\ \A s \in Step : queue'[s] # "absent" => Unblocked(s)
          /\ \A s \in batch' : Unblocked(s)
      BY <2>1 DEF StoreInv
    <3>2. QED
      BY <1>1, <2>1, <3>1, StoreQueue DEF Drain, StoreInv, maintenance
  <2>3. ProcessInv'
    BY <1>1, ProcessesIdle DEF Drain
  <2>4. QED
    BY <2>2, <2>3
<1>2. ASSUME NEW s \in Step, LeaseTimeout(s) PROVE Inv'
  <2>1. StoreInv'
    <3>1. /\ queue' \in [Step -> {"absent", "visible", "hidden"}]
          /\ \A t \in Step : queue'[t] # "absent" => Unblocked(t)
      BY <1>2 DEF LeaseTimeout, StoreInv
    <3>2. QED
      BY <1>2, <3>1, StoreQueue DEF LeaseTimeout, StoreInv, maintenance
  <2>2. ProcessInv'
    BY <1>2, ProcessesIdle DEF LeaseTimeout
  <2>3. QED
    BY <2>1, <2>2
<1>3. ASSUME NEW w \in Worker, SubmitContext(w) PROVE Inv'
  <2>1. PICK s \in batch : /\ batch' = batch \ {s}
                           /\ Become(w, "get", s, AllPending, {})
    BY <1>3 DEF SubmitContext
  <2>2. s \in Step /\ DependsOn[s] \subseteq done /\ w \in Proc
    BY <2>1 DEF StoreInv, Unblocked, Proc
  <2>3. ProcessInv'
    <3>1. "get" \in PC
      BY DEF PC
    <3>2. QED
      <4>1. UNCHANGED <<done, failures>> /\ done \in SUBSET Step
        BY <1>3 DEF SubmitContext, history, StoreInv
      <4>2. QED
        BY <2>1, <2>2, <3>1, <4>1, AllPendingType, ProcessMoves
  <2>4. StoreInv'
    BY <1>3, <2>1, StoreQueue DEF SubmitContext, StoreInv, store, maintenance
  <2>5. QED
    BY <2>3, <2>4
<1>4. QED
  BY <1>1, <1>2, <1>3
=============================================================================
