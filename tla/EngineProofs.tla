---------------------------- MODULE EngineProofs ----------------------------
(***************************************************************************)
(* Inv is an inductive invariant of Engine, for every workflow, every size *)
(* of the pool and every batch size.  It implies that dependencies are     *)
(* respected and that recorded results are real.  EngineLemmas has the     *)
(* first actions (Submit, enqueueReadySteps, the scheduler loop).          *)
(***************************************************************************)
EXTENDS EngineLemmas

\* executeLease up to the result of the handler.
LEMMA ExecuteInv ==
    ASSUME Inv, NEW w \in Worker,
           GetRun(w) \/ MarkStepRunning(w) \/ ExecuteOk(w) \/ ExecuteError(w)
    PROVE  Inv'
<1> USE InvSplit, InvSplitNext
<1>0. /\ w \in Proc /\ done \in SUBSET Step /\ failures \in SUBSET Step
      /\ step[w] \in Step /\ snap[w] \in [Step -> StepState]
      /\ stepState \in [Step -> StepState]
      /\ \A t \in Step : snap[w][t] = "SUCCEEDED" => t \in done
      /\ \A t \in Step : stepState[t] = "SUCCEEDED" => t \in done
      /\ pc[w] \in Executing => DependsOn[step[w]] \subseteq done
  BY DEF Proc, ProcessInv, StoreInv, CopiesJustified, StepRecordJustified,
         ProgressJustified, Unblocked
<1>pc. /\ {"start", "exec", "complete", "fail"} \subseteq PC
       /\ {"get", "start", "exec", "complete"} \subseteq Executing
       /\ "fail" \notin Executing
  BY DEF PC, Executing
<1>1. CASE GetRun(w)
  <2>1. CASE runState = "NONE"
    <3>1. ProcessInv'
      BY <1>0, <1>1, <2>1, ProcessReturns DEF GetRun
    <3>2. StoreInv'
      BY <1>0, <1>1, <2>1, StoreHistory DEF GetRun
    <3>3. QED
      BY <3>1, <3>2
  <2>2. CASE runState # "NONE" /\ step[w] \in Registered
    <3>1. Become(w, "start", step[w], stepState, {}) /\ pc[w] = "get"
          /\ UNCHANGED <<store, batch, maintenance, done, failures>>
      BY <1>1, <2>2 DEF GetRun
    <3>2. ProcessInv'
      BY <1>0, <1>pc, <3>1, ProcessMoves
    <3>3. StoreInv'
      BY <1>0, <3>1, StoreHistory
    <3>4. QED
      BY <3>2, <3>3
  <2>3. CASE runState # "NONE" /\ step[w] \notin Registered
    <3>1. Become(w, "fail", step[w], stepState, {})
          /\ failures' = failures \cup {step[w]}
          /\ UNCHANGED <<store, batch, maintenance, done>>
      BY <1>1, <2>3 DEF GetRun
    <3>2. ProcessInv'
      BY <1>0, <1>pc, <3>1, ProcessMoves
    <3>3. StoreInv'
      BY <1>0, <3>1, StoreHistory
    <3>4. QED
      BY <3>2, <3>3
  <2>4. QED
    BY <2>1, <2>2, <2>3
<1>2. CASE MarkStepRunning(w)
  <2> DEFINE sn == [snap[w] EXCEPT ![step[w]] = "RUNNING"]
  <2>1. /\ sn \in [Step -> StepState]
        /\ \A t \in Step : sn[t] = "SUCCEEDED" => t \in done
    BY <1>0 DEF StepState
  <2>2. Become(w, "exec", step[w], sn, {}) /\ UNCHANGED history /\ pc[w] = "start"
    BY <1>2 DEF MarkStepRunning
  <2> HIDE DEF sn
  <2>3. ProcessInv'
    BY <1>0, <1>pc, <2>1, <2>2, ProcessMoves DEF history
  <2>4. StoreInv'
    BY <1>0, <1>2, StoreStepState DEF MarkStepRunning, StepState
  <2>5. QED
    BY <2>3, <2>4
<1>3. CASE ExecuteOk(w)
  <2>0. /\ Become(w, "complete", step[w], snap[w], {}) /\ pc[w] = "exec"
        /\ done' = done \cup {step[w]} /\ failures' = failures
    BY <1>3 DEF ExecuteOk
  <2>1. ProcessInv'
    BY <1>0, <1>pc, <2>0, ProcessMoves
  <2>2. StoreInv'
    BY <1>0, <1>3, StoreHistory DEF ExecuteOk
  <2>3. QED
    BY <2>1, <2>2
<1>4. CASE ExecuteError(w)
  <2>0. /\ Become(w, "fail", step[w], snap[w], {})
        /\ failures' = failures \cup {step[w]} /\ done' = done
    BY <1>4 DEF ExecuteError
  <2>1. ProcessInv'
    BY <1>0, <1>pc, <2>0, ProcessMoves
  <2>2. StoreInv'
    BY <1>0, <1>4, StoreHistory DEF ExecuteError
  <2>3. QED
    BY <2>1, <2>2
<1>5. QED
  BY <1>1, <1>2, <1>3, <1>4

\* completeStep up to the decision what comes next, and promoteRun.
LEMMA CompleteInv ==
    ASSUME Inv, NEW w \in Worker,
           CompleteStep(w) \/ MarkSucceeded(w) \/ PromoteRun(w)
    PROVE  Inv'
<1> USE InvSplit, InvSplitNext
<1>0. /\ w \in Proc /\ done \in SUBSET Step
      /\ step[w] \in Step /\ snap[w] \in [Step -> StepState]
      /\ \A t \in Step : snap[w][t] = "SUCCEEDED" => t \in done
      /\ pc[w] \in {"complete", "succeed"} => step[w] \in done
      /\ pc[w] = "promote" => done = Step
  BY DEF Proc, ProcessInv, StoreInv, CopiesJustified, ProgressJustified
<1>pc. /\ {"succeed", "promote"} \subseteq PC
       /\ "succeed" \notin Executing /\ "promote" \notin Executing
  BY DEF PC, Executing
<1>1. CASE CompleteStep(w)
  <2>1. UNCHANGED history /\ pc[w] = "complete"
    BY <1>1 DEF CompleteStep
  <2>2. CASE queue[step[w]] = "absent"
    <3>1. ProcessInv'
      BY <1>0, <1>1, <2>1, <2>2, ProcessReturns DEF CompleteStep, history
    <3>2. StoreInv'
      BY <1>1, <2>2, StoreQueue DEF CompleteStep, StoreInv, maintenance
    <3>3. QED
      BY <3>1, <3>2
  <2>3. CASE queue[step[w]] # "absent"
    <3>0. /\ Become(w, "succeed", step[w], snap[w], {})
          /\ UNCHANGED <<done, failures>>
      BY <1>1, <2>1, <2>3, ZenonT(30) DEF CompleteStep, history
    <3>1. ProcessInv'
      BY <1>0, <1>pc, <2>1, <3>0, ProcessMoves
    <3>2. StoreInv'
      <4>1. /\ queue' \in [Step -> {"absent", "visible", "hidden"}]
            /\ \A t \in Step : queue'[t] # "absent" => Unblocked(t)
        BY <1>1, <2>3, ZenonT(30) DEF CompleteStep, StoreInv
      <4>2. QED
        BY <1>1, <4>1, StoreQueue, ZenonT(30) DEF CompleteStep, StoreInv, maintenance
    <3>3. QED
      BY <3>1, <3>2
  <2>4. QED
    BY <2>2, <2>3
<1>2. CASE MarkSucceeded(w)
  <2> DEFINE steps == [snap[w] EXCEPT ![step[w]] = "SUCCEEDED"]
  <2>1. UNCHANGED history /\ pc[w] = "succeed"
    BY <1>2, ZenonT(30) DEF MarkSucceeded
  <2>2. /\ steps \in [Step -> StepState]
        /\ \A t \in Step : steps[t] = "SUCCEEDED" => t \in done
    BY <1>0, <2>1, ZenonT(30) DEF StepState
  <2>3. IF AllDone(steps)
        THEN Become(w, "promote", step[w], steps, {})
        ELSE EnqueueOrReturn(w, step[w], steps, ReadySteps(steps))
    BY <1>2 DEF MarkSucceeded
  <2> HIDE DEF steps
  <2>4. ProcessInv'
    <3>1. CASE AllDone(steps)
      <4>1. done = Step
        BY <1>0, <2>2, <3>1 DEF AllDone
      <4>2. QED
        <5>1. /\ Become(w, "promote", step[w], steps, {})
              /\ UNCHANGED <<done, failures>>
          BY <2>1, <2>3, <3>1 DEF history
        <5>2. QED
          BY <1>0, <1>pc, <2>2, <4>1, <5>1, ProcessMoves
    <3>2. CASE ~AllDone(steps)
      <4>1. /\ ReadySteps(steps) \in SUBSET Step
            /\ \A s \in ReadySteps(steps) : DependsOn[s] \subseteq done
        BY <2>2, ReadyStepsUnblocked
      <4>2. QED
        <5>1. /\ EnqueueOrReturn(w, step[w], steps, ReadySteps(steps))
              /\ UNCHANGED <<done, failures>>
          BY <2>1, <2>3, <3>2 DEF history
        <5>2. QED
          BY <1>0, <2>2, <4>1, <5>1, ProcessEnqueues
    <3>3. QED
      BY <3>1, <3>2
  <2>5. StoreInv'
    BY <1>0, <1>2, <2>1, StoreStepState DEF MarkSucceeded, StepState
  <2>6. QED
    BY <2>4, <2>5
<1>3. CASE PromoteRun(w)
  <2>1. ProcessInv'
    BY <1>0, <1>3, ProcessReturns DEF PromoteRun, history
  <2>2. StoreInv'
    BY <1>0, <1>3, StoreRunState, ZenonT(30)
       DEF PromoteRun, maintenance, history, RunState, StoreInv
  <2>3. QED
    BY <2>1, <2>2
<1>4. QED
  BY <1>1, <1>2, <1>3

\* failStep.
LEMMA FailInv ==
    ASSUME Inv, NEW w \in Worker,
           FailStepMark(w) \/ FailStepComplete(w) \/ FailStepFinishRun(w)
    PROVE  Inv'
<1> USE InvSplit, InvSplitNext
<1>0. /\ w \in Proc /\ done \in SUBSET Step
      /\ step[w] \in Step /\ snap[w] \in [Step -> StepState]
      /\ \A t \in Step : snap[w][t] = "SUCCEEDED" => t \in done
      /\ pc[w] \in {"fail", "failComplete", "failRun"} => step[w] \in failures
  BY DEF Proc, ProcessInv, StoreInv, CopiesJustified, ProgressJustified
<1>pc. /\ {"failComplete", "failRun"} \subseteq PC
       /\ "failComplete" \notin Executing /\ "failRun" \notin Executing
  BY DEF PC, Executing
<1>1. CASE FailStepMark(w)
  <2>0. /\ Become(w, "failComplete", step[w], snap[w], {})
        /\ UNCHANGED <<done, failures>> /\ pc[w] = "fail"
    BY <1>1, ZenonT(30) DEF FailStepMark, history
  <2>1. ProcessInv'
    BY <1>0, <1>pc, <2>0, ProcessMoves
  <2>2. StoreInv'
    BY <1>0, <1>1, StoreStepState DEF FailStepMark, StepState
  <2>3. QED
    BY <2>1, <2>2
<1>2. CASE FailStepComplete(w)
  <2>0. /\ Become(w, "failRun", step[w], snap[w], {})
        /\ UNCHANGED <<done, failures>> /\ pc[w] = "failComplete"
    BY <1>2 DEF FailStepComplete, history
  <2>1. ProcessInv'
    BY <1>0, <1>pc, <2>0, ProcessMoves
  <2>2. StoreInv'
    <3>1. /\ queue' \in [Step -> {"absent", "visible", "hidden"}]
          /\ \A t \in Step : queue'[t] # "absent" => Unblocked(t)
      BY <1>2, ZenonT(30) DEF FailStepComplete, StoreInv
    <3>2. QED
      BY <1>2, <3>1, StoreQueue, ZenonT(30) DEF FailStepComplete, StoreInv, maintenance
  <2>3. QED
    BY <2>1, <2>2
<1>3. CASE FailStepFinishRun(w)
  <2>1. ProcessInv'
    BY <1>0, <1>3, ProcessReturns DEF FailStepFinishRun, history
  <2>2. StoreInv'
    <3>1. failures # {}
      BY <1>0, <1>3 DEF FailStepFinishRun
    <3>2. QED
      BY <1>3, <3>1, StoreRunState
         DEF FailStepFinishRun, maintenance, history, RunState, StoreInv
  <2>3. QED
    BY <2>1, <2>2
<1>4. QED
  BY <1>1, <1>2, <1>3

\* Cancel, the lease reaper and the expiry worker.
LEMMA MaintenanceInv ==
    ASSUME Inv, Cancel \/ Reap \/ Expire PROVE Inv'
<1> USE InvSplit, InvSplitNext
<1>1. CASE CancelCheck
  <2>1. ProcessInv'
    BY <1>1, ProcessesIdle DEF CancelCheck
  <2>2. StoreInv'
    BY <1>1 DEF CancelCheck, StoreInv, store, history, StepRecordJustified,
                RunOutcomeJustified, Unblocked
  <2>3. QED
    BY <2>1, <2>2
<1>2. CASE CancelFinish
  <2>1. ProcessInv'
    BY <1>2, ProcessesIdle DEF CancelFinish
  <2>2. StoreInv'
    BY <1>2, StoreRunState, ZenonT(30) DEF CancelFinish, history, RunState
  <2>3. QED
    BY <2>1, <2>2
<1>3. CASE LeaseExpired
  <2>1. ProcessInv'
    BY <1>3, ProcessesIdle DEF LeaseExpired
  <2>2. StoreInv'
    BY <1>3, StoreQueue DEF LeaseExpired, StoreInv, store
  <2>3. QED
    BY <2>1, <2>2
<1>4. ASSUME NEW s \in Step, ReleaseStep(s) PROVE Inv'
  <2>1. ProcessInv'
    BY <1>4, ProcessesIdle DEF ReleaseStep
  <2>2. StoreInv'
    <3>1. /\ queue' \in [Step -> {"absent", "visible", "hidden"}]
          /\ \A t \in Step : queue'[t] # "absent" => Unblocked(t)
          /\ reaped' \in SUBSET Step
      BY <1>4 DEF ReleaseStep, StoreInv
    <3>2. QED
      BY <1>4, <3>1, StoreQueue DEF ReleaseStep, StoreInv
  <2>3. QED
    BY <2>1, <2>2
<1>5. CASE ListExpiredRuns
  <2>1. ProcessInv'
    BY <1>5, ProcessesIdle DEF ListExpiredRuns
  <2>2. StoreInv'
    BY <1>5 DEF ListExpiredRuns, StoreInv, store, history, StepRecordJustified,
                RunOutcomeJustified, Unblocked
  <2>3. QED
    BY <2>1, <2>2
<1>6. CASE DeleteRuns
  <2>1. ProcessInv'
    BY <1>6, ProcessesIdle DEF DeleteRuns
  <2>2. StoreInv'
    BY <1>6, ZenonT(30) DEF DeleteRuns, StoreInv, history, StepRecordJustified,
                RunOutcomeJustified, Unblocked
  <2>3. QED
    BY <2>1, <2>2
<1>7. QED
  BY <1>1, <1>2, <1>3, <1>4, <1>5, <1>6 DEF Cancel, Reap, Expire

\* Every step of the system preserves Inv.
LEMMA NextInv == Inv /\ [Next]_vars => Inv'
<1> SUFFICES ASSUME Inv, [Next]_vars PROVE Inv'
  OBVIOUS
<1>1. CASE Submit
  BY <1>1, SubmitInv, EnqueueInv DEF Submit, Proc
<1>2. CASE Drain \/ (\E s \in Step : LeaseTimeout(s))
  BY <1>2, LoopInv
<1>3. ASSUME NEW w \in Worker, SubmitContext(w) \/ ExecuteLease(w) PROVE Inv'
  <2>1. w \in Proc
    BY DEF Proc
  <2>2. QED
    BY <1>3, <2>1, LoopInv, ExecuteInv, CompleteInv, FailInv, EnqueueInv
       DEF ExecuteLease
<1>4. CASE Cancel \/ Reap \/ Expire
  BY <1>4, MaintenanceInv
<1>5. CASE UNCHANGED vars
  <2>1. ProcessInv'
    BY <1>5, InvSplit, ProcessesIdle DEF vars
  <2>2. StoreInv'
    BY <1>5, InvSplit, StoreHistory DEF vars, history, StoreInv
  <2>3. QED
    BY <2>1, <2>2, InvSplitNext
<1>6. QED
  BY <1>1, <1>2, <1>3, <1>4, <1>5 DEF Next, PoolNext

-----------------------------------------------------------------------------
\* Inv holds in every reachable state, for every workflow and every pool.
THEOREM Invariance == Spec => []Inv
<1>1. Init => Inv
  BY InitInv
<1>2. Inv /\ [Next]_vars => Inv'
  BY NextInv
<1>3. QED
  BY <1>1, <1>2, PTL DEF Spec

\* The engine, the store and the maintenance workers keep their types.
THEOREM TypeCorrect == Spec => []TypeOK
<1>1. Inv => TypeOK
  BY DEF Inv
<1>2. QED
  BY <1>1, Invariance, PTL

\* No handler runs before the steps it depends on have succeeded, although
\* enqueueReadySteps decides on a copy of the run that may be out of date.
THEOREM DependenciesSafe == Spec => []DependenciesRespected
<1>1. Inv => DependenciesRespected
  BY DEF Inv, ProgressJustified, DependenciesRespected, Unblocked, Proc
<1>2. QED
  BY <1>1, Invariance, PTL

\* promoteRun and failStep only write results that handlers have given.
THEOREM OutcomeSafe == Spec => []RunOutcomeJustified
<1>1. Inv => RunOutcomeJustified
  BY DEF Inv
<1>2. QED
  BY <1>1, Invariance, PTL

\* The stored record of a step never claims a result its handler did not give.
THEOREM RecordSafe == Spec => []StepRecordJustified
<1>1. Inv => StepRecordJustified
  BY DEF Inv
<1>2. QED
  BY <1>1, Invariance, PTL

=============================================================================
