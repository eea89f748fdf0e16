------------------------------- MODULE Lanes --------------------------------
(***************************************************************************)
(* The deficit round robin over priority lanes of internal/lane.           *)
(*                                                                         *)
(* Producers append tasks to a lane under the lane's mutex and count them  *)
(* afterwards under the scheduler's; consumers hold the scheduler's mutex  *)
(* for the whole of ScheduleNext, except while they wait on the condition  *)
(* variable.  A task is its cost.  `aged' holds the lanes whose head has   *)
(* waited for StarvationThreshold, which time brings about (Age).          *)
(*                                                                         *)
(* A consumer is a dispatch loop with one context: it calls ScheduleNext   *)
(* again and again, and once its context is done every call fails.         *)
(***************************************************************************)
EXTENDS Naturals, Sequences, FiniteSets, FiniteSetsExt

CONSTANTS
    Producer, Consumer,
    Impatient,    \* the consumers whose context may be done
    NumLanes, MaxCapacity,
    Quantum,      \* the base quantum of every lane
    MaxBoost,     \* the latency tuner multiplies it by 1..MaxBoost
    MaxCost,      \* bound on the cost of a task
    Aging         \* whether a task may wait for StarvationThreshold

VARIABLES
    tasks,          \* lane -> sequence of costs
    deficit,        \* lane -> credit
    quantum,        \* lane -> cfg.Quantum
    aged,           \* the lanes whose head is starving
    totalTasks, roundIndex, quantumAdded,
    smu,            \* the consumer that holds the scheduler's mutex
    visit,          \* the holder's position in the loop it is in
    pc,             \* where a consumer is in ScheduleNext
    counting,       \* the producers between lane.Enqueue and totalTasks++
    done,           \* the consumers whose context is done
    watchers        \* the consumers that left a goroutine watching their context

vars == <<tasks, deficit, quantum, aged, totalTasks, roundIndex, quantumAdded, smu, visit,
          pc, counting, done, watchers>>
laneVars == <<tasks, deficit, quantum, aged>>
roundVars == <<totalTasks, roundIndex, quantumAdded>>

Lane == 1..NumLanes
Free == "free"
At(state) == {c \in Consumer : pc[c] = state}
InCall == Consumer \ (At("idle") \cup At("asleep"))

TypeOK ==
    /\ \A l \in Lane : tasks[l] \in Seq(1..MaxCost) /\ Len(tasks[l]) <= MaxCapacity
    /\ deficit \in [Lane -> Nat] /\ quantum \in [Lane -> Nat \ {0}] /\ aged \subseteq Lane
    /\ totalTasks \in Nat /\ roundIndex \in Lane /\ quantumAdded \in BOOLEAN
    /\ smu \in Consumer \cup {Free} /\ visit \in 1..2 * NumLanes
    /\ pc \in [Consumer -> {"idle", "top", "asleep", "woken", "scan", "round"}]
    /\ counting \subseteq Producer /\ done \subseteq Impatient /\ watchers \subseteq Consumer

Init ==
    /\ tasks = [l \in Lane |-> <<>>] /\ deficit = [l \in Lane |-> 0]
    /\ quantum = [l \in Lane |-> Quantum] /\ aged = {}
    /\ totalTasks = 0 /\ roundIndex = 1 /\ quantumAdded = FALSE
    /\ smu = Free /\ visit = 1 /\ pc = [c \in Consumer |-> "idle"]
    /\ counting = {} /\ done = {} /\ watchers = {}

-----------------------------------------------------------------------------
\* Mutant: the error of a full lane is ignored and the task counted all the same.
LaneEnqueueUnchecked(p) ==
    /\ p \notin counting
    /\ \E l \in Lane, cost \in 0..MaxCost :
        tasks' = IF Len(tasks[l]) < MaxCapacity
                 THEN [tasks EXCEPT ![l] = Append(@, Max({cost, 1}))] ELSE tasks
    /\ counting' = counting \cup {p}
    /\ UNCHANGED <<deficit, quantum, aged, roundVars, smu, visit, pc, done, watchers>>

\* Lane.Enqueue, the first half of DRRScheduler.Enqueue; a full lane is an error
\* that changes nothing.
LaneEnqueue(p) ==
    /\ p \notin counting
    /\ \E l \in Lane, cost \in 0..MaxCost :
        /\ Len(tasks[l]) < MaxCapacity
        /\ tasks' = [tasks EXCEPT ![l] = Append(@, Max({cost, 1}))]
    /\ counting' = counting \cup {p}
    /\ UNCHANGED <<deficit, quantum, aged, roundVars, smu, visit, pc, done, watchers>>

\* Mutant: nobody is signalled.
SignalledNobody(asleep) == {pc}

\* cond.Signal: one of the sleeping consumers, if there is any.
Signalled(asleep) ==
    IF asleep = {} THEN {pc} ELSE {[pc EXCEPT ![c] = "woken"] : c \in asleep}

\* cond.Broadcast.
Broadcasted == [c \in DOMAIN pc |-> IF pc[c] = "asleep" THEN "woken" ELSE pc[c]]

\* The second half of DRRScheduler.Enqueue.
Count(p) ==
    /\ p \in counting /\ smu = Free
    /\ counting' = counting \ {p}
    /\ totalTasks' = totalTasks + 1
    /\ pc' \in Signalled(At("asleep"))
    /\ UNCHANGED <<laneVars, roundIndex, quantumAdded, smu, visit, done, watchers>>

-----------------------------------------------------------------------------
Goto(c, state) == pc' = [pc EXCEPT ![c] = state]

\* The deferred unlock and the return.
Return(c) == Goto(c, "idle") /\ smu' = Free /\ visit' = 1

\* ScheduleNext takes the scheduler's mutex.
Call(c) ==
    /\ pc[c] = "idle" /\ smu = Free
    /\ Goto(c, "top") /\ smu' = c
    /\ UNCHANGED <<laneVars, roundVars, visit, counting, done, watchers>>

\* The head of the loop: give up, wait, or look for a task.
Top(c) ==
    /\ pc[c] = "top"
    /\ \/ /\ c \in done
          /\ Return(c) /\ UNCHANGED watchers
       \/ /\ c \notin done /\ totalTasks = 0
          /\ Goto(c, "asleep") /\ smu' = Free /\ watchers' = watchers \cup {c}
          /\ UNCHANGED visit
       \/ /\ c \notin done /\ totalTasks > 0
          /\ Goto(c, "scan") /\ visit' = 1 /\ UNCHANGED <<smu, watchers>>
    /\ UNCHANGED <<laneVars, roundVars, counting, done>>

\* cond.Wait returns with the mutex, and the consumer looks again.
Awake(c) ==
    /\ pc[c] = "woken" /\ smu = Free
    /\ \/ c \in done /\ Return(c)
       \/ /\ c \notin done /\ smu' = c /\ visit' = 1
          /\ Goto(c, IF totalTasks = 0 THEN "top" ELSE "scan")
    /\ UNCHANGED <<laneVars, roundVars, counting, done, watchers>>

\* One lane of the anti-starvation scan.
Scan(c) ==
    /\ pc[c] = "scan"
    /\ \/ /\ tasks[visit] # <<>> /\ visit \in aged
          /\ tasks' = [tasks EXCEPT ![visit] = Tail(@)] /\ aged' = aged \ {visit}
          /\ totalTasks' = totalTasks - 1
          /\ Return(c)
       \/ /\ ~(tasks[visit] # <<>> /\ visit \in aged)
          /\ IF visit < NumLanes THEN visit' = visit + 1 /\ UNCHANGED pc
                                 ELSE visit' = 1 /\ Goto(c, "round")
          /\ UNCHANGED <<tasks, aged, totalTasks, smu>>
    /\ UNCHANGED <<deficit, quantum, roundIndex, quantumAdded, counting, done, watchers>>

\* Mutant: the turn stays with the lane.
AdvanceNot == quantumAdded' = FALSE /\ UNCHANGED roundIndex

Advance == roundIndex' = (roundIndex % NumLanes) + 1 /\ quantumAdded' = FALSE

\* A turn that serves nobody: the lane is empty, or its credit does not reach.
Attempt(c) ==
    /\ IF visit < 2 * NumLanes THEN visit' = visit + 1 /\ UNCHANGED pc
                               ELSE visit' = 1 /\ Goto(c, "top")
    /\ UNCHANGED <<tasks, aged, totalTasks, smu>>

\* Mutant: the quantum is added at every attempt.
CreditAlways(l) == deficit[l] + quantum[l]

Credit(l) == deficit[l] + (IF quantumAdded THEN 0 ELSE quantum[l])

\* One attempt of the deficit round robin, under the mutex of the lane in turn.
Round(c) ==
    /\ pc[c] = "round"
    /\ LET l == roundIndex
           rest == Tail(tasks[l])
           left == Credit(l) - Head(tasks[l])
       IN  \/ /\ tasks[l] = <<>>
              /\ deficit' = [deficit EXCEPT ![l] = 0]
              /\ Advance /\ Attempt(c)
           \/ /\ tasks[l] # <<>> /\ Credit(l) < Head(tasks[l])
              /\ deficit' = [deficit EXCEPT ![l] = Credit(l)]
              /\ Advance /\ Attempt(c)
           \/ /\ tasks[l] # <<>> /\ Credit(l) >= Head(tasks[l])
              /\ tasks' = [tasks EXCEPT ![l] = rest] /\ aged' = aged \ {l}
              /\ deficit' = [deficit EXCEPT ![l] = IF rest = <<>> THEN 0 ELSE left]
              /\ IF rest = <<>> \/ left < Head(rest)
                 THEN Advance
                 ELSE quantumAdded' = TRUE /\ UNCHANGED roundIndex
              /\ totalTasks' = totalTasks - 1
              /\ Return(c)
    /\ UNCHANGED <<quantum, counting, done, watchers>>

-----------------------------------------------------------------------------
\* The context of a consumer is done.
CtxDone(c) ==
    /\ c \in Impatient \ done
    /\ done' = done \cup {c}
    /\ UNCHANGED <<laneVars, roundVars, smu, visit, pc, counting, watchers>>

\* The goroutine that watches the context wakes everybody, or ends because the
\* wait is over; when both are ready the select takes either.
Watch(c) ==
    /\ c \in watchers
    /\ \/ c \in done /\ smu = Free /\ pc' = Broadcasted
       \/ pc[c] \notin {"asleep", "woken"} /\ UNCHANGED pc
    /\ watchers' = watchers \ {c}
    /\ UNCHANGED <<laneVars, roundVars, smu, visit, counting, done>>

\* The head of a lane has waited for StarvationThreshold.
Age(l) ==
    /\ Aging /\ tasks[l] # <<>>
    /\ aged' = aged \cup {l}
    /\ UNCHANGED <<tasks, deficit, quantum, roundVars, smu, visit, pc, counting, done, watchers>>

\* LatencyTuner.TuneQuantums at one lane, whatever latency it has measured.
TuneQuantum(l) ==
    /\ \E boost \in 1..MaxBoost : quantum' = [quantum EXCEPT ![l] = Quantum * boost]
    /\ UNCHANGED <<tasks, deficit, aged, roundVars, smu, visit, pc, counting, done, watchers>>

Schedule(c) == Call(c) \/ Top(c) \/ Awake(c) \/ Scan(c) \/ Round(c)

Next ==
    \/ \E p \in Producer : LaneEnqueue(p) \/ Count(p)
    \/ \E c \in Consumer : Schedule(c) \/ CtxDone(c) \/ Watch(c)
    \/ \E l \in Lane : Age(l) \/ TuneQuantum(l)

-----------------------------------------------------------------------------
\* totalTasks lags behind the lanes by the producers that have not counted their
\* task yet, and by nothing else: it is never above the number of queued tasks
\* (ScheduleNext would spin under the mutex) and never negative.
CountAgrees ==
    totalTasks + Cardinality(counting) = MapThenSumSet(LAMBDA l : Len(tasks[l]), Lane)

\* A lane carries credit from turn to turn only while its head is too expensive,
\* so outside its turn it has saved less than the cost of one task: no lane can
\* burst, whatever the starvation scan took from it and however quanta were tuned.
CreditsBounded ==
    \A l \in Lane :
        \/ deficit[l] < MaxCost
        \/ l = roundIndex /\ quantumAdded /\ deficit[l] < MaxCost + Quantum * MaxBoost

\* While somebody sleeps in ScheduleNext there is a consumer on its way for every
\* counted task; with contexts that end this is lost (see README).
WakeupsCoverTasks == At("asleep") # {} => totalTasks <= Cardinality(InCall)

Served(l) == tasks[l] # <<>> /\ tasks' = [tasks EXCEPT ![l] = Tail(@)]

\* No lane starves by round robin alone: a lane that always has tasks is served
\* again and again, whatever arrives in the others.
LaneServed == \A l \in Lane : []<>(tasks[l] = <<>>) \/ []<><<Served(l)>>_vars

=============================================================================
