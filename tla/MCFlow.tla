------------------------------- MODULE MCFlow -------------------------------
(***************************************************************************)
(* The packages of internal/ that pass work from producers to consumers:   *)
(* the lanes with their deficit round robin, the traffic shaper and the    *)
(* outbox.  They share no state, so a behaviour is about one of them, its  *)
(* unit, chosen at the start; the variables of the others keep their       *)
(* initial values.                                                         *)
(*                                                                         *)
(*   lanes     tasks that never wait long, consumers that wait for ever    *)
(*   leaving   the same with a context that may end                        *)
(*   aging     heads that starve and quanta that are tuned, one consumer   *)
(*   blocking  a shaper whose producers wait for space                     *)
(*   hurried   the same with contexts that may end                         *)
(*   dropping  a shaper that drops the oldest packet                       *)
(*   refusing  a shaper that refuses the newest packet                     *)
(*   outbox    one processor                                               *)
(*   rivals    two processors that share a store                           *)
(***************************************************************************)
EXTENDS Naturals

CONSTANTS
    Producer, Consumer, Impatient,                              \* Lanes and Shaper
    NumLanes, MaxCapacity, Quantum, MaxBoost, MaxCost,          \* Lanes
    Feeder, Taker,                                              \*   the callers of unit aging
    MaxPriority, Capacity,                                      \* Shaper
    Processor, Id, Unhandled, Limit, MaxRetries,                \* Outbox
    Solo, Shared                \*   the processor of unit outbox, the messages of unit rivals

VARIABLES
    unit,
    tasks, deficit, quantum, aged, totalTasks, roundIndex, quantumAdded, smu, visit, pc,
    counting, done, watchers,
    queue, closed, closing, shPc, shDone, shWatchers,
    stored, status, retryCount, due, batch, current, at, read, loop, calls, failures

Lanes == INSTANCE Lanes WITH Impatient <- {}, Aging <- FALSE, MaxBoost <- 1
Leaving == INSTANCE Lanes WITH Aging <- FALSE, MaxBoost <- 1
Aging == INSTANCE Lanes WITH Aging <- TRUE, Producer <- Feeder, Consumer <- Taker
Blocking == INSTANCE Shaper WITH pc <- shPc, done <- shDone, watchers <- shWatchers,
                                 DropPolicy <- "BlockUntilSpace", Impatient <- {}
Hurried == INSTANCE Shaper WITH pc <- shPc, done <- shDone, watchers <- shWatchers,
                                DropPolicy <- "BlockUntilSpace"
Dropping == INSTANCE Shaper WITH pc <- shPc, done <- shDone, watchers <- shWatchers,
                                 DropPolicy <- "DropOldest", Impatient <- {}
Refusing == INSTANCE Shaper WITH pc <- shPc, done <- shDone, watchers <- shWatchers,
                                 DropPolicy <- "DropNewest", Impatient <- {}
Everybody == INSTANCE Outbox
Sender == INSTANCE Outbox WITH Processor <- Solo
Rivals == INSTANCE Outbox WITH Id <- Shared, Unhandled <- {}

laneVars == <<tasks, deficit, quantum, aged, totalTasks, roundIndex, quantumAdded, smu, visit,
              pc, counting, done, watchers>>
shaperVars == <<queue, closed, closing, shPc, shDone, shWatchers>>
outboxVars ==
    <<stored, status, retryCount, due, batch, current, at, read, loop, calls, failures>>
vars == <<unit, laneVars, shaperVars, outboxVars>>

Init ==
    /\ unit \in {"lanes", "leaving", "aging", "blocking", "hurried", "dropping",
                "refusing", "outbox", "rivals"}
    /\ Lanes!Init /\ Blocking!Init /\ Everybody!Init

LaneStep(u, A) == unit = u /\ A /\ UNCHANGED <<unit, shaperVars, outboxVars>>
ShaperStep(u, A) == unit = u /\ A /\ UNCHANGED <<unit, laneVars, outboxVars>>
OutboxStep(u, A) == unit = u /\ A /\ UNCHANGED <<unit, laneVars, shaperVars>>

Next ==
    \/ LaneStep("lanes", Lanes!Next) \/ LaneStep("leaving", Leaving!Next)
    \/ LaneStep("aging", Aging!Next)
    \/ ShaperStep("blocking", Blocking!Next) \/ ShaperStep("hurried", Hurried!Next)
    \/ ShaperStep("dropping", Dropping!Next) \/ ShaperStep("refusing", Refusing!Next)
    \/ OutboxStep("outbox", Sender!Next) \/ OutboxStep("rivals", Rivals!Next)

\* Consumers keep asking for tasks and the runtime schedules them; a producer that
\* has filled a lane goes on to count its task.  The ticker of a processor that
\* runs keeps ticking, handlers return, and a backoff ends.
FairSpec ==
    /\ Init /\ [][Next]_vars
    /\ WF_vars(LaneStep("lanes", \E c \in Consumer : Lanes!Schedule(c)))
    /\ \A p \in Producer : WF_vars(LaneStep("lanes", Lanes!Count(p)))
    /\ \A p \in Solo : WF_vars(OutboxStep("outbox", Sender!Work(p)))
    /\ \A m \in Id : WF_vars(OutboxStep("outbox", Sender!Elapse(m)))

-----------------------------------------------------------------------------
\* Lanes: totalTasks lags behind the lanes by the tasks not counted yet.
CountAgrees == Lanes!CountAgrees

\* Lanes: outside its turn a lane has saved less than the cost of one task.
CreditsBounded == Aging!CreditsBounded

\* Lanes: where nobody gives up, a sleeping consumer is not needed.
WakeupsCoverTasks == unit = "lanes" => Lanes!WakeupsCoverTasks

\* Lanes: round robin alone serves every lane that has tasks.
LaneServed == unit = "lanes" => Lanes!LaneServed

\* Shaper: a producer sleeps only while the queue is full, whoever gives up.
SpaceWaitersBlocked == Blocking!SpaceWaitersBlocked

\* Shaper: where nobody gives up, a sleeping consumer is not needed.
PacketsHaveTakers == unit # "hurried" => Blocking!PacketsHaveTakers

\* Shaper: nobody sleeps in a closed shaper.
CloseReleases == Blocking!CloseReleases

\* Outbox: a message is given up only after its handlers failed MaxRetries times,
\* however many processors work on it.
GivenUpEarned == Everybody!GivenUpEarned

\* Outbox: RetryCount says how often one processor tried a message.
AttemptsCounted == unit = "outbox" => Sender!AttemptsCounted

\* Outbox: every message is sent or given up in the end.
Settles == unit = "outbox" => Sender!Settles
=============================================================================
