------------------------------- MODULE Shaper -------------------------------
(***************************************************************************)
(* The traffic shaper of internal/shaper: a bounded priority queue whose   *)
(* producers and consumers share one mutex and one condition variable.     *)
(*                                                                         *)
(* Everything between taking the mutex and releasing or waiting is one     *)
(* step.  The queue is kept in order of seq, a packet is its priority.     *)
(* Each caller has one context.  The counters of Stats are left out.       *)
(***************************************************************************)
EXTENDS Naturals, Sequences, FiniteSets, SequencesExt

CONSTANTS
    Producer, Consumer,
    Impatient,      \* the callers whose context may be done
    MaxPriority,    \* priorities are 0..MaxPriority
    Capacity,
    DropPolicy      \* "DropNewest", "DropOldest" or "BlockUntilSpace"

VARIABLES
    queue,          \* priorities of the queued packets, oldest first
    closed,
    closing,        \* Close has set closed and not broadcast yet
    pc,             \* caller -> where it is in Enqueue or Next
    done,           \* the callers whose context is done
    watchers        \* the producers that left a goroutine watching their context

vars == <<queue, closed, closing, pc, done, watchers>>

Caller == Producer \cup Consumer
Priority == 0..MaxPriority
Asleep(S) == {t \in S : pc[t] = "asleep"}
Woken(S) == {t \in S : pc[t] = "woken"}

TypeOK ==
    /\ queue \in Seq(Priority) /\ Len(queue) <= Capacity
    /\ closed \in BOOLEAN /\ closing \in BOOLEAN
    /\ pc \in [Caller -> {"idle", "entering", "asleep", "woken", "pacing"}]
    /\ done \subseteq Impatient /\ watchers \subseteq Producer

Init ==
    /\ queue = <<>> /\ closed = FALSE /\ closing = FALSE
    /\ pc = [t \in Caller |-> "idle"] /\ done = {} /\ watchers = {}

-----------------------------------------------------------------------------
\* The packet Next takes: the oldest one of the highest priority.
First(q) ==
    CHOOSE i \in DOMAIN q :
        \A j \in DOMAIN q : q[j] < q[i] \/ (q[j] = q[i] /\ i <= j)

\* The packet DropOldest gives up: the oldest one of the lowest priority.
Victim(q) ==
    CHOOSE i \in DOMAIN q :
        \A j \in DOMAIN q : q[j] > q[i] \/ (q[j] = q[i] /\ i <= j)

\* Mutant: the broadcast of Next wakes one caller only.
BroadcastOne(next) ==
    IF Asleep(Caller) = {} THEN {next}
    ELSE {[next EXCEPT ![t] = "woken"] : t \in Asleep(Caller)}

\* cond.Broadcast, and what the caller itself does next.
Broadcast(next) == {[t \in Caller |-> IF pc[t] = "asleep" THEN "woken" ELSE next[t]]}

\* Mutant: Enqueue signals only when it finds the queue empty.
SignalIfEmpty(next) ==
    IF Asleep(Caller) = {} \/ queue # <<>> THEN {next}
    ELSE {[next EXCEPT ![t] = "woken"] : t \in Asleep(Caller)}

\* cond.Signal: one of the sleeping callers, whichever it is.
Signal(next) ==
    IF Asleep(Caller) = {} THEN {next}
    ELSE {[next EXCEPT ![t] = "woken"] : t \in Asleep(Caller)}

At(t, state) == [pc EXCEPT ![t] = state]

-----------------------------------------------------------------------------
\* Enqueue looks at closed before it takes the mutex.
EnqueueCall(p) ==
    /\ pc[p] = "idle" /\ ~closed
    /\ pc' = At(p, "entering")
    /\ UNCHANGED <<queue, closed, closing, done, watchers>>

Push(p, q) ==
    /\ \E priority \in Priority : queue' = Append(q, priority)
    /\ pc' \in Signal(At(p, "idle"))
    /\ UNCHANGED watchers

\* The loop of Enqueue under the mutex, up to its return or its next wait.
Enqueue(p) ==
    /\ pc[p] = "entering" \/ (pc[p] = "woken" /\ p \notin done)
    /\ \/ Len(queue) < Capacity /\ Push(p, queue)
       \/ /\ Len(queue) >= Capacity /\ (closed \/ DropPolicy = "DropNewest")
          /\ pc' = At(p, "idle") /\ UNCHANGED <<queue, watchers>>
       \/ /\ Len(queue) >= Capacity /\ ~closed /\ DropPolicy = "DropOldest"
          /\ Push(p, RemoveAt(queue, Victim(queue)))
       \/ /\ Len(queue) >= Capacity /\ ~closed /\ DropPolicy = "BlockUntilSpace"
          /\ pc' = At(p, "asleep") /\ watchers' = watchers \cup {p} /\ UNCHANGED queue
    /\ UNCHANGED <<closed, closing, done>>

\* Enqueue is woken and its context is done.
EnqueueGivesUp(p) ==
    /\ pc[p] = "woken" /\ p \in done
    /\ pc' = At(p, "idle")
    /\ UNCHANGED <<queue, closed, closing, done, watchers>>

\* Mutant: Next does not look at closed before it waits.
NextUnclosed(c) ==
    /\ pc[c] = "idle" \/ (pc[c] = "woken" /\ c \notin done)
    /\ \/ /\ queue # <<>>
          /\ queue' = RemoveAt(queue, First(queue)) /\ pc' \in Broadcast(At(c, "pacing"))
       \/ /\ queue = <<>> /\ UNCHANGED queue
          /\ pc' = At(c, IF closed /\ pc[c] = "woken" THEN "idle" ELSE "asleep")
    /\ UNCHANGED <<closed, closing, done, watchers>>

\* The loop of Next under the mutex.  After a wait it returns when the shaper is
\* closed and empty; an empty queue is looked at again before the next wait.
NextPacket(c) ==
    /\ pc[c] = "idle" \/ (pc[c] = "woken" /\ c \notin done)
    /\ \/ /\ queue # <<>>
          /\ queue' = RemoveAt(queue, First(queue)) /\ pc' \in Broadcast(At(c, "pacing"))
       \/ /\ queue = <<>> /\ UNCHANGED queue
          /\ pc' = At(c, IF closed THEN "idle" ELSE "asleep")
    /\ UNCHANGED <<closed, closing, done, watchers>>

\* Next is woken and its context is done: it returns, packets or not.
NextGivesUp(c) ==
    /\ pc[c] = "woken" /\ c \in done
    /\ pc' = At(c, "idle")
    /\ UNCHANGED <<queue, closed, closing, done, watchers>>

\* The pacing interval of Next, outside the mutex, is over or cut short.
Pace(c) ==
    /\ pc[c] = "pacing"
    /\ pc' = At(c, "idle")
    /\ UNCHANGED <<queue, closed, closing, done, watchers>>

\* Close sets closed, once,
Close ==
    /\ ~closed
    /\ closed' = TRUE /\ closing' = TRUE
    /\ UNCHANGED <<queue, pc, done, watchers>>

\* and then takes the mutex and wakes everybody.
CloseBroadcast ==
    /\ closing
    /\ closing' = FALSE /\ pc' \in Broadcast(pc)
    /\ UNCHANGED <<queue, closed, done, watchers>>

CtxDone(t) ==
    /\ t \in Impatient \ done
    /\ done' = done \cup {t}
    /\ UNCHANGED <<queue, closed, closing, pc, watchers>>

\* The goroutine of a waiting Enqueue: its context wakes everybody, or the wait is
\* over.  Next has none.
Watch(p) ==
    /\ p \in watchers
    /\ \/ p \in done /\ pc' \in Broadcast(pc)
       \/ pc[p] \notin {"asleep", "woken"} /\ UNCHANGED pc
    /\ watchers' = watchers \ {p}
    /\ UNCHANGED <<queue, closed, closing, done>>

Next ==
    \/ \E p \in Producer : EnqueueCall(p) \/ Enqueue(p) \/ EnqueueGivesUp(p) \/ Watch(p)
    \/ \E c \in Consumer : NextPacket(c) \/ NextGivesUp(c) \/ Pace(c)
    \/ \E t \in Caller : CtxDone(t)
    \/ Close \/ CloseBroadcast

-----------------------------------------------------------------------------
\* Nobody waits for space that is there: while a producer sleeps the queue is
\* full.  So the one caller Enqueue signals is a consumer, although producers
\* wait on the same condition variable.
SpaceWaitersBlocked == Asleep(Producer) # {} => Len(queue) = Capacity

\* While a consumer sleeps, a woken one is on its way for every queued packet; a
\* consumer whose context ends takes its wakeup with it (see README).
PacketsHaveTakers == Asleep(Consumer) # {} => Len(queue) <= Cardinality(Woken(Consumer))

\* Once Close is through nobody sleeps in the shaper, callers that were about to
\* wait when closed was set included.
CloseReleases == closed /\ ~closing => Asleep(Caller) = {}
=============================================================================
