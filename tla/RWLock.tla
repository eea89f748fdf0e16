------------------------------- MODULE RWLock -------------------------------
(***************************************************************************)
(* The reader-writer lock of internal/lock, whose Lock and RLock return    *)
(* early when their context is done.                                       *)
(*                                                                         *)
(* Each caller waits on a channel of its own with room for one message:    *)
(* signalled is the set of callers whose channel holds one.  The select of *)
(* a caller whose message has come and whose context is done may take      *)
(* either branch, and the cleanup after the context takes the mutex in a   *)
(* step of its own.                                                        *)
(***************************************************************************)
EXTENDS Integers, SequencesExt

CONSTANTS
    Thread,
    Impatient    \* the callers whose context may be done while they wait

VARIABLES
    readers, writerHeld, writerWaiters,
    readerWaiters, writerQueue,   \* queues of callers, in place of channels
    signalled,
    pc

vars == <<readers, writerHeld, writerWaiters, readerWaiters, writerQueue, signalled, pc>>

Init ==
    /\ readers = 0
    /\ writerHeld = FALSE
    /\ writerWaiters = 0
    /\ readerWaiters = <<>>
    /\ writerQueue = <<>>
    /\ signalled = {}
    /\ pc = [t \in Thread |-> "idle"]

Go(t, l) == pc' = [pc EXCEPT ![t] = l]

-----------------------------------------------------------------------------
(***************************************************************************)
(* Readers.                                                                *)
(***************************************************************************)

RLock(t) ==
    /\ pc[t] = "idle"
    /\ IF ~writerHeld /\ writerWaiters = 0
       THEN readers' = readers + 1 /\ Go(t, "reading") /\ UNCHANGED readerWaiters
       ELSE readerWaiters' = Append(readerWaiters, t) /\ Go(t, "waitR") /\ UNCHANGED readers
    /\ UNCHANGED <<writerHeld, writerWaiters, writerQueue, signalled>>

TryRLock(t) ==
    /\ pc[t] = "idle" /\ ~writerHeld /\ writerWaiters <= 0
    /\ readers' = readers + 1
    /\ Go(t, "reading")
    /\ UNCHANGED <<writerHeld, writerWaiters, readerWaiters, writerQueue, signalled>>

\* The first writer of the queue is given the lock.
GiveWriter ==
    /\ writerHeld' = TRUE
    /\ writerWaiters' = writerWaiters - 1
    /\ writerQueue' = Tail(writerQueue)
    /\ signalled' = signalled \union {Head(writerQueue)}

\* Mutant of RUnlock: any reader that leaves hands the lock over.
RUnlockEarly(t) ==
    /\ pc[t] = "reading"
    /\ readers' = readers - 1
    /\ IF writerQueue # <<>>
       THEN GiveWriter
       ELSE UNCHANGED <<writerHeld, writerWaiters, writerQueue, signalled>>
    /\ Go(t, "idle")
    /\ UNCHANGED readerWaiters

\* Mutant of RUnlock: nobody is woken.
RUnlockSilent(t) ==
    /\ pc[t] = "reading"
    /\ readers' = readers - 1
    /\ Go(t, "idle")
    /\ UNCHANGED <<writerHeld, writerWaiters, writerQueue, signalled, readerWaiters>>

RUnlock(t) ==
    /\ pc[t] = "reading"
    /\ readers' = readers - 1
    /\ IF readers' = 0 /\ writerQueue # <<>>
       THEN GiveWriter
       ELSE UNCHANGED <<writerHeld, writerWaiters, writerQueue, signalled>>
    /\ Go(t, "idle")
    /\ UNCHANGED readerWaiters

(***************************************************************************)
(* Writers.                                                                *)
(***************************************************************************)

Lock(t) ==
    /\ pc[t] = "idle"
    /\ IF readers = 0 /\ ~writerHeld
       THEN /\ writerHeld' = TRUE
            /\ Go(t, "writing")
            /\ UNCHANGED <<writerWaiters, writerQueue>>
       ELSE /\ writerQueue' = Append(writerQueue, t)
            /\ writerWaiters' = writerWaiters + 1
            /\ Go(t, "waitW")
            /\ UNCHANGED writerHeld
    /\ UNCHANGED <<readers, readerWaiters, signalled>>

TryLock(t) ==
    /\ pc[t] = "idle" /\ readers <= 0 /\ ~writerHeld
    /\ writerHeld' = TRUE
    /\ Go(t, "writing")
    /\ UNCHANGED <<readers, writerWaiters, readerWaiters, writerQueue, signalled>>

\* All the readers that wait are given the lock.
GiveReaders ==
    /\ writerHeld' = FALSE
    /\ readers' = readers + Len(readerWaiters)
    /\ readerWaiters' = <<>>
    /\ signalled' = signalled \union ToSet(readerWaiters)
    /\ UNCHANGED <<writerWaiters, writerQueue>>

\* Mutant of Unlock: the next writer comes before the readers.
UnlockWritersFirst(t) ==
    /\ pc[t] = "writing" /\ writerHeld
    /\ CASE writerQueue # <<>> -> GiveWriter /\ UNCHANGED <<readers, readerWaiters>>
         [] writerQueue = <<>> -> GiveReaders
    /\ Go(t, "idle")

Unlock(t) ==
    /\ pc[t] = "writing" /\ writerHeld
    /\ CASE readerWaiters # <<>> -> GiveReaders
         [] readerWaiters = <<>> /\ writerQueue # <<>> ->
                GiveWriter /\ UNCHANGED <<readers, readerWaiters>>
         [] readerWaiters = <<>> /\ writerQueue = <<>> ->
                /\ writerHeld' = FALSE
                /\ UNCHANGED <<readers, writerWaiters, readerWaiters, writerQueue, signalled>>
    /\ Go(t, "idle")

(***************************************************************************)
(* The end of a wait: the message, or the context.                         *)
(***************************************************************************)

Receive(t) ==
    /\ t \in signalled
    /\ \/ pc[t] = "waitR" /\ Go(t, "reading")
       \/ pc[t] = "waitW" /\ Go(t, "writing")
    /\ signalled' = signalled \ {t}
    /\ UNCHANGED <<readers, writerHeld, writerWaiters, readerWaiters, writerQueue>>

CtxDone(t) ==
    /\ t \in Impatient
    /\ \/ pc[t] = "waitR" /\ Go(t, "cancelR")
       \/ pc[t] = "waitW" /\ Go(t, "cancelW")
    /\ UNCHANGED <<readers, writerHeld, writerWaiters, readerWaiters, writerQueue, signalled>>

RLockCancelled(t) ==
    /\ pc[t] = "cancelR"
    /\ readerWaiters' = Remove(readerWaiters, t)
    /\ signalled' = signalled \ {t}
    /\ Go(t, "idle")
    /\ UNCHANGED <<readers, writerHeld, writerWaiters, writerQueue>>

LockCancelled(t) ==
    /\ pc[t] = "cancelW"
    /\ writerQueue' = Remove(writerQueue, t)
    /\ writerWaiters' = writerWaiters - 1
    /\ signalled' = signalled \ {t}
    /\ Go(t, "idle")
    /\ UNCHANGED <<readers, writerHeld, readerWaiters>>

-----------------------------------------------------------------------------
Progress(t) ==
    RUnlock(t) \/ Unlock(t) \/ Receive(t) \/ RLockCancelled(t) \/ LockCancelled(t)

Next ==
    \E t \in Thread :
        \/ RLock(t) \/ TryRLock(t) \/ Lock(t) \/ TryLock(t)
        \/ CtxDone(t) \/ Progress(t)

Spec == Init /\ [][Next]_vars

\* A holder unlocks in the end, and a caller whose select is ready goes on.
FairSpec == Spec /\ \A t \in Thread : WF_vars(Progress(t))

-----------------------------------------------------------------------------
Waiting(t) == pc[t] \in {"waitR", "waitW"}
MayRead(t) == pc[t] = "reading" \/ (pc[t] = "waitR" /\ t \in signalled)
MayWrite(t) == pc[t] = "writing" \/ (pc[t] = "waitW" /\ t \in signalled)

\* A writer is alone, counting the callers whose message is still in the
\* channel: handing the lock over never lets two in.
MutualExclusion ==
    \A t, u \in Thread : t # u /\ MayWrite(t) => ~MayWrite(u) /\ ~MayRead(u)

\* Every caller that waits has somebody who will wake it: a queued writer has a
\* holder before it, a queued reader has a writer before it.
NoLostWakeup ==
    /\ writerQueue # <<>> => readers > 0 \/ writerHeld
    /\ readerWaiters # <<>> => writerHeld \/ writerQueue # <<>>

\* The counters agree with the callers they count: every reader is counted,
\* every held lock has a holder, and writerWaiters is the length of the queue.
CountersExact ==
    /\ readers = Cardinality({t \in Thread : MayRead(t)})
    /\ writerHeld <=> \E t \in Thread : MayWrite(t)
    /\ writerWaiters = Len(writerQueue)

\* Neither readers nor writers starve: whoever waits without giving up gets the
\* lock, whatever the others do.
WaitersServed ==
    \A t \in Thread \ Impatient : Waiting(t) ~> ~Waiting(t)
=============================================================================
