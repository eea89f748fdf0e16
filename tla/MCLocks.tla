------------------------------ MODULE MCLocks -------------------------------
(***************************************************************************)
(* The packages of internal/ that threads block on: the reader-writer      *)
(* lock, the barrier and the token bucket.  They share no state, so a      *)
(* behaviour is about one of them, its unit, chosen at the start; the      *)
(* variables of the others keep their initial values.                      *)
(*                                                                         *)
(*   rwlock     callers of the lock that wait as long as it takes          *)
(*   impatient  callers some of whose contexts may be done                 *)
(*   barrier    a barrier that is never reset                              *)
(*   reset      a barrier that may be reset                                *)
(*   bucket     a token bucket for which no time passes                    *)
(*   refill     a token bucket that fills up                               *)
(*   odd        a token bucket with leases of nothing, of less than        *)
(*              nothing, and of more than the capacity                     *)
(***************************************************************************)
EXTENDS Integers

CONSTANTS
    Thread, Impatient,          \* RWLock
    Party, Threshold, MaxGen,   \* Barrier
    Resetters, ResetThreshold,  \*   the parties and the threshold of unit reset
    Leases, Amounts, Capacity,  \* TokenBucket
    Refillers, MaxRefill        \*   the leases of units refill and odd

VARIABLES
    unit,
    readers, writerHeld, writerWaiters, readerWaiters, writerQueue, signalled, rwPc,
    arrived, generation, broken, asleep, woken, gen, result, watchers, came, tripped, torn,
    tokens, leases, released, expired, bmu, lmu, tbPc, amount, todo, target, reclaimed,
    consumed, returned

\* The amounts of unit odd.
OddAmounts == {-1, 0, 2, Capacity + 1}

RWPatient == INSTANCE RWLock WITH pc <- rwPc, Impatient <- {}
RWImpatient == INSTANCE RWLock WITH pc <- rwPc
OneWay == INSTANCE Barrier WITH Resettable <- FALSE
Cyclic == INSTANCE Barrier WITH Resettable <- TRUE, Party <- Resetters,
                            Threshold <- ResetThreshold
Still == INSTANCE TokenBucket WITH pc <- tbPc, MaxRefill <- 0
Filling == INSTANCE TokenBucket WITH pc <- tbPc, Leases <- Refillers
Odd == INSTANCE TokenBucket WITH pc <- tbPc, Leases <- Refillers, MaxRefill <- 0,
                                 Amounts <- OddAmounts

lockVars == <<readers, writerHeld, writerWaiters, readerWaiters, writerQueue, signalled, rwPc>>
barrierVars ==
    <<arrived, generation, broken, asleep, woken, gen, result, watchers, came, tripped, torn>>
bucketVars ==
    <<tokens, leases, released, expired, bmu, lmu, tbPc, amount, todo, target, reclaimed,
      consumed, returned>>
vars == <<unit, lockVars, barrierVars, bucketVars>>

Init ==
    /\ unit \in {"rwlock", "impatient", "barrier", "reset", "bucket", "refill", "odd"}
    /\ RWPatient!Init /\ OneWay!Init /\ Still!Init

LockStep(u, A) == unit = u /\ A /\ UNCHANGED <<unit, barrierVars, bucketVars>>
Barriers == {"barrier", "reset"}
BarrierStep(us, A) == unit \in us /\ A /\ UNCHANGED <<unit, lockVars, bucketVars>>
BucketStep(u, A) == unit = u /\ A /\ UNCHANGED <<unit, lockVars, barrierVars>>

Next ==
    \/ LockStep("rwlock", RWPatient!Next) \/ LockStep("impatient", RWImpatient!Next)
    \/ BarrierStep({"barrier"}, OneWay!Next) \/ BarrierStep({"reset"}, Cyclic!Next)
    \/ BucketStep("bucket", Still!Next) \/ BucketStep("refill", Filling!Next)
    \/ BucketStep("odd", Odd!Next)

Spec == Init /\ [][Next]_vars

\* A holder unlocks in the end and a caller whose select is ready goes on; the
\* runtime schedules a woken goroutine, and the contexts of the parties end.
FairSpec ==
    /\ Spec
    /\ \A t \in Thread : WF_vars(LockStep("rwlock", RWPatient!Progress(t)))
    /\ \A p \in Party :
        /\ WF_vars(BarrierStep(Barriers, OneWay!Wake(p)))
        /\ WF_vars(BarrierStep(Barriers, \E g \in 0..MaxGen : OneWay!CtxDone(p, g)))

-----------------------------------------------------------------------------
\* RWLock: a writer is alone, whoever gives up.
MutualExclusion == RWPatient!MutualExclusion

\* RWLock: where nobody gives up, every caller that waits has somebody who will
\* wake it.
NoLostWakeup == unit = "rwlock" => RWPatient!NoLostWakeup

\* RWLock: where nobody gives up, the counters agree with the callers.
CountersExact == unit = "rwlock" => RWPatient!CountersExact

\* RWLock: where nobody gives up, neither readers nor writers starve.
WaitersServed == unit = "rwlock" => RWPatient!WaitersServed

\* Barrier: nobody sleeps on after a trip, a break or a reset.
NobodyLeftBehind == OneWay!NobodyLeftBehind

\* Barrier: parties of one generation never count for another.
TripsAtThreshold ==
    IF unit = "reset" THEN Cyclic!TripsAtThreshold ELSE OneWay!TripsAtThreshold

\* Barrier: without Reset, a call that returns no error saw its generation trip.
ReleasedByTrip == unit = "barrier" => OneWay!ReleasedByTrip

\* Barrier: a context that ends late never breaks a later generation.
LateContextHarmless == OneWay!LateContextHarmless

\* Barrier: every party that waits returns.
WaitersReturn == OneWay!WaitersReturn

\* TokenBucket: where no time passes no token appears or is lost, but for those
\* that leases of a negative amount drain.
Conserved == unit # "refill" => Still!Conserved

\* TokenBucket: the bucket never overflows, and is never overdrawn but by leases
\* of a negative amount.
NeverOverflows == Still!NeverOverflows

\* TokenBucket: no way out of the table loses the tokens of a lease, and they come
\* back once.
NoneForgotten == Still!NoneForgotten /\ Still!ReturnedOnce

\* TokenBucket: the reaper and the holder of a lease never wait for each other.
NoCircularWait == Still!NoCircularWait
=============================================================================
