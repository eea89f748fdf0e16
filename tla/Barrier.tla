------------------------------ MODULE Barrier -------------------------------
(***************************************************************************)
(* The cyclic barrier of internal/barrier.  A party that is not the last   *)
(* of its generation sleeps on the condition variable; a goroutine beside  *)
(* it breaks the barrier when the party's context is done.  A party that   *)
(* was woken takes the mutex again in a step of its own, and finds the     *)
(* barrier in whatever state it is by then.                                *)
(***************************************************************************)
EXTENDS Naturals, FiniteSets

CONSTANTS
    Party,
    Threshold,
    MaxGen,      \* bound on the generations
    Resettable   \* whether Reset is called

VARIABLES
    arrived, generation, broken,
    asleep,      \* the parties in cond.Wait,
    woken,       \*   and those a Broadcast has taken out of it
    gen,         \* per party: the generation of its last call
    result,      \*   and what that call returned
    watchers,    \* the goroutines that watch a context: <<party, generation>>
    came,        \* history: who arrived in each generation,
    tripped,     \*   which generations reached the threshold
    torn         \*   and which were broken

barrier == <<arrived, generation, broken>>
history == <<came, tripped, torn>>
vars == <<barrier, asleep, woken, gen, result, watchers, history>>

Init ==
    /\ arrived = {} /\ generation = 0 /\ broken = FALSE
    /\ asleep = {} /\ woken = {}
    /\ gen = [p \in Party |-> 0]
    /\ result = [p \in Party |-> "none"]
    /\ watchers = {}
    /\ came = [g \in 0..MaxGen |-> {}] /\ tripped = {} /\ torn = {}

Broadcast ==
    /\ woken' = woken \union asleep
    /\ asleep' = {}

Return(p, r) == result' = [result EXCEPT ![p] = r]

\* The call returns at once: the barrier is broken.
ArriveBroken(p) ==
    /\ p \notin asleep \union woken
    /\ broken
    /\ Return(p, "error")
    /\ gen' = [gen EXCEPT ![p] = generation]
    /\ UNCHANGED <<barrier, asleep, woken, watchers, history>>

Arrive(p) ==
    /\ p \notin asleep \union woken
    /\ ~broken /\ p \notin arrived
    /\ gen' = [gen EXCEPT ![p] = generation]
    /\ came' = [came EXCEPT ![generation] = @ \union {p}]

\* Mutant of ArriveLast: the parties of this generation count for the next.
ArriveLastKeeps(p) ==
    /\ Arrive(p)
    /\ Cardinality(arrived) + 1 >= Threshold /\ generation < MaxGen
    /\ generation' = generation + 1
    /\ tripped' = tripped \union {generation}
    /\ Broadcast
    /\ Return(p, "last")
    /\ UNCHANGED <<arrived, broken, watchers, torn>>

\* The last party trips the barrier.
ArriveLast(p) ==
    /\ Arrive(p)
    /\ Cardinality(arrived) + 1 >= Threshold /\ generation < MaxGen
    /\ generation' = generation + 1
    /\ arrived' = {}
    /\ tripped' = tripped \union {generation}
    /\ Broadcast
    /\ Return(p, "last")
    /\ UNCHANGED <<broken, watchers, torn>>

ArriveAndWait(p) ==
    /\ Arrive(p)
    /\ Cardinality(arrived) + 1 < Threshold
    /\ arrived' = arrived \union {p}
    /\ asleep' = asleep \union {p}
    /\ watchers' = watchers \union {<<p, generation>>}
    /\ Return(p, "none")
    /\ UNCHANGED <<generation, broken, woken, tripped, torn>>

\* Mutant of breakLocked: one party is woken where all are waiting.
breakLockedSignal ==
    IF broken
    THEN UNCHANGED <<barrier, asleep, woken, torn>>
    ELSE /\ broken' = TRUE
         /\ torn' = torn \union {generation}
         /\ IF asleep = {}
            THEN UNCHANGED <<asleep, woken>>
            ELSE \E p \in asleep : asleep' = asleep \ {p} /\ woken' = woken \union {p}
         /\ UNCHANGED <<arrived, generation>>

breakLocked ==
    IF broken
    THEN UNCHANGED <<barrier, asleep, woken, torn>>
    ELSE /\ broken' = TRUE
         /\ torn' = torn \union {generation}
         /\ Broadcast
         /\ UNCHANGED <<arrived, generation>>

\* Mutant of Expired: the generation is not looked at.
ExpiredAnyGen(g) == ~broken

\* What the goroutine finds when the context is done.
Expired(g) == g = generation /\ ~broken

CtxDone(p, g) ==
    /\ <<p, g>> \in watchers
    /\ watchers' = watchers \ {<<p, g>>}
    /\ IF Expired(g) THEN breakLocked ELSE UNCHANGED <<barrier, asleep, woken, torn>>
    /\ UNCHANGED <<gen, result, came, tripped>>

\* The call of the party has returned and closed done.
WatcherDone(p, g) ==
    /\ <<p, g>> \in watchers
    /\ p \notin asleep \union woken \/ gen[p] # g
    /\ watchers' = watchers \ {<<p, g>>}
    /\ UNCHANGED <<barrier, asleep, woken, gen, result, history>>

Break ==
    /\ breakLocked
    /\ UNCHANGED <<gen, result, watchers, came, tripped>>

\* Mutant of Reset: nobody is woken.
ResetSilent ==
    /\ Resettable /\ generation < MaxGen
    /\ broken' = FALSE
    /\ generation' = generation + 1
    /\ arrived' = {}
    /\ UNCHANGED <<asleep, woken, gen, result, watchers, history>>

Reset ==
    /\ Resettable /\ generation < MaxGen
    /\ broken' = FALSE
    /\ generation' = generation + 1
    /\ arrived' = {}
    /\ Broadcast
    /\ UNCHANGED <<gen, result, watchers, history>>

\* Mutant of Outcome: a party that was woken takes it for a trip.
OutcomeTrip == "ok"

Outcome == IF broken THEN "error" ELSE "ok"

\* A woken party has the mutex again: it sleeps again or returns.
Wake(p) ==
    /\ p \in woken
    /\ woken' = woken \ {p}
    /\ IF gen[p] = generation /\ ~broken
       THEN asleep' = asleep \union {p} /\ UNCHANGED result
       ELSE Return(p, Outcome) /\ UNCHANGED asleep
    /\ UNCHANGED <<barrier, gen, watchers, history>>

Next ==
    \/ \E p \in Party : ArriveBroken(p) \/ ArriveLast(p) \/ ArriveAndWait(p) \/ Wake(p)
    \/ \E w \in watchers : CtxDone(w[1], w[2]) \/ WatcherDone(w[1], w[2])
    \/ Break \/ Reset

Spec == Init /\ [][Next]_vars

\* The runtime schedules a woken goroutine, and contexts end.
FairSpec ==
    /\ Spec
    /\ \A p \in Party : WF_vars(Wake(p))
    /\ \A p \in Party, g \in 0..MaxGen : WF_vars(CtxDone(p, g))

-----------------------------------------------------------------------------
\* A party that sleeps is one the current generation still waits for: nobody
\* is left in cond.Wait after a trip, a break or a reset.
NobodyLeftBehind ==
    \A p \in asleep : gen[p] = generation /\ ~broken /\ p \in arrived

\* A generation trips once, with as many parties as the threshold, and one of
\* its calls returns "last": parties of one generation never count for another.
TripsAtThreshold ==
    \A g \in tripped : /\ Cardinality(came[g]) = Threshold
                       /\ Cardinality({p \in Party : gen[p] = g /\ result[p] = "last"}) <= 1

\* A call returns without an error only when its generation reached the
\* threshold.
ReleasedByTrip ==
    \A p \in Party : result[p] = "ok" => gen[p] \in tripped

\* A context that ends late never breaks a later generation: a generation that
\* was broken by nobody's Break lost one of its own parties.
LateContextHarmless ==
    [][torn' # torn =>
        \A p \in Party, g \in 0..MaxGen : CtxDone(p, g) => p \in arrived /\ gen[p] = g]_vars

\* Break wakes all the waiting parties with an error: no party of a broken
\* generation returns as if it had tripped.
BreakFailsWaiters ==
    \A p \in Party : result[p] = "ok" => gen[p] \notin torn

\* Every party that waits returns in the end, because the barrier trips or
\* because a context is done.
WaitersReturn ==
    \A p \in Party : p \in asleep \union woken ~> p \notin asleep \union woken
=============================================================================
