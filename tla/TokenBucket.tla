---------------------------- MODULE TokenBucket -----------------------------
(***************************************************************************)
(* A token bucket with leases (internal/tokenbucket).  Each lease has a    *)
(* mutex of its own beside the bucket's: Release takes the lease's and     *)
(* then the bucket's, ReapExpiredLeases the bucket's and then the lease's. *)
(*                                                                         *)
(* Time is reduced to what it brings: tokens, of which any number up to    *)
(* MaxRefill may have come when the bucket looks, and leases that expire.  *)
(*                                                                         *)
(* Nobody checks the amount of a lease: Acquire takes nothing for zero or  *)
(* less, and what the lease gives back is its amount all the same.         *)
(***************************************************************************)
EXTENDS Integers, FiniteSetsExt

CONSTANTS
    Leases,      \* the leases that are asked for, one holder each
    Amounts,     \* the numbers of tokens that are asked for
    Capacity,
    MaxRefill    \* bound on the tokens that come between two looks

Nobody == "nobody"
Reaper == "reaper"

VARIABLES
    tokens,
    leases,      \* the leases in the bucket's table
    released,    \* the leases whose released flag is set
    expired,     \* the leases past their ExpiresAt
    bmu,         \* who holds the bucket's mutex,
    lmu,         \*   and those of the leases
    pc,          \* where the holder of each lease is,
    amount,      \*   and the lease's Tokens
    todo,        \* reaper: the leases it has found expired and not yet visited,
    target,      \*   the one whose mutex it is about to take,
    reclaimed,   \*   and how many tokens it has taken back
    consumed,    \* history: tokens consumed for good,
    returned     \*   how often each lease was paid back

reaper == <<todo, target, reclaimed>>
history == <<consumed, returned>>
vars == <<tokens, leases, released, expired, bmu, lmu, pc, amount, reaper, history>>

Init ==
    /\ tokens = Capacity
    /\ leases = {} /\ released = {} /\ expired = {}
    /\ bmu = Nobody
    /\ lmu = [l \in Leases |-> Nobody]
    /\ pc = [l \in Leases |-> "new"] /\ amount = [l \in Leases |-> 0]
    /\ todo = {} /\ target = Nobody /\ reclaimed = 0
    /\ consumed = 0 /\ returned = [l \in Leases |-> 0]

Go(l, to) == pc' = [pc EXCEPT ![l] = to]

AtMost(a, b) == IF a <= b THEN a ELSE b

\* Mutant of Refilled: the bucket overflows.
RefilledOver(n, r) == n + r

\* The bucket with r more tokens.
Refilled(n, r) == AtMost(Capacity, n + r)

-----------------------------------------------------------------------------
\* TryAcquire and Acquire of n > 0 tokens, when there are enough; otherwise
\* TryAcquire returns, and Acquire waits for its timer or for wakeCh and looks
\* again.
Take(n, r) ==
    /\ bmu = Nobody
    /\ Refilled(tokens, r) >= n
    /\ tokens' = Refilled(tokens, r) - n

\* Available, Stats, or an attempt that finds too few tokens: the bucket is
\* refilled.
Look(r) ==
    /\ bmu = Nobody
    /\ tokens' = Refilled(tokens, r)
    /\ UNCHANGED <<leases, released, expired, bmu, lmu, pc, amount, reaper, history>>

\* Tokens that are consumed, not leased.
TryAcquire(n, r) ==
    /\ n > 0
    /\ Take(n, r)
    /\ consumed + n <= Capacity
    /\ consumed' = consumed + n
    /\ UNCHANGED <<leases, released, expired, bmu, lmu, pc, amount, reaper, returned>>

\* Acquire takes no tokens, nor the mutex, for n <= 0, and fails for n > Capacity.
Acquire(n, r) == IF n <= 0 THEN UNCHANGED tokens ELSE n <= Capacity /\ Take(n, r)

LeaseAcquire(l, n, r) ==
    /\ pc[l] = "new"
    /\ Acquire(n, r)
    /\ amount' = [amount EXCEPT ![l] = n]
    /\ Go(l, "acquired")
    /\ UNCHANGED <<leases, released, expired, bmu, lmu, reaper, history>>

LeaseRegister(l) ==
    /\ pc[l] = "acquired" /\ bmu = Nobody
    /\ leases' = leases \union {l}
    /\ Go(l, "held")
    /\ UNCHANGED <<tokens, released, expired, bmu, lmu, amount, reaper, history>>

\* The deadline of a lease passes.
Elapse(l) ==
    /\ pc[l] \in {"acquired", "held", "renewing", "releasing"}
    /\ expired' = expired \union {l}
    /\ UNCHANGED <<tokens, leases, released, bmu, lmu, pc, amount, reaper, history>>

\* Renew fails for a lease that was released or has expired.
Renew(l) ==
    /\ pc[l] = "held" /\ lmu[l] = Nobody
    /\ l \notin released /\ l \notin expired
    /\ lmu' = [lmu EXCEPT ![l] = l]
    /\ Go(l, "renewing")
    /\ UNCHANGED <<tokens, leases, released, expired, bmu, amount, reaper, history>>

\* The new deadline, which the reaper reads without the lease's mutex.
RenewEnd(l) ==
    /\ pc[l] = "renewing"
    /\ expired' = expired \ {l}
    /\ lmu' = [lmu EXCEPT ![l] = Nobody]
    /\ Go(l, "held")
    /\ UNCHANGED <<tokens, leases, released, bmu, amount, reaper, history>>

Release(l) ==
    /\ pc[l] = "held" /\ lmu[l] = Nobody
    /\ IF l \in released
       THEN Go(l, "done") /\ UNCHANGED <<released, lmu>>
       ELSE /\ released' = released \union {l}
            /\ lmu' = [lmu EXCEPT ![l] = l]
            /\ Go(l, "releasing")
    /\ UNCHANGED <<tokens, leases, expired, bmu, amount, reaper, history>>

returnTokens(l, r) ==
    /\ pc[l] = "releasing" /\ bmu = Nobody
    /\ leases' = leases \ {l}
    /\ tokens' = AtMost(Capacity, Refilled(tokens, r) + amount[l])
    /\ returned' = [returned EXCEPT ![l] = @ + 1]
    /\ lmu' = [lmu EXCEPT ![l] = Nobody]
    /\ Go(l, "done")
    /\ UNCHANGED <<released, expired, bmu, amount, reaper, consumed>>

-----------------------------------------------------------------------------
(***************************************************************************)
(* The reaper.                                                             *)
(***************************************************************************)

ReapExpiredLeases ==
    /\ bmu = Nobody /\ leases \intersect expired # {}
    /\ bmu' = Reaper
    /\ todo' = leases \intersect expired
    /\ UNCHANGED <<tokens, leases, released, expired, lmu, pc, amount, target, reclaimed, history>>

\* Mutant of ReapVisit: a renewed lease leaves the table as well.
ReapVisitDrops(l) ==
    /\ bmu = Reaper /\ target = Nobody /\ l \in todo
    /\ todo' = todo \ {l}
    /\ leases' = leases \ {l}
    /\ target' = IF l \in expired THEN l ELSE Nobody
    /\ UNCHANGED <<tokens, released, expired, bmu, lmu, pc, amount, reclaimed, history>>

\* The next lease of the loop: a renewal may have come first.
ReapVisit(l) ==
    /\ bmu = Reaper /\ target = Nobody /\ l \in todo
    /\ todo' = todo \ {l}
    /\ target' = IF l \in expired THEN l ELSE Nobody
    /\ UNCHANGED <<tokens, leases, released, expired, bmu, lmu, pc, amount, reclaimed, history>>

ReapLease(l) ==
    /\ target = l /\ lmu[l] = Nobody
    /\ released' = released \union {l}
    /\ leases' = leases \ {l}
    /\ target' = Nobody
    /\ reclaimed' = reclaimed + amount[l]
    /\ returned' = [returned EXCEPT ![l] = @ + 1]
    /\ UNCHANGED <<tokens, expired, bmu, lmu, pc, amount, todo, consumed>>

\* Mutant of ReapEnd: one token comes back, however many there were.
ReapEndOne(r) ==
    /\ bmu = Reaper /\ target = Nobody /\ todo = {}
    /\ tokens' = AtMost(Capacity, Refilled(tokens, r) + AtMost(1, reclaimed))
    /\ reclaimed' = 0
    /\ bmu' = Nobody
    /\ UNCHANGED <<leases, released, expired, lmu, pc, amount, todo, target, history>>

\* (The code refills the bucket only when it has taken a lease back; a refill
\* without one is a Look.)
ReapEnd(r) ==
    /\ bmu = Reaper /\ target = Nobody /\ todo = {}
    /\ tokens' = AtMost(Capacity, Refilled(tokens, r) + reclaimed)
    /\ reclaimed' = 0
    /\ bmu' = Nobody
    /\ UNCHANGED <<leases, released, expired, lmu, pc, amount, todo, target, history>>

Next ==
    \/ ReapExpiredLeases
    \/ \E r \in 0..MaxRefill : Look(r) \/ ReapEnd(r)
    \/ \E n \in Amounts, r \in 0..MaxRefill : TryAcquire(n, r)
    \/ \E l \in Leases :
        \/ LeaseRegister(l) \/ Elapse(l) \/ Renew(l) \/ RenewEnd(l)
        \/ Release(l) \/ ReapVisit(l) \/ ReapLease(l)
        \/ \E r \in 0..MaxRefill : returnTokens(l, r)
        \/ \E n \in Amounts, r \in 0..MaxRefill : LeaseAcquire(l, n, r)

Spec == Init /\ [][Next]_vars

-----------------------------------------------------------------------------
\* The leases whose tokens are out.
Outstanding == {l \in Leases : pc[l] # "new" /\ returned[l] = 0}

\* The tokens of a lease come back once, though its holder and the reaper may
\* both try to give them back.
ReturnedOnce == \A l \in Leases : returned[l] <= 1

\* What Acquire took for a lease, and what the end of the lease takes out of the
\* bucket for good: nothing, unless its amount is negative.
Taken(l) == IF amount[l] > 0 THEN amount[l] ELSE 0
Drained(l) == IF amount[l] < 0 THEN -amount[l] ELSE 0

\* Where no time passes no token appears or is lost, but for the leases of a
\* negative amount: what is in the bucket, out on lease, on its way back with the
\* reaper, consumed, or drained by such leases, is the capacity.
Conserved ==
    MaxRefill = 0 =>
        tokens + MapThenSumSet(Taken, Outstanding) + reclaimed + consumed
            + MapThenSumSet(Drained, {l \in Leases : returned[l] > 0}) = Capacity

\* The bucket never overflows, however much time has passed and whatever comes
\* back at once; and it is never overdrawn where no lease has a negative amount.
NeverOverflows ==
    /\ tokens <= Capacity
    /\ (\A l \in Leases : amount[l] >= 0) => tokens >= 0

\* The bucket is never overdrawn.
NeverOverdrawn == tokens >= 0

\* A lease that is no longer in the table was paid back or is about to be: no
\* way out of the table loses its tokens.
NoneForgotten ==
    \A l \in Outstanding : l \in leases \/ pc[l] = "acquired"

\* The reaper and the holder of a lease never wait for each other.
NoCircularWait ==
    \A l \in Leases : ~ (bmu = Reaper /\ target = l /\ lmu[l] = l /\ pc[l] = "releasing")
=============================================================================
