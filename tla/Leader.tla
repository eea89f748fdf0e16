------------------------------- MODULE Leader -------------------------------
(***************************************************************************)
(* Lease-based leader election (internal/leader): candidates that run      *)
(* their election loop against one in-memory coordinator.                  *)
(*                                                                         *)
(* A call of the coordinator is atomic (it holds its mutex), and so is     *)
(* what a candidate does under its own mutex; everything else interleaves, *)
(* the passing of time included.  Of the time the model keeps where now is *)
(* relative to the lease's ExpiresAt: before ("fresh"), equal ("due") or   *)
(* after ("over").  A candidate may be arbitrarily late for its next tick. *)
(* isLeader is written together with state and is true in state LEADER     *)
(* only, so it is not a variable of its own.                               *)
(***************************************************************************)
EXTENDS Naturals

CONSTANTS
    Candidate,   \* the IDs of the cluster's nodes
    None,        \* the empty LeaderID
    MaxTerm      \* bound on the coordinator's term

ASSUME NoneAssumption == None \notin Candidate
ASSUME MaxTermAssumption == MaxTerm \in Nat

VARIABLES
    leaderID,    \* Record.LeaderID
    recTerm,     \* Record.Term
    lease,       \* now relative to Record.ExpiresAt
    state,       \* per candidate: Candidate.state,
    term,        \*   Candidate.term,
    pc,          \*   where its runLoop is,
    got,         \*   the term of the record a renewal returned,
    stopping,    \*   stopCh is closed or the context is done,
    leaving,     \*   its loop has seen that and will return,
    announced    \*   onElected has run, and onRevoked has not run since

record == <<leaderID, recTerm, lease>>
nodes == <<state, term, pc, got, stopping, leaving, announced>>
vars == <<record, nodes>>

Init ==
    /\ leaderID = None /\ recTerm = 0 /\ lease = "over"
    /\ state = [c \in Candidate |-> "FOLLOWER"]
    /\ term = [c \in Candidate |-> 0]
    /\ pc = [c \in Candidate |-> "select"]
    /\ got = [c \in Candidate |-> 0]
    /\ stopping = [c \in Candidate |-> FALSE]
    /\ leaving = [c \in Candidate |-> FALSE]
    /\ announced = [c \in Candidate |-> FALSE]

-----------------------------------------------------------------------------
(***************************************************************************)
(* The coordinator.                                                        *)
(***************************************************************************)

\* TryAcquireOrRenew by c is refused: another node holds a lease that has not
\* run out.
Refused(c) == leaderID \notin {None, c} /\ lease = "fresh"

\* Mutant of NewTerm: an expired lease is taken over under its old term.
NewTermVacantOnly(c) == IF leaderID = None THEN recTerm + 1 ELSE recTerm

\* The term of the record that TryAcquireOrRenew grants to c.
NewTerm(c) == IF leaderID # c \/ lease = "over" THEN recTerm + 1 ELSE recTerm

Grant(c) ==
    /\ NewTerm(c) <= MaxTerm
    /\ leaderID' = c /\ recTerm' = NewTerm(c) /\ lease' = "fresh"

\* Mutants of ReleaseLease: whoever holds the lease loses it; the record is reset,
\* term and all; it is left alone.
ReleaseLeaseOfAnyone(c) == leaderID' = None /\ lease' = "over" /\ UNCHANGED recTerm

ReleaseLeaseResets(c) ==
    IF leaderID = c THEN leaderID' = None /\ lease' = "over" /\ recTerm' = 0
                    ELSE UNCHANGED record

ReleaseLeaseForgotten(c) == UNCHANGED record

\* Release by c does not look at the term.
ReleaseLease(c) ==
    IF leaderID = c THEN leaderID' = None /\ lease' = "over" /\ UNCHANGED recTerm
                    ELSE UNCHANGED record

\* Time passes.
Elapse ==
    /\ \/ lease = "fresh" /\ lease' \in {"due", "over"}
       \/ lease = "due" /\ lease' = "over"
    /\ UNCHANGED <<leaderID, recTerm, nodes>>

(***************************************************************************)
(* One candidate.                                                          *)
(***************************************************************************)

Go(c, l) == pc' = [pc EXCEPT ![c] = l]

\* Mutant of Campaign: a node that loses does not try again.
CampaignOnce(c) ==
    /\ pc[c] = "select"
    /\ state[c] # "LEADER"
    /\ \/ /\ Refused(c)
          /\ Go(c, "stopped")
          /\ UNCHANGED <<record, state, term>>
       \/ /\ ~Refused(c) /\ Grant(c)
          /\ state' = [state EXCEPT ![c] = "LEADER"]
          /\ term' = [term EXCEPT ![c] = recTerm']
          /\ Go(c, "elected")
    /\ UNCHANGED <<got, stopping, leaving, announced>>

\* Campaign, called by the loop on a tick of a node that is not the leader.
Campaign(c) ==
    /\ pc[c] = "select"
    /\ state[c] # "LEADER"
    /\ \/ /\ Refused(c)
          /\ state' = [state EXCEPT ![c] = "FOLLOWER"]
          /\ UNCHANGED <<record, term, pc>>
       \/ /\ ~Refused(c) /\ Grant(c)
          /\ state' = [state EXCEPT ![c] = "LEADER"]
          /\ term' = [term EXCEPT ![c] = recTerm']
          /\ Go(c, "elected")
    /\ UNCHANGED <<got, stopping, leaving, announced>>

TriggerElected(c) ==
    /\ pc[c] = "elected"
    /\ announced' = [announced EXCEPT ![c] = TRUE]
    /\ Go(c, "select")
    /\ UNCHANGED <<record, state, term, got, stopping, leaving>>

\* The heartbeat of a leader.
Renew(c) ==
    /\ pc[c] = "select"
    /\ state[c] = "LEADER"
    /\ \/ /\ Refused(c)
          /\ Go(c, "stepDown")
          /\ UNCHANGED <<record, got>>
       \/ /\ ~Refused(c) /\ Grant(c)
          /\ got' = [got EXCEPT ![c] = recTerm']
          /\ Go(c, "renewed")
    /\ UNCHANGED <<state, term, stopping, leaving, announced>>

SetTerm(c) ==
    /\ pc[c] = "renewed"
    /\ term' = [term EXCEPT ![c] = got[c]]
    /\ Go(c, "select")
    /\ UNCHANGED <<record, state, got, stopping, leaving, announced>>

\* Stop is called, or the context is cancelled.
Stop(c) ==
    /\ ~stopping[c]
    /\ stopping' = [stopping EXCEPT ![c] = TRUE]
    /\ UNCHANGED <<record, state, term, pc, got, leaving, announced>>

\* The select may have taken a tick that was ready as well before it takes this.
LoopEnds(c) ==
    /\ pc[c] = "select" /\ stopping[c]
    /\ leaving' = [leaving EXCEPT ![c] = TRUE]
    /\ Go(c, "stepDown")
    /\ UNCHANGED <<record, state, term, got, stopping, announced>>

\* After a refused renewal the loop goes on, after Stop it returns.
AfterStepDown(c) == IF leaving[c] THEN "stopped" ELSE "select"

\* The part of stepDown under the candidate's mutex.
StepDown(c) ==
    /\ pc[c] = "stepDown"
    /\ state' = [state EXCEPT ![c] = "FOLLOWER"]
    /\ IF state[c] = "LEADER" THEN Go(c, "release")
                              ELSE Go(c, AfterStepDown(c))
    /\ UNCHANGED <<record, term, got, stopping, leaving, announced>>

Release(c) ==
    /\ pc[c] = "release"
    /\ ReleaseLease(c)
    /\ Go(c, "revoke")
    /\ UNCHANGED <<state, term, got, stopping, leaving, announced>>

\* By now another node may have been elected, and have told its observers.
TriggerRevoked(c) ==
    /\ pc[c] = "revoke"
    /\ announced' = [announced EXCEPT ![c] = FALSE]
    /\ Go(c, AfterStepDown(c))
    /\ UNCHANGED <<record, state, term, got, stopping, leaving>>

-----------------------------------------------------------------------------
Run(c) ==
    \/ Campaign(c) \/ TriggerElected(c) \/ Renew(c) \/ SetTerm(c)
    \/ LoopEnds(c) \/ StepDown(c) \/ Release(c) \/ TriggerRevoked(c)

Next == Elapse \/ \E c \in Candidate : Run(c) \/ Stop(c)

Spec == Init /\ [][Next]_vars

\* The ticker of a node that is not stopped fires again and again, and the
\* other steps of its loop wait for nothing.  Time passes too.
FairSpec == Spec /\ WF_vars(Elapse) /\ \A c \in Candidate : WF_vars(Run(c))

-----------------------------------------------------------------------------
\* Every variable holds a value of its type.
TypeOK ==
    /\ leaderID \in Candidate \cup {None}
    /\ recTerm \in 0..MaxTerm
    /\ lease \in {"fresh", "due", "over"}
    /\ state \in [Candidate -> {"FOLLOWER", "LEADER"}]
    /\ term \in [Candidate -> 0..MaxTerm]
    /\ pc \in [Candidate -> {"select", "elected", "renewed", "stepDown",
                             "release", "revoke", "stopped"}]
    /\ got \in [Candidate -> 0..MaxTerm]
    /\ stopping \in [Candidate -> BOOLEAN]
    /\ leaving \in [Candidate -> BOOLEAN]
    /\ announced \in [Candidate -> BOOLEAN]

\* Two nodes that both believe they lead (the old leader has not noticed yet
\* that its lease ran out) have different terms, so the term can serve as a
\* fencing token: the coordinator raises it on every take-over.
TermsFence ==
    \A c, d \in Candidate :
        c # d /\ state[c] = "LEADER" /\ state[d] = "LEADER" => term[c] # term[d]

\* The node the coordinator names is ahead of every other node that believes
\* it leads, except between a renewal that took the lease back and the write of
\* its term.
HolderHasNewestTerm ==
    \A c, d \in Candidate :
        /\ c # d /\ state[c] = "LEADER" /\ state[d] = "LEADER"
        /\ leaderID = c /\ pc[c] # "renewed"
        => term[d] < term[c]

\* A node that has stopped is a follower, has told its observers, and no longer
\* holds the lease: the standby need not wait for it to expire.
StoppedYields ==
    \A c \in Candidate :
        pc[c] = "stopped" =>
            state[c] = "FOLLOWER" /\ ~announced[c] /\ leaderID # c

(***************************************************************************)
(* The inductive invariant: a term is granted to one node only, the holder *)
(* of the lease has the newest one, and who holds the lease knows that it  *)
(* leads, or is about to release it.                                       *)
(***************************************************************************)
TermsGranted ==
    /\ leaderID # None => recTerm > 0
    /\ \A c \in Candidate :
        /\ term[c] <= recTerm /\ got[c] <= recTerm
        /\ state[c] = "LEADER" => term[c] > 0
        /\ leaderID = c /\ state[c] = "LEADER" =>
              recTerm = IF pc[c] = "renewed" THEN got[c] ELSE term[c]
        /\ pc[c] = "renewed" => term[c] <= got[c] /\ got[c] > 0
                                /\ state[c] = "LEADER"
        /\ leaderID # c /\ leaderID # None => term[c] < recTerm /\ got[c] < recTerm

TermsApart ==
    \A c, d \in Candidate : c # d =>
        /\ term[c] = term[d] => term[c] = 0
        /\ got[c] = term[d] => got[c] = 0
        /\ got[c] = got[d] => got[c] = 0

LeadershipKnown ==
    \A c \in Candidate :
        /\ leaderID = c => state[c] = "LEADER" \/ pc[c] = "release"
        /\ announced[c] => state[c] = "LEADER" \/ pc[c] \in {"release", "revoke"}
        /\ pc[c] = "elected" => state[c] = "LEADER"
        /\ pc[c] \in {"release", "revoke", "stopped"} => state[c] = "FOLLOWER"

\* Terms are granted once, and leadership is never held unknowingly.
Inv == TypeOK /\ TermsGranted /\ TermsApart /\ LeadershipKnown

\* The fencing term of a node never goes back.
TermsGrow == [][\A c \in Candidate : term'[c] >= term[c]]_vars

\* A lease that has not run out leaves its holder only by the holder's own
\* Release: the late Release of a node that was leader before, which names the
\* node and not the term, spares its successor's lease.
FreshLeaseKept ==
    [][\A c \in Candidate :
        leaderID = c /\ leaderID' # c => lease # "fresh" \/ pc[c] = "release"]_vars

\* When all other nodes have stopped, the last one takes over (unless it is
\* stopped too, or the terms of the model are used up).
StandbyTakesOver ==
    \A c \in Candidate :
        (\A d \in Candidate \ {c} : pc[d] = "stopped")
            ~> (state[c] = "LEADER" \/ stopping[c] \/ recTerm = MaxTerm)

\* IsLeader tells whether the node holds the lease at this moment.
IsLeaderAccurate ==
    \A c, d \in Candidate :
        state[c] = "LEADER" /\ leaderID = d /\ lease = "fresh" => c = d
=============================================================================
