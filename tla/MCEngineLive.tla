---------------------------- MODULE MCEngineLive ----------------------------
(***************************************************************************)
(* What Engine brings about, on two workflows, one in each behaviour.      *)
(*                                                                         *)
(*   sequential  a diamond (b and c wait for a, d for both) that           *)
(*               ProcessLeases works on, with a step that may fail         *)
(*   pool        a chain (b waits for a) that the pool works on; a may     *)
(*               fail and b has no handler                                 *)
(***************************************************************************)
EXTENDS TLC

CONSTANTS w1, w2, client

VARIABLES
    unit,
    runState, startedAt, finishedAt, stepState, queue, batch, pc, step, snap, ready,
    cancelling, reaped, expired, done, failures

Diamond == {"a", "b", "c", "d"}
DiamondDependsOn == ("a" :> {}) @@ ("b" :> {"a"}) @@ ("c" :> {"a"}) @@ ("d" :> {"b", "c"})
Chain == {"a", "b"}
ChainDependsOn == ("a" :> {}) @@ ("b" :> {"a"})

Sequential == INSTANCE Engine WITH
    Step <- Diamond, DependsOn <- DiamondDependsOn, Worker <- {w1}, Client <- client,
    MaxDequeue <- 2, Registered <- Diamond, Fallible <- {"b"}
Pool == INSTANCE Engine WITH
    Step <- Chain, DependsOn <- ChainDependsOn, Worker <- {w1, w2}, Client <- client,
    MaxDequeue <- 2, Registered <- {"a"}, Fallible <- {"a"}

vars == <<unit, runState, startedAt, finishedAt, stepState, queue, batch, pc, step, snap, ready,
          cancelling, reaped, expired, done, failures>>

Steps(u, next) == unit = u /\ next /\ UNCHANGED unit

Init == \/ unit = "sequential" /\ Sequential!Init
        \/ unit = "pool" /\ Pool!Init
Next == Steps("sequential", Sequential!SequentialNext) \/ Steps("pool", Pool!PoolNext)

\* The fairness of Engine's SequentialSpec, and of its FairPoolSpec.
Spec ==
    /\ Init /\ [][Next]_vars
    /\ WF_vars(Steps("sequential", Sequential!Submit) \/ Steps("pool", Pool!Submit))
    /\ WF_vars(Steps("sequential", Sequential!ProcessLeases) \/ Steps("pool", Pool!Drain))
    /\ WF_vars(\/ Steps("sequential", Sequential!SubmitContext(w1) \/ Sequential!ExecuteLease(w1))
               \/ Steps("pool", Pool!SubmitContext(w1) \/ Pool!ExecuteLease(w1)))
    /\ WF_vars(Steps("pool", Pool!SubmitContext(w2) \/ Pool!ExecuteLease(w2)))
    /\ \A s \in Chain : WF_vars(Steps("pool", Pool!LeaseTimeout(s)))

-----------------------------------------------------------------------------
\* A run that ProcessLeases works on reaches a result.
Working == unit = "sequential" /\ runState = "QUEUED"
RunFinishes == Working ~> Sequential!IsTerminal(runState)

\* Every item in the queue of the pool is consumed in the end, though leases expire
\* under working goroutines.
Queued(s) == unit = "pool" /\ queue[s] # "absent"
QueueDrains == \A s \in Chain : Queued(s) ~> ~Queued(s)
=============================================================================
