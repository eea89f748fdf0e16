--------------------------- MODULE MCCoordination ---------------------------
(***************************************************************************)
(* The packages that decide who may act: leader election and fencing       *)
(* tokens.  They share no state, so a behaviour is about one of them, its  *)
(* unit, chosen at the start.                                              *)
(*                                                                         *)
(*   leader   candidates and their coordinator                             *)
(*   standby  two of them, whose loops and clock are fair                  *)
(*   fencing  the token generator, the lease manager and the storage       *)
(***************************************************************************)
EXTENDS Leader, Fencing

CONSTANT Pair   \* the candidates of unit standby

VARIABLE unit

Two == INSTANCE Leader WITH Candidate <- Pair

coordinationVars == <<unit, vars, fencingVars>>

CoordinationInit ==
    /\ unit \in {"leader", "standby", "fencing"}
    /\ Init /\ FencingInit

LeaderStep(u, A) == unit = u /\ A /\ UNCHANGED <<unit, fencingVars>>
FencingStep(A) == unit = "fencing" /\ A /\ UNCHANGED <<unit, vars>>

CoordinationNext ==
    \/ LeaderStep("leader", Next) \/ LeaderStep("standby", Two!Next)
    \/ FencingStep(FencingNext)

\* The fairness of Leader: time passes and the loops of the nodes go on.
CoordinationSpec ==
    /\ CoordinationInit /\ [][CoordinationNext]_coordinationVars
    /\ WF_coordinationVars(LeaderStep("standby", Elapse))
    /\ \A c \in Pair : WF_coordinationVars(LeaderStep("standby", Run(c)))

-----------------------------------------------------------------------------
\* Leader: when the other node has stopped, the last one takes over.
StandbyLeads == unit = "standby" => Two!StandbyTakesOver
=============================================================================
