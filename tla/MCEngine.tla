------------------------------ MODULE MCEngine ------------------------------
(***************************************************************************)
(* Engine on small workflows: a fan-in (a and b are independent, c waits   *)
(* for both) and a chain (b waits for a).                                  *)
(***************************************************************************)
EXTENDS Engine, TLC

CONSTANTS a, b, c

JoinSteps == {a, b, c}
JoinDependsOn == (a :> {}) @@ (b :> {}) @@ (c :> {a, b})

ChainSteps == {a, b}
ChainDependsOn == (a :> {}) @@ (b :> {a})

\* The slots of the pool are interchangeable.
WorkerSymmetry == Permutations(Worker)

=============================================================================
