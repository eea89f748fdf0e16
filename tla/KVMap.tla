------------------------------- MODULE KVMap --------------------------------
(***************************************************************************)
(* What the versioned stores of the system promise: a map from keys to     *)
(* values that changes one key at a time, and not at all once closed.      *)
(***************************************************************************)
CONSTANTS Key, Value, NoValue

VARIABLES data, closed

Init ==
    /\ data = [k \in Key |-> NoValue]
    /\ closed = FALSE

Put(k, v) ==
    /\ ~closed
    /\ data' = [data EXCEPT ![k] = v]
    /\ UNCHANGED closed

Delete(k) ==
    /\ ~closed
    /\ data' = [data EXCEPT ![k] = NoValue]
    /\ UNCHANGED closed

Close ==
    /\ closed' = TRUE
    /\ UNCHANGED data

Next ==
    \/ \E k \in Key : Delete(k) \/ \E v \in Value : Put(k, v)
    \/ Close

Spec == Init /\ [][Next]_<<data, closed>>
=============================================================================
