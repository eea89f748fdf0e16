----------------------------- MODULE MCStorage ------------------------------
(***************************************************************************)
(* The stores of internal/ that keep data: the checkpoint store and the    *)
(* write-ahead log.  They share no state, so a behaviour is about one of   *)
(* them, its unit, chosen at the start.                                    *)
(*                                                                         *)
(*   compactor  the checkpoint store                                       *)
(*   wal        the log where a crash leaves whole lines and nothing is    *)
(*              truncated                                                  *)
(*   faults     the log with torn lines, and Truncate                      *)
(***************************************************************************)
EXTENDS Compactor

CONSTANTS
    SyncEvery, MaxWrites, MaxCrashes,
    LongEntries,                 \* whether some entries pass the scanner's limit
    MaxFaultyWrites, Truncates   \* unit faults: its bound, and whether Truncate is called

VARIABLES unit, file, synced, buffer, index, walPc, writes, crashes, owed

Whole == INSTANCE Wal WITH pc <- walPc, TornWrites <- FALSE, Truncations <- FALSE
Torn == INSTANCE Wal WITH pc <- walPc, TornWrites <- TRUE, Truncations <- Truncates,
                          MaxWrites <- MaxFaultyWrites

walVars == <<file, synced, buffer, index, walPc, writes, crashes, owed>>
storageVars == <<unit, vars, walVars>>

StorageInit ==
    /\ unit \in {"compactor", "wal", "faults"}
    /\ Init /\ Whole!Init

StorageNext ==
    \/ unit = "compactor" /\ Next /\ UNCHANGED <<unit, walVars>>
    \/ unit = "wal" /\ Whole!Next /\ UNCHANGED <<unit, vars>>
    \/ unit = "faults" /\ Torn!Next /\ UNCHANGED <<unit, vars>>

StorageSpec == StorageInit /\ [][StorageNext]_storageVars

-----------------------------------------------------------------------------
\* Wal: what can be read has increasing indices, and the next index is past all
\* of them, whatever was torn, truncated, lost or too long.
IndicesIncrease == Whole!IndicesIncrease

\* Wal: where lines are not torn and nothing is truncated, an entry that was
\* synced can be read after any crash, unless it is, or comes after, a line that
\* is too long for the scanner.
SyncedEntriesSurvive == unit = "wal" => Whole!SyncedPrefixSurvives

\* Wal: the log is crash-consistent, a line that was torn in a crash included.
CrashConsistent == Whole!SyncedEntriesSurvive

\* Wal: an entry that Append took and synced can be read, however long it is.
LongEntriesSurvive == unit = "wal" => Whole!SyncedEntriesSurvive
=============================================================================
