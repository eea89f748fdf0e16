----------------------------- MODULE Compactor ------------------------------
(***************************************************************************)
(* The checkpoint store of internal/compactor: a mutable table, a list of  *)
(* immutable snapshot tables, tombstones, and the compaction that merges   *)
(* the snapshots.  Every operation holds the store's mutex throughout.     *)
(*                                                                         *)
(* A table is a function from some of the keys to entries; that a snapshot *)
(* keeps its entries sorted and finds them by binary search is left out.   *)
(***************************************************************************)
EXTENDS Naturals, Sequences, FiniteSets, Functions

CONSTANTS
    Key, Value,
    NoValue,        \* the value of a tombstone, and of a key that is not there
    FlushThreshold, \* number of entries before the table is flushed
    MaxSeq          \* bound on the number of writes

ASSUME CompactorAssumption ==
    /\ NoValue \notin Value
    /\ FlushThreshold \in Nat \ {0}
    /\ MaxSeq \in Nat

VARIABLES seqCounter, memTable, snapshots, closed

vars == <<seqCounter, memTable, snapshots, closed>>

Entry == [value : Value \union {NoValue}, seq : 1..MaxSeq]
Table == UNION {[K -> Entry] : K \in SUBSET Key}
EmptyTable == [k \in {} |-> NoValue]

Init ==
    /\ seqCounter = 0
    /\ memTable = EmptyTable
    /\ snapshots = <<>>
    /\ closed = FALSE

IsTombstone(e) == e.value = NoValue

\* The entries of a table that are not tombstones.
Live(T) == Restrict(T, {k \in DOMAIN T : ~IsTombstone(T[k])})

\* Mutant of flushLocked: tombstones are not worth a place in a snapshot.
flushLockedLive(mem) == IF DOMAIN mem = {} THEN snapshots ELSE Append(snapshots, Live(mem))

\* Mutant of flushLocked: the new snapshot goes in front of the others.
flushLockedFront(mem) == IF DOMAIN mem = {} THEN snapshots ELSE <<mem>> \o snapshots

\* The snapshots once the mutable table mem has been flushed.
flushLocked(mem) == IF DOMAIN mem = {} THEN snapshots ELSE Append(snapshots, mem)

\* The mutable table with the next entry in it.
Written(k, value) ==
    [j \in DOMAIN memTable \union {k} |->
        IF j = k THEN [value |-> value, seq |-> seqCounter + 1] ELSE memTable[j]]

\* Put and Delete: the entry goes into the mutable table, which is flushed when
\* it is full.
Record(k, value) ==
    LET mem == Written(k, value)
        full == Cardinality(DOMAIN mem) >= FlushThreshold
    IN  /\ ~closed /\ seqCounter < MaxSeq
        /\ seqCounter' = seqCounter + 1
        /\ memTable' = IF full THEN EmptyTable ELSE mem
        /\ snapshots' = IF full THEN flushLocked(mem) ELSE snapshots
        /\ UNCHANGED closed

Put(k, v) == v \in Value /\ Record(k, v)

Delete(k) == Record(k, NoValue)

Flush ==
    /\ ~closed
    /\ snapshots' = flushLocked(memTable)
    /\ memTable' = EmptyTable
    /\ UNCHANGED <<seqCounter, closed>>

\* The snapshots of S that have an entry for k.
Holding(S, k) == {i \in 1..Len(S) : k \in DOMAIN S[i]}

\* The entry for k with the highest sequence number.
Newest(S, k) ==
    S[CHOOSE i \in Holding(S, k) :
        \A j \in Holding(S, k) : S[j][k].seq <= S[i][k].seq][k]

\* The multi-way merge of all snapshots, tombstones still in it.
Merge(S) == [k \in {j \in Key : Holding(S, j) # {}} |-> Newest(S, k)]

\* With one snapshot the merge is that snapshot; with none there is no table.
Compact ==
    LET S == flushLocked(memTable)
    IN  /\ ~closed
        /\ snapshots' = IF S = <<>> THEN <<>> ELSE <<Live(Merge(S))>>
        /\ memTable' = EmptyTable
        /\ UNCHANGED <<seqCounter, closed>>

Close ==
    /\ closed' = TRUE
    /\ UNCHANGED <<seqCounter, memTable, snapshots>>

\* The snapshots are searched from the newest to the oldest.
Found(S, k) ==
    LET H == Holding(S, k)
    IN  IF H = {} THEN NoValue
        ELSE S[CHOOSE i \in H : \A j \in H : j <= i][k].value

\* Get looks into the mutable table first.
Get(k) == IF k \in DOMAIN memTable THEN memTable[k].value ELSE Found(snapshots, k)

Next ==
    \/ \E k \in Key : Delete(k) \/ \E v \in Value : Put(k, v)
    \/ Flush \/ Compact \/ Close

Spec == Init /\ [][Next]_vars

-----------------------------------------------------------------------------
\* Every variable holds a value of its type.
TypeOK ==
    /\ seqCounter \in 0..MaxSeq
    /\ memTable \in Table
    /\ snapshots \in Seq(Table)
    /\ closed \in BOOLEAN

\* The entries for a key are numbered in the order of the snapshots,
Ordered(S) ==
    \A k \in Key : \A i, j \in Holding(S, k) : i < j => S[i][k].seq < S[j][k].seq

\* and those of the table T come after all of them.
Older(S, T) ==
    \A k \in DOMAIN T : \A i \in Holding(S, k) : S[i][k].seq < T[k].seq

\* Of two entries for a key the one that Get meets first has the higher sequence
\* number: looking up by position, as Get does, and merging by number, as Compact
\* does, agree.
NewestMetFirst == Ordered(snapshots) /\ Older(snapshots, memTable)

\* No entry is numbered past the counter.
Counted(T) == \A k \in DOMAIN T : T[k].seq <= seqCounter

\* The inductive invariant.
Inv ==
    /\ TypeOK
    /\ NewestMetFirst
    /\ Counted(memTable)
    /\ \A i \in 1..Len(snapshots) : Counted(snapshots[i])

\* The store behaves as a map: flushing and compacting change nothing a reader
\* can see, and a deleted key stays deleted.
Map == INSTANCE KVMap WITH data <- [k \in Key |-> Get(k)]

RefinesMap == Map!Spec
=============================================================================
