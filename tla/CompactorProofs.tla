-------------------------- MODULE CompactorProofs ---------------------------
(***************************************************************************)
(* Proofs about Compactor, for any sets of keys and values, any threshold  *)
(* and any number of writes: the store implements a map.                   *)
(***************************************************************************)
EXTENDS Compactor, WellFoundedInduction, TLAPS

\* A set of positions that is not empty has a last one.
LEMMA LastExists ==
  ASSUME NEW n \in Nat, NEW H \in SUBSET (1..n), H # {}
  PROVE  \E i \in H : \A j \in H : j <= i
<1> DEFINE T == {n - j : j \in H}
<1>1. T \subseteq Nat /\ T # {}
  <2>1. \A j \in H : n - j \in Nat
    OBVIOUS
  <2>2. PICK j \in H : TRUE
    OBVIOUS
  <2>3. n - j \in T
    OBVIOUS
  <2> QED BY <2>1, <2>3
<1>2. PICK x \in T : \A y \in T : ~ (<<y, x>> \in OpToRel(<, Nat))
  <2> HIDE DEF T
  <2> QED BY <1>1, NatLessThanWellFounded, WFMin, Zenon
<1>3. PICK i \in H : x = n - i
  OBVIOUS
<1>4. ASSUME NEW j \in H PROVE j <= i
  <2>1. n - j \in T /\ n - j \in Nat /\ x \in Nat
    OBVIOUS
  <2>2. ~ (n - j < x)
    BY <1>2, <2>1 DEF OpToRel
  <2> QED BY <1>3, <2>1, <2>2
<1> QED BY <1>4

\* A table is a function whose domain is a set of keys.
LEMMA TableFacts ==
  ASSUME NEW T \in Table
  PROVE  DOMAIN T \subseteq Key /\ T \in [DOMAIN T -> Entry]
BY DEF Table

LEMMA EmptyTableType == EmptyTable \in Table /\ DOMAIN EmptyTable = {}
<1>1. EmptyTable \in [{} -> Entry]
  BY DEF EmptyTable
<1>2. [{} -> Entry] \in {[K -> Entry] : K \in SUBSET Key}
  OBVIOUS
<1> QED BY <1>1, <1>2, Zenon DEF Table, EmptyTable

\* The snapshot in which a search ends.
LEMMA FoundLast ==
  ASSUME NEW S \in Seq(Table), NEW k, Holding(S, k) # {}
  PROVE  \E i \in Holding(S, k) : /\ \A j \in Holding(S, k) : j <= i
                                  /\ Found(S, k) = S[i][k].value
<1> DEFINE H == Holding(S, k)
<1>1. H \in SUBSET (1..Len(S)) /\ Len(S) \in Nat
  BY DEF Holding
<1>2. \E i \in H : \A j \in H : j <= i
  <2> HIDE DEF H
  <2> QED BY <1>1, LastExists DEF H
<1>3. Found(S, k) = S[CHOOSE i \in H : \A j \in H : j <= i][k].value
  BY DEF Found
<1> HIDE DEF H
<1> QED BY <1>2, <1>3 DEF H

\* Any snapshot that no other follows is where a search ends.
LEMMA FoundAt ==
  ASSUME NEW S \in Seq(Table), NEW k, NEW i \in Holding(S, k),
         \A j \in Holding(S, k) : j <= i
  PROVE  Found(S, k) = S[i][k].value
<1>1. PICK l \in Holding(S, k) : /\ \A j \in Holding(S, k) : j <= l
                                 /\ Found(S, k) = S[l][k].value
  BY FoundLast
<1>2. i = l
  BY <1>1 DEF Holding
<1> QED BY <1>1, <1>2

LEMMA HoldingAppend ==
  ASSUME NEW S \in Seq(Table), NEW T \in Table, NEW k
  PROVE  /\ k \in DOMAIN T => Holding(Append(S, T), k) = Holding(S, k) \union {Len(S) + 1}
         /\ k \notin DOMAIN T => Holding(Append(S, T), k) = Holding(S, k)
         /\ \A i \in Holding(S, k) : Append(S, T)[i] = S[i]
         /\ Append(S, T)[Len(S) + 1] = T
BY DEF Holding

\* A new snapshot is searched before the others.
LEMMA FoundAppend ==
  ASSUME NEW S \in Seq(Table), NEW T \in Table, NEW k
  PROVE  Found(Append(S, T), k) = IF k \in DOMAIN T THEN T[k].value ELSE Found(S, k)
<1> DEFINE A == Append(S, T)
<1>0. A \in Seq(Table)
  OBVIOUS
<1>1. CASE k \in DOMAIN T
  <2>1. Len(S) + 1 \in Holding(A, k) /\ \A j \in Holding(A, k) : j <= Len(S) + 1
    BY <1>1, HoldingAppend DEF Holding
  <2>2. Found(A, k) = A[Len(S) + 1][k].value
    BY <1>0, <2>1, FoundAt
  <2> QED BY <1>1, <2>2, HoldingAppend
<1>2. CASE k \notin DOMAIN T /\ Holding(S, k) = {}
  <2>1. Holding(A, k) = {}
    BY <1>2, HoldingAppend
  <2> QED BY <1>2, <2>1 DEF Found
<1>3. CASE k \notin DOMAIN T /\ Holding(S, k) # {}
  <2>1. PICK i \in Holding(S, k) : /\ \A j \in Holding(S, k) : j <= i
                                   /\ Found(S, k) = S[i][k].value
    BY <1>3, FoundLast
  <2>2. Holding(A, k) = Holding(S, k) /\ A[i] = S[i]
    <3>1. k \notin DOMAIN T => Holding(A, k) = Holding(S, k)
      BY HoldingAppend
    <3>2. \A l \in Holding(S, k) : A[l] = S[l]
      BY DEF Holding
    <3> HIDE DEF A
    <3> QED BY <1>3, <3>1, <3>2
  <2>3. Found(A, k) = A[i][k].value
    BY <1>0, <2>1, <2>2, FoundAt
  <2> QED BY <1>3, <2>1, <2>2, <2>3
<1> QED BY <1>1, <1>2, <1>3

-----------------------------------------------------------------------------
(***************************************************************************)
(* Flushing.                                                               *)
(***************************************************************************)

\* Flushing keeps the order of the sequence numbers and what a search finds.
LEMMA FlushFacts ==
  ASSUME NEW T \in Table, snapshots \in Seq(Table), Ordered(snapshots), Older(snapshots, T)
  PROVE  /\ flushLocked(T) \in Seq(Table)
         /\ Ordered(flushLocked(T))
         /\ \A k : Found(flushLocked(T), k) =
                     IF k \in DOMAIN T THEN T[k].value ELSE Found(snapshots, k)
         /\ \A i \in 1..Len(flushLocked(T)) :
              flushLocked(T)[i] = T \/ \E j \in 1..Len(snapshots) : flushLocked(T)[i] = snapshots[j]
<1>1. CASE DOMAIN T = {}
  BY <1>1 DEF flushLocked
<1>2. CASE DOMAIN T # {}
  <2> DEFINE A == Append(snapshots, T)
  <2>1. flushLocked(T) = A
    BY <1>2 DEF flushLocked
  <2>2. A \in Seq(Table)
    OBVIOUS
  <2>3. Ordered(A)
    <3> SUFFICES ASSUME NEW k \in Key, NEW i \in Holding(A, k), NEW j \in Holding(A, k), i < j
                 PROVE  A[i][k].seq < A[j][k].seq
      BY DEF Ordered
    <3>0. \A l \in Holding(snapshots, k) : A[l] = snapshots[l]
      BY DEF Holding
    <3>1. i \in Holding(snapshots, k) /\ A[i] = snapshots[i]
      <4>1. i \in 1..(Len(snapshots) + 1) /\ j \in 1..(Len(snapshots) + 1)
        BY DEF Holding
      <4>2. i # Len(snapshots) + 1
        BY <4>1
      <4>3. i \in Holding(snapshots, k)
        <5>1. k \in DOMAIN T => Holding(A, k) = Holding(snapshots, k) \union {Len(snapshots) + 1}
          BY HoldingAppend
        <5>2. k \notin DOMAIN T => Holding(A, k) = Holding(snapshots, k)
          BY HoldingAppend
        <5> HIDE DEF A
        <5> QED BY <4>2, <5>1, <5>2
      <4> QED BY <3>0, <4>3
    <3>2. CASE j \in Holding(snapshots, k)
      <4>1. A[j] = snapshots[j]
        BY <3>0, <3>2
      <4>2. snapshots[i][k].seq < snapshots[j][k].seq
        BY <3>1, <3>2 DEF Ordered
      <4> QED BY <3>1, <4>1, <4>2
    <3>3. CASE j \notin Holding(snapshots, k)
      <4>1. k \in DOMAIN T /\ A[j] = T
        BY <3>3, HoldingAppend
      <4> QED BY <3>1, <4>1 DEF Older
    <3> QED BY <3>2, <3>3
  <2>4. \A k : Found(A, k) = IF k \in DOMAIN T THEN T[k].value ELSE Found(snapshots, k)
    BY FoundAppend
  <2>5. \A i \in 1..Len(A) : A[i] = T \/ \E j \in 1..Len(snapshots) : A[i] = snapshots[j]
    OBVIOUS
  <2> HIDE DEF A
  <2> QED BY <2>1, <2>2, <2>3, <2>4, <2>5
<1> QED BY <1>1, <1>2

-----------------------------------------------------------------------------
(***************************************************************************)
(* Merging.                                                                *)
(***************************************************************************)

\* The entry with the highest number is in the last snapshot that holds one.
LEMMA NewestIsLast ==
  ASSUME NEW S \in Seq(Table), Ordered(S), NEW k \in Key, NEW i \in Holding(S, k),
         \A j \in Holding(S, k) : j <= i
  PROVE  Newest(S, k) = S[i][k]
<1> DEFINE H == Holding(S, k)
           Top(l) == \A j \in H : S[j][k].seq <= S[l][k].seq
<1>1. \A j \in H : j \in Nat /\ S[j][k].seq \in Nat
  <2> SUFFICES ASSUME NEW j \in H PROVE j \in Nat /\ S[j][k].seq \in Nat
    OBVIOUS
  <2>1. j \in 1..Len(S) /\ k \in DOMAIN S[j] /\ S[j] \in Table
    BY DEF Holding
  <2>2. S[j][k] \in Entry
    BY <2>1, TableFacts
  <2> QED BY <2>1, <2>2 DEF Entry
<1>2. \A j \in H : j # i => S[j][k].seq < S[i][k].seq
  <2> SUFFICES ASSUME NEW j \in H, j # i PROVE S[j][k].seq < S[i][k].seq
    OBVIOUS
  <2>1. j < i
    BY <1>1
  <2> QED BY <2>1 DEF Ordered
<1>3. Top(i) /\ \A l \in H : Top(l) => l = i
  BY <1>1, <1>2
<1>4. Newest(S, k) = S[CHOOSE l \in H : Top(l)][k]
  BY DEF Newest
<1> HIDE DEF H, Top
<1>5. (CHOOSE l \in H : Top(l)) = i
  <2>1. i \in H
    BY DEF H
  <2> QED BY <1>3, <2>1
<1> QED BY <1>4, <1>5

\* The merged table is a table, its live entries are what a search finds.
LEMMA MergeFacts ==
  ASSUME NEW S \in Seq(Table), Ordered(S)
  PROVE  /\ Live(Merge(S)) \in Table
         /\ \A k \in Key : Found(<<Live(Merge(S))>>, k) = Found(S, k)
         /\ \A k \in DOMAIN Live(Merge(S)) :
              \E i \in 1..Len(S) : k \in DOMAIN S[i] /\ Live(Merge(S))[k] = S[i][k]
<1> DEFINE G == Merge(S)
           L == Live(G)
           Dom == {k \in Key : Holding(S, k) # {}}
<1>1. DOMAIN G = Dom /\ \A k \in Dom : G[k] = Newest(S, k)
  BY DEF Merge
<1>2. ASSUME NEW k \in Dom
      PROVE  \E i \in Holding(S, k) : /\ G[k] = S[i][k] /\ G[k] \in Entry
                                      /\ i \in 1..Len(S) /\ k \in DOMAIN S[i]
                                      /\ Found(S, k) = G[k].value
  <2>1. PICK i \in Holding(S, k) : /\ \A j \in Holding(S, k) : j <= i
                                   /\ Found(S, k) = S[i][k].value
    BY FoundLast
  <2>2. G[k] = S[i][k]
    <3>1. Newest(S, k) = S[i][k]
      BY <2>1, NewestIsLast
    <3> QED BY <1>1, <3>1
  <2>3. i \in 1..Len(S) /\ k \in DOMAIN S[i] /\ S[i] \in Table
    BY DEF Holding
  <2>4. S[i][k] \in Entry
    BY <2>3, TableFacts
  <2> QED BY <2>1, <2>2, <2>3, <2>4
<1> HIDE DEF G
<1>3. DOMAIN L = {k \in Dom : ~IsTombstone(G[k])} /\ \A k \in DOMAIN L : L[k] = G[k]
  BY <1>1 DEF Live, Restrict
<1>4. L \in Table
  <2>1. L = [k \in DOMAIN L |-> L[k]]
    BY DEF Live, Restrict
  <2>2. \A k \in DOMAIN L : L[k] \in Entry
    BY <1>2, <1>3
  <2>3. DOMAIN L \in SUBSET Key
    BY <1>3
  <2> HIDE DEF L
  <2>4. L \in [DOMAIN L -> Entry]
    BY <2>1, <2>2
  <2> QED BY <2>3, <2>4 DEF Table
<1> HIDE DEF L
<1>5. ASSUME NEW k \in Key PROVE Found(<<L>>, k) = Found(S, k)
  <2>1. <<L>> \in Seq(Table) /\ Len(<<L>>) = 1 /\ <<L>>[1] = L
    BY <1>4
  <2>2. CASE k \in DOMAIN L
    <3>1. 1 \in Holding(<<L>>, k) /\ \A j \in Holding(<<L>>, k) : j <= 1
      BY <2>1, <2>2 DEF Holding
    <3>2. Found(<<L>>, k) = L[k].value
      BY <2>1, <3>1, FoundAt
    <3> QED BY <1>2, <1>3, <2>2, <3>2
  <2>3. CASE k \notin DOMAIN L
    <3>1. Holding(<<L>>, k) = {}
      BY <2>1, <2>3 DEF Holding
    <3>2. Found(<<L>>, k) = NoValue
      BY <3>1 DEF Found
    <3>3. CASE k \in Dom
      <4>1. IsTombstone(G[k])
        BY <1>3, <2>3, <3>3
      <4> QED BY <1>2, <3>2, <3>3, <4>1 DEF IsTombstone
    <3>4. CASE k \notin Dom
      BY <3>2, <3>4 DEF Found
    <3> QED BY <3>3, <3>4
  <2> QED BY <2>2, <2>3
<1>6. ASSUME NEW k \in DOMAIN L PROVE \E i \in 1..Len(S) : k \in DOMAIN S[i] /\ L[k] = S[i][k]
  BY <1>2, <1>3
<1> QED BY <1>4, <1>5, <1>6 DEF L, G

-----------------------------------------------------------------------------
(***************************************************************************)
(* The invariant.                                                          *)
(***************************************************************************)

\* The entry of a write is newer than all that were there.
LEMMA WrittenFacts ==
  ASSUME Inv, NEW k \in Key, NEW v \in Value \union {NoValue}, seqCounter < MaxSeq
  PROVE  /\ Written(k, v) \in Table
         /\ DOMAIN Written(k, v) = DOMAIN memTable \union {k}
         /\ Written(k, v)[k].value = v
         /\ \A j \in DOMAIN memTable : j # k => Written(k, v)[j] = memTable[j]
         /\ Older(snapshots, Written(k, v))
         /\ \A j \in DOMAIN Written(k, v) : Written(k, v)[j].seq <= seqCounter + 1
<1> DEFINE W == Written(k, v)
<1>1. memTable \in Table /\ snapshots \in Seq(Table) /\ seqCounter \in 0..MaxSeq /\ MaxSeq \in Nat
  BY CompactorAssumption DEF Inv, TypeOK
<1>2. /\ W = [j \in DOMAIN W |-> W[j]]
      /\ DOMAIN W = DOMAIN memTable \union {k}
      /\ W[k] = [value |-> v, seq |-> seqCounter + 1]
      /\ \A j \in DOMAIN memTable : j # k => W[j] = memTable[j]
  BY DEF Written
<1> HIDE DEF W
<1>3. \A j \in DOMAIN memTable : j \in Key /\ memTable[j] \in Entry
  BY <1>1, TableFacts
<1>4. W[k] \in Entry
  BY <1>1, <1>2 DEF Entry
<1>5. W \in Table
  <2>1. DOMAIN W \in SUBSET Key
    BY <1>2, <1>3
  <2>2. \A j \in DOMAIN W : W[j] \in Entry
    BY <1>2, <1>3, <1>4
  <2>3. W \in [DOMAIN W -> Entry]
    BY <1>2, <2>2
  <2> QED BY <2>1, <2>3 DEF Table
<1>6. Older(snapshots, W)
  <2> SUFFICES ASSUME NEW j \in DOMAIN W, NEW i \in Holding(snapshots, j)
               PROVE  snapshots[i][j].seq < W[j].seq
    BY DEF Older
  <2>1. CASE j = k
    <3>1. snapshots[i] \in Table /\ j \in DOMAIN snapshots[i] /\ i \in 1..Len(snapshots)
      BY <1>1 DEF Holding
    <3>2. snapshots[i][j].seq <= seqCounter
      BY <3>1 DEF Inv, Counted
    <3>3. snapshots[i][j].seq \in Nat
      BY <3>1, TableFacts DEF Entry
    <3> QED BY <1>1, <1>2, <2>1, <3>2, <3>3
  <2>2. CASE j # k
    BY <1>2, <2>2 DEF Inv, NewestMetFirst, Older
  <2> QED BY <2>1, <2>2
<1>7. \A j \in DOMAIN W : W[j].seq <= seqCounter + 1
  <2> SUFFICES ASSUME NEW j \in DOMAIN W PROVE W[j].seq <= seqCounter + 1
    OBVIOUS
  <2>1. CASE j = k
    BY <1>1, <1>2, <2>1
  <2>2. CASE j # k
    <3>1. W[j] = memTable[j] /\ memTable[j] \in Entry /\ memTable[j].seq <= seqCounter
      BY <1>2, <1>3, <2>2 DEF Inv, Counted
    <3> QED BY <1>1, <3>1 DEF Entry
  <2> QED BY <2>1, <2>2
<1> QED BY <1>2, <1>5, <1>6, <1>7 DEF W

LEMMA InitInv == Init => Inv
<1> SUFFICES ASSUME Init PROVE Inv
  OBVIOUS
<1>1. memTable = EmptyTable /\ snapshots = <<>> /\ seqCounter = 0 /\ closed = FALSE
  BY DEF Init
<1>2. TypeOK
  <2>1. 0 \in 0..MaxSeq /\ <<>> \in Seq(Table)
    BY CompactorAssumption
  <2> QED BY <1>1, <2>1, EmptyTableType, Zenon DEF TypeOK
<1>3. NewestMetFirst
  BY <1>1, EmptyTableType DEF NewestMetFirst, Ordered, Older, Holding
<1>4. Counted(memTable) /\ \A i \in 1..Len(snapshots) : Counted(snapshots[i])
  BY <1>1, EmptyTableType DEF Counted
<1> QED BY <1>2, <1>3, <1>4 DEF Inv

\* An empty mutable table over snapshots in order.
LEMMA FlushedInv ==
  ASSUME Inv, memTable' = EmptyTable, snapshots' \in Seq(Table), Ordered(snapshots'),
         seqCounter' \in 0..MaxSeq, closed' \in BOOLEAN,
         \A i \in 1..Len(snapshots') : \A k \in DOMAIN snapshots'[i] : snapshots'[i][k].seq <= seqCounter'
  PROVE  Inv'
<1>1. TypeOK'
  BY EmptyTableType DEF TypeOK
<1>2. Older(snapshots', memTable')
  BY EmptyTableType DEF Older
<1>3. NewestMetFirst'
  BY <1>2 DEF NewestMetFirst, Ordered, Older, Holding
<1>4. Counted(memTable)'
  BY EmptyTableType DEF Counted
<1>5. (\A i \in 1..Len(snapshots) : Counted(snapshots[i]))'
  BY DEF Counted
<1> QED BY <1>1, <1>3, <1>4, <1>5 DEF Inv

-----------------------------------------------------------------------------
(***************************************************************************)
(* What each operation does to the invariant and to the map.               *)
(***************************************************************************)

LEMMA FlushedCounted ==
  ASSUME Inv, NEW T \in Table, Older(snapshots, T), NEW n \in Nat, seqCounter <= n,
         \A k \in DOMAIN T : T[k].seq <= n
  PROVE  \A i \in 1..Len(flushLocked(T)) : \A k \in DOMAIN flushLocked(T)[i] : flushLocked(T)[i][k].seq <= n
<1> DEFINE S == flushLocked(T)
<1>1. \A i \in 1..Len(S) : S[i] = T \/ \E j \in 1..Len(snapshots) : S[i] = snapshots[j]
  BY FlushFacts DEF Inv, TypeOK, NewestMetFirst
<1> HIDE DEF S
<1>2. ASSUME NEW j \in 1..Len(snapshots), NEW k \in DOMAIN snapshots[j] PROVE snapshots[j][k].seq <= n
  <2>1. snapshots[j] \in Table
    BY DEF Inv, TypeOK
  <2>2. snapshots[j][k].seq \in Nat
    BY <2>1, TableFacts DEF Entry
  <2>3. snapshots[j][k].seq <= seqCounter /\ seqCounter \in Nat
    BY DEF Inv, TypeOK, Counted
  <2> QED BY <2>2, <2>3
<1> QED BY <1>1, <1>2 DEF S

\* A write changes the map at its key and nowhere else.
LEMMA RecordStep ==
  ASSUME Inv, NEW k \in Key, NEW v \in Value \union {NoValue}, Record(k, v)
  PROVE  Inv' /\ \A j \in Key : Get(j)' = IF j = k THEN v ELSE Get(j)
<1> DEFINE W == Written(k, v)
           S == flushLocked(W)
           full == Cardinality(DOMAIN W) >= FlushThreshold
<1>0. /\ seqCounter < MaxSeq /\ seqCounter' = seqCounter + 1 /\ closed' = closed
      /\ memTable' = IF full THEN EmptyTable ELSE W
      /\ snapshots' = IF full THEN S ELSE snapshots
  BY DEF Record
<1>1. /\ W \in Table /\ DOMAIN W = DOMAIN memTable \union {k} /\ W[k].value = v
      /\ \A j \in DOMAIN memTable : j # k => W[j] = memTable[j]
      /\ Older(snapshots, W)
      /\ \A j \in DOMAIN W : W[j].seq <= seqCounter + 1
  BY <1>0, WrittenFacts
<1>2. /\ snapshots \in Seq(Table) /\ Ordered(snapshots)
      /\ seqCounter \in Nat /\ seqCounter' \in 0..MaxSeq /\ closed' \in BOOLEAN
  BY <1>0, CompactorAssumption DEF Inv, TypeOK, NewestMetFirst
<1> HIDE DEF W, full
<1>3. /\ S \in Seq(Table) /\ Ordered(S)
      /\ \A j : Found(S, j) = IF j \in DOMAIN W THEN W[j].value ELSE Found(snapshots, j)
  BY <1>1, <1>2, FlushFacts
<1>4. \A i \in 1..Len(S) : \A j \in DOMAIN S[i] : S[i][j].seq <= seqCounter'
  BY <1>0, <1>1, <1>2, FlushedCounted
<1> HIDE DEF S
<1>5. Inv'
  <2>1. CASE full
    BY <1>0, <1>2, <1>3, <1>4, <2>1, FlushedInv
  <2>2. CASE ~full
    <3>1. memTable' = W /\ snapshots' = snapshots
      BY <1>0, <2>2
    <3>2. TypeOK'
      BY <1>1, <1>2, <3>1 DEF TypeOK
    <3>3. NewestMetFirst'
      BY <1>1, <1>2, <3>1 DEF NewestMetFirst, Ordered, Older, Holding
    <3>4. Counted(memTable)'
      BY <1>0, <1>1, <3>1 DEF Counted
    <3>5. (\A i \in 1..Len(snapshots) : Counted(snapshots[i]))'
      <4>1. ASSUME NEW i \in 1..Len(snapshots), NEW j \in DOMAIN snapshots[i]
            PROVE  snapshots[i][j].seq <= seqCounter + 1
        <5>1. snapshots[i][j].seq \in Nat
          BY <1>2, TableFacts DEF Entry
        <5>2. snapshots[i][j].seq <= seqCounter
          BY DEF Inv, Counted
        <5> QED BY <1>2, <5>1, <5>2
      <4> QED BY <1>0, <3>1, <4>1 DEF Counted
    <3> QED BY <3>2, <3>3, <3>4, <3>5 DEF Inv
  <2> QED BY <2>1, <2>2
<1>6. ASSUME NEW j \in Key PROVE Get(j)' = IF j \in DOMAIN W THEN W[j].value ELSE Found(snapshots, j)
  <2>1. Get(j)' = IF j \in DOMAIN memTable' THEN memTable'[j].value ELSE Found(snapshots', j)
    BY DEF Get, Found, Holding
  <2>2. CASE full
    BY <1>0, <1>3, <2>1, <2>2, EmptyTableType
  <2>3. CASE ~full
    BY <1>0, <2>1, <2>3
  <2> QED BY <2>2, <2>3
<1>7. ASSUME NEW j \in Key PROVE Get(j)' = IF j = k THEN v ELSE Get(j)
  BY <1>1, <1>6 DEF Get
<1> QED BY <1>5, <1>7

\* Flushing changes nothing in the map.
LEMMA FlushStep ==
  ASSUME Inv, Flush
  PROVE  Inv' /\ \A j \in Key : Get(j)' = Get(j)
<1> DEFINE S == flushLocked(memTable)
<1>1. /\ memTable \in Table /\ snapshots \in Seq(Table) /\ Ordered(snapshots) /\ Older(snapshots, memTable)
      /\ seqCounter \in Nat /\ \A k \in DOMAIN memTable : memTable[k].seq <= seqCounter
  BY DEF Inv, TypeOK, NewestMetFirst, Counted
<1>2. /\ S \in Seq(Table) /\ Ordered(S)
      /\ \A j : Found(S, j) = IF j \in DOMAIN memTable THEN memTable[j].value ELSE Found(snapshots, j)
  BY <1>1, FlushFacts
<1>3. \A i \in 1..Len(S) : \A j \in DOMAIN S[i] : S[i][j].seq <= seqCounter
  BY <1>1, FlushedCounted
<1>4. snapshots' = S /\ memTable' = EmptyTable /\ seqCounter' = seqCounter /\ closed' = closed
  BY DEF Flush
<1>5. seqCounter \in 0..MaxSeq /\ closed \in BOOLEAN
  BY DEF Inv, TypeOK
<1> HIDE DEF S
<1>6. Inv'
  BY <1>2, <1>3, <1>4, <1>5, FlushedInv
<1>7. ASSUME NEW j \in Key PROVE Get(j)' = Get(j)
  <2>1. Get(j)' = IF j \in DOMAIN memTable' THEN memTable'[j].value ELSE Found(snapshots', j)
    BY DEF Get, Found, Holding
  <2>2. Get(j)' = Found(S, j)
    BY <1>4, <2>1, EmptyTableType
  <2> QED BY <1>2, <2>2 DEF Get
<1> QED BY <1>6, <1>7

\* Compacting changes nothing in the map.
LEMMA CompactStep ==
  ASSUME Inv, Compact
  PROVE  Inv' /\ \A j \in Key : Get(j)' = Get(j)
<1> DEFINE S == flushLocked(memTable)
           L == Live(Merge(S))
<1>1. /\ memTable \in Table /\ snapshots \in Seq(Table) /\ Ordered(snapshots) /\ Older(snapshots, memTable)
      /\ seqCounter \in Nat /\ \A k \in DOMAIN memTable : memTable[k].seq <= seqCounter
  BY DEF Inv, TypeOK, NewestMetFirst, Counted
<1>2. /\ S \in Seq(Table) /\ Ordered(S)
      /\ \A j : Found(S, j) = IF j \in DOMAIN memTable THEN memTable[j].value ELSE Found(snapshots, j)
  BY <1>1, FlushFacts
<1>3. \A i \in 1..Len(S) : \A j \in DOMAIN S[i] : S[i][j].seq <= seqCounter
  BY <1>1, FlushedCounted
<1>4. /\ snapshots' = IF S = <<>> THEN <<>> ELSE <<L>>
      /\ memTable' = EmptyTable /\ seqCounter' = seqCounter /\ closed' = closed
  BY DEF Compact
<1>5. seqCounter \in 0..MaxSeq /\ closed \in BOOLEAN
  BY DEF Inv, TypeOK
<1> HIDE DEF S
<1>6. /\ L \in Table
      /\ \A k \in Key : Found(<<L>>, k) = Found(S, k)
      /\ \A k \in DOMAIN L : \E i \in 1..Len(S) : k \in DOMAIN S[i] /\ L[k] = S[i][k]
  BY <1>2, MergeFacts
<1> HIDE DEF L
<1>7. \A k \in DOMAIN L : L[k].seq <= seqCounter
  BY <1>3, <1>6
<1>8. /\ snapshots' \in Seq(Table) /\ Len(snapshots') <= 1
      /\ \A i \in 1..Len(snapshots') : \A k \in DOMAIN snapshots'[i] : snapshots'[i][k].seq <= seqCounter'
  <2>1. CASE S = <<>>
    BY <1>4, <2>1
  <2>2. CASE S # <<>>
    <3>1. snapshots' = <<L>> /\ <<L>> \in Seq(Table) /\ Len(<<L>>) = 1 /\ <<L>>[1] = L
      BY <1>4, <1>6, <2>2
    <3> QED BY <1>4, <1>7, <3>1
  <2> QED BY <2>1, <2>2
<1>9. Ordered(snapshots')
  <2> SUFFICES ASSUME NEW k \in Key, NEW i \in Holding(snapshots', k), NEW j \in Holding(snapshots', k), i < j
               PROVE  FALSE
    BY DEF Ordered
  <2> QED BY <1>8 DEF Holding
<1>10. Inv'
  BY <1>4, <1>5, <1>8, <1>9, FlushedInv
<1>11. ASSUME NEW j \in Key PROVE Get(j)' = Get(j)
  <2>1. Get(j)' = IF j \in DOMAIN memTable' THEN memTable'[j].value ELSE Found(snapshots', j)
    BY DEF Get, Found, Holding
  <2>2. Get(j)' = Found(snapshots', j)
    BY <1>4, <2>1, EmptyTableType
  <2>3. Found(snapshots', j) = Found(S, j)
    <3>1. CASE S = <<>>
      BY <1>4, <3>1
    <3>2. CASE S # <<>>
      BY <1>4, <1>6, <3>2
    <3> QED BY <3>1, <3>2
  <2> QED BY <1>2, <2>2, <2>3 DEF Get
<1> QED BY <1>10, <1>11

LEMMA UnchangedStep ==
  ASSUME Inv, Close \/ UNCHANGED vars
  PROVE  Inv' /\ \A j \in Key : Get(j)' = Get(j)
<1>1. seqCounter' = seqCounter /\ memTable' = memTable /\ snapshots' = snapshots /\ closed' \in BOOLEAN
  BY DEF Close, vars, Inv, TypeOK
<1>2. TypeOK'
  BY <1>1 DEF Inv, TypeOK
<1> QED BY <1>1, <1>2 DEF Inv, NewestMetFirst, Ordered, Older, Holding, Counted, Get, Found

LEMMA NextInv == Inv /\ [Next]_vars => Inv'
<1> SUFFICES ASSUME Inv, [Next]_vars PROVE Inv'
  OBVIOUS
<1>1. ASSUME NEW k \in Key, Delete(k) PROVE Inv'
  BY <1>1, RecordStep DEF Delete
<1>2. ASSUME NEW k \in Key, NEW v \in Value, Put(k, v) PROVE Inv'
  BY <1>2, RecordStep DEF Put
<1>3. CASE Flush
  BY <1>3, FlushStep
<1>4. CASE Compact
  BY <1>4, CompactStep
<1>5. CASE Close \/ UNCHANGED vars
  BY <1>5, UnchangedStep
<1> QED BY <1>1, <1>2, <1>3, <1>4, <1>5 DEF Next

\* The invariant holds in every state of the store, for any threshold and any
\* number of writes.
THEOREM Invariance == Spec => []Inv
BY InitInv, NextInv, PTL DEF Spec

\* Looking up by position and merging by sequence number agree, whatever Put,
\* Delete, Flush and Compact did before.
THEOREM PositionsAgreeWithNumbers == Spec => []NewestMetFirst
<1>1. Inv => NewestMetFirst
  BY DEF Inv
<1> QED BY <1>1, Invariance, PTL

-----------------------------------------------------------------------------
(***************************************************************************)
(* The store implements the map.                                           *)
(***************************************************************************)

LEMMA InitMap == Init => Map!Init
<1> SUFFICES ASSUME Init PROVE Map!Init
  OBVIOUS
<1>1. \A k \in Key : Get(k) = NoValue
  BY EmptyTableType DEF Init, Get, Found, Holding
<1> QED BY <1>1 DEF Map!Init, Init

LEMMA NextMap == Inv /\ [Next]_vars => [Map!Next]_<<[k \in Key |-> Get(k)], closed>>
<1> DEFINE data == [k \in Key |-> Get(k)]
<1> SUFFICES ASSUME Inv, [Next]_vars PROVE [Map!Next]_<<data, closed>>
  OBVIOUS
<1>1. ASSUME NEW k \in Key, NEW v \in Value \union {NoValue}, Record(k, v)
      PROVE  ~closed /\ closed' = closed /\ data' = [data EXCEPT ![k] = v]
  BY <1>1, RecordStep DEF Record
<1>2. ASSUME NEW k \in Key, Delete(k) PROVE Map!Delete(k)
  BY <1>1, <1>2 DEF Delete, Map!Delete
<1>3. ASSUME NEW k \in Key, NEW v \in Value, Put(k, v) PROVE Map!Put(k, v)
  BY <1>1, <1>3 DEF Put, Map!Put
<1>4. CASE Flush
  <2>1. data' = data
    BY <1>4, FlushStep
  <2> QED BY <1>4, <2>1 DEF Flush
<1>5. CASE Compact
  <2>1. data' = data
    BY <1>5, CompactStep
  <2> QED BY <1>5, <2>1 DEF Compact
<1>6. CASE Close
  <2>1. data' = data
    BY <1>6, UnchangedStep
  <2>2. Map!Close
    BY <1>6, <2>1 DEF Close, Map!Close
  <2> QED BY <2>2 DEF Map!Next
<1>7. CASE UNCHANGED vars
  <2>1. data' = data
    BY <1>7, UnchangedStep
  <2> QED BY <1>7, <2>1 DEF vars
<1> QED BY <1>2, <1>3, <1>4, <1>5, <1>6, <1>7 DEF Next, Map!Next

\* The checkpoint store implements a map: Flush and Compact are invisible to
\* readers, a write changes its key only, and a closed store does not change.
THEOREM StoreImplementsMap == Spec => RefinesMap
<1>1. Inv /\ [Next]_vars => [Map!Next]_<<[k \in Key |-> Get(k)], closed>>
  BY NextMap
<1>2. Init => Map!Init
  BY InitMap
<1> QED BY <1>1, <1>2, Invariance, PTL DEF Spec, RefinesMap, Map!Spec
=============================================================================
