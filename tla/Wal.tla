-------------------------------- MODULE Wal ---------------------------------
(***************************************************************************)
(* The write-ahead log of internal/wal, with crashes.                      *)
(*                                                                         *)
(* An entry is a line of JSON.  Its bytes are three chunks: the first part *)
(* of the JSON, the rest of it, and the newline.  The buffered writer may  *)
(* hand any prefix of its bytes to the file; a crash of the process loses  *)
(* the buffer, a power failure also what was not synced.  A line that does *)
(* not parse is skipped when the file is read.                             *)
(*                                                                         *)
(* Append takes entries of any length, but the bufio.Scanner that reads    *)
(* the file stops with an error at a line of 64 KiB or more.  A long entry *)
(* is one whose JSON passes that limit, in its second part; the lines of   *)
(* the others, and what is left of two torn ones, stay below it.           *)
(***************************************************************************)
EXTENDS Integers, SequencesExt

CONSTANTS
    SyncEvery,    \* the log is synced when the index is a multiple of this
    MaxWrites,    \* bound on the calls of Append
    MaxCrashes,   \* bound on the crashes
    TornWrites,   \* whether the file may end inside a line
    Truncations,  \* whether Truncate is called
    LongEntries   \* whether some entries are long

VARIABLES
    file,     \* the bytes of the file,
    synced,   \*   how many of them are on the disk
    buffer,   \* the bytes in the writer
    index,    \* the index of the last entry
    pc,       \* "closed", "open", or "truncating" inside Truncate
    writes,   \* how many entries were ever appended; numbers them
    crashes,
    owed      \* history: the entries that were synced and not truncated

vars == <<file, synced, buffer, index, pc, writes, crashes, owed>>

Init ==
    /\ file = <<>> /\ synced = 0
    /\ buffer = <<>> /\ index = 0
    /\ pc = "closed"
    /\ writes = 0 /\ crashes = 0 /\ owed = {}

Newline == 3

Line(e) ==
    [part \in 1..Newline |->
        [id |-> e.id, index |-> e.index, long |-> e.long, part |-> part]]

-----------------------------------------------------------------------------
(***************************************************************************)
(* Reading.                                                                *)
(***************************************************************************)

\* The entries of the lines of f that parse: a line that holds the two parts of
\* one entry and nothing else.  The last line need not have a newline.
Parsed(f) ==
    {f[p] : p \in {q \in 1..(Len(f) - 1) :
        /\ f[q].part = 1
        /\ f[q + 1] = [f[q] EXCEPT !.part = 2]
        /\ q = 1 \/ f[q - 1].part = Newline
        /\ q + 1 = Len(f) \/ f[q + 2].part = Newline}}

\* Where the lines of f pass the limit of the scanner.
TooLong(f) == {n \in 1..Len(f) : f[n].long /\ f[n].part = 2}

\* scanner.Err() after the file was scanned.
ScanFails(f) == TooLong(f) # {}

\* The lines Scan returns: all, or those before the first that is too long.
Scanned(f) ==
    IF ScanFails(f)
    THEN SubSeq(f, 1, Max({0} \union {n \in 1..Min(TooLong(f)) : f[n].part = Newline}))
    ELSE f

\* The entries readAll returns, in the order of the file.
readAll(f) == SelectSeq(Scanned(f), LAMBDA c : c \in Parsed(Scanned(f)))

\* Mutant of replay: the number of the lines.
replayCount(f) == Cardinality(Parsed(Scanned(f)))

\* The highest index that was scanned, 0 when there is none.
replay(f) == Max({0} \union {e.index : e \in Parsed(Scanned(f))})

-----------------------------------------------------------------------------
(***************************************************************************)
(* Writing.                                                                *)
(***************************************************************************)

\* The lengths at which the bytes of s may be cut.
Cuts(s) == {n \in 0..Len(s) : TornWrites \/ n = 0 \/ s[n].part = Newline}

Flush(bytes) == file' = file \o bytes /\ buffer' = <<>>

\* Mutant of Synced: the writer is flushed and the file is not synced.
SyncedNot(i) == FALSE

Synced(i) == SyncEvery > 0 /\ i % SyncEvery = 0

\* The entries of s whose newline was written.
Ids(s) == {s[n].id : n \in {m \in 1..Len(s) : s[m].part = Newline}}

\* The bytes of the entry go to the writer, and on to the file as far as the
\* writer or the sync takes them.
Store(i, long) ==
    LET bytes == buffer \o Line([id |-> writes + 1, index |-> i, long |-> long])
    IN  IF Synced(i)
        THEN /\ Flush(bytes)
             /\ synced' = Len(file')
        ELSE /\ \E n \in Cuts(bytes) :
                    /\ file' = file \o SubSeq(bytes, 1, n)
                    /\ buffer' = SubSeq(bytes, n + 1, Len(bytes))
             /\ UNCHANGED synced

\* History: at the multiples of SyncEvery the caller may count on what it wrote.
AppendEntry ==
    /\ pc = "open" /\ writes < MaxWrites
    /\ writes' = writes + 1
    /\ index' = index + 1
    /\ \E long \in {FALSE, LongEntries} : Store(index + 1, long)
    /\ owed' = IF SyncEvery > 0 /\ index' % SyncEvery = 0
               THEN owed \union Ids(file' \o buffer') ELSE owed
    /\ UNCHANGED <<pc, crashes>>

\* Open returns an error and no log when replay does.
Open ==
    /\ pc = "closed" /\ ~ScanFails(file)
    /\ index' = replay(file)
    /\ buffer' = <<>>
    /\ pc' = "open"
    /\ UNCHANGED <<file, synced, writes, crashes, owed>>

Close ==
    /\ pc = "open"
    /\ Flush(buffer)
    /\ pc' = "closed"
    /\ UNCHANGED <<synced, index, writes, crashes, owed>>

\* Truncate reads the file, not the buffer, and leaves all as it is when that
\* fails; otherwise it empties the file, and has the entries it keeps in a new
\* writer.
Truncate(afterIndex) ==
    LET keep == SelectSeq(readAll(file), LAMBDA e : e.index <= afterIndex)
    IN  /\ Truncations /\ pc = "open" /\ ~ScanFails(file)
        /\ file' = <<>> /\ synced' = 0
        /\ buffer' = FlattenSeq([n \in 1..Len(keep) |-> Line(keep[n])])
        /\ index' = IF keep = <<>> THEN 0 ELSE Last(keep).index
        /\ owed' = owed \ {e.id : e \in {c \in Parsed(file) : c.index > afterIndex}}
        /\ pc' = "truncating"
        /\ UNCHANGED <<writes, crashes>>

TruncateEnd ==
    /\ pc = "truncating"
    /\ Flush(buffer)
    /\ pc' = "open"
    /\ UNCHANGED <<synced, index, writes, crashes, owed>>

-----------------------------------------------------------------------------
(***************************************************************************)
(* Crashes.                                                                *)
(***************************************************************************)

\* The process ends: the buffer is lost.
Crash ==
    /\ pc # "closed" /\ crashes < MaxCrashes
    /\ crashes' = crashes + 1
    /\ pc' = "closed"
    /\ buffer' = <<>>
    /\ UNCHANGED <<file, synced, index, writes, owed>>

\* The power fails: of what was not synced any prefix may be on the disk.
PowerLoss ==
    /\ crashes < MaxCrashes
    /\ crashes' = crashes + 1
    /\ pc' = "closed"
    /\ buffer' = <<>>
    /\ \E n \in Cuts(file) : n >= synced /\ file' = SubSeq(file, 1, n) /\ synced' = n
    /\ UNCHANGED <<index, writes, owed>>

Next ==
    \/ AppendEntry \/ Open \/ Close
    \/ \E i \in 0..MaxWrites : Truncate(i)
    \/ TruncateEnd
    \/ Crash \/ PowerLoss

Spec == Init /\ [][Next]_vars

-----------------------------------------------------------------------------
\* What the file and the writer together would give a reader has increasing
\* indices, and an open log numbers its next entry past all of them, whatever
\* was torn, truncated, lost or too long.
IndicesIncrease ==
    LET es == readAll(file \o buffer)
    IN  /\ \A m, n \in 1..Len(es) : m < n => es[m].index < es[n].index
        /\ pc # "closed" => \A n \in 1..Len(es) : es[n].index <= index

\* The entries readAll gives back to the callers of ReadAll.
Readable == {readAll(file)[n].id : n \in 1..Len(readAll(file))}

\* An entry that was synced can be read from the file after any crash, in
\* Truncate or outside.
SyncedEntriesSurvive == pc # "truncating" => owed \subseteq Readable

\* The same for the entries before the first line that is too long; those
\* behind it are cut off with it, and nothing else is.
SyncedPrefixSurvives ==
    pc # "truncating" =>
        \A id \in owed :
            \/ id \in Readable
            \/ \E n \in 1..Len(file), m \in TooLong(file) : file[n].id = id /\ n >= m - 1
=============================================================================
