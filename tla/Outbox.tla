------------------------------- MODULE Outbox -------------------------------
(***************************************************************************)
(* The outbox of internal/outbox: a memory store of messages and the       *)
(* processors that hand the due ones to their handlers on every tick.      *)
(*                                                                         *)
(* Handlers run outside the store's mutex, and clients save and delete     *)
(* messages meanwhile.  The store keeps pointers, so what a processor      *)
(* writes to a message it has listed shows in the store at once; Update    *)
(* puts the message into the map, even one that was deleted since.         *)
(* Clients use an ID once.                                                 *)
(*                                                                         *)
(* Two processors may have listed one message, and nothing protects its    *)
(* fields: RetryCount++ is a read and a write that another processor's may *)
(* come between, and the test of it a read of its own.                     *)
(***************************************************************************)
EXTENDS Naturals, FiniteSets, FiniteSetsExt

CONSTANTS
    Processor, Id,
    Unhandled,    \* the messages whose type has no handler
    Limit,        \* of ListPending
    MaxRetries    \* failures after which a message is given up

VARIABLES
    stored,       \* the messages in the map
    status,       \* message -> its Status, or "new" before it is saved
    retryCount,   \* message -> RetryCount
    due,          \* the messages whose NextRetry is zero or has passed
    batch,        \* processor -> listed messages it has not come to yet
    current,      \* processor -> the message it is working on, if any,
    at,           \*   where it is with it: "call" while its handler runs, "count" and
                  \*   "decide" after an error,
    read,         \*   and the RetryCount it has read
    loop,         \* processor -> whether its loop runs, was told to stop, has ended
    calls,        \* history: message -> handler calls so far,
    failures      \*   and how many of them failed

work == <<batch, current, at, read>>
history == <<calls, failures>>
vars == <<stored, status, retryCount, due, work, loop, history>>

Busy(p) == batch[p] # {} \/ current[p] # {}

\* The history counts up to these; more need not be told apart.
MaxCalls == MaxRetries + 1
UpTo(max, n) == Min({max, n})

TypeOK ==
    /\ stored \subseteq Id /\ due \subseteq Id
    /\ loop \in [Processor -> {"runs", "stopping", "ended"}]
    /\ status \in [Id -> {"new", "pending", "sent", "failed"}]
    /\ retryCount \in [Id -> Nat] /\ read \in [Processor -> Nat]
    /\ calls \in [Id -> 0..MaxCalls] /\ failures \in [Id -> 0..MaxRetries]
    /\ batch \in [Processor -> SUBSET Id] /\ current \in [Processor -> SUBSET Id]
    /\ at \in [Processor -> {"loop", "call", "count", "decide"}]

Init ==
    /\ stored = {} /\ status = [m \in Id |-> "new"] /\ retryCount = [m \in Id |-> 0]
    /\ due = {} /\ batch = [p \in Processor |-> {}] /\ current = [p \in Processor |-> {}]
    /\ at = [p \in Processor |-> "loop"] /\ read = [p \in Processor |-> 0]
    /\ loop = [p \in Processor |-> "runs"]
    /\ calls = [m \in Id |-> 0] /\ failures = [m \in Id |-> 0]

-----------------------------------------------------------------------------
Save(m) ==
    /\ status[m] = "new"
    /\ stored' = stored \cup {m} /\ due' = due \cup {m}
    /\ status' = [status EXCEPT ![m] = "pending"]
    /\ UNCHANGED <<retryCount, work, loop, history>>

Delete(m) ==
    /\ m \in stored
    /\ stored' = stored \ {m}
    /\ UNCHANGED <<status, retryCount, due, work, loop, history>>

\* Mutant: only messages that never failed are listed.
PendingFresh == {m \in stored : status[m] = "pending" /\ retryCount[m] = 0}

Pending == {m \in stored : status[m] = "pending" /\ m \in due}

\* A tick: ListPending takes what is due, in the order of the map, up to the limit.
ListPending(p) ==
    /\ ~Busy(p) /\ loop[p] # "ended"
    /\ \E n \in {Min({Limit, Cardinality(Pending)})} :
        \E S \in kSubset(n, Pending) : batch' = [batch EXCEPT ![p] = S]
    /\ UNCHANGED <<stored, status, retryCount, due, current, at, read, loop, history>>

\* A message without a handler fails at once.
Reject(p) ==
    /\ at[p] = "loop"
    /\ \E m \in batch[p] \cap Unhandled :
        /\ batch' = [batch EXCEPT ![p] = @ \ {m}]
        /\ status' = [status EXCEPT ![m] = "failed"]
        /\ retryCount' = [retryCount EXCEPT ![m] = @ + 1]
        /\ stored' = stored \cup {m}
    /\ UNCHANGED <<due, current, at, read, loop, history>>

\* A handler is called, whatever has become of the message since it was listed.
Handle(p) ==
    /\ at[p] = "loop"
    /\ \E m \in batch[p] \ Unhandled :
        /\ batch' = [batch EXCEPT ![p] = @ \ {m}]
        /\ current' = [current EXCEPT ![p] = {m}]
        /\ calls' = [calls EXCEPT ![m] = UpTo(MaxCalls, @ + 1)]
    /\ at' = [at EXCEPT ![p] = "call"]
    /\ UNCHANGED <<stored, status, retryCount, due, read, loop, failures>>

\* The processor is done with its message, and Update has put it into the map.
Updated(p) ==
    /\ stored' = stored \cup current[p]
    /\ current' = [current EXCEPT ![p] = {}]
    /\ at' = [at EXCEPT ![p] = "loop"]
    /\ read' = [read EXCEPT ![p] = 0]

HandlerSucceeds(p) ==
    /\ at[p] = "call"
    /\ \E m \in current[p] : status' = [status EXCEPT ![m] = "sent"]
    /\ Updated(p)
    /\ UNCHANGED <<retryCount, due, batch, loop, history>>

\* An error: RetryCount++ reads the count ...
HandlerFails(p) ==
    /\ at[p] = "call"
    /\ \E m \in current[p] :
        /\ read' = [read EXCEPT ![p] = retryCount[m]]
        /\ failures' = [failures EXCEPT ![m] = UpTo(MaxRetries, @ + 1)]
    /\ at' = [at EXCEPT ![p] = "count"]
    /\ UNCHANGED <<stored, status, retryCount, due, batch, current, loop, calls>>

\* Mutant: the failure is not counted.
CountFailureNot(p) ==
    /\ at[p] = "count"
    /\ at' = [at EXCEPT ![p] = "decide"]
    /\ UNCHANGED <<stored, status, retryCount, due, batch, current, read, loop, history>>

\* ... and writes it.
CountFailure(p) ==
    /\ at[p] = "count"
    /\ \E m \in current[p] : retryCount' = [retryCount EXCEPT ![m] = read[p] + 1]
    /\ at' = [at EXCEPT ![p] = "decide"]
    /\ UNCHANGED <<stored, status, due, batch, current, read, loop, history>>

\* Mutant: a message that was settled meanwhile is not tried again.
RetryOrGiveUpSettled(p) ==
    /\ at[p] = "decide"
    /\ \E m \in current[p] : \E n \in {retryCount[m], read[p] + 1} :
        IF n >= MaxRetries \/ status[m] # "pending"
        THEN status' = [status EXCEPT ![m] = "failed"] /\ UNCHANGED due
        ELSE UNCHANGED status /\ due' = due \ {m}
    /\ Updated(p)
    /\ UNCHANGED <<retryCount, batch, loop, history>>

\* The message is given up after MaxRetries failures, and waits until then.  The
\* count that is tested is the one in the message, or the one just written.
RetryOrGiveUp(p) ==
    /\ at[p] = "decide"
    /\ \E m \in current[p] : \E n \in {retryCount[m], read[p] + 1} :
        IF n >= MaxRetries
        THEN status' = [status EXCEPT ![m] = "failed"] /\ UNCHANGED due
        ELSE status' = [status EXCEPT ![m] = "pending"] /\ due' = due \ {m}
    /\ Updated(p)
    /\ UNCHANGED <<retryCount, batch, loop, history>>

\* The backoff of a message is over.
Elapse(m) ==
    /\ status[m] # "new" /\ m \notin due
    /\ due' = due \cup {m}
    /\ UNCHANGED <<stored, status, retryCount, work, loop, history>>

\* Stop, or the end of the context: the loop ends between two ticks, and may take
\* another tick that is ready before it does.
Stop(p) ==
    /\ loop[p] = "runs"
    /\ loop' = [loop EXCEPT ![p] = "stopping"]
    /\ UNCHANGED <<stored, status, retryCount, due, work, history>>

End(p) ==
    /\ loop[p] = "stopping" /\ ~Busy(p)
    /\ loop' = [loop EXCEPT ![p] = "ended"]
    /\ UNCHANGED <<stored, status, retryCount, due, work, history>>

Work(p) ==
    \/ ListPending(p) \/ Reject(p) \/ Handle(p)
    \/ HandlerSucceeds(p) \/ HandlerFails(p) \/ CountFailure(p) \/ RetryOrGiveUp(p)

Next ==
    \/ \E m \in Id : Save(m) \/ Delete(m) \/ Elapse(m)
    \/ \E p \in Processor : Work(p) \/ Stop(p) \/ End(p)

-----------------------------------------------------------------------------
\* A message is given up only after its handlers have failed MaxRetries times in
\* all, although the processors that listed it together count the failures in one
\* unprotected field, and some call it after it was sent or given up: counts are
\* lost, and never made up.
GivenUpEarned ==
    \A m \in Id \ Unhandled : status[m] = "failed" => failures[m] >= MaxRetries

\* A handler is never called for a message that was sent or given up.
NoDoubleDelivery ==
    [][\A m \in Id : calls'[m] > calls[m] => status[m] = "pending"]_vars

\* RetryCount says how often the handler was called: once more when the message
\* was sent or its call is not counted yet.  So a message is tried MaxRetries
\* times at most, and given up as soon as the last failure is dealt with.
AttemptsCounted ==
    \A m \in Id \ Unhandled :
        LET On(l) == {p \in Processor : m \in current[p] /\ at[p] \in l}
        IN  /\ calls[m] = retryCount[m] + Cardinality(On({"call", "count"}))
                          + (IF status[m] = "sent" THEN 1 ELSE 0)
            /\ status[m] = "failed" <=> retryCount[m] = MaxRetries /\ On({"decide"}) = {}

\* Every message is sent or given up in the end, unless a client deletes it or
\* the processors stop.
Settles ==
    \A m \in Id :
        status[m] = "pending" ~>
            status[m] # "pending" \/ m \notin stored \/ \A p \in Processor : loop[p] # "runs"
=============================================================================
