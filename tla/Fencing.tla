------------------------------ MODULE Fencing -------------------------------
(***************************************************************************)
(* Fencing tokens of one resource (internal/fencing): the generator, the   *)
(* lease manager, and the storage that checks the tokens on every write.   *)
(*                                                                         *)
(* Each client holds the last token it was given.  The generator, the      *)
(* lease manager and the storage have one mutex each, and ExtendLease, Put *)
(* and Delete look at the token or at the generator before they take       *)
(* theirs, so they are split there.  Time is reduced to whether the        *)
(* client's copy of the token has expired.                                 *)
(***************************************************************************)
EXTENDS Naturals

CONSTANTS
    Client,      \* the owners of tokens
    Key,         \* the keys of the storage
    MaxToken,    \* bound on the tokens issued
    MaxEpoch     \* bound on the epochs

ASSUME BoundsAssumption == MaxToken \in Nat /\ MaxEpoch \in Nat \ {0} /\ Key # {}

VARIABLES
    lastToken,   \* generator: the last number issued, 0 when none was,
    epoch,       \*   epochs[resource],
    active,      \*   the number of activeTokens[resource], 0 when there is none
    held,        \* per client: the number of its token, 0 when it has none,
    expired,     \*   whether the token is past its ExpiresAt,
    at,          \*   where it is inside a call,
    key,         \*   the key of the call of the storage
    highest,     \* storage: highestToken, 0 for a key never written,
    author       \*   the token of the entry, 0 when there is no entry

generator == <<lastToken, epoch, active>>
clients == <<held, expired, at, key>>
storage == <<highest, author>>
fencingVars == <<generator, clients, storage>>

AnyKey == CHOOSE k \in Key : TRUE

FencingInit ==
    /\ lastToken = 0 /\ epoch = 0 /\ active = 0
    /\ held = [c \in Client |-> 0]
    /\ expired = [c \in Client |-> FALSE]
    /\ at = [c \in Client |-> "idle"]
    /\ key = [c \in Client |-> AnyKey]
    /\ highest = [k \in Key |-> 0]
    /\ author = [k \in Key |-> 0]

Goto(c, l) == at' = [at EXCEPT ![c] = l]

-----------------------------------------------------------------------------
(***************************************************************************)
(* The generator.                                                          *)
(***************************************************************************)

\* Mutant of AcquireToken: the number of the active token is issued again.
AcquireTokenFromActive(c) ==
    /\ at[c] = "idle" /\ lastToken < MaxToken
    /\ lastToken' = active + 1
    /\ active' = active + 1
    /\ epoch' = IF lastToken = 0 THEN 1 ELSE epoch
    /\ held' = [held EXCEPT ![c] = active + 1]
    /\ expired' = [expired EXCEPT ![c] = FALSE]
    /\ UNCHANGED <<at, key, storage>>

AcquireToken(c) ==
    /\ at[c] = "idle" /\ lastToken < MaxToken
    /\ lastToken' = lastToken + 1
    /\ epoch' = IF lastToken = 0 THEN 1 ELSE epoch
    /\ active' = lastToken'
    /\ held' = [held EXCEPT ![c] = lastToken']
    /\ expired' = [expired EXCEPT ![c] = FALSE]
    /\ UNCHANGED <<at, key, storage>>

\* Mutant of NextEpoch: what its comment in token.go says, with the epoch the
\* sequence starts again.
NextEpochResets ==
    /\ epoch < MaxEpoch
    /\ epoch' = epoch + 1
    /\ lastToken' = 0
    /\ UNCHANGED <<active, clients, storage>>

\* The counter goes on in the new epoch.
NextEpoch ==
    /\ epoch < MaxEpoch
    /\ epoch' = epoch + 1
    /\ UNCHANGED <<lastToken, active, clients, storage>>

\* A token expires.
TokenElapse(c) ==
    /\ held[c] > 0 /\ ~expired[c]
    /\ expired' = [expired EXCEPT ![c] = TRUE]
    /\ UNCHANGED <<generator, held, at, key, storage>>

(***************************************************************************)
(* The lease manager.  CheckPreemption reads the generator's active token. *)
(***************************************************************************)

Preempted(c) == active > held[c]

CheckPreemption(c) ==
    /\ at[c] = "idle" /\ held[c] > 0
    /\ ~expired[c] /\ ~Preempted(c)
    /\ Goto(c, "extend")
    /\ UNCHANGED <<generator, held, expired, key, storage>>

\* The second check, under the manager's mutex but not the generator's.
ExtendLeaseRecheck(c) ==
    /\ at[c] = "extend"
    /\ \A d \in Client : at[d] # "update"
    /\ Goto(c, IF Preempted(c) THEN "idle" ELSE "update")
    /\ UNCHANGED <<generator, held, expired, key, storage>>

\* The token with its new deadline becomes the active one.
ExtendLease(c) ==
    /\ at[c] = "update"
    /\ active' = held[c]
    /\ expired' = [expired EXCEPT ![c] = FALSE]
    /\ Goto(c, "idle")
    /\ UNCHANGED <<lastToken, epoch, held, key, storage>>

(***************************************************************************)
(* The storage.  A token is tested for expiry first, then compared with    *)
(* the highest one seen for the key.                                       *)
(***************************************************************************)

Write(c, k, l) ==
    /\ at[c] = "idle" /\ held[c] > 0 /\ ~expired[c]
    /\ Goto(c, l)
    /\ key' = [key EXCEPT ![c] = k]
    /\ UNCHANGED <<generator, held, expired, storage>>

\* Mutant of Stale: the comparison is with the entry, which Delete removes.
StaleEntry(c, k) == author[k] # 0 /\ held[c] < author[k]

Stale(c, k) == highest[k] # 0 /\ held[c] < highest[k]

Put(c) ==
    /\ at[c] = "put"
    /\ IF Stale(c, key[c])
       THEN UNCHANGED storage
       ELSE /\ highest' = [highest EXCEPT ![key[c]] = held[c]]
            /\ author' = [author EXCEPT ![key[c]] = held[c]]
    /\ Goto(c, "idle")
    /\ UNCHANGED <<generator, held, expired, key>>

Delete(c) ==
    /\ at[c] = "delete"
    /\ IF Stale(c, key[c])
       THEN UNCHANGED storage
       ELSE /\ highest' = [highest EXCEPT ![key[c]] = held[c]]
            /\ author' = [author EXCEPT ![key[c]] = 0]
    /\ Goto(c, "idle")
    /\ UNCHANGED <<generator, held, expired, key>>

-----------------------------------------------------------------------------
FencingNext ==
    \/ NextEpoch
    \/ \E c \in Client :
        \/ AcquireToken(c) \/ TokenElapse(c)
        \/ CheckPreemption(c) \/ ExtendLeaseRecheck(c) \/ ExtendLease(c)
        \/ \E k \in Key : Write(c, k, "put") \/ Write(c, k, "delete")
        \/ Put(c) \/ Delete(c)

FencingSpec == FencingInit /\ [][FencingNext]_fencingVars

-----------------------------------------------------------------------------
\* Every variable holds a value of its type.
FencingTypeOK ==
    /\ lastToken \in 0..MaxToken /\ epoch \in 0..MaxEpoch /\ active \in 0..MaxToken
    /\ held \in [Client -> 0..MaxToken]
    /\ expired \in [Client -> BOOLEAN]
    /\ at \in [Client -> {"idle", "extend", "update", "put", "delete"}]
    /\ key \in [Client -> Key]
    /\ highest \in [Key -> 0..MaxToken]
    /\ author \in [Key -> 0..MaxToken]

\* No two clients hold the same token, although ExtendLease may put an old
\* token back as the active one behind the generator's counter, and although
\* epochs change: it rests on NextEpoch not doing what its comment says.
TokensUnique ==
    \A c, d \in Client : c # d /\ held[c] > 0 => held[c] # held[d]

\* A write never replaces, and a delete never removes, what a newer token has
\* written, and a key that was deleted remembers who deleted it: the tokens the
\* storage accepts for a key never go back.
ZombieWritesRejected ==
    [][\A k \in Key : highest'[k] >= highest[k]
                      /\ (author'[k] # author[k] => highest'[k] >= author[k])]_fencingVars

\* The inductive invariant: the generator's counter is ahead of every token in
\* use, whatever ExtendLease and AcquireToken did to the active one.
FencingInv ==
    /\ FencingTypeOK
    /\ TokensUnique
    /\ \A c \in Client : held[c] <= lastToken
    /\ active <= lastToken
    /\ \A k \in Key : author[k] \in {0, highest[k]}

\* LatestToken is the most recently issued token.
LatestTokenIsLatest == active = lastToken

\* NextEpoch resets the sequence of the resource.
EpochResetsSequence == [][NextEpoch => lastToken' = 0]_fencingVars

\* NextEpoch advances the epoch, and nothing takes it back.
EpochAdvances == [][epoch' >= epoch]_fencingVars
=============================================================================
