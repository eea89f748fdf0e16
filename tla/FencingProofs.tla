--------------------------- MODULE FencingProofs ----------------------------
(***************************************************************************)
(* Proofs about Fencing, for any number of clients, keys and tokens.       *)
(***************************************************************************)
EXTENDS Fencing, TLAPS

USE BoundsAssumption

LEMMA InitInv == FencingInit => FencingInv
BY DEF FencingInit, FencingInv, FencingTypeOK, TokensUnique, AnyKey

\* Only the generator gives a client another token, and it is a new one.
LEMMA AcquireInv ==
  ASSUME FencingInv, NEW c \in Client, AcquireToken(c)
  PROVE  FencingInv'
<1>1. lastToken' = lastToken + 1 /\ held' = [held EXCEPT ![c] = lastToken + 1]
  BY DEF AcquireToken
<1>2. FencingTypeOK'
  BY DEF AcquireToken, FencingInv, FencingTypeOK, storage
<1>3. TokensUnique'
  BY <1>1 DEF FencingInv, FencingTypeOK, TokensUnique
<1>4. (\A d \in Client : held[d] <= lastToken)'
  BY <1>1 DEF FencingInv, FencingTypeOK
<1>5. (active <= lastToken)' /\ (\A k \in Key : author[k] \in {0, highest[k]})'
  BY <1>1 DEF AcquireToken, FencingInv, FencingTypeOK, storage
<1> QED BY <1>2, <1>3, <1>4, <1>5 DEF FencingInv

\* A call of the storage accepts the token or changes nothing.
LEMMA WriteInv ==
  ASSUME FencingInv, NEW c \in Client, Put(c) \/ Delete(c)
  PROVE  FencingInv'
<1>1. UNCHANGED <<generator, held, expired, key>>
  BY DEF Put, Delete
<1>2. FencingTypeOK'
  BY <1>1 DEF Put, Delete, Goto, FencingInv, FencingTypeOK, storage, generator
<1>3. (\A k \in Key : author[k] \in {0, highest[k]})'
  BY DEF Put, Delete, FencingInv, FencingTypeOK, storage
<1> QED BY <1>1, <1>2, <1>3 DEF FencingInv, TokensUnique, generator

LEMMA NextInv == FencingInv /\ [FencingNext]_fencingVars => FencingInv'
<1> SUFFICES ASSUME FencingInv, [FencingNext]_fencingVars PROVE FencingInv'
  OBVIOUS
<1>1. CASE NextEpoch
  BY <1>1 DEF NextEpoch, FencingInv, FencingTypeOK, TokensUnique, clients, storage
<1>2. ASSUME NEW c \in Client, AcquireToken(c) PROVE FencingInv'
  BY <1>2, AcquireInv
<1>3. ASSUME NEW c \in Client, TokenElapse(c) PROVE FencingInv'
  BY <1>3 DEF TokenElapse, FencingInv, FencingTypeOK, TokensUnique, generator, storage
<1>4. ASSUME NEW c \in Client, CheckPreemption(c) \/ ExtendLeaseRecheck(c) PROVE FencingInv'
  BY <1>4 DEF CheckPreemption, ExtendLeaseRecheck, Goto, FencingInv, FencingTypeOK, TokensUnique, generator, storage
<1>5. ASSUME NEW c \in Client, ExtendLease(c) PROVE FencingInv'
  BY <1>5 DEF ExtendLease, Goto, FencingInv, FencingTypeOK, TokensUnique, storage
<1>6. ASSUME NEW c \in Client, NEW k \in Key, Write(c, k, "put") \/ Write(c, k, "delete") PROVE FencingInv'
  BY <1>6 DEF Write, Goto, FencingInv, FencingTypeOK, TokensUnique, generator, storage
<1>7. ASSUME NEW c \in Client, Put(c) \/ Delete(c) PROVE FencingInv'
  BY <1>7, WriteInv
<1>8. CASE UNCHANGED fencingVars
  BY <1>8 DEF fencingVars, generator, clients, storage, FencingInv, FencingTypeOK, TokensUnique
<1> QED BY <1>1, <1>2, <1>3, <1>4, <1>5, <1>6, <1>7, <1>8 DEF FencingNext

\* The invariant holds in every state of the generator, the lease manager and
\* the storage.
THEOREM Invariance == FencingSpec => []FencingInv
BY InitInv, NextInv, PTL DEF FencingSpec

\* AcquireToken never issues a number a second time, even when ExtendLease has
\* put an older token back as the active one.
THEOREM UniqueTokens == FencingSpec => []TokensUnique
<1>1. FencingInv => TokensUnique
  BY DEF FencingInv
<1> QED BY <1>1, Invariance, PTL

\* FencedStorage never lets a superseded token write or delete.
THEOREM ZombiesRejected == FencingSpec => ZombieWritesRejected
<1> DEFINE Forward == \A k \in Key : highest'[k] >= highest[k]
                                     /\ (author'[k] # author[k] => highest'[k] >= author[k])
<1>1. FencingInv /\ [FencingNext]_fencingVars => [Forward]_fencingVars
  <2> SUFFICES ASSUME FencingInv, FencingNext PROVE Forward
    OBVIOUS
  <2>1. ASSUME UNCHANGED storage PROVE Forward
    BY <2>1 DEF FencingInv, FencingTypeOK, storage
  <2>2. ASSUME NEW c \in Client, Put(c) \/ Delete(c) PROVE Forward
    BY <2>1, <2>2 DEF Put, Delete, Stale, FencingInv, FencingTypeOK, storage
  <2>3. UNCHANGED storage \/ \E c \in Client : Put(c) \/ Delete(c)
    BY DEF FencingNext, NextEpoch, AcquireToken, TokenElapse, CheckPreemption, ExtendLeaseRecheck, ExtendLease, Write
  <2> QED BY <2>1, <2>2, <2>3
<1>2. [][Forward]_fencingVars => ZombieWritesRejected
  BY PTL DEF ZombieWritesRejected
<1> QED BY <1>1, <1>2, Invariance, PTL DEF FencingSpec
=============================================================================
