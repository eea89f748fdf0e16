---------------------------- MODULE LeaderProofs ----------------------------
(***************************************************************************)
(* Inv is inductive for every set of candidates: terms are granted to one  *)
(* node only, so they fence, and a stopped node has given up the lease.    *)
(***************************************************************************)
EXTENDS Leader, TLAPS

\* The initial state satisfies Inv.
LEMMA InitInv == Init => Inv
BY NoneAssumption, MaxTermAssumption
   DEF Init, Inv, TypeOK, TermsGranted, TermsApart, LeadershipKnown

\* Campaign preserves Inv.
LEMMA CampaignInv == ASSUME Inv, NEW c \in Candidate, Campaign(c) PROVE Inv'
<1> USE NoneAssumption, MaxTermAssumption DEF Campaign, Refused, Grant, NewTerm, Go, record, Inv
<1>1. TypeOK'
  BY DEF TypeOK
<1>2. TermsGranted'
  BY DEF TypeOK, TermsGranted, LeadershipKnown
<1>3. TermsApart'
  BY DEF TypeOK, TermsGranted, TermsApart
<1>4. LeadershipKnown'
  BY DEF TypeOK, LeadershipKnown
<1>5. QED
  BY <1>1, <1>2, <1>3, <1>4

\* TriggerElected preserves Inv.
LEMMA TriggerElectedInv == ASSUME Inv, NEW c \in Candidate, TriggerElected(c) PROVE Inv'
<1> USE NoneAssumption, MaxTermAssumption DEF TriggerElected, Go, record, Inv
<1>1. TypeOK'
  BY DEF TypeOK
<1>2. TermsGranted'
  BY DEF TypeOK, TermsGranted, LeadershipKnown
<1>3. TermsApart'
  BY DEF TypeOK, TermsGranted, TermsApart
<1>4. LeadershipKnown'
  BY DEF TypeOK, LeadershipKnown
<1>5. QED
  BY <1>1, <1>2, <1>3, <1>4

\* Renew preserves Inv.
LEMMA RenewInv == ASSUME Inv, NEW c \in Candidate, Renew(c) PROVE Inv'
<1> USE NoneAssumption, MaxTermAssumption DEF Renew, Refused, Grant, NewTerm, Go, record, Inv
<1>1. TypeOK'
  BY DEF TypeOK
<1>2. TermsGranted'
  BY DEF TypeOK, TermsGranted, LeadershipKnown
<1>3. TermsApart'
  BY DEF TypeOK, TermsGranted, TermsApart
<1>4. LeadershipKnown'
  BY DEF TypeOK, LeadershipKnown
<1>5. QED
  BY <1>1, <1>2, <1>3, <1>4

\* SetTerm preserves Inv.
LEMMA SetTermInv == ASSUME Inv, NEW c \in Candidate, SetTerm(c) PROVE Inv'
<1> USE NoneAssumption, MaxTermAssumption DEF SetTerm, Go, record, Inv
<1>1. TypeOK'
  BY DEF TypeOK
<1>2. TermsGranted'
  BY DEF TypeOK, TermsGranted, LeadershipKnown
<1>3. TermsApart'
  BY DEF TypeOK, TermsGranted, TermsApart
<1>4. LeadershipKnown'
  BY DEF TypeOK, LeadershipKnown
<1>5. QED
  BY <1>1, <1>2, <1>3, <1>4

\* Stop preserves Inv.
LEMMA StopInv == ASSUME Inv, NEW c \in Candidate, Stop(c) PROVE Inv'
<1> USE NoneAssumption, MaxTermAssumption DEF Stop, record, Inv
<1>1. TypeOK'
  BY DEF TypeOK
<1>2. TermsGranted'
  BY DEF TypeOK, TermsGranted, LeadershipKnown
<1>3. TermsApart'
  BY DEF TypeOK, TermsGranted, TermsApart
<1>4. LeadershipKnown'
  BY DEF TypeOK, LeadershipKnown
<1>5. QED
  BY <1>1, <1>2, <1>3, <1>4

\* LoopEnds preserves Inv.
LEMMA LoopEndsInv == ASSUME Inv, NEW c \in Candidate, LoopEnds(c) PROVE Inv'
<1> USE NoneAssumption, MaxTermAssumption DEF LoopEnds, Go, record, Inv
<1>1. TypeOK'
  BY DEF TypeOK
<1>2. TermsGranted'
  BY DEF TypeOK, TermsGranted, LeadershipKnown
<1>3. TermsApart'
  BY DEF TypeOK, TermsGranted, TermsApart
<1>4. LeadershipKnown'
  BY DEF TypeOK, LeadershipKnown
<1>5. QED
  BY <1>1, <1>2, <1>3, <1>4

\* StepDown preserves Inv.
LEMMA StepDownInv == ASSUME Inv, NEW c \in Candidate, StepDown(c) PROVE Inv'
<1> USE NoneAssumption, MaxTermAssumption DEF StepDown, AfterStepDown, Go, record, Inv
<1>1. TypeOK'
  BY DEF TypeOK
<1>2. TermsGranted'
  BY DEF TypeOK, TermsGranted, LeadershipKnown
<1>3. TermsApart'
  BY DEF TypeOK, TermsGranted, TermsApart
<1>4. LeadershipKnown'
  BY DEF TypeOK, LeadershipKnown
<1>5. QED
  BY <1>1, <1>2, <1>3, <1>4

\* Release preserves Inv.
LEMMA ReleaseInv == ASSUME Inv, NEW c \in Candidate, Release(c) PROVE Inv'
<1> USE NoneAssumption, MaxTermAssumption DEF Release, ReleaseLease, Go, record, Inv
<1>1. TypeOK'
  BY DEF TypeOK
<1>2. TermsGranted'
  BY DEF TypeOK, TermsGranted, LeadershipKnown
<1>3. TermsApart'
  BY DEF TypeOK, TermsGranted, TermsApart
<1>4. LeadershipKnown'
  BY DEF TypeOK, LeadershipKnown
<1>5. QED
  BY <1>1, <1>2, <1>3, <1>4

\* TriggerRevoked preserves Inv.
LEMMA TriggerRevokedInv == ASSUME Inv, NEW c \in Candidate, TriggerRevoked(c) PROVE Inv'
<1> USE NoneAssumption, MaxTermAssumption DEF TriggerRevoked, AfterStepDown, Go, record, Inv
<1>1. TypeOK'
  BY DEF TypeOK
<1>2. TermsGranted'
  BY DEF TypeOK, TermsGranted, LeadershipKnown
<1>3. TermsApart'
  BY DEF TypeOK, TermsGranted, TermsApart
<1>4. LeadershipKnown'
  BY DEF TypeOK, LeadershipKnown
<1>5. QED
  BY <1>1, <1>2, <1>3, <1>4

\* The passing of time preserves Inv.
LEMMA ElapseInv == ASSUME Inv, Elapse PROVE Inv'
BY DEF Elapse, nodes, Inv, TypeOK, TermsGranted, TermsApart, LeadershipKnown

\* Every step preserves Inv.
LEMMA NextInv == Inv /\ [Next]_vars => Inv'
<1> SUFFICES ASSUME Inv, [Next]_vars PROVE Inv'
  OBVIOUS
<1>1. CASE Elapse
  BY <1>1, ElapseInv
<1>2. ASSUME NEW c \in Candidate, Run(c) PROVE Inv'
  BY <1>2, CampaignInv, TriggerElectedInv, RenewInv, SetTermInv, LoopEndsInv,
     StepDownInv, ReleaseInv, TriggerRevokedInv DEF Run
<1>3. ASSUME NEW c \in Candidate, Stop(c) PROVE Inv'
  BY <1>3, StopInv
<1>4. CASE UNCHANGED vars
  BY <1>4 DEF vars, record, nodes, Inv, TypeOK, TermsGranted, TermsApart,
              LeadershipKnown
<1>5. QED
  BY <1>1, <1>2, <1>3, <1>4 DEF Next

\* Terms are granted once, and leadership is never held unknowingly, for every
\* number of candidates.
THEOREM Invariance == Spec => []Inv
<1>1. QED
  BY InitInv, NextInv, PTL DEF Spec

\* Two nodes that both believe they lead differ in their fencing term.
THEOREM Fencing == Spec => []TermsFence
<1>1. Inv => TermsFence
  BY DEF Inv, TermsGranted, TermsApart, TermsFence, TypeOK
<1>2. QED
  BY <1>1, Invariance, PTL

\* The node the coordinator names has the newest term.
THEOREM HolderNewest == Spec => []HolderHasNewestTerm
<1>1. Inv => HolderHasNewestTerm
  BY NoneAssumption
     DEF Inv, TermsGranted, HolderHasNewestTerm, TypeOK
<1>2. QED
  BY <1>1, Invariance, PTL

\* After Stop the lease is free and the observers know.
THEOREM StopReleases == Spec => []StoppedYields
<1>1. Inv => StoppedYields
  BY DEF Inv, LeadershipKnown, StoppedYields
<1>2. QED
  BY <1>1, Invariance, PTL

\* No step takes a node's term back.
THEOREM TermsMonotone == Spec => TermsGrow
<1> DEFINE Grow == \A c \in Candidate : term'[c] >= term[c]
<1>1. ASSUME Inv, [Next]_vars PROVE [Grow]_vars
  <2>1. ASSUME NEW c \in Candidate, Campaign(c) PROVE Grow
    BY <1>1, <2>1, MaxTermAssumption
       DEF Inv, TypeOK, TermsGranted, Campaign, Grant, NewTerm
  <2>2. ASSUME NEW c \in Candidate, SetTerm(c) PROVE Grow
    BY <1>1, <2>2, MaxTermAssumption DEF Inv, TypeOK, TermsGranted, SetTerm
  <2>3. CASE UNCHANGED term
    BY <1>1, <2>3, MaxTermAssumption DEF Inv, TypeOK
  <2>4. QED
    BY <1>1, <2>1, <2>2, <2>3
       DEF Next, Run, Elapse, nodes, TriggerElected, Renew, Stop, LoopEnds,
           StepDown, Release, TriggerRevoked
<1>2. QED
  BY <1>1, Invariance, PTL DEF Spec, TermsGrow

\* A lease that has not run out is vacated by its holder alone, for every number
\* of candidates.
THEOREM LeaseKept == Spec => FreshLeaseKept
<1> DEFINE Kept == \A c \in Candidate :
        leaderID = c /\ leaderID' # c => lease # "fresh" \/ pc[c] = "release"
<1>1. ASSUME [Next]_vars PROVE [Kept]_vars
  <2>1. ASSUME NEW c \in Candidate, Campaign(c) PROVE Kept
    BY <2>1, NoneAssumption DEF Campaign, Refused, Grant, record
  <2>2. ASSUME NEW c \in Candidate, Renew(c) PROVE Kept
    BY <2>2, NoneAssumption DEF Renew, Refused, Grant, record
  <2>3. ASSUME NEW c \in Candidate, Release(c) PROVE Kept
    BY <2>3 DEF Release, ReleaseLease, record
  <2>4. CASE UNCHANGED leaderID
    BY <2>4
  <2>5. QED
    BY <1>1, <2>1, <2>2, <2>3, <2>4
       DEF Next, Run, Elapse, record, TriggerElected, SetTerm, Stop, LoopEnds,
           StepDown, TriggerRevoked
<1>2. QED
  BY <1>1, PTL DEF Spec, FreshLeaseKept

=============================================================================
