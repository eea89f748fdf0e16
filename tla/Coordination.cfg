CONSTANTS
    Candidate = {n1, n2, n3}
    Pair = {n1, n2}
    None = none
    MaxTerm = 3
    Client = {c1, c2}
    Key = {k1}
    MaxToken = 4
    MaxEpoch = 2
SPECIFICATION CoordinationSpec
INVARIANTS TermsFence HolderHasNewestTerm StoppedYields
INVARIANTS TokensUnique
PROPERTIES TermsGrow FreshLeaseKept StandbyLeads ZombieWritesRejected
CHECK_DEADLOCK FALSE
