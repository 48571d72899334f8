\* Every process that can run runs; any fork may fail and any child may be
\* killed.
SPECIFICATION FairSpec
CONSTANTS
    N = 4
    Value = {1, 2, 3}
    par_threshold = 2
    MayKill = TRUE
INVARIANTS
    SuccessMeansSorted
    WritersAreDisjoint
    OnlyOrphansWorkOn
    FailsForAReason
PROPERTY Terminates
