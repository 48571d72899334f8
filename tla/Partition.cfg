\* Every region of every array of five values. The call ends.
SPECIFICATION FairCallSpec
CONSTANTS
    N = 5
    Value = {1, 2, 3}
    Word = 16
CHECK_DEADLOCK FALSE
INVARIANTS
    PartitionsTheRegion
    LeavesRegionOnlyAtZero
PROPERTY CallReturns
