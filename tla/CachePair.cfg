\* Caches of one to four blocks a set under every policy, two by two, on all
\* short traces. A trace ends.
SPECIFICATION SpecPair
CONSTANTS
    Arguments <- CommandLines
    Pairs <- ComparedPairs
    Address <- Trace
    Word = 64
    StoreCost = 100
    MaxAccesses = 5
INVARIANTS
    AgesAreAPermutation
    PoliciesMoveNoBlock
    MoreBlocksKeepMore
PROPERTY
    ImplementsMemoryCache
CHECK_DEADLOCK FALSE
