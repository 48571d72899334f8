\* parsort.c:108 against the code.
SPECIFICATION CallSpec
CONSTANTS
    N = 5
    Value = {1, 2, 3}
    Word = 16
CHECK_DEADLOCK FALSE
INVARIANT StaysInRegion
