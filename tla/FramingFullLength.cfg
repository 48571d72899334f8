\* message.h:8 against the code: messages of MaxLen characters.
SPECIFICATION Spec
CONSTANTS
    MaxLen = 6
    MaxData = 3
    MaxSends = 1
    BufSize = 3
    Garbage = FALSE
CHECK_DEADLOCK FALSE
INVARIANT KeepsConnection
