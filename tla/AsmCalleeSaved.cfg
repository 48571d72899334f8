\* What a caller's registers hold after a call. A call ends.
SPECIFICATION Spec
CONSTANTS
    Images <- FullPictures
    Unit = 10
CHECK_DEADLOCK FALSE
INVARIANT
    CalleeSavedKept
