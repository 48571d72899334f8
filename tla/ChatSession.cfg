\* Both clients on fair processes, any line and any room, those too long for a message
\* among them, either process killed.
\* A session ends.
SPECIFICATION FairSpec
CONSTANTS
    Programs = {"sender", "receiver"}
    Lines = {"join", "leave", "text", "quit", "skipped", "longtext", "longjoin"}
    Unterminated = TRUE
    MayDie = TRUE
    MaxLines = 6
    MaxRequests = 7
    MaxDeliveries = 3
CHECK_DEADLOCK FALSE
INVARIANT SpeakInTurn
PROPERTIES
    WaitEnds
    ThreadEnds
