\* Any chunks, messages shorter than MaxLen with colons, NULs and newlines in their
\* data, a sender that may die, a peer that may send lines that are no message.
\* A run ends when the sender has closed its end.
SPECIFICATION FairSpec
CONSTANTS
    MaxLen = 6
    MaxData = 2
    MaxSends = 2
    BufSize = 3
    Garbage = TRUE
CHECK_DEADLOCK FALSE
INVARIANTS
    WholeMessagesInOrder
    KeepsConnection
PROPERTY SentIsReceived
