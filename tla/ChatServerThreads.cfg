\* Two senders and a receiver meet in one room; every thread that can run runs,
\* and one sender may vanish.
SPECIFICATION FairSpec
CONSTANTS
    c1 = c1
    c2 = c2
    c3 = c3
    c4 = c4
    Senders = {c1, c2}
    Receivers = {c3}
    Fickle = {c1}
    RoomName = {"lobby"}
    LongName = {}
    Text = {"short"}
    MaxCommands = 1
    nullptr = nullptr
INVARIANTS
    TypeOK
    IteratorStaysValid
    SemaphoreCountsMessages
    OneRoomPerName
PROPERTIES
    BroadcastEnds
    QueuedIsDelivered
    LostSenderIsRemoved
