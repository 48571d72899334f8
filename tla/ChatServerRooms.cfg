\* Two senders speak in two rooms and move between them; the receiver may vanish.
SPECIFICATION Spec
CONSTANTS
    c1 = c1
    c2 = c2
    c3 = c3
    c4 = c4
    Senders = {c1, c2}
    Receivers = {c3}
    Fickle = {c3}
    RoomName = {"lobby", "attic"}
    LongName = {}
    Text = {"short"}
    MaxCommands = 1
    nullptr = nullptr
SYMMETRY ClientSymmetry
INVARIANTS
    NoUseAfterFree
    MemberOfOwnRoomOnly
PROPERTY ImplementsChatRoom
