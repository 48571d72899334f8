----------------------------- MODULE ChatServer -----------------------------
(***************************************************************************)
(* The chat server of csf_assign05 (server.cpp, room.cpp,                  *)
(* message_queue.cpp, guard.h, user.h): one detached worker thread per     *)
(* connection, the map of rooms, the rooms and their member sets, and one  *)
(* queue with a mutex and a semaphore per user.                            *)
(*                                                                         *)
(* A step of a thread ends wherever another thread may run in between with *)
(* a visible effect: at the acquisition of each Guard, at the end of its   *)
(* scope, and on both sides of the semaphore.  The clients are the         *)
(* environment: they choose the commands and may vanish at any moment.     *)
(*                                                                         *)
(* Bound: a sender's connection gives its thread at most MaxCommands       *)
(* commands once it has joined.                                            *)
(***************************************************************************)
EXTENDS Naturals, Sequences

CONSTANTS
    Senders,      \* connections whose peer may log in with slogin
    Receivers,    \* connections whose peer may log in with rlogin
    Fickle,       \* connections whose peer may vanish
    RoomName,     \* the room names the clients use
    LongName,     \* those whose join reply does not fit a message
    Text,         \* the texts sent: "short", or "long" when the delivery of
                  \* the text with its room and sender does not fit a message
    MaxCommands,
    nullptr       \* no room, no owner, no message

Client == Senders \cup Receivers

\* A Room object.  Its address is the name and the thread that created it:
\* nothing but find_or_create_room keeps two objects from having one name.
Room == RoomName \X Client

Message == [from : Client, nr : 1..MaxCommands, text : Text]

ASSUME ConstantsAssumption ==
    /\ MaxCommands \in Nat
    /\ Fickle \subseteq Client
    /\ LongName \subseteq RoomName
    /\ Text \subseteq {"short", "long"}
    /\ nullptr \notin Client
    /\ nullptr \notin Room
    /\ nullptr \notin RoomName
    /\ nullptr \notin Message

VARIABLES
    pc,           \* where the worker thread of each connection is
    peer,         \* "up" or "gone": the program at the other end
    commands,     \* commands received so far by chat_with_sender
    owed,         \* the peer has sent a request and has had no reply
    role,         \* the tag the peer logged in with
    user,         \* the User object: "none", "live" or "freed"
    room,         \* c->room: the Room* the thread believes it is in
    goal,         \* the room name of the join being handled
    newroom,      \* the Room* find_or_create_room has returned
    ret,          \* where remove_member returns to
    m_rooms,      \* Server::m_rooms
    server_lock,  \* the thread that holds Server::m_lock
    members,      \* Room::members
    room_lock,    \* the thread that holds Room::lock
    msg,          \* the message being broadcast by the thread
    seen,         \* the members its loop has already enqueued to
    target,       \* the member its loop is at
    m_messages,   \* MessageQueue::m_messages of each user
    m_avail,      \* MessageQueue::m_avail, the semaphore's count
    queue_lock,   \* the thread that holds MessageQueue::m_lock
    hand,         \* the message chat_with_receiver has taken off the queue
    delivered     \* history: the messages written to the peer, in order

peers  == <<peer, commands, owed>>
frame  == <<role, room, goal, newroom, ret>>
rooms  == <<m_rooms, server_lock, members, room_lock>>
cast   == <<msg, seen, target>>
queues == <<user, m_messages, m_avail, queue_lock>>
taken  == <<hand, delivered>>
vars   == <<pc, peers, frame, rooms, cast, queues, taken>>

Locations ==
    {"accept", "login", "join", "find", "lookup", "create", "add", "insert",
     "chat", "remove", "erase", "left", "broadcast", "loop", "enqueue",
     "push", "post", "dequeue", "wait", "front", "pop", "deliver", "cleanup",
     "delete", "done"}

TypeOK ==
    /\ pc \in [Client -> Locations]
    /\ peer \in [Client -> {"up", "gone"}]
    /\ commands \in [Client -> 0..MaxCommands]
    /\ owed \in [Client -> BOOLEAN]
    /\ role \in [Client -> {"none", "slogin", "rlogin"}]
    /\ user \in [Client -> {"none", "live", "freed"}]
    /\ room \in [Client -> Room \cup {nullptr}]
    /\ goal \in [Client -> RoomName \cup {nullptr}]
    /\ newroom \in [Client -> Room \cup {nullptr}]
    /\ ret \in [Client -> {"none", "find", "left", "cleanup", "delete"}]
    /\ m_rooms \in [RoomName -> Room \cup {nullptr}]
    /\ server_lock \in Client \cup {nullptr}
    /\ members \in [Room -> SUBSET Client]
    /\ room_lock \in [Room -> Client \cup {nullptr}]
    /\ msg \in [Client -> Message \cup {nullptr}]
    /\ seen \in [Client -> SUBSET Client]
    /\ target \in [Client -> Client \cup {nullptr}]
    /\ m_messages \in [Client -> Seq(Message)]
    /\ m_avail \in [Client -> Nat]
    /\ queue_lock \in [Client -> Client \cup {nullptr}]
    /\ hand \in [Client -> Message \cup {nullptr}]
    /\ delivered \in [Client -> Seq(Message)]

Init ==
    /\ pc = [c \in Client |-> "accept"]
    /\ peer = [c \in Client |-> "up"]
    /\ commands = [c \in Client |-> 0]
    /\ owed = [c \in Client |-> FALSE]
    /\ role = [c \in Client |-> "none"]
    /\ user = [c \in Client |-> "none"]
    /\ room = [c \in Client |-> nullptr]
    /\ goal = [c \in Client |-> nullptr]
    /\ newroom = [c \in Client |-> nullptr]
    /\ ret = [c \in Client |-> "none"]
    /\ m_rooms = [n \in RoomName |-> nullptr]
    /\ server_lock = nullptr
    /\ members = [r \in Room |-> {}]
    /\ room_lock = [r \in Room |-> nullptr]
    /\ msg = [c \in Client |-> nullptr]
    /\ seen = [c \in Client |-> {}]
    /\ target = [c \in Client |-> nullptr]
    /\ m_messages = [c \in Client |-> << >>]
    /\ m_avail = [c \in Client |-> 0]
    /\ queue_lock = [c \in Client |-> nullptr]
    /\ hand = [c \in Client |-> nullptr]
    /\ delivered = [c \in Client |-> << >>]

Goto(c, from, to) == pc[c] = from /\ pc' = [pc EXCEPT ![c] = to]

\* A reply reaches the peer unless Connection::send refuses it; the thread
\* ignores what send returns.
Reply(c, sent) ==
    /\ owed' = [owed EXCEPT ![c] = ~sent]
    /\ UNCHANGED <<peer, commands>>

-----------------------------------------------------------------------------
(* Connection, login and first join: handle_client_requests and worker.    *)

Accept(c) ==
    /\ Goto(c, "accept", "login")
    /\ UNCHANGED <<peers, frame, rooms, cast, queues, taken>>

Login(c) ==
    /\ Goto(c, "login", "join")
    /\ \E tag \in (IF c \in Senders THEN {"slogin"} ELSE {}) \cup
                  (IF c \in Receivers THEN {"rlogin"} ELSE {}) :
            role' = [role EXCEPT ![c] = tag]
    /\ user' = [user EXCEPT ![c] = "live"]
    /\ Reply(c, TRUE)
    /\ UNCHANGED <<room, goal, newroom, ret, rooms, cast, m_messages, m_avail,
                   queue_lock, taken>>

\* The first or the second message cannot be received or is the wrong one
\* (or "quit"): the thread says so and deletes the client.
Refuse(c) ==
    /\ \/ Goto(c, "login", "delete")
       \/ Goto(c, "join", "delete")
    /\ Reply(c, TRUE)
    /\ UNCHANGED <<frame, rooms, cast, queues, taken>>

FirstJoin(c) ==
    /\ Goto(c, "join", "find")
    /\ \E n \in RoomName : goal' = [goal EXCEPT ![c] = n]
    /\ owed' = [owed EXCEPT ![c] = TRUE]
    /\ UNCHANGED <<peer, commands, role, room, newroom, ret, rooms, cast,
                   queues, taken>>

-----------------------------------------------------------------------------
(* find_or_create_room and add_member, called by worker and by join.       *)

\* Mutant: the map of rooms is used without Server::m_lock.
FindWithoutLock(c) ==
    /\ Goto(c, "find", "lookup")
    /\ UNCHANGED <<peers, frame, rooms, cast, queues, taken>>

FindLock(c) ==
    /\ Goto(c, "find", "lookup")
    /\ server_lock = nullptr
    /\ server_lock' = c
    /\ UNCHANGED <<peers, frame, m_rooms, members, room_lock, cast, queues,
                   taken>>

Found(c) ==
    /\ Goto(c, "lookup", "add")
    /\ m_rooms[goal[c]] # nullptr
    /\ newroom' = [newroom EXCEPT ![c] = m_rooms[goal[c]]]
    /\ server_lock' = nullptr
    /\ UNCHANGED <<peers, role, room, goal, ret, m_rooms, members, room_lock,
                   cast, queues, taken>>

NotFound(c) ==
    /\ Goto(c, "lookup", "create")
    /\ m_rooms[goal[c]] = nullptr
    /\ UNCHANGED <<peers, frame, rooms, cast, queues, taken>>

CreateRoom(c) ==
    /\ Goto(c, "create", "add")
    /\ m_rooms' = [m_rooms EXCEPT ![goal[c]] = <<goal[c], c>>]
    /\ newroom' = [newroom EXCEPT ![c] = <<goal[c], c>>]
    /\ server_lock' = nullptr
    /\ UNCHANGED <<peers, role, room, goal, ret, members, room_lock, cast,
                   queues, taken>>

AddLock(c) ==
    /\ Goto(c, "add", "insert")
    /\ room_lock[newroom[c]] = nullptr
    /\ room_lock' = [room_lock EXCEPT ![newroom[c]] = c]
    /\ UNCHANGED <<peers, frame, m_rooms, server_lock, members, cast, queues,
                   taken>>

\* members.insert, the end of the Guard, and the caller's reply: a receiver
\* starts dequeuing, a sender starts reading commands.
Insert(c) ==
    /\ Goto(c, "insert", IF role[c] = "slogin" THEN "chat" ELSE "dequeue")
    /\ members' = [members EXCEPT ![newroom[c]] = @ \cup {c}]
    /\ room_lock' = [room_lock EXCEPT ![newroom[c]] = nullptr]
    /\ room' = [room EXCEPT ![c] = newroom[c]]
    /\ newroom' = [newroom EXCEPT ![c] = nullptr]
    /\ goal' = [goal EXCEPT ![c] = nullptr]
    /\ Reply(c, goal[c] \notin LongName)
    /\ UNCHANGED <<role, ret, m_rooms, server_lock, cast, queues, taken>>

-----------------------------------------------------------------------------
(* remove_member; ret says which call it is.                               *)

\* Mutant: remove_member without the room's Guard.
RemoveWithoutLock(c) ==
    /\ Goto(c, "remove", "erase")
    /\ UNCHANGED <<peers, frame, rooms, cast, queues, taken>>

Remove(c) ==
    /\ Goto(c, "remove", "erase")
    /\ room_lock[room[c]] = nullptr
    /\ room_lock' = [room_lock EXCEPT ![room[c]] = c]
    /\ UNCHANGED <<peers, frame, m_rooms, server_lock, members, cast, queues,
                   taken>>

Erase(c) ==
    /\ Goto(c, "erase", ret[c])
    /\ members' = [members EXCEPT ![room[c]] = @ \ {c}]
    /\ room_lock' = [room_lock EXCEPT ![room[c]] = nullptr]
    /\ ret' = [ret EXCEPT ![c] = "none"]
    /\ UNCHANGED <<peers, role, room, goal, newroom, m_rooms, server_lock,
                   cast, queues, taken>>

\* Go through remove_member if the thread has a room, then go on at next.
LeaveRoomThen(c, from, next) ==
    /\ Goto(c, from, IF room[c] # nullptr THEN "remove" ELSE next)
    /\ ret' = [ret EXCEPT ![c] = IF room[c] # nullptr THEN next ELSE @]

-----------------------------------------------------------------------------
(* chat_with_sender: one command at a time.                                *)

Receive(c, answered) ==
    /\ commands[c] < MaxCommands
    /\ commands' = [commands EXCEPT ![c] = @ + 1]
    /\ owed' = [owed EXCEPT ![c] = ~answered]
    /\ UNCHANGED peer

\* Mutant: a join that does not leave the old room.
JoinWithoutLeaving(c) ==
    /\ Goto(c, "chat", "find")
    /\ Receive(c, FALSE)
    /\ \E n \in RoomName : goal' = [goal EXCEPT ![c] = n]
    /\ UNCHANGED <<role, room, newroom, ret, rooms, cast, queues, taken>>

ReceiveJoin(c) ==
    /\ Receive(c, FALSE)
    /\ \E n \in RoomName : goal' = [goal EXCEPT ![c] = n]
    /\ LeaveRoomThen(c, "chat", "find")
    /\ UNCHANGED <<role, room, newroom, rooms, cast, queues, taken>>

ReceiveLeave(c) ==
    /\ room[c] # nullptr
    /\ Receive(c, FALSE)
    /\ LeaveRoomThen(c, "chat", "left")
    /\ UNCHANGED <<role, room, goal, newroom, rooms, cast, queues, taken>>

\* After remove_member, "leave" forgets the room and answers.
Left(c) ==
    /\ Goto(c, "left", "chat")
    /\ room' = [room EXCEPT ![c] = nullptr]
    /\ Reply(c, TRUE)
    /\ UNCHANGED <<role, goal, newroom, ret, rooms, cast, queues, taken>>

ReceiveSendall(c) ==
    /\ Goto(c, "chat", "broadcast")
    /\ room[c] # nullptr
    /\ Receive(c, FALSE)
    /\ \E t \in Text : msg' = [msg EXCEPT ![c] =
            [from |-> c, nr |-> commands'[c], text |-> t]]
    /\ UNCHANGED <<frame, rooms, seen, target, queues, taken>>

\* A command that changes nothing and is answered with an error: leave or
\* sendall outside a room, or an unknown tag.
ReceiveOther(c) ==
    /\ Goto(c, "chat", "chat")
    /\ Receive(c, TRUE)
    /\ UNCHANGED <<frame, rooms, cast, queues, taken>>

\* quit is answered before the thread leaves the room.
ReceiveQuit(c) ==
    /\ Receive(c, TRUE)
    /\ LeaveRoomThen(c, "chat", "cleanup")
    /\ UNCHANGED <<role, room, goal, newroom, rooms, cast, queues, taken>>

\* Mutant: the loop goes on when receive has failed.
ReceiveFailsIgnored(c) ==
    /\ Goto(c, "chat", "chat")
    /\ peer[c] = "gone"
    /\ UNCHANGED <<peers, frame, rooms, cast, queues, taken>>

\* receive returns false, on EOF or on a line it cannot split.
ReceiveFails(c) ==
    /\ Goto(c, "chat", "cleanup")
    /\ \/ peer[c] = "gone" /\ UNCHANGED commands
       \/ /\ commands[c] < MaxCommands
          /\ commands' = [commands EXCEPT ![c] = @ + 1]
    /\ UNCHANGED <<peer, owed, frame, rooms, cast, queues, taken>>

-----------------------------------------------------------------------------
(* broadcast_message and MessageQueue::enqueue.                            *)

\* Mutant: broadcast_message without the room's Guard.
BroadcastWithoutLock(c) ==
    /\ Goto(c, "broadcast", "loop")
    /\ UNCHANGED <<peers, frame, rooms, cast, queues, taken>>

Broadcast(c) ==
    /\ Goto(c, "broadcast", "loop")
    /\ room_lock[room[c]] = nullptr
    /\ room_lock' = [room_lock EXCEPT ![room[c]] = c]
    /\ UNCHANGED <<peers, frame, m_rooms, server_lock, members, cast, queues,
                   taken>>

\* The set of User pointers is walked in address order, which is any order.
NextMember(c) ==
    /\ Goto(c, "loop", "enqueue")
    /\ \E u \in members[room[c]] \ seen[c] : target' = [target EXCEPT ![c] = u]
    /\ UNCHANGED <<peers, frame, rooms, msg, seen, queues, taken>>

Enqueue(c) ==
    /\ Goto(c, "enqueue", "push")
    /\ queue_lock[target[c]] = nullptr
    /\ queue_lock' = [queue_lock EXCEPT ![target[c]] = c]
    /\ UNCHANGED <<peers, frame, rooms, cast, user, m_messages, m_avail,
                   taken>>

Push(c) ==
    /\ Goto(c, "push", "post")
    /\ m_messages' = [m_messages EXCEPT ![target[c]] = Append(@, msg[c])]
    /\ queue_lock' = [queue_lock EXCEPT ![target[c]] = nullptr]
    /\ seen' = [seen EXCEPT ![c] = @ \cup {target[c]}]
    /\ UNCHANGED <<peers, frame, rooms, msg, target, user, m_avail, taken>>

\* Mutant: enqueue forgets sem_post.
PostForgotten(c) ==
    /\ Goto(c, "post", "loop")
    /\ target' = [target EXCEPT ![c] = nullptr]
    /\ UNCHANGED <<peers, frame, rooms, msg, seen, queues, taken>>

\* sem_post comes after the Guard's scope.
Post(c) ==
    /\ Goto(c, "post", "loop")
    /\ m_avail' = [m_avail EXCEPT ![target[c]] = @ + 1]
    /\ target' = [target EXCEPT ![c] = nullptr]
    /\ UNCHANGED <<peers, frame, rooms, msg, seen, user, m_messages,
                   queue_lock, taken>>

EndBroadcast(c) ==
    /\ Goto(c, "loop", "chat")
    /\ members[room[c]] \subseteq seen[c]
    /\ room_lock' = [room_lock EXCEPT ![room[c]] = nullptr]
    /\ msg' = [msg EXCEPT ![c] = nullptr]
    /\ seen' = [seen EXCEPT ![c] = {}]
    /\ Reply(c, TRUE)
    /\ UNCHANGED <<frame, m_rooms, server_lock, members, target, queues,
                   taken>>

-----------------------------------------------------------------------------
(* MessageQueue::dequeue and chat_with_receiver.                           *)

\* Mutant: the semaphore is taken even at zero.
TakeSemaphoreBelowZero(c) ==
    /\ m_avail' = [m_avail EXCEPT ![c] = @ - 1]
    /\ UNCHANGED <<peers, frame, rooms, cast, user, m_messages, queue_lock,
                   taken>>

TakeSemaphore(c) ==
    /\ m_avail[c] > 0
    /\ m_avail' = [m_avail EXCEPT ![c] = @ - 1]
    /\ UNCHANGED <<peers, frame, rooms, cast, user, m_messages, queue_lock,
                   taken>>

\* sem_timedwait takes a positive semaphore at once, whatever the time.
Dequeue(c) == Goto(c, "dequeue", "front") /\ TakeSemaphore(c)

Wait(c) ==
    /\ Goto(c, "dequeue", "wait")
    /\ m_avail[c] = 0
    /\ UNCHANGED <<peers, frame, rooms, cast, queues, taken>>

Woken(c) == Goto(c, "wait", "front") /\ TakeSemaphore(c)

\* Mutant: what sem_timedwait returns is not looked at.
TimedOutIgnored(c) ==
    /\ Goto(c, "wait", "front")
    /\ UNCHANGED <<peers, frame, rooms, cast, queues, taken>>

\* One second is over (or a signal arrived): a null message and another try,
\* even if the semaphore is posted at this very moment.
TimedOut(c) ==
    /\ Goto(c, "wait", "dequeue")
    /\ UNCHANGED <<peers, frame, rooms, cast, queues, taken>>

Front(c) ==
    /\ Goto(c, "front", "pop")
    /\ queue_lock[c] = nullptr
    /\ queue_lock' = [queue_lock EXCEPT ![c] = c]
    /\ UNCHANGED <<peers, frame, rooms, cast, user, m_messages, m_avail,
                   taken>>

\* Mutant: dequeue keeps the queue's mutex.
PopKeepsLock(c) ==
    /\ Goto(c, "pop", "deliver")
    /\ m_messages[c] # << >>
    /\ hand' = [hand EXCEPT ![c] = Head(m_messages[c])]
    /\ m_messages' = [m_messages EXCEPT ![c] = Tail(@)]
    /\ UNCHANGED <<peers, frame, rooms, cast, user, m_avail, queue_lock,
                   delivered>>

\* front() of an empty deque is undefined; SemaphoreCountsMessages says that
\* there is a message.
Pop(c) ==
    /\ Goto(c, "pop", "deliver")
    /\ m_messages[c] # << >>
    /\ hand' = [hand EXCEPT ![c] = Head(m_messages[c])]
    /\ m_messages' = [m_messages EXCEPT ![c] = Tail(@)]
    /\ queue_lock' = [queue_lock EXCEPT ![c] = nullptr]
    /\ UNCHANGED <<peers, frame, rooms, cast, user, m_avail, delivered>>

Deliver(c) ==
    /\ Goto(c, "deliver", "dequeue")
    /\ hand[c].text = "short"
    /\ delivered' = [delivered EXCEPT ![c] = Append(@, hand[c])]
    /\ hand' = [hand EXCEPT ![c] = nullptr]
    /\ UNCHANGED <<peers, frame, rooms, cast, queues>>

\* send returns false for a message that is too long, as for a lost peer.
DeliverFails(c) ==
    /\ pc[c] = "deliver"
    /\ peer[c] = "gone" \/ hand[c].text = "long"
    /\ hand' = [hand EXCEPT ![c] = nullptr]
    /\ LeaveRoomThen(c, "deliver", "cleanup")
    /\ UNCHANGED <<peers, role, room, goal, newroom, rooms, cast, queues,
                   delivered>>

-----------------------------------------------------------------------------
(* The end of worker: ~Client_thread, ~Connection, ~User, ~MessageQueue.   *)

\* Mutant: worker deletes the client and leaves its User in the room.
CleanupKeepsMember(c) ==
    /\ Goto(c, "cleanup", "delete")
    /\ UNCHANGED <<peers, frame, rooms, cast, queues, taken>>

Cleanup(c) ==
    /\ LeaveRoomThen(c, "cleanup", "delete")
    /\ UNCHANGED <<peers, role, room, goal, newroom, rooms, cast, queues,
                   taken>>

\* The queue's destructor takes its mutex, so it waits while one is inside.
Delete(c) ==
    /\ Goto(c, "delete", "done")
    /\ queue_lock[c] = nullptr
    /\ user' = [user EXCEPT ![c] = IF @ = "live" THEN "freed" ELSE @]
    /\ m_messages' = [m_messages EXCEPT ![c] = << >>]
    /\ m_avail' = [m_avail EXCEPT ![c] = 0]
    /\ UNCHANGED <<peers, frame, rooms, cast, queue_lock, taken>>

\* The program at the other end exits or the network loses it.
Disconnect(c) ==
    /\ c \in Fickle
    /\ peer[c] = "up"
    /\ pc[c] \notin {"accept", "done"}
    /\ peer' = [peer EXCEPT ![c] = "gone"]
    /\ UNCHANGED <<pc, commands, owed, frame, rooms, cast, queues, taken>>

-----------------------------------------------------------------------------
Connect(c) == Login(c) \/ Refuse(c) \/ FirstJoin(c)

EnterRoom(c) ==
    \/ FindLock(c) \/ Found(c) \/ NotFound(c) \/ CreateRoom(c)
    \/ AddLock(c) \/ Insert(c)

LeaveRoom(c) == Remove(c) \/ Erase(c)

Command(c) ==
    \/ ReceiveJoin(c) \/ ReceiveLeave(c) \/ ReceiveSendall(c)
    \/ ReceiveOther(c) \/ ReceiveQuit(c) \/ ReceiveFails(c)

Say(c) ==
    \/ Broadcast(c) \/ NextMember(c) \/ Enqueue(c) \/ Push(c) \/ Post(c)
    \/ EndBroadcast(c)

Listen(c) ==
    \/ Dequeue(c) \/ Wait(c) \/ Woken(c) \/ TimedOut(c) \/ Front(c) \/ Pop(c)
    \/ Deliver(c) \/ DeliverFails(c)

Finish(c) == Cleanup(c) \/ Delete(c)

\* What the thread does by itself once its peer has said something.
Run(c) ==
    \/ EnterRoom(c) \/ LeaveRoom(c) \/ Left(c) \/ Say(c) \/ Listen(c)
    \/ Finish(c)

\* Every connection of the instance is over or its peer has nothing more to
\* say: the server may wait for ever, and only then.
Idle ==
    /\ \A c \in Client :
        pc[c] = "done" \/ (pc[c] = "chat" /\ commands[c] = MaxCommands)
    /\ UNCHANGED vars

Next ==
    \/ \E c \in Client :
        \/ Accept(c) \/ Connect(c) \/ Command(c) \/ Run(c) \/ Disconnect(c)
    \/ Idle

Spec == Init /\ [][Next]_vars

\* A runnable thread runs; a receive on a lost connection returns false.
FairSpec ==
    /\ Spec
    /\ \A c \in Client :
        /\ WF_vars(Run(c))
        /\ WF_vars(peer[c] = "gone" /\ (ReceiveFails(c) \/ Refuse(c)))
-----------------------------------------------------------------------------
(* Safety                                                                  *)

Broadcasting(c) == pc[c] \in {"loop", "enqueue", "push", "post"}

\* Where a thread touches the member set of a room, and of which room.
Touches(c, r) ==
    \/ pc[c] = "insert" /\ newroom[c] = r
    \/ pc[c] = "erase" /\ room[c] = r
    \/ Broadcasting(c) /\ room[c] = r

\* While a thread walks a member set no other thread inserts into it or
\* erases from it, which would leave the iterator of room.cpp:41 dangling.
IteratorStaysValid ==
    \A r \in Room : \A c, d \in Client :
        Touches(c, r) /\ Touches(d, r) => c = d

\* No thread reaches a User its own thread has deleted: neither through the
\* members of a room nor through the pointer a broadcast is working on, up to
\* the sem_post that follows the queue's critical section.
NoUseAfterFree ==
    /\ \A r \in Room : \A u \in members[r] : user[u] = "live"
    /\ \A c \in Client :
        pc[c] \in {"enqueue", "push", "post"} => user[target[c]] = "live"

Posting(u) == \E c \in Client : pc[c] = "post" /\ target[c] = u

\* The semaphore counts the queued messages, but for one whose enqueue has
\* not posted yet and one whose dequeue has not popped yet: so dequeue never
\* takes the front of an empty deque (message_queue.cpp:60).
SemaphoreCountsMessages ==
    \A u \in Client :
        Len(m_messages[u]) = m_avail[u] + (IF Posting(u) THEN 1 ELSE 0)
                             + (IF pc[u] \in {"front", "pop"} THEN 1 ELSE 0)

\* Two threads that look up one name at once get one Room object, and keep it.
OneRoomPerName ==
    \A c \in Client :
        /\ newroom[c] # nullptr => m_rooms[newroom[c][1]] = newroom[c]
        /\ room[c] # nullptr => m_rooms[room[c][1]] = room[c]

\* A user is in no room but the one its thread knows, so what quit, leave and
\* the cleanup remove it from is all there is.
MemberOfOwnRoomOnly ==
    \A r \in Room : \A u \in members[r] : room[u] = r

-----------------------------------------------------------------------------
(* The messages a client is still to get, and the abstract server.         *)

\* A receiver whose delivery has failed: its thread is on its way out.
Failed(c) ==
    /\ role[c] = "rlogin"
    /\ pc[c] \in {"remove", "erase", "cleanup", "delete", "done"}

\* A broadcast is said when the room's lock is taken: the members its loop
\* has not come to yet are as good as told.
Pending(c) ==
    IF \E b \in Client : Broadcasting(b) /\ c \in members[room[b]] \ seen[b]
    THEN LET b == CHOOSE b \in Client :
                    Broadcasting(b) /\ c \in members[room[b]] \ seen[b]
         IN <<msg[b]>>
    ELSE << >>

InboxOf(c) ==
    IF Failed(c) THEN << >>
    ELSE (IF hand[c] # nullptr THEN <<hand[c]>> ELSE << >>)
            \o m_messages[c] \o Pending(c)

RoomOf(c) ==
    IF Failed(c) \/ \A r \in Room : c \notin members[r] THEN nullptr
    ELSE (CHOOSE r \in Room : c \in members[r])[1]

Abstract ==
    INSTANCE ChatRoom WITH in <- [c \in Client |-> RoomOf(c)],
                           inbox <- [c \in Client |-> InboxOf(c)],
                           got <- delivered

\* Threads, locks, queues and semaphores together do what ChatRoom says: a
\* message reaches everyone who is in the room when its broadcast begins, in
\* one order for all, and nobody else.
ImplementsChatRoom == Abstract!Spec

Ext == INSTANCE SequencesExt

Stream(c) == delivered[c] \o InboxOf(c)

\* Two receivers of a room have heard and are still to hear the same messages
\* in the same order, from the moment the later of them joined; none twice.
SameStreamInRoom ==
    \A c, d \in Client :
        /\ role[c] = "rlogin" /\ role[d] = "rlogin"
        /\ RoomOf(c) # nullptr /\ RoomOf(c) = RoomOf(d)
        => /\ Ext!IsSuffix(Stream(c), Stream(d))
              \/ Ext!IsSuffix(Stream(d), Stream(c))
           /\ \A i, j \in DOMAIN Stream(c) :
                Stream(c)[i] = Stream(c)[j] => i = j

-----------------------------------------------------------------------------
(* Liveness under FairSpec                                                 *)

\* A broadcast ends: the room lock it holds and the queue locks it waits for
\* block nobody for ever.
BroadcastEnds ==
    \A c \in Senders : pc[c] = "broadcast" ~> pc[c] = "chat"

Queued(c, m) == role[c] = "rlogin" /\ Ext!Contains(m_messages[c], m)

Said == [from : Senders, nr : 1..MaxCommands, text : Text]

\* A message queued for a receiver is written to its connection, unless the
\* receiver is dropped, although dequeue gives up every second.
QueuedIsDelivered ==
    \A c \in Receivers : \A m \in Said :
        Queued(c, m) ~> (Failed(c) \/ Ext!Contains(delivered[c], m))

\* The thread of a sender that vanished takes it out of its room and ends.
LostSenderIsRemoved ==
    \A c \in Senders :
        (peer[c] = "gone" /\ role[c] = "slogin")
        ~> (pc[c] = "done" /\ \A r \in Room : c \notin members[r])

-----------------------------------------------------------------------------
(* What the repository says and the code does not do                       *)

Holds(c) ==
    (IF server_lock = c THEN {"m_rooms"} ELSE {})
    \cup {r \in Room : room_lock[r] = c}
    \cup {u \in Client : queue_lock[u] = c}

\* README.txt:48, "we always lock at most one mutex at a time".
AtMostOneMutex ==
    \A c \in Client : \A x, y \in Holds(c) : x = y

\* room.cpp:36, a broadcast is for "every (receiver) User in the room".
OnlyReceiversAreQueuedFor ==
    \A c \in Client : role[c] = "slogin" => m_messages[c] = << >>

\* sender.cpp:111, the client does "send and wait for ok/err": whatever it
\* asks is answered while it is there to hear it.
RequestsAreAnswered ==
    \A c \in Senders : owed[c] ~> (~owed[c] \/ peer[c] = "gone")

\* server.cpp:104, the "receiver loop delivers queued messages to a receiver":
\* one that stays connected gets what is queued for it.
ConnectedReceiverIsServed ==
    \A c \in Receivers : \A m \in Said :
        Queued(c, m) ~> (peer[c] = "gone" \/ Ext!Contains(delivered[c], m))
=============================================================================
