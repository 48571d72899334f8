-------------------------- MODULE ChatServerProofs --------------------------
(***************************************************************************)
(* Theorems about ChatServer, for any number of clients, rooms and         *)
(* commands.                                                               *)
(*                                                                         *)
(* First the invariants: each conjunct of the inductive invariant IInv is  *)
(* preserved by every step on its own.  Then ChatServer implements         *)
(* ChatRoom, step by step: the mapping is the one of ChatServer            *)
(* (Abstract); RefInv is what it needs beside IInv.                        *)
(***************************************************************************)
EXTENDS ChatServer, SequenceTheorems, TLAPS

-----------------------------------------------------------------------------
(* The inductive invariant                                                 *)

\* What the thread has in its hands at each point.
Arguments(c) ==
    /\ pc[c] \in {"find", "lookup", "create", "add", "insert"} =>
            goal[c] \in RoomName
    /\ pc[c] \in {"add", "insert"} => newroom[c] \in Room
    /\ pc[c] \in {"remove", "erase"} =>
            /\ ret[c] \in {"find", "left", "cleanup", "delete"}
            /\ ret[c] = "find" => goal[c] \in RoomName
    /\ pc[c] \in {"remove", "erase", "left", "broadcast", "loop", "enqueue",
                  "push", "post"} => room[c] \in Room
    /\ pc[c] \in {"broadcast", "loop", "enqueue", "push", "post"} =>
            msg[c] \in Message
    /\ pc[c] \in {"enqueue", "push", "post"} =>
            target[c] \in members[room[c]]
    /\ pc[c] = "deliver" => hand[c] \in Message

ArgumentsInv == \A d \in Client : Arguments(d)

TypeInv == TypeOK /\ ArgumentsInv

\* A lock is held by the thread that is between its two ends and no other.
ServerLockInv ==
    \A c \in Client : server_lock = c <=> pc[c] \in {"lookup", "create"}

RoomLockInv ==
    \A c \in Client : \A r \in Room : room_lock[r] = c <=> Touches(c, r)

MemberLocations ==
    {"chat", "remove", "erase", "broadcast", "loop", "enqueue", "push",
     "post", "dequeue", "wait", "front", "pop", "deliver", "cleanup"}

\* A member's thread is at a point from which it passes remove_member before
\* it deletes the User.
MembersInv ==
    /\ \A r \in Room : \A u \in members[r] :
        room[u] = r /\ user[u] = "live" /\ pc[u] \in MemberLocations
    /\ \A c \in Client :
        pc[c] \notin {"accept", "login", "delete", "done"} => user[c] = "live"

\* The map never changes an entry: a thread that is about to create a room
\* still finds none of that name.
RoomsInv ==
    /\ OneRoomPerName
    /\ \A n \in RoomName : m_rooms[n] # nullptr => m_rooms[n][1] = n
    /\ \A c \in Client : pc[c] = "create" => m_rooms[goal[c]] = nullptr

IInv ==
    /\ TypeInv /\ ServerLockInv /\ RoomLockInv /\ MembersInv /\ RoomsInv
    /\ SemaphoreCountsMessages

-----------------------------------------------------------------------------
(* Every step preserves each conjunct                                      *)

\* Every value stays in its type (TypeOK), given what each thread has in its
\* hands.
THEOREM TypeStep ==
    TypeInv /\ [Next]_vars => TypeOK'
  <1> SUFFICES ASSUME TypeInv, [Next]_vars
               PROVE  TypeOK'
    OBVIOUS
  <1> USE ConstantsAssumption DEF TypeInv, TypeOK, Goto, peers, frame,
         rooms, cast, queues, taken, Locations
  <1>0. CASE UNCHANGED vars
    BY <1>0 DEF vars, ArgumentsInv, Arguments
  <1>1. ASSUME NEW c \in Client, Accept(c) PROVE TypeOK'
    BY <1>1 DEF Accept, ArgumentsInv, Arguments
  <1>2. ASSUME NEW c \in Client, Connect(c) PROVE TypeOK'
    <2>1. CASE Login(c)
      BY <2>1 DEF Login, Reply, ArgumentsInv, Arguments
    <2>2. CASE Refuse(c)
      <3>1. CASE pc[c] = "login"
        BY <2>2, <3>1, ZenonT(30) DEF Refuse, Reply
      <3>2. CASE pc[c] = "join"
        BY <2>2, <3>2, ZenonT(30) DEF Refuse, Reply
      <3> QED
        BY <2>2, <3>1, <3>2 DEF Refuse
    <2>3. CASE FirstJoin(c)
      BY <2>3 DEF FirstJoin, ArgumentsInv, Arguments
    <2> QED
      BY <1>2, <2>1, <2>2, <2>3 DEF Connect
  <1>3. ASSUME NEW c \in Client, EnterRoom(c) PROVE TypeOK'
    <2>1. CASE FindLock(c)
      BY <2>1 DEF FindLock, ArgumentsInv, Arguments
    <2>2. CASE Found(c)
      BY <2>2 DEF Found, ArgumentsInv, Arguments
    <2>3. CASE NotFound(c)
      BY <2>3 DEF NotFound, ArgumentsInv, Arguments
    <2>4. CASE CreateRoom(c)
      BY <2>4, SMTT(20) DEF CreateRoom, ArgumentsInv, Arguments, Room
    <2>5. CASE AddLock(c)
      BY <2>5 DEF AddLock, ArgumentsInv, Arguments
    <2>6. CASE Insert(c)
      BY <2>6 DEF Insert, Reply, ArgumentsInv, Arguments
    <2> QED
      BY <1>3, <2>1, <2>2, <2>3, <2>4, <2>5, <2>6 DEF EnterRoom
  <1>4. ASSUME NEW c \in Client, LeaveRoom(c) PROVE TypeOK'
    <2>1. CASE Remove(c)
      BY <2>1 DEF Remove, ArgumentsInv, Arguments
    <2>2. CASE Erase(c)
      BY <2>2 DEF Erase, ArgumentsInv, Arguments
    <2> QED
      BY <1>4, <2>1, <2>2 DEF LeaveRoom
  <1>5. ASSUME NEW c \in Client, Left(c) PROVE TypeOK'
    BY <1>5 DEF Left, Reply, ArgumentsInv, Arguments
  <1>6. ASSUME NEW c \in Client, Command(c) PROVE TypeOK'
    <2>1. CASE ReceiveJoin(c)
      BY <2>1 DEF ReceiveJoin, Receive, LeaveRoomThen, ArgumentsInv, Arguments
    <2>2. CASE ReceiveLeave(c)
      BY <2>2 DEF ReceiveLeave, Receive, LeaveRoomThen, ArgumentsInv,
         Arguments
    <2>3. CASE ReceiveSendall(c)
      <3>1. msg' \in [Client -> Message \cup {nullptr}]
        BY <2>3 DEF ReceiveSendall, Receive, Message
      <3> QED
        BY <2>3, <3>1 DEF ReceiveSendall, Receive
    <2>4. CASE ReceiveOther(c)
      BY <2>4 DEF ReceiveOther, Receive, ArgumentsInv, Arguments
    <2>5. CASE ReceiveQuit(c)
      BY <2>5 DEF ReceiveQuit, Receive, LeaveRoomThen, ArgumentsInv, Arguments
    <2>6. CASE ReceiveFails(c)
      <3>0. \/ UNCHANGED commands
            \/ /\ commands[c] < MaxCommands
               /\ commands' = [commands EXCEPT ![c] = @ + 1]
        BY <2>6 DEF ReceiveFails
      <3>1. commands' \in [Client -> 0..MaxCommands]
        <4>1. CASE UNCHANGED commands
          BY <4>1
        <4>2. CASE /\ commands[c] < MaxCommands
                   /\ commands' = [commands EXCEPT ![c] = @ + 1]
          <5>1. commands[c] \in 0..MaxCommands /\ commands[c] + 1 \in 0..MaxCommands
            BY <4>2
          <5> QED
            BY <4>2, <5>1
        <4> QED
          BY <3>0, <4>1, <4>2
      <3> QED
        BY <2>6, <3>1 DEF ReceiveFails, ArgumentsInv, Arguments
    <2> QED
      BY <1>6, <2>1, <2>2, <2>3, <2>4, <2>5, <2>6 DEF Command
  <1>7. ASSUME NEW c \in Client, Say(c) PROVE TypeOK'
    <2>1. CASE Broadcast(c)
      BY <2>1 DEF Broadcast, ArgumentsInv, Arguments
    <2>2. CASE NextMember(c)
      BY <2>2 DEF NextMember, ArgumentsInv, Arguments
    <2>3. CASE Enqueue(c)
      BY <2>3 DEF Enqueue, ArgumentsInv, Arguments
    <2>4. CASE Push(c)
      BY <2>4 DEF Push, ArgumentsInv, Arguments
    <2>5. CASE Post(c)
      BY <2>5 DEF Post, ArgumentsInv, Arguments
    <2>6. CASE EndBroadcast(c)
      BY <2>6 DEF EndBroadcast, Reply, ArgumentsInv, Arguments
    <2> QED
      BY <1>7, <2>1, <2>2, <2>3, <2>4, <2>5, <2>6 DEF Say
  <1>8. ASSUME NEW c \in Client, Listen(c) PROVE TypeOK'
    <2>1. CASE Dequeue(c)
      BY <2>1 DEF Dequeue, TakeSemaphore, ArgumentsInv, Arguments
    <2>2. CASE Wait(c)
      BY <2>2 DEF Wait, ArgumentsInv, Arguments
    <2>3. CASE Woken(c)
      BY <2>3 DEF Woken, TakeSemaphore, ArgumentsInv, Arguments
    <2>4. CASE TimedOut(c)
      BY <2>4 DEF TimedOut, ArgumentsInv, Arguments
    <2>5. CASE Front(c)
      BY <2>5 DEF Front, ArgumentsInv, Arguments
    <2>6. CASE Pop(c)
      BY <2>6 DEF Pop, ArgumentsInv, Arguments
    <2>7. CASE Deliver(c)
      BY <2>7 DEF Deliver, ArgumentsInv, Arguments
    <2>8. CASE DeliverFails(c)
      BY <2>8 DEF DeliverFails, LeaveRoomThen, ArgumentsInv, Arguments
    <2> QED
      BY <1>8, <2>1, <2>2, <2>3, <2>4, <2>5, <2>6, <2>7, <2>8 DEF Listen
  <1>9. ASSUME NEW c \in Client, Finish(c) PROVE TypeOK'
    <2>1. CASE Cleanup(c)
      BY <2>1 DEF Cleanup, LeaveRoomThen, ArgumentsInv, Arguments
    <2>2. CASE Delete(c)
      BY <2>2 DEF Delete, ArgumentsInv, Arguments
    <2> QED
      BY <1>9, <2>1, <2>2 DEF Finish
  <1>10. ASSUME NEW c \in Client, Disconnect(c) PROVE TypeOK'
    BY <1>10 DEF Disconnect, ArgumentsInv, Arguments
  <1> QED
    BY <1>0, <1>1, <1>2, <1>3, <1>4, <1>5, <1>6, <1>7, <1>8, <1>9, <1>10 DEF
       Next, Idle, Run

\* Server::m_lock is held exactly inside find_or_create_room.
THEOREM ServerLockStep ==
    TypeInv /\ ServerLockInv /\ [Next]_vars => ServerLockInv'
  <1> SUFFICES ASSUME TypeInv /\ ServerLockInv, [Next]_vars
               PROVE  ServerLockInv'
    OBVIOUS
  <1> USE ConstantsAssumption DEF TypeInv, TypeOK, Goto, peers, frame,
         rooms, cast, queues, taken
  <1>0. CASE UNCHANGED vars
    BY <1>0 DEF vars, ServerLockInv
  <1>1. ASSUME NEW c \in Client, Accept(c) PROVE ServerLockInv'
    BY <1>1 DEF Accept, ServerLockInv
  <1>2. ASSUME NEW c \in Client, Connect(c) PROVE ServerLockInv'
    <2>1. CASE Login(c)
      BY <2>1 DEF Login, Reply, ServerLockInv
    <2>2. CASE Refuse(c)
      BY <2>2 DEF Refuse, Reply, ServerLockInv
    <2>3. CASE FirstJoin(c)
      BY <2>3 DEF FirstJoin, ServerLockInv
    <2> QED
      BY <1>2, <2>1, <2>2, <2>3 DEF Connect
  <1>3. ASSUME NEW c \in Client, EnterRoom(c) PROVE ServerLockInv'
    BY <1>3 DEF EnterRoom, FindLock, Found, NotFound, CreateRoom, AddLock,
       Insert, Reply, ServerLockInv
  <1>4. ASSUME NEW c \in Client, LeaveRoom(c) PROVE ServerLockInv'
    <2>1. CASE Remove(c)
      BY <2>1 DEF Remove, ServerLockInv
    <2>2. CASE Erase(c)
      BY <2>2, ZenonT(30) DEF Erase, ServerLockInv
    <2> QED
      BY <1>4, <2>1, <2>2 DEF LeaveRoom
  <1>5. ASSUME NEW c \in Client, Left(c) PROVE ServerLockInv'
    BY <1>5 DEF Left, Reply, ServerLockInv
  <1>6. ASSUME NEW c \in Client, Command(c) PROVE ServerLockInv'
    <2>1. CASE ReceiveJoin(c)
      BY <2>1 DEF ReceiveJoin, Receive, LeaveRoomThen, ServerLockInv
    <2>2. CASE ReceiveLeave(c)
      BY <2>2 DEF ReceiveLeave, Receive, LeaveRoomThen, ServerLockInv
    <2>3. CASE ReceiveSendall(c)
      BY <2>3 DEF ReceiveSendall, Receive, ServerLockInv
    <2>4. CASE ReceiveOther(c)
      BY <2>4 DEF ReceiveOther, Receive, ServerLockInv
    <2>5. CASE ReceiveQuit(c)
      BY <2>5 DEF ReceiveQuit, Receive, LeaveRoomThen, ServerLockInv
    <2>6. CASE ReceiveFails(c)
      BY <2>6 DEF ReceiveFails, ServerLockInv
    <2> QED
      BY <1>6, <2>1, <2>2, <2>3, <2>4, <2>5, <2>6 DEF Command
  <1>7. ASSUME NEW c \in Client, Say(c) PROVE ServerLockInv'
    <2>1. CASE Broadcast(c)
      BY <2>1 DEF Broadcast, ServerLockInv
    <2>2. CASE NextMember(c)
      BY <2>2 DEF NextMember, ServerLockInv
    <2>3. CASE Enqueue(c)
      BY <2>3 DEF Enqueue, ServerLockInv
    <2>4. CASE Push(c)
      BY <2>4 DEF Push, ServerLockInv
    <2>5. CASE Post(c)
      BY <2>5 DEF Post, ServerLockInv
    <2>6. CASE EndBroadcast(c)
      BY <2>6 DEF EndBroadcast, Reply, ServerLockInv
    <2> QED
      BY <1>7, <2>1, <2>2, <2>3, <2>4, <2>5, <2>6 DEF Say
  <1>8. ASSUME NEW c \in Client, Listen(c) PROVE ServerLockInv'
    <2>1. CASE Dequeue(c)
      BY <2>1 DEF Dequeue, TakeSemaphore, ServerLockInv
    <2>2. CASE Wait(c)
      BY <2>2 DEF Wait, ServerLockInv
    <2>3. CASE Woken(c)
      BY <2>3 DEF Woken, TakeSemaphore, ServerLockInv
    <2>4. CASE TimedOut(c)
      BY <2>4 DEF TimedOut, ServerLockInv
    <2>5. CASE Front(c)
      BY <2>5 DEF Front, ServerLockInv
    <2>6. CASE Pop(c)
      BY <2>6 DEF Pop, ServerLockInv
    <2>7. CASE Deliver(c)
      BY <2>7 DEF Deliver, ServerLockInv
    <2>8. CASE DeliverFails(c)
      BY <2>8 DEF DeliverFails, LeaveRoomThen, ServerLockInv
    <2> QED
      BY <1>8, <2>1, <2>2, <2>3, <2>4, <2>5, <2>6, <2>7, <2>8 DEF Listen
  <1>9. ASSUME NEW c \in Client, Finish(c) PROVE ServerLockInv'
    <2>1. CASE Cleanup(c)
      BY <2>1 DEF Cleanup, LeaveRoomThen, ServerLockInv
    <2>2. CASE Delete(c)
      BY <2>2 DEF Delete, ServerLockInv
    <2> QED
      BY <1>9, <2>1, <2>2 DEF Finish
  <1>10. ASSUME NEW c \in Client, Disconnect(c) PROVE ServerLockInv'
    BY <1>10 DEF Disconnect, ServerLockInv
  <1> QED
    BY <1>0, <1>1, <1>2, <1>3, <1>4, <1>5, <1>6, <1>7, <1>8, <1>9, <1>10 DEF
       Next, Idle, Run

\* Room::lock is held exactly while a thread works on the member set.
THEOREM RoomLockStep ==
    TypeInv /\ RoomLockInv /\ [Next]_vars => RoomLockInv'
  <1> SUFFICES ASSUME TypeInv /\ RoomLockInv, [Next]_vars
               PROVE  RoomLockInv'
    OBVIOUS
  <1> USE ConstantsAssumption DEF TypeInv, TypeOK, Goto, peers, frame,
         rooms, cast, queues, taken
  <1>0. CASE UNCHANGED vars
    BY <1>0 DEF vars, RoomLockInv, Touches, Broadcasting, ArgumentsInv,
       Arguments
  <1>1. ASSUME NEW c \in Client, Accept(c) PROVE RoomLockInv'
    BY <1>1 DEF Accept, RoomLockInv, Touches, Broadcasting, ArgumentsInv,
       Arguments
  <1>2. ASSUME NEW c \in Client, Connect(c) PROVE RoomLockInv'
    BY <1>2 DEF Connect, Login, Refuse, FirstJoin, Reply, RoomLockInv,
       Touches, Broadcasting, ArgumentsInv, Arguments
  <1>3. ASSUME NEW c \in Client, EnterRoom(c) PROVE RoomLockInv'
    BY <1>3 DEF EnterRoom, FindLock, Found, NotFound, CreateRoom, AddLock,
       Insert, Reply, RoomLockInv, Touches, Broadcasting, ArgumentsInv,
       Arguments
  <1>4. ASSUME NEW c \in Client, LeaveRoom(c) PROVE RoomLockInv'
    <2>1. CASE Remove(c)
      BY <2>1 DEF Remove, RoomLockInv, Touches, Broadcasting, ArgumentsInv,
         Arguments
    <2>2. CASE Erase(c)
      <3>1. /\ pc[c] = "erase" /\ room[c] \in Room
            /\ pc' = [pc EXCEPT ![c] = ret[c]]
            /\ ret[c] \in {"find", "left", "cleanup", "delete"}
            /\ room_lock' = [room_lock EXCEPT ![room[c]] = nullptr]
            /\ UNCHANGED <<room, newroom>>
        BY <2>2 DEF Erase, ArgumentsInv, Arguments
      <3> QED
        BY <3>1 DEF RoomLockInv, Touches, Broadcasting
    <2> QED
      BY <1>4, <2>1, <2>2 DEF LeaveRoom
  <1>5. ASSUME NEW c \in Client, Left(c) PROVE RoomLockInv'
    BY <1>5 DEF Left, Reply, RoomLockInv, Touches, Broadcasting, ArgumentsInv,
       Arguments
  <1>6. ASSUME NEW c \in Client, Command(c) PROVE RoomLockInv'
    BY <1>6 DEF Command, ReceiveJoin, ReceiveLeave, ReceiveSendall,
       ReceiveOther, ReceiveQuit, ReceiveFails, Receive, LeaveRoomThen,
       RoomLockInv, Touches, Broadcasting, ArgumentsInv, Arguments
  <1>7. ASSUME NEW c \in Client, Say(c) PROVE RoomLockInv'
    BY <1>7 DEF Say, Broadcast, NextMember, Enqueue, Push, Post, EndBroadcast,
       Reply, RoomLockInv, Touches, Broadcasting, ArgumentsInv, Arguments
  <1>8. ASSUME NEW c \in Client, Listen(c) PROVE RoomLockInv'
    BY <1>8 DEF Listen, Dequeue, Wait, Woken, TimedOut, Front, Pop, Deliver,
       DeliverFails, LeaveRoomThen, TakeSemaphore, RoomLockInv, Touches,
       Broadcasting, ArgumentsInv, Arguments
  <1>9. ASSUME NEW c \in Client, Finish(c) PROVE RoomLockInv'
    BY <1>9 DEF Finish, Cleanup, Delete, LeaveRoomThen, RoomLockInv, Touches,
       Broadcasting, ArgumentsInv, Arguments
  <1>10. ASSUME NEW c \in Client, Disconnect(c) PROVE RoomLockInv'
    BY <1>10 DEF Disconnect, RoomLockInv, Touches, Broadcasting, ArgumentsInv,
       Arguments
  <1> QED
    BY <1>0, <1>1, <1>2, <1>3, <1>4, <1>5, <1>6, <1>7, <1>8, <1>9, <1>10 DEF
       Next, Idle, Run

\* No thread pulls away what another has in its hands: the target of a
\* broadcast stays a member because the room is locked.
THEOREM ArgumentsStep ==
    TypeInv /\ RoomLockInv /\ [Next]_vars => ArgumentsInv'
  <1> SUFFICES ASSUME TypeInv /\ RoomLockInv, [Next]_vars
               PROVE  ArgumentsInv'
    OBVIOUS
  <1> USE ConstantsAssumption DEF TypeInv, TypeOK, Goto, peers, frame,
         rooms, cast, queues, taken
  <1>0. CASE UNCHANGED vars
    BY <1>0 DEF vars, RoomLockInv, Touches, Broadcasting, ArgumentsInv,
       Arguments
  <1>1. ASSUME NEW c \in Client, Accept(c) PROVE ArgumentsInv'
    BY <1>1 DEF Accept, RoomLockInv, Touches, Broadcasting, ArgumentsInv,
       Arguments
  <1>2. ASSUME NEW c \in Client, Connect(c) PROVE ArgumentsInv'
    <2>1. CASE Login(c)
      BY <2>1 DEF Login, Reply, RoomLockInv, Touches, Broadcasting,
         ArgumentsInv, Arguments
    <2>2. CASE Refuse(c)
      BY <2>2 DEF Refuse, Reply, RoomLockInv, Touches, Broadcasting,
         ArgumentsInv, Arguments
    <2>3. CASE FirstJoin(c)
      BY <2>3 DEF FirstJoin, Reply, RoomLockInv, Touches, Broadcasting,
         ArgumentsInv, Arguments
    <2> QED
      BY <1>2, <2>1, <2>2, <2>3 DEF Connect
  <1>3. ASSUME NEW c \in Client, EnterRoom(c) PROVE ArgumentsInv'
    <2>1. CASE FindLock(c)
      BY <2>1 DEF FindLock, RoomLockInv, Touches, Broadcasting, ArgumentsInv,
         Arguments
    <2>2. CASE Found(c)
      BY <2>2 DEF Found, RoomLockInv, Touches, Broadcasting, ArgumentsInv,
         Arguments
    <2>3. CASE NotFound(c)
      BY <2>3 DEF NotFound, RoomLockInv, Touches, Broadcasting, ArgumentsInv,
         Arguments
    <2>4. CASE CreateRoom(c)
      <3>1. <<goal[c], c>> \in Room
        BY <2>4 DEF CreateRoom, ArgumentsInv, Arguments, Room
      <3> QED
        BY <2>4, <3>1 DEF CreateRoom, ArgumentsInv, Arguments
    <2>5. CASE AddLock(c)
      BY <2>5 DEF AddLock, RoomLockInv, Touches, Broadcasting, ArgumentsInv,
         Arguments
    <2>6. CASE Insert(c)
      BY <2>6 DEF Insert, Reply, RoomLockInv, Touches, Broadcasting,
         ArgumentsInv, Arguments
    <2> QED
      BY <1>3, <2>1, <2>2, <2>3, <2>4, <2>5, <2>6 DEF EnterRoom
  <1>4. ASSUME NEW c \in Client, LeaveRoom(c) PROVE ArgumentsInv'
    BY <1>4 DEF LeaveRoom, Remove, Erase, RoomLockInv, Touches, Broadcasting,
       ArgumentsInv, Arguments
  <1>5. ASSUME NEW c \in Client, Left(c) PROVE ArgumentsInv'
    BY <1>5 DEF Left, Reply, RoomLockInv, Touches, Broadcasting, ArgumentsInv,
       Arguments
  <1>6. ASSUME NEW c \in Client, Command(c) PROVE ArgumentsInv'
    <2>1. CASE ReceiveJoin(c)
      BY <2>1 DEF ReceiveJoin, Receive, LeaveRoomThen, RoomLockInv, Touches,
         Broadcasting, ArgumentsInv, Arguments
    <2>2. CASE ReceiveLeave(c)
      BY <2>2 DEF ReceiveLeave, Receive, LeaveRoomThen, RoomLockInv, Touches,
         Broadcasting, ArgumentsInv, Arguments
    <2>3. CASE ReceiveSendall(c)
      <3>1. msg'[c] \in Message
        BY <2>3 DEF ReceiveSendall, Receive, Message
      <3> QED
        BY <2>3, <3>1 DEF ReceiveSendall, Receive, ArgumentsInv, Arguments
    <2>4. CASE ReceiveOther(c)
      BY <2>4 DEF ReceiveOther, Receive, RoomLockInv, Touches, Broadcasting,
         ArgumentsInv, Arguments
    <2>5. CASE ReceiveQuit(c)
      BY <2>5 DEF ReceiveQuit, Receive, LeaveRoomThen, RoomLockInv, Touches,
         Broadcasting, ArgumentsInv, Arguments
    <2>6. CASE ReceiveFails(c)
      BY <2>6 DEF ReceiveFails, RoomLockInv, Touches, Broadcasting,
         ArgumentsInv, Arguments
    <2> QED
      BY <1>6, <2>1, <2>2, <2>3, <2>4, <2>5, <2>6 DEF Command
  <1>7. ASSUME NEW c \in Client, Say(c) PROVE ArgumentsInv'
    <2>1. CASE Broadcast(c)
      BY <2>1 DEF Broadcast, RoomLockInv, Touches, Broadcasting, ArgumentsInv,
         Arguments
    <2>2. CASE NextMember(c)
      BY <2>2 DEF NextMember, RoomLockInv, Touches, Broadcasting,
         ArgumentsInv, Arguments
    <2>3. CASE Enqueue(c)
      BY <2>3 DEF Enqueue, RoomLockInv, Touches, Broadcasting, ArgumentsInv,
         Arguments
    <2>4. CASE Push(c)
      BY <2>4 DEF Push, RoomLockInv, Touches, Broadcasting, ArgumentsInv,
         Arguments
    <2>5. CASE Post(c)
      BY <2>5 DEF Post, RoomLockInv, Touches, Broadcasting, ArgumentsInv,
         Arguments
    <2>6. CASE EndBroadcast(c)
      BY <2>6 DEF EndBroadcast, Reply, RoomLockInv, Touches, Broadcasting,
         ArgumentsInv, Arguments
    <2> QED
      BY <1>7, <2>1, <2>2, <2>3, <2>4, <2>5, <2>6 DEF Say
  <1>8. ASSUME NEW c \in Client, Listen(c) PROVE ArgumentsInv'
    <2>1. CASE Dequeue(c)
      BY <2>1 DEF Dequeue, TakeSemaphore, RoomLockInv, Touches, Broadcasting,
         ArgumentsInv, Arguments
    <2>2. CASE Wait(c)
      BY <2>2 DEF Wait, TakeSemaphore, RoomLockInv, Touches, Broadcasting,
         ArgumentsInv, Arguments
    <2>3. CASE Woken(c)
      BY <2>3 DEF Woken, TakeSemaphore, RoomLockInv, Touches, Broadcasting,
         ArgumentsInv, Arguments
    <2>4. CASE TimedOut(c)
      BY <2>4 DEF TimedOut, TakeSemaphore, RoomLockInv, Touches,
         Broadcasting, ArgumentsInv, Arguments
    <2>5. CASE Front(c)
      BY <2>5 DEF Front, TakeSemaphore, RoomLockInv, Touches, Broadcasting,
         ArgumentsInv, Arguments
    <2>6. CASE Pop(c)
      BY <2>6 DEF Pop, RoomLockInv, Touches, Broadcasting, ArgumentsInv,
         Arguments
    <2>7. CASE Deliver(c)
      BY <2>7 DEF Deliver, RoomLockInv, Touches, Broadcasting, ArgumentsInv,
         Arguments
    <2>8. CASE DeliverFails(c)
      BY <2>8 DEF DeliverFails, LeaveRoomThen, RoomLockInv, Touches,
         Broadcasting, ArgumentsInv, Arguments
    <2> QED
      BY <1>8, <2>1, <2>2, <2>3, <2>4, <2>5, <2>6, <2>7, <2>8 DEF Listen
  <1>9. ASSUME NEW c \in Client, Finish(c) PROVE ArgumentsInv'
    BY <1>9 DEF Finish, Cleanup, Delete, LeaveRoomThen, RoomLockInv, Touches,
       Broadcasting, ArgumentsInv, Arguments
  <1>10. ASSUME NEW c \in Client, Disconnect(c) PROVE ArgumentsInv'
    BY <1>10 DEF Disconnect, RoomLockInv, Touches, Broadcasting, ArgumentsInv,
       Arguments
  <1> QED
    BY <1>0, <1>1, <1>2, <1>3, <1>4, <1>5, <1>6, <1>7, <1>8, <1>9, <1>10 DEF
       Next, Idle, Run

\* A User is freed only when it is in no member set.
THEOREM MembersStep ==
    TypeInv /\ MembersInv /\ [Next]_vars => MembersInv'
  <1> SUFFICES ASSUME TypeInv /\ MembersInv, [Next]_vars
               PROVE  MembersInv'
    OBVIOUS
  <1> USE ConstantsAssumption DEF TypeInv, TypeOK, Goto, peers, frame,
         rooms, cast, queues, taken
  <1>0. CASE UNCHANGED vars
    BY <1>0 DEF vars, MembersInv, MemberLocations, ArgumentsInv, Arguments
  <1>1. ASSUME NEW c \in Client, Accept(c) PROVE MembersInv'
    BY <1>1 DEF Accept, MembersInv, MemberLocations, ArgumentsInv, Arguments
  <1>2. ASSUME NEW c \in Client, Connect(c) PROVE MembersInv'
    <2>1. CASE Login(c)
      <3>1. /\ pc[c] = "login" /\ pc' = [pc EXCEPT ![c] = "join"]
            /\ user' = [user EXCEPT ![c] = "live"]
            /\ UNCHANGED <<room, members>>
        BY <2>1 DEF Login
      <3> QED
        BY <3>1 DEF MembersInv, MemberLocations
    <2>2. CASE Refuse(c)
      <3>1. /\ pc[c] \in {"login", "join"} /\ pc' = [pc EXCEPT ![c] = "delete"]
            /\ UNCHANGED <<room, members, user>>
        BY <2>2 DEF Refuse
      <3> QED
        BY <3>1 DEF MembersInv, MemberLocations
    <2>3. CASE FirstJoin(c)
      BY <2>3 DEF FirstJoin, MembersInv, MemberLocations, ArgumentsInv,
         Arguments
    <2> QED
      BY <1>2, <2>1, <2>2, <2>3 DEF Connect
  <1>3. ASSUME NEW c \in Client, EnterRoom(c) PROVE MembersInv'
    <2>1. CASE FindLock(c)
      BY <2>1 DEF FindLock, MembersInv, MemberLocations, ArgumentsInv,
         Arguments
    <2>2. CASE Found(c)
      BY <2>2 DEF Found, MembersInv, MemberLocations, ArgumentsInv, Arguments
    <2>3. CASE NotFound(c)
      BY <2>3 DEF NotFound, MembersInv, MemberLocations, ArgumentsInv,
         Arguments
    <2>4. CASE CreateRoom(c)
      BY <2>4 DEF CreateRoom, MembersInv, MemberLocations, ArgumentsInv,
         Arguments
    <2>5. CASE AddLock(c)
      BY <2>5 DEF AddLock, MembersInv, MemberLocations, ArgumentsInv,
         Arguments
    <2>6. CASE Insert(c)
      <3>1. /\ pc[c] = "insert" /\ newroom[c] \in Room /\ user[c] = "live"
            /\ \E l \in {"chat", "dequeue"} : pc' = [pc EXCEPT ![c] = l]
            /\ members' = [members EXCEPT ![newroom[c]] = @ \cup {c}]
            /\ room' = [room EXCEPT ![c] = newroom[c]]
            /\ UNCHANGED user
        <4>1. /\ pc[c] = "insert" /\ newroom[c] \in Room
              /\ user[c] = "live"
          BY <2>6 DEF Insert, ArgumentsInv, Arguments, MembersInv
        <4>2. \E l \in {"chat", "dequeue"} : pc' = [pc EXCEPT ![c] = l]
          BY <2>6 DEF Insert
        <4>3. /\ members' = [members EXCEPT ![newroom[c]] = @ \cup {c}]
              /\ room' = [room EXCEPT ![c] = newroom[c]]
              /\ UNCHANGED user
          BY <2>6 DEF Insert
        <4> QED
          BY <4>1, <4>2, <4>3
      <3>2. \A r \in Room : \A u \in members[r] :
                u # c /\ room'[u] = r /\ user'[u] = "live" /\ pc'[u] \in MemberLocations
        BY <3>1 DEF MembersInv, MemberLocations
      <3>3. \A r \in Room : c \in members'[r] => r = newroom[c]
        BY <3>1, <3>2
      <3>4. pc'[c] \in MemberLocations /\ room'[c] = newroom[c]
        BY <3>1 DEF MemberLocations
      <3>5. \A r \in Room : \A u \in members'[r] :
                room'[u] = r /\ user'[u] = "live" /\ pc'[u] \in MemberLocations
        <4> SUFFICES ASSUME NEW r \in Room, NEW u \in members'[r]
                     PROVE  room'[u] = r /\ user'[u] = "live"
                            /\ pc'[u] \in MemberLocations
          OBVIOUS
        <4>1. CASE u = c
          BY <4>1, <3>1, <3>3, <3>4
        <4>2. CASE u # c
          <5>1. u \in members[r]
            BY <4>2, <3>1
          <5> QED
            BY <5>1, <3>2
        <4> QED
          BY <4>1, <4>2
      <3>6. \A d \in Client :
                pc'[d] \notin {"accept", "login", "delete", "done"} => user'[d] = "live"
        BY <3>1 DEF MembersInv
      <3> QED
        BY <3>5, <3>6 DEF MembersInv, MemberLocations
    <2> QED
      BY <1>3, <2>1, <2>2, <2>3, <2>4, <2>5, <2>6 DEF EnterRoom
  <1>4. ASSUME NEW c \in Client, LeaveRoom(c) PROVE MembersInv'
    <2>1. CASE Remove(c)
      BY <2>1 DEF Remove, MembersInv, MemberLocations, ArgumentsInv, Arguments
    <2>2. CASE Erase(c)
      BY <2>2 DEF Erase, MembersInv, MemberLocations, ArgumentsInv, Arguments
    <2> QED
      BY <1>4, <2>1, <2>2 DEF LeaveRoom
  <1>5. ASSUME NEW c \in Client, Left(c) PROVE MembersInv'
    BY <1>5 DEF Left, Reply, MembersInv, MemberLocations, ArgumentsInv,
       Arguments
  <1>6. ASSUME NEW c \in Client, Command(c) PROVE MembersInv'
    <2>1. CASE ReceiveJoin(c)
      BY <2>1 DEF ReceiveJoin, Receive, LeaveRoomThen, MembersInv,
         MemberLocations, ArgumentsInv, Arguments
    <2>2. CASE ReceiveLeave(c)
      BY <2>2 DEF ReceiveLeave, Receive, LeaveRoomThen, MembersInv,
         MemberLocations, ArgumentsInv, Arguments
    <2>3. CASE ReceiveSendall(c)
      BY <2>3 DEF ReceiveSendall, Receive, MembersInv, MemberLocations,
         ArgumentsInv, Arguments
    <2>4. CASE ReceiveOther(c)
      BY <2>4 DEF ReceiveOther, Receive, MembersInv, MemberLocations,
         ArgumentsInv, Arguments
    <2>5. CASE ReceiveQuit(c)
      BY <2>5 DEF ReceiveQuit, Receive, LeaveRoomThen, MembersInv,
         MemberLocations, ArgumentsInv, Arguments
    <2>6. CASE ReceiveFails(c)
      BY <2>6 DEF ReceiveFails, MembersInv, MemberLocations, ArgumentsInv,
         Arguments
    <2> QED
      BY <1>6, <2>1, <2>2, <2>3, <2>4, <2>5, <2>6 DEF Command
  <1>7. ASSUME NEW c \in Client, Say(c) PROVE MembersInv'
    <2>1. CASE Broadcast(c)
      BY <2>1 DEF Broadcast, MembersInv, MemberLocations, ArgumentsInv,
         Arguments
    <2>2. CASE NextMember(c)
      BY <2>2 DEF NextMember, MembersInv, MemberLocations, ArgumentsInv,
         Arguments
    <2>3. CASE Enqueue(c)
      BY <2>3 DEF Enqueue, MembersInv, MemberLocations, ArgumentsInv,
         Arguments
    <2>4. CASE Push(c)
      BY <2>4 DEF Push, MembersInv, MemberLocations, ArgumentsInv, Arguments
    <2>5. CASE Post(c)
      BY <2>5 DEF Post, MembersInv, MemberLocations, ArgumentsInv, Arguments
    <2>6. CASE EndBroadcast(c)
      BY <2>6 DEF EndBroadcast, Reply, MembersInv, MemberLocations,
         ArgumentsInv, Arguments
    <2> QED
      BY <1>7, <2>1, <2>2, <2>3, <2>4, <2>5, <2>6 DEF Say
  <1>8. ASSUME NEW c \in Client, Listen(c) PROVE MembersInv'
    <2>1. CASE Dequeue(c)
      BY <2>1 DEF Dequeue, TakeSemaphore, MembersInv, MemberLocations,
         ArgumentsInv, Arguments
    <2>2. CASE Wait(c)
      BY <2>2 DEF Wait, MembersInv, MemberLocations, ArgumentsInv, Arguments
    <2>3. CASE Woken(c)
      BY <2>3 DEF Woken, TakeSemaphore, MembersInv, MemberLocations,
         ArgumentsInv, Arguments
    <2>4. CASE TimedOut(c)
      BY <2>4 DEF TimedOut, MembersInv, MemberLocations, ArgumentsInv,
         Arguments
    <2>5. CASE Front(c)
      BY <2>5 DEF Front, MembersInv, MemberLocations, ArgumentsInv, Arguments
    <2>6. CASE Pop(c)
      BY <2>6 DEF Pop, MembersInv, MemberLocations, ArgumentsInv, Arguments
    <2>7. CASE Deliver(c)
      BY <2>7 DEF Deliver, MembersInv, MemberLocations, ArgumentsInv,
         Arguments
    <2>8. CASE DeliverFails(c)
      BY <2>8 DEF DeliverFails, LeaveRoomThen, MembersInv, MemberLocations,
         ArgumentsInv, Arguments
    <2> QED
      BY <1>8, <2>1, <2>2, <2>3, <2>4, <2>5, <2>6, <2>7, <2>8 DEF Listen
  <1>9. ASSUME NEW c \in Client, Finish(c) PROVE MembersInv'
    <2>1. CASE Cleanup(c)
      BY <2>1 DEF Cleanup, LeaveRoomThen, MembersInv, MemberLocations,
         ArgumentsInv, Arguments
    <2>2. CASE Delete(c)
      BY <2>2 DEF Delete, MembersInv, MemberLocations, ArgumentsInv, Arguments
    <2> QED
      BY <1>9, <2>1, <2>2 DEF Finish
  <1>10. ASSUME NEW c \in Client, Disconnect(c) PROVE MembersInv'
    BY <1>10 DEF Disconnect, MembersInv, MemberLocations, ArgumentsInv,
       Arguments
  <1> QED
    BY <1>0, <1>1, <1>2, <1>3, <1>4, <1>5, <1>6, <1>7, <1>8, <1>9, <1>10 DEF
       Next, Idle, Run

\* A step that leaves the map alone, and lets nobody start to create a room,
\* keeps the map and the pointers into it as they were.
LEMMA RoomsKept ==
  ASSUME RoomsInv, UNCHANGED <<m_rooms, newroom, goal>>,
         \A d \in Client : room'[d] \in {room[d], nullptr},
         \A d \in Client : pc'[d] = "create" => pc[d] = "create"
  PROVE  RoomsInv'
  BY DEF RoomsInv, OneRoomPerName

\* find_or_create_room never makes a second Room for a name, whatever the
\* order in which threads look up and create.
THEOREM RoomsStep ==
    TypeInv /\ ServerLockInv /\ RoomsInv /\ [Next]_vars => RoomsInv'
  <1> SUFFICES ASSUME TypeInv /\ ServerLockInv /\ RoomsInv, [Next]_vars
               PROVE  RoomsInv'
    OBVIOUS
  <1> USE ConstantsAssumption DEF TypeInv, TypeOK, Goto, peers, frame,
         rooms, cast, queues, taken
  <1>0. CASE UNCHANGED vars
    BY <1>0 DEF vars, ServerLockInv, RoomsInv, OneRoomPerName, ArgumentsInv,
       Arguments, Room
  <1>1. ASSUME NEW c \in Client, Accept(c) PROVE RoomsInv'
    BY <1>1 DEF Accept, ServerLockInv, RoomsInv, OneRoomPerName, ArgumentsInv,
       Arguments, Room
  <1>2. ASSUME NEW c \in Client, Connect(c) PROVE RoomsInv'
    BY <1>2 DEF Connect, Login, Refuse, FirstJoin, Reply, ServerLockInv,
       RoomsInv, OneRoomPerName, ArgumentsInv, Arguments, Room
  <1>3. ASSUME NEW c \in Client, EnterRoom(c) PROVE RoomsInv'
    <2>1. CASE FindLock(c)
      BY <2>1 DEF FindLock, ServerLockInv, RoomsInv, OneRoomPerName,
         ArgumentsInv, Arguments, Room
    <2>2. CASE Found(c)
      BY <2>2 DEF Found, ServerLockInv, RoomsInv, OneRoomPerName,
         ArgumentsInv, Arguments, Room
    <2>3. CASE NotFound(c)
      BY <2>3 DEF NotFound, ServerLockInv, RoomsInv, OneRoomPerName,
         ArgumentsInv, Arguments, Room
    <2>4. CASE CreateRoom(c)
      BY <2>4 DEF CreateRoom, ServerLockInv, RoomsInv, OneRoomPerName,
         ArgumentsInv, Arguments, Room
    <2>5. CASE AddLock(c)
      BY <2>5 DEF AddLock, ServerLockInv, RoomsInv, OneRoomPerName,
         ArgumentsInv, Arguments, Room
    <2>6. CASE Insert(c)
      BY <2>6, SMTT(20) DEF Insert, Reply, ServerLockInv, RoomsInv, OneRoomPerName,
         ArgumentsInv, Arguments, Room
    <2> QED
      BY <1>3, <2>1, <2>2, <2>3, <2>4, <2>5, <2>6 DEF EnterRoom
  <1>4. ASSUME NEW c \in Client, LeaveRoom(c) PROVE RoomsInv'
    <2>1. CASE Remove(c)
      BY <2>1 DEF Remove, ServerLockInv, RoomsInv, OneRoomPerName,
         ArgumentsInv, Arguments, Room
    <2>2. CASE Erase(c)
      <3>1. /\ pc' = [pc EXCEPT ![c] = ret[c]]
            /\ ret[c] \in {"find", "left", "cleanup", "delete"}
            /\ UNCHANGED <<room, newroom, goal, m_rooms>>
        BY <2>2 DEF Erase, ArgumentsInv, Arguments
      <3> QED
        BY <3>1 DEF RoomsInv, OneRoomPerName
    <2> QED
      BY <1>4, <2>1, <2>2 DEF LeaveRoom
  <1>5. ASSUME NEW c \in Client, Left(c) PROVE RoomsInv'
    BY <1>5 DEF Left, Reply, ServerLockInv, RoomsInv, OneRoomPerName,
       ArgumentsInv, Arguments, Room
  <1>6. ASSUME NEW c \in Client, Command(c) PROVE RoomsInv'
    <2>1. CASE ReceiveJoin(c)
      BY <2>1 DEF ReceiveJoin, Receive, LeaveRoomThen, ServerLockInv,
         RoomsInv, OneRoomPerName, ArgumentsInv, Arguments, Room
    <2>2. CASE ReceiveLeave(c)
      BY <2>2 DEF ReceiveLeave, Receive, LeaveRoomThen, ServerLockInv,
         RoomsInv, OneRoomPerName, ArgumentsInv, Arguments, Room
    <2>3. CASE ReceiveSendall(c)
      BY <2>3 DEF ReceiveSendall, Receive, ServerLockInv, RoomsInv,
         OneRoomPerName, ArgumentsInv, Arguments, Room
    <2>4. CASE ReceiveOther(c)
      BY <2>4 DEF ReceiveOther, Receive, ServerLockInv, RoomsInv,
         OneRoomPerName, ArgumentsInv, Arguments, Room
    <2>5. CASE ReceiveQuit(c)
      BY <2>5 DEF ReceiveQuit, Receive, LeaveRoomThen, ServerLockInv,
         RoomsInv, OneRoomPerName, ArgumentsInv, Arguments, Room
    <2>6. CASE ReceiveFails(c)
      BY <2>6 DEF ReceiveFails, ServerLockInv, RoomsInv, OneRoomPerName,
         ArgumentsInv, Arguments, Room
    <2> QED
      BY <1>6, <2>1, <2>2, <2>3, <2>4, <2>5, <2>6 DEF Command
  <1>7. ASSUME NEW c \in Client, Say(c) PROVE RoomsInv'
    <2>1. UNCHANGED <<m_rooms, newroom, goal, room>>
      BY <1>7 DEF Say, Broadcast, NextMember, Enqueue, Push, Post,
         EndBroadcast, Reply
    <2>2. \A d \in Client : pc'[d] = "create" => pc[d] = "create"
      <3>1. \/ Goto(c, "broadcast", "loop") \/ Goto(c, "loop", "enqueue")
            \/ Goto(c, "enqueue", "push") \/ Goto(c, "push", "post")
            \/ Goto(c, "post", "loop") \/ Goto(c, "loop", "chat")
        BY <1>7 DEF Say, Broadcast, NextMember, Enqueue, Push, Post,
           EndBroadcast
      <3> QED
        BY <3>1
    <2> QED
      BY <2>1, <2>2, RoomsKept
  <1>8. ASSUME NEW c \in Client, Listen(c) PROVE RoomsInv'
    <2>1. UNCHANGED <<m_rooms, newroom, goal, room>>
      BY <1>8 DEF Listen, Dequeue, Wait, Woken, TimedOut, Front, Pop, Deliver,
         DeliverFails, LeaveRoomThen, TakeSemaphore
    <2>2. \A d \in Client : pc'[d] = "create" => pc[d] = "create"
      BY <1>8 DEF Listen, Dequeue, Wait, Woken, TimedOut, Front, Pop, Deliver,
         DeliverFails, LeaveRoomThen, TakeSemaphore
    <2> QED
      BY <2>1, <2>2, RoomsKept
  <1>9. ASSUME NEW c \in Client, Finish(c) PROVE RoomsInv'
    <2>1. /\ UNCHANGED <<m_rooms, newroom, goal>>
          /\ room' = room \/ room' = [room EXCEPT ![c] = nullptr]
      BY <1>9 DEF Finish, Cleanup, Delete, LeaveRoomThen
    <2>2. \A d \in Client : pc'[d] = "create" => pc[d] = "create"
      BY <1>9 DEF Finish, Cleanup, Delete, LeaveRoomThen
    <2> QED
      BY <2>1, <2>2, RoomsKept
  <1>10. ASSUME NEW c \in Client, Disconnect(c) PROVE RoomsInv'
    BY <1>10 DEF Disconnect, ServerLockInv, RoomsInv, OneRoomPerName,
       ArgumentsInv, Arguments, Room
  <1> QED
    BY <1>0, <1>1, <1>2, <1>3, <1>4, <1>5, <1>6, <1>7, <1>8, <1>9, <1>10 DEF
       Next, Idle, Run

-----------------------------------------------------------------------------
(* The semaphore and the queue                                             *)

\* Two threads never post to one user at once: it is in one room, and both
\* would hold that room's lock.
LEMMA OnePoster ==
  ASSUME TypeInv, RoomLockInv, MembersInv,
         NEW c \in Client, NEW d \in Client,
         Broadcasting(c), Broadcasting(d),
         pc[c] # "loop", pc[d] # "loop", target[c] = target[d]
  PROVE  c = d
  <1>1. /\ target[c] \in members[room[c]] /\ room[c] \in Room
        /\ target[d] \in members[room[d]] /\ room[d] \in Room
    BY DEF TypeInv, ArgumentsInv, Arguments, Broadcasting
  <1>2. room[c] = room[d]
    BY <1>1 DEF MembersInv
  <1>3. room_lock[room[c]] = c /\ room_lock[room[c]] = d
    BY <1>1, <1>2 DEF RoomLockInv, Touches
  <1> QED
    BY <1>3

\* A user that is being told a message is not on its way to be deleted.
LEMMA TargetIsMember ==
  ASSUME TypeInv, MembersInv, NEW c \in Client,
         pc[c] \in {"enqueue", "push", "post"}
  PROVE  /\ target[c] \in Client /\ user[target[c]] = "live"
         /\ pc[target[c]] \in MemberLocations
  <1>1. target[c] \in members[room[c]] /\ room[c] \in Room
    BY DEF TypeInv, ArgumentsInv, Arguments
  <1> QED
    BY <1>1 DEF MembersInv, TypeInv, TypeOK

\* A step of one thread outside post, front and pop that leaves every queue
\* and semaphore alone.
Elsewhere(c) ==
    /\ pc[c] \notin {"post", "front", "pop"}
    /\ pc'[c] \notin {"post", "front", "pop"}
    /\ \A d \in Client \ {c} : pc'[d] = pc[d] /\ target'[d] = target[d]
    /\ UNCHANGED <<m_messages, m_avail>>

\* Such a step leaves the agreement of queues and semaphores as it is.
LEMMA CountUnchanged ==
  ASSUME SemaphoreCountsMessages, NEW c \in Client, Elsewhere(c)
  PROVE  SemaphoreCountsMessages'
  <1>1. \A u \in Client : Posting(u)' <=> Posting(u)
    BY DEF Posting, Elsewhere
  <1>2. \A u \in Client : pc'[u] \in {"front", "pop"} <=> pc[u] \in {"front", "pop"}
    BY DEF Elsewhere
  <1> QED
    BY <1>1, <1>2 DEF SemaphoreCountsMessages, Elsewhere

\* The semaphore and the queue agree up to the enqueue and the dequeue under
\* way, so the front that dequeue takes exists.
THEOREM SemaphoreStep ==
    /\ TypeInv /\ RoomLockInv /\ MembersInv /\ SemaphoreCountsMessages
    /\ [Next]_vars
    => SemaphoreCountsMessages'
  <1> SUFFICES ASSUME TypeInv, RoomLockInv, MembersInv,
                      SemaphoreCountsMessages, [Next]_vars
               PROVE  SemaphoreCountsMessages'
    OBVIOUS
  <1> USE DEF Goto, peers, frame, rooms, cast, queues, taken
  <1> TypeOK
    BY DEF TypeInv
  <1>0. CASE UNCHANGED vars
    BY <1>0 DEF vars, SemaphoreCountsMessages, Posting
  <1>1. ASSUME NEW c \in Client, Accept(c) PROVE SemaphoreCountsMessages'
    <2>1. Elsewhere(c)
      BY <1>1 DEF Accept, TypeOK, Elsewhere
    <2> QED
      BY <2>1, CountUnchanged
  <1>2. ASSUME NEW c \in Client, Connect(c) PROVE SemaphoreCountsMessages'
    <2>1. Elsewhere(c)
      BY <1>2 DEF Connect, Login, Refuse, FirstJoin, Reply, TypeOK, Elsewhere
    <2> QED
      BY <2>1, CountUnchanged
  <1>3. ASSUME NEW c \in Client, EnterRoom(c) PROVE SemaphoreCountsMessages'
    <2>1. Elsewhere(c)
      BY <1>3 DEF EnterRoom, FindLock, Found, NotFound, CreateRoom, AddLock,
         Insert, Reply, TypeOK, Elsewhere
    <2> QED
      BY <2>1, CountUnchanged
  <1>4. ASSUME NEW c \in Client, LeaveRoom(c) PROVE SemaphoreCountsMessages'
    <2>1. CASE Remove(c)
      <3>1. Elsewhere(c)
        BY <2>1 DEF Remove, TypeOK, Elsewhere
      <3> QED
        BY <3>1, CountUnchanged
    <2>2. CASE Erase(c)
      <3>1. ret[c] \in {"find", "left", "cleanup", "delete"}
        BY <2>2 DEF Erase, TypeInv, ArgumentsInv, Arguments
      <3>2. Elsewhere(c)
        BY <2>2, <3>1 DEF Erase, TypeOK, Elsewhere
      <3> QED
        BY <3>2, CountUnchanged
    <2> QED
      BY <1>4, <2>1, <2>2 DEF LeaveRoom
  <1>5. ASSUME NEW c \in Client, Left(c) PROVE SemaphoreCountsMessages'
    <2>1. Elsewhere(c)
      BY <1>5 DEF Left, Reply, TypeOK, Elsewhere
    <2> QED
      BY <2>1, CountUnchanged
  <1>6. ASSUME NEW c \in Client, Command(c) PROVE SemaphoreCountsMessages'
    <2>1. Elsewhere(c)
      BY <1>6 DEF Command, ReceiveJoin, ReceiveLeave, ReceiveSendall,
         ReceiveOther, ReceiveQuit, ReceiveFails, Receive, LeaveRoomThen,
         TypeOK, Elsewhere
    <2> QED
      BY <2>1, CountUnchanged
  <1>7. ASSUME NEW c \in Client, Say(c) PROVE SemaphoreCountsMessages'
    <2>1. CASE Broadcast(c)
      <3>1. Elsewhere(c)
        BY <2>1 DEF Broadcast, TypeOK, Elsewhere
      <3> QED
        BY <3>1, CountUnchanged
    <2>2. CASE NextMember(c)
      <3>1. Elsewhere(c)
        BY <2>2 DEF NextMember, TypeOK, Elsewhere
      <3> QED
        BY <3>1, CountUnchanged
    <2>3. CASE Enqueue(c)
      <3>1. Elsewhere(c)
        BY <2>3 DEF Enqueue, TypeOK, Elsewhere
      <3> QED
        BY <3>1, CountUnchanged
    <2>4. CASE Push(c)
      <3>0. PICK u \in Client : u = target[c]
        BY <2>4, TargetIsMember DEF Push
      <3>2. ~Posting(u)
        BY <2>4, <3>0, OnePoster DEF Push, Posting, Broadcasting
      <3>3. /\ Posting(u)' /\ m_avail' = m_avail
            /\ \A d \in Client : pc'[d] \in {"front", "pop"} <=> pc[d] \in {"front", "pop"}
            /\ \A d \in Client \ {u} : Posting(d)' <=> Posting(d)
        BY <2>4, <3>0 DEF Push, Posting, TypeOK
      <3>4. Len(m_messages'[u]) = Len(m_messages[u]) + 1
        <4>1. m_messages[u] \in Seq(Message) /\ msg[c] \in Message
          BY <2>4, <3>0 DEF Push, TypeOK, TypeInv, ArgumentsInv, Arguments
        <4> QED
          BY <2>4, <3>0, <4>1, AppendProperties DEF Push, TypeOK
      <3>5. \A d \in Client \ {u} : m_messages'[d] = m_messages[d]
        BY <2>4, <3>0 DEF Push, TypeOK
      <3>6. /\ Len(m_messages[u]) \in Nat /\ m_avail[u] \in Nat
            /\ pc[u] \notin {"front", "pop"} =>
                    Len(m_messages[u]) = m_avail[u]
            /\ pc[u] \in {"front", "pop"} =>
                    Len(m_messages[u]) = m_avail[u] + 1
        BY <3>0, <3>2, LenProperties DEF SemaphoreCountsMessages, TypeOK
      <3>7. ASSUME NEW d \in Client
            PROVE  Len(m_messages'[d])
                     = m_avail'[d] + (IF Posting(d)' THEN 1 ELSE 0)
                       + (IF pc'[d] \in {"front", "pop"} THEN 1 ELSE 0)
        <4>1. CASE d = u
          BY <4>1, <3>3, <3>4, <3>6 DEF Posting
        <4>2. CASE d # u
          BY <4>2, <3>3, <3>5 DEF SemaphoreCountsMessages
        <4> QED
          BY <4>1, <4>2
      <3> QED
        BY <3>7 DEF SemaphoreCountsMessages
    <2>5. CASE Post(c)
      <3>1. PICK u \in Client : u = target[c]
        BY <2>5, TargetIsMember DEF Post
      <3>2. /\ Posting(u) /\ m_messages' = m_messages
            /\ m_avail'[u] = m_avail[u] + 1
            /\ \A d \in Client \ {u} : m_avail'[d] = m_avail[d]
            /\ \A d \in Client : pc'[d] \in {"front", "pop"} <=> pc[d] \in {"front", "pop"}
        BY <2>5, <3>1 DEF Post, Posting, TypeOK
      <3>3. ~Posting(u)'
        <4> SUFFICES ASSUME NEW d \in Client, pc'[d] = "post", target'[d] = u
                     PROVE  FALSE
          BY DEF Posting
        <4>1. d # c /\ pc[d] = "post" /\ target[d] = target[c] /\ pc[c] = "post"
          BY <2>5, <3>1 DEF Post, TypeOK
        <4> QED
          BY <4>1, OnePoster DEF Broadcasting
      <3>4. \A d \in Client \ {u} : Posting(d)' <=> Posting(d)
        BY <2>5, <3>1 DEF Post, Posting, TypeOK
      <3>5. ASSUME NEW d \in Client
            PROVE  Len(m_messages'[d])
                     = m_avail'[d] + (IF Posting(d)' THEN 1 ELSE 0)
                       + (IF pc'[d] \in {"front", "pop"} THEN 1 ELSE 0)
        <4>0. m_avail[d] \in Nat
          BY DEF TypeOK
        <4>1. CASE d = u
          BY <4>0, <4>1, <3>2, <3>3 DEF SemaphoreCountsMessages, Posting
        <4>2. CASE d # u
          BY <4>2, <3>2, <3>4 DEF SemaphoreCountsMessages
        <4> QED
          BY <4>1, <4>2
      <3> QED
        BY <3>5 DEF SemaphoreCountsMessages
    <2>6. CASE EndBroadcast(c)
      <3>1. Elsewhere(c)
        BY <2>6 DEF EndBroadcast, Reply, TypeOK, Elsewhere
      <3> QED
        BY <3>1, CountUnchanged
    <2> QED
      BY <1>7, <2>1, <2>2, <2>3, <2>4, <2>5, <2>6 DEF Say
  <1>8. ASSUME NEW c \in Client, Listen(c) PROVE SemaphoreCountsMessages'
    <2>1. CASE Dequeue(c)
      <3>1. \A d \in Client : Posting(d)' <=> Posting(d)
        BY <2>1 DEF Dequeue, TakeSemaphore, Posting, TypeOK
      <3> QED
        BY <2>1, <3>1 DEF Dequeue, TakeSemaphore, SemaphoreCountsMessages, TypeOK
    <2>2. CASE Wait(c)
      <3>1. Elsewhere(c)
        BY <2>2 DEF Wait, TypeOK, Elsewhere
      <3> QED
        BY <3>1, CountUnchanged
    <2>3. CASE Woken(c)
      <3>1. \A d \in Client : Posting(d)' <=> Posting(d)
        BY <2>3 DEF Woken, TakeSemaphore, Posting, TypeOK
      <3> QED
        BY <2>3, <3>1 DEF Woken, TakeSemaphore, SemaphoreCountsMessages, TypeOK
    <2>4. CASE TimedOut(c)
      <3>1. Elsewhere(c)
        BY <2>4 DEF TimedOut, TypeOK, Elsewhere
      <3> QED
        BY <3>1, CountUnchanged
    <2>5. CASE Front(c)
      <3>1. \A d \in Client : Posting(d)' <=> Posting(d)
        BY <2>5 DEF Front, Posting, TypeOK
      <3> QED
        BY <2>5, <3>1 DEF Front, SemaphoreCountsMessages, TypeOK
    <2>6. CASE Pop(c)
      <3>1. \A d \in Client : Posting(d)' <=> Posting(d)
        BY <2>6 DEF Pop, Posting, TypeOK
      <3>2. Len(Tail(m_messages[c])) = Len(m_messages[c]) - 1
        <4>1. m_messages[c] \in Seq(Message) /\ m_messages[c] # << >>
          BY <2>6 DEF Pop, TypeOK
        <4> QED
          BY <4>1, HeadTailProperties
      <3> QED
        BY <2>6, <3>1, <3>2 DEF Pop, SemaphoreCountsMessages, TypeOK
    <2>7. CASE Deliver(c)
      <3>1. Elsewhere(c)
        BY <2>7 DEF Deliver, TypeOK, Elsewhere
      <3> QED
        BY <3>1, CountUnchanged
    <2>8. CASE DeliverFails(c)
      <3>1. Elsewhere(c)
        BY <2>8 DEF DeliverFails, LeaveRoomThen, TypeOK, Elsewhere
      <3> QED
        BY <3>1, CountUnchanged
    <2> QED
      BY <1>8, <2>1, <2>2, <2>3, <2>4, <2>5, <2>6, <2>7, <2>8 DEF Listen
  <1>9. ASSUME NEW c \in Client, Finish(c) PROVE SemaphoreCountsMessages'
    <2>1. CASE Cleanup(c)
      <3>1. Elsewhere(c)
        BY <2>1 DEF Cleanup, LeaveRoomThen, TypeOK, Elsewhere
      <3> QED
        BY <3>1, CountUnchanged
    <2>2. CASE Delete(c)
      <3>1. \A d \in Client : ~(pc[d] = "post" /\ target[d] = c)
        BY <2>2, TargetIsMember DEF Delete, MemberLocations
      <3>2. /\ m_messages'[c] = << >> /\ m_avail'[c] = 0 /\ pc'[c] = "done"
            /\ \A d \in Client \ {c} : /\ m_messages'[d] = m_messages[d]
                                      /\ m_avail'[d] = m_avail[d]
                                      /\ pc'[d] = pc[d]
        BY <2>2 DEF Delete, TypeOK
      <3>3. ~Posting(c)' /\ \A d \in Client : Posting(d)' <=> Posting(d)
        BY <2>2, <3>1, <3>2 DEF Delete, Posting, TypeOK
      <3> QED
        BY <3>2, <3>3 DEF SemaphoreCountsMessages
    <2> QED
      BY <1>9, <2>1, <2>2 DEF Finish
  <1>10. ASSUME NEW c \in Client, Disconnect(c) PROVE SemaphoreCountsMessages'
    BY <1>10 DEF Disconnect, SemaphoreCountsMessages, Posting
  <1> QED
    BY <1>0, <1>1, <1>2, <1>3, <1>4, <1>5, <1>6, <1>7, <1>8, <1>9, <1>10 DEF
       Next, Idle, Run

-----------------------------------------------------------------------------
(* The theorems                                                            *)

\* A server without connections satisfies the inductive invariant.
LEMMA InitIInv == Init => IInv
  <1> SUFFICES ASSUME Init PROVE IInv
    OBVIOUS
  <1> USE ConstantsAssumption DEF Init
  <1>1. TypeOK
    BY DEF TypeOK, Locations
  <1>2. ArgumentsInv
    BY DEF ArgumentsInv, Arguments
  <1>3. ServerLockInv /\ RoomLockInv
    BY DEF ServerLockInv, RoomLockInv, Touches, Broadcasting
  <1>4. MembersInv /\ RoomsInv
    BY DEF MembersInv, RoomsInv, OneRoomPerName
  <1>5. SemaphoreCountsMessages
    BY DEF SemaphoreCountsMessages, Posting
  <1> QED
    BY <1>1, <1>2, <1>3, <1>4, <1>5 DEF IInv, TypeInv

\* Every step of every thread preserves the inductive invariant: the lemmas
\* above put together.
THEOREM Invariance == Spec => []IInv
  <1>1. IInv /\ [Next]_vars => IInv'
    BY TypeStep, ArgumentsStep, ServerLockStep, RoomLockStep, MembersStep,
       RoomsStep, SemaphoreStep DEF IInv, TypeInv
  <1> QED
    BY <1>1, InitIInv, PTL DEF Spec

\* Every variable stays in its type.
THEOREM TypeCorrect == Spec => []TypeOK
  <1>1. IInv => TypeOK
    BY DEF IInv, TypeInv
  <1> QED
    BY <1>1, Invariance, PTL

\* No two threads are in a room's member set at once, so the iterator of a
\* broadcast is never invalidated.
THEOREM IteratorSafe == Spec => []IteratorStaysValid
  <1>1. IInv => IteratorStaysValid
    BY DEF IInv, RoomLockInv, IteratorStaysValid
  <1> QED
    BY <1>1, Invariance, PTL

\* No thread reaches a User that has been deleted.
THEOREM MemorySafe == Spec => []NoUseAfterFree
  <1>1. ASSUME IInv PROVE NoUseAfterFree
    <2>1. \A r \in Room : \A u \in members[r] : user[u] = "live"
      BY <1>1 DEF IInv, MembersInv
    <2>2. \A c \in Client :
            pc[c] \in {"enqueue", "push", "post"} => user[target[c]] = "live"
      BY <1>1, TargetIsMember DEF IInv
    <2> QED
      BY <2>1, <2>2 DEF NoUseAfterFree
  <1> QED
    BY <1>1, Invariance, PTL

\* The semaphore counts the messages of the queue.
THEOREM SemaphoreCorrect == Spec => []SemaphoreCountsMessages
  <1>1. IInv => SemaphoreCountsMessages
    BY DEF IInv
  <1> QED
    BY <1>1, Invariance, PTL

\* There is one Room object for a name, whoever asks for it.
THEOREM RoomsUnique == Spec => []OneRoomPerName
  <1>1. IInv => OneRoomPerName
    BY DEF IInv, RoomsInv
  <1> QED
    BY <1>1, Invariance, PTL

\* A user is a member of the room its thread knows, or of none.
THEOREM MembershipKnown == Spec => []MemberOfOwnRoomOnly
  <1>1. IInv => MemberOfOwnRoomOnly
    BY DEF IInv, MembersInv, MemberOfOwnRoomOnly
  <1> QED
    BY <1>1, Invariance, PTL

-----------------------------------------------------------------------------
(* The refinement: what it needs beside IInv                               *)

SenderLocations ==
    {"chat", "left", "broadcast", "loop", "enqueue", "push", "post"}

ReceiverLocations == {"dequeue", "wait", "front", "pop", "deliver"}

Entering == {"join", "find", "lookup", "create", "add", "insert"}

\* A thread is in the loop of the role its peer logged in with; only a sender
\* comes back from remove_member.
RoleKnown(c) ==
    /\ pc[c] \in Entering => role[c] \in {"slogin", "rlogin"}
    /\ pc[c] \in SenderLocations => role[c] = "slogin"
    /\ pc[c] \in ReceiverLocations => role[c] = "rlogin"
    /\ pc[c] \in {"remove", "erase"} /\ ret[c] \in {"find", "left"} =>
            role[c] = "slogin"

RoleInv == \A c \in Client : RoleKnown(c)

\* A sender that is at its commands is still in the room it knows.
SpeakerInv ==
    \A c \in Client :
        pc[c] \in SenderLocations \ {"left"} /\ room[c] # nullptr =>
            c \in members[room[c]]

\* The hand is empty but for a delivery, and a loop over the members starts
\* from none and comes to each of them once.
CastKnown(c) ==
    /\ pc[c] # "deliver" => hand[c] = nullptr
    /\ ~Broadcasting(c) => seen[c] = {}
    /\ pc[c] \in {"enqueue", "push"} => target[c] \notin seen[c]

CastInv == \A c \in Client : CastKnown(c)

RefInv == RoleInv /\ SpeakerInv /\ CastInv

FullInv == IInv /\ RefInv

-----------------------------------------------------------------------------
(* What a step of one thread leaves alone                                  *)

Acts(c) == Accept(c) \/ Connect(c) \/ Command(c) \/ Run(c) \/ Disconnect(c)

OthersKept(c) ==
    /\ \A d \in Client \ {c} :
        /\ pc'[d] = pc[d] /\ role'[d] = role[d] /\ room'[d] = room[d]
        /\ ret'[d] = ret[d] /\ msg'[d] = msg[d] /\ seen'[d] = seen[d]
        /\ target'[d] = target[d] /\ hand'[d] = hand[d]
        /\ delivered'[d] = delivered[d]
    /\ \A r \in Room : \A d \in Client \ {c} :
        d \in members'[r] <=> d \in members[r]

\* A thread writes to its own variables; of a member set it touches only its
\* own membership.
LEMMA OneThreadSteps ==
  ASSUME TypeInv, NEW c \in Client, Acts(c)
  PROVE  OthersKept(c)
  <1> USE DEF TypeInv, TypeOK, Goto, peers, frame, rooms, cast, queues, taken,
         Reply, OthersKept
  <1>1. CASE Accept(c)
    BY <1>1 DEF Accept
  <1>2. CASE Connect(c)
    BY <1>2 DEF Connect, Login, Refuse, FirstJoin
  <1>3. CASE EnterRoom(c)
    <2>1. CASE FindLock(c) \/ Found(c) \/ NotFound(c) \/ CreateRoom(c) \/ AddLock(c)
      BY <2>1 DEF FindLock, Found, NotFound, CreateRoom, AddLock
    <2>2. CASE Insert(c)
      BY <2>2 DEF Insert, ArgumentsInv, Arguments
    <2> QED
      BY <1>3, <2>1, <2>2 DEF EnterRoom
  <1>4. CASE LeaveRoom(c)
    <2>1. CASE Remove(c)
      BY <2>1 DEF Remove
    <2>2. CASE Erase(c)
      BY <2>2 DEF Erase, ArgumentsInv, Arguments
    <2> QED
      BY <1>4, <2>1, <2>2 DEF LeaveRoom
  <1>5. CASE Left(c)
    BY <1>5 DEF Left
  <1>6. CASE Command(c)
    <2>1. CASE ReceiveJoin(c) \/ ReceiveLeave(c) \/ ReceiveQuit(c)
      <3>1. CASE ReceiveJoin(c)
        BY <3>1 DEF ReceiveJoin, LeaveRoomThen
      <3>2. CASE ReceiveLeave(c)
        BY <3>2 DEF ReceiveLeave, LeaveRoomThen
      <3>3. CASE ReceiveQuit(c)
        BY <3>3 DEF ReceiveQuit, LeaveRoomThen
      <3> QED
        BY <2>1, <3>1, <3>2, <3>3
    <2>2. CASE ReceiveSendall(c)
      <3>1. PICK m : msg' = [msg EXCEPT ![c] = m]
        BY <2>2 DEF ReceiveSendall
      <3> QED
        BY <2>2, <3>1 DEF ReceiveSendall
    <2>3. CASE ReceiveOther(c) \/ ReceiveFails(c)
      BY <2>3 DEF ReceiveOther, ReceiveFails
    <2> QED
      BY <1>6, <2>1, <2>2, <2>3 DEF Command
  <1>7. CASE Say(c)
    <2>1. CASE Broadcast(c) \/ Enqueue(c) \/ Push(c)
      <3>1. CASE Broadcast(c)
        BY <3>1 DEF Broadcast
      <3>2. CASE Enqueue(c)
        BY <3>2 DEF Enqueue
      <3>3. CASE Push(c)
        BY <3>3 DEF Push
      <3> QED
        BY <2>1, <3>1, <3>2, <3>3
    <2>2. CASE NextMember(c)
      BY <2>2 DEF NextMember
    <2>3. CASE Post(c) \/ EndBroadcast(c)
      <3>1. CASE Post(c)
        BY <3>1 DEF Post
      <3>2. CASE EndBroadcast(c)
        BY <3>2 DEF EndBroadcast
      <3> QED
        BY <2>3, <3>1, <3>2
    <2> QED
      BY <1>7, <2>1, <2>2, <2>3 DEF Say
  <1>8. CASE Listen(c)
    BY <1>8 DEF Listen, Dequeue, Wait, Woken, TimedOut, Front, Pop, Deliver,
       DeliverFails, LeaveRoomThen, TakeSemaphore
  <1>9. CASE Finish(c)
    BY <1>9 DEF Finish, Cleanup, Delete, LeaveRoomThen
  <1>10. CASE Disconnect(c)
    BY <1>10 DEF Disconnect
  <1> QED
    BY <1>1, <1>2, <1>3, <1>4, <1>5, <1>6, <1>7, <1>8, <1>9, <1>10 DEF Acts, Run

-----------------------------------------------------------------------------
(* RefInv is an invariant                                                  *)

\* Each thread stays in the loop of its role.
THEOREM RoleStep ==
    TypeInv /\ RoleInv /\ [Next]_vars => RoleInv'
  <1> SUFFICES ASSUME TypeInv, RoleInv, [Next]_vars PROVE RoleInv'
    OBVIOUS
  <1>0. CASE UNCHANGED vars
    BY <1>0 DEF vars, RoleInv, RoleKnown, frame
  <1>1. ASSUME NEW c \in Client, Acts(c) PROVE RoleInv'
    <2>1. \A d \in Client \ {c} : RoleKnown(d)'
      BY <1>1, OneThreadSteps DEF OthersKept, RoleInv, RoleKnown
    <2>2. RoleKnown(c)'
      <3> RoleKnown(c)
        BY DEF RoleInv
      <3> USE DEF TypeInv, TypeOK, Goto, peers, frame, rooms, cast, queues,
             taken, RoleKnown, Entering, SenderLocations, ReceiverLocations
      <3>1. CASE Accept(c) \/ Disconnect(c)
        BY <3>1 DEF Accept, Disconnect
      <3>2. CASE Login(c)
        <4>1. role'[c] \in {"slogin", "rlogin"} /\ pc'[c] = "join"
          BY <3>2 DEF Login
        <4> QED
          BY <4>1
      <3>3. CASE Refuse(c) \/ FirstJoin(c)
        <4>1. CASE Refuse(c)
          BY <4>1 DEF Refuse
        <4>2. CASE FirstJoin(c)
          BY <4>2 DEF FirstJoin
        <4> QED
          BY <3>3, <4>1, <4>2
      <3>4. CASE FindLock(c) \/ Found(c) \/ NotFound(c) \/ CreateRoom(c)
                 \/ AddLock(c) \/ Insert(c)
        BY <3>4 DEF FindLock, Found, NotFound, CreateRoom, AddLock, Insert
      <3>5. CASE Remove(c) \/ Left(c)
        <4>1. CASE Remove(c)
          BY <4>1 DEF Remove
        <4>2. CASE Left(c)
          BY <4>2 DEF Left
        <4> QED
          BY <3>5, <4>1, <4>2
      <3>6. CASE Erase(c)
        BY <3>6 DEF Erase, ArgumentsInv, Arguments
      <3>7. CASE ReceiveJoin(c) \/ ReceiveLeave(c) \/ ReceiveQuit(c)
        <4>1. CASE ReceiveJoin(c)
          BY <4>1 DEF ReceiveJoin, LeaveRoomThen
        <4>2. CASE ReceiveLeave(c)
          BY <4>2 DEF ReceiveLeave, LeaveRoomThen
        <4>3. CASE ReceiveQuit(c)
          BY <4>3 DEF ReceiveQuit, LeaveRoomThen
        <4> QED
          BY <3>7, <4>1, <4>2, <4>3
      <3>8. CASE ReceiveSendall(c) \/ ReceiveOther(c) \/ ReceiveFails(c)
        BY <3>8 DEF ReceiveSendall, ReceiveOther, ReceiveFails
      <3>9. CASE Say(c)
        <4>1. CASE Broadcast(c) \/ NextMember(c)
          BY <4>1 DEF Broadcast, NextMember
        <4>2. CASE Enqueue(c) \/ Push(c)
          BY <4>2 DEF Enqueue, Push
        <4>3. CASE Post(c)
          BY <4>3 DEF Post
        <4>4. CASE EndBroadcast(c)
          BY <4>4 DEF EndBroadcast
        <4> QED
          BY <3>9, <4>1, <4>2, <4>3, <4>4 DEF Say
      <3>10. CASE Dequeue(c) \/ Wait(c) \/ Woken(c) \/ TimedOut(c) \/ Front(c)
                  \/ Pop(c) \/ Deliver(c)
        BY <3>10 DEF Dequeue, Wait, Woken, TimedOut, Front, Pop, Deliver,
           TakeSemaphore
      <3>11. CASE DeliverFails(c) \/ Cleanup(c)
        BY <3>11 DEF DeliverFails, Cleanup, LeaveRoomThen
      <3>12. CASE Delete(c)
        BY <3>12 DEF Delete
      <3> QED
        BY <1>1, <3>1, <3>2, <3>3, <3>4, <3>5, <3>6, <3>7, <3>8, <3>9, <3>10,
           <3>11, <3>12 DEF Acts, Run, Connect, EnterRoom, LeaveRoom, Command,
           Listen, Finish
    <2> QED
      BY <2>1, <2>2 DEF RoleInv
  <1> QED
    BY <1>0, <1>1 DEF Next, Acts, Idle

\* Nobody but its own thread takes a sender out of its room.
THEOREM SpeakerStep ==
    TypeInv /\ MembersInv /\ SpeakerInv /\ [Next]_vars => SpeakerInv'
  <1> SUFFICES ASSUME TypeInv, MembersInv, SpeakerInv, [Next]_vars
               PROVE  SpeakerInv'
    OBVIOUS
  <1> DEFINE Speaks(d) == pc[d] \in SenderLocations \ {"left"} /\ room[d] # nullptr
                             => d \in members[room[d]]
  <1>0. CASE UNCHANGED vars
    BY <1>0 DEF vars, SpeakerInv, frame, rooms
  <1>1. ASSUME NEW c \in Client, Acts(c) PROVE SpeakerInv'
    <2>1. \A d \in Client \ {c} : Speaks(d)'
      <3> SUFFICES ASSUME NEW d \in Client \ {c} PROVE Speaks(d)'
        OBVIOUS
      <3>1. pc'[d] = pc[d] /\ room'[d] = room[d] /\ Speaks(d)
        BY <1>1, OneThreadSteps DEF OthersKept, SpeakerInv
      <3>2. room[d] # nullptr => room[d] \in Room
        BY DEF TypeInv, TypeOK
      <3> QED
        BY <1>1, <3>1, <3>2, OneThreadSteps DEF OthersKept
    <2>2. Speaks(c)'
      <3> Speaks(c)
        BY DEF SpeakerInv
      <3> USE DEF TypeInv, TypeOK, Goto, peers, frame, rooms, cast, queues,
             taken, SenderLocations
      <3>1. CASE Accept(c) \/ Disconnect(c) \/ Delete(c)
        BY <3>1 DEF Accept, Disconnect, Delete
      <3>2. CASE Connect(c)
        <4>1. pc'[c] \in {"join", "find", "delete"}
          BY <3>2 DEF Connect, Login, Refuse, FirstJoin
        <4> QED
          BY <4>1
      <3>3. CASE FindLock(c) \/ Found(c) \/ NotFound(c) \/ CreateRoom(c)
                 \/ AddLock(c)
        BY <3>3 DEF FindLock, Found, NotFound, CreateRoom, AddLock
      <3>4. CASE Insert(c)
        BY <3>4 DEF Insert, ArgumentsInv, Arguments
      <3>5. CASE Remove(c) \/ Left(c)
        <4>1. CASE Remove(c)
          BY <4>1 DEF Remove
        <4>2. CASE Left(c)
          BY <4>2 DEF Left
        <4> QED
          BY <3>5, <4>1, <4>2
      <3>6. CASE Erase(c)
        BY <3>6 DEF Erase, ArgumentsInv, Arguments
      <3>7. CASE ReceiveJoin(c) \/ ReceiveLeave(c) \/ ReceiveQuit(c)
        BY <3>7 DEF ReceiveJoin, ReceiveLeave, ReceiveQuit, LeaveRoomThen
      <3>8. CASE ReceiveSendall(c) \/ ReceiveOther(c) \/ ReceiveFails(c)
        BY <3>8 DEF ReceiveSendall, ReceiveOther, ReceiveFails
      <3>9. CASE Say(c)
        <4>1. /\ pc[c] \in SenderLocations \ {"left"}
              /\ UNCHANGED <<members, room>>
          BY <3>9 DEF Say, Broadcast, NextMember, Enqueue, Push, Post,
             EndBroadcast
        <4> QED
          BY <4>1
      <3>10. CASE Dequeue(c) \/ Wait(c) \/ Woken(c) \/ TimedOut(c) \/ Front(c)
                  \/ Pop(c) \/ Deliver(c)
        BY <3>10 DEF Dequeue, Wait, Woken, TimedOut, Front, Pop, Deliver,
           TakeSemaphore
      <3>11. CASE DeliverFails(c) \/ Cleanup(c)
        BY <3>11 DEF DeliverFails, Cleanup, LeaveRoomThen
      <3> QED
        BY <1>1, <3>1, <3>2, <3>3, <3>4, <3>5, <3>6, <3>7, <3>8, <3>9, <3>10,
           <3>11 DEF Acts, Run, EnterRoom, LeaveRoom, Command, Listen, Finish
    <2> QED
      BY <2>1, <2>2 DEF SpeakerInv
  <1> QED
    BY <1>0, <1>1 DEF Next, Acts, Idle

\* A broadcast tells each member once, and a message is in a receiver's hand
\* only while it is being delivered.
THEOREM CastStep ==
    TypeInv /\ CastInv /\ [Next]_vars => CastInv'
  <1> SUFFICES ASSUME TypeInv, CastInv, [Next]_vars PROVE CastInv'
    OBVIOUS
  <1>0. CASE UNCHANGED vars
    BY <1>0 DEF vars, CastInv, CastKnown, Broadcasting, cast, taken
  <1>1. ASSUME NEW c \in Client, Acts(c) PROVE CastInv'
    <2>1. \A d \in Client \ {c} : CastKnown(d)'
      BY <1>1, OneThreadSteps DEF OthersKept, CastInv, CastKnown, Broadcasting
    <2>2. CastKnown(c)'
      <3> CastKnown(c)
        BY DEF CastInv
      <3> USE DEF TypeInv, TypeOK, Goto, peers, frame, rooms, cast, queues,
             taken, CastKnown, Broadcasting
      <3>1. CASE Accept(c) \/ Disconnect(c) \/ Delete(c)
        BY <3>1 DEF Accept, Disconnect, Delete
      <3>2. CASE Connect(c)
        BY <3>2 DEF Connect, Login, Refuse, FirstJoin
      <3>3. CASE FindLock(c) \/ Found(c) \/ NotFound(c) \/ CreateRoom(c)
                 \/ AddLock(c) \/ Insert(c)
        BY <3>3 DEF FindLock, Found, NotFound, CreateRoom, AddLock, Insert
      <3>4. CASE Remove(c) \/ Left(c)
        BY <3>4 DEF Remove, Left
      <3>5. CASE Erase(c)
        BY <3>5 DEF Erase, ArgumentsInv, Arguments
      <3>6. CASE ReceiveJoin(c) \/ ReceiveLeave(c) \/ ReceiveQuit(c)
        BY <3>6 DEF ReceiveJoin, ReceiveLeave, ReceiveQuit, LeaveRoomThen
      <3>7. CASE ReceiveSendall(c) \/ ReceiveOther(c) \/ ReceiveFails(c)
        BY <3>7 DEF ReceiveSendall, ReceiveOther, ReceiveFails
      <3>8. CASE Broadcast(c) \/ Enqueue(c) \/ Push(c) \/ Post(c)
                 \/ EndBroadcast(c)
        <4>1. CASE Broadcast(c) \/ Enqueue(c)
          BY <4>1 DEF Broadcast, Enqueue
        <4>2. CASE Push(c)
          BY <4>2 DEF Push
        <4>3. CASE Post(c)
          BY <4>3 DEF Post
        <4>4. CASE EndBroadcast(c)
          BY <4>4 DEF EndBroadcast
        <4> QED
          BY <3>8, <4>1, <4>2, <4>3, <4>4
      <3>9. CASE NextMember(c)
        <4>1. PICK u \in members[room[c]] \ seen[c] :
                target' = [target EXCEPT ![c] = u]
          BY <3>9 DEF NextMember
        <4> QED
          BY <3>9, <4>1 DEF NextMember
      <3>10. CASE Dequeue(c) \/ Wait(c) \/ Woken(c) \/ TimedOut(c) \/ Front(c)
                  \/ Pop(c) \/ Deliver(c)
        BY <3>10 DEF Dequeue, Wait, Woken, TimedOut, Front, Pop, Deliver,
           TakeSemaphore
      <3>11. CASE DeliverFails(c) \/ Cleanup(c)
        BY <3>11 DEF DeliverFails, Cleanup, LeaveRoomThen
      <3> QED
        BY <1>1, <3>1, <3>2, <3>3, <3>4, <3>5, <3>6, <3>7, <3>8, <3>9, <3>10,
           <3>11 DEF Acts, Run, EnterRoom, LeaveRoom, Command, Say, Listen,
           Finish
    <2> QED
      BY <2>1, <2>2 DEF CastInv
  <1> QED
    BY <1>0, <1>1 DEF Next, Acts, Idle

\* The server starts in RefInv and never leaves it.
THEOREM FullInvariance == Spec => []FullInv
  <1>1. Init => FullInv
    <2> SUFFICES ASSUME Init PROVE RefInv
      BY InitIInv DEF FullInv
    <2> QED
      BY DEF Init, RefInv, RoleInv, RoleKnown, SpeakerInv, CastInv, CastKnown,
         Entering, SenderLocations, ReceiverLocations, Broadcasting
  <1>2. RefInv /\ IInv /\ [Next]_vars => RefInv'
    BY RoleStep, SpeakerStep, CastStep DEF RefInv, IInv
  <1>3. Init => RefInv
    BY <1>1 DEF FullInv
  <1> QED
    BY <1>2, <1>3, Invariance, PTL DEF Spec, FullInv

-----------------------------------------------------------------------------
(* The mapping, in any state of FullInv                                    *)

\* The broadcast of b has not come to d yet.
Owes(b, d) == Broadcasting(b) /\ d \in members[room[b]] \ seen[b]

Held(d) == IF hand[d] # nullptr THEN <<hand[d]>> ELSE << >>

PendingFacts ==
    \A d \in Client :
        /\ \A b \in Client : Owes(b, d) => Pending(d) = <<msg[b]>>
        /\ (\A b \in Client : ~Owes(b, d)) => Pending(d) = << >>
        /\ Pending(d) \in Seq(Message)

RoomFacts ==
    \A d \in Client :
        /\ Failed(d) => RoomOf(d) = nullptr
        /\ (\A r \in Room : d \notin members[r]) => RoomOf(d) = nullptr
        /\ \A r \in Room : d \in members[r] /\ ~Failed(d) => RoomOf(d) = r[1]

InboxFacts ==
    \A d \in Client :
        /\ Held(d) \in Seq(Message)
        /\ Failed(d) => InboxOf(d) = << >>
        /\ ~Failed(d) => InboxOf(d) = Held(d) \o m_messages[d] \o Pending(d)

Facts == PendingFacts /\ RoomFacts /\ InboxFacts

\* One broadcast at most is still to come to a user: it holds the lock of the
\* user's room.
LEMMA OneTeller ==
  ASSUME IInv, NEW b \in Client, NEW c \in Client, NEW d \in Client,
         Owes(b, d), Owes(c, d)
  PROVE  b = c
  <1>1. room[b] \in Room /\ room[c] \in Room
    BY DEF Owes, Broadcasting, IInv, TypeInv, ArgumentsInv, Arguments
  <1>2. room[b] = room[c]
    BY <1>1 DEF Owes, IInv, MembersInv
  <1>3. room_lock[room[b]] = b /\ room_lock[room[b]] = c
    BY <1>1, <1>2 DEF Owes, IInv, RoomLockInv, Touches
  <1> QED
    BY <1>3

\* What the choices in the mapping come to: there is one room and one message
\* to choose.
LEMMA MappingFacts == IInv => Facts
  <1> SUFFICES ASSUME IInv PROVE Facts
    OBVIOUS
  <1>1. ASSUME NEW d \in Client, NEW b \in Client, Owes(b, d)
        PROVE  Pending(d) = <<msg[b]>>
    <2> DEFINE P(x) == Broadcasting(x) /\ d \in members[room[x]] \ seen[x]
               e == CHOOSE x \in Client : P(x)
    <2>1. P(b)
      BY <1>1 DEF Owes
    <2>2. e \in Client /\ P(e)
      BY <2>1
    <2>3. Owes(e, d)
      BY <2>2 DEF Owes
    <2>4. e = b
      BY <1>1, <2>2, <2>3, OneTeller
    <2>5. \E x \in Client : P(x)
      BY <2>1
    <2>6. Pending(d) = <<msg[e]>>
      BY <2>5 DEF Pending
    <2> QED
      BY <2>4, <2>6
  <1>2. ASSUME NEW d \in Client, \A b \in Client : ~Owes(b, d)
        PROVE  Pending(d) = << >>
    BY <1>2 DEF Pending, Owes
  <1>3. PendingFacts
    <2>1. ASSUME NEW d \in Client PROVE Pending(d) \in Seq(Message)
      <3>a. << >> \in Seq(Message) /\ \A m \in Message : <<m>> \in Seq(Message)
        OBVIOUS
      <3>1. CASE \A b \in Client : ~Owes(b, d)
        BY <1>2, <3>1, <3>a, Zenon
      <3>2. ASSUME NEW b \in Client, Owes(b, d) PROVE Pending(d) \in Seq(Message)
        <4>1. msg[b] \in Message
          BY <3>2 DEF Owes, Broadcasting, IInv, TypeInv, ArgumentsInv, Arguments
        <4>2. Pending(d) = <<msg[b]>>
          BY <1>1, <3>2
        <4> QED
          BY <3>a, <4>1, <4>2, Zenon
      <3> QED
        BY <3>1, <3>2
    <2> QED
      BY <1>1, <1>2, <2>1 DEF PendingFacts
  <1>4. RoomFacts
    <2>1. ASSUME NEW d \in Client, NEW r \in Room, d \in members[r], ~Failed(d)
          PROVE  RoomOf(d) = r[1]
      <3>1. \A q \in Room : d \in members[q] => q = r
        BY <2>1 DEF IInv, MembersInv
      <3> DEFINE e == CHOOSE q \in Room : d \in members[q]
      <3>2. e \in Room /\ d \in members[e]
        BY <2>1
      <3>3. e = r
        BY <3>1, <3>2
      <3>4. ~ \A q \in Room : d \notin members[q]
        BY <2>1
      <3>5. RoomOf(d) = e[1]
        BY <2>1, <3>4 DEF RoomOf
      <3> QED
        BY <3>3, <3>5
    <2> QED
      BY <2>1 DEF RoomFacts, RoomOf
  <1>5. InboxFacts
    <2> SUFFICES ASSUME NEW d \in Client
                 PROVE  /\ Held(d) \in Seq(Message)
                        /\ Failed(d) => InboxOf(d) = << >>
                        /\ ~Failed(d) =>
                             InboxOf(d) = Held(d) \o m_messages[d] \o Pending(d)
      BY DEF InboxFacts
    <2>1. hand[d] \in Message \cup {nullptr}
      BY DEF IInv, TypeInv, TypeOK
    <2>2. Held(d) \in Seq(Message)
      BY <2>1 DEF Held
    <2>3. ~Failed(d) => InboxOf(d) = Held(d) \o m_messages[d] \o Pending(d)
      BY Zenon DEF InboxOf, Held
    <2>4. Failed(d) => InboxOf(d) = << >>
      BY Zenon DEF InboxOf
    <2> QED
      BY <2>2, <2>3, <2>4
  <1> QED
    BY <1>3, <1>4, <1>5 DEF Facts

-----------------------------------------------------------------------------
(* What a step leaves alone in the abstract state                          *)

\* A user's abstract room changes only with its membership or its failure.
LEMMA SameRoomOf ==
  ASSUME Facts, Facts', NEW d \in Client, Failed(d)' <=> Failed(d),
         \A r \in Room : d \in members'[r] <=> d \in members[r]
  PROVE  RoomOf(d)' = RoomOf(d)
  <1>1. CASE Failed(d)
    BY <1>1 DEF Facts, RoomFacts
  <1>2. CASE \A r \in Room : d \notin members[r]
    BY <1>2 DEF Facts, RoomFacts
  <1>3. ASSUME ~Failed(d), NEW r \in Room, d \in members[r]
        PROVE  RoomOf(d)' = RoomOf(d)
    BY <1>3 DEF Facts, RoomFacts
  <1> QED
    BY <1>1, <1>2, <1>3

\* A user's abstract inbox changes only with its queue, its hand, its failure
\* or what the broadcasts owe it.
LEMMA SameInboxOf ==
  ASSUME Facts, Facts', NEW d \in Client, Failed(d)' <=> Failed(d),
         \A b \in Client : Owes(b, d)' <=> Owes(b, d),
         \A b \in Client : Owes(b, d) => msg'[b] = msg[b],
         hand'[d] = hand[d], m_messages'[d] = m_messages[d]
  PROVE  InboxOf(d)' = InboxOf(d)
  <1>1. Pending(d)' = Pending(d)
    <2>1. CASE \A b \in Client : ~Owes(b, d)
      BY <2>1 DEF Facts, PendingFacts
    <2>2. ASSUME NEW b \in Client, Owes(b, d) PROVE Pending(d)' = Pending(d)
      <3>1. Pending(d) = <<msg[b]>> /\ Pending(d)' = <<msg'[b]>>
        BY <2>2 DEF Facts, PendingFacts
      <3> QED
        BY <2>2, <3>1
    <2> QED
      BY <2>1, <2>2
  <1>2. Held(d)' = Held(d)
    BY DEF Held
  <1>3. CASE Failed(d)
    <2>1. InboxOf(d)' = << >> /\ InboxOf(d) = << >>
      BY <1>3 DEF Facts, InboxFacts
    <2> QED
      BY <2>1
  <1>4. CASE ~Failed(d)
    <2>1. /\ InboxOf(d) = Held(d) \o m_messages[d] \o Pending(d)
          /\ InboxOf(d)' = Held(d)' \o m_messages'[d] \o Pending(d)'
      BY <1>4 DEF Facts, InboxFacts
    <2> QED
      BY <1>1, <1>2, <2>1
  <1> QED
    BY <1>3, <1>4

\* A step of c leaves alone who fails among the others and what they owe each
\* other, and what they owe c unless c comes or goes.
LEMMA OthersOwe ==
  ASSUME FullInv, NEW c \in Client, OthersKept(c)
  PROVE  /\ \A d \in Client \ {c} : Failed(d)' <=> Failed(d)
         /\ \A b, d \in Client \ {c} : Owes(b, d)' <=> Owes(b, d)
         /\ members' = members =>
                \A b \in Client \ {c} : Owes(b, c)' <=> Owes(b, c)
  <1>1. \A b \in Client \ {c} : Broadcasting(b)' <=> Broadcasting(b)
    BY DEF OthersKept, Broadcasting
  <1>2. \A b \in Client : Broadcasting(b) => room[b] \in Room
    BY DEF FullInv, IInv, TypeInv, ArgumentsInv, Arguments, Broadcasting
  <1>3. \A b, d \in Client \ {c} : Owes(b, d)' <=> Owes(b, d)
    BY <1>1, <1>2 DEF OthersKept, Owes
  <1>4. \A d \in Client \ {c} : Failed(d)' <=> Failed(d)
    BY DEF OthersKept, Failed
  <1>5. members' = members => \A b \in Client \ {c} : Owes(b, c)' <=> Owes(b, c)
    BY <1>1, <1>2 DEF OthersKept, Owes
  <1> QED
    BY <1>3, <1>4, <1>5

\* A step of c between points where the abstract state is the same.
LEMMA QuietStep ==
  ASSUME FullInv, FullInv', NEW c \in Client, OthersKept(c),
         UNCHANGED <<members, m_messages, hand, delivered>>,
         Failed(c)' <=> Failed(c),
         \A d \in Client : Owes(c, d)' <=> Owes(c, d),
         \A d \in Client : Owes(c, d) => msg'[c] = msg[c]
  PROVE  UNCHANGED Abstract!vars
  <1>1. Facts /\ Facts'
    BY MappingFacts, PTL DEF FullInv
  <1>2. \A b, d \in Client : Owes(b, d)' <=> Owes(b, d)
    BY OthersOwe
  <1>3. \A b, d \in Client : Owes(b, d) => msg'[b] = msg[b]
    BY DEF OthersKept
  <1>4. \A d \in Client : Failed(d)' <=> Failed(d)
    BY OthersOwe
  <1>5. \A d \in Client : RoomOf(d)' = RoomOf(d)
    BY <1>1, <1>4, SameRoomOf
  <1>6. \A d \in Client : InboxOf(d)' = InboxOf(d)
    BY <1>1, <1>2, <1>3, <1>4, SameInboxOf
  <1> QED
    BY <1>5, <1>6 DEF Abstract!vars

\* The same for a step outside the loop of a broadcast.
LEMMA SilentStep ==
  ASSUME FullInv, FullInv', NEW c \in Client, OthersKept(c),
         UNCHANGED <<members, m_messages, hand, delivered>>,
         Failed(c)' <=> Failed(c),
         ~Broadcasting(c), ~Broadcasting(c)'
  PROVE  UNCHANGED Abstract!vars
  BY QuietStep DEF Owes

\* A step of c that ends with c in no room and with nothing left to hear.
LEMMA HangUpStep ==
  ASSUME FullInv, FullInv', NEW c \in Client, OthersKept(c),
         \A d \in Client \ {c} : m_messages'[d] = m_messages[d],
         delivered' = delivered,
         ~Broadcasting(c), ~Broadcasting(c)',
         RoomOf(c)' = nullptr, InboxOf(c)' = << >>
  PROVE  Abstract!HangUp(c)
  <1>1. Facts /\ Facts'
    BY MappingFacts, PTL DEF FullInv
  <1>2. \A b \in Client : \A d \in Client \ {c} : Owes(b, d)' <=> Owes(b, d)
    BY OthersOwe DEF Owes
  <1>3. \A b, d \in Client : Owes(b, d) => msg'[b] = msg[b]
    BY DEF OthersKept, Owes
  <1>4. \A d \in Client \ {c} : Failed(d)' <=> Failed(d)
    BY OthersOwe
  <1>5. \A d \in Client \ {c} : RoomOf(d)' = RoomOf(d)
    BY <1>1, <1>4, SameRoomOf DEF OthersKept
  <1>6. \A d \in Client \ {c} : InboxOf(d)' = InboxOf(d)
    BY <1>1, <1>2, <1>3, <1>4, SameInboxOf DEF OthersKept
  <1> QED
    BY <1>5, <1>6 DEF Abstract!HangUp

-----------------------------------------------------------------------------
(* Every step of a thread is a step of ChatRoom or none                    *)

\* Logging in, looking a room up, reading commands and waiting change nothing
\* that ChatRoom tells of.
LEMMA SilentSteps ==
  ASSUME FullInv, FullInv', NEW c \in Client, OthersKept(c),
         \/ Accept(c) \/ Login(c) \/ FirstJoin(c) \/ FindLock(c) \/ Found(c)
         \/ NotFound(c) \/ CreateRoom(c) \/ AddLock(c) \/ Remove(c) \/ Left(c)
         \/ Command(c) \/ Dequeue(c) \/ Wait(c) \/ Woken(c) \/ TimedOut(c)
         \/ Front(c) \/ Cleanup(c) \/ Disconnect(c)
         \/ Refuse(c) /\ role[c] # "rlogin"
  PROVE  UNCHANGED Abstract!vars \/ Abstract!Next
  <1> TypeOK /\ Arguments(c) /\ RoleKnown(c)
    BY DEF FullInv, IInv, TypeInv, ArgumentsInv, RefInv, RoleInv
  <1> USE DEF TypeOK, Goto, peers, frame, rooms, cast, queues, taken
  <1> DEFINE Quiet ==
               /\ UNCHANGED <<members, m_messages, hand, delivered>>
               /\ Failed(c)' <=> Failed(c)
               /\ ~Broadcasting(c)
               /\ ~Broadcasting(c)'
  <1>1. CASE Accept(c) \/ Login(c) \/ FirstJoin(c)
    <2>1. Accept(c) => Quiet
      BY DEF Accept, Failed, Broadcasting
    <2>2. Login(c) => Quiet
      BY DEF Login, Failed, Broadcasting
    <2>3. FirstJoin(c) => Quiet
      BY DEF FirstJoin, Failed, Broadcasting
    <2> QED
      BY <1>1, <2>1, <2>2, <2>3, SilentStep
  <1>2. CASE FindLock(c) \/ Found(c) \/ NotFound(c) \/ CreateRoom(c) \/ AddLock(c)
    <2>1. FindLock(c) \/ Found(c) => Quiet
      BY DEF FindLock, Found, Failed, Broadcasting
    <2>2. NotFound(c) \/ CreateRoom(c) => Quiet
      BY DEF NotFound, CreateRoom, Failed, Broadcasting
    <2>3. AddLock(c) => Quiet
      BY DEF AddLock, Failed, Broadcasting
    <2> QED
      BY <1>2, <2>1, <2>2, <2>3, SilentStep
  <1>3. CASE Remove(c) \/ Left(c)
    <2>1. Quiet
      BY <1>3, ZenonT(60) DEF Remove, Left, Failed, Broadcasting
    <2> QED
      BY <2>1, SilentStep
  <1>4. CASE Command(c)
    <2>1. pc[c] = "chat" /\ UNCHANGED <<role, members, m_messages, hand, delivered>>
      BY <1>4 DEF Command, ReceiveJoin, ReceiveLeave, ReceiveSendall,
         ReceiveOther, ReceiveQuit, ReceiveFails, LeaveRoomThen
    <2>2. pc'[c] \in {"find", "left", "cleanup", "remove", "broadcast", "chat"}
      BY <1>4 DEF Command, ReceiveJoin, ReceiveLeave, ReceiveSendall,
         ReceiveOther, ReceiveQuit, ReceiveFails, LeaveRoomThen
    <2>3. role[c] = "slogin"
      BY <2>1 DEF RoleKnown, SenderLocations
    <2>4. Quiet
      BY <2>1, <2>2, <2>3 DEF Failed, Broadcasting
    <2> QED
      BY <2>4, SilentStep
  <1>5. CASE Dequeue(c) \/ Wait(c) \/ Woken(c) \/ TimedOut(c) \/ Front(c)
    <2>1. Dequeue(c) \/ Wait(c) => Quiet
      BY DEF Dequeue, Wait, TakeSemaphore, Failed, Broadcasting
    <2>2. Woken(c) \/ TimedOut(c) => Quiet
      BY DEF Woken, TimedOut, TakeSemaphore, Failed, Broadcasting
    <2>3. Front(c) => Quiet
      BY DEF Front, Failed, Broadcasting
    <2> QED
      BY <1>5, <2>1, <2>2, <2>3, SilentStep
  <1>6. CASE Cleanup(c)
    <2>1. Quiet
      BY <1>6 DEF Cleanup, LeaveRoomThen, Failed, Broadcasting
    <2> QED
      BY <2>1, SilentStep
  <1>7. CASE Refuse(c) /\ role[c] # "rlogin"
    <2>1. Quiet
      BY <1>7 DEF Refuse, Failed, Broadcasting
    <2> QED
      BY <2>1, SilentStep
  <1>8. CASE Disconnect(c)
    <2>1. UNCHANGED <<pc, role, room, msg, seen, members, m_messages, hand, delivered>>
      BY <1>8 DEF Disconnect
    <2>2. Failed(c)' <=> Failed(c)
      BY <2>1 DEF Failed
    <2>3. \A d \in Client : Owes(c, d)' <=> Owes(c, d)
      BY <2>1 DEF Owes, Broadcasting
    <2> QED
      BY <2>1, <2>2, <2>3, QuietStep
  <1> QED
    BY <1>1, <1>2, <1>3, <1>4, <1>5, <1>6, <1>7, <1>8

\* A receiver that is refused or whose delivery fails hangs up, and so does
\* any client whose User is deleted: there is nothing left for it.
LEMMA HangUpSteps ==
  ASSUME FullInv, FullInv', NEW c \in Client, OthersKept(c),
         \/ Refuse(c) /\ role[c] = "rlogin"
         \/ DeliverFails(c)
         \/ Delete(c)
  PROVE  Abstract!HangUp(c)
  <1> TypeOK /\ Arguments(c) /\ RoleKnown(c) /\ CastKnown(c)
    BY DEF FullInv, IInv, TypeInv, ArgumentsInv, RefInv, RoleInv, CastInv
  <1> Facts'
    BY MappingFacts, PTL DEF FullInv
  <1> USE DEF TypeOK, Goto, peers, frame, rooms, cast, queues, taken
  <1> DEFINE Over ==
               /\ \A d \in Client \ {c} : m_messages'[d] = m_messages[d]
               /\ delivered' = delivered
               /\ ~Broadcasting(c)
               /\ ~Broadcasting(c)'
  <1>1. CASE Refuse(c) /\ role[c] = "rlogin"
    <2>1. Over /\ Failed(c)'
      BY <1>1 DEF Refuse, Failed, Broadcasting
    <2> QED
      BY <2>1, HangUpStep DEF Facts, RoomFacts, InboxFacts
  <1>2. CASE DeliverFails(c)
    <2>1. Over /\ Failed(c)'
      BY <1>2 DEF DeliverFails, LeaveRoomThen, Failed, Broadcasting, RoleKnown,
         ReceiverLocations
    <2> QED
      BY <2>1, HangUpStep DEF Facts, RoomFacts, InboxFacts
  <1>3. CASE Delete(c)
    <2>1. Over /\ pc'[c] = "done" /\ members' = members /\ hand'[c] = nullptr
               /\ m_messages'[c] = << >>
      BY <1>3 DEF Delete, CastKnown, Broadcasting
    <2>2. \A r \in Room : c \notin members'[r]
      BY <2>1 DEF FullInv, IInv, MembersInv, MemberLocations
    <2>3. RoomOf(c)' = nullptr
      BY <2>2 DEF Facts, RoomFacts
    <2>4. InboxOf(c)' = << >>
      <3>1. CASE Failed(c)'
        BY <3>1 DEF Facts, InboxFacts
      <3>2. CASE ~Failed(c)'
        <4>1. Held(c)' = << >>
          BY <2>1 DEF Held
        <4>2. \A b \in Client : ~Owes(b, c)'
          BY <2>2 DEF Owes, FullInv, IInv, TypeInv, ArgumentsInv, Arguments,
             Broadcasting
        <4>3. Pending(c)' = << >>
          BY <4>2 DEF Facts, PendingFacts
        <4>4. InboxOf(c)' = << >> \o << >> \o << >>
          BY <2>1, <3>2, <4>1, <4>3 DEF Facts, InboxFacts
        <4> QED
          BY <4>4
      <3> QED
        BY <3>1, <3>2
    <2> QED
      BY <2>1, <2>3, <2>4, HangUpStep
  <1> QED
    BY <1>1, <1>2, <1>3

\* A thread that has joined enters the room of the name it asked for.
LEMMA InsertStep ==
  ASSUME FullInv, FullInv', NEW c \in Client, OthersKept(c), Insert(c)
  PROVE  \E n \in RoomName : Abstract!Enter(c, n)
  <1> TypeOK /\ Arguments(c)
    BY DEF FullInv, IInv, TypeInv, ArgumentsInv
  <1>0. Facts /\ Facts'
    BY MappingFacts, PTL DEF FullInv
  <1> DEFINE r == newroom[c]
  <1>1. /\ pc[c] = "insert" /\ pc'[c] \in {"chat", "dequeue"} /\ r \in Room
        /\ members' = [members EXCEPT ![r] = @ \cup {c}]
        /\ UNCHANGED <<m_messages, hand, delivered>>
    BY DEF Insert, Goto, TypeOK, Arguments, taken, queues
  <1>2. \A q \in Room : c \notin members[q]
    BY <1>1 DEF FullInv, IInv, MembersInv, MemberLocations
  <1>3. c \in members'[r]
    BY <1>1 DEF TypeOK
  <1>4. ~Failed(c) /\ ~Failed(c)' /\ ~Broadcasting(c) /\ ~Broadcasting(c)'
    BY <1>1 DEF Failed, Broadcasting
  <1>5. RoomOf(c) = nullptr /\ RoomOf(c)' = r[1]
    BY <1>0, <1>1, <1>2, <1>3, <1>4 DEF Facts, RoomFacts
  <1>6. \A b \in Client : ~Owes(b, c)
    BY <1>2 DEF Owes, Broadcasting, FullInv, IInv, TypeInv, ArgumentsInv, Arguments
  <1>7. \A b \in Client : ~Owes(b, c)'
    <2> SUFFICES ASSUME NEW b \in Client, Owes(b, c)' PROVE FALSE
      OBVIOUS
    <2>1. b # c
      BY <1>4 DEF Owes
    <2>2. Broadcasting(b) /\ room'[b] = room[b] /\ room[b] \in Room
      BY <2>1 DEF Owes, OthersKept, Broadcasting, FullInv, IInv, TypeInv,
         ArgumentsInv, Arguments
    <2>3. room[b] = r
      BY <1>1, <1>2, <2>2 DEF Owes, TypeOK
    <2>4. room_lock[r] = b /\ room_lock[r] = c
      BY <1>1, <2>2, <2>3 DEF FullInv, IInv, RoomLockInv, Touches
    <2> QED
      BY <2>1, <2>4
  <1>8. \A b, d \in Client : Owes(b, d)' <=> Owes(b, d)
    <2>1. \A b, d \in Client \ {c} : Owes(b, d)' <=> Owes(b, d)
      BY OthersOwe
    <2> QED
      BY <1>4, <1>6, <1>7, <2>1 DEF Owes
  <1>9. \A b, d \in Client : Owes(b, d) => msg'[b] = msg[b]
    BY <1>4 DEF OthersKept, Owes
  <1>10. \A d \in Client : Failed(d)' <=> Failed(d)
    BY <1>4, OthersOwe
  <1>11. \A d \in Client \ {c} : RoomOf(d)' = RoomOf(d)
    BY <1>0, <1>10, SameRoomOf DEF OthersKept
  <1>12. \A d \in Client : InboxOf(d)' = InboxOf(d)
    BY <1>0, <1>1, <1>8, <1>9, <1>10, SameInboxOf
  <1>13. r[1] \in RoomName
    BY <1>1 DEF Room
  <1>14. Abstract!Enter(c, r[1])
    BY <1>1, <1>5, <1>11, <1>12 DEF Abstract!Enter
  <1> QED
    BY <1>13, <1>14

\* remove_member takes the user out of its room; for a receiver whose delivery
\* has failed, or that is in no room any more, nothing is left to tell.
LEMMA EraseStep ==
  ASSUME FullInv, FullInv', NEW c \in Client, OthersKept(c), Erase(c)
  PROVE  UNCHANGED Abstract!vars \/ Abstract!Exit(c)
  <1> TypeOK /\ Arguments(c) /\ RoleKnown(c)
    BY DEF FullInv, IInv, TypeInv, ArgumentsInv, RefInv, RoleInv
  <1>0. Facts /\ Facts'
    BY MappingFacts, PTL DEF FullInv
  <1> DEFINE r == room[c]
  <1>1. /\ pc[c] = "erase" /\ pc'[c] = ret[c] /\ r \in Room
        /\ ret[c] \in {"find", "left", "cleanup", "delete"}
        /\ members' = [members EXCEPT ![r] = @ \ {c}]
        /\ UNCHANGED <<m_messages, hand, delivered, role>>
    BY DEF Erase, Goto, TypeOK, Arguments, taken, queues
  <1>2. \A q \in Room : c \notin members'[q]
    BY <1>1 DEF TypeOK, FullInv, IInv, MembersInv
  <1>3. RoomOf(c)' = nullptr
    BY <1>0, <1>2 DEF Facts, RoomFacts
  <1>4. Failed(c)' <=> Failed(c)
    BY <1>1 DEF Failed, RoleKnown
  <1>5. ~Broadcasting(c) /\ ~Broadcasting(c)'
    BY <1>1 DEF Broadcasting
  <1>6. \A b \in Client : ~Owes(b, c)'
    BY <1>2 DEF Owes, Broadcasting, FullInv, IInv, TypeInv, ArgumentsInv, Arguments
  <1>7. \A b \in Client : ~Owes(b, c)
    <2> SUFFICES ASSUME NEW b \in Client, Owes(b, c) PROVE FALSE
      OBVIOUS
    <2>1. b # c
      BY <1>5 DEF Owes
    <2>2. room[b] \in Room
      BY DEF Owes, Broadcasting, FullInv, IInv, TypeInv, ArgumentsInv, Arguments
    <2>3. room[b] = r
      BY <2>2 DEF Owes, FullInv, IInv, MembersInv
    <2>4. room_lock[r] = b /\ room_lock[r] = c
      BY <1>1, <2>2, <2>3 DEF Owes, FullInv, IInv, RoomLockInv, Touches
    <2> QED
      BY <2>1, <2>4
  <1>8. \A b, d \in Client : Owes(b, d)' <=> Owes(b, d)
    <2>1. \A b, d \in Client \ {c} : Owes(b, d)' <=> Owes(b, d)
      BY OthersOwe
    <2> QED
      BY <1>5, <1>6, <1>7, <2>1 DEF Owes
  <1>9. \A b, d \in Client : Owes(b, d) => msg'[b] = msg[b]
    BY <1>5 DEF OthersKept, Owes
  <1>10. \A d \in Client : Failed(d)' <=> Failed(d)
    BY <1>4, OthersOwe
  <1>11. \A d \in Client \ {c} : RoomOf(d)' = RoomOf(d)
    BY <1>0, <1>10, SameRoomOf DEF OthersKept
  <1>12. \A d \in Client : InboxOf(d)' = InboxOf(d)
    BY <1>0, <1>1, <1>8, <1>9, <1>10, SameInboxOf
  <1>13. CASE RoomOf(c) = nullptr
    BY <1>1, <1>3, <1>11, <1>12, <1>13 DEF Abstract!vars
  <1>14. CASE RoomOf(c) # nullptr
    <2>1. delivered' = delivered
      BY <1>1
    <2>2. [d \in Client |-> RoomOf(d)][c] # nullptr
      BY <1>14
    <2>3. [d \in Client |-> RoomOf(d)]'
          = [[d \in Client |-> RoomOf(d)] EXCEPT ![c] = nullptr]
      BY <1>3, <1>11
    <2>4. UNCHANGED [d \in Client |-> InboxOf(d)]
      BY <1>12
    <2>5. Abstract!Exit(c)
      BY <2>1, <2>2, <2>3, <2>4 DEF Abstract!Exit
    <2> QED
      BY <2>5
  <1> QED
    BY <1>13, <1>14

\* Inside a broadcast only the taking of the room's lock is said in ChatRoom:
\* the whole room hears the message at that moment.
LEMMA BroadcastStep ==
  ASSUME FullInv, FullInv', NEW c \in Client, OthersKept(c), Broadcast(c)
  PROVE  \E m \in Message : Abstract!Say(c, m)
  <1> TypeOK /\ Arguments(c) /\ RoleKnown(c) /\ CastKnown(c)
    BY DEF FullInv, IInv, TypeInv, ArgumentsInv, RefInv, RoleInv, CastInv
  <1>0. Facts /\ Facts'
    BY MappingFacts, PTL DEF FullInv
  <1> DEFINE r == room[c]
  <1>1. /\ pc[c] = "broadcast" /\ pc'[c] = "loop" /\ r \in Room
        /\ msg[c] \in Message /\ room_lock[r] = nullptr
        /\ UNCHANGED <<members, room, msg, seen, m_messages, hand, delivered, role>>
    BY DEF Broadcast, Goto, TypeOK, Arguments, taken, queues, cast, frame
  <1>2. c \in members[r] /\ role[c] = "slogin" /\ seen[c] = {}
    BY <1>1, ConstantsAssumption DEF FullInv, RefInv, SpeakerInv, RoleKnown, SenderLocations,
       CastKnown, Broadcasting
  <1>3. \A d \in Client : Failed(d)' <=> Failed(d)
    BY <1>1, <1>2, OthersOwe DEF Failed
  <1>4. \A d \in Client : RoomOf(d)' = RoomOf(d)
    BY <1>0, <1>1, <1>3, SameRoomOf
  <1>5. RoomOf(c) = r[1] /\ r[1] \in RoomName
    BY <1>0, <1>1, <1>2 DEF Facts, RoomFacts, Failed, Room
  <1>6. \A d \in Client : RoomOf(d) = RoomOf(c) <=> d \in members[r] /\ ~Failed(d)
    <2> SUFFICES ASSUME NEW d \in Client
                 PROVE  RoomOf(d) = RoomOf(c) <=> d \in members[r] /\ ~Failed(d)
      OBVIOUS
    <2>1. CASE d \in members[r] /\ ~Failed(d)
      BY <1>0, <1>1, <1>5, <2>1 DEF Facts, RoomFacts
    <2>2. CASE Failed(d) \/ \A q \in Room : d \notin members[q]
      <3>1. RoomOf(d) = nullptr
        BY <1>0, <2>2 DEF Facts, RoomFacts
      <3> QED
        BY <1>1, <1>5, <2>2, <3>1, ConstantsAssumption
    <2>3. ASSUME NEW q \in Room, d \in members[q], q # r, ~Failed(d)
          PROVE  RoomOf(d) = RoomOf(c) <=> d \in members[r] /\ ~Failed(d)
      <3>1. RoomOf(d) = q[1]
        BY <1>0, <2>3 DEF Facts, RoomFacts
      <3>2. room[d] = q /\ room[c] = r
        BY <2>3 DEF FullInv, IInv, MembersInv
      <3>3. d \notin members[r]
        BY <1>1, <2>3, <3>2 DEF FullInv, IInv, MembersInv
      <3>4. m_rooms[q[1]] = q /\ m_rooms[r[1]] = r
        BY <1>1, <2>3, <3>2, ConstantsAssumption
           DEF FullInv, IInv, RoomsInv, OneRoomPerName
      <3> QED
        BY <1>5, <2>3, <3>1, <3>3, <3>4
    <2> QED
      BY <2>1, <2>2, <2>3
  <1>7. \A d \in members[r] : \A b \in Client : ~Owes(b, d)
    <2> SUFFICES ASSUME NEW d \in members[r], NEW b \in Client, Owes(b, d)
                 PROVE  FALSE
      OBVIOUS
    <2>1. room[b] \in Room /\ d \in Client
      BY <1>1 DEF Owes, Broadcasting, FullInv, IInv, TypeInv, ArgumentsInv, Arguments,
         TypeOK
    <2>2. room[b] = r
      BY <1>1, <2>1 DEF Owes, FullInv, IInv, MembersInv
    <2>3. room_lock[r] = b
      BY <1>1, <2>2 DEF Owes, FullInv, IInv, RoomLockInv, Touches
    <2> QED
      BY <1>1, <2>3, ConstantsAssumption
  <1>8. ASSUME NEW d \in Client, d \in members[r], ~Failed(d)
        PROVE  InboxOf(d)' = Append(InboxOf(d), msg[c])
    <2>1. Pending(d) = << >>
      BY <1>0, <1>7, <1>8 DEF Facts, PendingFacts
    <2>2. Owes(c, d)'
      BY <1>1, <1>2, <1>8 DEF Owes, Broadcasting
    <2>3. Pending(d)' = <<msg[c]>>
      BY <1>0, <1>1, <2>2 DEF Facts, PendingFacts
    <2>4. Held(d)' = Held(d) /\ Held(d) \in Seq(Message)
      BY <1>0, <1>1 DEF Held, Facts, InboxFacts
    <2> DEFINE h == Held(d)
               q == m_messages[d]
    <2>5. InboxOf(d) = h \o q \o << >>
      BY <1>0, <1>8, <2>1 DEF Facts, InboxFacts
    <2>6. InboxOf(d)' = h \o q \o <<msg[c]>>
      BY <1>0, <1>1, <1>3, <1>8, <2>3, <2>4 DEF Facts, InboxFacts
    <2>7. q \in Seq(Message) /\ h \o q \in Seq(Message)
      BY <2>4 DEF TypeOK
    <2>8. InboxOf(d) = h \o q
      BY <2>5, <2>7, ConcatEmptySeq
    <2> QED
      BY <1>1, <2>6, <2>7, <2>8, AppendIsConcat
  <1>9. ASSUME NEW d \in Client, d \notin members[r] \/ Failed(d)
        PROVE  InboxOf(d)' = InboxOf(d)
    <2>1. CASE Failed(d)
      <3>1. InboxOf(d) = << >> /\ InboxOf(d)' = << >>
        BY <1>0, <1>3, <2>1 DEF Facts, InboxFacts
      <3> QED
        BY <3>1
    <2>2. CASE d \notin members[r]
      <3>1. \A b \in Client : Owes(b, d)' <=> Owes(b, d)
        BY <1>1, <2>2, OthersOwe DEF Owes
      <3> QED
        BY <1>0, <1>1, <1>3, <3>1, SameInboxOf
    <2> QED
      BY <1>9, <2>1, <2>2
  <1>10. Abstract!Say(c, msg[c])
    <2>1. RoomOf(c) # nullptr
      BY <1>5, ConstantsAssumption
    <2>2. \A d \in Client : InboxOf(d)' = IF RoomOf(d) = RoomOf(c)
                                          THEN Append(InboxOf(d), msg[c])
                                          ELSE InboxOf(d)
      BY <1>6, <1>8, <1>9
    <2> QED
      BY <1>1, <1>4, <2>1, <2>2 DEF Abstract!Say
  <1> QED
    BY <1>1, <1>10

\* The loop that walks the members only moves what is owed: a message that is
\* put into a queue is no longer still to come.
LEMMA LoopSteps ==
  ASSUME FullInv, FullInv', NEW c \in Client, OthersKept(c),
         NextMember(c) \/ Enqueue(c) \/ Post(c) \/ EndBroadcast(c)
  PROVE  UNCHANGED Abstract!vars
  <1> TypeOK /\ RoleKnown(c)
    BY DEF FullInv, IInv, TypeInv, RefInv, RoleInv
  <1> USE DEF TypeOK, Goto, peers, frame, rooms, cast, queues, taken
  <1>a. UNCHANGED <<members, m_messages, hand, delivered, role, room>>
    BY DEF NextMember, Enqueue, Post, EndBroadcast
  <1>b. \/ Goto(c, "loop", "enqueue") \/ Goto(c, "enqueue", "push")
        \/ Goto(c, "post", "loop") \/ Goto(c, "loop", "chat")
    BY DEF NextMember, Enqueue, Post, EndBroadcast
  <1>1. /\ UNCHANGED <<members, m_messages, hand, delivered, role, room>>
        /\ pc[c] \in {"loop", "enqueue", "post"}
        /\ pc'[c] \in {"loop", "enqueue", "push", "chat"}
    BY <1>a, <1>b
  <1>2. Failed(c)' <=> Failed(c)
    BY <1>1 DEF Failed
  <1>3. CASE NextMember(c) \/ Enqueue(c) \/ Post(c)
    <2>1. /\ UNCHANGED <<seen, msg>>
          /\ Broadcasting(c) /\ Broadcasting(c)'
      BY <1>3 DEF NextMember, Enqueue, Post, Broadcasting
    <2>2. \A d \in Client : Owes(c, d)' <=> Owes(c, d)
      BY <1>1, <2>1 DEF Owes
    <2> QED
      BY <1>1, <1>2, <2>1, <2>2, QuietStep
  <1>4. CASE EndBroadcast(c)
    <2>1. pc'[c] = "chat" /\ members[room[c]] \subseteq seen[c]
      BY <1>4 DEF EndBroadcast
    <2>2. \A d \in Client : ~Owes(c, d) /\ ~Owes(c, d)'
      BY <2>1 DEF Owes, Broadcasting
    <2> QED
      BY <1>1, <1>2, <2>2, QuietStep
  <1> QED
    BY <1>3, <1>4

\* A message still to come is as good as the last of the queue.
LEMMA PendingIsLast ==
  ASSUME NEW h \in Seq(Message), NEW q \in Seq(Message), NEW m \in Message
  PROVE  h \o q \o <<m>> = h \o Append(q, m) \o << >>
  <1>1. h \o Append(q, m) \in Seq(Message)
    BY AppendProperties, ConcatProperties
  <1>2. h \o Append(q, m) \o << >> = h \o Append(q, m)
    BY <1>1, ConcatEmptySeq
  <1>3. Append(q, m) = q \o <<m>>
    BY AppendIsConcat
  <1>4. <<m>> \in Seq(Message)
    OBVIOUS
  <1>5. (h \o q) \o <<m>> = h \o (q \o <<m>>)
    BY <1>4, ConcatAssociative
  <1> QED
    BY <1>2, <1>3, <1>5

\* What was owed to the member is now the last message of its queue.
LEMMA PushStep ==
  ASSUME FullInv, FullInv', NEW c \in Client, OthersKept(c), Push(c)
  PROVE  UNCHANGED Abstract!vars
  <1> TypeOK /\ Arguments(c) /\ RoleKnown(c) /\ CastKnown(c)
    BY DEF FullInv, IInv, TypeInv, ArgumentsInv, RefInv, RoleInv, CastInv
  <1>0. Facts /\ Facts'
    BY MappingFacts, PTL DEF FullInv
  <1>a. target[c] \in Client
    BY DEF Push, Goto, Arguments, TypeOK
  <1>b. PICK u \in Client : u = target[c]
    BY <1>a
  <1>1. /\ pc[c] = "push" /\ pc'[c] = "post" /\ room[c] \in Room
        /\ u \in members[room[c]] /\ u \in Client /\ u \notin seen[c]
        /\ msg[c] \in Message
        /\ m_messages' = [m_messages EXCEPT ![u] = Append(@, msg[c])]
        /\ seen' = [seen EXCEPT ![c] = @ \cup {u}]
        /\ UNCHANGED <<members, room, msg, hand, delivered, role>>
    BY <1>b DEF Push, Goto, TypeOK, Arguments, CastKnown, taken, queues, frame, rooms
  <1>2. \A d \in Client : Failed(d)' <=> Failed(d)
    BY <1>1, OthersOwe DEF Failed
  <1>3. \A d \in Client : RoomOf(d)' = RoomOf(d)
    BY <1>0, <1>1, <1>2, SameRoomOf
  <1>4. \A b \in Client : \A d \in Client \ {u} : Owes(b, d)' <=> Owes(b, d)
    BY <1>1, OthersOwe DEF Owes, Broadcasting, TypeOK
  <1>5. \A d \in Client \ {u} : InboxOf(d)' = InboxOf(d)
    BY <1>0, <1>1, <1>2, <1>4, SameInboxOf DEF TypeOK
  <1>6. InboxOf(u)' = InboxOf(u)
    <2>1. CASE Failed(u)
      <3>1. InboxOf(u) = << >> /\ InboxOf(u)' = << >>
        BY <1>0, <1>1, <1>2, <2>1 DEF Facts, InboxFacts
      <3> QED
        BY <3>1
    <2>2. CASE ~Failed(u)
      <3> DEFINE h == Held(u)
                 q == m_messages[u]
      <3>1. Owes(c, u)
        BY <1>1 DEF Owes, Broadcasting
      <3>2. Pending(u) = <<msg[c]>>
        BY <1>0, <1>1, <3>1 DEF Facts, PendingFacts
      <3>3. \A b \in Client : ~Owes(b, u)'
        <4>1. ~Owes(c, u)'
          BY <1>1 DEF Owes, TypeOK
        <4>2. ASSUME NEW b \in Client \ {c} PROVE ~Owes(b, u)'
          <5>1. ~Owes(b, u)
            BY <1>1, <3>1, <4>2, OneTeller DEF FullInv
          <5>2. Owes(b, u)' <=> Owes(b, u)
            BY <1>1, OthersOwe
          <5> QED
            BY <5>1, <5>2
        <4> QED
          BY <4>1, <4>2
      <3>4. Pending(u)' = << >>
        BY <1>0, <1>1, <3>3 DEF Facts, PendingFacts
      <3>5. Held(u)' = h /\ h \in Seq(Message) /\ q \in Seq(Message)
        BY <1>0, <1>1 DEF Held, Facts, InboxFacts, TypeOK
      <3>6. InboxOf(u) = h \o q \o <<msg[c]>>
        BY <1>0, <1>1, <2>2, <3>2 DEF Facts, InboxFacts
      <3>7. InboxOf(u)' = h \o Append(q, msg[c]) \o << >>
        BY <1>0, <1>1, <1>2, <2>2, <3>4, <3>5 DEF Facts, InboxFacts, TypeOK
      <3> QED
        BY <1>1, <3>5, <3>6, <3>7, PendingIsLast
    <2> QED
      BY <2>1, <2>2
  <1>7. \A d \in Client : InboxOf(d)' = InboxOf(d)
    BY <1>5, <1>6
  <1>8. delivered' = delivered
    BY <1>1
  <1> QED
    BY <1>3, <1>7, <1>8 DEF Abstract!vars

\* A step of a receiver's thread that leaves the rooms and the others' queues
\* alone leaves the others' abstract inboxes alone, and what it is owed.
LEMMA ListenStep ==
  ASSUME FullInv, FullInv', NEW c \in Client, OthersKept(c),
         pc[c] \in {"pop", "deliver"}, pc'[c] \in {"deliver", "dequeue"},
         \A d \in Client \ {c} : m_messages'[d] = m_messages[d],
         UNCHANGED members
  PROVE  /\ \A d \in Client : RoomOf(d)' = RoomOf(d)
         /\ \A d \in Client \ {c} : InboxOf(d)' = InboxOf(d)
         /\ Pending(c)' = Pending(c)
         /\ ~Failed(c) /\ ~Failed(c)'
  <1>0. Facts /\ Facts'
    BY MappingFacts, PTL DEF FullInv
  <1>1. ~Failed(c) /\ ~Failed(c)' /\ ~Broadcasting(c) /\ ~Broadcasting(c)'
    BY DEF Failed, Broadcasting
  <1>2. \A d \in Client : Failed(d)' <=> Failed(d)
    BY <1>1, OthersOwe
  <1>3. \A b, d \in Client : Owes(b, d)' <=> Owes(b, d)
    BY <1>1, OthersOwe DEF Owes
  <1>4. \A b, d \in Client : Owes(b, d) => msg'[b] = msg[b]
    BY <1>1 DEF Owes, OthersKept
  <1>5. Pending(c)' = Pending(c)
    <2>1. CASE \A b \in Client : ~Owes(b, c)
      BY <1>0, <1>3, <2>1 DEF Facts, PendingFacts
    <2>2. ASSUME NEW b \in Client, Owes(b, c) PROVE Pending(c)' = Pending(c)
      <3>1. Pending(c) = <<msg[b]>> /\ Pending(c)' = <<msg'[b]>>
        BY <1>0, <1>3, <2>2 DEF Facts, PendingFacts
      <3> QED
        BY <1>4, <2>2, <3>1
    <2> QED
      BY <2>1, <2>2
  <1>6. \A d \in Client : RoomOf(d)' = RoomOf(d)
    BY <1>0, <1>2, SameRoomOf
  <1>7. \A d \in Client \ {c} : InboxOf(d)' = InboxOf(d)
    BY <1>0, <1>2, <1>3, <1>4, SameInboxOf DEF OthersKept
  <1> QED
    BY <1>1, <1>5, <1>6, <1>7

\* Splitting the first message off a queue does not change the inbox.
LEMMA SplitHead ==
  ASSUME NEW q \in Seq(Message), NEW p \in Seq(Message), q # << >>
  PROVE  << >> \o q \o p = <<Head(q)>> \o Tail(q) \o p
  <1>1. Head(q) \in Message /\ Tail(q) \in Seq(Message)
    BY HeadTailProperties
  <1>2. <<Head(q)>> \o Tail(q) = q
    BY <1>1
  <1>3. << >> \o q = q
    BY ConcatEmptySeq
  <1> QED
    BY <1>2, <1>3

\* dequeue moves the first message from the queue to the thread's hand.
LEMMA PopStep ==
  ASSUME FullInv, FullInv', NEW c \in Client, OthersKept(c), Pop(c)
  PROVE  UNCHANGED Abstract!vars
  <1> TypeOK /\ CastKnown(c)
    BY DEF FullInv, IInv, TypeInv, RefInv, CastInv
  <1>0. Facts /\ Facts'
    BY MappingFacts, PTL DEF FullInv
  <1> DEFINE q == m_messages[c]
  <1>1. /\ pc[c] = "pop" /\ pc'[c] = "deliver" /\ hand[c] = nullptr
        /\ q \in Seq(Message) /\ q # << >>
        /\ hand'[c] = Head(q) /\ m_messages'[c] = Tail(q)
        /\ \A d \in Client \ {c} : m_messages'[d] = m_messages[d]
        /\ UNCHANGED <<members, delivered>>
    BY DEF Pop, Goto, TypeOK, CastKnown, rooms
  <1>2. /\ \A d \in Client : RoomOf(d)' = RoomOf(d)
        /\ \A d \in Client \ {c} : InboxOf(d)' = InboxOf(d)
        /\ Pending(c)' = Pending(c) /\ Pending(c) \in Seq(Message)
        /\ ~Failed(c) /\ ~Failed(c)'
    BY <1>0, <1>1, ListenStep DEF Facts, PendingFacts
  <1>3. InboxOf(c) = << >> \o q \o Pending(c)
    BY <1>0, <1>1, <1>2 DEF Facts, InboxFacts, Held
  <1>4. Head(q) \in Message
    BY <1>1, HeadTailProperties
  <1>5. Held(c)' = <<Head(q)>>
    BY <1>1, <1>4, ConstantsAssumption DEF Held
  <1>6. InboxOf(c)' = <<Head(q)>> \o Tail(q) \o Pending(c)
    BY <1>0, <1>1, <1>2, <1>5 DEF Facts, InboxFacts
  <1>7. InboxOf(c)' = InboxOf(c)
    BY <1>1, <1>2, <1>3, <1>6, SplitHead
  <1>8. \A d \in Client : InboxOf(d)' = InboxOf(d)
    BY <1>2, <1>7
  <1>9. delivered' = delivered
    BY <1>1
  <1> QED
    BY <1>2, <1>8, <1>9 DEF Abstract!vars

\* The message in the hand is the first of the abstract inbox.
LEMMA DeliverStep ==
  ASSUME FullInv, FullInv', NEW c \in Client, OthersKept(c), Deliver(c)
  PROVE  Abstract!Deliver(c)
  <1> TypeOK /\ Arguments(c)
    BY DEF FullInv, IInv, TypeInv, ArgumentsInv
  <1>0. Facts /\ Facts'
    BY MappingFacts, PTL DEF FullInv
  <1> DEFINE m == hand[c]
             q == m_messages[c]
  <1>1. /\ pc[c] = "deliver" /\ pc'[c] = "dequeue" /\ m \in Message
        /\ q \in Seq(Message) /\ hand'[c] = nullptr
        /\ delivered' = [delivered EXCEPT ![c] = Append(@, m)]
        /\ UNCHANGED <<members, m_messages>>
    BY DEF Deliver, Goto, TypeOK, Arguments, rooms, queues
  <1>2. /\ \A d \in Client : RoomOf(d)' = RoomOf(d)
        /\ \A d \in Client \ {c} : InboxOf(d)' = InboxOf(d)
        /\ Pending(c)' = Pending(c) /\ Pending(c) \in Seq(Message)
        /\ ~Failed(c) /\ ~Failed(c)'
    BY <1>0, <1>1, ListenStep DEF Facts, PendingFacts
  <1> DEFINE p == Pending(c)
  <1>3. Held(c) = <<m>> /\ Held(c)' = << >>
    BY <1>1, ConstantsAssumption DEF Held
  <1>4. InboxOf(c) = <<m>> \o q \o p
    BY <1>0, <1>2, <1>3 DEF Facts, InboxFacts
  <1>5. InboxOf(c)' = << >> \o q \o p
    BY <1>0, <1>1, <1>2, <1>3 DEF Facts, InboxFacts
  <1> HIDE DEF m, q, p
  <1>6. q \in Seq(Message) /\ p \in Seq(Message) /\ m \in Message
    BY <1>1, <1>2 DEF q, p, m
  <1>7. <<m>> \o q \o p = <<m>> \o (q \o p) /\ q \o p \in Seq(Message)
    BY <1>6, ConcatAssociative, ConcatProperties
  <1>8. << >> \o q = q
    BY <1>6, ConcatEmptySeq
  <1>9. /\ <<m>> \o (q \o p) # << >> /\ Head(<<m>> \o (q \o p)) = m
        /\ Tail(<<m>> \o (q \o p)) = q \o p
    BY <1>6, <1>7
  <1>10. InboxOf(c) # << >> /\ Head(InboxOf(c)) = m /\ InboxOf(c)' = Tail(InboxOf(c))
    BY <1>4, <1>5, <1>7, <1>8, <1>9
  <1>11. [d \in Client |-> InboxOf(d)]'
         = [[d \in Client |-> InboxOf(d)] EXCEPT ![c] = Tail(@)]
    BY <1>2, <1>10
  <1>12. UNCHANGED [d \in Client |-> RoomOf(d)]
    BY <1>2
  <1>13. delivered' = [delivered EXCEPT ![c] = Append(@, Head([d \in Client |-> InboxOf(d)][c]))]
    BY <1>1, <1>10 DEF m
  <1>14. [d \in Client |-> InboxOf(d)][c] # << >>
    BY <1>10
  <1> QED
    BY <1>11, <1>12, <1>13, <1>14 DEF Abstract!Deliver

-----------------------------------------------------------------------------
(* The refinement                                                          *)

\* A server without connections is a ChatRoom without users.
LEMMA RefinesInit == Init => Abstract!Init
  <1> SUFFICES ASSUME Init PROVE Abstract!Init
    OBVIOUS
  <1>1. \A d \in Client : RoomOf(d) = nullptr
    BY DEF Init, RoomOf
  <1>2. \A d \in Client : InboxOf(d) = << >>
    <2> SUFFICES ASSUME NEW d \in Client PROVE InboxOf(d) = << >>
      OBVIOUS
    <2>1. Pending(d) = << >>
      BY DEF Init, Pending, Broadcasting
    <2>2. hand[d] = nullptr /\ m_messages[d] = << >>
      BY DEF Init
    <2>3. InboxOf(d) = << >> \/ InboxOf(d) = << >> \o << >> \o << >>
      BY <2>1, <2>2 DEF InboxOf
    <2> QED
      BY <2>3
  <1> QED
    BY <1>1, <1>2 DEF Init, Abstract!Init

\* Every step of every thread, and every disconnection, is one step of
\* ChatRoom or none.
THEOREM RefinesStep ==
    FullInv /\ FullInv' /\ [Next]_vars => [Abstract!Next]_(Abstract!vars)
  <1> SUFFICES ASSUME FullInv, FullInv', [Next]_vars
               PROVE  UNCHANGED Abstract!vars \/ Abstract!Next
    OBVIOUS
  <1>1. CASE UNCHANGED vars
    BY <1>1 DEF vars, Abstract!vars, RoomOf, InboxOf, Pending, Failed,
       Broadcasting, frame, rooms, cast, queues, taken
  <1>2. ASSUME NEW c \in Client, Acts(c)
        PROVE  UNCHANGED Abstract!vars \/ Abstract!Next
    <2> OthersKept(c)
      BY <1>2, OneThreadSteps DEF FullInv, IInv
    <2>1. CASE \/ Accept(c) \/ Login(c) \/ FirstJoin(c) \/ FindLock(c) \/ Found(c)
               \/ NotFound(c) \/ CreateRoom(c) \/ AddLock(c) \/ Remove(c) \/ Left(c)
               \/ Command(c) \/ Dequeue(c) \/ Wait(c) \/ Woken(c) \/ TimedOut(c)
               \/ Front(c) \/ Cleanup(c) \/ Disconnect(c)
               \/ Refuse(c) /\ role[c] # "rlogin"
      BY <2>1, SilentSteps
    <2>2. CASE \/ Refuse(c) /\ role[c] = "rlogin"
               \/ DeliverFails(c)
               \/ Delete(c)
      BY <2>2, HangUpSteps DEF Abstract!Next
    <2>3. CASE Insert(c)
      BY <2>3, InsertStep DEF Abstract!Next
    <2>4. CASE Erase(c)
      BY <2>4, EraseStep DEF Abstract!Next
    <2>5. CASE Broadcast(c)
      BY <2>5, BroadcastStep DEF Abstract!Next
    <2>6. CASE NextMember(c) \/ Enqueue(c) \/ Post(c) \/ EndBroadcast(c)
      BY <2>6, LoopSteps
    <2>7. CASE Push(c)
      BY <2>7, PushStep
    <2>8. CASE Pop(c)
      BY <2>8, PopStep
    <2>9. CASE Deliver(c)
      BY <2>9, DeliverStep DEF Abstract!Next
    <2> QED
      BY <1>2, <2>1, <2>2, <2>3, <2>4, <2>5, <2>6, <2>7, <2>8, <2>9
         DEF Acts, Run, Connect, EnterRoom, LeaveRoom, Say, Listen, Finish
  <1> QED
    BY <1>1, <1>2 DEF Next, Acts, Idle

\* The threaded server implements ChatRoom.
THEOREM Refinement == Spec => ImplementsChatRoom
  <1> QED
    BY RefinesInit, RefinesStep, FullInvariance, PTL
       DEF Spec, ImplementsChatRoom, Abstract!Spec
=============================================================================
