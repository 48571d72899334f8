---------------------------- MODULE ChatSession -----------------------------
(***************************************************************************)
(* One client program of csf_assign05 (sender.cpp or receiver.cpp), the    *)
(* server's worker thread at the other end, and the messages between them. *)
(* ChatServer has the threads of the server and leaves the clients free;   *)
(* here the clients are the programs of the repository, and of the server  *)
(* only the dialogue of one thread is left (server.cpp).  A message is     *)
(* whole, as Framing shows for messages shorter than MAX_LEN.              *)
(*                                                                         *)
(* Bounds: the user types at most MaxLines lines, a client sends at most   *)
(* MaxRequests messages, a receiver gets at most MaxDeliveries of them.    *)
(***************************************************************************)
EXTENDS Naturals, Sequences

CONSTANTS
    Programs,       \* of "sender", "receiver"
    Lines,          \* the lines a user types, see Kinds
    Unterminated,   \* TRUE if the input may end in a line without newline
    MayDie,         \* TRUE if either process may be killed
    MaxLines, MaxRequests, MaxDeliveries

\* "skipped" lines are empty, unknown commands and /join without a room.
\* "longtext" is a text, or a /join, too long for Connection::send of the client;
\* "longjoin" names a room that fits a request but not the server's reply.
Kinds == {"join", "leave", "text", "quit", "skipped", "longtext", "longjoin"}

ASSUME SessionAssumption ==
    /\ Programs \subseteq {"sender", "receiver"} /\ Programs # {}
    /\ Lines \subseteq Kinds
    /\ Unterminated \in BOOLEAN /\ MayDie \in BOOLEAN
    /\ MaxLines \in Nat /\ MaxRequests \in Nat /\ MaxDeliveries \in Nat

VARIABLES
    program,      \* which client it is
    client,       \* where its main is
    stdin,        \* "open", or "ended" once getline has met the end
    line,         \* the sender's variable line; the receiver's join message
    typed,        \* number of lines typed
    requests,     \* number of messages the client has sent
    to_server, to_client,
    server,       \* where the worker thread is
    in_room,      \* c->room is not null
    deliveries,   \* number of deliveries sent
    server_closed \* history: the server closed while the client listened

user_vars == <<stdin, line, typed>>
client_vars == <<program, client, user_vars, requests>>
server_vars == <<server, in_room, deliveries>>
vars == <<client_vars, to_server, to_client, server_vars, server_closed>>

Waiting == {"login", "joining", "reply", "bye"}

Commands == {"join", "leave", "text", "longjoin", "quit"}

\* What the name of a room on the receiver's command line makes of its join.
RoomArguments == {"join"} \cup (Lines \cap {"longjoin", "longtext"})

Messages == [tag : Commands \cup {"slogin", "rlogin", "ok", "err", "delivery"},
             nr : Nat]  \* history: the request it is or answers

TypeOK ==
    /\ program \in Programs
    /\ client \in {"start", "join", "listen", "read", "handle", "done"} \cup Waiting
    /\ stdin \in {"open", "ended"}
    /\ line \in Kinds
    /\ typed \in 0..MaxLines /\ requests \in 0..MaxRequests
    /\ to_server \in Seq(Messages) /\ to_client \in Seq(Messages)
    /\ server \in {"login", "first", "chat", "deliver", "done"}
    /\ in_room \in BOOLEAN
    /\ deliveries \in 0..MaxDeliveries
    /\ server_closed \in BOOLEAN

Init ==
    /\ program \in Programs
    /\ client = "start" /\ stdin = "open"
    /\ line \in IF program = "sender" THEN {"skipped"} ELSE RoomArguments
    /\ typed = 0 /\ requests = 0
    /\ to_server = << >> /\ to_client = << >>
    /\ server = "login" /\ in_room = FALSE /\ deliveries = 0
    /\ server_closed = FALSE

-----------------------------------------------------------------------------
(* Both clients                                                            *)

\* conn.send of a message that fits.  Once the server has closed, the first
\* write is lost and a later one kills the client with SIGPIPE, which only the
\* server ignores.
SendAndWait(tag, next) ==
    /\ requests < MaxRequests
    /\ requests' = requests + 1
    /\ \/ /\ server # "done"
          /\ to_server' = Append(to_server, [tag |-> tag, nr |-> requests'])
          /\ client' = next
       \/ /\ server = "done"
          /\ client' \in {next, "done"}
          /\ UNCHANGED to_server
    /\ UNCHANGED <<program, to_client, server_vars, server_closed>>

Login ==
    /\ client = "start"
    /\ SendAndWait(IF program = "sender" THEN "slogin" ELSE "rlogin", "login")
    /\ UNCHANGED user_vars

\* The user name is too long for a message.
LoginTooLong ==
    /\ client = "start"
    /\ client' = "done"
    /\ UNCHANGED <<program, user_vars, requests, to_server, to_client,
                   server_vars, server_closed>>

SendJoin ==
    /\ client = "join"
    /\ line \in {"join", "longjoin"}
    /\ SendAndWait(line, "joining")
    /\ UNCHANGED user_vars

\* The room's name is too long for a message.
JoinTooLong ==
    /\ client = "join"
    /\ line = "longtext"
    /\ client' = "done"
    /\ UNCHANGED <<program, user_vars, requests, to_server, to_client,
                   server_vars, server_closed>>

\* What the client does after conn.receive has given it a reply at a point
\* where it waits: an error ends the login or the join and is printed later.
AfterReply(tag) ==
    CASE client = "login"   -> IF tag # "ok" THEN "done"
                               ELSE IF program = "sender" THEN "read" ELSE "join"
      [] client = "joining" -> IF tag # "ok" THEN "done" ELSE "listen"
      [] client = "reply"   -> "read"
      [] client = "bye"     -> "done"

TakeReply ==
    /\ client \in Waiting
    /\ to_client # << >>
    /\ client' = AfterReply(Head(to_client).tag)
    /\ to_client' = Tail(to_client)
    /\ UNCHANGED <<program, user_vars, requests, to_server, server_vars,
                   server_closed>>

\* conn.receive fails: the sender's loop goes on, all else returns.
ReceiveFails ==
    /\ client \in Waiting
    /\ to_client = << >> /\ server = "done"
    /\ client' = IF client = "reply" THEN "read" ELSE "done"
    /\ UNCHANGED <<program, user_vars, requests, to_server, to_client,
                   server_vars, server_closed>>

-----------------------------------------------------------------------------
(* The loops of sender.cpp and receiver.cpp                                *)

\* std::getline clears line only while the stream is good: after the end it
\* leaves what the last call put there.
GetLine ==
    /\ client = "read"
    /\ client' = "handle"
    /\ \/ /\ stdin = "open" /\ typed < MaxLines
          /\ typed' = typed + 1
          /\ line' \in Lines
          /\ stdin' \in (IF Unterminated THEN {"open", "ended"} ELSE {"open"})
       \/ /\ stdin = "open"
          /\ stdin' = "ended"
          /\ line' = "skipped"
          /\ UNCHANGED typed
       \/ stdin = "ended" /\ UNCHANGED user_vars
    /\ UNCHANGED <<program, requests, to_server, to_client, server_vars,
                   server_closed>>

\* Mutant: the sender does not wait for the reply.
HandleWithoutWait ==
    /\ client = "handle"
    /\ line \in Commands
    /\ SendAndWait(line, IF line = "quit" THEN "bye" ELSE "read")
    /\ UNCHANGED user_vars

Handle ==
    /\ client = "handle"
    /\ line \in Commands
    /\ SendAndWait(line, IF line = "quit" THEN "bye" ELSE "reply")
    /\ UNCHANGED user_vars

\* Mutant: an unknown command is sent as it is.
HandleUnsentAnyway ==
    /\ client = "handle"
    /\ line \notin Commands
    /\ SendAndWait(line, "reply")
    /\ UNCHANGED user_vars

\* The line is no command, or conn.send refuses it and the result is ignored.
HandleUnsent ==
    /\ client = "handle"
    /\ line \notin Commands
    /\ client' = IF line = "skipped" THEN "read" ELSE "reply"
    /\ UNCHANGED <<program, user_vars, requests, to_server, to_client,
                   server_vars, server_closed>>

\* receiver.cpp takes and prints what comes.  A receive that fails leaves
\* msg_deliver empty, and the loop goes on: nothing changes.
Listen ==
    /\ client = "listen"
    /\ to_client # << >>
    /\ to_client' = Tail(to_client)
    /\ UNCHANGED <<client_vars, to_server, server_vars, server_closed>>

-----------------------------------------------------------------------------
(* The worker thread: worker, chat_with_sender, chat_with_receiver         *)

Closing(next) == server_closed' = (server_closed \/ (next = "done" /\ client = "listen"))

\* The thread takes the next message and answers it, unless the answer is too
\* long; what it answers to a client that has gone is lost.
Serve(from, next, tag, fits) ==
    /\ server = from
    /\ server' = next
    /\ to_server' = Tail(to_server)
    /\ to_client' = IF fits /\ client # "done"
                    THEN Append(to_client, [tag |-> tag, nr |-> Head(to_server).nr])
                    ELSE to_client
    /\ Closing(next)
    /\ UNCHANGED <<client_vars, deliveries>>

Request == IF to_server = << >> THEN "none" ELSE Head(to_server).tag

ServeLogin ==
    /\ Request \in {"slogin", "rlogin"}
    /\ Serve("login", "first", "ok", TRUE)
    /\ UNCHANGED in_room

\* The first message after the login is a join or a quit, or ends the dialogue.
ServeFirstJoin ==
    /\ Request \in {"join", "longjoin"}
    /\ Serve("first", IF program = "sender" THEN "chat" ELSE "deliver", "ok",
             Request # "longjoin")
    /\ in_room' = TRUE

ServeFirstQuit ==
    /\ Request = "quit"
    /\ Serve("first", "done", "ok", TRUE)
    /\ UNCHANGED in_room

ServeFirstOther ==
    /\ Request \in {"leave", "text"}
    /\ Serve("first", "done", "err", TRUE)
    /\ UNCHANGED in_room

ServeQuit ==
    /\ Request = "quit"
    /\ Serve("chat", "done", "ok", TRUE)
    /\ in_room' = FALSE

ServeJoin ==
    /\ Request \in {"join", "longjoin"}
    /\ Serve("chat", "chat", "ok", Request # "longjoin")
    /\ in_room' = TRUE

ServeLeave ==
    /\ Request = "leave"
    /\ Serve("chat", "chat", IF in_room THEN "ok" ELSE "err", TRUE)
    /\ in_room' = FALSE

\* Mutant: only errors are answered.
ServeSendallSilently ==
    /\ Request = "text"
    /\ Serve("chat", "chat", "err", ~in_room)
    /\ UNCHANGED in_room

ServeSendall ==
    /\ Request = "text"
    /\ Serve("chat", "chat", IF in_room THEN "ok" ELSE "err", TRUE)
    /\ UNCHANGED in_room

\* Mutant: the thread goes on receiving from a client that has gone.
ServerReceiveFailsIgnored ==
    /\ server \in {"login", "first"}
    /\ to_server = << >> /\ client = "done"
    /\ server' = "done"
    /\ in_room' = FALSE
    /\ UNCHANGED <<client_vars, to_server, to_client, deliveries, server_closed>>

\* receive returns false: the client has gone.
ServerReceiveFails ==
    /\ server \in {"login", "first", "chat"}
    /\ to_server = << >> /\ client = "done"
    /\ server' = "done"
    /\ in_room' = FALSE
    /\ UNCHANGED <<client_vars, to_server, to_client, deliveries, server_closed>>

\* chat_with_receiver sends a message of its queue.  To a client that has gone
\* the first write may still succeed.
Deliver ==
    /\ server = "deliver" /\ deliveries < MaxDeliveries
    /\ deliveries' = deliveries + 1
    /\ \/ /\ client # "done"
          /\ to_client' = Append(to_client, [tag |-> "delivery", nr |-> requests])
          /\ UNCHANGED <<server, in_room>>
       \/ /\ client = "done"
          /\ server' \in {"deliver", "done"}
          /\ in_room' = (server' = "deliver")
          /\ UNCHANGED to_client
    /\ UNCHANGED <<client_vars, to_server, server_closed>>

\* The message does not fit with the room's and the sender's name: the thread
\* ends, and its client's connection with it (ChatServer follows the message).
DeliveryTooLong ==
    /\ server = "deliver" /\ deliveries < MaxDeliveries
    /\ deliveries' = deliveries + 1
    /\ server' = "done"
    /\ in_room' = FALSE
    /\ Closing("done")
    /\ UNCHANGED <<client_vars, to_server, to_client>>

-----------------------------------------------------------------------------
(* The environment                                                         *)

ServerDies ==
    /\ MayDie /\ server # "done"
    /\ server' = "done"
    /\ to_server' = << >>
    /\ in_room' = FALSE
    /\ Closing("done")
    /\ UNCHANGED <<client_vars, to_client, deliveries>>

ClientDies ==
    /\ MayDie /\ client # "done"
    /\ client' = "done"
    /\ UNCHANGED <<program, user_vars, requests, to_server, to_client,
                   server_vars, server_closed>>

Client ==
    \/ Login \/ LoginTooLong \/ SendJoin \/ JoinTooLong \/ TakeReply \/ ReceiveFails
    \/ GetLine \/ Handle \/ HandleUnsent \/ Listen

Server ==
    \/ ServeLogin \/ ServeFirstJoin \/ ServeFirstQuit \/ ServeFirstOther
    \/ ServeQuit \/ ServeJoin \/ ServeLeave \/ ServeSendall
    \/ ServerReceiveFails \/ Deliver \/ DeliveryTooLong

Next == Client \/ Server \/ ServerDies \/ ClientDies

Spec == Init /\ [][Next]_vars

\* The operating system runs both processes.
FairSpec == Spec /\ WF_vars(Client) /\ WF_vars(Server)

-----------------------------------------------------------------------------
\* The sender and its thread speak in turn: at most one message is under way,
\* it belongs to the sender's last request, and none is when the sender reads
\* the keyboard.  So the reply sender.cpp:114 takes is the one to the line just
\* sent, although neither side numbers its messages.
SpeakInTurn ==
    program = "sender" =>
        LET under_way == to_server \o to_client
        IN  /\ Len(under_way) <= 1
            /\ \A i \in 1..Len(under_way) : under_way[i].nr = requests
            /\ client \in {"read", "handle"} => under_way = << >>

\* The client waits for a reply nobody will send: its own send refused the line
\* and the result was ignored (sender.cpp:111), or the server's send refused the
\* answer, which has to repeat the room's name (server.cpp:78, 176).
Hopeless ==
    \/ client = "reply" /\ line \in {"longtext", "longjoin"}
    \/ client = "joining" /\ line = "longjoin"

\* A client that waits for a reply gets one or sees the connection end.  The
\* hopeless waits are the only exception, and they end when the server does.
WaitEnds ==
    client \in Waiting /\ (~Hopeless \/ server = "done") ~> client \notin Waiting

\* The thread of a sender that has ended, by /quit or any other way, ends.
ThreadEnds == program = "sender" /\ client = "done" ~> server = "done"

-----------------------------------------------------------------------------
(* What the repository says and the code does not do                       *)

\* sender.cpp:86, the loop is for "reading commands from user, sending messages
\* to server as appropriate": beyond the login, no more messages than lines.
SendsWhatIsTyped == program = "sender" => requests <= typed + 1

\* sender.cpp:110, "otherwise send and wait for ok/err": the wait has an end.
EveryWaitEnds == client \in Waiting ~> client \notin Waiting

\* receiver.cpp:69, "return if server is closed".
ReturnsWhenServerCloses == server_closed ~> client = "done"
=============================================================================
