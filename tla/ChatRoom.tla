------------------------------ MODULE ChatRoom ------------------------------
(***************************************************************************)
(* What the chat server promises its clients, with no threads, locks or    *)
(* queues: a room is a set of users, and a message said in a room reaches, *)
(* in one step, the inbox of everyone who is in the room at that moment.   *)
(* ChatServer implements this specification.                               *)
(***************************************************************************)
EXTENDS Sequences

CONSTANTS
    Client,     \* the connections
    RoomName,   \* the names a room may have
    Message,    \* the messages that may be said
    nullptr     \* "in no room"

VARIABLES
    in,     \* in[c]: the room c is in
    inbox,  \* inbox[c]: the messages said to c and not yet delivered
    got     \* got[c]: the messages delivered to c, oldest first

vars == <<in, inbox, got>>

TypeOK ==
    /\ in \in [Client -> RoomName \cup {nullptr}]
    /\ inbox \in [Client -> Seq(Message)]
    /\ got \in [Client -> Seq(Message)]

Init ==
    /\ in = [c \in Client |-> nullptr]
    /\ inbox = [c \in Client |-> << >>]
    /\ got = [c \in Client |-> << >>]

Enter(c, r) ==
    /\ in[c] = nullptr
    /\ in' = [in EXCEPT ![c] = r]
    /\ UNCHANGED <<inbox, got>>

Exit(c) ==
    /\ in[c] # nullptr
    /\ in' = [in EXCEPT ![c] = nullptr]
    /\ UNCHANGED <<inbox, got>>

\* A user of room r says m: the whole room hears it at once, the user too.
Say(c, m) ==
    /\ in[c] # nullptr
    /\ inbox' = [d \in Client |->
                   IF in[d] = in[c] THEN Append(inbox[d], m) ELSE inbox[d]]
    /\ UNCHANGED <<in, got>>

Deliver(c) ==
    /\ inbox[c] # << >>
    /\ got' = [got EXCEPT ![c] = Append(@, Head(inbox[c]))]
    /\ inbox' = [inbox EXCEPT ![c] = Tail(@)]
    /\ UNCHANGED in

\* c hangs up: what is still in its inbox is thrown away.
HangUp(c) ==
    /\ in' = [in EXCEPT ![c] = nullptr]
    /\ inbox' = [inbox EXCEPT ![c] = << >>]
    /\ UNCHANGED got

Next ==
    \E c \in Client :
        \/ \E r \in RoomName : Enter(c, r)
        \/ Exit(c)
        \/ \E m \in Message : Say(c, m)
        \/ Deliver(c)
        \/ HangUp(c)

Spec == Init /\ [][Next]_vars
=============================================================================
