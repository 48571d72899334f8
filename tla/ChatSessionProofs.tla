-------------------------- MODULE ChatSessionProofs --------------------------
(***************************************************************************)
(* Theorems about ChatSession: sender.cpp and its worker thread speak in   *)
(* turn, whatever the user types, whatever is refused, and whichever of    *)
(* the two processes is killed.                                            *)
(***************************************************************************)
EXTENDS ChatSession, TLAPS

\* A sender's dialogue: nothing is under way, or a request, or its reply.  The
\* sender is not at the keyboard while something is.
Silent == to_server = << >> /\ to_client = << >>

Asked == \E m \in Messages :
    /\ to_server = <<m>> /\ to_client = << >>
    /\ m.nr = requests
    /\ server # "done"

Answered == \E m \in Messages :
    /\ to_server = << >> /\ to_client = <<m>>
    /\ m.nr = requests

Away == {"login", "reply", "bye", "done"}

SenderInv ==
    program = "sender" =>
        /\ client \in {"start", "read", "handle"} \cup Away
        /\ server # "deliver"
        /\ Silent \/ (client \in Away /\ (Asked \/ Answered))

IInv == TypeOK /\ SenderInv

-----------------------------------------------------------------------------
\* The client's steps keep the types.
LEMMA ClientTypes ==
    ASSUME TypeOK, Client
    PROVE  TypeOK'
  <1> USE SessionAssumption
  <1>1. ASSUME NEW tag \in Commands \cup {"slogin", "rlogin"}, NEW next \in Waiting,
               SendAndWait(tag, next), UNCHANGED user_vars
        PROVE  TypeOK'
    <2>1. requests' \in 0..MaxRequests /\ requests' \in Nat
      BY <1>1 DEF SendAndWait, TypeOK
    <2>2. [tag |-> tag, nr |-> requests'] \in Messages
      BY <2>1 DEF Messages
    <2>3. to_server' \in Seq(Messages)
      BY <1>1, <2>2 DEF SendAndWait, TypeOK
    <2>4. client' \in Waiting \cup {"done"}
      BY <1>1 DEF SendAndWait
    <2> QED
      BY <1>1, <2>1, <2>3, <2>4 DEF SendAndWait, TypeOK, server_vars, user_vars
  <1>2. CASE Login
    <2>1. "login" \in Waiting
      BY DEF Waiting
    <2> QED
      BY <1>1, <1>2, <2>1 DEF Login
  <1>3. CASE LoginTooLong
    BY <1>3 DEF LoginTooLong, TypeOK, server_vars, user_vars
  <1>4. CASE SendJoin
    <2>1. line \in Commands /\ "joining" \in Waiting
      BY <1>4 DEF SendJoin, Commands, Waiting
    <2> QED
      BY <1>1, <1>4, <2>1 DEF SendJoin
  <1>11. CASE JoinTooLong
    BY <1>11 DEF JoinTooLong, TypeOK, server_vars, user_vars
  <1>5. CASE TakeReply
    <2>1. client' \in {"done", "read", "join", "listen"}
      BY <1>5 DEF TakeReply, AfterReply, Waiting
    <2>2. to_client' \in Seq(Messages)
      BY <1>5 DEF TakeReply, TypeOK
    <2> QED
      BY <1>5, <2>1, <2>2 DEF TakeReply, TypeOK, server_vars, user_vars
  <1>6. CASE ReceiveFails
    BY <1>6 DEF ReceiveFails, TypeOK, server_vars, user_vars
  <1>7. CASE GetLine
    <2>a. stdin \in {"open", "ended"} /\ line \in Kinds /\ typed \in 0..MaxLines
      BY DEF TypeOK
    <2>b. typed + 1 \in 0..MaxLines \/ ~(typed < MaxLines)
      BY <2>a
    <2>c. \A x \in Lines : x \in Kinds
      OBVIOUS
    <2>d. "skipped" \in Kinds
      BY DEF Kinds
    <2>1. /\ stdin' \in {"open", "ended"} /\ line' \in Kinds /\ typed' \in 0..MaxLines
      BY <1>7, <2>a, <2>b, <2>c, <2>d DEF GetLine, user_vars
    <2> QED
      BY <1>7, <2>1 DEF GetLine, TypeOK, server_vars
  <1>8. CASE Handle
    <2>1. (IF line = "quit" THEN "bye" ELSE "reply") \in Waiting
      BY DEF Waiting
    <2> QED
      BY <1>1, <1>8, <2>1 DEF Handle
  <1>9. CASE HandleUnsent
    BY <1>9 DEF HandleUnsent, TypeOK, server_vars, user_vars, Waiting
  <1>10. CASE Listen
    BY <1>10 DEF Listen, TypeOK, client_vars, server_vars, user_vars
  <1> QED
    BY <1>2, <1>3, <1>4, <1>5, <1>6, <1>7, <1>8, <1>9, <1>10, <1>11
      DEF Client

\* What Serve does to the types.
LEMMA ServeTypes ==
    ASSUME TypeOK, to_server # << >>,
           NEW from, NEW next \in {"first", "chat", "deliver", "done"},
           NEW tag \in {"ok", "err"}, NEW fits, Serve(from, next, tag, fits),
           in_room' \in BOOLEAN
    PROVE  TypeOK'
  <1> USE SessionAssumption
  <1>1. Head(to_server) \in Messages /\ Tail(to_server) \in Seq(Messages)
    BY DEF TypeOK
  <1>2. [tag |-> tag, nr |-> Head(to_server).nr] \in Messages
    BY <1>1 DEF Messages
  <1>3. to_client' \in Seq(Messages)
    BY <1>2 DEF Serve, TypeOK
  <1>4. server_closed' \in BOOLEAN
    BY DEF Serve, Closing, TypeOK
  <1> QED
    BY <1>1, <1>3, <1>4 DEF Serve, TypeOK, client_vars, user_vars

\* The server's steps keep the types.
LEMMA ServerTypes ==
    ASSUME TypeOK, Server
    PROVE  TypeOK'
  <1> USE SessionAssumption
  <1>1. Request # "none" => to_server # << >>
    BY DEF Request
  <1>2. CASE ServeLogin
    BY <1>1, <1>2, ServeTypes DEF ServeLogin, TypeOK
  <1>3. CASE ServeFirstJoin
    <2>1. (IF program = "sender" THEN "chat" ELSE "deliver") \in {"first", "chat", "deliver", "done"}
      OBVIOUS
    <2> QED
      BY <1>1, <1>3, <2>1, ServeTypes DEF ServeFirstJoin
  <1>4. CASE ServeFirstQuit
    BY <1>1, <1>4, ServeTypes DEF ServeFirstQuit, TypeOK
  <1>5. CASE ServeFirstOther
    BY <1>1, <1>5, ServeTypes DEF ServeFirstOther, TypeOK
  <1>6. CASE ServeQuit
    BY <1>1, <1>6, ServeTypes DEF ServeQuit
  <1>7. CASE ServeJoin
    BY <1>1, <1>7, ServeTypes DEF ServeJoin
  <1>8. (IF in_room THEN "ok" ELSE "err") \in {"ok", "err"}
    OBVIOUS
  <1>9. CASE ServeLeave
    BY <1>1, <1>8, <1>9, ServeTypes DEF ServeLeave
  <1>10. CASE ServeSendall
    BY <1>1, <1>8, <1>10, ServeTypes DEF ServeSendall, TypeOK
  <1>11. CASE ServerReceiveFails
    BY <1>11 DEF ServerReceiveFails, TypeOK, client_vars, user_vars
  <1>12. CASE Deliver
    <2>1. [tag |-> "delivery", nr |-> requests] \in Messages
      BY DEF TypeOK, Messages
    <2>a. to_client' \in Seq(Messages)
      BY <1>12, <2>1 DEF Deliver, TypeOK
    <2>b. deliveries' \in 0..MaxDeliveries
      BY <1>12 DEF Deliver, TypeOK
    <2>c. server' \in {"deliver", "done"}
      BY <1>12 DEF Deliver
    <2>d. in_room' \in BOOLEAN
      BY <1>12 DEF Deliver, TypeOK
    <2>2. /\ to_client' \in Seq(Messages) /\ deliveries' \in 0..MaxDeliveries
          /\ server' \in {"deliver", "done"} /\ in_room' \in BOOLEAN
      BY <2>a, <2>b, <2>c, <2>d
    <2> QED
      BY <1>12, <2>2 DEF Deliver, TypeOK, client_vars, user_vars
  <1>13. CASE DeliveryTooLong
    <2>1. deliveries' \in 0..MaxDeliveries /\ server_closed' \in BOOLEAN
      BY <1>13 DEF DeliveryTooLong, Closing, TypeOK
    <2> QED
      BY <1>13, <2>1 DEF DeliveryTooLong, TypeOK, client_vars, user_vars
  <1> QED
    BY <1>2, <1>3, <1>4, <1>5, <1>6, <1>7, <1>9, <1>10, <1>11, <1>12, <1>13 DEF Server

\* A client killed, or a server, keeps them too.
LEMMA DeathTypes ==
    ASSUME TypeOK, ServerDies \/ ClientDies
    PROVE  TypeOK'
  <1>1. CASE ServerDies
    <2>1. to_server' \in Seq(Messages) /\ server_closed' \in BOOLEAN
      BY <1>1 DEF ServerDies, Closing, TypeOK
    <2> QED
      BY <1>1, <2>1 DEF ServerDies, TypeOK, client_vars, user_vars
  <1>2. CASE ClientDies
    BY <1>2 DEF ClientDies, TypeOK, server_vars, user_vars
  <1> QED
    BY <1>1, <1>2

-----------------------------------------------------------------------------
\* One message goes into an empty queue, and the only one comes out.
LEMMA OneMessage ==
    ASSUME NEW m
    PROVE  /\ Append(<< >>, m) = <<m>>
           /\ Head(<<m>>) = m /\ Tail(<<m>>) = << >>
           /\ <<m>> # << >>
  OBVIOUS

\* A sender sends only when nothing is under way.
LEMMA SendingTurns ==
    ASSUME TypeOK, SenderInv, program = "sender", Silent,
           NEW tag \in Commands \cup {"slogin", "rlogin"}, NEW next \in Away,
           SendAndWait(tag, next)
    PROVE  SenderInv'
  <1>1. requests' \in Nat
    BY SessionAssumption DEF SendAndWait, TypeOK
  <1>2. [tag |-> tag, nr |-> requests'] \in Messages
    BY <1>1 DEF Messages
  <1>3. /\ client' \in Away /\ program' = program
        /\ server' = server /\ to_client' = to_client
    BY DEF SendAndWait, server_vars, Away
  <1>4. CASE server # "done"
    <2>1. to_server' = <<[tag |-> tag, nr |-> requests']>>
      BY <1>4, OneMessage DEF SendAndWait, Silent
    <2>2. Asked'
      BY <1>2, <1>3, <1>4, <2>1 DEF Asked, Silent
    <2> QED
      BY <1>3, <2>1, <2>2 DEF SenderInv
  <1>5. CASE server = "done"
    <2>1. Silent'
      BY <1>3, <1>5 DEF SendAndWait, Silent
    <2> QED
      BY <1>3, <1>5, <2>1 DEF SenderInv
  <1> QED
    BY <1>4, <1>5

\* A client's step keeps the turns.
LEMMA ClientTurns ==
    ASSUME TypeOK, SenderInv, program = "sender", Client
    PROVE  SenderInv'
  <1>0. client \in {"start", "read", "handle"} => Silent
    BY DEF SenderInv, Away
  <1>a. /\ client \in {"start", "read", "handle"} \cup Away
        /\ server # "deliver"
        /\ Silent \/ (client \in Away /\ (Asked \/ Answered))
    BY DEF SenderInv
  <1>b. ASSUME Silent, UNCHANGED <<program, to_server, to_client, server>>,
               client' \in {"start", "read", "handle"} \cup Away
        PROVE  SenderInv'
    BY <1>a, <1>b DEF SenderInv, Silent
  <1>1. CASE Login
    <2>1. "login" \in Away
      BY DEF Away
    <2> QED
      BY <1>0, <1>1, <2>1, SendingTurns DEF Login
  <1>2. CASE LoginTooLong
    BY <1>0, <1>b, <1>2 DEF LoginTooLong, server_vars, Away
  <1>3. CASE TakeReply
    <2>1. /\ to_client # << >> /\ to_client' = Tail(to_client) /\ to_server' = to_server
          /\ client' = AfterReply(Head(to_client).tag)
          /\ program' = program /\ server' = server
      BY <1>3 DEF TakeReply, server_vars
    <2>2. Answered
      BY <1>a, <2>1 DEF Silent, Asked
    <2>3. Silent'
      BY <2>1, <2>2, OneMessage DEF Answered, Silent
    <2>4. client \in {"login", "reply", "bye"}
      BY <1>3, <1>a DEF TakeReply, Waiting, Away
    <2>5. client' \in {"done", "read"}
      BY <2>1, <2>4 DEF AfterReply
    <2> QED
      BY <1>a, <2>1, <2>3, <2>5 DEF SenderInv, Away
  <1>4. CASE ReceiveFails
    <2>1. Silent
      BY <1>4, <1>a DEF ReceiveFails, Asked, Answered, Silent
    <2> QED
      BY <1>b, <1>4, <2>1 DEF ReceiveFails, server_vars, Away
  <1>5. CASE GetLine
    BY <1>0, <1>b, <1>5 DEF GetLine, server_vars
  <1>6. CASE Handle
    <2>1. (IF line = "quit" THEN "bye" ELSE "reply") \in Away
      BY DEF Away
    <2> QED
      BY <1>0, <1>6, <2>1, SendingTurns DEF Handle
  <1>7. CASE HandleUnsent
    BY <1>0, <1>b, <1>7 DEF HandleUnsent, server_vars, Away
  <1>8. CASE SendJoin \/ JoinTooLong \/ Listen
    BY <1>8, <1>a DEF SendJoin, JoinTooLong, Listen, Away
  <1> QED
    BY <1>1, <1>2, <1>3, <1>4, <1>5, <1>6, <1>7, <1>8 DEF Client

\* Whatever the thread makes of a sender's request, its answer takes the
\* request's place.
LEMMA ServeTurns ==
    ASSUME TypeOK, SenderInv, program = "sender", to_server # << >>,
           NEW from, NEW next \in {"first", "chat", "done"},
           NEW tag \in {"ok", "err"}, NEW fits, Serve(from, next, tag, fits)
    PROVE  SenderInv'
  <1>1. client \in Away /\ Asked
    BY DEF SenderInv, Silent, Answered
  <1>2. PICK m \in Messages : to_server = <<m>> /\ to_client = << >> /\ m.nr = requests
    BY <1>1 DEF Asked
  <1>3. /\ client' = client /\ requests' = requests /\ program' = program
        /\ server' = next /\ to_server' = << >>
    BY <1>2, OneMessage DEF Serve, client_vars
  <1>4. CASE fits /\ client # "done"
    <2>1. to_client' = <<[tag |-> tag, nr |-> m.nr]>>
      BY <1>2, <1>4, OneMessage DEF Serve
    <2>2. [tag |-> tag, nr |-> m.nr] \in Messages
      BY DEF Messages
    <2>3. Answered'
      BY <1>2, <1>3, <2>1, <2>2 DEF Answered
    <2> QED
      BY <1>1, <1>3, <2>3 DEF SenderInv
  <1>5. CASE ~(fits /\ client # "done")
    <2>1. Silent'
      BY <1>2, <1>3, <1>5 DEF Serve, Silent
    <2> QED
      BY <1>1, <1>3, <2>1 DEF SenderInv
  <1> QED
    BY <1>4, <1>5

\* A step of the thread keeps the turns.
LEMMA ServerTurns ==
    ASSUME TypeOK, SenderInv, program = "sender", Server
    PROVE  SenderInv'
  <1>1. Request # "none" => to_server # << >>
    BY DEF Request
  <1>2. (IF in_room THEN "ok" ELSE "err") \in {"ok", "err"}
    OBVIOUS
  <1>3. CASE ServeLogin
    BY <1>1, <1>3, ServeTurns DEF ServeLogin
  <1>4. CASE ServeFirstJoin
    BY <1>1, <1>4, ServeTurns DEF ServeFirstJoin
  <1>5. CASE ServeFirstQuit \/ ServeFirstOther
    BY <1>1, <1>5, ServeTurns DEF ServeFirstQuit, ServeFirstOther
  <1>6. CASE ServeQuit \/ ServeJoin
    BY <1>1, <1>6, ServeTurns DEF ServeQuit, ServeJoin
  <1>7. CASE ServeLeave \/ ServeSendall
    BY <1>1, <1>2, <1>7, ServeTurns DEF ServeLeave, ServeSendall
  <1>8. CASE ServerReceiveFails
    BY <1>8 DEF ServerReceiveFails, SenderInv, Silent, Asked, Answered, client_vars
  <1>9. CASE Deliver \/ DeliveryTooLong
    BY <1>9 DEF Deliver, DeliveryTooLong, SenderInv
  <1> QED
    BY <1>3, <1>4, <1>5, <1>6, <1>7, <1>8, <1>9 DEF Server

\* A process that is killed takes no message with it but the requests.
LEMMA DeathTurns ==
    ASSUME TypeOK, SenderInv, program = "sender", ServerDies \/ ClientDies
    PROVE  SenderInv'
  <1>1. CASE ServerDies
    <2>1. /\ server' = "done" /\ to_server' = << >>
          /\ UNCHANGED <<program, client, requests, to_client>>
      BY <1>1 DEF ServerDies, client_vars
    <2>2. Silent => Silent'
      BY <2>1 DEF Silent
    <2>3. Asked => Silent'
      BY <2>1 DEF Asked, Silent
    <2>4. Answered => Answered'
      BY <2>1 DEF Answered
    <2> QED
      BY <2>1, <2>2, <2>3, <2>4 DEF SenderInv
  <1>2. CASE ClientDies
    BY <1>2 DEF ClientDies, SenderInv, Silent, Asked, Answered, server_vars, Away
  <1> QED
    BY <1>1, <1>2

-----------------------------------------------------------------------------
(* The invariant                                                           *)

\* The client has not connected yet.
THEOREM SessionInit == Init => IInv
  <1> SUFFICES ASSUME Init PROVE IInv
    OBVIOUS
  <1>1. TypeOK
    <2>1. << >> \in Seq(Messages)
      OBVIOUS
    <2>2. 0 \in 0..MaxLines /\ 0 \in 0..MaxRequests /\ 0 \in 0..MaxDeliveries
      BY SessionAssumption
    <2>3. line \in Kinds
      BY DEF Init, RoomArguments, Kinds
    <2> QED
      BY <2>1, <2>2, <2>3 DEF Init, TypeOK
  <1>2. SenderInv
    BY DEF Init, SenderInv, Silent
  <1> QED
    BY <1>1, <1>2 DEF IInv

\* Every step of either process, and the death of one, keeps the invariant.
THEOREM SessionStep == IInv /\ [Next]_vars => IInv'
  <1> SUFFICES ASSUME IInv, [Next]_vars PROVE IInv'
    OBVIOUS
  <1>0. TypeOK /\ SenderInv
    BY DEF IInv
  <1>1. CASE UNCHANGED vars
    <2>1. TypeOK'
      BY <1>0, <1>1 DEF TypeOK, vars, client_vars, server_vars, user_vars
    <2>2. SenderInv'
      BY <1>0, <1>1 DEF SenderInv, Silent, Asked, Answered, vars, client_vars, server_vars
    <2> QED
      BY <2>1, <2>2 DEF IInv
  <1>2. CASE Next
    <2>1. TypeOK'
      BY <1>0, <1>2, ClientTypes, ServerTypes, DeathTypes DEF Next
    <2>2. program' = program
      BY <1>2 DEF Next, Client, Login, LoginTooLong, SendJoin, JoinTooLong,
        TakeReply, ReceiveFails,
        GetLine, Handle, HandleUnsent, Listen, SendAndWait, Server, ServeLogin,
        ServeFirstJoin, ServeFirstQuit, ServeFirstOther, ServeQuit, ServeJoin, ServeLeave,
        ServeSendall, Serve, ServerReceiveFails, Deliver, DeliveryTooLong, ServerDies, ClientDies,
        client_vars
    <2>3. program = "sender" => SenderInv'
      <3>1. program = "sender" /\ Client => SenderInv'
        BY <1>0, ClientTurns
      <3>2. program = "sender" /\ Server => SenderInv'
        BY <1>0, ServerTurns
      <3>3. program = "sender" /\ (ServerDies \/ ClientDies) => SenderInv'
        BY <1>0, DeathTurns
      <3> QED
        BY <1>2, <3>1, <3>2, <3>3 DEF Next
    <2>4. program # "sender" => SenderInv'
      BY <2>2 DEF SenderInv
    <2> QED
      BY <2>1, <2>3, <2>4 DEF IInv
  <1> QED
    BY <1>1, <1>2

\* Every reachable state satisfies the inductive invariant.
THEOREM SessionInvariant == Spec => []IInv
  <1> QED
    BY SessionInit, SessionStep, PTL DEF Spec

\* Every variable stays in its type.
THEOREM SessionTyped == Spec => []TypeOK
  <1>1. IInv => TypeOK
    BY DEF IInv
  <1> QED
    BY <1>1, SessionInvariant, PTL

\* sender.cpp:114 takes the reply to the line it has just sent, although neither
\* side numbers its messages: at most one is under way, and it belongs to the
\* last request.
THEOREM SessionInTurn == Spec => []SpeakInTurn
  <1>1. ASSUME IInv PROVE SpeakInTurn
    <2> DEFINE under_way == to_server \o to_client
    <2> SUFFICES ASSUME program = "sender"
                 PROVE  /\ Len(under_way) <= 1
                        /\ \A i \in 1..Len(under_way) : under_way[i].nr = requests
                        /\ client \in {"read", "handle"} => under_way = << >>
      BY DEF SpeakInTurn
    <2>1. Silent \/ (client \in Away /\ (Asked \/ Answered))
      BY <1>1 DEF IInv, SenderInv
    <2>2. CASE Silent
      <3>1. under_way = << >>
        BY <2>2 DEF Silent
      <3> QED
        BY <3>1
    <2>3. CASE client \in Away /\ (Asked \/ Answered)
      <3>a. PICK m \in Messages : /\ m.nr = requests
                                 /\ \/ to_server = <<m>> /\ to_client = << >>
                                    \/ to_server = << >> /\ to_client = <<m>>
        BY <2>3 DEF Asked, Answered
      <3>b. <<m>> \in Seq(Messages) /\ << >> \in Seq(Messages)
        OBVIOUS
      <3>c. <<m>> \o << >> = <<m>> /\ << >> \o <<m>> = <<m>>
        BY <3>b
      <3>1. under_way = <<m>> /\ m.nr = requests
        BY <3>a, <3>c
      <3> HIDE DEF under_way
      <3>2. Len(under_way) = 1 /\ under_way[1] = m
        BY <3>1
      <3> QED
        BY <2>3, <3>1, <3>2 DEF Away
    <2> QED
      BY <2>1, <2>2, <2>3
  <1> QED
    BY <1>1, SessionInvariant, PTL
=============================================================================
