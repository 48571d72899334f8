------------------------------ MODULE Framing -------------------------------
(***************************************************************************)
(* Messages over a TCP byte stream: Connection::send and ::receive          *)
(* (connection.cpp) on top of rio_writen, rio_read and rio_readlineb       *)
(* (csapp.c).  One process sends, the other receives; the stream is cut    *)
(* into chunks anywhere, by short writes, by the network and by reads into *)
(* the rio buffer, and the sending process may die at any point.           *)
(*                                                                         *)
(* Bounds: the sender makes MaxSends attempts; a data part has at most     *)
(* MaxData characters.  MaxLen stands for Message::MAX_LEN and BufSize for *)
(* RIO_BUFSIZE, both scaled down; a tag has one character.                 *)
(***************************************************************************)
EXTENDS Integers, SequencesExt

CONSTANTS MaxLen, MaxData, MaxSends, BufSize,
          Garbage   \* TRUE if the peer may also send lines that are no message

ASSUME SizeAssumption ==
    /\ MaxLen \in Nat /\ MaxLen > 3
    /\ MaxData \in Nat /\ MaxSends \in Nat
    /\ BufSize \in Nat /\ BufSize > 0
    /\ Garbage \in BOOLEAN

\* The characters: the i-th message is written with the letter i.
Nul == -2
Newline == -1
Colon == 0

\* What is left of a std::string that is built from a C string.
CString(s) ==
    LET end == SelectInSeq(s, LAMBDA ch : ch = Nul)
    IN  IF end = 0 THEN s ELSE SubSeq(s, 1, end - 1)

\* The i-th message: its tag is one letter.  send looks at the length of the
\* data, not at the data, which may come from a terminal (getline) or from the
\* command line and hold anything.
MessagesOf(i) ==
    [tag : {<<i>>},
     data : UNION {[1..k -> {i, Colon, Nul, Newline}] : k \in 0..MaxData}]

\* A line in which receive finds no colon.
GarbageOf(i) ==
    {Append(g, Newline) : g \in
        {g \in UNION {[1..k -> {i, Colon, Nul}] : k \in 0..MaxData} :
            ~Contains(CString(g), Colon)}}

Encode(m) == m.tag \o <<Colon>> \o m.data \o <<Newline>>

VARIABLES
    sent,         \* the messages (or lines of garbage) send has accepted
    asked,        \* number of attempts
    out,          \* what rio_writen has not written yet
    send_result,  \* m_last_result of the sending Connection
    s_open,       \* the sending process still has the socket
    wire,         \* the bytes between the two sockets
    rio_buf,      \* unread bytes of the receiver's rio_t
    line,         \* what rio_readlineb has collected in this call
    last,         \* history: the line the last receive was about
    received,     \* the messages receive has returned
    result,       \* m_last_result of the receiving Connection
    r_open        \* the receiver goes on receiving

sender == <<sent, asked, out, send_result, s_open>>
receiver == <<rio_buf, line, last, received, result, r_open>>
vars == <<sender, wire, receiver>>

Results == {"SUCCESS", "EOF_OR_ERROR", "INVALID_MSG"}

Char == {Nul, Newline, Colon} \cup 1..MaxSends

TypeOK ==
    /\ asked \in 0..MaxSends
    /\ Len(sent) <= asked
    /\ out \in Seq(Char) /\ wire \in Seq(Char)
    /\ rio_buf \in Seq(Char) /\ Len(rio_buf) <= BufSize
    /\ line \in Seq(Char) /\ Len(line) < MaxLen - 1
    /\ send_result \in Results /\ result \in Results
    /\ s_open \in BOOLEAN /\ r_open \in BOOLEAN

Init ==
    /\ sent = << >> /\ asked = 0 /\ out = << >> /\ send_result = "SUCCESS"
    /\ s_open = TRUE /\ wire = << >>
    /\ rio_buf = << >> /\ line = << >> /\ last = << >> /\ received = << >>
    /\ result = "SUCCESS" /\ r_open = TRUE

-----------------------------------------------------------------------------
(* Connection::send                                                        *)

Fits(m) == Len(m.data) + 2 + Len(m.tag) <= MaxLen

CanSend == s_open /\ out = << >> /\ asked < MaxSends

Send ==
    /\ CanSend
    /\ asked' = asked + 1
    /\ \E m \in MessagesOf(asked') :
        \/ /\ Fits(m)
           /\ sent' = Append(sent, m)
           /\ out' = Encode(m)
           /\ UNCHANGED send_result
        \/ /\ ~Fits(m)
           /\ send_result' = "INVALID_MSG"
           /\ UNCHANGED <<sent, out>>
    /\ UNCHANGED <<s_open, wire, receiver>>

\* Some other program at the other end (telnet, netcat): a line that is no
\* message.  One with a colon is a message like those of send.
SendGarbage ==
    /\ Garbage /\ CanSend
    /\ asked' = asked + 1
    /\ out' \in GarbageOf(asked')
    /\ UNCHANGED <<sent, send_result, s_open, wire, receiver>>

\* Mutant: a short write is taken for the whole.
WriteOnce ==
    /\ s_open /\ out # << >>
    /\ \E k \in 1..Len(out) : wire' = wire \o SubSeq(out, 1, k)
    /\ out' = << >>
    /\ send_result' = "SUCCESS"
    /\ UNCHANGED <<sent, asked, s_open, receiver>>

\* One turn of rio_writen: write() takes some of the bytes, even when nobody
\* will read them.
Write ==
    /\ s_open /\ out # << >>
    /\ \E k \in 1..Len(out) :
        /\ wire' = wire \o SubSeq(out, 1, k)
        /\ out' = SubSeq(out, k + 1, Len(out))
    /\ send_result' = IF out' = << >> THEN "SUCCESS" ELSE send_result
    /\ UNCHANGED <<sent, asked, s_open, receiver>>

\* The other end is closed: rio_writen returns -1.
WriteFails ==
    /\ s_open /\ ~r_open /\ out # << >>
    /\ out' = << >>
    /\ send_result' = "EOF_OR_ERROR"
    /\ UNCHANGED <<sent, asked, s_open, wire, receiver>>

\* ~Connection, or the process dies, perhaps in the middle of rio_writen.
Close ==
    /\ s_open
    /\ s_open' = FALSE
    /\ out' = << >>
    /\ UNCHANGED <<sent, asked, send_result, wire, receiver>>

-----------------------------------------------------------------------------
(* Connection::receive                                                     *)

\* rio_read refills its empty buffer with what read() gives it.
Refill ==
    /\ r_open /\ rio_buf = << >> /\ wire # << >>
    /\ \E k \in 1..BufSize :
        /\ k <= Len(wire)
        /\ rio_buf' = SubSeq(wire, 1, k)
        /\ wire' = SubSeq(wire, k + 1, Len(wire))
    /\ UNCHANGED <<sender, line, last, received, result, r_open>>

WithoutNewline(l) == IF l # << >> /\ Last(l) = Newline THEN Front(l) ELSE l

\* Mutant: a message without data is taken for no message.
FinishSkipsEmpty(l) ==
    LET body == CString(WithoutNewline(l))
        split == SelectInSeq(body, LAMBDA ch : ch = Colon)
    IN  /\ line' = << >>
        /\ last' = l
        /\ result' = IF split = 0 THEN "EOF_OR_ERROR" ELSE "SUCCESS"
        /\ r_open' = (split # 0)
        /\ received' = IF split \in {0, Len(body)} THEN received
                       ELSE Append(received,
                              [tag |-> SubSeq(body, 1, split - 1),
                               data |-> SubSeq(body, split + 1, Len(body))])

\* What receive makes of the line l: split at the first colon.  A connection
\* whose receive failed is given up by the server's thread.
Finish(l) ==
    LET body == CString(WithoutNewline(l))
        split == SelectInSeq(body, LAMBDA ch : ch = Colon)
    IN  /\ line' = << >>
        /\ last' = l
        /\ IF l = << >> \/ split = 0
           THEN /\ result' = "EOF_OR_ERROR"
                /\ r_open' = FALSE
                /\ UNCHANGED received
           ELSE /\ result' = "SUCCESS"
                /\ received' = Append(received,
                        [tag |-> SubSeq(body, 1, split - 1),
                         data |-> SubSeq(body, split + 1, Len(body))])
                /\ UNCHANGED r_open

\* Mutant: rio_readlineb returns what one read has brought.
ReadUpToRefill ==
    /\ r_open /\ rio_buf # << >>
    /\ rio_buf' = << >>
    /\ Finish(rio_buf)
    /\ UNCHANGED <<sender, wire>>

\* One turn of rio_readlineb, which stops at a newline and after maxlen - 1
\* characters; receive passes MAX_LEN for maxlen (connection.cpp:95).
ReadChar ==
    /\ r_open /\ rio_buf # << >>
    /\ rio_buf' = Tail(rio_buf)
    /\ LET l == Append(line, Head(rio_buf))
       IN  IF Last(l) = Newline \/ Len(l) = MaxLen - 1
           THEN Finish(l)
           ELSE line' = l /\ UNCHANGED <<last, received, result, r_open>>
    /\ UNCHANGED <<sender, wire>>

\* read() returns 0: rio_readlineb hands over what it has, if anything.
EndOfFile ==
    /\ r_open /\ rio_buf = << >> /\ wire = << >> /\ ~s_open
    /\ Finish(line)
    /\ UNCHANGED <<sender, wire, rio_buf>>

\* read() returns -1: a sender that died with unread replies has reset the
\* connection.  What was collected of the line is dropped.
ReadError ==
    /\ r_open /\ rio_buf = << >> /\ ~s_open
    /\ wire' = << >>
    /\ Finish(<< >>)
    /\ UNCHANGED <<sender, rio_buf>>

-----------------------------------------------------------------------------
Next ==
    \/ Send \/ SendGarbage \/ Write \/ WriteFails \/ Close
    \/ Refill \/ ReadChar \/ EndOfFile \/ ReadError

Spec == Init /\ [][Next]_vars

\* Both processes run and the network moves bytes.
FairSpec ==
    /\ Spec
    /\ WF_vars(Write) /\ WF_vars(WriteFails)
    /\ WF_vars(Refill \/ ReadChar \/ EndOfFile \/ ReadError)

-----------------------------------------------------------------------------
(* Safety and liveness, for messages shorter than MaxLen                   *)

\* No message that was sent has a newline in its data.
OneLineEach ==
    \A i \in DOMAIN sent : ~Contains(sent[i].data, Newline)

\* What receive makes of a message.
Arriving(m) == [m EXCEPT !.data = CString(@)]

\* The first messages that were sent, each up to its first NUL.  Only the last
\* one of a sender that is gone may lack more.
InOrder ==
    /\ Len(received) <= Len(sent)
    /\ \A i \in 1..Len(received) :
        \/ received[i] = Arriving(sent[i])
        \/ /\ i = Len(sent) /\ ~s_open
           /\ received[i].tag = sent[i].tag
           /\ IsPrefix(received[i].data, CString(sent[i].data))

\* Whatever the chunks, the receiver gets the messages that were sent, whole up
\* to a NUL and in order, as long as each is one line, which send does not
\* ensure.  Only the last one may be cut off, when the sender died while
\* writing it: receive cannot tell a line without newline from a whole one.
WholeMessagesInOrder == OneLineEach => InOrder

\* No garbage, and nothing that send refused.
AllAccepted == asked = Len(sent)

\* The receiver gives up on no connection whose sender is still there and has
\* sent, each in one line, what message.h:8 allows: "an encoded message may
\* have at most this many characters, including the trailing newline".
KeepsConnection == OneLineEach /\ s_open /\ AllAccepted => r_open

\* Every message that send has accepted is received, unless its sender dies.
SentIsReceived ==
    \A n \in 1..MaxSends :
        Len(sent) = n ~> \/ Len(received) >= n \/ ~s_open
                         \/ ~AllAccepted \/ ~OneLineEach

-----------------------------------------------------------------------------
(* What the repository says and the code does not do                       *)

\* connection.h:37, m_last_result says "whether the format of the received
\* message was invalid".
MalformedIsInvalid ==
    (last # << >> /\ Last(last) = Newline /\ ~Contains(last, Colon))
        => result = "INVALID_MSG"
=============================================================================
