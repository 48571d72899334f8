--------------------------- MODULE FramingProofs ----------------------------
(***************************************************************************)
(* Proofs about Framing: what receive returns is what send accepted, for   *)
(* any buffer size, any cuts of the stream, any number of messages of any  *)
(* length up to MaxLen, as long as each is one line, and garbage between   *)
(* them.                                                                   *)
(*                                                                         *)
(* The inductive invariant looks at the characters between the two ends,   *)
(* Pipe, from the line rio_readlineb is collecting to what rio_writen has  *)
(* still to write.  They are the encodings of the next messages, one after *)
(* the other: at[k] is where the k-th of them ends.  After the last comes  *)
(* nothing (it may be cut off, if the sender is gone), or a line on which  *)
(* receive will give up: garbage, or the newline of a message of MaxLen    *)
(* characters, which rio_readlineb leaves behind.  Once a message with a   *)
(* newline in its data was sent, only the types are left of this.          *)
(***************************************************************************)
EXTENDS Framing, SequenceTheorems, WellFoundedInduction, TLAPS

Size(m) == Len(m.data) + 3

\* What send accepts, if it is one line.
Printable == Char \ {Newline}

Sendable ==
    {m \in [tag : {<<i>> : i \in 1..MaxSends}, data : Seq(Printable)] :
        Len(m.data) <= MaxData /\ Size(m) <= MaxLen}

\* The characters on their way.
Pipe == line \o rio_buf \o wire \o out

TypeInv ==
    /\ TypeOK
    /\ sent \in Seq(Sendable)
    /\ received \in Seq([tag : Seq(Char), data : Seq(Char)])
    /\ \A i \in 1..Len(line) : line[i] # Newline
    /\ ~s_open => out = << >>

\* P has m after its first i characters, as far as P goes.
HasItem(P, i, m) ==
    \A j \in 1..Size(m) : i + j <= Len(P) => P[i + j] = Encode(m)[j]

\* P begins with the n messages of ms that follow the first r.
Laid(P, r, ms, n, at) ==
    /\ r + n <= Len(ms)
    /\ at[0] = 0
    /\ \A k \in 1..n : /\ at[k] = at[k - 1] + Size(ms[r + k])
                       /\ HasItem(P, at[k - 1], ms[r + k])
    /\ \A j, k \in 0..n : j <= k => at[j] <= at[k]

\* They are all that was sent, and only the last may be cut off; of the o
\* characters not yet written, none belongs to another one.
Whole(P, o, r, ms, open, n, at) ==
    /\ r + n = Len(ms)
    /\ Len(P) <= at[n]
    /\ open => Len(P) = at[n]
    /\ n > 0 => at[n - 1] <= Len(P) - o

\* Messages shorter than MaxLen.
Short == MaxData + 3 < MaxLen

\* P has after its first a characters a line in which receive finds no colon,
\* as far as P goes, which is to the line's end while the sender is there.
GivenUp(P, a, open) ==
    \E z \in Nat \ {0} :
        /\ open => a + z <= Len(P)
        /\ a + z <= Len(P) => P[a + z] = Newline
        /\ \A j \in 1..z : a + j <= Len(P) =>
              P[a + j] # Colon \/ \E h \in 1..j : P[a + h] = Nul

\* After them comes such a line.
Spoilt(P, o, r, ms, open, attempts, n, at) ==
    /\ at[n] < Len(P)
    /\ at[n] <= Len(P) - o
    /\ at[n] = Len(P) - o => r + n = Len(ms)
    /\ GivenUp(P, at[n], open)
    /\ Short => attempts > Len(ms)

After(P, o, r, ms, open, attempts, n, at) ==
    \/ Whole(P, o, r, ms, open, n, at)
    \/ Spoilt(P, o, r, ms, open, attempts, n, at)

Stream(P, o, r, ms, open, attempts) ==
    \E n \in Nat : \E at \in [0..n -> Nat] :
        Laid(P, r, ms, n, at) /\ After(P, o, r, ms, open, attempts, n, at)

PipeInv ==
    r_open => Stream(Pipe, Len(out), Len(received), sent, s_open, asked)

\* The receiver goes on while the sender is there and sends only messages.
Kept == s_open /\ AllAccepted => r_open

ShortInv == Short => Kept

\* The invariant while every message is one line.
IInv == TypeInv /\ InOrder /\ PipeInv /\ ShortInv

-----------------------------------------------------------------------------
(* Messages and their encoding                                             *)

\* The characters of a concatenation.
LEMMA ConcatChars ==
  ASSUME NEW s \in Seq(Char), NEW t \in Seq(Char)
  PROVE  /\ s \o t \in Seq(Char) /\ Len(s \o t) = Len(s) + Len(t)
         /\ Len(s) \in Nat /\ Len(t) \in Nat
         /\ \A i \in 1..Len(s) : (s \o t)[i] = s[i]
         /\ \A i \in 1..Len(t) : (s \o t)[Len(s) + i] = t[i]
         /\ \A i \in 1..Len(s \o t) :
              (s \o t)[i] = IF i <= Len(s) THEN s[i] ELSE t[i - Len(s)]
  OBVIOUS

\* The characters of a part.
LEMMA Slice ==
  ASSUME NEW s \in Seq(Char), NEW a \in 1..Len(s) + 1, NEW b \in a - 1..Len(s)
  PROVE  /\ SubSeq(s, a, b) \in Seq(Char) /\ Len(SubSeq(s, a, b)) = b - a + 1
         /\ \A i \in 1..b - a + 1 : SubSeq(s, a, b)[i] = s[a + i - 1]
  <1>1. a \in Int /\ b \in Int /\ \A i \in a..b : s[i] \in Char
    OBVIOUS
  <1>2. /\ SubSeq(s, a, b) \in Seq(Char)
        /\ Len(SubSeq(s, a, b)) = IF a <= b THEN b - a + 1 ELSE 0
        /\ \A i \in 1..b - a + 1 : SubSeq(s, a, b)[i] = s[a + i - 1]
    BY <1>1, SubSeqProperties
  <1> QED
    BY <1>2

\* Two characters, a sequence and one more character.
LEMMA TwoCharsAndMore ==
  ASSUME NEW a \in Seq(Char), NEW d \in Seq(Char), NEW c \in Seq(Char),
         Len(a) = 2, Len(c) = 1
  PROVE  /\ a \o d \o c \in Seq(Char) /\ Len(a \o d \o c) = Len(d) + 3
         /\ (a \o d \o c)[1] = a[1] /\ (a \o d \o c)[2] = a[2]
         /\ \A j \in 3..Len(d) + 2 : (a \o d \o c)[j] = d[j - 2]
         /\ (a \o d \o c)[Len(d) + 3] = c[1]
  <1>1. /\ a \o d \in Seq(Char) /\ Len(a \o d) = Len(d) + 2 /\ Len(d) \in Nat
        /\ \A j \in 1..Len(d) + 2 : (a \o d)[j] = IF j <= 2 THEN a[j] ELSE d[j - 2]
    <2>1. /\ a \o d \in Seq(Char) /\ Len(a \o d) = Len(a) + Len(d) /\ Len(d) \in Nat
          /\ \A i \in 1..Len(a \o d) :
              (a \o d)[i] = IF i <= Len(a) THEN a[i] ELSE d[i - Len(a)]
      BY ConcatChars
    <2> QED
      BY <2>1
  <1>2. PICK b \in Seq(Char) : b = a \o d
    BY <1>1
  <1>3. /\ b \o c \in Seq(Char) /\ Len(b \o c) = Len(b) + 1
        /\ \A j \in 1..Len(b) : (b \o c)[j] = b[j]
        /\ (b \o c)[Len(b) + 1] = c[1]
    <2>1. /\ b \o c \in Seq(Char) /\ Len(b \o c) = Len(b) + Len(c) /\ Len(b) \in Nat
          /\ \A i \in 1..Len(b) : (b \o c)[i] = b[i]
          /\ \A i \in 1..Len(c) : (b \o c)[Len(b) + i] = c[i]
      BY ConcatChars
    <2> QED
      BY <2>1
  <1> QED
    BY <1>1, <1>2, <1>3

\* An encoded message is its tag, a colon, its data and a newline, and the
\* only newline in it is the last character.
LEMMA EncodeShape ==
  ASSUME NEW m \in Sendable
  PROVE  /\ Size(m) \in Nat /\ Size(m) >= 3 /\ Size(m) <= MaxLen
         /\ Encode(m) \in Seq(Char) /\ Len(Encode(m)) = Size(m)
         /\ m.tag = <<Encode(m)[1]>> /\ Encode(m)[1] \in 1..MaxSends
         /\ Encode(m)[2] = Colon
         /\ \A j \in 3..Size(m) - 1 : /\ Encode(m)[j] = m.data[j - 2]
                                      /\ m.data[j - 2] \in Printable
         /\ Encode(m)[Size(m)] = Newline
         /\ Len(m.data) <= MaxData
  <1>1. PICK i \in 1..MaxSends : m.tag = <<i>>
    BY DEF Sendable
  <1>2. m.data \in Seq(Printable) /\ Size(m) <= MaxLen
    BY DEF Sendable
  <1>3. i \in Char /\ Colon \in Char /\ Newline \in Char
    BY DEF Char
  <1>4. m.data \in Seq(Char) /\ Len(m.data) \in Nat
    <2>1. Printable \subseteq Char
      BY DEF Printable
    <2> QED
      BY <1>2, <2>1, SeqMonotonic
  <1> DEFINE a == <<i>> \o <<Colon>>
             d == m.data
             c == <<Newline>>
  <1>5. a \in Seq(Char) /\ Len(a) = 2 /\ a[1] = i /\ a[2] = Colon
    <2>1. <<i>> \in Seq(Char) /\ <<Colon>> \in Seq(Char)
      BY <1>3
    <2> QED
      BY <2>1
  <1>6. c \in Seq(Char) /\ Len(c) = 1 /\ c[1] = Newline
    BY <1>3
  <1>7. Encode(m) = a \o d \o c
    BY <1>1 DEF Encode
  <1>8. \A j \in 1..Len(d) : d[j] \in Printable
    BY <1>2
  <1>9. /\ Size(m) = Len(d) + 3 /\ Size(m) <= MaxLen /\ d \in Seq(Char)
        /\ Len(d) <= MaxData
    BY <1>2, <1>4 DEF Size, Sendable
  <1>10. m.tag = <<a[1]>>
    BY <1>1, <1>5
  <1> HIDE DEF a, c
  <1>11. /\ a \o d \o c \in Seq(Char) /\ Len(a \o d \o c) = Len(d) + 3
         /\ (a \o d \o c)[1] = a[1] /\ (a \o d \o c)[2] = a[2]
         /\ \A j \in 3..Len(d) + 2 : (a \o d \o c)[j] = d[j - 2]
         /\ (a \o d \o c)[Len(d) + 3] = c[1]
    BY <1>5, <1>6, <1>9, TwoCharsAndMore
  <1>12. /\ Encode(m) \in Seq(Char) /\ Len(Encode(m)) = Size(m)
         /\ Encode(m)[1] = i /\ Encode(m)[2] = Colon /\ Encode(m)[Size(m)] = Newline
    BY <1>5, <1>6, <1>7, <1>9, <1>11
  <1>13. m.tag = <<Encode(m)[1]>>
    BY <1>5, <1>10, <1>12
  <1>14. ASSUME NEW j \in 3..Size(m) - 1
         PROVE  Encode(m)[j] = d[j - 2] /\ d[j - 2] \in Printable
    <2>1. j - 2 \in 1..Len(d) /\ j \in 3..Len(d) + 2
      BY <1>4, <1>9
    <2> QED
      BY <1>7, <1>8, <1>11, <2>1
  <1> QED
    BY <1>4, <1>9, <1>12, <1>13, <1>14

\* The newline is the last character.
LEMMA OneNewline ==
  ASSUME NEW m \in Sendable, NEW j \in 1..Size(m)
  PROVE  Encode(m)[j] = Newline <=> j = Size(m)
  <1>1. /\ Size(m) \in Nat /\ Size(m) >= 3 /\ Encode(m)[Size(m)] = Newline
        /\ Encode(m)[1] \in 1..MaxSends /\ Encode(m)[2] = Colon
        /\ \A i \in 3..Size(m) - 1 : Encode(m)[i] \in Printable
    BY EncodeShape
  <1>2. Encode(m)[1] # Newline /\ Encode(m)[2] # Newline
    BY <1>1 DEF Colon, Newline
  <1>3. \A i \in 3..Size(m) - 1 : Encode(m)[i] # Newline
    BY <1>1 DEF Printable
  <1>4. j = 1 \/ j = 2 \/ j \in 3..Size(m) - 1 \/ j = Size(m)
    BY <1>1
  <1> QED
    BY <1>1, <1>2, <1>3, <1>4

\* What send accepts of MessagesOf(i).
LEMMA AcceptedIsSendable ==
  ASSUME NEW i \in 1..MaxSends, NEW m \in MessagesOf(i), Fits(m),
         ~Contains(m.data, Newline)
  PROVE  m \in Sendable /\ Size(m) \in Nat
  <1>1. PICK k \in 0..MaxData : m.data \in [1..k -> {i, Colon, Nul, Newline}]
    BY DEF MessagesOf
  <1>2. m.data \in Seq(Printable) /\ Len(m.data) = k
    <2>1. Len(m.data) = k /\ \A j \in 1..k : m.data[j] # Newline
      BY <1>1 DEF Contains
    <2>2. {i, Colon, Nul} \subseteq Printable
      BY DEF Printable, Char, Colon, Newline, Nul
    <2>3. m.data \in [1..k -> Printable]
      BY <1>1, <2>1, <2>2
    <2> QED
      BY <2>1, <2>3
  <1>3. m.tag = <<i>> /\ Len(m.tag) = 1
    BY DEF MessagesOf
  <1>4. m = [tag |-> <<i>>, data |-> m.data]
    BY <1>3 DEF MessagesOf
  <1>5. Len(m.data) <= MaxData
    BY <1>1, <1>2
  <1> QED
    BY <1>2, <1>3, <1>4, <1>5, SizeAssumption DEF Sendable, Size, Fits

-----------------------------------------------------------------------------
(* What receive makes of a line                                            *)

NatLess == {p \in Nat \X Nat : p[1] < p[2]}

\* The first position with a property.
LEMMA FirstOf ==
  ASSUME NEW S \in SUBSET Nat, S # {}
  PROVE  Min(S) \in S /\ \A x \in S : Min(S) <= x
  <1>1. IsWellFoundedOn(NatLess, Nat)
    BY NatLessThanWellFounded DEF OpToRel, NatLess
  <1>2. \E n \in S : \A m \in S : ~ (<<m, n>> \in NatLess)
    BY <1>1, WFMin
  <1>3. PICK n \in S : \A m \in S : ~ (<<m, n>> \in NatLess)
    BY <1>2
  <1>4. ASSUME NEW m \in S PROVE n <= m
    <2>1. m \in Nat /\ n \in Nat
      OBVIOUS
    <2>2. m < n => <<m, n>> \in NatLess
      BY <2>1 DEF NatLess
    <2> QED
      BY <1>3, <2>1, <2>2
  <1>5. \E x \in S : \A y \in S : x <= y
    BY <1>4
  <1> QED
    BY <1>5 DEF Min

\* c is s up to its first NUL.
UpToNul(c, s) ==
    /\ c \in Seq(Char) /\ Len(c) \in Nat /\ Len(c) <= Len(s)
    /\ \A i \in 1..Len(c) : i \in 1..Len(s) /\ c[i] = s[i] /\ c[i] # Nul
    /\ Len(c) < Len(s) => Len(c) + 1 \in 1..Len(s) /\ s[Len(c) + 1] = Nul

\* The std::string that a C string makes.
LEMMA CStringIs ==
  ASSUME NEW s \in Seq(Char)
  PROVE  UpToNul(CString(s), s)
  <1> DEFINE I == {i \in 1..Len(s) : s[i] = Nul}
  <1>0. Len(s) \in Nat /\ I \in SUBSET Nat
    OBVIOUS
  <1>1. CASE I = {}
    <2>1. CString(s) = s
      BY <1>1 DEF CString, SelectInSeq
    <2>2. \A i \in 1..Len(s) : s[i] # Nul
      BY <1>1
    <2> QED
      BY <1>0, <2>1, <2>2 DEF UpToNul
  <1>2. CASE I # {}
    <2>1. PICK e : e = Min(I)
      OBVIOUS
    <2>2. e \in I /\ \A x \in I : e <= x
      BY <1>0, <1>2, <2>1, FirstOf
    <2>3. e \in 1..Len(s) /\ s[e] = Nul /\ e # 0
      BY <2>2
    <2>4. CString(s) = SubSeq(s, 1, e - 1)
      BY <1>2, <2>1, <2>3 DEF CString, SelectInSeq
    <2>5. \A i \in 1..e - 1 : i \in 1..Len(s) /\ s[i] # Nul
      BY <1>0, <2>2, <2>3
    <2>6. PICK c \in Seq(Char) : /\ c = SubSeq(s, 1, e - 1) /\ Len(c) = e - 1
                                 /\ \A i \in 1..e - 1 : c[i] = s[i]
      <3>1. /\ 1 \in 1..Len(s) + 1 /\ e - 1 \in 1 - 1..Len(s)
            /\ (e - 1) - 1 + 1 = e - 1 /\ \A i \in 1..e - 1 : 1 + i - 1 = i
        BY <1>0, <2>3
      <3>2. /\ SubSeq(s, 1, e - 1) \in Seq(Char)
            /\ Len(SubSeq(s, 1, e - 1)) = (e - 1) - 1 + 1
            /\ \A i \in 1..(e - 1) - 1 + 1 : SubSeq(s, 1, e - 1)[i] = s[1 + i - 1]
        BY <3>1, Slice
      <3> QED
        BY <3>1, <3>2
    <2>7. UpToNul(c, s)
      BY <1>0, <2>3, <2>5, <2>6 DEF UpToNul
    <2> QED
      BY <2>4, <2>6, <2>7
  <1> QED
    BY <1>1, <1>2

\* receive will give up on l.
NoMessage(l) ==
    \A i \in 1..Len(l) : l[i] # Colon \/ \E h \in 1..i : l[h] = Nul

\* Some other program's lines are such lines.
LEMMA GarbageLine ==
  ASSUME NEW i \in 1..MaxSends, NEW g \in GarbageOf(i)
  PROVE  g \in Seq(Char) /\ Len(g) \in Nat \ {0} /\ g[Len(g)] = Newline /\ NoMessage(g)
  <1>1. PICK b \in UNION {[1..k -> {i, Colon, Nul}] : k \in 0..MaxData} :
          ~Contains(CString(b), Colon) /\ g = Append(b, Newline)
    BY DEF GarbageOf
  <1>2. PICK k \in 0..MaxData : b \in [1..k -> {i, Colon, Nul}]
    BY <1>1
  <1>3. k \in Nat /\ b \in Seq(Char) /\ Len(b) = k
    <2>1. k \in Nat /\ {i, Colon, Nul} \subseteq Char
      BY SizeAssumption DEF Char
    <2>2. b \in [1..k -> Char]
      BY <1>2, <2>1
    <2> QED
      BY <2>1, <2>2
  <1>4. /\ g \in Seq(Char) /\ Len(g) = k + 1 /\ g[k + 1] = Newline
        /\ \A j \in 1..k : g[j] = b[j]
    <2>1. Newline \in Char
      BY DEF Char
    <2> QED
      BY <1>1, <1>3, <2>1
  <1>5. PICK c : c = CString(b)
    OBVIOUS
  <1>6. UpToNul(c, b) /\ \A j \in 1..Len(c) : c[j] # Colon
    BY <1>1, <1>3, <1>5, CStringIs DEF Contains
  <1>7. ASSUME NEW j \in 1..Len(g) PROVE g[j] # Colon \/ \E h \in 1..j : g[h] = Nul
    <2>1. CASE j = k + 1
      BY <1>4, <2>1 DEF Newline, Colon
    <2>2. CASE j \in 1..Len(c)
      BY <1>3, <1>4, <1>6, <2>2 DEF UpToNul
    <2>3. CASE j # k + 1 /\ j \notin 1..Len(c)
      <3>1. Len(c) \in Nat /\ Len(c) < j /\ j \in 1..k
        BY <1>3, <1>4, <1>6, <2>3 DEF UpToNul
      <3>2. Len(c) + 1 \in 1..k /\ b[Len(c) + 1] = Nul /\ Len(c) + 1 \in 1..j
        BY <1>3, <1>6, <3>1 DEF UpToNul
      <3> QED
        BY <1>4, <3>2
    <2> QED
      BY <2>1, <2>2, <2>3
  <1> QED
    BY <1>3, <1>4, <1>7 DEF NoMessage

\* The line without its newline.
LEMMA LineShape ==
  ASSUME NEW l \in Seq(Char)
  PROVE  LET body == WithoutNewline(l)
         IN  /\ body \in Seq(Char)
             /\ \A i \in 1..Len(body) : i \in 1..Len(l) /\ body[i] = l[i]
             /\ Len(l) >= 1 /\ l[Len(l)] = Newline => Len(body) = Len(l) - 1
             /\ Len(l) >= 1 /\ l[Len(l)] # Newline => Len(body) = Len(l)
             /\ l = << >> => body = << >>
  <1>1. CASE l # << >> /\ Last(l) = Newline
    <2>1. WithoutNewline(l) = SubSeq(l, 1, Len(l) - 1) /\ Len(l) >= 1
      BY <1>1 DEF WithoutNewline, Front
    <2>2. PICK b : b = SubSeq(l, 1, Len(l) - 1)
      OBVIOUS
    <2>3. b \in Seq(Char) /\ Len(b) = Len(l) - 1 /\ \A i \in 1..Len(b) : b[i] = l[i]
      <3>1. /\ Len(l) \in Nat /\ 1 \in 1..Len(l) + 1 /\ Len(l) - 1 \in 1 - 1..Len(l)
            /\ (Len(l) - 1) - 1 + 1 = Len(l) - 1
        BY <2>1
      <3>2. /\ b \in Seq(Char) /\ Len(b) = (Len(l) - 1) - 1 + 1
            /\ \A i \in 1..(Len(l) - 1) - 1 + 1 : b[i] = l[1 + i - 1]
        BY <2>2, <3>1, Slice
      <3> QED
        BY <3>1, <3>2
    <2>4. l[Len(l)] = Newline /\ l # << >>
      BY <1>1 DEF Last
    <2> QED
      BY <2>1, <2>2, <2>3, <2>4
  <1>2. CASE ~(l # << >> /\ Last(l) = Newline)
    BY <1>2 DEF WithoutNewline, Last
  <1> QED
    BY <1>1, <1>2

\* The string in which receive looks for a colon.
LEMMA BodyShape ==
  ASSUME NEW l \in Seq(Char), NEW body, body = CString(WithoutNewline(l))
  PROVE  /\ body \in Seq(Char) /\ Len(body) \in Nat
         /\ \A i \in 1..Len(body) : i \in 1..Len(l) /\ body[i] = l[i] /\ l[i] # Nul
  <1>1. PICK w : w = WithoutNewline(l)
    OBVIOUS
  <1>2. w \in Seq(Char) /\ \A i \in 1..Len(w) : i \in 1..Len(l) /\ w[i] = l[i]
    BY <1>1, LineShape
  <1>3. UpToNul(body, w)
    BY <1>1, <1>2, CStringIs
  <1> QED
    BY <1>2, <1>3 DEF UpToNul

\* receive gives up on a line without a colon, or with a NUL before it.
LEMMA NoColonFails ==
  ASSUME NEW l \in Seq(Char), Finish(l), NoMessage(l)
  PROVE  line' = << >> /\ received' = received /\ r_open' = FALSE
  <1> DEFINE body == CString(WithoutNewline(l))
  <1>1. {i \in 1..Len(body) : body[i] = Colon} = {}
    <2>1. PICK b : b = body
      OBVIOUS
    <2>2. /\ b \in Seq(Char) /\ Len(b) \in Nat
          /\ \A i \in 1..Len(b) : i \in 1..Len(l) /\ b[i] = l[i] /\ l[i] # Nul
      BY <2>1, BodyShape
    <2>3. ASSUME NEW i \in 1..Len(b) PROVE b[i] # Colon
      <3>1. \A h \in 1..i : h \in 1..Len(b)
        BY <2>2
      <3> QED
        BY <2>2, <3>1 DEF NoMessage
    <2> QED
      BY <2>1, <2>3
  <1>2. SelectInSeq(body, LAMBDA ch : ch = Colon) = 0
    BY <1>1 DEF SelectInSeq
  <1> QED
    BY <1>2 DEF Finish, SelectInSeq

\* A line whose second character is its first colon is a message.
LEMMA SecondColonSplits ==
  ASSUME NEW l \in Seq(Char), Finish(l), Len(l) >= 2,
         NEW body \in Seq(Char), body = CString(WithoutNewline(l)),
         Len(body) >= 2, body[1] # Colon, body[2] = Colon
  PROVE  /\ line' = << >> /\ r_open' = r_open
         /\ received' = Append(received, [tag |-> SubSeq(body, 1, 1),
                                          data |-> SubSeq(body, 3, Len(body))])
  <1> DEFINE I == {i \in 1..Len(body) : body[i] = Colon}
  <1>1. 2 \in I /\ \A i \in I : i \in Int /\ 2 <= i
    OBVIOUS
  <1>2. I # {} /\ Min(I) = 2
    <2> HIDE DEF I
    <2> QED
      BY <1>1 DEF Min
  <1> DEFINE split == IF I # {} THEN Min(I) ELSE 0
  <1>3. split = 2 /\ l # << >>
    BY <1>2
  <1>4. ~(l = << >> \/ split = 0) =>
          /\ line' = << >> /\ r_open' = r_open
          /\ received' = Append(received, [tag |-> SubSeq(body, 1, split - 1),
                                           data |-> SubSeq(body, split + 1, Len(body))])
    BY DEF Finish, SelectInSeq
  <1> HIDE DEF split
  <1>5. split - 1 = 1 /\ split + 1 = 3
    BY <1>3
  <1> QED
    BY <1>3, <1>4, <1>5

\* A line that is a message, or the beginning of one with the colon, is read
\* as that message with its data up to a NUL, or with the beginning of that.
LEMMA ReadsItem ==
  ASSUME NEW m \in Sendable, NEW l \in Seq(Char), Finish(l),
         Len(l) >= 2, Len(l) <= Size(m),
         \A j \in 1..Len(l) : l[j] = Encode(m)[j]
  PROVE  /\ line' = << >> /\ r_open' = r_open
         /\ \E d \in Seq(Char) :
              /\ received' = Append(received, [tag |-> m.tag, data |-> d])
              /\ IsPrefix(d, CString(m.data))
              /\ Len(l) >= Size(m) - 1 => d = CString(m.data)
  <1>1. /\ l[1] \in 1..MaxSends /\ l[2] = Colon /\ l[1] # Colon /\ m.tag = <<l[1]>>
        /\ l[1] # Nul /\ l[2] # Nul
        /\ Size(m) \in Nat /\ Len(l) \in Nat /\ Size(m) >= 3
    BY EncodeShape DEF Colon, Nul
  <1>2. l[Len(l)] = Newline <=> Len(l) = Size(m)
    <2>1. Len(l) \in 1..Len(l) /\ Len(l) \in 1..Size(m)
      BY <1>1
    <2> QED
      BY <2>1, OneNewline
  <1>3. PICK w \in Seq(Char), k \in Nat :
          /\ w = WithoutNewline(l) /\ k = Len(w) /\ k >= 2 /\ k <= Size(m) - 1
          /\ \A j \in 1..k : w[j] = Encode(m)[j]
          /\ Len(l) >= Size(m) - 1 => k = Size(m) - 1
    <2> DEFINE w == WithoutNewline(l)
               k == Len(w)
    <2>1. /\ w \in Seq(Char) /\ k \in Nat
          /\ \A j \in 1..k : j \in 1..Len(l) /\ w[j] = l[j]
      BY LineShape
    <2>2. k >= 2 /\ k <= Size(m) - 1 /\ (Len(l) >= Size(m) - 1 => k = Size(m) - 1)
      <3>1. CASE Len(l) = Size(m)
        <4>1. k = Len(l) - 1
          BY <1>1, <1>2, <3>1, LineShape
        <4> HIDE DEF k
        <4> QED
          BY <1>1, <2>1, <3>1, <4>1
      <3>2. CASE Len(l) # Size(m)
        <4>1. k = Len(l)
          BY <1>1, <1>2, <3>2, LineShape
        <4> HIDE DEF k
        <4> QED
          BY <1>1, <2>1, <3>2, <4>1
      <3> QED
        BY <3>1, <3>2
    <2>3. \A j \in 1..k : w[j] = Encode(m)[j]
      BY <2>1
    <2>4. w = WithoutNewline(l)
      OBVIOUS
    <2> HIDE DEF w
    <2> QED
      BY <2>1, <2>2, <2>3, <2>4
  <1>4. PICK body, e : body = CString(w) /\ e = CString(m.data)
    OBVIOUS
  <1>5. /\ m.data \in Seq(Char) /\ Len(m.data) = Size(m) - 3
        /\ UpToNul(body, w) /\ UpToNul(e, m.data)
    <2>1. m.data \in Seq(Printable) /\ Printable \subseteq Char
      BY DEF Sendable, Printable
    <2>2. m.data \in Seq(Char) /\ Len(m.data) \in Nat
      BY <2>1, SeqMonotonic
    <2> QED
      BY <1>1, <1>3, <1>4, <2>2, CStringIs DEF Size
  <1>6. ASSUME NEW j \in 3..k
        PROVE  j - 2 \in 1..Len(m.data) /\ w[j] = m.data[j - 2]
    <2>1. \A i \in 3..Size(m) - 1 : Encode(m)[i] = m.data[i - 2]
      BY EncodeShape
    <2>2. j \in 1..k /\ j \in 3..Size(m) - 1
      BY <1>1, <1>3
    <2>3. j - 2 \in 1..Size(m) - 3
      BY <1>1, <2>2
    <2> QED
      BY <1>3, <1>5, <2>1, <2>2, <2>3
  <1>7. PICK b \in Nat, f \in Nat, z \in Nat :
          b = Len(body) /\ f = Len(e) /\ z = Len(m.data) /\ b <= k /\ f <= z /\ k <= z + 2
    BY <1>1, <1>3, <1>5 DEF UpToNul
  <1>8. w[1] # Nul /\ w[2] # Nul /\ w[1] = l[1] /\ w[2] = l[2]
    <2>1. 1 \in 1..k /\ 2 \in 1..k /\ 1 \in 1..Len(l) /\ 2 \in 1..Len(l)
      BY <1>1, <1>3
    <2> QED
      BY <1>1, <1>3, <2>1
  <1>9. b >= 2
    <2>1. b < k => b + 1 \in 1..k /\ w[b + 1] = Nul
      BY <1>3, <1>5, <1>7 DEF UpToNul
    <2>2. b = 0 => w[1] = Nul
      BY <1>3, <1>7, <2>1
    <2>3. b = 1 => w[2] = Nul
      BY <1>3, <1>7, <2>1
    <2> QED
      BY <1>7, <1>8, <2>2, <2>3
  <1>10. ~(b < k /\ b < f + 2)
    <2> SUFFICES ASSUME b < k, b < f + 2 PROVE FALSE
      OBVIOUS
    <2>1. b + 1 \in 3..k /\ w[b + 1] = Nul
      BY <1>3, <1>5, <1>7, <1>9 DEF UpToNul
    <2>2. PICK i \in Nat : i = b - 1
      BY <1>9
    <2>3. i \in 1..f /\ (b + 1) - 2 = i
      BY <1>7, <1>9, <2>2
    <2>4. w[b + 1] = m.data[i]
      BY <1>6, <2>1, <2>3
    <2>5. m.data[i] # Nul
      BY <1>5, <1>7, <2>3 DEF UpToNul
    <2> QED
      BY <2>1, <2>4, <2>5
  <1>11. b <= f + 2
    <2> SUFFICES ASSUME f + 2 < b PROVE FALSE
      BY <1>7
    <2>1. f < z /\ f + 3 \in 3..k /\ (f + 3) - 2 = f + 1 /\ f + 3 \in 1..b
      BY <1>7
    <2>2. m.data[f + 1] = Nul
      BY <1>5, <1>7, <2>1 DEF UpToNul
    <2>3. w[f + 3] = m.data[f + 1]
      BY <1>6, <2>1
    <2>4. w[f + 3] # Nul
      BY <1>5, <1>7, <2>1 DEF UpToNul
    <2> QED
      BY <2>2, <2>3, <2>4
  <1>12. /\ body \in Seq(Char) /\ Len(body) >= 2 /\ body[1] = l[1] /\ body[2] = Colon
         /\ \A j \in 3..b : body[j] = m.data[j - 2]
    <2>1. 1 \in 1..b /\ 2 \in 1..b /\ \A j \in 3..b : j \in 1..b /\ j \in 3..k
      BY <1>7, <1>9
    <2>2. body \in Seq(Char) /\ \A j \in 1..b : body[j] = w[j]
      BY <1>5, <1>7 DEF UpToNul
    <2> QED
      BY <1>1, <1>6, <1>7, <1>8, <1>9, <2>1, <2>2
  <1>13. PICK t, d : t = SubSeq(body, 1, 1) /\ d = SubSeq(body, 3, b)
    OBVIOUS
  <1>14. /\ line' = << >> /\ r_open' = r_open
         /\ received' = Append(received, [tag |-> t, data |-> d])
    BY <1>1, <1>3, <1>4, <1>7, <1>12, <1>13, SecondColonSplits
  <1>15. t = m.tag
    <2>1. body[1] = l[1] /\ l[1] \in Char /\ 1 \in 1..b + 1 /\ 1 \in 1 - 1..b
      BY <1>1, <1>9, <1>12 DEF Char
    <2>2. t \in Seq(Char) /\ Len(t) = 1 /\ t[1] = body[1]
      BY <1>7, <1>12, <1>13, <2>1, Slice
    <2>3. t = <<l[1]>>
      BY <2>1, <2>2
    <2> QED
      BY <1>1, <2>3
  <1>16. d \in Seq(Char) /\ Len(d) = b - 2 /\ \A j \in 1..b - 2 : d[j] = m.data[j]
    <2>1. 3 \in 1..b + 1 /\ b \in 3 - 1..b /\ b - 3 + 1 = b - 2
      BY <1>9
    <2>2. /\ d \in Seq(Char) /\ Len(d) = b - 3 + 1
          /\ \A j \in 1..b - 3 + 1 : d[j] = body[3 + j - 1]
      BY <1>7, <1>12, <1>13, <2>1, Slice
    <2>3. \A j \in 1..b - 2 : 3 + j - 1 = j + 2 /\ j + 2 \in 3..b /\ (j + 2) - 2 = j
      BY <1>9
    <2>4. ASSUME NEW j \in 1..b - 2 PROVE d[j] = m.data[j]
      <3>1. d[j] = body[j + 2]
        BY <2>1, <2>2, <2>3
      <3>2. body[j + 2] = m.data[(j + 2) - 2]
        BY <1>12, <2>3
      <3> QED
        BY <2>3, <3>1, <3>2
    <2> QED
      BY <2>1, <2>2, <2>4
  <1>17. /\ e \in Seq(Char) /\ Len(d) \in Nat /\ Len(d) <= Len(e)
         /\ \A j \in 1..Len(d) : d[j] = e[j]
    <2>1. e \in Seq(Char) /\ \A j \in 1..f : e[j] = m.data[j]
      BY <1>5, <1>7 DEF UpToNul
    <2>2. b - 2 \in Nat /\ b - 2 <= f /\ \A j \in 1..b - 2 : j \in 1..f
      BY <1>7, <1>9, <1>11
    <2> QED
      BY <1>7, <1>16, <2>1, <2>2
  <1>18. IsPrefix(d, e)
    <2>1. d \in Seq(Char) /\ e \in Seq(Char) /\ Len(d) \in Nat /\ Len(d) <= Len(e)
      BY <1>16, <1>17
    <2>2. /\ SubSeq(d, 1, Len(d)) \in Seq(Char) /\ Len(SubSeq(d, 1, Len(d))) = Len(d)
          /\ \A j \in 1..Len(d) : SubSeq(d, 1, Len(d))[j] = d[j]
      BY <1>16
    <2>3. PICK c \in Nat : c = Len(d) /\ c <= Len(e)
      BY <2>1
    <2>4. /\ SubSeq(e, 1, c) \in Seq(Char) /\ Len(SubSeq(e, 1, c)) = c
          /\ \A j \in 1..c : SubSeq(e, 1, c)[j] = e[j]
      <3>1. /\ 1 \in 1..Len(e) + 1 /\ c \in 1 - 1..Len(e) /\ c - 1 + 1 = c
            /\ \A j \in 1..c : 1 + j - 1 = j
        BY <2>1, <2>3
      <3>2. /\ SubSeq(e, 1, c) \in Seq(Char) /\ Len(SubSeq(e, 1, c)) = c - 1 + 1
            /\ \A j \in 1..c - 1 + 1 : SubSeq(e, 1, c)[j] = e[1 + j - 1]
        BY <2>1, <3>1, Slice
      <3> QED
        BY <3>1, <3>2
    <2>5. SubSeq(d, 1, Len(d)) = SubSeq(e, 1, Len(d))
      BY <1>17, <2>2, <2>3, <2>4, SeqEqual
    <2> QED
      BY <2>1, <2>5 DEF IsPrefix
  <1>19. ASSUME Len(l) >= Size(m) - 1 PROVE d = e
    <2>1. k = z + 2
      BY <1>1, <1>3, <1>5, <1>7, <1>19
    <2>2. b = f + 2
      BY <1>7, <1>10, <1>11, <2>1
    <2>3. Len(d) = Len(e)
      BY <1>7, <1>16, <2>2
    <2> QED
      BY <1>16, <1>17, <2>3, SeqEqual
  <1> QED
    BY <1>4, <1>14, <1>15, <1>16, <1>18, <1>19

-----------------------------------------------------------------------------
(* Messages laid out in a sequence of characters                           *)

\* What Laid says of the k-th message.
IsItem(P, r, ms, n, at, k) ==
    /\ k - 1 \in 0..n /\ k \in 0..n /\ at[k - 1] \in Nat /\ at[k] \in Nat
    /\ r + k \in 1..Len(ms) /\ ms[r + k] \in Sendable
    /\ Size(ms[r + k]) \in Nat /\ Size(ms[r + k]) >= 3
    /\ at[k] = at[k - 1] + Size(ms[r + k]) /\ at[k] <= at[n]
    /\ HasItem(P, at[k - 1], ms[r + k])

\* Each of the n messages has its place.
LEMMA LaidFacts ==
  ASSUME NEW P \in Seq(Char), NEW r \in Nat, NEW ms \in Seq(Sendable),
         NEW n \in Nat, NEW at \in [0..n -> Nat], Laid(P, r, ms, n, at),
         NEW k \in 1..n
  PROVE  IsItem(P, r, ms, n, at, k)
  <1>1. /\ k - 1 \in 0..n /\ k \in 0..n /\ n \in 0..n /\ k <= n
        /\ at[k - 1] \in Nat /\ at[k] \in Nat
    OBVIOUS
  <1>2. /\ r + n <= Len(ms) /\ at[k] = at[k - 1] + Size(ms[r + k])
        /\ HasItem(P, at[k - 1], ms[r + k]) /\ at[k] <= at[n]
    BY <1>1 DEF Laid
  <1>3. r + k \in 1..Len(ms)
    BY <1>1, <1>2
  <1>4. ms[r + k] \in Sendable
    BY <1>3
  <1> QED
    BY <1>1, <1>2, <1>3, <1>4, EncodeShape DEF IsItem

\* A beginning of the characters still has what it has room for.
LEMMA LaidPrefix ==
  ASSUME NEW P \in Seq(Char), NEW Q \in Seq(Char), NEW r \in Nat,
         NEW ms \in Seq(Sendable), NEW n \in Nat, NEW at \in [0..n -> Nat],
         Laid(P, r, ms, n, at),
         Len(Q) <= Len(P), \A i \in 1..Len(Q) : Q[i] = P[i]
  PROVE  Laid(Q, r, ms, n, at)
  <1>1. ASSUME NEW k \in 1..n
        PROVE  at[k] = at[k - 1] + Size(ms[r + k]) /\ HasItem(Q, at[k - 1], ms[r + k])
    <2>0. IsItem(P, r, ms, n, at, k)
      BY LaidFacts
    <2>1. at[k - 1] \in Nat /\ HasItem(P, at[k - 1], ms[r + k])
      BY <2>0 DEF IsItem
    <2>2. ASSUME NEW j \in 1..Size(ms[r + k]), at[k - 1] + j <= Len(Q)
          PROVE  Q[at[k - 1] + j] = Encode(ms[r + k])[j]
      <3>1. Size(ms[r + k]) \in Nat
        BY <2>0 DEF IsItem
      <3>2. at[k - 1] + j \in 1..Len(Q) /\ at[k - 1] + j <= Len(P)
        <4>1. j \in Nat /\ 1 <= j
          BY <3>1
        <4>2. PICK f \in Nat, p \in Nat, q \in Nat :
                f = at[k - 1] /\ p = Len(P) /\ q = Len(Q)
          BY <2>1
        <4>3. f + j <= q /\ q <= p
          BY <2>2, <4>2
        <4>4. f + j \in 1..q /\ f + j <= p
          BY <4>1, <4>3
        <4> QED
          BY <4>2, <4>4
      <3> QED
        BY <2>1, <3>2 DEF HasItem
    <2> QED
      BY <2>0, <2>2 DEF HasItem, IsItem
  <1> QED
    BY <1>1 DEF Laid

\* More characters and more messages after the n disturb nothing.
LEMMA LaidLonger ==
  ASSUME NEW P \in Seq(Char), NEW Q \in Seq(Char), NEW r \in Nat,
         NEW ms \in Seq(Sendable), NEW more \in Seq(Sendable),
         NEW n \in Nat, NEW at \in [0..n -> Nat],
         Laid(P, r, ms, n, at), at[n] <= Len(P),
         Len(P) <= Len(Q), \A i \in 1..Len(P) : Q[i] = P[i],
         Len(ms) <= Len(more), \A i \in 1..Len(ms) : more[i] = ms[i]
  PROVE  Laid(Q, r, more, n, at)
  <1>1. ASSUME NEW k \in 1..n
        PROVE  at[k] = at[k - 1] + Size(more[r + k]) /\ HasItem(Q, at[k - 1], more[r + k])
    <2>1. /\ at[k - 1] \in Nat /\ HasItem(P, at[k - 1], ms[r + k]) /\ at[k] \in Nat
          /\ Size(ms[r + k]) \in Nat /\ at[k] = at[k - 1] + Size(ms[r + k])
          /\ at[k] <= at[n] /\ r + k \in 1..Len(ms)
      <3>1. IsItem(P, r, ms, n, at, k)
        BY LaidFacts
      <3> QED
        BY <3>1 DEF IsItem
    <2>2. ASSUME NEW j \in 1..Size(ms[r + k]), at[k - 1] + j <= Len(Q)
          PROVE  Q[at[k - 1] + j] = Encode(ms[r + k])[j]
      <3>1. at[n] \in Nat
        OBVIOUS
      <3>2. at[k - 1] + j \in 1..Len(P)
        <4>1. PICK f \in Nat, z \in Nat, p \in Nat :
                f = at[k - 1] /\ z = Size(ms[r + k]) /\ p = Len(P)
          BY <2>1
        <4>2. j \in 1..z /\ f + z <= p
          <5>1. PICK e \in Nat : e = at[n]
            BY <3>1
          <5>2. f + z <= e /\ e <= p
            BY <2>1, <4>1, <5>1
          <5>3. f + z <= p
            BY <5>2
          <5>4. j \in 1..z
            BY <4>1
          <5> QED
            BY <5>3, <5>4
        <4>3. f + j \in 1..p
          BY <4>2
        <4> QED
          BY <4>1, <4>3
      <3>3. P[at[k - 1] + j] = Encode(ms[r + k])[j]
        BY <2>1, <3>2 DEF HasItem
      <3>4. Q[at[k - 1] + j] = P[at[k - 1] + j]
        BY <3>2
      <3> QED
        BY <3>3, <3>4
    <2>3. more[r + k] = ms[r + k]
      BY <2>1
    <2> QED
      BY <2>1, <2>2, <2>3 DEF HasItem
  <1>2. r + n <= Len(more)
    BY DEF Laid
  <1> QED
    BY <1>1, <1>2 DEF Laid

\* Q is P and then m.
Followed(P, m, Q) ==
    /\ Q \in Seq(Char) /\ Len(Q) = Len(P) + Size(m)
    /\ \A i \in 1..Len(P) : Q[i] = P[i]
    /\ \A j \in 1..Size(m) : Q[Len(P) + j] = Encode(m)[j]

\* The next message after the n.
LEMMA LaidAppend ==
  ASSUME NEW P \in Seq(Char), NEW r \in Nat, NEW ms \in Seq(Sendable),
         NEW n \in Nat, NEW at \in [0..n -> Nat], NEW l \in Nat,
         NEW m \in Sendable, NEW Q, NEW next \in [0..l -> Nat],
         Laid(P, r, ms, n, at), at[n] = Len(P), l = n + 1,
         r + l <= Len(ms), ms[r + l] = m, Followed(P, m, Q),
         \A k \in 0..n : next[k] = at[k], next[l] = Len(Q)
  PROVE  Laid(Q, r, ms, l, next)
  <1>0. /\ Q \in Seq(Char) /\ Len(Q) = Len(P) + Size(m)
        /\ \A i \in 1..Len(P) : Q[i] = P[i]
        /\ \A j \in 1..Size(m) : Q[Len(P) + j] = Encode(m)[j]
    BY DEF Followed
  <1>1. Size(m) \in Nat /\ Size(m) >= 3 /\ Len(P) \in Nat /\ Len(Q) = Len(P) + Size(m)
    BY <1>0, EncodeShape
  <1>3. /\ next[l] = Len(Q)
        /\ \A k \in 0..n : next[k] = at[k] /\ at[k] \in Nat
    OBVIOUS
  <1>4. Laid(Q, r, ms, n, at)
    <2>1. Len(P) <= Len(Q) /\ at[n] <= Len(P) /\ Len(ms) <= Len(ms)
      BY <1>1
    <2> QED
      BY <1>0, <2>1, LaidLonger
  <1>5. ASSUME NEW k \in 1..l
        PROVE  /\ next[k] = next[k - 1] + Size(ms[r + k])
               /\ HasItem(Q, next[k - 1], ms[r + k])
    <2>1. CASE k \in 1..n
      <3>1. /\ at[k] = at[k - 1] + Size(ms[r + k]) /\ HasItem(Q, at[k - 1], ms[r + k])
            /\ k \in 0..n /\ k - 1 \in 0..n
        <4>1. IsItem(Q, r, ms, n, at, k)
          BY <1>0, <1>4, <2>1, LaidFacts
        <4> QED
          BY <4>1 DEF IsItem
      <3> QED
        BY <1>3, <3>1
    <2>2. CASE k = l
      <3>1. n \in 0..n /\ k - 1 = n /\ ms[r + k] = m
        BY <2>2
      <3>2. next[k] = Len(P) + Size(m) /\ next[k - 1] = Len(P)
        BY <1>1, <1>3, <2>2, <3>1
      <3>3. HasItem(Q, Len(P), m)
        BY <1>0 DEF HasItem
      <3> QED
        BY <3>1, <3>2, <3>3
    <2> QED
      BY <2>1, <2>2
  <1>6. ASSUME NEW j \in 0..l, NEW k \in 0..l, j <= k PROVE next[j] <= next[k]
    <2>1. \A i \in 0..n : at[i] <= at[n] /\ at[i] \in Nat
      BY DEF Laid
    <2>2. \A i \in 0..n : at[i] <= Len(Q)
      BY <1>1, <2>1
    <2>3. CASE k \in 0..n
      <3>0. j \in 0..n
        BY <1>6, <2>3
      <3>1. j \in 0..n /\ at[j] <= at[k]
        BY <1>6, <2>3, <3>0 DEF Laid
      <3> QED
        BY <1>3, <2>3, <3>1
    <2>4. CASE k = l
      <3>1. j \in 0..n \/ j = l
        OBVIOUS
      <3>2. next[k] = Len(Q) /\ Len(Q) \in Nat
        BY <1>0, <1>3, <2>4
      <3> QED
        BY <1>3, <2>2, <3>1, <3>2
    <2> QED
      BY <2>3, <2>4
  <1>7. next[0] = 0 /\ r + l <= Len(ms)
    <2>1. at[0] = 0 /\ 0 \in 0..n
      BY DEF Laid
    <2> QED
      BY <1>3, <2>1
  <1> QED
    BY <1>5, <1>6, <1>7 DEF Laid

\* What is left when the first message is taken away.
LEMMA LaidDrop ==
  ASSUME NEW P \in Seq(Char), NEW Q \in Seq(Char), NEW r \in Nat,
         NEW ms \in Seq(Sendable), NEW n \in Nat \ {0}, NEW at \in [0..n -> Nat],
         NEW l \in Nat, NEW rest \in [0..l -> Nat],
         Laid(P, r, ms, n, at), n = l + 1,
         Len(P) = at[1] + Len(Q), \A i \in 1..Len(Q) : Q[i] = P[at[1] + i],
         \A k \in 0..l : rest[k] = at[k + 1] - at[1]
  PROVE  Laid(Q, r + 1, ms, l, rest)
  <1>0. l = n - 1
    OBVIOUS
  <1>1. \A k \in 0..n - 1 : /\ k + 1 \in 0..n /\ k + 1 \in 1..n
                            /\ at[k + 1] \in Nat /\ at[1] \in Nat /\ at[1] <= at[k + 1]
                            /\ rest[k] = at[k + 1] - at[1]
    <2> SUFFICES ASSUME NEW k \in 0..n - 1
                 PROVE  /\ k + 1 \in 0..n /\ k + 1 \in 1..n
                        /\ at[k + 1] \in Nat /\ at[1] \in Nat /\ at[1] <= at[k + 1]
      BY <1>0
    <2>1. 1 \in 0..n /\ k + 1 \in 0..n /\ k + 1 \in 1..n /\ 1 <= k + 1
      OBVIOUS
    <2> QED
      BY <2>1 DEF Laid
  <1>3. ASSUME NEW k \in 1..n - 1
        PROVE  /\ rest[k] = rest[k - 1] + Size(ms[(r + 1) + k])
               /\ HasItem(Q, rest[k - 1], ms[(r + 1) + k])
    <2>1. k + 1 \in 1..n /\ r + (k + 1) = (r + 1) + k /\ (k + 1) - 1 = k
      OBVIOUS
    <2>2. PICK i \in 1..n : i = k + 1
      BY <2>1
    <2>3. /\ at[i] = at[i - 1] + Size(ms[r + i]) /\ HasItem(P, at[i - 1], ms[r + i])
          /\ at[i - 1] \in Nat /\ at[i] \in Nat /\ Size(ms[r + i]) \in Nat
      <3>1. IsItem(P, r, ms, n, at, i)
        BY LaidFacts
      <3> QED
        BY <3>1 DEF IsItem
    <2>4. i - 1 = k /\ r + i = (r + 1) + k
      BY <2>1, <2>2
    <2>5. /\ at[k + 1] = at[k] + Size(ms[(r + 1) + k]) /\ at[k] \in Nat
          /\ Size(ms[(r + 1) + k]) \in Nat /\ HasItem(P, at[k], ms[(r + 1) + k])
      BY <2>2, <2>3, <2>4
    <2>6. /\ rest[k] = at[k + 1] - at[1] /\ rest[k - 1] = at[k] - at[1]
          /\ at[1] \in Nat /\ at[1] <= at[k]
      <3>1. k \in 0..n - 1 /\ k - 1 \in 0..n - 1 /\ (k - 1) + 1 = k
        OBVIOUS
      <3>2. PICK h \in 0..n - 1 : h = k - 1
        BY <3>1
      <3>3. rest[h] = at[h + 1] - at[1] /\ at[1] \in Nat /\ at[1] <= at[h + 1]
        BY <1>1
      <3> QED
        BY <1>1, <3>1, <3>2, <3>3
    <2>7. ASSUME NEW j \in 1..Size(ms[(r + 1) + k]), rest[k - 1] + j <= Len(Q)
          PROVE  Q[rest[k - 1] + j] = Encode(ms[(r + 1) + k])[j]
      <3>a. PICK x \in Nat : x = at[k]
        BY <2>5
      <3>b. PICK y \in Nat : y = at[1]
        BY <2>6
      <3>c. rest[k - 1] = x - y /\ y <= x
        BY <2>6, <3>a, <3>b
      <3>d. x - y \in Nat
        <4>1. \A u, v \in Nat : v <= u => u - v \in Nat
          OBVIOUS
        <4> QED
          BY <3>c, <4>1
      <3>1. PICK h \in Nat : h = rest[k - 1]
        BY <3>c, <3>d
      <3>2. h + j \in 1..Len(Q) /\ at[k] + j <= Len(P) /\ at[1] + (h + j) = at[k] + j
        <4>1. h = x - y /\ h + j <= Len(Q) /\ Len(P) = y + Len(Q) /\ Len(Q) \in Nat
          BY <2>7, <3>b, <3>c, <3>1
        <4>2. j \in Nat /\ 1 <= j
          <5>1. \A u \in Nat : \A v \in 1..u : v \in Nat /\ 1 <= v
            OBVIOUS
          <5> QED
            BY <2>5, <5>1
        <4>3. h + j \in 1..Len(Q) /\ x + j <= Len(P) /\ y + (h + j) = x + j
          <5>1. \A a, b, c, d, q \in Nat :
                  a = b - c /\ a + d <= q /\ 1 <= d =>
                    /\ a + d \in 1..q /\ b + d <= c + q /\ c + (a + d) = b + d
            OBVIOUS
          <5>2. h = x - y /\ h + j <= Len(Q) /\ 1 <= j =>
                  h + j \in 1..Len(Q) /\ x + j <= y + Len(Q) /\ y + (h + j) = x + j
            BY <4>1, <4>2, <5>1
          <5>3. 1 <= j
            BY <4>2
          <5> QED
            BY <4>1, <5>2, <5>3
        <4> QED
          BY <3>a, <3>b, <4>3
      <3>3. Q[h + j] = P[at[k] + j]
        BY <3>2
      <3> QED
        BY <2>5, <3>1, <3>2, <3>3 DEF HasItem
    <2>8. HasItem(Q, rest[k - 1], ms[(r + 1) + k])
      BY <2>7 DEF HasItem
    <2>9. \A x, y, z \in Int : (x + y) - z = (x - z) + y
      OBVIOUS
    <2>10. rest[k] = rest[k - 1] + Size(ms[(r + 1) + k])
      <3>1. PICK s \in Nat : s = Size(ms[(r + 1) + k])
        BY <2>5
      <3>2. at[k] \in Int /\ at[1] \in Int /\ s \in Int
        BY <2>5, <2>6
      <3>3. rest[k] = (at[k] + s) - at[1] /\ rest[k - 1] = at[k] - at[1]
        BY <2>5, <2>6, <3>1
      <3>4. (at[k] + s) - at[1] = (at[k] - at[1]) + s
        BY <2>9, <3>2, ZenonT(30)
      <3> QED
        BY <3>1, <3>3, <3>4
    <2> QED
      BY <2>8, <2>10
  <1>4. ASSUME NEW j \in 0..n - 1, NEW k \in 0..n - 1, j <= k PROVE rest[j] <= rest[k]
    <2>1. /\ rest[j] = at[j + 1] - at[1] /\ rest[k] = at[k + 1] - at[1]
          /\ at[j + 1] \in Nat /\ at[k + 1] \in Nat /\ at[1] \in Nat
          /\ j + 1 \in 0..n /\ k + 1 \in 0..n /\ j + 1 <= k + 1
      BY <1>1, <1>4
    <2>2. at[j + 1] <= at[k + 1]
      BY <2>1 DEF Laid
    <2> QED
      BY <2>1, <2>2
  <1>5. rest[0] = 0 /\ (r + 1) + (n - 1) <= Len(ms)
    <2>1. 0 \in 0..n - 1 /\ at[1] \in Nat /\ rest[0] = at[0 + 1] - at[1]
      BY <1>1
    <2>2. r + n <= Len(ms)
      BY DEF Laid
    <2> QED
      BY <2>1, <2>2
  <1>6. Laid(Q, r + 1, ms, n - 1, rest)
    BY <1>0, <1>3, <1>4, <1>5 DEF Laid
  <1> QED
    BY <1>0, <1>6
-----------------------------------------------------------------------------
(* What the steps do to the stream                                         *)

\* The last of the n messages ends at at[n].
LEMMA LaidEnds ==
  ASSUME NEW P \in Seq(Char), NEW r \in Nat, NEW ms \in Seq(Sendable),
         NEW n \in Nat, NEW at \in [0..n -> Nat], Laid(P, r, ms, n, at)
  PROVE  /\ at[n] \in Nat /\ n \in 0..n /\ 0 \in 0..n /\ at[0] = 0
         /\ n > 0 => n - 1 \in 0..n /\ at[n - 1] \in Nat
         /\ r + n <= Len(ms) /\ Len(P) \in Nat /\ Len(ms) \in Nat
         /\ \A k \in 0..n : at[k] <= at[n]
  BY DEF Laid

\* Q has after b what P has after a, as far as it goes, and to its end if the
\* sender is still there.
Moved(P, a, open, Q, b, later) ==
    \A j \in Nat \ {0} :
        /\ b + j <= Len(Q) /\ (open => a + j <= Len(P)) =>
              a + j <= Len(P) /\ Q[b + j] = P[a + j]
        /\ later => open /\ (a + j <= Len(P) => b + j <= Len(Q))

\* The line moves with the characters; Q may have more of them, or, without the
\* sender, fewer.
LEMMA GivenUpMoves ==
  ASSUME NEW P \in Seq(Char), NEW Q \in Seq(Char), NEW a \in Nat, NEW b \in Nat,
         NEW open, NEW later, GivenUp(P, a, open), Moved(P, a, open, Q, b, later)
  PROVE  GivenUp(Q, b, later)
  <1>1. PICK z \in Nat \ {0} :
          /\ open => a + z <= Len(P)
          /\ a + z <= Len(P) => P[a + z] = Newline
          /\ \A j \in 1..z : a + j <= Len(P) =>
                P[a + j] # Colon \/ \E h \in 1..j : P[a + h] = Nul
    BY DEF GivenUp
  <1>2. PICK p \in Nat, q \in Nat : p = Len(P) /\ q = Len(Q)
    OBVIOUS
  <1>3. ASSUME NEW j \in 1..z, b + j <= q
        PROVE  a + j <= p /\ Q[b + j] = P[a + j]
    <2>1. j \in Nat \ {0} /\ (open => a + j <= p)
      BY <1>1, <1>2
    <2> QED
      BY <1>2, <1>3, <2>1 DEF Moved
  <1>4. later => b + z <= q
    BY <1>1, <1>2 DEF Moved
  <1>5. b + z <= q => Q[b + z] = Newline
    <2>1. z \in 1..z
      OBVIOUS
    <2> QED
      BY <1>1, <1>2, <1>3, <2>1
  <1>6. ASSUME NEW j \in 1..z, b + j <= q
        PROVE  Q[b + j] # Colon \/ \E h \in 1..j : Q[b + h] = Nul
    <2>1. \A h \in 1..j : h \in 1..z /\ b + h <= q
      BY <1>6
    <2>2. a + j <= p /\ Q[b + j] = P[a + j]
      BY <1>3, <1>6
    <2>3. \A h \in 1..j : Q[b + h] = P[a + h]
      BY <1>3, <2>1
    <2> QED
      BY <1>1, <1>2, <2>2, <2>3
  <1> QED
    BY <1>2, <1>4, <1>5, <1>6 DEF GivenUp

\* rio_writen only moves characters.
LEMMA StreamWritten ==
  ASSUME NEW P \in Seq(Char), NEW o \in Nat, NEW r \in Nat, NEW ms \in Seq(Sendable),
         NEW open \in BOOLEAN, NEW attempts \in Nat,
         Stream(P, o, r, ms, open, attempts), NEW q \in Nat, q <= o
  PROVE  Stream(P, q, r, ms, open, attempts)
  <1>1. PICK n \in Nat : \E at \in [0..n -> Nat] :
          /\ Laid(P, r, ms, n, at)
          /\ \/ Whole(P, o, r, ms, open, n, at)
             \/ Spoilt(P, o, r, ms, open, attempts, n, at)
    BY DEF Stream, After
  <1>2. PICK at \in [0..n -> Nat] :
          /\ Laid(P, r, ms, n, at)
          /\ \/ Whole(P, o, r, ms, open, n, at)
             \/ Spoilt(P, o, r, ms, open, attempts, n, at)
    BY <1>1
  <1>3. CASE Whole(P, o, r, ms, open, n, at)
    <2>1. n > 0 => at[n - 1] <= Len(P) - q
      BY <1>2, <1>3, LaidEnds DEF Whole
    <2>2. Whole(P, q, r, ms, open, n, at)
      BY <1>3, <2>1 DEF Whole
    <2> QED
      BY <1>2, <2>2 DEF Stream, After
  <1>4. CASE Spoilt(P, o, r, ms, open, attempts, n, at)
    <2>1. at[n] <= Len(P) - q /\ (at[n] = Len(P) - q => r + n = Len(ms))
      BY <1>2, <1>4, LaidEnds DEF Spoilt
    <2>2. Spoilt(P, q, r, ms, open, attempts, n, at)
      BY <1>4, <2>1 DEF Spoilt
    <2> QED
      BY <1>2, <2>2 DEF Stream, After
  <1> QED
    BY <1>2, <1>3, <1>4

\* send accepts a message.
LEMMA StreamSent ==
  ASSUME NEW P \in Seq(Char), NEW r \in Nat, NEW ms \in Seq(Sendable),
         NEW attempts \in Nat, Stream(P, 0, r, ms, TRUE, attempts),
         NEW m \in Sendable
  PROVE  Stream(P \o Encode(m), Size(m), r, Append(ms, m), TRUE, attempts + 1)
  <1>a. PICK Q : Q = P \o Encode(m)
    OBVIOUS
  <1>b. PICK more : more = Append(ms, m)
    OBVIOUS
  <1>1. PICK n \in Nat : \E at \in [0..n -> Nat] :
          /\ Laid(P, r, ms, n, at)
          /\ \/ Whole(P, 0, r, ms, TRUE, n, at)
             \/ Spoilt(P, 0, r, ms, TRUE, attempts, n, at)
    BY DEF Stream, After
  <1>2. PICK at \in [0..n -> Nat] :
          /\ Laid(P, r, ms, n, at)
          /\ \/ Whole(P, 0, r, ms, TRUE, n, at)
             \/ Spoilt(P, 0, r, ms, TRUE, attempts, n, at)
    BY <1>1
  <1>3. /\ Q \in Seq(Char) /\ Len(Q) = Len(P) + Size(m) /\ Len(P) \in Nat
        /\ Size(m) \in Nat /\ Size(m) >= 3
        /\ \A i \in 1..Len(P) : Q[i] = P[i]
        /\ \A j \in 1..Size(m) : Q[Len(P) + j] = Encode(m)[j]
    <2>1. /\ Encode(m) \in Seq(Char) /\ Len(Encode(m)) = Size(m)
          /\ Size(m) \in Nat /\ Size(m) >= 3
      BY EncodeShape
    <2>2. PICK e \in Seq(Char) : e = Encode(m)
      BY <2>1
    <2>3. /\ P \o e \in Seq(Char) /\ Len(P \o e) = Len(P) + Len(e)
          /\ Len(P) \in Nat
          /\ \A i \in 1..Len(P) : (P \o e)[i] = P[i]
          /\ \A i \in 1..Len(e) : (P \o e)[Len(P) + i] = e[i]
      BY ConcatChars
    <2> QED
      BY <1>a, <2>1, <2>2, <2>3
  <1>4. /\ more \in Seq(Sendable) /\ Len(more) = Len(ms) + 1 /\ Len(ms) \in Nat
        /\ \A i \in 1..Len(ms) : more[i] = ms[i]
        /\ more[Len(ms) + 1] = m
    BY <1>b
  <1>5. at[n] <= Len(P)
    <2>1. at[n] \in Nat
      OBVIOUS
    <2>2. at[n] = Len(P) \/ at[n] < Len(P)
      BY <1>2 DEF Whole, Spoilt
    <2> QED
      BY <1>3, <2>1, <2>2
  <1>6. Laid(P, r, more, n, at)
    <2>1. Len(P) <= Len(P) /\ Len(ms) <= Len(more)
      BY <1>3, <1>4
    <2> QED
      BY <1>2, <1>4, <1>5, <2>1, LaidLonger
  <1>7. CASE Whole(P, 0, r, ms, TRUE, n, at)
    <2>0. PICK l \in Nat : l = n + 1
      OBVIOUS
    <2>1. at[n] = Len(P) /\ r + n = Len(ms) /\ r + l = Len(more)
      BY <1>4, <1>7, <2>0 DEF Whole
    <2>2. more[r + l] = m /\ r + l <= Len(more)
      BY <1>4, <2>1
    <2>3. PICK next \in [0..l -> Nat] :
            (\A k \in 0..n : next[k] = at[k]) /\ next[l] = Len(Q)
      <3> DEFINE next == [k \in 0..l |-> IF k <= n THEN at[k] ELSE Len(Q)]
      <3>1. Len(Q) \in Nat
        BY <1>3
      <3>2. next \in [0..l -> Nat]
        BY <2>0, <3>1
      <3>3. (\A k \in 0..n : next[k] = at[k]) /\ next[l] = Len(Q)
        BY <2>0
      <3> QED
        BY <3>2, <3>3
    <2>3a. Laid(Q, r, more, l, next)
      <3>1. Followed(P, m, Q) /\ more \in Seq(Sendable)
        BY <1>3, <1>4 DEF Followed
      <3> QED
        BY <1>6, <2>0, <2>1, <2>2, <2>3, <3>1, LaidAppend
    <2>3b. next[l - 1] = at[n]
      <3>1. l - 1 = n /\ n \in 0..n
        BY <2>0
      <3> QED
        BY <2>3, <3>1
    <2>4. at[n] <= Len(Q) - Size(m)
      BY <1>3, <2>1
    <2>5. Whole(Q, Size(m), r, more, TRUE, l, next)
      BY <1>3, <2>1, <2>3, <2>3b, <2>4 DEF Whole
    <2>6. Stream(Q, Size(m), r, more, TRUE, attempts + 1)
      BY <2>3a, <2>5 DEF Stream, After
    <2> QED
      BY <1>a, <1>b, <2>6
  <1>8. CASE Spoilt(P, 0, r, ms, TRUE, attempts, n, at)
    <2>1. Laid(Q, r, more, n, at)
      <3>1. Len(P) <= Len(Q) /\ Len(more) <= Len(more)
        BY <1>3, <1>4
      <3> QED
        BY <1>3, <1>4, <1>5, <1>6, <3>1, LaidLonger
    <2>2. at[n] \in Nat /\ at[n] < Len(P)
      BY <1>8 DEF Spoilt
    <2>3. GivenUp(Q, at[n], TRUE)
      <3>1. PICK a \in Nat, q \in Nat : a = at[n] /\ q = Len(P) /\ q <= Len(Q)
        BY <1>3, <2>2
      <3>2. \A j \in Nat \ {0} : a + j <= q => a + j \in 1..q
        OBVIOUS
      <3>3. ASSUME NEW j \in Nat \ {0}, a + j <= q
            PROVE  a + j <= Len(Q) /\ Q[a + j] = P[a + j]
        <4>1. a + j \in 1..q
          BY <3>2, <3>3
        <4> QED
          BY <1>3, <3>1, <4>1
      <3>4. GivenUp(P, a, TRUE)
        BY <1>8, <3>1 DEF Spoilt
      <3>5. Moved(P, a, TRUE, Q, a, TRUE)
        BY <3>1, <3>3 DEF Moved
      <3> QED
        BY <1>3, <3>1, <3>4, <3>5, GivenUpMoves
    <2>4. /\ at[n] < Len(Q) /\ at[n] <= Len(Q) - Size(m) /\ at[n] # Len(Q) - Size(m)
          /\ Short => attempts + 1 > Len(more)
      <3>1. Short => attempts > Len(ms)
        BY <1>8 DEF Spoilt
      <3>2. at[n] < Len(Q) /\ at[n] <= Len(Q) - Size(m) /\ at[n] # Len(Q) - Size(m)
        BY <1>3, <2>2
      <3> QED
        BY <1>4, <3>1, <3>2
    <2>5. Spoilt(Q, Size(m), r, more, TRUE, attempts + 1, n, at)
      BY <2>3, <2>4 DEF Spoilt
    <2> QED
      BY <1>a, <1>b, <2>1, <2>5 DEF Stream, After
  <1> QED
    BY <1>2, <1>7, <1>8

\* send refuses a message.
LEMMA StreamRefused ==
  ASSUME NEW P, NEW o, NEW r, NEW ms \in Seq(Sendable), NEW open,
         NEW attempts \in Nat, Stream(P, o, r, ms, open, attempts)
  PROVE  Stream(P, o, r, ms, open, attempts + 1)
  <1>1. \A n, at : Spoilt(P, o, r, ms, open, attempts, n, at) =>
                  Spoilt(P, o, r, ms, open, attempts + 1, n, at)
    <2>1. Len(ms) \in Nat
      OBVIOUS
    <2>2. attempts > Len(ms) => attempts + 1 > Len(ms)
      BY <2>1
    <2> QED
      BY <2>2 DEF Spoilt
  <1> QED
    BY <1>1 DEF Stream, After

\* Q is P with something after it.
Extends(Q, P) == Len(P) <= Len(Q) /\ \A i \in 1..Len(P) : Q[i] = P[i]

\* The line on which receive will give up stays where it is.
LEMMA SpoiltStays ==
  ASSUME NEW P \in Seq(Char), NEW Q \in Seq(Char), NEW r \in Nat, NEW o \in Nat,
         NEW ms \in Seq(Sendable), NEW n \in Nat, NEW at \in [0..n -> Nat],
         NEW attempts \in Nat, NEW later \in Nat, Laid(P, r, ms, n, at),
         Spoilt(P, 0, r, ms, TRUE, attempts, n, at),
         Extends(Q, P), Len(Q) = Len(P) + o, later > attempts
  PROVE  Laid(Q, r, ms, n, at) /\ Spoilt(Q, o, r, ms, TRUE, later, n, at)
  <1>1. /\ at[n] \in Nat /\ Len(P) \in Nat /\ Len(Q) \in Nat /\ Len(ms) \in Nat
        /\ at[n] < Len(P)
    BY LaidEnds DEF Spoilt
  <1>2. Laid(Q, r, ms, n, at)
    <2>1. at[n] <= Len(P) /\ Len(ms) <= Len(ms)
      BY <1>1
    <2> QED
      BY <2>1, LaidLonger DEF Extends
  <1>3. GivenUp(Q, at[n], TRUE)
    <2>1. PICK f \in Nat, p \in Nat : f = at[n] /\ p = Len(P) /\ p <= Len(Q)
      BY <1>1 DEF Extends
    <2>2. \A j \in Nat \ {0} : f + j <= p => f + j \in 1..p
      OBVIOUS
    <2>3. \A j \in Nat \ {0} :
            f + j <= p => f + j <= Len(Q) /\ Q[f + j] = P[f + j]
      BY <1>1, <2>1, <2>2 DEF Extends
    <2>4. GivenUp(P, f, TRUE)
      BY <2>1 DEF Spoilt
    <2>5. Moved(P, f, TRUE, Q, f, TRUE)
      BY <2>1, <2>3 DEF Moved
    <2> QED
      BY <2>1, <2>4, <2>5, GivenUpMoves
  <1>4. /\ at[n] < Len(Q) /\ at[n] < Len(Q) - o
        /\ Short => later > Len(ms)
    BY <1>1 DEF Spoilt
  <1>5. at[n] <= Len(Q) - o /\ ~(at[n] = Len(Q) - o)
    BY <1>1, <1>4
  <1>6. Spoilt(Q, o, r, ms, TRUE, later, n, at)
    BY <1>3, <1>4, <1>5 DEF Spoilt
  <1> QED
    BY <1>2, <1>6

\* A line of garbage is written.
LEMMA StreamGarbage ==
  ASSUME NEW P \in Seq(Char), NEW Q \in Seq(Char), NEW r \in Nat,
         NEW ms \in Seq(Sendable), NEW attempts \in Nat, NEW later \in Nat,
         NEW z \in Nat \ {0},
         Stream(P, 0, r, ms, TRUE, attempts), Len(ms) <= attempts,
         Extends(Q, P), Len(Q) = Len(P) + z, later > attempts,
         GivenUp(Q, Len(P), TRUE)
  PROVE  Stream(Q, z, r, ms, TRUE, later)
  <1>1. PICK n \in Nat : \E at \in [0..n -> Nat] :
          /\ Laid(P, r, ms, n, at)
          /\ \/ Whole(P, 0, r, ms, TRUE, n, at)
             \/ Spoilt(P, 0, r, ms, TRUE, attempts, n, at)
    BY DEF Stream, After
  <1>2. PICK at \in [0..n -> Nat] :
          /\ Laid(P, r, ms, n, at)
          /\ \/ Whole(P, 0, r, ms, TRUE, n, at)
             \/ Spoilt(P, 0, r, ms, TRUE, attempts, n, at)
    BY <1>1
  <1>3. CASE Whole(P, 0, r, ms, TRUE, n, at)
    <2>1. at[n] = Len(P) /\ r + n = Len(ms) /\ Len(P) \in Nat /\ Len(ms) \in Nat
      BY <1>3 DEF Whole
    <2>2. Laid(Q, r, ms, n, at)
      <3>1. at[n] <= Len(P) /\ Len(ms) <= Len(ms)
        BY <2>1
      <3> QED
        BY <1>2, <3>1, LaidLonger DEF Extends
    <2>3. PICK p \in Nat : p = Len(P)
      BY <2>1
    <2>4. at[n] = p /\ Len(Q) = p + z /\ p < p + z /\ p <= (p + z) - z
      BY <2>1, <2>3
    <2>5. Short => later > Len(ms)
      BY <2>1
    <2>6. Spoilt(Q, z, r, ms, TRUE, later, n, at)
      BY <2>1, <2>3, <2>4, <2>5 DEF Spoilt
    <2> QED
      BY <2>2, <2>6 DEF Stream, After
  <1>4. CASE Spoilt(P, 0, r, ms, TRUE, attempts, n, at)
    <2>1. Laid(Q, r, ms, n, at) /\ Spoilt(Q, z, r, ms, TRUE, later, n, at)
      BY <1>2, <1>4, SpoiltStays
    <2> QED
      BY <2>1 DEF Stream, After
  <1> QED
    BY <1>2, <1>3, <1>4

\* The sender goes away, and with it what it has not written.
LEMMA StreamCut ==
  ASSUME NEW P \in Seq(Char), NEW Q \in Seq(Char), NEW o \in Nat, NEW r \in Nat,
         NEW ms \in Seq(Sendable), NEW open \in BOOLEAN, NEW attempts \in Nat,
         Stream(P, o, r, ms, open, attempts),
         Extends(P, Q), Len(P) = Len(Q) + o
  PROVE  Stream(Q, 0, r, ms, FALSE, attempts)
  <1>1. PICK n \in Nat : \E at \in [0..n -> Nat] :
          /\ Laid(P, r, ms, n, at)
          /\ \/ Whole(P, o, r, ms, open, n, at)
             \/ Spoilt(P, o, r, ms, open, attempts, n, at)
    BY DEF Stream, After
  <1>2. PICK at \in [0..n -> Nat] :
          /\ Laid(P, r, ms, n, at)
          /\ \/ Whole(P, o, r, ms, open, n, at)
             \/ Spoilt(P, o, r, ms, open, attempts, n, at)
    BY <1>1
  <1>3. /\ at[n] \in Nat /\ Len(P) \in Nat /\ Len(Q) \in Nat /\ Len(ms) \in Nat
        /\ n > 0 => at[n - 1] \in Nat /\ at[n - 1] <= at[n]
    <2>1. \A k \in 0..n : at[k] <= at[n]
      BY <1>2 DEF Laid
    <2>2. n > 0 => n - 1 \in 0..n
      OBVIOUS
    <2> QED
      BY <2>1, <2>2
  <1>4. Laid(Q, r, ms, n, at)
    <2>1. \A i \in 1..Len(Q) : Q[i] = P[i]
      BY DEF Extends
    <2>2. Len(Q) <= Len(P)
      BY DEF Extends
    <2> QED
      BY <1>2, <2>1, <2>2, LaidPrefix
  <1>5. Len(P) - o = Len(Q) /\ Len(Q) - 0 = Len(Q)
    BY <1>3
  <1>6. CASE Whole(P, o, r, ms, open, n, at)
    <2>1. Len(Q) <= at[n] /\ (n > 0 => at[n - 1] <= Len(Q) - 0)
      BY <1>3, <1>5, <1>6 DEF Whole
    <2>2. Whole(Q, 0, r, ms, FALSE, n, at)
      BY <1>6, <2>1 DEF Whole
    <2> QED
      BY <1>4, <2>2 DEF Stream, After
  <1>7. CASE Spoilt(P, o, r, ms, open, attempts, n, at) /\ at[n] = Len(Q)
    <2>1. /\ r + n = Len(ms) /\ Len(Q) <= at[n]
          /\ n > 0 => at[n - 1] <= Len(Q) - 0
      BY <1>3, <1>5, <1>7 DEF Spoilt
    <2>2. Whole(Q, 0, r, ms, FALSE, n, at)
      BY <2>1 DEF Whole
    <2> QED
      BY <1>4, <2>2 DEF Stream, After
  <1>8. CASE Spoilt(P, o, r, ms, open, attempts, n, at) /\ at[n] # Len(Q)
    <2>1. at[n] <= Len(Q)
      BY <1>3, <1>5, <1>8 DEF Spoilt
    <2>2. /\ at[n] < Len(Q) /\ at[n] <= Len(Q) - 0 /\ at[n] # Len(Q) - 0
      BY <1>3, <1>5, <1>8, <2>1
    <2>3. GivenUp(Q, at[n], FALSE)
      <3>1. PICK f \in Nat, p \in Nat, q \in Nat :
              f = at[n] /\ p = Len(P) /\ q = Len(Q) /\ q <= p
        BY <1>3 DEF Extends
      <3>2. \A j \in Nat \ {0} : f + j <= q => f + j \in 1..q /\ f + j <= p
        BY <3>1
      <3>3. \A j \in Nat \ {0} :
              f + j <= q => f + j <= p /\ Q[f + j] = P[f + j]
        BY <3>1, <3>2 DEF Extends
      <3>4. GivenUp(P, f, open)
        BY <1>8, <3>1 DEF Spoilt
      <3>5. Moved(P, f, open, Q, f, FALSE)
        BY <3>1, <3>3 DEF Moved
      <3> QED
        BY <3>1, <3>4, <3>5, GivenUpMoves
    <2>4. Short => attempts > Len(ms)
      BY <1>8 DEF Spoilt
    <2>5. Spoilt(Q, 0, r, ms, FALSE, attempts, n, at)
      BY <2>2, <2>3, <2>4 DEF Spoilt
    <2> QED
      BY <1>4, <2>5 DEF Stream, After
  <1> QED
    BY <1>2, <1>6, <1>7, <1>8

\* P is l and then Q.
Splits(P, l, Q) ==
    /\ Len(P) = Len(l) + Len(Q)
    /\ \A i \in 1..Len(l) : P[i] = l[i]
    /\ \A i \in 1..Len(Q) : Q[i] = P[Len(l) + i]

\* l is a whole message, the newline included.
AllRead(l, at) == Len(l) = at[1]

\* l ends within a message, and if there is more, it is only the newline.
PartRead(l, Q, at) ==
    /\ Len(l) < at[1]
    /\ Len(Q) > 0 => Q[1] = Newline /\ ~Short /\ at[1] = Len(l) + 1

\* The first message has been read with its newline.
LEMMA StreamDrop ==
  ASSUME NEW P \in Seq(Char), NEW l \in Seq(Char), NEW Q \in Seq(Char),
         NEW o \in Nat, NEW r \in Nat, NEW ms \in Seq(Sendable),
         NEW open, NEW attempts \in Nat,
         NEW n \in Nat, NEW at \in [0..n -> Nat], n # 0, Laid(P, r, ms, n, at),
         After(P, o, r, ms, open, attempts, n, at),
         Splits(P, l, Q), AllRead(l, at)
  PROVE  Stream(Q, o, r + 1, ms, open, attempts)
  <1>1. PICK c \in Nat : n = c + 1
    <2>1. n - 1 \in Nat /\ n = (n - 1) + 1
      OBVIOUS
    <2> QED
      BY <2>1
  <1>2. PICK s \in Nat : s = at[1]
    OBVIOUS
  <1>3. \A k \in 0..c : k + 1 \in 0..n /\ at[k + 1] \in Nat /\ s <= at[k + 1]
    <2> SUFFICES ASSUME NEW k \in 0..c
                 PROVE  k + 1 \in 0..n /\ at[k + 1] \in Nat /\ s <= at[k + 1]
      OBVIOUS
    <2>1. 1 \in 0..n /\ k + 1 \in 0..n /\ 1 <= k + 1
      BY <1>1
    <2> QED
      BY <1>2, <2>1 DEF Laid
  <1>4. PICK rest \in [0..c -> Nat] : \A k \in 0..c : rest[k] = at[k + 1] - s
    <2> DEFINE f == [k \in 0..c |-> at[k + 1] - s]
    <2>1. f \in [0..c -> Nat]
      BY <1>3
    <2> QED
      BY <2>1
  <1>5. /\ Len(P) = s + Len(Q) /\ Len(Q) \in Nat /\ Len(P) \in Nat /\ Len(ms) \in Nat
        /\ \A i \in 1..Len(Q) : Q[i] = P[s + i]
    <2>1. Len(Q) \in Nat /\ Len(P) \in Nat /\ Len(ms) \in Nat
      OBVIOUS
    <2>2. Len(l) = s
      BY <1>2 DEF AllRead
    <2> QED
      BY <2>1, <2>2 DEF Splits
  <1>6. Laid(Q, r + 1, ms, c, rest)
    <2>1. /\ \A k \in 0..c : rest[k] = at[k + 1] - at[1]
          /\ Len(P) = at[1] + Len(Q) /\ \A i \in 1..Len(Q) : Q[i] = P[at[1] + i]
      BY <1>2, <1>4, <1>5
    <2> QED
      BY <1>1, <2>1, LaidDrop
  <1>7. PICK a \in Nat : a = at[n]
    OBVIOUS
  <1>8. rest[c] = a - s /\ s <= a /\ (r + 1) + c = r + n
    <2>1. c \in 0..c /\ c + 1 = n
      BY <1>1
    <2>2. rest[c] = at[c + 1] - s /\ s <= at[c + 1]
      BY <1>3, <1>4, <2>1
    <2>3. (r + 1) + c = r + n
      BY <1>1
    <2> QED
      BY <1>7, <2>1, <2>2, <2>3
  <1>9. CASE Whole(P, o, r, ms, open, n, at)
    <2>1. /\ r + n = Len(ms) /\ Len(P) <= a /\ (open => Len(P) = a)
      BY <1>7, <1>9 DEF Whole
    <2>2. Len(Q) <= a - s /\ (open => Len(Q) = a - s)
      <3>1. \A x, y, z \in Nat : x + y <= z => y <= z - x /\ (x + y = z => y = z - x)
        OBVIOUS
      <3>2. s + Len(Q) <= a => /\ Len(Q) <= a - s
                               /\ s + Len(Q) = a => Len(Q) = a - s
        BY <1>5, <3>1
      <3> QED
        BY <1>5, <2>1, <3>2
    <2>3. ASSUME c > 0 PROVE rest[c - 1] <= Len(Q) - o
      <3>1. c - 1 \in 0..c /\ (c - 1) + 1 = c /\ n - 1 = c
        BY <1>1, <2>3
      <3>2. PICK b \in 0..c : b = c - 1
        BY <3>1
      <3>3. rest[b] = at[c] - s /\ at[c] \in Nat /\ at[c] <= Len(P) - o
        <4>1. rest[b] = at[b + 1] - s /\ at[b + 1] \in Nat /\ b + 1 = c
          BY <1>3, <1>4, <3>1, <3>2
        <4>2. n > 0 => at[n - 1] <= Len(P) - o
          BY <1>9 DEF Whole
        <4>3. n > 0 /\ at[c] \in Nat /\ rest[b] = at[c] - s
          BY <4>1
        <4>4. at[c] <= Len(P) - o
          BY <3>1, <4>2, <4>3
        <4> QED
          BY <4>3, <4>4
      <3>4. \A x, y, z, u \in Nat : x <= (y + z) - u => x - y <= z - u
        OBVIOUS
      <3>5. at[c] - s <= Len(Q) - o
        <4>1. at[c] <= (s + Len(Q)) - o
          BY <1>5, <3>3
        <4> QED
          BY <1>5, <3>3, <3>4, <4>1
      <3> QED
        BY <3>2, <3>3, <3>5
    <2>4. Whole(Q, o, r + 1, ms, open, c, rest)
      BY <1>8, <2>1, <2>2, <2>3 DEF Whole
    <2> QED
      BY <1>6, <2>4 DEF Stream, After
  <1>10. CASE Spoilt(P, o, r, ms, open, attempts, n, at)
    <2>1. PICK b \in Nat : b = rest[c] /\ a = s + b
      <3>1. \A x, y \in Nat : y <= x => x - y \in Nat /\ x = y + (x - y)
        OBVIOUS
      <3> QED
        BY <1>8, <3>1
    <2>2. /\ a < Len(P) /\ a <= Len(P) - o /\ (a = Len(P) - o => r + n = Len(ms))
          /\ GivenUp(P, a, open)
          /\ Short => attempts > Len(ms)
      BY <1>7, <1>10 DEF Spoilt
    <2>3. /\ b < Len(Q) /\ b <= Len(Q) - o
          /\ b = Len(Q) - o => a = Len(P) - o
      <3>0. PICK q \in Nat : q = Len(Q)
        BY <1>5
      <3>1. s + b < s + q => b < q
        OBVIOUS
      <3>2. s + b <= (s + q) - o => b <= q - o
        OBVIOUS
      <3>3. b = q - o => s + b = (s + q) - o
        OBVIOUS
      <3> QED
        BY <1>5, <2>1, <2>2, <3>0, <3>1, <3>2, <3>3
    <2>4. GivenUp(Q, b, open)
      <3>0. PICK p \in Nat, q \in Nat : p = Len(P) /\ q = Len(Q)
        BY <1>5
      <3>1. p = s + q /\ \A i \in 1..q : Q[i] = P[s + i]
        BY <1>5, <3>0
      <3>2. ASSUME NEW j \in Nat \ {0}
            PROVE  /\ b + j <= q <=> (s + b) + j <= s + q
                   /\ b + j <= q => b + j \in 1..q /\ s + (b + j) = (s + b) + j
        OBVIOUS
      <3>3. ASSUME NEW j \in Nat \ {0}
            PROVE  /\ b + j <= q <=> a + j <= p
                   /\ b + j <= q => Q[b + j] = P[a + j]
        BY <2>1, <3>1, <3>2
      <3>4. Moved(P, a, open, Q, b, open)
        BY <3>0, <3>3 DEF Moved
      <3> QED
        BY <2>2, <3>4, GivenUpMoves
    <2>5. Spoilt(Q, o, r + 1, ms, open, attempts, c, rest)
      BY <1>8, <2>1, <2>2, <2>3, <2>4 DEF Spoilt
    <2> QED
      BY <1>6, <2>5 DEF Stream, After
  <1> QED
    BY <1>9, <1>10 DEF After

\* No message is on its way.
LEMMA LaidNone ==
  ASSUME NEW Q \in Seq(Char), NEW r \in Nat, NEW ms \in Seq(Sendable),
         r <= Len(ms), NEW at \in [0..0 -> Nat], at[0] = 0
  PROVE  Laid(Q, r, ms, 0, at)
  <1>1. Len(ms) \in Nat /\ r + 0 = r /\ \A k \in 0..0 : k = 0
    OBVIOUS
  <1>2. \A k \in 1..0 : FALSE
    OBVIOUS
  <1> QED
    BY <1>1, <1>2 DEF Laid

\* The first message has been read, all but its newline.
LEMMA StreamLeft ==
  ASSUME NEW P \in Seq(Char), NEW l \in Seq(Char), NEW Q \in Seq(Char),
         NEW o \in Nat, NEW r \in Nat, NEW ms \in Seq(Sendable),
         NEW open, NEW attempts \in Nat,
         NEW n \in Nat, NEW at \in [0..n -> Nat], n # 0, Laid(P, r, ms, n, at),
         After(P, o, r, ms, open, attempts, n, at),
         Splits(P, l, Q), PartRead(l, Q, at), o <= Len(Q)
  PROVE  Stream(Q, o, r + 1, ms, open, attempts)
  <1>1. /\ Len(P) = Len(l) + Len(Q) /\ Len(l) \in Nat /\ Len(Q) \in Nat
        /\ Len(ms) \in Nat /\ 1 \in 0..n /\ n \in 0..n /\ at[1] \in Nat /\ at[n] \in Nat
        /\ r + n <= Len(ms) /\ Len(l) < at[1]
        /\ Len(Q) > 0 => Q[1] = Newline /\ ~Short
    <2>1. Len(P) = Len(l) + Len(Q) /\ Len(l) \in Nat /\ Len(Q) \in Nat /\ Len(ms) \in Nat
      BY DEF Splits
    <2>2. 1 \in 0..n /\ n \in 0..n
      OBVIOUS
    <2>3. at[1] \in Nat /\ at[n] \in Nat
      BY <2>2
    <2>4. r + n <= Len(ms)
      BY DEF Laid
    <2>5. Len(l) < at[1] /\ (Len(Q) > 0 => Q[1] = Newline /\ ~Short)
      BY DEF PartRead
    <2> QED
      BY <2>1, <2>2, <2>3, <2>4, <2>5
  <1>2. at[1] <= at[n] /\ (n # 1 => n - 1 \in 0..n /\ at[n - 1] \in Nat /\ at[1] <= at[n - 1])
    <2>1. n # 1 => 1 <= n - 1 /\ n - 1 \in 0..n
      OBVIOUS
    <2> QED
      BY <1>1, <2>1 DEF Laid
  <1>3. r + 1 <= Len(ms)
    BY <1>1
  <1>4. PICK none \in [0..0 -> Nat] : none[0] = 0
    <2> DEFINE f == [k \in 0..0 |-> 0]
    <2>1. f \in [0..0 -> Nat] /\ f[0] = 0
      OBVIOUS
    <2> QED
      BY <2>1
  <1>5. Laid(Q, r + 1, ms, 0, none)
    BY <1>3, <1>4, LaidNone
  <1>6. ASSUME Whole(P, o, r, ms, open, n, at), Len(Q) = o PROVE (r + 1) + 0 = Len(ms)
    <2>1. at[n - 1] <= Len(P) - o /\ r + n = Len(ms)
      BY <1>6 DEF Whole
    <2>2. Len(P) - o = Len(l)
      BY <1>1, <1>6
    <2>3. n = 1
      BY <1>1, <1>2, <2>1, <2>2
    <2> QED
      BY <1>1, <2>1, <2>3
  <1>7. CASE Len(Q) = 0
    <2>1. Whole(P, o, r, ms, open, n, at)
      <3>1. ~(at[n] < Len(P))
        BY <1>1, <1>2, <1>7
      <3> QED
        BY <3>1 DEF After, Spoilt
    <2>2. ~open
      BY <1>1, <1>2, <1>7, <2>1 DEF Whole
    <2>3. Len(Q) = o
      BY <1>7
    <2>4. (r + 1) + 0 = Len(ms)
      BY <1>6, <2>1, <2>3
    <2>5. Whole(Q, o, r + 1, ms, open, 0, none)
      BY <1>4, <1>7, <2>2, <2>4 DEF Whole
    <2> QED
      BY <1>5, <2>5 DEF Stream, After
  <1>8. CASE Len(Q) > 0
    <2>1. /\ 0 < Len(Q) /\ 0 <= Len(Q) - o /\ (0 = Len(Q) - o => Len(Q) = o)
          /\ Q[0 + 1] = Newline /\ ~Short
      BY <1>1, <1>8
    <2>2. ASSUME Len(Q) = o PROVE (r + 1) + 0 = Len(ms)
      <3>1. CASE Spoilt(P, o, r, ms, open, attempts, n, at)
        <4>1. at[n] <= Len(P) - o
          BY <3>1 DEF Spoilt
        <4>2. Len(P) - o = Len(l)
          BY <1>1, <2>2
        <4> QED
          BY <1>1, <1>2, <4>1, <4>2
      <3> QED
        BY <1>6, <2>2, <3>1 DEF After
    <2>3. GivenUp(Q, 0, open)
      <3>1. 1 \in Nat \ {0} /\ 0 + 1 <= Len(Q) /\ \A j \in 1..1 : j = 1
        BY <1>1, <1>8
      <3>2. Q[0 + 1] # Colon
        BY <2>1 DEF Newline, Colon
      <3> QED
        BY <2>1, <3>1, <3>2 DEF GivenUp
    <2>4. Spoilt(Q, o, r + 1, ms, open, attempts, 0, none)
      BY <1>4, <2>1, <2>2, <2>3 DEF Spoilt
    <2> QED
      BY <1>5, <2>4 DEF Stream, After
  <1> QED
    BY <1>1, <1>7, <1>8

\* What rio_readlineb hands over in the middle of a stream.
FullLine(l, k) ==
    /\ k >= 1 /\ k <= MaxLen - 1
    /\ \A i \in 1..k : i < k => l[i] # Newline
    /\ l[k] = Newline \/ k = MaxLen - 1

\* receive takes l for m, which was next, and the stream Q goes on after it.
Message(l, Q, o, r, ms, open, attempts) ==
    /\ r + 1 <= Len(ms)
    /\ Len(l) >= 2 /\ Len(l) <= Size(ms[r + 1])
    /\ \A j \in 1..Len(l) : l[j] = Encode(ms[r + 1])[j]
    /\ Stream(Q, o, r + 1, ms, open, attempts)

\* m has s characters, l of length k and then Q start with it.
StartsWith(l, k, Q, m, s) ==
    /\ s \in Nat /\ s >= 3 /\ s <= MaxLen /\ s = Size(m)
    /\ \A j \in 1..k : j <= s => l[j] = Encode(m)[j]
    /\ Len(Q) > 0 /\ s = k + 1 => Q[1] = Newline
    /\ \A j \in 1..s : Encode(m)[j] = Newline <=> j = s
    /\ Encode(m)[1] # Colon

\* The first of the messages, as far as l goes.
LEMMA FirstMessage ==
  ASSUME NEW P \in Seq(Char), NEW l \in Seq(Char), NEW Q \in Seq(Char),
         NEW r \in Nat, NEW ms \in Seq(Sendable), NEW n \in Nat,
         NEW at \in [0..n -> Nat], NEW k \in Nat, NEW m, n # 0,
         Laid(P, r, ms, n, at), Splits(P, l, Q), k = Len(l), m = ms[r + 1]
  PROVE  /\ r + 1 <= Len(ms) /\ m \in Sendable /\ at[1] \in Nat
         /\ StartsWith(l, k, Q, m, at[1])
  <1>1. /\ at[0] = 0 /\ r + 1 \in 1..Len(ms) /\ m \in Sendable /\ Size(m) \in Nat
        /\ Size(m) >= 3 /\ at[1] = at[0] + Size(m) /\ HasItem(P, at[0], m)
    <2>1. 1 \in 1..n /\ 1 - 1 = 0
      OBVIOUS
    <2>2. IsItem(P, r, ms, n, at, 1)
      BY <2>1, LaidFacts
    <2>3. at[0] = 0
      BY DEF Laid
    <2> QED
      BY <2>1, <2>2, <2>3 DEF IsItem
  <1>2. PICK s \in Nat : s = Size(m)
    BY <1>1
  <1>3. at[1] = s /\ s <= MaxLen /\ s >= 3 /\ Encode(m)[1] # Colon
    <2>1. Size(m) <= MaxLen /\ Encode(m)[1] \in 1..MaxSends
      BY <1>1, EncodeShape
    <2>2. Encode(m)[1] # Colon
      BY <2>1 DEF Colon
    <2>3. at[1] = s
      BY <1>1, <1>2
    <2> QED
      BY <1>1, <1>2, <2>1, <2>2, <2>3
  <1>4. \A j \in 1..s : j <= Len(P) => P[j] = Encode(m)[j]
    <2>1. \A j \in 1..s : 0 + j = j
      BY <1>2
    <2> QED
      BY <1>1, <1>2, <2>1 DEF HasItem
  <1>5. PICK p \in Nat, q \in Nat : p = Len(P) /\ q = Len(Q) /\ p = k + q
    BY DEF Splits
  <1>6. /\ \A j \in 1..k : P[j] = l[j]
        /\ \A j \in 1..q : Q[j] = P[k + j]
    BY <1>5 DEF Splits
  <1>7. ASSUME NEW j \in 1..k, j <= s PROVE l[j] = Encode(m)[j]
    <2>1. j \in 1..s /\ j <= p
      BY <1>5, <1>7
    <2> QED
      BY <1>4, <1>5, <1>6, <2>1
  <1>8. \A j \in 1..s : Encode(m)[j] = Newline <=> j = s
    BY <1>1, <1>2, OneNewline
  <1>9. ASSUME q > 0, s = k + 1 PROVE Q[1] = Newline
    <2>1. 1 \in 1..q /\ k + 1 \in 1..s /\ k + 1 <= p
      BY <1>5, <1>9
    <2>2. P[k + 1] = Encode(m)[k + 1]
      BY <1>4, <1>5, <2>1
    <2> QED
      BY <1>6, <1>8, <1>9, <2>1, <2>2
  <1>10. StartsWith(l, k, Q, m, s)
    BY <1>2, <1>3, <1>5, <1>7, <1>8, <1>9 DEF StartsWith
  <1> QED
    BY <1>1, <1>3, <1>10

\* No message is on its way: what rio_readlineb has is no message.
LEMMA FirstSpoilt ==
  ASSUME NEW P \in Seq(Char), NEW o \in Nat, NEW r \in Nat, NEW ms \in Seq(Sendable),
         NEW open, NEW attempts \in Nat, NEW at \in [0..0 -> Nat],
         Laid(P, r, ms, 0, at), After(P, o, r, ms, open, attempts, 0, at),
         NEW l \in Seq(Char), NEW k \in Nat, k = Len(l), k <= Len(P), k > 0,
         \A i \in 1..k : P[i] = l[i] /\ (i < k => l[i] # Newline)
  PROVE  NoMessage(l) /\ (Short => attempts > Len(ms))
  <1>1. at[0] = 0 /\ \A j \in Nat : 0 + j = j
    BY DEF Laid
  <1>2. PICK p \in Nat : p = Len(P)
    OBVIOUS
  <1>3. Spoilt(P, o, r, ms, open, attempts, 0, at)
    <2>1. ~(p <= 0)
      BY <1>2
    <2> QED
      BY <1>1, <1>2, <2>1 DEF After, Whole
  <1>4. GivenUp(P, 0, open) /\ (Short => attempts > Len(ms))
    BY <1>1, <1>3 DEF Spoilt
  <1>5. PICK z \in Nat \ {0} :
          /\ 0 + z <= p => P[0 + z] = Newline
          /\ \A j \in 1..z : 0 + j <= p =>
                P[0 + j] # Colon \/ \E h \in 1..j : P[0 + h] = Nul
    BY <1>2, <1>4 DEF GivenUp
  <1>6. /\ z <= p => P[z] = Newline
        /\ \A j \in 1..z : j <= p =>
              P[j] # Colon \/ \E h \in 1..j : P[h] = Nul
    <2>1. 0 + z = z /\ \A j \in 1..z : 0 + j = j /\ \A h \in 1..j : 0 + h = h
      OBVIOUS
    <2> QED
      BY <1>5, <2>1
  <1>7. k <= z
    <2>1. z < k => z \in 1..k /\ z <= p
      BY <1>2
    <2> QED
      BY <1>6, <2>1
  <1>8. ASSUME NEW i \in 1..k PROVE l[i] # Colon \/ \E h \in 1..i : l[h] = Nul
    <2>1. i \in 1..z /\ i <= p /\ \A h \in 1..i : h \in 1..k
      BY <1>2, <1>7
    <2>2. l[i] = P[i] /\ \A h \in 1..i : l[h] = P[h]
      BY <2>1
    <2> QED
      BY <1>6, <2>1, <2>2
  <1> QED
    BY <1>4, <1>8 DEF NoMessage

\* rio_readlineb has a line: it is the next message, or receive gives up.
LEMMA StreamRead ==
  ASSUME NEW P \in Seq(Char), NEW l \in Seq(Char), NEW Q \in Seq(Char),
         NEW o \in Nat, NEW r \in Nat, NEW ms \in Seq(Sendable),
         NEW open, NEW attempts \in Nat,
         Stream(P, o, r, ms, open, attempts),
         Splits(P, l, Q), o <= Len(Q), FullLine(l, Len(l))
  PROVE  \/ /\ Message(l, Q, o, r, ms, open, attempts)
            /\ Len(l) >= Size(ms[r + 1]) - 1
         \/ NoMessage(l) /\ (Short => attempts > Len(ms))
  <1>1. PICK n \in Nat : \E at \in [0..n -> Nat] :
          Laid(P, r, ms, n, at) /\ After(P, o, r, ms, open, attempts, n, at)
    BY DEF Stream
  <1>2. PICK at \in [0..n -> Nat] :
          Laid(P, r, ms, n, at) /\ After(P, o, r, ms, open, attempts, n, at)
    BY <1>1
  <1>3. PICK k \in Nat : k = Len(l)
    OBVIOUS
  <1>4. /\ k >= 1 /\ k <= MaxLen - 1 /\ MaxLen \in Nat
        /\ \A i \in 1..k : i < k => l[i] # Newline
        /\ l[k] = Newline \/ k = MaxLen - 1
    BY <1>3, SizeAssumption DEF FullLine
  <1>5. CASE n = 0
    <2>1. k <= Len(P) /\ \A i \in 1..k : P[i] = l[i]
      BY <1>3 DEF Splits
    <2>2. at \in [0..0 -> Nat] /\ Laid(P, r, ms, 0, at)
          /\ After(P, o, r, ms, open, attempts, 0, at)
      BY <1>2, <1>5
    <2>3. NoMessage(l) /\ (Short => attempts > Len(ms))
      <3>1. /\ k > 0 /\ k <= Len(P)
            /\ \A i \in 1..k : P[i] = l[i] /\ (i < k => l[i] # Newline)
        BY <1>4, <2>1
      <3> QED
        BY <1>3, <2>2, <3>1, FirstSpoilt
    <2> QED
      BY <2>3
  <1>6. CASE n # 0
    <2>0. PICK m : m = ms[r + 1]
      OBVIOUS
    <2>1. /\ r + 1 <= Len(ms) /\ m \in Sendable /\ at[1] \in Nat
          /\ StartsWith(l, k, Q, m, at[1])
      BY <1>2, <1>3, <1>6, <2>0, FirstMessage
    <2>2. PICK s \in Nat : s = at[1]
      BY <2>1
    <2>3. /\ s >= 3 /\ s <= MaxLen /\ s = Size(m)
          /\ \A j \in 1..k : j <= s => l[j] = Encode(m)[j]
          /\ Len(Q) > 0 /\ s = k + 1 => Q[1] = Newline
          /\ \A j \in 1..s : Encode(m)[j] = Newline <=> j = s
      BY <2>1, <2>2 DEF StartsWith
    <2>4. k <= s
      <3>1. SUFFICES ASSUME ~(k <= s) PROVE FALSE
        OBVIOUS
      <3>2. s \in 1..k /\ s < k /\ s \in 1..s /\ s <= s
        <4>1. s >= 3
          BY <2>3
        <4> QED
          BY <3>1, <4>1
      <3>3. l[s] = Newline
        BY <2>3, <3>2
      <3> QED
        BY <1>4, <3>2, <3>3
    <2>5. \A j \in 1..k : l[j] = Encode(m)[j]
      <3>1. \A j \in 1..k : j <= s
        BY <2>4
      <3> QED
        BY <2>3, <3>1
    <2>6. l[k] = Newline <=> k = s
      <3>1. k \in 1..k /\ k \in 1..s
        BY <1>4, <2>4
      <3> QED
        BY <2>3, <2>5, <3>1
    <2>7. Stream(Q, o, r + 1, ms, open, attempts) /\ k >= 2 /\ k >= s - 1
      <3>1. CASE l[k] = Newline
        <4>1. Len(l) = at[1] /\ k >= 2 /\ k >= s - 1
          BY <1>3, <2>2, <2>3, <2>6, <3>1
        <4>2. Stream(Q, o, r + 1, ms, open, attempts)
          <5>1. AllRead(l, at) /\ n # 0
            BY <1>6, <4>1 DEF AllRead
          <5> QED
            BY <1>2, <5>1, StreamDrop
        <4> QED
          BY <4>1, <4>2
      <3>2. CASE l[k] # Newline
        <4>1. k = MaxLen - 1 /\ k # s
          BY <1>4, <2>6, <3>2
        <4>2. s = MaxLen /\ s = k + 1
          <5>1. \A x, y, z \in Nat :
                  x = z - 1 /\ x # y /\ x <= y /\ y <= z => y = z /\ y = x + 1
            OBVIOUS
          <5> QED
            BY <1>4, <2>3, <2>4, <4>1, <5>1
        <4>3. ~Short
          <5>1. Len(m.data) <= MaxData /\ Size(m) = Len(m.data) + 3 /\ Size(m) = MaxLen
            BY <2>1, <2>3, <4>2 DEF Sendable, Size
          <5>2. Len(m.data) \in Nat
            BY <2>1 DEF Sendable
          <5> QED
            BY <5>1, <5>2, SizeAssumption DEF Short
        <4>4. PartRead(l, Q, at)
          BY <1>3, <2>2, <2>3, <4>2, <4>3 DEF PartRead
        <4>5. Stream(Q, o, r + 1, ms, open, attempts)
          <5>1. n # 0
            BY <1>6
          <5> QED
            BY <1>2, <4>4, <5>1, StreamLeft
        <4> QED
          BY <2>3, <4>2, <4>5
      <3> QED
        BY <3>1, <3>2
    <2>8. /\ r + 1 <= Len(ms) /\ Len(l) >= 2 /\ Len(l) <= Size(ms[r + 1])
          /\ Len(l) >= Size(ms[r + 1]) - 1
      BY <1>3, <2>0, <2>1, <2>3, <2>4, <2>7
    <2>9. \A j \in 1..Len(l) : l[j] = Encode(ms[r + 1])[j]
      BY <1>3, <2>0, <2>5
    <2>10. Message(l, Q, o, r, ms, open, attempts)
      BY <2>7, <2>8, <2>9 DEF Message
    <2> QED
      BY <2>8, <2>10
  <1> QED
    BY <1>5, <1>6

\* The stream has ended within a line: it is what the sender wrote of its
\* last message, or receive gives up.
LEMMA StreamEnd ==
  ASSUME NEW P \in Seq(Char), NEW Q \in Seq(Char), NEW r \in Nat,
         NEW ms \in Seq(Sendable), NEW attempts \in Nat,
         Stream(P, 0, r, ms, FALSE, attempts),
         \A i \in 1..Len(P) : P[i] # Newline, Len(Q) = 0
  PROVE  \/ Message(P, Q, 0, r, ms, FALSE, attempts) /\ r + 1 = Len(ms)
         \/ NoMessage(P)
  <1>1. PICK n \in Nat : \E at \in [0..n -> Nat] :
          Laid(P, r, ms, n, at) /\ After(P, 0, r, ms, FALSE, attempts, n, at)
    BY DEF Stream
  <1>2. PICK at \in [0..n -> Nat] :
          Laid(P, r, ms, n, at) /\ After(P, 0, r, ms, FALSE, attempts, n, at)
    BY <1>1
  <1>3. PICK k \in Nat : k = Len(P)
    OBVIOUS
  <1>4. Splits(P, P, Q)
    BY DEF Splits
  <1>5. CASE n = 0
    <2>1. CASE k = 0
      BY <1>3, <2>1 DEF NoMessage
    <2>2. CASE k # 0
      <3>1. at \in [0..0 -> Nat] /\ Laid(P, r, ms, 0, at)
            /\ After(P, 0, r, ms, FALSE, attempts, 0, at)
        BY <1>2, <1>5
      <3>2. /\ k > 0 /\ k <= Len(P) /\ 0 \in Nat /\ FALSE \in BOOLEAN
            /\ \A i \in 1..k : P[i] = P[i] /\ (i < k => P[i] # Newline)
        BY <1>3, <2>2
      <3>3. NoMessage(P)
        BY <1>3, <3>1, <3>2, FirstSpoilt
      <3> QED
        BY <3>3
    <2> QED
      BY <2>1, <2>2
  <1>6. CASE n # 0
    <2>0. PICK m : m = ms[r + 1]
      OBVIOUS
    <2>1. /\ r + 1 <= Len(ms) /\ m \in Sendable /\ at[1] \in Nat
          /\ StartsWith(P, k, Q, m, at[1])
      BY <1>2, <1>3, <1>4, <1>6, <2>0, FirstMessage
    <2>2. PICK s \in Nat : s = at[1]
      BY <2>1
    <2>3. /\ s >= 3 /\ s <= MaxLen /\ s = Size(m)
          /\ \A j \in 1..k : j <= s => P[j] = Encode(m)[j]
          /\ \A j \in 1..s : Encode(m)[j] = Newline <=> j = s
          /\ Encode(m)[1] # Colon
      BY <2>1, <2>2 DEF StartsWith
    <2>4. k < s
      <3>1. SUFFICES ASSUME ~(k < s) PROVE FALSE
        OBVIOUS
      <3>2. s \in 1..k /\ s \in 1..s /\ s <= s
        <4>1. s >= 3
          BY <2>3
        <4> QED
          BY <3>1, <4>1
      <3>3. P[s] = Newline
        BY <2>3, <3>2
      <3> QED
        BY <1>3, <3>2, <3>3
    <2>5. \A j \in 1..k : P[j] = Encode(m)[j]
      <3>1. \A j \in 1..k : j <= s
        BY <2>4
      <3> QED
        BY <2>3, <3>1
    <2>6. /\ at[n] \in Nat /\ at[1] <= at[n]
          /\ n # 1 => n - 1 \in 0..n /\ at[n - 1] \in Nat /\ at[1] <= at[n - 1]
      <3>1. 1 \in 0..n /\ n \in 0..n /\ 1 <= n
            /\ (n # 1 => 1 <= n - 1 /\ n - 1 \in 0..n)
        BY <1>6
      <3> QED
        BY <1>2, <3>1 DEF Laid
    <2>7. Whole(P, 0, r, ms, FALSE, n, at)
      <3>1. ~(at[n] < k)
        BY <2>2, <2>4, <2>6
      <3> QED
        BY <1>2, <1>3, <3>1 DEF After, Spoilt
    <2>8. n = 1
      <3>1. at[n - 1] <= Len(P) - 0
        BY <1>6, <2>7 DEF Whole
      <3>2. at[n - 1] <= k
        BY <1>3, <3>1
      <3> QED
        BY <2>2, <2>4, <2>6, <3>2
    <2>9. r + 1 = Len(ms)
      BY <2>7, <2>8 DEF Whole
    <2>10. CASE k >= 2
      <3>2. PartRead(P, Q, at) /\ 0 <= Len(Q) /\ 0 \in Nat
        BY <1>3, <2>2, <2>4 DEF PartRead
      <3>3. Stream(Q, 0, r + 1, ms, FALSE, attempts)
        BY <1>2, <1>4, <1>6, <3>2, StreamLeft
      <3>4. r + 1 <= Len(ms) /\ Len(P) >= 2 /\ Len(P) <= Size(m)
        BY <1>3, <2>1, <2>3, <2>4, <2>10
      <3>5. \A j \in 1..Len(P) : P[j] = Encode(m)[j]
        BY <1>3, <2>5
      <3>6. Message(P, Q, 0, r, ms, FALSE, attempts)
        BY <2>0, <3>3, <3>4, <3>5 DEF Message
      <3> QED
        BY <2>9, <3>6
    <2>11. CASE ~(k >= 2)
      <3>1. \A i \in 1..k : i = 1
        BY <2>11
      <3>2. \A i \in 1..k : P[i] # Colon
        BY <2>3, <2>5, <3>1
      <3> QED
        BY <1>3, <3>2 DEF NoMessage
    <2> QED
      BY <2>10, <2>11
  <1> QED
    BY <1>5, <1>6

-----------------------------------------------------------------------------
(* The characters on their way, step by step                               *)

IsJoin(x, a, b) == x = a \o b

\* Concatenation is associative.
LEMMA Assoc ==
  ASSUME NEW a \in Seq(Char), NEW b \in Seq(Char), NEW c \in Seq(Char),
         NEW ab, NEW bc, NEW x,
         IsJoin(ab, a, b), IsJoin(bc, b, c), IsJoin(x, ab, c)
  PROVE  IsJoin(x, a, bc)
  BY ConcatAssociative DEF IsJoin

\* Its parts are found again in it.
LEMMA JoinSplits ==
  ASSUME NEW l \in Seq(Char), NEW Q \in Seq(Char), NEW P, IsJoin(P, l, Q)
  PROVE  Splits(P, l, Q)
  <1>1. /\ Len(l \o Q) = Len(l) + Len(Q)
        /\ \A i \in 1..Len(l) : (l \o Q)[i] = l[i]
        /\ \A i \in 1..Len(Q) : (l \o Q)[Len(l) + i] = Q[i]
    BY ConcatChars
  <1> QED
    BY <1>1 DEF Splits, IsJoin

\* It gives sequences of characters.
LEMMA Joined ==
  ASSUME NEW a \in Seq(Char), NEW b \in Seq(Char)
  PROVE  a \o b \in Seq(Char)
  OBVIOUS

\* The empty sequence is its unit.
LEMMA EmptyPart ==
  ASSUME NEW a \in Seq(Char)
  PROVE  a \o << >> = a /\ << >> \o a = a
  BY ConcatEmptySeq

\* A sequence is its first k characters and the others.
LEMMA TwoHalves ==
  ASSUME NEW s \in Seq(Char), NEW k \in 1..Len(s)
  PROVE  LET a == SubSeq(s, 1, k)
             b == SubSeq(s, k + 1, Len(s))
         IN  /\ a \in Seq(Char) /\ b \in Seq(Char) /\ a \o b = s
             /\ Len(a) = k /\ Len(b) = Len(s) - k
  <1>1. /\ Len(s) \in Nat /\ 1 \in 1..Len(s) + 1 /\ k \in 1 - 1..Len(s)
        /\ k + 1 \in 1..Len(s) + 1 /\ Len(s) \in (k + 1) - 1..Len(s)
        /\ k - 1 + 1 = k /\ Len(s) - (k + 1) + 1 = Len(s) - k
        /\ Len(s) \in k..Len(s)
    OBVIOUS
  <1>2. SubSeq(s, 1, k) \in Seq(Char) /\ Len(SubSeq(s, 1, k)) = k - 1 + 1
    BY <1>1, Slice
  <1>3. /\ SubSeq(s, k + 1, Len(s)) \in Seq(Char)
        /\ Len(SubSeq(s, k + 1, Len(s))) = Len(s) - (k + 1) + 1
    BY <1>1, Slice
  <1>4. SubSeq(s, 1, k) \o SubSeq(s, k + 1, Len(s)) = SubSeq(s, 1, Len(s))
    BY <1>1, ConcatAdjacentSubSeq
  <1>5. SubSeq(s, 1, Len(s)) = s
    BY SubSeqFull
  <1> QED
    BY <1>1, <1>2, <1>3, <1>4, <1>5

Regroups(a, b, c, d) ==
    /\ a \o b \o c \o d \in Seq(Char)
    /\ Len(a \o b \o c \o d) = Len(a) + Len(b) + Len(c) + Len(d)
    /\ a \o b \o c \o d = a \o (b \o c \o d)
    /\ a \o b \o c \o d = a \o (b \o c) \o d
    /\ a \o b \o c \o d = a \o b \o (c \o d)
    /\ b \o c \o d \in Seq(Char)

\* Four parts.
LEMMA FourParts ==
  ASSUME NEW a \in Seq(Char), NEW b \in Seq(Char), NEW c \in Seq(Char),
         NEW d \in Seq(Char)
  PROVE  Regroups(a, b, c, d)
  <1>1. PICK ab \in Seq(Char) : ab = a \o b
    BY Joined
  <1>2. PICK bc \in Seq(Char) : bc = b \o c
    BY Joined
  <1>3. PICK cd \in Seq(Char) : cd = c \o d
    BY Joined
  <1>4. PICK abc \in Seq(Char) : abc = ab \o c
    BY Joined
  <1>5. PICK bcd \in Seq(Char) : bcd = bc \o d
    BY Joined
  <1>6. PICK abcd \in Seq(Char) : abcd = abc \o d
    BY Joined
  <1>7. /\ IsJoin(ab, a, b) /\ IsJoin(bc, b, c) /\ IsJoin(cd, c, d)
        /\ IsJoin(abc, ab, c) /\ IsJoin(bcd, bc, d) /\ IsJoin(abcd, abc, d)
    BY <1>1, <1>2, <1>3, <1>4, <1>5, <1>6 DEF IsJoin
  <1>8. IsJoin(abc, a, bc)
    BY <1>7, Assoc
  <1>9. IsJoin(abcd, a, bcd)
    BY <1>7, <1>8, Assoc
  <1>10. IsJoin(abcd, ab, cd)
    BY <1>7, Assoc
  <1>11. /\ Len(ab) = Len(a) + Len(b) /\ Len(abc) = Len(ab) + Len(c)
         /\ Len(abcd) = Len(abc) + Len(d)
    BY <1>1, <1>4, <1>6, ConcatChars
  <1>12. abcd = a \o bcd /\ abc = a \o bc /\ abcd = ab \o cd
    BY <1>8, <1>9, <1>10 DEF IsJoin
  <1>13. a \o b \o c \o d = abcd /\ b \o c \o d = bcd
    BY <1>1, <1>2, <1>4, <1>5, <1>6
  <1> QED
    BY <1>1, <1>2, <1>3, <1>6, <1>11, <1>12, <1>13 DEF Regroups

\* The parts of the pipe.
Parts ==
    /\ line \in Seq(Char) /\ rio_buf \in Seq(Char) /\ wire \in Seq(Char)
    /\ out \in Seq(Char) /\ Pipe \in Seq(Char)
    /\ Len(Pipe) = Len(line) + Len(rio_buf) + Len(wire) + Len(out)
    /\ sent \in Seq(Sendable) /\ Len(received) \in Nat /\ Len(sent) \in Nat
    /\ asked \in Nat /\ Len(out) \in Nat /\ s_open \in BOOLEAN
    /\ Len(sent) <= asked /\ Len(received) <= Len(sent)

\* They are sequences of characters.
LEMMA PipeParts ==
  ASSUME TypeInv, InOrder
  PROVE  Parts
  <1>1. /\ line \in Seq(Char) /\ rio_buf \in Seq(Char) /\ wire \in Seq(Char)
        /\ out \in Seq(Char) /\ sent \in Seq(Sendable) /\ s_open \in BOOLEAN
        /\ asked \in 0..MaxSends /\ Len(sent) <= asked /\ Len(received) <= Len(sent)
    BY DEF TypeInv, TypeOK, InOrder
  <1>2. asked \in Nat /\ Len(received) \in Nat /\ Len(sent) \in Nat /\ Len(out) \in Nat
    BY <1>1 DEF TypeInv
  <1> QED
    <2>1. Regroups(line, rio_buf, wire, out)
      BY <1>1, FourParts
    <2> QED
      BY <1>1, <1>2, <2>1 DEF Parts, Pipe, Regroups

\* write() moves characters from the sender to the wire.
LEMMA PipeWritten ==
  ASSUME TypeInv, Write
  PROVE  /\ Pipe' = Pipe /\ out' \in Seq(Char) /\ wire' \in Seq(Char)
         /\ Len(out') <= Len(out)
  <1>1. PICK k \in 1..Len(out) :
          wire' = wire \o SubSeq(out, 1, k) /\ out' = SubSeq(out, k + 1, Len(out))
    BY DEF Write
  <1>2. /\ line \in Seq(Char) /\ rio_buf \in Seq(Char) /\ wire \in Seq(Char)
        /\ out \in Seq(Char) /\ Len(out) \in Nat /\ line' = line /\ rio_buf' = rio_buf
    BY DEF TypeInv, TypeOK, Write, receiver
  <1>3. PICK a \in Seq(Char), b \in Seq(Char) :
          /\ a = SubSeq(out, 1, k) /\ b = SubSeq(out, k + 1, Len(out))
          /\ a \o b = out /\ Len(b) = Len(out) - k
    BY <1>2, TwoHalves
  <1>4. PICK h \in Seq(Char) : h = line \o rio_buf
    BY <1>2, Joined
  <1>5. Pipe = h \o wire \o (a \o b) /\ Pipe' = h \o (wire \o a) \o b
    BY <1>1, <1>2, <1>3, <1>4 DEF Pipe
  <1>6. h \o wire \o a \o b = h \o (wire \o a) \o b
        /\ h \o wire \o a \o b = h \o wire \o (a \o b) /\ wire \o a \in Seq(Char)
    <2>1. Regroups(h, wire, a, b) /\ wire \o a \in Seq(Char)
      BY <1>2, FourParts, Joined
    <2> QED
      BY <2>1 DEF Regroups
  <1>7. out' = b /\ wire' = wire \o a /\ Len(b) <= Len(out)
    BY <1>1, <1>2, <1>3
  <1> QED
    BY <1>5, <1>6, <1>7

\* read() moves characters from the wire to the buffer.
LEMMA PipeRefilled ==
  ASSUME TypeInv, Refill
  PROVE  /\ Pipe' = Pipe /\ wire' \in Seq(Char)
         /\ rio_buf' \in Seq(Char) /\ Len(rio_buf') <= BufSize
  <1>1. PICK k \in 1..BufSize :
          /\ k <= Len(wire)
          /\ rio_buf' = SubSeq(wire, 1, k) /\ wire' = SubSeq(wire, k + 1, Len(wire))
    BY DEF Refill
  <1>2. /\ line \in Seq(Char) /\ rio_buf = << >> /\ wire \in Seq(Char)
        /\ out \in Seq(Char) /\ line' = line /\ out' = out
    BY DEF TypeInv, TypeOK, Refill, sender
  <1>3. k \in 1..Len(wire)
    BY <1>1, <1>2
  <1>4. PICK a \in Seq(Char), b \in Seq(Char) :
          /\ a = SubSeq(wire, 1, k) /\ b = SubSeq(wire, k + 1, Len(wire))
          /\ a \o b = wire /\ Len(a) = k
    <2>1. /\ SubSeq(wire, 1, k) \in Seq(Char) /\ SubSeq(wire, k + 1, Len(wire)) \in Seq(Char)
          /\ SubSeq(wire, 1, k) \o SubSeq(wire, k + 1, Len(wire)) = wire
          /\ Len(SubSeq(wire, 1, k)) = k
      BY <1>2, <1>3, TwoHalves
    <2> QED
      BY <2>1
  <1>5. Pipe = line \o << >> \o (a \o b) \o out /\ Pipe' = line \o a \o b \o out
    BY <1>1, <1>2, <1>4 DEF Pipe
  <1>6. line \o << >> = line /\ line \o (a \o b) \o out = line \o a \o b \o out
    <2>1. Regroups(line, a, b, out) /\ line \o << >> = line
      BY <1>2, FourParts, EmptyPart
    <2> QED
      BY <2>1 DEF Regroups
  <1>7. Pipe' = Pipe
    BY <1>5, <1>6
  <1> QED
    BY <1>1, <1>4, <1>7

\* One character more.
LEMMA AppendChar ==
  ASSUME NEW s \in Seq(Char), NEW c \in Char
  PROVE  /\ Append(s, c) = s \o <<c>> /\ <<c>> \in Seq(Char)
         /\ Append(s, c) \in Seq(Char) /\ Len(Append(s, c)) = Len(s) + 1
         /\ Append(s, c)[Len(Append(s, c))] = c
         /\ \A i \in 1..Len(s) : Append(s, c)[i] = s[i]
  <1>1. PICK t : t = Append(s, c)
    OBVIOUS
  <1>2. /\ t \in Seq(Char) /\ Len(t) = Len(s) + 1
        /\ \A i \in 1..Len(t) : t[i] = IF i <= Len(s) THEN s[i] ELSE c
    BY <1>1
  <1>3. PICK e \in Seq(Char) : e = <<c>> /\ Len(e) = 1 /\ e[1] = c
    <2>1. <<c>> \in Seq(Char) /\ Len(<<c>>) = 1 /\ <<c>>[1] = c
      OBVIOUS
    <2> QED
      BY <2>1
  <1>4. PICK u \in Seq(Char) : u = s \o e
    BY Joined
  <1>5. /\ Len(u) = Len(s) + 1 /\ Len(s) \in Nat
        /\ \A i \in 1..Len(u) : u[i] = IF i <= Len(s) THEN s[i] ELSE c
    <2>1. /\ Len(u) = Len(s) + Len(e) /\ Len(s) \in Nat
          /\ \A i \in 1..Len(u) : u[i] = IF i <= Len(s) THEN s[i] ELSE e[i - Len(s)]
      BY <1>4, ConcatChars
    <2> QED
      BY <1>3, <2>1
  <1>6. t = u
    <2>1. Len(t) = Len(u) /\ \A i \in 1..Len(t) : t[i] = u[i]
      BY <1>2, <1>5
    <2> QED
      BY <1>2, <2>1, SeqEqual
  <1> QED
    BY <1>1, <1>2, <1>3, <1>4, <1>6

\* rio_readlineb has taken a character: its line and the rest of the pipe.
LEMMA PipeRead ==
  ASSUME TypeInv, r_open, rio_buf # << >>,
         NEW l, l = Append(line, Head(rio_buf)),
         NEW Q, Q = Tail(rio_buf) \o wire \o out
  PROVE  /\ l \in Seq(Char) /\ Len(l) = Len(line) + 1 /\ l[Len(l)] = Head(rio_buf)
         /\ \A i \in 1..Len(line) : l[i] = line[i]
         /\ Q \in Seq(Char) /\ Splits(Pipe, l, Q) /\ Len(out) <= Len(Q)
         /\ Tail(rio_buf) \in Seq(Char) /\ Len(Tail(rio_buf)) <= BufSize
         /\ Pipe = l \o Q /\ l \o Tail(rio_buf) \o wire \o out = l \o Q
         /\ << >> \o Tail(rio_buf) \o wire \o out = Q
  <1>1. /\ line \in Seq(Char) /\ rio_buf \in Seq(Char) /\ wire \in Seq(Char)
        /\ out \in Seq(Char) /\ Len(rio_buf) <= BufSize
    BY DEF TypeInv, TypeOK
  <1>2. PICK h \in Char, t \in Seq(Char) :
          /\ h = Head(rio_buf) /\ t = Tail(rio_buf) /\ Len(t) = Len(rio_buf) - 1
          /\ rio_buf[1] = h /\ \A i \in 1..Len(t) : t[i] = rio_buf[i + 1]
    <2>1. /\ Head(rio_buf) \in Char /\ Tail(rio_buf) \in Seq(Char)
          /\ Len(Tail(rio_buf)) = Len(rio_buf) - 1
          /\ \A i \in 1..Len(Tail(rio_buf)) : Tail(rio_buf)[i] = rio_buf[i + 1]
      BY <1>1, HeadTailProperties
    <2>2. Head(rio_buf) = rio_buf[1]
      BY <1>1
    <2> QED
      BY <2>1, <2>2
  <1>3. rio_buf = <<h>> \o t
    <2>1. /\ <<h>> \in Seq(Char) /\ Len(<<h>>) = 1 /\ Len(rio_buf) \in Nat
          /\ Len(<<h>> \o t) = 1 + Len(t) /\ <<h>> \o t \in Seq(Char)
      BY <1>1, <1>2
    <2>2. ASSUME NEW i \in 1..Len(rio_buf) PROVE (<<h>> \o t)[i] = rio_buf[i]
      <3>1. CASE i = 1
        BY <1>2, <2>1, <3>1
      <3>2. CASE i # 1
        <4>1. i - 1 \in 1..Len(t) /\ (i - 1) + 1 = i /\ ~(i <= 1)
          BY <1>2, <2>1, <3>2
        <4>2. (<<h>> \o t)[i] = t[i - 1]
          BY <1>2, <2>1, <4>1
        <4> QED
          BY <1>2, <4>1, <4>2
      <3> QED
        BY <3>1, <3>2
    <2> QED
      BY <1>1, <1>2, <2>1, <2>2, SeqEqual
  <1>4. <<h>> \in Seq(Char) /\ l = line \o <<h>>
    BY <1>1, <1>2, AppendChar
  <1>5. /\ l \in Seq(Char) /\ Len(l) = Len(line) + 1 /\ l[Len(l)] = h
        /\ \A i \in 1..Len(line) : l[i] = line[i]
    BY <1>1, <1>2, AppendChar
  <1>6. Pipe = l \o t \o wire \o out
    <2>1. PICK c \in Seq(Char) : c = <<h>>
      BY <1>4
    <2>2. IsJoin(rio_buf, c, t) /\ IsJoin(l, line, c) /\ IsJoin(l \o t, l, t)
      BY <1>3, <1>4, <2>1 DEF IsJoin
    <2>3. IsJoin(l \o t, line, rio_buf)
      BY <1>1, <2>2, Assoc
    <2> QED
      BY <2>3 DEF Pipe, IsJoin
  <1>7. /\ l \o t \o wire \o out = l \o Q /\ Q \in Seq(Char)
    <2>1. Regroups(l, t, wire, out)
      BY <1>1, <1>2, <1>5, FourParts
    <2> QED
      BY <1>2, <2>1 DEF Regroups
  <1>8. Splits(Pipe, l, Q)
    <2>1. IsJoin(Pipe, l, Q)
      BY <1>6, <1>7 DEF IsJoin
    <2> QED
      BY <1>5, <1>7, <2>1, JoinSplits
  <1>9. Len(out) <= Len(Q)
    <2>1. PICK tw \in Seq(Char) : tw = t \o wire
      BY <1>1, Joined
    <2>2. Len(tw \o out) = Len(tw) + Len(out) /\ Len(tw) \in Nat /\ Len(out) \in Nat
      BY <1>1, ConcatChars
    <2> QED
      BY <1>2, <2>1, <2>2
  <1>10. << >> \o t = t
    BY EmptyPart
  <1>11. Len(t) <= BufSize
    BY <1>1, <1>2, SizeAssumption
  <1> QED
    BY <1>2, <1>5, <1>6, <1>7, <1>8, <1>9, <1>10, <1>11

-----------------------------------------------------------------------------
(* The steps                                                               *)

\* A step that leaves alone what the invariant is about.
LEMMA Untouched ==
  ASSUME IInv, UNCHANGED <<sent, out, s_open, wire, rio_buf, line, received, r_open>>,
         asked' = asked, send_result' \in Results, result' \in Results
  PROVE  IInv'
  <1>1. TypeInv'
    BY DEF IInv, TypeInv, TypeOK
  <1>2. InOrder'
    BY DEF IInv, InOrder
  <1>3. PipeInv'
    BY DEF IInv, PipeInv, Pipe
  <1>4. ShortInv'
    BY DEF IInv, ShortInv, Kept, AllAccepted
  <1> QED
    BY <1>1, <1>2, <1>3, <1>4 DEF IInv

\* Nothing is on its way at first.
LEMMA FramingInit == Init => IInv
  <1> SUFFICES ASSUME Init PROVE IInv
    OBVIOUS
  <1> USE DEF Init
  <1>1. TypeInv
    <2>1. \A S : << >> \in Seq(S) /\ Len(<< >>) = 0
      BY EmptySeq
    <2> QED
      BY <2>1, SizeAssumption DEF TypeInv, TypeOK, Results
  <1>2. InOrder
    BY DEF InOrder
  <1>3. PipeInv
    <2>1. Pipe = << >> /\ Len(out) = 0 /\ Len(received) = 0
      BY DEF Pipe
    <2>2. PICK none \in [0..0 -> Nat] : none[0] = 0
      <3> DEFINE f == [k \in 0..0 |-> 0]
      <3>1. f \in [0..0 -> Nat] /\ f[0] = 0
        OBVIOUS
      <3> QED
        BY <3>1
    <2>3. PICK ms \in Seq(Sendable), Q \in Seq(Char) : ms = << >> /\ Q = << >>
      BY EmptySeq
    <2>4. Laid(Q, 0, ms, 0, none)
      <3>1. 0 \in Nat /\ 0 <= Len(ms)
        BY <2>3
      <3> QED
        BY <2>2, <3>1, LaidNone
    <2>5. Whole(Q, 0, 0, ms, TRUE, 0, none)
      BY <2>2, <2>3 DEF Whole
    <2>6. Stream(Q, 0, 0, ms, TRUE, asked)
      BY <2>4, <2>5 DEF Stream, After
    <2> QED
      BY <2>1, <2>3, <2>6 DEF PipeInv
  <1>4. ShortInv
    BY DEF ShortInv, Kept
  <1> QED
    BY <1>1, <1>2, <1>3, <1>4 DEF IInv

\* A whole message more was accepted: the received ones are still in order.
LEMMA SendAccepts ==
  ASSUME IInv, CanSend, asked' = asked + 1,
         NEW m \in MessagesOf(asked'), Fits(m), ~Contains(m.data, Newline),
         sent' = Append(sent, m), out' = Encode(m),
         UNCHANGED <<send_result, s_open, wire, receiver>>
  PROVE  IInv'
  <1>1. /\ TypeInv /\ InOrder /\ Parts /\ s_open = TRUE /\ out = << >>
        /\ asked < MaxSends /\ MaxSends \in Nat
    BY PipeParts, SizeAssumption DEF IInv, CanSend, TypeInv, TypeOK
  <1>2. asked' \in 1..MaxSends
    BY <1>1 DEF Parts
  <1>3. m \in Sendable /\ Size(m) \in Nat
    BY <1>2, AcceptedIsSendable
  <1>4. Encode(m) \in Seq(Char) /\ Len(Encode(m)) = Size(m)
    BY <1>3, EncodeShape
  <1>5. /\ sent' \in Seq(Sendable) /\ Len(sent') = Len(sent) + 1
        /\ \A i \in 1..Len(sent) : sent'[i] = sent[i]
    BY <1>1, <1>3 DEF Parts
  <1>6. TypeInv'
    <2>1. asked' \in 0..MaxSends /\ Len(sent') <= asked'
      BY <1>1, <1>2, <1>5 DEF Parts
    <2>2. /\ out' \in Seq(Char) /\ wire' \in Seq(Char) /\ rio_buf' \in Seq(Char)
          /\ line' \in Seq(Char) /\ Len(rio_buf') <= BufSize /\ Len(line') < MaxLen - 1
          /\ send_result' \in Results /\ result' \in Results
          /\ s_open' \in BOOLEAN /\ r_open' \in BOOLEAN
          /\ received' \in Seq([tag : Seq(Char), data : Seq(Char)])
          /\ \A i \in 1..Len(line') : line'[i] # Newline
          /\ s_open' = TRUE
      BY <1>1, <1>4 DEF TypeInv, TypeOK, receiver
    <2> QED
      BY <1>5, <2>1, <2>2 DEF TypeInv, TypeOK
  <1>7. InOrder'
    <2>1. received' = received /\ s_open' = s_open
      BY DEF receiver
    <2>2. \A i \in 1..Len(received) :
            received[i] = Arriving(sent[i]) /\ i \in 1..Len(sent)
      BY <1>1 DEF InOrder, Parts
    <2>3. Len(received) <= Len(sent')
      BY <1>1, <1>5 DEF Parts
    <2> QED
      BY <1>5, <2>1, <2>2, <2>3 DEF InOrder
  <1>8. PipeInv'
    <2>1. SUFFICES ASSUME r_open PROVE Stream(Pipe, Len(out), Len(received), sent, s_open, asked)'
      BY DEF PipeInv, receiver
    <2>2. Stream(Pipe, 0, Len(received), sent, TRUE, asked)
      <3>1. Len(out) = 0
        BY <1>1
      <3> QED
        BY <1>1, <2>1, <3>1 DEF IInv, PipeInv
    <2>3. Pipe \o Encode(m) = Pipe'
      <3>1. PICK h \in Seq(Char) : h = line \o rio_buf \o wire
        BY <1>1, Joined DEF Parts
      <3>2. h \o << >> = h
        BY EmptyPart
      <3> QED
        BY <1>1, <3>1, <3>2 DEF Pipe, receiver
    <2>4. Stream(Pipe \o Encode(m), Size(m), Len(received), Append(sent, m), TRUE, asked + 1)
      BY <1>1, <1>3, <2>2, StreamSent DEF Parts
    <2> QED
      BY <1>1, <1>4, <2>3, <2>4 DEF receiver
  <1>9. ShortInv'
    <2>1. AllAccepted' <=> AllAccepted
      BY <1>1, <1>5 DEF AllAccepted, Parts
    <2> QED
      BY <2>1 DEF IInv, ShortInv, Kept, receiver
  <1> QED
    BY <1>6, <1>7, <1>8, <1>9 DEF IInv

\* send refuses a message.
LEMMA SendRefuses ==
  ASSUME IInv, CanSend, asked' = asked + 1, send_result' = "INVALID_MSG",
         UNCHANGED <<sent, out, s_open, wire, receiver>>
  PROVE  IInv'
  <1>1. /\ TypeInv /\ InOrder /\ Parts
        /\ asked < MaxSends /\ MaxSends \in Nat
    BY PipeParts, SizeAssumption DEF IInv, CanSend, TypeInv, TypeOK
  <1>2. TypeInv'
    <2>1. asked' \in 0..MaxSends /\ Len(sent') <= asked'
      BY <1>1 DEF Parts
    <2> QED
      BY <1>1, <2>1 DEF TypeInv, TypeOK, Results, receiver
  <1>3. InOrder'
    BY <1>1 DEF InOrder, receiver
  <1>4. PipeInv'
    <2>1. SUFFICES ASSUME r_open PROVE Stream(Pipe, Len(out), Len(received), sent, s_open, asked)'
      BY DEF PipeInv, receiver
    <2>2. Stream(Pipe, Len(out), Len(received), sent, s_open, asked)
      BY <2>1 DEF IInv, PipeInv
    <2>3. Stream(Pipe, Len(out), Len(received), sent, s_open, asked + 1)
      BY <1>1, <2>2, StreamRefused DEF Parts
    <2>4. Pipe' = Pipe
      BY DEF Pipe, receiver
    <2> QED
      BY <2>3, <2>4 DEF receiver
  <1>5. ShortInv'
    <2>1. ~AllAccepted'
      BY <1>1 DEF AllAccepted, Parts
    <2> QED
      BY <2>1 DEF ShortInv, Kept
  <1> QED
    BY <1>2, <1>3, <1>4, <1>5 DEF IInv

\* Connection::send
LEMMA SendStep == ASSUME IInv, OneLineEach', Send PROVE IInv'
  <1>1. CanSend /\ asked' = asked + 1 /\ UNCHANGED <<s_open, wire, receiver>>
    BY DEF Send
  <1>2. PICK m \in MessagesOf(asked') :
          \/ /\ Fits(m) /\ sent' = Append(sent, m) /\ out' = Encode(m)
             /\ UNCHANGED send_result
          \/ /\ send_result' = "INVALID_MSG"
             /\ UNCHANGED <<sent, out>>
    BY DEF Send
  <1>3. CASE /\ Fits(m) /\ sent' = Append(sent, m) /\ out' = Encode(m)
             /\ UNCHANGED send_result
    <2>1. ~Contains(m.data, Newline)
      <3>1. sent \in Seq(Sendable)
        BY DEF IInv, TypeInv
      <3>2. Len(sent) + 1 \in DOMAIN sent' /\ sent'[Len(sent) + 1] = m
        BY <1>3, <3>1
      <3> QED
        BY <3>2 DEF OneLineEach
    <2> QED
      BY <1>1, <1>3, <2>1, SendAccepts
  <1>4. CASE send_result' = "INVALID_MSG" /\ UNCHANGED <<sent, out>>
    BY <1>1, <1>4, SendRefuses
  <1> QED
    BY <1>2, <1>3, <1>4

\* Some other program sends a line.
LEMMA SendGarbageStep == ASSUME IInv, SendGarbage PROVE IInv'
  <1>1. /\ TypeInv /\ InOrder /\ Parts /\ s_open = TRUE /\ out = << >>
        /\ asked < MaxSends /\ MaxSends \in Nat /\ asked' = asked + 1
        /\ out' \in GarbageOf(asked')
        /\ UNCHANGED <<sent, send_result, s_open, wire, receiver>>
    BY PipeParts, SizeAssumption DEF IInv, CanSend, TypeInv, TypeOK, SendGarbage
  <1>2. asked' \in 1..MaxSends
    BY <1>1 DEF Parts
  <1>3. PICK e \in Seq(Char), z \in Nat \ {0} :
          e = out' /\ z = Len(e) /\ e[z] = Newline /\ NoMessage(e)
    BY <1>1, <1>2, GarbageLine
  <1>4. TypeInv'
    <2>1. asked' \in 0..MaxSends /\ Len(sent') <= asked' /\ out' \in Seq(Char)
      BY <1>1, <1>2, <1>3 DEF Parts
    <2> QED
      BY <1>1, <2>1 DEF TypeInv, TypeOK, receiver
  <1>5. InOrder'
    BY <1>1 DEF InOrder, receiver
  <1>6. PipeInv'
    <2>1. SUFFICES ASSUME r_open PROVE Stream(Pipe, Len(out), Len(received), sent, s_open, asked)'
      BY <1>1 DEF PipeInv, receiver
    <2>2. Stream(Pipe, 0, Len(received), sent, TRUE, asked)
      <3>1. Len(out) = 0
        BY <1>1
      <3> QED
        BY <1>1, <2>1, <3>1 DEF IInv, PipeInv
    <2>3. PICK Q \in Seq(Char) : Q = Pipe \o e /\ Q = Pipe'
      <3>1. PICK h \in Seq(Char) : h = line \o rio_buf \o wire
        BY <1>1, Joined DEF Parts
      <3>2. h \o << >> = h /\ h \o e \in Seq(Char)
        BY EmptyPart, Joined
      <3> QED
        BY <1>1, <1>3, <3>1, <3>2 DEF Pipe, receiver
    <2>4. /\ Len(Q) = Len(Pipe) + z /\ Len(Pipe) \in Nat
          /\ \A i \in 1..Len(Pipe) : Q[i] = Pipe[i]
          /\ \A i \in 1..z : Q[Len(Pipe) + i] = e[i]
      <3>1. /\ Len(Pipe \o e) = Len(Pipe) + Len(e) /\ Len(Pipe) \in Nat
            /\ \A i \in 1..Len(Pipe) : (Pipe \o e)[i] = Pipe[i]
            /\ \A i \in 1..Len(e) : (Pipe \o e)[Len(Pipe) + i] = e[i]
        BY <1>1, ConcatChars DEF Parts
      <3> QED
        BY <1>3, <2>3, <3>1
    <2>5. Extends(Q, Pipe)
      BY <2>4 DEF Extends
    <2>6. GivenUp(Q, Len(Pipe), TRUE)
      <3>1. PICK p \in Nat : p = Len(Pipe)
        BY <2>4
      <3>2. p + z <= Len(Q) /\ z \in 1..z
        BY <2>4, <3>1
      <3>3. ASSUME NEW j \in 1..z
            PROVE  Q[p + j] # Colon \/ \E h \in 1..j : Q[p + h] = Nul
        <4>1. \A h \in 1..j : h \in 1..z
          OBVIOUS
        <4> QED
          BY <1>3, <2>4, <3>1, <4>1 DEF NoMessage
      <3>4. Q[p + z] = Newline
        BY <1>3, <2>4, <3>1, <3>2
      <3> QED
        BY <3>1, <3>2, <3>3, <3>4 DEF GivenUp
    <2>7. asked + 1 \in Nat /\ asked + 1 > asked
      BY <1>1 DEF Parts
    <2>8. Stream(Q, z, Len(received), sent, TRUE, asked + 1)
      BY <1>1, <2>2, <2>4, <2>5, <2>6, <2>7, StreamGarbage DEF Parts
    <2> QED
      BY <1>1, <1>3, <2>3, <2>8 DEF receiver
  <1>7. ShortInv'
    <2>1. ~AllAccepted'
      BY <1>1 DEF AllAccepted, Parts
    <2> QED
      BY <2>1 DEF ShortInv, Kept
  <1> QED
    BY <1>4, <1>5, <1>6, <1>7 DEF IInv

\* rio_writen
LEMMA WriteStep == ASSUME IInv, Write PROVE IInv'
  <1>1. /\ TypeInv /\ InOrder /\ Parts /\ s_open = TRUE
        /\ UNCHANGED <<sent, asked, s_open, receiver>>
        /\ send_result' \in Results
    BY PipeParts DEF IInv, Write, TypeInv, TypeOK, Results
  <1>2. /\ Pipe' = Pipe /\ out' \in Seq(Char) /\ wire' \in Seq(Char)
        /\ Len(out') <= Len(out)
    BY <1>1, PipeWritten
  <1>3. TypeInv'
    BY <1>1, <1>2 DEF TypeInv, TypeOK, receiver
  <1>4. InOrder'
    BY <1>1 DEF InOrder, receiver
  <1>5. PipeInv'
    <2>1. SUFFICES ASSUME r_open PROVE Stream(Pipe, Len(out), Len(received), sent, s_open, asked)'
      BY <1>1 DEF PipeInv, receiver
    <2>2. Stream(Pipe, Len(out), Len(received), sent, s_open, asked)
      BY <2>1 DEF IInv, PipeInv
    <2>3. PICK q \in Nat : q = Len(out')
      BY <1>2
    <2>4. Stream(Pipe, q, Len(received), sent, s_open, asked)
      BY <1>1, <1>2, <2>2, <2>3, StreamWritten DEF Parts
    <2> QED
      BY <1>1, <1>2, <2>3, <2>4 DEF receiver
  <1>6. ShortInv'
    BY <1>1 DEF IInv, ShortInv, Kept, AllAccepted, receiver
  <1> QED
    BY <1>3, <1>4, <1>5, <1>6 DEF IInv

\* rio_writen on a closed connection
LEMMA WriteFailsStep == ASSUME IInv, WriteFails PROVE IInv'
  <1>1. /\ TypeInv /\ InOrder /\ Parts /\ r_open = FALSE /\ out' = << >>
        /\ UNCHANGED <<sent, asked, s_open, wire, receiver>>
        /\ send_result' \in Results /\ << >> \in Seq(Char)
    BY PipeParts, EmptySeq DEF IInv, WriteFails, TypeInv, TypeOK, Results
  <1>2. TypeInv'
    BY <1>1 DEF TypeInv, TypeOK, receiver
  <1>3. InOrder'
    BY <1>1 DEF InOrder, receiver
  <1>4. PipeInv'
    BY <1>1 DEF PipeInv, receiver
  <1>5. ShortInv'
    BY <1>1 DEF IInv, ShortInv, Kept, AllAccepted, receiver
  <1> QED
    BY <1>2, <1>3, <1>4, <1>5 DEF IInv

\* ~Connection, or the sending process dies.
LEMMA CloseStep == ASSUME IInv, Close PROVE IInv'
  <1>1. /\ TypeInv /\ InOrder /\ Parts /\ s_open = TRUE
        /\ s_open' = FALSE /\ out' = << >> /\ << >> \in Seq(Char)
        /\ UNCHANGED <<sent, asked, send_result, wire, receiver>>
    BY PipeParts, EmptySeq DEF IInv, Close
  <1>2. TypeInv'
    BY <1>1 DEF TypeInv, TypeOK, receiver
  <1>3. InOrder'
    BY <1>1 DEF InOrder, receiver
  <1>4. PipeInv'
    <2>1. SUFFICES ASSUME r_open PROVE Stream(Pipe, Len(out), Len(received), sent, s_open, asked)'
      BY <1>1 DEF PipeInv, receiver
    <2>2. Stream(Pipe, Len(out), Len(received), sent, s_open, asked)
      BY <2>1 DEF IInv, PipeInv
    <2>3. PICK Q \in Seq(Char) : Q = line \o rio_buf \o wire /\ Q = Pipe'
      <3>1. PICK h \in Seq(Char) : h = line \o rio_buf \o wire
        BY <1>1, Joined DEF Parts
      <3>2. h \o << >> = h
        BY EmptyPart
      <3> QED
        BY <1>1, <3>1, <3>2 DEF Pipe, receiver
    <2>4. Extends(Pipe, Q) /\ Len(Pipe) = Len(Q) + Len(out)
      <3>1. /\ Len(Q \o out) = Len(Q) + Len(out) /\ Len(Q) \in Nat /\ Len(out) \in Nat
            /\ \A i \in 1..Len(Q) : (Q \o out)[i] = Q[i]
        BY <1>1, ConcatChars DEF Parts
      <3>2. Pipe = Q \o out
        BY <2>3 DEF Pipe
      <3> QED
        BY <3>1, <3>2 DEF Extends
    <2>5. Stream(Q, 0, Len(received), sent, FALSE, asked)
      BY <1>1, <2>2, <2>4, StreamCut DEF Parts
    <2>6. Len(out') = 0
      BY <1>1
    <2> QED
      BY <1>1, <2>3, <2>5, <2>6 DEF receiver
  <1>5. ShortInv'
    BY <1>1 DEF ShortInv, Kept
  <1> QED
    BY <1>2, <1>3, <1>4, <1>5 DEF IInv

\* rio_read
LEMMA RefillStep == ASSUME IInv, Refill PROVE IInv'
  <1>1. /\ TypeInv /\ InOrder
        /\ UNCHANGED <<sender, line, last, received, result, r_open>>
    BY DEF IInv, Refill
  <1>2. /\ Pipe' = Pipe /\ wire' \in Seq(Char)
        /\ rio_buf' \in Seq(Char) /\ Len(rio_buf') <= BufSize
    BY <1>1, PipeRefilled
  <1>3. TypeInv'
    BY <1>1, <1>2 DEF TypeInv, TypeOK, sender
  <1>4. InOrder'
    BY <1>1 DEF InOrder, sender
  <1>5. PipeInv'
    BY <1>1, <1>2 DEF IInv, PipeInv, sender
  <1>6. ShortInv'
    BY <1>1 DEF IInv, ShortInv, Kept, AllAccepted, sender
  <1> QED
    BY <1>3, <1>4, <1>5, <1>6 DEF IInv

\* What the reader leaves alone, and where it leaves the other characters.
Reads ==
    /\ r_open /\ UNCHANGED sender
    /\ wire' \in Seq(Char) /\ rio_buf' \in Seq(Char) /\ Len(rio_buf') <= BufSize

\* After receive has looked at a line, the types are right.
LEMMA FinishTypes ==
  ASSUME IInv, Reads, NEW l, Finish(l), line' = << >>,
         received' \in Seq([tag : Seq(Char), data : Seq(Char)]), r_open' \in BOOLEAN
  PROVE  TypeInv'
  <1>1. result' \in Results
    BY DEF Finish, Results
  <1>2. << >> \in Seq(Char) /\ Len(<< >>) = 0 /\ 0 < MaxLen - 1
    BY SizeAssumption, EmptySeq
  <1>3. \A i \in 1..Len(line') : line'[i] # Newline
    BY <1>2
  <1>4. TypeOK'
    BY <1>1, <1>2 DEF IInv, TypeInv, TypeOK, Reads, sender
  <1> QED
    BY <1>3, <1>4 DEF IInv, TypeInv, Reads, sender

\* receive gives up.
LEMMA ReadNoMessage ==
  ASSUME IInv, Reads, NEW l \in Seq(Char), Finish(l), NoMessage(l),
         Short => ~(s_open /\ AllAccepted)
  PROVE  IInv'
  <1>1. line' = << >> /\ received' = received /\ r_open' = FALSE
    BY NoColonFails DEF NoMessage
  <1>2. TypeInv'
    <2>1. /\ received' \in Seq([tag : Seq(Char), data : Seq(Char)])
          /\ r_open' \in BOOLEAN
      BY <1>1 DEF IInv, TypeInv
    <2> QED
      BY <1>1, <2>1, FinishTypes
  <1>3. InOrder'
    BY <1>1 DEF IInv, InOrder, Reads, sender
  <1>4. PipeInv'
    BY <1>1 DEF PipeInv
  <1>5. ShortInv'
    BY DEF ShortInv, Kept, AllAccepted, Reads, sender
  <1> QED
    BY <1>2, <1>3, <1>4, <1>5 DEF IInv

\* receive returns a message.
LEMMA ReadMessage ==
  ASSUME IInv, Reads, NEW l \in Seq(Char), Finish(l), NEW Q,
         Message(l, Q, Len(out), Len(received), sent, s_open, asked),
         Q = << >> \o rio_buf' \o wire' \o out,
         \/ Len(l) >= Size(sent[Len(received) + 1]) - 1
         \/ Len(received) + 1 = Len(sent) /\ ~s_open
  PROVE  IInv'
  <1>1. TypeInv /\ InOrder /\ Parts
    BY PipeParts DEF IInv
  <1>a. PICK r \in Nat : r = Len(received) + 1
    BY <1>1 DEF Parts
  <1>b. PICK m : m = sent[r]
    OBVIOUS
  <1>2. r = Len(received) + 1 /\ m = sent[r]
    BY <1>a, <1>b
  <1>3. /\ r <= Len(sent) /\ r \in 1..Len(sent) /\ Len(l) >= 2 /\ Len(l) <= Size(m)
        /\ \A j \in 1..Len(l) : l[j] = Encode(m)[j]
        /\ Stream(Q, Len(out), r, sent, s_open, asked)
    BY <1>1, <1>2 DEF Message, Parts
  <1>4. m \in Sendable
    BY <1>1, <1>2, <1>3 DEF Parts
  <1>5. line' = << >> /\ r_open' = r_open
    BY <1>3, <1>4, ReadsItem
  <1>6. PICK d \in Seq(Char) :
          /\ received' = Append(received, [tag |-> m.tag, data |-> d])
          /\ IsPrefix(d, CString(m.data))
          /\ Len(l) >= Size(m) - 1 => d = CString(m.data)
    BY <1>3, <1>4, ReadsItem
  <1>7. PICK got : got = [tag |-> m.tag, data |-> d]
    OBVIOUS
  <1>8. got \in [tag : Seq(Char), data : Seq(Char)]
    <2>1. PICK i \in 1..MaxSends : m.tag = <<i>>
      BY <1>4 DEF Sendable
    <2>2. i \in Char
      BY DEF Char
    <2>3. m.tag \in Seq(Char)
      BY <2>1, <2>2
    <2> QED
      BY <1>7, <2>3
  <1>9. /\ received' \in Seq([tag : Seq(Char), data : Seq(Char)])
        /\ Len(received') = r /\ received'[r] = got
        /\ \A i \in 1..Len(received) : received'[i] = received[i]
    <2>1. received \in Seq([tag : Seq(Char), data : Seq(Char)])
      BY <1>1 DEF TypeInv
    <2>2. received' = Append(received, got)
      BY <1>6, <1>7
    <2> QED
      BY <1>2, <1>8, <2>1, <2>2
  <1>10. TypeInv'
    <2>1. r_open' \in BOOLEAN
      BY <1>5 DEF IInv, TypeInv, TypeOK
    <2> QED
      BY <1>5, <1>9, <2>1, FinishTypes
  <1>11. InOrder'
    <2>1. sent' = sent /\ s_open' = s_open
      BY DEF Reads, sender
    <2>2. ASSUME NEW i \in 1..r
          PROVE  \/ received'[i] = Arriving(sent[i])
                 \/ /\ i = Len(sent) /\ ~s_open
                    /\ received'[i].tag = sent[i].tag
                    /\ IsPrefix(received'[i].data, CString(sent[i].data))
      <3>1. CASE i \in 1..Len(received)
        BY <1>1, <1>9, <3>1 DEF InOrder
      <3>2. CASE i = r
        <4>1. CASE Len(l) >= Size(m) - 1
          <5>1. Arriving(m) = [tag |-> m.tag, data |-> CString(m.data)]
            BY <1>4 DEF Sendable, Arriving
          <5> QED
            BY <1>2, <1>6, <1>7, <1>9, <3>2, <4>1, <5>1
        <4>2. CASE ~(Len(l) >= Size(m) - 1)
          <5>1. r = Len(sent) /\ ~s_open
            BY <1>2, <4>2
          <5>2. got.tag = m.tag /\ got.data = d
            BY <1>7
          <5> QED
            BY <1>2, <1>6, <1>9, <3>2, <5>1, <5>2
        <4> QED
          BY <4>1, <4>2
      <3>3. i \in 1..Len(received) \/ i = r
        <4>1. Len(received) \in Nat
          BY <1>1 DEF Parts
        <4> QED
          BY <1>2, <4>1
      <3> QED
        BY <3>1, <3>2, <3>3
    <2> QED
      BY <1>3, <1>9, <2>1, <2>2 DEF InOrder
  <1>12. PipeInv'
    <2>1. Pipe' = Q /\ out' = out /\ sent' = sent /\ s_open' = s_open /\ asked' = asked
      BY <1>5 DEF Pipe, Reads, sender
    <2> QED
      BY <1>3, <1>9, <2>1 DEF PipeInv
  <1>13. ShortInv'
    BY <1>5 DEF IInv, ShortInv, Kept, AllAccepted, Reads, sender
  <1> QED
    BY <1>10, <1>11, <1>12, <1>13 DEF IInv

\* One turn of rio_readlineb, and the rest of receive if it has a line.
LEMMA ReadCharStep == ASSUME IInv, ReadChar PROVE IInv'
  <1>1. TypeInv /\ InOrder /\ Parts /\ r_open /\ rio_buf # << >>
    BY PipeParts DEF IInv, ReadChar
  <1>2. PICK l : l = Append(line, Head(rio_buf))
    OBVIOUS
  <1>3. PICK Q : Q = Tail(rio_buf) \o wire \o out
    OBVIOUS
  <1>4. /\ l \in Seq(Char) /\ Len(l) = Len(line) + 1 /\ l[Len(l)] = Head(rio_buf)
        /\ \A i \in 1..Len(line) : l[i] = line[i]
        /\ Q \in Seq(Char) /\ Splits(Pipe, l, Q) /\ Len(out) <= Len(Q)
        /\ Tail(rio_buf) \in Seq(Char) /\ Len(Tail(rio_buf)) <= BufSize
        /\ Pipe = l \o Q /\ l \o Tail(rio_buf) \o wire \o out = l \o Q
        /\ << >> \o Tail(rio_buf) \o wire \o out = Q
    BY <1>1, <1>2, <1>3, PipeRead
  <1>5. /\ rio_buf' = Tail(rio_buf) /\ UNCHANGED <<sender, wire>>
        /\ IF Last(l) = Newline \/ Len(l) = MaxLen - 1
           THEN Finish(l)
           ELSE line' = l /\ UNCHANGED <<last, received, result, r_open>>
    BY <1>2 DEF ReadChar
  <1>6. Last(l) = l[Len(l)]
    BY DEF Last
  <1>7. PICK k \in Nat : k = Len(l) /\ Len(line) = k - 1 /\ k >= 1
    BY <1>1, <1>4 DEF Parts
  <1>8. \A i \in 1..k : i < k => l[i] # Newline
    <2>1. \A i \in 1..k : i < k => i \in 1..Len(line)
      BY <1>7
    <2> QED
      BY <1>1, <1>4, <2>1 DEF TypeInv
  <1>9. k <= MaxLen - 1 /\ MaxLen \in Nat
    <2>1. Len(line) < MaxLen - 1
      BY <1>1 DEF TypeInv, TypeOK
    <2> QED
      BY <1>7, <2>1, SizeAssumption
  <1>10. Reads
    BY <1>1, <1>4, <1>5 DEF Reads, Parts
  <1>11. CASE Last(l) = Newline \/ Len(l) = MaxLen - 1
    <2>1. Finish(l)
      BY <1>5, <1>11
    <2>2. FullLine(l, Len(l))
      BY <1>6, <1>7, <1>8, <1>9, <1>11 DEF FullLine
    <2>3. Stream(Pipe, Len(out), Len(received), sent, s_open, asked)
      BY <1>1 DEF IInv, PipeInv
    <2>4. \/ /\ Message(l, Q, Len(out), Len(received), sent, s_open, asked)
             /\ Len(l) >= Size(sent[Len(received) + 1]) - 1
          \/ NoMessage(l) /\ (Short => asked > Len(sent))
      <3>1. /\ Pipe \in Seq(Char) /\ Len(out) \in Nat /\ Len(received) \in Nat
            /\ sent \in Seq(Sendable) /\ asked \in Nat
        BY <1>1 DEF Parts
      <3>2. Splits(Pipe, l, Q) /\ Len(out) <= Len(Q) /\ l \in Seq(Char) /\ Q \in Seq(Char)
        BY <1>4
      <3> QED
        BY <2>2, <2>3, <3>1, <3>2, StreamRead
    <2>5. CASE /\ Message(l, Q, Len(out), Len(received), sent, s_open, asked)
               /\ Len(l) >= Size(sent[Len(received) + 1]) - 1
      <3>1. Q = << >> \o rio_buf' \o wire' \o out
        BY <1>4, <1>5
      <3> QED
        BY <1>4, <1>10, <2>1, <2>5, <3>1, ReadMessage
    <2>6. CASE NoMessage(l) /\ (Short => asked > Len(sent))
      <3>1. Short => ~(s_open /\ AllAccepted)
        BY <1>1, <2>6 DEF AllAccepted, Parts
      <3> QED
        BY <1>4, <1>10, <2>1, <2>6, <3>1, ReadNoMessage
    <2> QED
      BY <2>4, <2>5, <2>6
  <1>12. CASE ~(Last(l) = Newline \/ Len(l) = MaxLen - 1)
    <2>1. line' = l /\ UNCHANGED <<last, received, result, r_open>>
      BY <1>5, <1>12
    <2>2. TypeInv'
      <3>1. k < MaxLen - 1
        BY <1>7, <1>9, <1>12
      <3>2. \A i \in 1..Len(line') : line'[i] # Newline
        <4>1. l[k] # Newline /\ \A i \in 1..k : i < k \/ i = k
          BY <1>6, <1>7, <1>12
        <4> QED
          BY <1>7, <1>8, <2>1, <4>1
      <3>3. TypeOK'
        BY <1>1, <1>4, <1>5, <1>7, <2>1, <3>1 DEF TypeInv, TypeOK, sender
      <3> QED
        BY <1>1, <1>5, <2>1, <3>2, <3>3 DEF TypeInv, sender
    <2>3. InOrder'
      BY <1>1, <1>5, <2>1 DEF InOrder, sender
    <2>4. PipeInv'
      <3>1. Pipe' = Pipe
        BY <1>4, <1>5, <2>1 DEF Pipe, sender
      <3> QED
        BY <1>5, <2>1, <3>1 DEF IInv, PipeInv, sender
    <2>5. ShortInv'
      BY <1>5, <2>1 DEF IInv, ShortInv, Kept, AllAccepted, sender
    <2> QED
      BY <2>2, <2>3, <2>4, <2>5 DEF IInv
  <1> QED
    BY <1>11, <1>12

\* The end of the stream
LEMMA EndOfFileStep == ASSUME IInv, EndOfFile PROVE IInv'
  <1>1. /\ TypeInv /\ InOrder /\ Parts
        /\ r_open /\ rio_buf = << >> /\ wire = << >> /\ s_open = FALSE /\ out = << >>
        /\ Finish(line) /\ UNCHANGED <<sender, wire, rio_buf>>
    BY PipeParts DEF IInv, EndOfFile, TypeInv, TypeOK
  <1>2. Reads
    BY <1>1 DEF Reads, TypeInv, TypeOK
  <1>3. line \in Seq(Char) /\ Pipe = line /\ Len(out) = 0
    <2>1. line \in Seq(Char) /\ line \o << >> = line
      BY <1>1, EmptyPart DEF Parts
    <2> QED
      BY <1>1, <2>1 DEF Pipe
  <1>4. PICK Q \in Seq(Char) : Q = << >> /\ Len(Q) = 0
    BY EmptySeq
  <1>5. Stream(line, 0, Len(received), sent, FALSE, asked)
    BY <1>1, <1>3 DEF IInv, PipeInv
  <1>6. \A i \in 1..Len(line) : line[i] # Newline
    BY <1>1 DEF TypeInv
  <1>7. \/ /\ Message(line, Q, 0, Len(received), sent, FALSE, asked)
           /\ Len(received) + 1 = Len(sent)
        \/ NoMessage(line)
    BY <1>1, <1>3, <1>4, <1>5, <1>6, StreamEnd DEF Parts
  <1>8. CASE /\ Message(line, Q, 0, Len(received), sent, FALSE, asked)
             /\ Len(received) + 1 = Len(sent)
    <2>1. Q = << >> \o rio_buf' \o wire' \o out
      <3>1. Q \o << >> = Q
        BY EmptyPart
      <3> QED
        BY <1>1, <1>4, <3>1
    <2>2. Message(line, Q, Len(out), Len(received), sent, s_open, asked)
      BY <1>1, <1>3, <1>8
    <2> QED
      BY <1>1, <1>2, <1>3, <1>8, <2>1, <2>2, ReadMessage
  <1>9. CASE NoMessage(line)
    <2>1. Short => ~(s_open /\ AllAccepted)
      BY <1>1
    <2> QED
      BY <1>1, <1>2, <1>3, <1>9, <2>1, ReadNoMessage
  <1> QED
    BY <1>7, <1>8, <1>9

\* A connection that was reset
LEMMA ReadErrorStep == ASSUME IInv, ReadError PROVE IInv'
  <1>1. /\ TypeInv /\ r_open /\ rio_buf = << >> /\ s_open = FALSE /\ wire' = << >>
        /\ UNCHANGED <<sender, rio_buf>>
        /\ << >> \in Seq(Char) /\ Len(<< >>) = 0
    BY EmptySeq DEF IInv, ReadError, TypeInv, TypeOK
  <1>2. Reads
    BY <1>1 DEF Reads, TypeInv, TypeOK
  <1>3. PICK l \in Seq(Char) : l = << >> /\ Len(l) = 0
    BY <1>1
  <1>4. Finish(l)
    BY <1>3 DEF ReadError
  <1>5. NoMessage(l) /\ (Short => ~(s_open /\ AllAccepted))
    BY <1>1, <1>3 DEF NoMessage
  <1> QED
    BY <1>2, <1>4, <1>5, ReadNoMessage

\* Every step keeps the invariant.
LEMMA FramingStep == IInv /\ OneLineEach' /\ [Next]_vars => IInv'
  <1> SUFFICES ASSUME IInv, OneLineEach', [Next]_vars PROVE IInv'
    OBVIOUS
  <1>1. CASE Send
    BY <1>1, SendStep
  <1>2. CASE SendGarbage
    BY <1>2, SendGarbageStep
  <1>3. CASE Write
    BY <1>3, WriteStep
  <1>4. CASE WriteFails
    BY <1>4, WriteFailsStep
  <1>5. CASE Close
    BY <1>5, CloseStep
  <1>6. CASE Refill
    BY <1>6, RefillStep
  <1>7. CASE ReadChar
    BY <1>7, ReadCharStep
  <1>8. CASE EndOfFile
    BY <1>8, EndOfFileStep
  <1>9. CASE ReadError
    BY <1>9, ReadErrorStep
  <1>10. CASE UNCHANGED vars
    <2>1. /\ UNCHANGED <<sent, out, s_open, wire, rio_buf, line, received, r_open>>
          /\ asked' = asked /\ send_result' \in Results /\ result' \in Results
      BY <1>10 DEF IInv, TypeInv, TypeOK, vars, sender, receiver
    <2> QED
      BY <2>1, Untouched
  <1> QED
    BY <1>1, <1>2, <1>3, <1>4, <1>5, <1>6, <1>7, <1>8, <1>9, <1>10 DEF Next

-----------------------------------------------------------------------------
(* Whatever is sent                                                        *)

\* What send accepts.
AnyMessage == [tag : {<<i>> : i \in 1..MaxSends}, data : Seq(Char)]

Typed == TypeOK /\ sent \in Seq(AnyMessage)

\* The types need no assumption on the messages.
FullInv == Typed /\ (OneLineEach => IInv)

\* A message that send encodes, and what it sends.
LEMMA AcceptedTypes ==
  ASSUME NEW i \in 1..MaxSends, NEW m \in MessagesOf(i)
  PROVE  m \in AnyMessage /\ Encode(m) \in Seq(Char)
  <1>1. PICK k \in 0..MaxData : m.data \in [1..k -> {i, Colon, Nul, Newline}]
    BY DEF MessagesOf
  <1>2. i \in Char /\ Colon \in Char /\ Nul \in Char /\ Newline \in Char
    BY DEF Char
  <1>3. m.data \in Seq(Char)
    <2>1. k \in Nat
      BY SizeAssumption
    <2>2. m.data \in [1..k -> Char]
      BY <1>1, <1>2
    <2> QED
      BY <2>1, <2>2
  <1>4. m.tag = <<i>> /\ m = [tag |-> <<i>>, data |-> m.data]
    BY DEF MessagesOf
  <1>5. m \in AnyMessage
    <2>1. <<i>> \in {<<j>> : j \in 1..MaxSends}
      OBVIOUS
    <2>2. [tag |-> <<i>>, data |-> m.data] \in AnyMessage
      BY <1>3, <2>1 DEF AnyMessage
    <2> QED
      BY <1>4, <2>2
  <1>6. PICK a \in Seq(Char), b \in Seq(Char), c \in Seq(Char), d \in Seq(Char) :
          a = <<i>> /\ b = <<Colon>> /\ c = m.data /\ d = <<Newline>>
    <2>1. <<i>> \in Seq(Char) /\ <<Colon>> \in Seq(Char) /\ <<Newline>> \in Seq(Char)
      BY <1>2
    <2> QED
      BY <1>3, <2>1
  <1>7. a \o b \o c \o d \in Seq(Char)
    BY FourParts DEF Regroups
  <1> QED
    BY <1>4, <1>5, <1>6, <1>7 DEF Encode

\* Connection::send keeps the types.
LEMMA SendTyped == ASSUME Typed, Send \/ SendGarbage PROVE Typed'
  <1>1. /\ TypeOK /\ sent \in Seq(AnyMessage) /\ Len(sent) \in Nat
        /\ asked \in Nat /\ asked < MaxSends /\ MaxSends \in Nat /\ asked' = asked + 1
        /\ asked' \in 1..MaxSends /\ asked' \in 0..MaxSends
        /\ UNCHANGED <<s_open, wire, receiver>>
    BY SizeAssumption DEF Typed, TypeOK, Send, SendGarbage, CanSend
  <1>2. CASE SendGarbage
    <2>1. out' \in Seq(Char) /\ sent' = sent /\ send_result' = send_result
      BY <1>1, <1>2, GarbageLine DEF SendGarbage
    <2> QED
      BY <1>1, <2>1 DEF Typed, TypeOK, receiver
  <1>3. CASE Send
    <2>1. PICK m \in MessagesOf(asked') :
            \/ sent' = Append(sent, m) /\ out' = Encode(m) /\ UNCHANGED send_result
            \/ send_result' = "INVALID_MSG" /\ UNCHANGED <<sent, out>>
      BY <1>3 DEF Send
    <2>2. m \in AnyMessage /\ Encode(m) \in Seq(Char)
      <3>1. PICK i \in 1..MaxSends : i = asked'
        BY <1>1
      <3>2. m \in MessagesOf(i)
        BY <2>1, <3>1
      <3> QED
        BY <3>2, AcceptedTypes
    <2>3. /\ sent' \in Seq(AnyMessage) /\ Len(sent') <= asked'
          /\ out' \in Seq(Char) /\ send_result' \in Results
      <3>1. Len(sent) <= asked /\ out \in Seq(Char) /\ send_result \in Results
        BY <1>1 DEF TypeOK
      <3>2. CASE sent' = Append(sent, m) /\ out' = Encode(m) /\ UNCHANGED send_result
        <4>1. Append(sent, m) \in Seq(AnyMessage) /\ Len(Append(sent, m)) = Len(sent) + 1
          BY <1>1, <2>2
        <4> QED
          BY <1>1, <2>2, <3>1, <3>2, <4>1
      <3>3. CASE send_result' = "INVALID_MSG" /\ UNCHANGED <<sent, out>>
        BY <1>1, <3>1, <3>3 DEF Results
      <3> QED
        BY <2>1, <3>2, <3>3
    <2> QED
      BY <1>1, <2>3 DEF Typed, TypeOK, receiver
  <1> QED
    BY <1>2, <1>3

\* rio_writen and rio_read keep the types.
LEMMA BytesTyped == ASSUME Typed, Write \/ WriteFails \/ Close \/ Refill PROVE Typed'
  <1>1. /\ TypeOK /\ sent' = sent /\ asked' = asked /\ sent \in Seq(AnyMessage)
        /\ line' = line /\ r_open' = r_open /\ result' = result
        /\ << >> \in Seq(Char)
    BY EmptySeq DEF Typed, Write, WriteFails, Close, Refill, sender, receiver
  <1>2. CASE Write
    <2>1. PICK k \in 1..Len(out) :
            wire' = wire \o SubSeq(out, 1, k) /\ out' = SubSeq(out, k + 1, Len(out))
      BY <1>2 DEF Write
    <2>2. PICK a \in Seq(Char), b \in Seq(Char) :
            a = SubSeq(out, 1, k) /\ b = SubSeq(out, k + 1, Len(out))
      BY <1>1, TwoHalves DEF TypeOK
    <2>3. wire' \in Seq(Char) /\ out' \in Seq(Char)
      BY <1>1, <2>1, <2>2, Joined DEF TypeOK
    <2> QED
      BY <1>1, <1>2, <2>3 DEF Typed, TypeOK, Results, Write, receiver
  <1>3. CASE WriteFails
    BY <1>1, <1>3 DEF Typed, TypeOK, Results, WriteFails, receiver
  <1>4. CASE Close
    BY <1>1, <1>4 DEF Typed, TypeOK, Results, Close, receiver
  <1>5. CASE Refill
    <2>1. PICK k \in 1..BufSize :
            /\ k <= Len(wire)
            /\ rio_buf' = SubSeq(wire, 1, k) /\ wire' = SubSeq(wire, k + 1, Len(wire))
      BY <1>5 DEF Refill
    <2>2. k \in 1..Len(wire) /\ wire \in Seq(Char)
      BY <1>1, <2>1 DEF TypeOK
    <2>3. /\ SubSeq(wire, 1, k) \in Seq(Char) /\ SubSeq(wire, k + 1, Len(wire)) \in Seq(Char)
          /\ Len(SubSeq(wire, 1, k)) = k
      BY <2>2, TwoHalves
    <2>4. rio_buf' \in Seq(Char) /\ wire' \in Seq(Char) /\ Len(rio_buf') <= BufSize
      BY <2>1, <2>3, SizeAssumption
    <2> QED
      BY <1>1, <1>5, <2>4 DEF Typed, TypeOK, Results, Refill, sender
  <1> QED
    BY <1>2, <1>3, <1>4, <1>5

\* Connection::receive keeps the types.
LEMMA ReadTyped == ASSUME Typed, ReadChar \/ EndOfFile \/ ReadError PROVE Typed'
  <1>1. /\ TypeOK /\ UNCHANGED sender /\ r_open \in BOOLEAN
        /\ << >> \in Seq(Char) /\ Len(<< >>) = 0 /\ 0 < MaxLen - 1
    BY EmptySeq, SizeAssumption DEF Typed, TypeOK, ReadChar, EndOfFile, ReadError
  <1>2. wire' \in Seq(Char) /\ rio_buf' \in Seq(Char) /\ Len(rio_buf') <= BufSize
    <2>1. CASE ReadChar
      <3>1. /\ rio_buf \in Seq(Char) /\ rio_buf # << >> /\ rio_buf' = Tail(rio_buf)
            /\ wire' = wire /\ Len(rio_buf) <= BufSize
        BY <1>1, <2>1 DEF TypeOK, ReadChar
      <3>2. Tail(rio_buf) \in Seq(Char) /\ Len(Tail(rio_buf)) = Len(rio_buf) - 1
        BY <3>1
      <3> QED
        BY <1>1, <3>1, <3>2, SizeAssumption DEF TypeOK
    <2>2. CASE EndOfFile \/ ReadError
      BY <1>1, <2>2 DEF TypeOK, EndOfFile, ReadError
    <2> QED
      BY <2>1, <2>2
  <1>3. ASSUME NEW l, Finish(l)
        PROVE  line' = << >> /\ result' \in Results /\ r_open' \in BOOLEAN
    BY <1>1, <1>3 DEF Finish, Results
  <1>4. \/ line' = << >> /\ result' \in Results /\ r_open' \in BOOLEAN
        \/ /\ line' \in Seq(Char) /\ Len(line') < MaxLen - 1
           /\ result' \in Results /\ r_open' \in BOOLEAN
    <2>1. CASE ReadChar
      <3>1. PICK l : l = Append(line, Head(rio_buf))
        OBVIOUS
      <3>2. /\ rio_buf \in Seq(Char) /\ rio_buf # << >> /\ line \in Seq(Char)
            /\ Len(line) < MaxLen - 1 /\ result \in Results
        BY <1>1, <2>1 DEF TypeOK, ReadChar
      <3>3. l \in Seq(Char) /\ Len(l) = Len(line) + 1 /\ Len(line) \in Nat
        BY <3>1, <3>2
      <3>4. CASE Last(l) = Newline \/ Len(l) = MaxLen - 1
        <4>1. Finish(l)
          BY <2>1, <3>1, <3>4 DEF ReadChar
        <4> QED
          BY <1>3, <4>1
      <3>5. CASE ~(Last(l) = Newline \/ Len(l) = MaxLen - 1)
        <4>1. line' = l /\ result' = result /\ r_open' = r_open
          BY <2>1, <3>1, <3>5 DEF ReadChar
        <4>2. Len(l) < MaxLen - 1
          BY <3>2, <3>3, <3>5, SizeAssumption
        <4> QED
          BY <1>1, <3>2, <3>3, <4>1, <4>2
      <3> QED
        BY <3>4, <3>5
    <2>2. CASE EndOfFile
      BY <1>3, <2>2 DEF EndOfFile
    <2>3. CASE ReadError
      BY <1>3, <2>3 DEF ReadError
    <2> QED
      BY <2>1, <2>2, <2>3
  <1>5. /\ line' \in Seq(Char) /\ Len(line') < MaxLen - 1
        /\ result' \in Results /\ r_open' \in BOOLEAN
    BY <1>1, <1>4
  <1> QED
    BY <1>1, <1>2, <1>5 DEF Typed, TypeOK, sender

\* Every step keeps the types.
LEMMA TypedStep == Typed /\ [Next]_vars => Typed'
  <1> SUFFICES ASSUME Typed, [Next]_vars PROVE Typed'
    OBVIOUS
  <1>1. CASE UNCHANGED vars
    BY <1>1 DEF Typed, TypeOK, vars, sender, receiver
  <1> QED
    BY <1>1, SendTyped, BytesTyped, ReadTyped DEF Next

\* What was sent stays sent.
LEMMA StillOneLine == ASSUME Typed, [Next]_vars, OneLineEach' PROVE OneLineEach
  <1>1. CASE sent' = sent
    BY <1>1 DEF OneLineEach
  <1>2. CASE sent' # sent
    <2>1. PICK m : sent' = Append(sent, m)
      BY <1>2 DEF Next, Send, SendGarbage, Write, WriteFails, Close, Refill,
                  ReadChar, EndOfFile, ReadError, vars, sender
    <2>2. sent \in Seq(AnyMessage)
      BY DEF Typed
    <2>3. \A i \in DOMAIN sent : i \in DOMAIN sent' /\ sent'[i] = sent[i]
      BY <2>1, <2>2
    <2> QED
      BY <2>3 DEF OneLineEach
  <1> QED
    BY <1>1, <1>2

\* Every step keeps the invariant.
LEMMA FullStep == FullInv /\ [Next]_vars => FullInv'
  <1> SUFFICES ASSUME FullInv, [Next]_vars PROVE FullInv'
    OBVIOUS
  <1>1. Typed'
    BY TypedStep DEF FullInv
  <1>2. ASSUME OneLineEach' PROVE IInv'
    <2>1. OneLineEach
      BY <1>2, StillOneLine DEF FullInv
    <2>2. IInv
      BY <2>1 DEF FullInv
    <2> QED
      BY <1>2, <2>2, FramingStep
  <1> QED
    BY <1>1, <1>2 DEF FullInv

\* It holds at first.
LEMMA FullInit == Init => FullInv
  <1> SUFFICES ASSUME Init PROVE FullInv
    OBVIOUS
  <1>1. IInv
    BY FramingInit
  <1>2. sent \in Seq(AnyMessage)
    BY EmptySeq DEF Init
  <1> QED
    BY <1>1, <1>2 DEF FullInv, Typed, IInv, TypeInv

\* The inductive invariant of the stream, from Connection::send to
\* Connection::receive.
THEOREM FramingInvariant == Spec => []FullInv
  BY FullInit, FullStep, PTL DEF Spec

\* The variables keep their types; the lengths stay within the bounds of the
\* buffers of rio_readlineb and receive.
THEOREM FramingTyped == Spec => []TypeOK
  <1>1. FullInv => TypeOK
    BY DEF FullInv, Typed
  <1> QED
    BY <1>1, FramingInvariant, PTL

\* However the stream is cut, Connection::receive returns the messages that
\* Connection::send accepted, in order and whole up to a NUL, but for the last
\* one of a sender that died, as long as each message is one line.
THEOREM FramingInOrder == Spec => []WholeMessagesInOrder
  <1>1. FullInv => WholeMessagesInOrder
    BY DEF FullInv, IInv, WholeMessagesInOrder
  <1> QED
    BY <1>1, FramingInvariant, PTL

\* If no message can be as long as MaxLen, receive gives up on no sender who is
\* there and has sent nothing but messages of one line.
THEOREM ConnectionKept == ASSUME Short PROVE Spec => []KeepsConnection
  <1>1. FullInv => KeepsConnection
    BY DEF FullInv, IInv, ShortInv, Kept, KeepsConnection
  <1> QED
    BY <1>1, FramingInvariant, PTL
=============================================================================
