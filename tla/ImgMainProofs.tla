---------------------------- MODULE ImgMainProofs ----------------------------
(***************************************************************************)
(* Theorems about ImgMain and the modules it composes (ImgProc, AsmImgProc *)
(* and Png), for images of any size and any input file.                    *)
(*                                                                         *)
(* First what the code computes: arithmetic, the filters of PNG, what each *)
(* transformation makes of a pixel and which pixels a turn of its loop     *)
(* writes.  Then the assembly: registers, stack, and that a step of it is  *)
(* one of the C program.  Last the program around them, with its inductive *)
(* invariant MainInv.                                                      *)
(***************************************************************************)
EXTENDS ImgMain, SequenceTheorems, WellFoundedInduction, TLAPS

-----------------------------------------------------------------------------
(* Arithmetic                                                              *)

\* Quotient and remainder.
LEMMA DivMod ==
  ASSUME NEW a \in Nat, NEW b \in Nat \ {0}
  PROVE  /\ a \div b \in Nat /\ a % b \in 0..b - 1
         /\ a = (a \div b) * b + (a % b)
  <1>1. PICK q \in Int, r \in Int : q = a \div b /\ r = a % b
    OBVIOUS
  <1>2. a = q * b + r
    BY <1>1
  <1> QED
    BY <1>1, <1>2

\* Products of naturals keep their order.
LEMMA ProductOrder ==
  ASSUME NEW a \in Nat, NEW b \in Nat, NEW c \in Nat, a <= b
  PROVE  a * c <= b * c /\ a * c \in Nat /\ b * c \in Nat
  OBVIOUS

\* The row and the column of a pixel, from its place in the image.
LEMMA Coordinates ==
  ASSUME NEW w \in Nat, NEW h \in Nat, NEW k \in 0..(h * w - 1)
  PROVE  /\ k \div w \in 0..h - 1 /\ k % w \in 0..w - 1
         /\ k = (k \div w) * w + (k % w)
         /\ w > 0 /\ h > 0
  <1>1. w > 0 /\ h > 0 /\ k \in Nat
    BY SMT
  <1>2. k = (k \div w) * w + (k % w) /\ k \div w \in Nat /\ k % w \in 0..w - 1
    BY <1>1, DivMod
  <1>3. k \div w \in 0..h - 1
    BY <1>1
  <1> QED
    BY <1>1, <1>2, <1>3

\* What a quotient and a remainder were made of.
LEMMA QuotientOf ==
  ASSUME NEW q \in Nat, NEW b \in Nat \ {0}, NEW r \in 0..b - 1
  PROVE  (q * b + r) \div b = q /\ (q * b + r) % b = r
  OBVIOUS

\* And back.
LEMMA PlaceOf ==
  ASSUME NEW w \in Nat, NEW h \in Nat, NEW col \in 0..w - 1, NEW r \in 0..h - 1
  PROVE  /\ r * w + col \in 0..(h * w - 1)
         /\ (r * w + col) \div w = r /\ (r * w + col) % w = col
  <1>1. w \in Nat \ {0} /\ r \in Nat
    OBVIOUS
  <1>2. r * w + col \in 0..(h * w - 1)
    <2>1. (r + 1) * w <= h * w /\ h * w \in Nat
      BY ProductOrder
    <2>2. PICK p \in Nat, q \in Nat : p = r * w /\ q = h * w
      BY <1>1, <2>1
    <2>3. (r + 1) * w = p + w
      BY <1>1, <2>2
    <2>4. p + w <= q
      BY <2>1, <2>2, <2>3
    <2>5. p + col \in 0..q - 1
      BY <2>4
    <2> QED
      BY <2>2, <2>5
  <1>3. (r * w + col) \div w = r /\ (r * w + col) % w = col
    BY <1>1, QuotientOf
  <1> QED
    BY <1>2, <1>3

\* Two pixels in one place are one.
LEMMA OnePlace ==
  ASSUME NEW w \in Nat, NEW c1 \in 0..w - 1, NEW c2 \in 0..w - 1,
         NEW r1 \in Nat, NEW r2 \in Nat, r1 * w + c1 = r2 * w + c2
  PROVE  r1 = r2 /\ c1 = c2
  OBVIOUS

\* The remainder in a picture of twice the width or height.
LEMMA HalfRemainder ==
  ASSUME NEW w \in Nat, NEW x \in 0..(2 * w - 1)
  PROVE  /\ x % w \in 0..w - 1
         /\ x % w = IF x < w THEN x ELSE x - w
  <1>1. w \in Nat \ {0}
    OBVIOUS
  <1>2. CASE x < w
    BY <1>1, <1>2
  <1>3. CASE x >= w
    <2>1. PICK y \in 0..w - 1 : x = 1 * w + y
      BY <1>1, <1>3
    <2>2. (1 * w + y) % w = y
      BY <1>1
    <2> QED
      BY <1>1, <1>3, <2>1, <2>2
  <1> QED
    BY <1>2, <1>3

\* And quotients.
LEMMA QuotientOrder ==
  ASSUME NEW a \in Nat, NEW b \in Nat, a <= b, NEW m \in Nat \ {0}
  PROVE  a \div m <= b \div m /\ a \div m \in Nat /\ b \div m \in Nat
  OBVIOUS

\* A quotient times the divisor is not more than what was divided.
LEMMA QuotientTimes ==
  ASSUME NEW a \in Nat, NEW m \in Nat \ {0}
  PROVE  (a \div m) * m <= a
  OBVIOUS

\* A positive factor can be taken from both sides.
LEMMA ProductCancels ==
  ASSUME NEW a \in Nat, NEW b \in Nat, NEW m \in Nat \ {0}, a * m <= b * m
  PROVE  a <= b
  OBVIOUS

\* A number is even, or one more than an even one.
LEMMA Parity ==
  ASSUME NEW w \in Nat
  PROVE  /\ w % 2 \in {0, 1}
         /\ (w \div 2) * 2 = w <=> w % 2 = 0
         /\ (w + (w % 2)) \div 2 \in Nat /\ 2 * ((w + (w % 2)) \div 2) = w + (w % 2)
  OBVIOUS

-----------------------------------------------------------------------------
(* The smaller and the greater of some numbers                             *)

\* The operators of FiniteSetsExt, in comparisons.
LEMMA MinMaxOfTwo ==
  ASSUME NEW a \in Int, NEW b \in Int
  PROVE  /\ Min({a, b}) = IF a <= b THEN a ELSE b
         /\ Max({a, b}) = IF a <= b THEN b ELSE a
  BY DEF Min, Max

\* The same of the three components of a pixel.
LEMMA MinMaxOfThree ==
  ASSUME NEW a \in Int, NEW b \in Int, NEW c \in Int
  PROVE  /\ Min({a, b, c}) \in Int /\ Max({a, b, c}) \in Int
         /\ Min({a, b, c}) <= a /\ Min({a, b, c}) <= b /\ Min({a, b, c}) <= c
         /\ a <= Max({a, b, c}) /\ b <= Max({a, b, c}) /\ c <= Max({a, b, c})
  <1> DEFINE S == {a, b, c}
  <1>1. \E x \in S : \A y \in S : x <= y
    OBVIOUS
  <1>2. \E x \in S : \A y \in S : x >= y
    OBVIOUS
  <1>3. Min(S) \in S /\ \A y \in S : Min(S) <= y
    BY <1>1 DEF Min
  <1>4. Max(S) \in S /\ \A y \in S : Max(S) >= y
    BY <1>2 DEF Max
  <1> QED
    BY <1>3, <1>4

-----------------------------------------------------------------------------
(* PNG: filters and bytes                                                  *)

Byte == 0..255

\* The neighbour that png_paeth takes for the nearest is the one the format
\* means.
LEMMA PaethIsNearest ==
  ASSUME NEW a \in Byte, NEW b \in Byte, NEW c \in Byte
  PROVE  png_paeth(a, b, c) = Nearest(a, b, c)
  BY DEF png_paeth, Nearest, AbsDiff, Byte

\* The byte at a distance to the left, and the one in the row above; none is 0.
LeftOf(s, stride, k) == IF k > stride THEN s[k - stride] ELSE 0
AboveOf(s, k) == IF s = NoRow THEN 0 ELSE s[k]
AboveLeftOf(s, stride, k) == IF k > stride THEN AboveOf(s, k - stride) ELSE 0

\* What unfiltered says of the byte k.
Undone(filter, stride, in, prev, g, k) ==
  (in[k] + Predicted(filter, LeftOf(g, stride, k), AboveOf(prev, k),
                     AboveLeftOf(prev, stride, k))) % 256

\* A function that does what the loop of a filter does is its result.
Undoes(g, filter, stride, in, prev) ==
  g = [k \in DOMAIN in |-> Undone(filter, stride, in, prev, g, k)]

\* The recursive function of the filters, if there is one at all, undoes what the
\* filter did.
LEMMA UnfilteredUndoes ==
  ASSUME NEW filter, NEW stride, NEW in, NEW prev,
         \E g : Undoes(g, filter, stride, in, prev)
  PROVE  Undoes(unfiltered(filter, stride, in, prev), filter, stride, in, prev)
  <1>1. unfiltered(filter, stride, in, prev)
        = LET out == CHOOSE g : Undoes(g, filter, stride, in, prev)
          IN  [k \in DOMAIN in |-> out[k]]
    BY DEF unfiltered, Undoes, Undone, LeftOf, AboveOf, AboveLeftOf
  <1>2. PICK out : /\ out = CHOOSE g : Undoes(g, filter, stride, in, prev)
                   /\ Undoes(out, filter, stride, in, prev)
    OBVIOUS
  <1>3. out = [k \in DOMAIN in |-> out[k]]
    BY <1>2 DEF Undoes
  <1> QED
    BY <1>1, <1>2, <1>3

\* The byte a filter has taken from another comes back when it is added.
LEMMA ByteComesBack ==
  ASSUME NEW x \in Byte, NEW p \in Int
  PROVE  /\ (x - p) % 256 \in Byte
         /\ (((x - p) % 256) + p) % 256 = x
  <1>0. PICK y \in Int : y = x - p
    BY DEF Byte
  <1>1. PICK d \in Int, q \in Int : d = (x - p) % 256 /\ q = (x - p) \div 256
    BY <1>0
  <1>2. x - p = 256 * q + d /\ d \in Byte
    BY <1>0, <1>1 DEF Byte
  <1>3. d + p = x - 256 * q
    BY <1>2 DEF Byte
  <1>4. (d + p) % 256 = x
    BY <1>3 DEF Byte
  <1> QED
    BY <1>1, <1>2, <1>4

\* A row of n bytes, and what the row above it may be.
IsRow(s, n) == s \in [1..n -> Byte]

\* The filter of the format subtracts what the one of the code adds.
LEMMA FilteredBytes ==
  ASSUME NEW stride \in Nat \ {0}, NEW n \in Nat, NEW shown, NEW above,
         IsRow(shown, n), above = NoRow \/ IsRow(above, n), NEW filter \in FilterTypes,
         NEW k \in 1..n
  PROVE  /\ DOMAIN Filtered(filter, stride, shown, above) = 1..n
         /\ Filtered(filter, stride, shown, above)[k] \in Byte
         /\ Undone(filter, stride, Filtered(filter, stride, shown, above), above, shown, k)
            = shown[k]
  <1> DEFINE a == LeftOf(shown, stride, k)
             b == AboveOf(above, k)
             c == AboveLeftOf(above, stride, k)
             p == Predicted(filter, a, b, c)
             in == Filtered(filter, stride, shown, above)
  <1>1. shown[k] \in Byte /\ DOMAIN shown = 1..n
    BY DEF IsRow
  <1>2. a \in Byte
    BY DEF LeftOf, IsRow, Byte
  <1>3. \A m \in 1..n : AboveOf(above, m) \in Byte
    <2>1. CASE above = NoRow
      BY <2>1 DEF AboveOf, Byte
    <2>2. CASE above # NoRow
      BY <2>2 DEF AboveOf, IsRow
    <2> QED
      BY <2>1, <2>2
  <1>4. c \in Byte
    <2>1. k > stride => k - stride \in 1..n
      OBVIOUS
    <2> QED
      BY <1>3, <2>1 DEF AboveLeftOf, Byte
  <1>9a. b \in Byte
    BY <1>3
  <1>5. in[k] = (shown[k] - <<0, a, b, (a + b) \div 2, Nearest(a, b, c)>>[filter + 1]) % 256
    BY <1>1 DEF Filtered, LeftOf, AboveOf, AboveLeftOf
  <1>6. png_paeth(a, b, c) \in Byte
    BY <1>2, <1>9a, <1>4 DEF png_paeth, Byte
  <1> HIDE DEF a, b, c, in
  <1>7. p = <<0, a, b, (a + b) \div 2, Nearest(a, b, c)>>[filter + 1] /\ p \in Int
    <2>1. png_paeth(a, b, c) = Nearest(a, b, c)
      BY <1>2, <1>9a, <1>4, PaethIsNearest
    <2>2. (a + b) \div 2 \in Int
      BY <1>2, <1>9a DEF Byte
    <2>3. CASE filter = 0
      BY <2>3 DEF Predicted
    <2>4. CASE filter = 1
      BY <2>4, <1>2 DEF Predicted, Byte
    <2>5. CASE filter = 2
      BY <2>5, <1>9a DEF Predicted, Byte
    <2>6. CASE filter = 3
      BY <2>6, <2>2 DEF Predicted
    <2>7. CASE filter = 4
      BY <2>7, <2>1, <1>6 DEF Predicted, Byte
    <2> QED
      BY <2>3, <2>4, <2>5, <2>6, <2>7 DEF FilterTypes
  <1> HIDE DEF p
  <1>8. in[k] \in Byte /\ (in[k] + p) % 256 = shown[k]
    <2>1. in[k] = (shown[k] - p) % 256
      BY <1>5, <1>7
    <2>2. PICK x \in Byte : x = shown[k]
      BY <1>1
    <2>3. (x - p) % 256 \in Byte /\ (((x - p) % 256) + p) % 256 = x
      BY <1>7, ByteComesBack, SMTT(30)
    <2> QED
      BY <2>1, <2>2, <2>3
  <1>9. DOMAIN in = 1..n
    BY <1>1 DEF in, Filtered
  <1> QED
    BY <1>8, <1>9 DEF Undone, p, a, b, c, in

NatLess == {ss \in Nat \X Nat : ss[1] < ss[2]}

\* A set of naturals has a least element.
LEMMA LeastNat ==
  ASSUME NEW S \in SUBSET Nat, S # {}
  PROVE  \E n \in S : \A m \in S : n <= m
  <1>1. IsWellFoundedOn(NatLess, Nat)
    BY NatLessThanWellFounded DEF OpToRel, NatLess
  <1>2. PICK n \in S : \A m \in S : ~ (<<m, n>> \in NatLess)
    BY <1>1, WFMin
  <1>3. ASSUME NEW m \in S PROVE n <= m
    <2>1. m < n => <<m, n>> \in NatLess
      BY DEF NatLess
    <2> QED
      BY <1>2, <2>1
  <1> QED
    BY <1>3

\* A function that does what the loop does is the row: the first byte at which
\* they differ would be made from bytes at which they do not.
LEMMA OnlyOneUndoes ==
  ASSUME NEW stride \in Nat \ {0}, NEW n \in Nat, NEW shown, NEW above,
         IsRow(shown, n), above = NoRow \/ IsRow(above, n), NEW filter \in FilterTypes,
         NEW in, in = Filtered(filter, stride, shown, above),
         NEW g, Undoes(g, filter, stride, in, above)
  PROVE  g = shown
  <1>1. DOMAIN in = 1..n
    BY DEF Filtered, IsRow
  <1>2. \A k \in 1..n : g[k] = Undone(filter, stride, in, above, g, k)
    BY <1>1 DEF Undoes
  <1> DEFINE Wrong == {k \in 1..n : g[k] # shown[k]}
  <1>3. ASSUME Wrong # {} PROVE FALSE
    <2>0. Wrong \in SUBSET Nat
      OBVIOUS
    <2>1. PICK k \in Wrong : \A m \in Wrong : k <= m
      BY <1>3, <2>0, LeastNat
    <2>2. LeftOf(g, stride, k) = LeftOf(shown, stride, k)
      BY <2>1 DEF LeftOf
    <2>3. g[k] = Undone(filter, stride, in, above, shown, k)
      BY <1>2, <2>2 DEF Undone
    <2>4. Undone(filter, stride, in, above, shown, k) = shown[k]
      BY FilteredBytes
    <2> QED
      BY <2>3, <2>4
  <1>4. \A k \in 1..n : g[k] = shown[k]
    BY <1>3
  <1>5. g = [k \in 1..n |-> g[k]]
    BY <1>1 DEF Undoes
  <1> QED
    BY <1>4, <1>5 DEF IsRow

\* What a filter of the code writes is the row that was filtered.
LEMMA UnfilteredIsShown ==
  ASSUME NEW stride \in Nat \ {0}, NEW n \in Nat, NEW shown, NEW above,
         IsRow(shown, n), above = NoRow \/ IsRow(above, n), NEW filter \in FilterTypes
  PROVE  unfiltered(filter, stride, Filtered(filter, stride, shown, above), above) = shown
  <1>1. PICK in : in = Filtered(filter, stride, shown, above)
    OBVIOUS
  <1>2. Undoes(shown, filter, stride, in, above)
    <2>1. \A k \in 1..n : Undone(filter, stride, in, above, shown, k) = shown[k]
      BY <1>1, FilteredBytes
    <2>2. DOMAIN in = 1..n
      BY <1>1 DEF Filtered, IsRow
    <2> QED
      BY <2>1, <2>2 DEF Undoes, IsRow
  <1>3. Undoes(unfiltered(filter, stride, in, above), filter, stride, in, above)
    BY <1>2, UnfilteredUndoes
  <1>4. unfiltered(filter, stride, in, above) = shown
    BY <1>1, <1>3, OnlyOneUndoes
  <1> QED
    BY <1>1, <1>4

-----------------------------------------------------------------------------
(* Rows and pixels                                                         *)

ImageOK(img) ==
  /\ img.width \in Nat /\ img.height \in Nat
  /\ img.data \in [0..(img.width * img.height - 1) -> Pixel]

\* The bytes of a picture, from 0 on.
ByteOf(img, stride, n) ==
  LET p == img.data[n \div stride]
  IN  <<p.r, p.g, p.b, p.a>>[(n % stride) + 1]

\* The bytes of the row r are those behind the rows above it.
LEMMA ShownRowBytes ==
  ASSUME NEW img, ImageOK(img), NEW stride \in {3, 4}, NEW r \in 0..(img.height - 1)
  PROVE  /\ IsRow(ShownRow(img, stride, r), stride * img.width)
         /\ \A n \in 1..(stride * img.width) :
              ShownRow(img, stride, r)[n] = ByteOf(img, stride, r * (stride * img.width) + n - 1)
  <1>1. PICK w \in Nat, h \in Nat : w = img.width /\ h = img.height
    BY DEF ImageOK
  <1>2. ASSUME NEW n \in 1..(stride * w)
        PROVE  /\ ShownRow(img, stride, r)[n] \in Byte
               /\ ShownRow(img, stride, r)[n] = ByteOf(img, stride, r * (stride * w) + n - 1)
    <2> DEFINE q == (n - 1) \div stride
               s == (n - 1) % stride
               p == img.data[r * w + q]
    <2>1. n - 1 \in Nat /\ n - 1 \in 0..(w * stride - 1)
      OBVIOUS
    <2>2. q \in 0..w - 1 /\ s \in 0..stride - 1 /\ n - 1 = q * stride + s
      BY <2>1, Coordinates
    <2> HIDE DEF q, s
    <2>3. r * w + q \in 0..(w * h - 1) /\ r * w + q \in Nat
      <3>1. r \in 0..h - 1 /\ r \in Nat
        BY <1>1
      <3>2. r * w + q \in 0..(h * w - 1)
        BY <1>1, <2>2, <3>1, PlaceOf
      <3>3. PICK hw \in Nat : hw = h * w /\ hw = w * h
        BY <1>1
      <3> QED
        BY <3>2, <3>3
    <2>4. p \in Pixel
      BY <1>1, <2>3 DEF ImageOK
    <2>5. <<p.r, p.g, p.b, p.a>>[s + 1] \in Byte
      <3>1. s \in {0, 1, 2, 3}
        BY <2>2
      <3>2. p.r \in Byte /\ p.g \in Byte /\ p.b \in Byte /\ p.a \in Byte
        BY <2>4 DEF Pixel, Byte
      <3> QED
        BY <3>1, <3>2
    <2>6. ShownRow(img, stride, r)[n] = <<p.r, p.g, p.b, p.a>>[s + 1]
      BY <1>1 DEF ShownRow, q, s
    <2>7. r * (stride * w) + n - 1 = (r * w + q) * stride + s
      <3>1. PICK rw \in Nat : rw = r * w
        BY <1>1, ProductOrder
      <3>2. r * (stride * w) = rw * stride
        BY <3>1
      <3> QED
        BY <2>2, <3>1, <3>2
    <2>8. /\ (r * (stride * w) + n - 1) \div stride = r * w + q
          /\ (r * (stride * w) + n - 1) % stride = s
      <3>1. PICK g \in Nat : g = r * w + q
        BY <2>3
      <3>2. (g * stride + s) \div stride = g /\ (g * stride + s) % stride = s
        <4>1. stride \in Nat \ {0}
          OBVIOUS
        <4> QED
          BY <2>2, <3>1, <4>1, QuotientOf
      <3> QED
        BY <2>7, <3>1, <3>2
    <2> QED
      BY <2>5, <2>6, <2>8 DEF ByteOf
  <1>3. /\ DOMAIN ShownRow(img, stride, r) = 1..(stride * img.width)
        /\ ShownRow(img, stride, r)
           = [n \in 1..(stride * img.width) |-> ShownRow(img, stride, r)[n]]
    BY DEF ShownRow
  <1> QED
    BY <1>1, <1>2, <1>3 DEF IsRow

\* The bytes of the first rows of a picture.
FirstRows(s, img, stride, rows) ==
  /\ s \in Seq(Byte) /\ Len(s) = rows * (stride * img.width)
  /\ \A n \in 1..Len(s) : s[n] = ByteOf(img, stride, n - 1)

\* A row is a sequence of bytes.
LEMMA RowIsSeq ==
  ASSUME NEW n \in Nat, NEW s, IsRow(s, n)
  PROVE  s \in Seq(Byte) /\ Len(s) = n
  BY DEF IsRow

\* The bytes of two sequences, one behind the other.
LEMMA JoinedBytes ==
  ASSUME NEW s \in Seq(Byte), NEW t \in Seq(Byte), NEW m \in Nat, NEW l \in Nat,
         Len(s) = m, Len(t) = l
  PROVE  /\ s \o t \in Seq(Byte) /\ Len(s \o t) = m + l
         /\ \A n \in 1..m + l : (s \o t)[n] = IF n <= m THEN s[n] ELSE t[n - m]
  OBVIOUS

\* One row more.
LEMMA OneRowMore ==
  ASSUME NEW img, ImageOK(img), NEW stride \in {3, 4}, NEW r \in 0..(img.height - 1),
         NEW s, FirstRows(s, img, stride, r)
  PROVE  FirstRows(s \o ShownRow(img, stride, r), img, stride, r + 1)
  <1>1. PICK l \in Nat : l = stride * img.width
    BY DEF ImageOK
  <1>2. PICK t : t = ShownRow(img, stride, r)
    OBVIOUS
  <1>3. /\ t \in Seq(Byte) /\ Len(t) = l
        /\ \A n \in 1..l : t[n] = ByteOf(img, stride, r * l + n - 1)
    BY <1>1, <1>2, ShownRowBytes, RowIsSeq
  <1>4. PICK m \in Nat : m = r * l
    BY <1>1, ProductOrder
  <1>5. s \in Seq(Byte) /\ Len(s) = m /\ \A n \in 1..m : s[n] = ByteOf(img, stride, n - 1)
    BY <1>1, <1>4 DEF FirstRows
  <1>6. /\ s \o t \in Seq(Byte) /\ Len(s \o t) = m + l
        /\ \A n \in 1..m + l : (s \o t)[n] = IF n <= m THEN s[n] ELSE t[n - m]
    <2>1. s \in Seq(Byte) /\ t \in Seq(Byte) /\ Len(s) = m /\ Len(t) = l
      BY <1>3, <1>5
    <2> QED
      BY <1>1, <1>4, <2>1, JoinedBytes, ZenonT(60)
  <1>7. \A n \in 1..m + l : (s \o t)[n] = ByteOf(img, stride, n - 1)
    <2> SUFFICES ASSUME NEW n \in 1..m + l
                 PROVE  (s \o t)[n] = ByteOf(img, stride, n - 1)
      OBVIOUS
    <2>1. CASE n <= m
      BY <2>1, <1>5, <1>6
    <2>2. CASE n > m
      <3>1. n - m \in 1..l /\ r * l + (n - m) - 1 = n - 1
        BY <2>2, <1>1, <1>4
      <3> QED
        BY <2>2, <3>1, <1>3, <1>6
    <2>3. n <= m \/ n > m
      BY <1>1, <1>4
    <2> QED
      BY <2>1, <2>2, <2>3
  <1>8. (r + 1) * l = m + l
    BY <1>4
  <1> QED
    BY <1>1, <1>2, <1>6, <1>7, <1>8 DEF FirstRows

\* The last of the rows, which the next one's filter refers to.
LEMMA LastRow ==
  ASSUME NEW img, ImageOK(img), NEW stride \in {3, 4}, NEW r \in 1..(img.height - 1),
         NEW s, FirstRows(s, img, stride, r), NEW l \in Nat, l = stride * img.width
  PROVE  (IF s = << >> THEN << >> ELSE SubSeq(s, Len(s) - l + 1, Len(s)))
         = ShownRow(img, stride, r - 1)
  <1>1. PICK t : t = ShownRow(img, stride, r - 1)
    OBVIOUS
  <1>2. /\ IsRow(t, l)
        /\ \A n \in 1..l : t[n] = ByteOf(img, stride, (r - 1) * l + n - 1)
    <2>1. r - 1 \in 0..img.height - 1
      BY DEF ImageOK
    <2>2. /\ IsRow(ShownRow(img, stride, r - 1), stride * img.width)
          /\ \A n \in 1..(stride * img.width) :
               ShownRow(img, stride, r - 1)[n]
               = ByteOf(img, stride, (r - 1) * (stride * img.width) + n - 1)
      BY <2>1, ShownRowBytes
    <2> QED
      BY <1>1, <2>2
  <1>3. PICK m \in Nat : m = (r - 1) * l
    BY ProductOrder
  <1>4. r * l = m + l
    BY <1>3
  <1>5. s \in Seq(Byte) /\ Len(s) = m + l
        /\ \A n \in 1..m + l : s[n] = ByteOf(img, stride, n - 1)
    BY <1>4 DEF FirstRows
  <1>6. CASE s = << >>
    <2>1. l = 0
      BY <1>5, <1>6
    <2> QED
      BY <1>1, <1>2, <1>6, <2>1 DEF IsRow
  <1>7. CASE s # << >>
    <2>1. \A n \in m + 1..m + l : s[n] \in Byte
      BY <1>3, <1>5
    <2>2. PICK u : u = SubSeq(s, m + 1, m + l)
      OBVIOUS
    <2>3. u \in Seq(Byte) /\ Len(u) = l /\ \A n \in 1..l : u[n] = s[m + n]
      <3>1. m + 1 \in Int /\ m + l \in Int
        BY <1>3
      <3>2. /\ SubSeq(s, m + 1, m + l) \in Seq(Byte)
            /\ Len(SubSeq(s, m + 1, m + l))
               = IF m + 1 <= m + l THEN m + l - (m + 1) + 1 ELSE 0
            /\ \A n \in 1..m + l - (m + 1) + 1 :
                 SubSeq(s, m + 1, m + l)[n] = s[m + 1 + n - 1]
        BY <1>5, <2>1, <3>1, SubSeqProperties
      <3>3. m + l - (m + 1) + 1 = l /\ (m + 1 <= m + l <=> l # 0)
        BY <1>3
      <3>4. \A n \in 1..l : m + 1 + n - 1 = m + n
        BY <1>3
      <3> QED
        BY <2>2, <3>2, <3>3, <3>4
    <2>4. \A n \in 1..l : u[n] = t[n]
      <3> SUFFICES ASSUME NEW n \in 1..l PROVE u[n] = t[n]
        OBVIOUS
      <3>1. m + n \in 1..m + l /\ m + n - 1 = (r - 1) * l + n - 1
        BY <1>3
      <3> QED
        BY <3>1, <1>2, <1>5, <2>3
    <2>5. t \in Seq(Byte) /\ Len(t) = l
      BY <1>2, RowIsSeq
    <2>6. u = t
      BY <2>3, <2>4, <2>5
    <2>7. Len(s) - l + 1 = m + 1
      BY <1>5
    <2> QED
      BY <1>1, <1>5, <1>7, <2>2, <2>6, <2>7
  <1> QED
    BY <1>6, <1>7

\* The bytes of one pixel.
LEMMA BytesOfPixel ==
  ASSUME NEW img, ImageOK(img), NEW stride \in {3, 4},
         NEW s, FirstRows(s, img, stride, img.height),
         NEW k \in 0..(img.width * img.height - 1)
  PROVE  /\ BytesAt(s, stride, k) \in Seq(Byte)
         /\ Len(BytesAt(s, stride, k)) = stride
         /\ \A m \in 1..stride : BytesAt(s, stride, k)[m]
              = <<img.data[k].r, img.data[k].g, img.data[k].b, img.data[k].a>>[m]
  <1>1. PICK w \in Nat, h \in Nat : w = img.width /\ h = img.height
    BY DEF ImageOK
  <1>2. PICK a \in Nat : a = w * h
    BY <1>1
  <1>3. k \in Nat /\ k + 1 <= a /\ stride \in Nat \ {0}
    BY <1>1, <1>2
  <1>4. Len(s) = a * stride /\ a * stride \in Nat
    <2>1. h * (stride * w) = (w * h) * stride
      <3>1. CASE stride = 3
        BY <3>1, <1>1
      <3>2. CASE stride = 4
        BY <3>2, <1>1
      <3> QED
        BY <3>1, <3>2
    <2> QED
      BY <1>1, <1>2, <1>3, <2>1 DEF FirstRows
  <1>5. PICK o \in Nat : o = stride * k /\ o = k * stride
    BY <1>3
  <1>6. o + stride <= Len(s)
    <2>1. (k + 1) * stride <= a * stride
      BY <1>2, <1>3, ProductOrder
    <2>2. (k + 1) * stride = o + stride
      BY <1>5, <1>3
    <2> QED
      BY <1>4, <2>1, <2>2
  <1>7. s \in Seq(Byte) /\ \A n \in 1..Len(s) : s[n] \in Byte
    BY DEF FirstRows
  <1>8. PICK u : u = SubSeq(s, o + 1, o + stride)
    OBVIOUS
  <1>9. u \in Seq(Byte) /\ Len(u) = stride /\ \A m \in 1..stride : u[m] = s[o + m]
    <2>1. \A n \in (o + 1)..(o + stride) : s[n] \in Byte
      BY <1>5, <1>6, <1>7
    <2>2. /\ SubSeq(s, o + 1, o + stride) \in Seq(Byte)
          /\ Len(SubSeq(s, o + 1, o + stride))
             = IF o + 1 <= o + stride THEN o + stride - (o + 1) + 1 ELSE 0
          /\ \A m \in 1..o + stride - (o + 1) + 1 :
               SubSeq(s, o + 1, o + stride)[m] = s[o + 1 + m - 1]
      BY <1>7, <2>1, <1>3, <1>5, SubSeqProperties
    <2>3. o + stride - (o + 1) + 1 = stride /\ o + 1 <= o + stride
      BY <1>3, <1>5
    <2>4. \A m \in 1..stride : o + 1 + m - 1 = o + m
      BY <1>3, <1>5
    <2> QED
      BY <1>8, <2>2, <2>3, <2>4
  <1>10. ASSUME NEW m \in 1..stride
         PROVE  s[o + m] = <<img.data[k].r, img.data[k].g, img.data[k].b, img.data[k].a>>[m]
    <2>1. o + m \in 1..Len(s) /\ o + m - 1 = k * stride + (m - 1)
      BY <1>3, <1>4, <1>5, <1>6
    <2>2. m - 1 \in 0..stride - 1
      OBVIOUS
    <2>3. /\ (k * stride + (m - 1)) \div stride = k
          /\ (k * stride + (m - 1)) % stride = m - 1
      BY <1>3, <2>2, QuotientOf
    <2>4. s[o + m] = ByteOf(img, stride, o + m - 1)
      BY <2>1 DEF FirstRows
    <2>5. m - 1 + 1 = m
      OBVIOUS
    <2> QED
      BY <2>1, <2>3, <2>4, <2>5 DEF ByteOf
  <1> QED
    BY <1>5, <1>8, <1>9, <1>10 DEF BytesAt

\* The end of img_read: the pixels of the picture, opaque where it has no alpha.
LEMMA ExpandedPicture ==
  ASSUME NEW img, ImageOK(img), NEW s, FirstRows(s, img, 3, img.height)
  PROVE  ExpandTruecolor(s, img.width * img.height)
         = [k \in 0..(img.width * img.height - 1) |-> [img.data[k] EXCEPT !.a = 255]]
  <1> SUFFICES ASSUME NEW k \in 0..(img.width * img.height - 1), NEW b, b = BytesAt(s, 3, k)
               PROVE  [r |-> b[1], g |-> b[2], b |-> b[3], a |-> 255]
                      = [img.data[k] EXCEPT !.a = 255]
    BY DEF ExpandTruecolor
  <1>1. img.data[k] \in Pixel
    BY DEF ImageOK
  <1>2. \A m \in 1..3 : b[m]
          = <<img.data[k].r, img.data[k].g, img.data[k].b, img.data[k].a>>[m]
    BY BytesOfPixel
  <1>3. b[1] = img.data[k].r /\ b[2] = img.data[k].g /\ b[3] = img.data[k].b
    BY <1>2
  <1> QED
    BY <1>1, <1>3 DEF Pixel

\* The end of img_read for a picture with alpha: the same in either byte order.
LEMMA SwappedPicture ==
  ASSUME NEW img, ImageOK(img), NEW s, FirstRows(s, img, 4, img.height),
         NEW le \in BOOLEAN
  PROVE  SwapTruecolorAlpha(le, s, img.width * img.height) = img.data
  <1>1. ASSUME NEW k \in 0..(img.width * img.height - 1), NEW b, b = BytesAt(s, 4, k)
        PROVE  (IF le THEN byteswap(LoadWord(le, b)) ELSE LoadWord(le, b)) = img.data[k]
    <2>1. img.data[k] \in Pixel
      BY DEF ImageOK
    <2>2. b \in Seq(Byte) /\ Len(b) = 4 /\ \A m \in 1..4 : b[m]
            = <<img.data[k].r, img.data[k].g, img.data[k].b, img.data[k].a>>[m]
      BY <1>1, BytesOfPixel
    <2>3. /\ b[1] = img.data[k].r /\ b[2] = img.data[k].g
          /\ b[3] = img.data[k].b /\ b[4] = img.data[k].a
      BY <2>2
    <2>4. CASE le
      <3>1. /\ Reverse(b)[1] = b[4] /\ Reverse(b)[2] = b[3]
            /\ Reverse(b)[3] = b[2] /\ Reverse(b)[4] = b[1]
        BY <2>2 DEF Reverse
      <3> QED
        BY <2>1, <2>3, <2>4, <3>1 DEF byteswap, LoadWord, Pixel
    <2>5. CASE ~le
      BY <2>1, <2>3, <2>5 DEF LoadWord, Pixel
    <2> QED
      BY <2>4, <2>5
  <1>2. img.data = [k \in 0..(img.width * img.height - 1) |-> img.data[k]]
    BY DEF ImageOK
  <1> QED
    BY <1>1, <1>2 DEF SwapTruecolorAlpha

\* The rows that img_write hands to png_set_data are the rows of the picture,
\* in either byte order.
LEMMA RowsWritten ==
  ASSUME NEW img, img.width \in Nat, NEW le \in BOOLEAN
  PROVE  RowsToWrite(le, img) = [k \in 1..img.height |-> ShownRow(img, 4, k - 1)]
  <1>1. ASSUME NEW p
        PROVE  StoreWord(le, IF le THEN byteswap(p) ELSE p) = <<p.r, p.g, p.b, p.a>>
    <2>1. CASE le
      BY <2>1 DEF StoreWord, byteswap, Reverse
    <2>2. CASE ~le
      BY <2>2 DEF StoreWord
    <2> QED
      BY <2>1, <2>2
  <1> QED
    BY <1>1 DEF RowsToWrite, ShownRow

-----------------------------------------------------------------------------
(* What a transformation makes of a pixel                                  *)

\* The weights of to_grayscale are those of a mean.
LEMMA GrayPixel ==
  ASSUME NEW p \in Pixel, NEW q, q = to_grayscale(p)
  PROVE  /\ Min({p.r, p.g, p.b}) <= q.r /\ q.r <= Max({p.r, p.g, p.b})
         /\ q.r = q.g /\ q.g = q.b /\ q.a = p.a
         /\ q \in Pixel
  <1>1. PICK x \in Byte, y \in Byte, z \in Byte : x = p.r /\ y = p.g /\ z = p.b
    BY DEF Pixel, Byte
  <1>0. x \in Int /\ y \in Int /\ z \in Int
    BY DEF Byte
  <1>2. PICK lo \in Int, hi \in Int : lo = Min({x, y, z}) /\ hi = Max({x, y, z})
    BY <1>0, MinMaxOfThree
  <1>3. lo <= x /\ lo <= y /\ lo <= z /\ x <= hi /\ y <= hi /\ z <= hi
    BY <1>0, <1>2, MinMaxOfThree
  <1>4. PICK g \in Int : g = (79 * x + 128 * y + 49 * z) \div 256
    BY DEF Byte
  <1>5. lo <= g /\ g <= hi /\ g \in Byte
    BY <1>3, <1>4 DEF Byte
  <1>6. q = [r |-> g, g |-> g, b |-> g, a |-> p.a]
    BY <1>1, <1>4 DEF to_grayscale, make_pixel
  <1> QED
    BY <1>1, <1>2, <1>5, <1>6 DEF Pixel, Byte

\* A smaller number has the smaller square.
LEMMA SquareOrder ==
  ASSUME NEW a \in Nat, NEW b \in Nat, a <= b
  PROVE  a * a <= b * b /\ a * a \in Nat /\ b * b \in Nat
  OBVIOUS

\* Half of the way to the middle and back, in Units.
LEMMA Portion ==
  ASSUME NEW max \in Nat \ {0}, NEW x \in 0..max
  PROVE  /\ (2 * Unit * x) \div max \in 0..2 * Unit
         /\ x = 0 => (2 * Unit * x) \div max = 0
         /\ 2 * x <= max => (2 * Unit * x) \div max <= Unit
         /\ max <= 2 * x => Unit <= (2 * Unit * x) \div max
  <1>1. PICK u \in Nat \ {0} : u = Unit
    BY ImagesAssumption
  <1>2. PICK ux \in Nat : ux = u * x
    BY <1>1
  <1>3. PICK um \in Nat : um = u * max
    BY <1>1
  <1>4. ux <= um
    BY <1>1, <1>2, <1>3
  <1>5. 2 * u * x = 2 * ux
    BY <1>1, <1>2
  <1>6. (2 * um) \div max = 2 * u /\ um \div max = u
    <2>1. 2 * um = (2 * u) * max + 0 /\ um = u * max + 0
      BY <1>1, <1>3
    <2>2. 2 * u \in Nat /\ 0 \in 0..max - 1
      BY <1>1
    <2> QED
      BY <1>1, <2>1, <2>2, QuotientOf
  <1>7. (2 * ux) \div max <= (2 * um) \div max /\ (2 * ux) \div max \in Nat
    BY <1>2, <1>3, <1>4, QuotientOrder
  <1>8. 2 * x <= max => 2 * ux <= um
    <2>1. 2 * x <= max => (2 * x) * u <= max * u
      BY <1>1, ProductOrder
    <2> QED
      BY <1>1, <1>2, <1>3, <2>1
  <1>9. 2 * x <= max => (2 * ux) \div max <= um \div max
    BY <1>2, <1>3, <1>8, QuotientOrder
  <1>10. x = 0 => ux = 0
    BY <1>1, <1>2
  <1>11. max <= 2 * x => um <= 2 * ux
    <2>1. max <= 2 * x => max * u <= (2 * x) * u
      BY <1>1, ProductOrder
    <2> QED
      BY <1>1, <1>2, <1>3, <2>1
  <1>12. max <= 2 * x => um \div max <= (2 * ux) \div max
    BY <1>2, <1>3, <1>11, QuotientOrder
  <1> QED
    BY <1>1, <1>5, <1>6, <1>7, <1>9, <1>10, <1>12

\* gradient is not negative and not above Unit^2; it is 0 at the edge and
\* Unit^2 in the middle.
LEMMA Gradient ==
  ASSUME NEW max \in Nat \ {0}, NEW x \in 0..max
  PROVE  /\ gradient(x, max) \in 0..Square(Unit) /\ Square(Unit) \in Nat \ {0}
         /\ x = 0 => gradient(x, max) = 0
         /\ 2 * x = max => gradient(x, max) = Square(Unit)
  <1>1. PICK u \in Nat \ {0} : u = Unit
    BY ImagesAssumption
  <1>2. PICK t \in 0..2 * u : t = (2 * Unit * x) \div max
    BY <1>1, Portion
  <1>2a. /\ x = 0 => t = 0
         /\ 2 * x <= max => t <= u
         /\ max <= 2 * x => u <= t
    BY <1>1, <1>2, Portion
  <1>3. gradient(x, max) = u * u - (t - u) * (t - u)
    BY <1>1, <1>2 DEF gradient, Square
  <1>4. PICK d \in Nat : d <= u /\ d * d = (t - u) * (t - u) /\ (t = 0 => d = u)
    <2>1. CASE t <= u
      <3>1. u - t \in Nat /\ u - t <= u /\ (u - t) * (u - t) = (t - u) * (t - u)
        BY <1>1, <1>2, <2>1
      <3> QED
        BY <1>1, <1>2, <3>1
    <2>2. CASE t > u
      <3>1. t - u \in Nat /\ t - u <= u /\ t # 0
        BY <1>1, <1>2, <2>2
      <3> QED
        BY <3>1
    <2> QED
      BY <1>1, <1>2, <2>1, <2>2
  <1>5. d * d <= u * u /\ d * d \in Nat /\ u * u \in Nat
    BY <1>1, <1>4, SquareOrder
  <1>6. u * u \in Nat \ {0}
    BY <1>1
  <1>7. x = 0 => d * d = u * u
    BY <1>2a, <1>4
  <1>8. 2 * x = max => t = u
    <2>1. t \in Int /\ u \in Int
      BY <1>1, <1>2
    <2> QED
      BY <1>2a, <2>1
  <1>9. t = u => (t - u) * (t - u) = 0
    BY <1>1
  <1>10. 2 * x = max => gradient(x, max) = u * u
    BY <1>3, <1>5, <1>8, <1>9
  <1> QED
    BY <1>1, <1>3, <1>4, <1>5, <1>6, <1>7, <1>10 DEF Square

\* The square of a number between -a and a is at most a's.
LEMMA SquareBetween ==
  ASSUME NEW a \in Nat, NEW b \in Int, -a <= b, b <= a
  PROVE  b * b <= a * a /\ b * b \in Nat /\ a * a \in Nat
  <1>1. CASE b >= 0
    BY <1>1, SquareOrder
  <1>2. CASE b < 0
    <2>1. PICK c \in Nat : c = -b /\ c <= a
      BY <1>2
    <2>2. b * b = c * c
      BY <2>1
    <2> QED
      BY <2>1, <2>2, SquareOrder
  <1> QED
    BY <1>1, <1>2

\* Nearer to the middle a gradient is never smaller.
LEMMA GradientNearer ==
  ASSUME NEW max \in Nat \ {0}, NEW x \in 0..max, NEW y \in 0..max, Nearer(y, x, max)
  PROVE  gradient(x, max) <= gradient(y, max)
  <1>1. PICK u \in Nat \ {0} : u = Unit
    BY ImagesAssumption
  <1>2. PICK s \in 0..2 * u, t \in 0..2 * u :
          /\ s = (2 * Unit * x) \div max /\ t = (2 * Unit * y) \div max
          /\ 2 * x <= max => s <= u
          /\ max <= 2 * y => u <= t
    BY <1>1, Portion
  <1>3. PICK ux \in Nat, uy \in Nat, um \in Nat : ux = u * x /\ uy = u * y /\ um = u * max
    BY <1>1
  <1>4. 2 * Unit * x = 2 * ux /\ 2 * Unit * y = 2 * uy
    BY <1>1, <1>3
  <1>5. PICK a \in Nat, b \in Nat : a = 2 * ux /\ b = 2 * uy
    OBVIOUS
  <1>6. s = a \div max /\ t = b \div max
    BY <1>2, <1>4, <1>5
  <1>7. (x <= y => a <= b) /\ (y <= x => b <= a)
    <2>1. (x <= y => x * u <= y * u) /\ (y <= x => y * u <= x * u)
      BY <1>1, ProductOrder
    <2> QED
      BY <1>1, <1>3, <1>5, <2>1
  <1>8. (t - u) * (t - u) <= (s - u) * (s - u)
    <2>1. CASE 2 * x <= max
      <3>1. x <= y /\ x + y <= max /\ s <= u
        BY <1>2, <2>1 DEF Nearer
      <3>2. s <= t
        BY <1>6, <1>7, <3>1, QuotientOrder
      <3>3. s + t <= 2 * u
        <4>1. s * max <= a /\ t * max <= b
          BY <1>6, QuotientTimes
        <4>2. a + b <= 2 * um
          <5>1. (x + y) * u <= max * u
            BY <1>1, <3>1, ProductOrder
          <5>2. ux + uy = (x + y) * u /\ um = max * u
            BY <1>1, <1>3
          <5>3. ux + uy <= um
            BY <5>1, <5>2
          <5> QED
            BY <1>3, <1>5, <5>3
        <4>3. (s + t) * max = s * max + t * max /\ (2 * u) * max = 2 * um
          BY <1>1, <1>2, <1>3
        <4>4. PICK c \in Nat, d \in Nat : c = s * max /\ d = t * max
          OBVIOUS
        <4>5. (s + t) * max <= (2 * u) * max
          BY <1>3, <1>5, <4>1, <4>2, <4>3, <4>4
        <4>6. s + t \in Nat /\ 2 * u \in Nat
          BY <1>1, <1>2
        <4> QED
          BY <4>5, <4>6, ProductCancels
      <3>4. PICK n \in Nat, e \in Int : n = u - s /\ e = t - u /\ -n <= e /\ e <= n
        BY <3>1, <3>2, <3>3
      <3>5. e * e <= n * n
        BY <3>4, SquareBetween
      <3>6. n * n = (s - u) * (s - u)
        BY <3>4
      <3> QED
        BY <3>4, <3>5, <3>6
    <2>2. CASE ~(2 * x <= max)
      <3>1. max <= 2 * y /\ y <= x /\ u <= t
        BY <1>2, <2>2 DEF Nearer
      <3>2. t <= s
        BY <1>6, <1>7, <3>1, QuotientOrder
      <3>3. PICK n \in Nat, e \in Nat : n = s - u /\ e = t - u /\ e <= n
        BY <3>1, <3>2
      <3>4. e * e <= n * n
        BY <3>3, SquareOrder
      <3> QED
        BY <3>3, <3>4
    <2> QED
      BY <2>1, <2>2
  <1>9. PICK v \in Int, z \in Int, uu \in Int :
          v = (t - u) * (t - u) /\ z = (s - u) * (s - u) /\ uu = u * u
    <2>1. t - u \in Int /\ s - u \in Int /\ u \in Int
      BY <1>1, <1>2
    <2>2. \A k \in Int : k * k \in Int
      OBVIOUS
    <2> QED
      BY <2>1, <2>2
  <1>10. gradient(x, max) = uu - z /\ gradient(y, max) = uu - v
    BY <1>1, <1>2, <1>9 DEF gradient, Square
  <1> QED
    BY <1>8, <1>9, <1>10

\* What fade makes of a component, where the gradients are s and t of at most m.
FadedTo(s, t, m, c) == (s * t * c) \div (m * m)

\* A byte that is faded stays a byte and gets no brighter.
LEMMA FadedByte ==
  ASSUME NEW m \in Nat \ {0}, NEW s \in 0..m, NEW t \in 0..m, NEW c \in Byte
  PROVE  /\ FadedTo(s, t, m, c) \in Byte /\ FadedTo(s, t, m, c) <= c
         /\ s = 0 \/ t = 0 => FadedTo(s, t, m, c) = 0
         /\ s = m /\ t = m => FadedTo(s, t, m, c) = c
  <1>1. s * t <= m * m /\ s * t \in Nat /\ m * m \in Nat
    <2>1. s * t <= m * t
      BY ProductOrder
    <2>2. t * m <= m * m
      BY ProductOrder
    <2> QED
      BY <2>1, <2>2
  <1>2. m * m \in Nat \ {0}
    OBVIOUS
  <1>3. PICK st \in Nat, mm \in Nat \ {0} : st = s * t /\ mm = m * m /\ st <= mm
    BY <1>1, <1>2
  <1>4. st * c <= mm * c /\ st * c \in Nat /\ mm * c \in Nat
    BY <1>3, ProductOrder DEF Byte
  <1>5. (mm * c) \div mm = c
    <2>1. mm * c = c * mm + 0 /\ c \in Nat /\ 0 \in 0..mm - 1
      BY <1>3 DEF Byte
    <2> QED
      BY <2>1, QuotientOf
  <1>6. (st * c) \div mm <= (mm * c) \div mm /\ (st * c) \div mm \in Nat
    BY <1>3, <1>4, QuotientOrder
  <1>7. s = 0 \/ t = 0 => (st * c) \div mm = 0
    <2>1. s = 0 \/ t = 0 => st = 0
      BY <1>3
    <2>2. st = 0 => st * c = 0
      BY DEF Byte
    <2>3. 0 \div mm = 0
      BY <1>3
    <2> QED
      BY <2>1, <2>2, <2>3
  <1>8. s = m /\ t = m => (st * c) \div mm = c
    <2>1. s = m /\ t = m => st = mm
      BY <1>3
    <2> QED
      BY <1>5, <2>1
  <1>9. FadedTo(s, t, m, c) = (st * c) \div mm
    BY <1>3 DEF FadedTo
  <1> QED
    BY <1>3, <1>5, <1>6, <1>7, <1>8, <1>9 DEF Byte

\* Larger gradients and a brighter component make a brighter one.
LEMMA FadedOrder ==
  ASSUME NEW m \in Nat \ {0}, NEW s \in 0..m, NEW t \in 0..m, NEW c \in Byte,
         NEW s2 \in 0..m, NEW t2 \in 0..m, NEW c2 \in Byte, s <= s2, t <= t2, c <= c2
  PROVE  FadedTo(s, t, m, c) <= FadedTo(s2, t2, m, c2)
  <1>1. s * t <= s2 * t2 /\ s * t \in Nat /\ s2 * t2 \in Nat
    <2>1. s * t <= s2 * t
      BY ProductOrder
    <2>2. t * s2 <= t2 * s2
      BY ProductOrder
    <2> QED
      BY <2>1, <2>2
  <1>2. PICK a \in Nat, b \in Nat : a = s * t /\ b = s2 * t2 /\ a <= b
    BY <1>1
  <1>3. a * c <= b * c2 /\ a * c \in Nat /\ b * c2 \in Nat
    <2>0. c \in Nat /\ c2 \in Nat
      BY DEF Byte
    <2>1. a * c <= b * c
      BY <1>2, <2>0, ProductOrder
    <2>2. c * b <= c2 * b
      BY <1>2, <2>0, ProductOrder
    <2>3. PICK x \in Nat, y \in Nat, z \in Nat : x = a * c /\ y = b * c /\ z = b * c2
      BY <1>2, <2>0
    <2>4. c * b = y /\ c2 * b = z
      BY <1>2, <2>0, <2>3
    <2> QED
      BY <2>1, <2>2, <2>3, <2>4
  <1>4. m * m \in Nat \ {0}
    OBVIOUS
  <1>5. (a * c) \div (m * m) <= (b * c2) \div (m * m)
    BY <1>3, <1>4, QuotientOrder
  <1> QED
    BY <1>2, <1>5 DEF FadedTo

RGB == {"r", "g", "b"}

\* What fade makes of a pixel of the image, and of the one in the middle.
LEMMA FadedPixel ==
  ASSUME NEW img, ImageOK(img), NEW k \in 0..(img.width * img.height - 1),
         NEW p, p = img.data[k], NEW q, q = fade(img, k),
         NEW w, w = img.width, NEW h, h = img.height
  PROVE  /\ q \in Pixel /\ q.a = p.a
         /\ k < w \/ k % w = 0 => q = make_pixel(0, 0, 0, p.a)
         /\ 2 * (k \div w) = h /\ 2 * (k % w) = w => q = p
         /\ \A c \in RGB : /\ q[c] <= p[c]
                           /\ q[c] = FadedTo(gradient(k \div w, h), gradient(k % w, w),
                                             Square(Unit), p[c])
  <1>1. w \in Nat /\ h \in Nat
    BY DEF ImageOK
  <1>2. k \in 0..(h * w - 1)
    BY <1>1
  <1>3. k \div w \in 0..h - 1 /\ k % w \in 0..w - 1 /\ w > 0 /\ h > 0
    BY <1>1, <1>2, Coordinates
  <1>4. PICK m \in Nat \ {0} : m = Square(Unit)
    BY ImagesAssumption DEF Square
  <1>5. PICK s \in 0..m, t \in 0..m : /\ s = gradient(k \div w, h) /\ t = gradient(k % w, w)
                                      /\ k \div w = 0 => s = 0
                                      /\ k % w = 0 => t = 0
                                      /\ 2 * (k \div w) = h => s = m
                                      /\ 2 * (k % w) = w => t = m
    <2>1. PICK y \in 0..h - 1, x \in 0..w - 1 : y = k \div w /\ x = k % w
      BY <1>3
    <2>2. w \in Nat \ {0} /\ h \in Nat \ {0} /\ y \in 0..h /\ x \in 0..w
      BY <1>1, <1>3
    <2>3. /\ gradient(y, h) \in 0..m /\ (y = 0 => gradient(y, h) = 0)
          /\ 2 * y = h => gradient(y, h) = m
      BY <1>4, <2>2, Gradient
    <2>4. /\ gradient(x, w) \in 0..m /\ (x = 0 => gradient(x, w) = 0)
          /\ 2 * x = w => gradient(x, w) = m
      BY <1>4, <2>2, Gradient
    <2> QED
      BY <2>1, <2>3, <2>4
  <1>6. PICK pr \in Byte, pg \in Byte, pb \in Byte, pa \in 0..255 :
          p = [r |-> pr, g |-> pg, b |-> pb, a |-> pa]
    <2>1. p \in Pixel
      BY DEF ImageOK
    <2>2. Byte = 0..255
      BY DEF Byte
    <2> QED
      BY <2>1, <2>2, Zenon DEF Pixel
  <1> DEFINE d(c) == FadedTo(s, t, m, c)
  <1>7. q = [r |-> d(pr), g |-> d(pg), b |-> d(pb), a |-> pa]
    BY <1>4, <1>5, <1>6 DEF fade, make_pixel, Square, FadedTo
  <1>8. \A c \in Byte : /\ d(c) \in Byte /\ d(c) <= c /\ (s = 0 \/ t = 0 => d(c) = 0)
                        /\ s = m /\ t = m => d(c) = c
    <2>1. SUFFICES ASSUME NEW c \in Byte
                   PROVE  /\ d(c) \in Byte /\ d(c) <= c /\ (s = 0 \/ t = 0 => d(c) = 0)
                          /\ s = m /\ t = m => d(c) = c
      OBVIOUS
    <2>2. PICK f : f = FadedTo(s, t, m, c)
      OBVIOUS
    <2>3. f \in Byte /\ f <= c /\ (s = 0 \/ t = 0 => f = 0) /\ (s = m /\ t = m => f = c)
      BY <2>2, FadedByte
    <2> QED
      BY <2>2, <2>3
  <1> HIDE DEF d
  <1>9. k < w => k \div w = 0
    <2>1. k < w => k = 0 * w + k /\ k \in 0..w - 1
      BY <1>1, <1>2
    <2>2. w \in Nat \ {0} /\ 0 \in Nat
      BY <1>1, <1>3
    <2>3. k \in 0..w - 1 => (0 * w + k) \div w = 0
      BY <2>2, QuotientOf
    <2> QED
      BY <2>1, <2>3
  <1>10. PICK x \in Byte, y \in Byte, z \in Byte : x = d(pr) /\ y = d(pg) /\ z = d(pb)
    BY <1>6, <1>8
  <1>11. q = [r |-> x, g |-> y, b |-> z, a |-> pa]
    BY <1>7, <1>10
  <1>12. q \in Pixel /\ q.a = p.a
    BY <1>6, <1>11 DEF Pixel, Byte
  <1>13. k < w \/ k % w = 0 => q = make_pixel(0, 0, 0, p.a)
    <2>1. k < w \/ k % w = 0 => x = 0 /\ y = 0 /\ z = 0
      BY <1>5, <1>6, <1>8, <1>9, <1>10
    <2> QED
      BY <1>6, <1>11, <2>1 DEF make_pixel
  <1>14. 2 * (k \div w) = h /\ 2 * (k % w) = w => q = p
    <2>1. 2 * (k \div w) = h /\ 2 * (k % w) = w => x = pr /\ y = pg /\ z = pb
      BY <1>5, <1>6, <1>8, <1>10
    <2> QED
      BY <1>6, <1>11, <2>1
  <1>15. x <= pr /\ y <= pg /\ z <= pb
    BY <1>6, <1>8, <1>10
  <1>16. ASSUME NEW c \in RGB PROVE q[c] <= p[c] /\ q[c] = d(p[c])
    <2>1. CASE c = "r"
      BY <1>6, <1>10, <1>11, <1>15, <2>1
    <2>2. CASE c = "g"
      BY <1>6, <1>10, <1>11, <1>15, <2>2
    <2>3. CASE c = "b"
      BY <1>6, <1>10, <1>11, <1>15, <2>3
    <2> QED
      BY <1>16, <2>1, <2>2, <2>3 DEF RGB
  <1>17. \A c : d(c) = FadedTo(gradient(k \div w, h), gradient(k % w, w), Square(Unit), c)
    BY <1>4, <1>5 DEF d
  <1> QED
    BY <1>12, <1>13, <1>14, <1>16, <1>17

\* Of two pixels the nearer one stays the brighter.
LEMMA FadedPixels ==
  ASSUME NEW img, ImageOK(img), NEW w, w = img.width, NEW h, h = img.height,
         NEW k \in 0..(img.width * img.height - 1), NEW l \in 0..(img.width * img.height - 1),
         Nearer(l \div w, k \div w, h), Nearer(l % w, k % w, w),
         NEW c \in RGB, img.data[k][c] <= img.data[l][c]
  PROVE  fade(img, k)[c] <= fade(img, l)[c]
  <1>1. w \in Nat /\ h \in Nat
    BY DEF ImageOK
  <1>2. k \in 0..(h * w - 1) /\ l \in 0..(h * w - 1)
    BY <1>1
  <1>3. /\ k \div w \in 0..h - 1 /\ k % w \in 0..w - 1
        /\ l \div w \in 0..h - 1 /\ l % w \in 0..w - 1 /\ w > 0 /\ h > 0
    BY <1>1, <1>2, Coordinates
  <1>4. PICK m \in Nat \ {0} : m = Square(Unit)
    BY ImagesAssumption DEF Square
  <1>5. PICK ky \in 0..h, kx \in 0..w, ly \in 0..h, lx \in 0..w :
          ky = k \div w /\ kx = k % w /\ ly = l \div w /\ lx = l % w
    BY <1>1, <1>3
  <1>6. w \in Nat \ {0} /\ h \in Nat \ {0}
    BY <1>1, <1>3
  <1>7. PICK s \in 0..m, t \in 0..m, s2 \in 0..m, t2 \in 0..m :
          /\ s = gradient(ky, h) /\ t = gradient(kx, w)
          /\ s2 = gradient(ly, h) /\ t2 = gradient(lx, w)
          /\ s <= s2 /\ t <= t2
    <2>1. gradient(ky, h) <= gradient(ly, h) /\ gradient(kx, w) <= gradient(lx, w)
      BY <1>5, <1>6, GradientNearer
    <2>2. /\ gradient(ky, h) \in 0..m /\ gradient(ly, h) \in 0..m
          /\ gradient(kx, w) \in 0..m /\ gradient(lx, w) \in 0..m
      BY <1>4, <1>6, Gradient
    <2> QED
      BY <2>1, <2>2
  <1>8. img.data[k][c] \in Byte /\ img.data[l][c] \in Byte
    <2>1. img.data[k] \in Pixel /\ img.data[l] \in Pixel
      BY DEF ImageOK
    <2>2. \A p \in Pixel : p.r \in Byte /\ p.g \in Byte /\ p.b \in Byte
      BY DEF Pixel, Byte
    <2> QED
      BY <2>1, <2>2 DEF RGB
  <1>9. FadedTo(s, t, m, img.data[k][c]) <= FadedTo(s2, t2, m, img.data[l][c])
    BY <1>7, <1>8, FadedOrder
  <1>10. /\ fade(img, k)[c] = FadedTo(s, t, m, img.data[k][c])
         /\ fade(img, l)[c] = FadedTo(s2, t2, m, img.data[l][c])
    BY <1>4, <1>5, <1>7, FadedPixel
  <1> QED
    BY <1>9, <1>10

-----------------------------------------------------------------------------
(* The pixels written after some turns of a loop                           *)

Area(img) == img.width * img.height

OutputArea(f, img) ==
  IF f = "rgb" THEN (2 * img.height) * (2 * img.width) ELSE Area(img)

\* The turn of the loop of f that writes the pixel n of the output: for rgb also
\* the pixel of the input that is shown there.
TurnOf(f, img, n) ==
  LET w == 2 * img.width
  IN  IF f = "rgb" THEN ((n \div w) % img.height) * img.width + ((n % w) % img.width) ELSE n

Replica(img, n) ==
  LET col == n % (2 * img.width)
      line == n \div (2 * img.width)
      p == img.data[TurnOf("rgb", img, n)]
  IN  make_pixel(IF line < img.height THEN p.r ELSE 0,
                 IF col < img.width THEN p.g ELSE 0,
                 IF (line < img.height) = (col < img.width) THEN p.b ELSE 0, p.a)

OutputPixel(f, img, n) ==
  CASE f = "rgb" -> Replica(img, n)
    [] f = "grayscale" -> to_grayscale(img.data[n])
    [] f = "fade" -> fade(img, n)
    [] f = "kaleidoscope" -> img.data[in_idx(img.width, n)]

\* The places written after j turns.
Places(f, img, j) == {n \in 0..(OutputArea(f, img) - 1) : TurnOf(f, img, n) < j}

IsWritten(data, f, img, j) ==
  /\ DOMAIN data = Places(f, img, j)
  /\ \A n \in Places(f, img, j) : data[n] = OutputPixel(f, img, n)

\* Nothing is written before the loop.
LEMMA NothingWritten ==
  ASSUME NEW f, NEW img, ImageOK(img)
  PROVE  IsWritten(<< >>, f, img, 0)
  <1>1. Places(f, img, 0) = {}
    <2> SUFFICES ASSUME NEW n \in 0..(OutputArea(f, img) - 1), TurnOf(f, img, n) < 0
                 PROVE  FALSE
      BY DEF Places
    <2>1. PICK w \in Nat, h \in Nat : w = img.width /\ h = img.height
      BY DEF ImageOK
    <2>2. CASE f = "rgb"
      <3>1. PICK w2 \in Nat, h2 \in Nat : w2 = 2 * w /\ h2 = 2 * h
        OBVIOUS
      <3>2. n \in 0..(h2 * w2 - 1)
        BY <2>1, <2>2, <3>1 DEF OutputArea
      <3>3. PICK y \in 0..h2 - 1, x \in 0..w2 - 1 : y = n \div w2 /\ x = n % w2
        BY <3>2, Coordinates
      <3>4. PICK a \in Nat, b \in Nat : a = y % h /\ b = x % w
        BY <3>1, <3>3, HalfRemainder
      <3>5. a * w + b \in Nat
        OBVIOUS
      <3>6. TurnOf(f, img, n) = a * w + b
        BY <2>1, <2>2, <3>1, <3>3, <3>4 DEF TurnOf
      <3> QED
        BY <3>5, <3>6
    <2>3. CASE f # "rgb"
      BY <2>3 DEF TurnOf
    <2> QED
      BY <2>2, <2>3
  <1>2. DOMAIN << >> = {}
    OBVIOUS
  <1> QED
    BY <1>1, <1>2 DEF IsWritten

\* One turn of a loop that writes one pixel.
LEMMA OneMoreWritten ==
  ASSUME NEW f \in Functions \ {"rgb"}, NEW img, ImageOK(img), NEW j \in 0..(Area(img) - 1),
         NEW data, IsWritten(data, f, img, j)
  PROVE  IsWritten(Put(data, j, OutputPixel(f, img, j)), f, img, j + 1)
  <1>1. PICK m \in Nat : m = OutputArea(f, img) /\ j \in 0..m - 1
    BY DEF OutputArea, ImageOK, Area
  <1>2. Places(f, img, j) = 0..j - 1 /\ Places(f, img, j + 1) = 0..j
    BY <1>1 DEF Places, TurnOf
  <1> QED
    BY <1>1, <1>2 DEF IsWritten, Put

\* The output of rgb is twice as wide and high.
IsTwice(a, b) == a \in Nat /\ b \in Nat /\ a = 2 * b

\* A column of the output shows one of the input, and that one is shown by two.
LEMMA HalfOf ==
  ASSUME NEW w2, NEW w, IsTwice(w2, w), NEW x \in 0..w2 - 1
  PROVE  /\ x % w \in 0..w - 1
         /\ \A c \in 0..w - 1 : x % w = c <=> x \in {c, c + w}
  <1>1. x % w \in 0..w - 1 /\ x % w = IF x < w THEN x ELSE x - w
    BY HalfRemainder DEF IsTwice
  <1> QED
    BY <1>1 DEF IsTwice

\* A row or column of the output of imgproc_rgb is one of the input, or one
\* behind all of them.
LEMMA BothHalves ==
  ASSUME NEW w2, NEW w, IsTwice(w2, w), NEW c \in 0..w - 1
  PROVE  /\ c \in 0..w2 - 1 /\ c + w \in 0..w2 - 1 /\ c # c + w
         /\ c % w = c /\ (c + w) % w = c
         /\ c < w /\ ~ (c + w < w)
  <1>1. c \in 0..w2 - 1 /\ c + w \in 0..w2 - 1 /\ c < w /\ ~ (c + w < w) /\ c # c + w
    BY DEF IsTwice
  <1> QED
    BY <1>1, HalfOf

\* The width and height of the input and those of the output.
RgbSizes(img, w, h, w2, h2) ==
  w = img.width /\ h = img.height /\ IsTwice(w2, w) /\ IsTwice(h2, h)

AtPlace(n, x, y, w2) == n = y * w2 + x

\* A pixel of the output of rgb, by its column and its row.
LEMMA ReplicaAt ==
  ASSUME NEW img, NEW w, NEW h, NEW w2, NEW h2, RgbSizes(img, w, h, w2, h2),
         NEW x \in 0..w2 - 1, NEW y \in 0..h2 - 1, NEW n, AtPlace(n, x, y, w2)
  PROVE  /\ n \in 0..(h2 * w2 - 1)
         /\ TurnOf("rgb", img, n) = (y % h) * w + (x % w)
         /\ TurnOf("rgb", img, n) \in 0..(w * h - 1)
         /\ OutputPixel("rgb", img, n)
            = LET p == img.data[(y % h) * w + (x % w)]
              IN  make_pixel(IF y < h THEN p.r ELSE 0, IF x < w THEN p.g ELSE 0,
                             IF (y < h) = (x < w) THEN p.b ELSE 0, p.a)
  <1>1. w2 \in Nat /\ h2 \in Nat /\ w \in Nat /\ h \in Nat
    BY DEF RgbSizes, IsTwice
  <1>2. /\ n \in 0..(h2 * w2 - 1)
        /\ n \div w2 = y /\ n % w2 = x
    BY <1>1, PlaceOf DEF AtPlace
  <1>3. PICK a \in 0..h - 1, b \in 0..w - 1 : a = y % h /\ b = x % w
    BY HalfOf DEF RgbSizes
  <1>4. 2 * img.width = w2 /\ img.width = w /\ img.height = h
    BY DEF RgbSizes, IsTwice
  <1>5. TurnOf("rgb", img, n) = a * w + b
    <2>1. TurnOf("rgb", img, n)
          = ((n \div (2 * img.width)) % img.height) * img.width
            + ((n % (2 * img.width)) % img.width)
      BY DEF TurnOf
    <2>2. TurnOf("rgb", img, n) = ((n \div w2) % h) * w + ((n % w2) % w)
      BY <2>1, <1>4, Zenon
    <2>3. (n \div w2) % h = a /\ (n % w2) % w = b
      BY <1>2, <1>3
    <2> QED
      BY <2>2, <2>3, Zenon
  <1>6. a * w + b \in 0..(w * h - 1)
    <2>1. a * w + b \in 0..(h * w - 1)
      BY <1>1, PlaceOf
    <2>2. h * w = w * h
      BY <1>1
    <2> QED
      BY <2>1, <2>2
  <1>7. OutputPixel("rgb", img, n) = Replica(img, n)
    BY DEF OutputPixel
  <1>8. Replica(img, n)
        = LET p == img.data[a * w + b]
          IN  make_pixel(IF y < h THEN p.r ELSE 0, IF x < w THEN p.g ELSE 0,
                         IF (y < h) = (x < w) THEN p.b ELSE 0, p.a)
    BY <1>2, <1>4, <1>5, Zenon DEF Replica
  <1> QED
    BY <1>2, <1>3, <1>5, <1>6, <1>7, <1>8

\* The pixels of the output that are made from one of the input: one in each
\* quadrant.
LEMMA FourPlaces ==
  ASSUME NEW img, NEW w, NEW h, NEW w2, NEW h2, RgbSizes(img, w, h, w2, h2),
         NEW cc \in 0..w - 1, NEW rr \in 0..h - 1, NEW n \in 0..(h2 * w2 - 1)
  PROVE  /\ TurnOf("rgb", img, n) \in Nat
         /\ TurnOf("rgb", img, n) = rr * w + cc
            <=> \/ AtPlace(n, cc, rr, w2) \/ AtPlace(n, cc + w, rr, w2)
                \/ AtPlace(n, cc, rr + h, w2) \/ AtPlace(n, cc + w, rr + h, w2)
  <1>0. w2 \in Nat /\ h2 \in Nat /\ w \in Nat /\ h \in Nat
    BY DEF RgbSizes, IsTwice
  <1>1. PICK y \in 0..h2 - 1, x \in 0..w2 - 1 : AtPlace(n, x, y, w2)
    BY <1>0, Coordinates DEF AtPlace
  <1>2. TurnOf("rgb", img, n) = (y % h) * w + (x % w) /\ TurnOf("rgb", img, n) \in Nat
    <2>1. TurnOf("rgb", img, n) \in 0..(w * h - 1)
      BY <1>1, ReplicaAt
    <2> QED
      BY <1>1, <2>1, ReplicaAt
  <1>3. PICK a \in 0..h - 1, b \in 0..w - 1 :
          /\ a = y % h /\ b = x % w
          /\ a = rr <=> y \in {rr, rr + h}
          /\ b = cc <=> x \in {cc, cc + w}
    BY HalfOf DEF RgbSizes
  <1>4. a * w + b = rr * w + cc <=> a = rr /\ b = cc
    <2>1. a \in Nat /\ rr \in Nat
      BY <1>0
    <2>2. a * w + b = rr * w + cc => a = rr /\ b = cc
      BY <1>0, <2>1, OnePlace
    <2> QED
      BY <2>2
  <1>5. ASSUME NEW y2 \in {rr, rr + h}, NEW x2 \in {cc, cc + w}
        PROVE  AtPlace(n, x2, y2, w2) <=> y = y2 /\ x = x2
    <2>1. y \in Nat /\ y2 \in Nat /\ x2 \in 0..w2 - 1
      <3>1. cc \in 0..w2 - 1 /\ cc + w \in 0..w2 - 1
        BY BothHalves DEF RgbSizes
      <3>2. y \in Nat /\ rr \in Nat /\ rr + h \in Nat
        BY <1>0
      <3> QED
        BY <3>1, <3>2
    <2>2. y * w2 + x = y2 * w2 + x2 => y = y2 /\ x = x2
      BY <1>0, <2>1, OnePlace
    <2> QED
      BY <1>1, <2>2 DEF AtPlace
  <1>6. TurnOf("rgb", img, n) = rr * w + cc <=> a = rr /\ b = cc
    BY <1>2, <1>3, <1>4
  <1>7. /\ AtPlace(n, cc, rr, w2) <=> y = rr /\ x = cc
        /\ AtPlace(n, cc + w, rr, w2) <=> y = rr /\ x = cc + w
        /\ AtPlace(n, cc, rr + h, w2) <=> y = rr + h /\ x = cc
        /\ AtPlace(n, cc + w, rr + h, w2) <=> y = rr + h /\ x = cc + w
    BY <1>5
  <1> QED
    BY <1>2, <1>3, <1>6, <1>7

\* One turn of the loop of rgb.
LEMMA FourMoreWritten ==
  ASSUME NEW img, ImageOK(img), NEW j \in 0..(Area(img) - 1),
         NEW out, out.width = 2 * img.width, IsWritten(out.data, "rgb", img, j)
  PROVE  IsWritten(replicas(img, out, j), "rgb", img, j + 1)
  <1>1. PICK w \in Nat, h \in Nat, w2 \in Nat, h2 \in Nat :
          RgbSizes(img, w, h, w2, h2) /\ w = img.width /\ h = img.height
    BY DEF ImageOK, RgbSizes, IsTwice
  <1>2. j \in 0..(h * w - 1)
    BY <1>1 DEF Area
  <1>3. PICK rr \in 0..h - 1, cc \in 0..w - 1 :
          rr = j \div w /\ cc = j % w /\ j = rr * w + cc
    BY <1>2, Coordinates
  <1>4. PICK na, nb, nc, nd :
          /\ na = rr * w2 + cc /\ nb = rr * w2 + (cc + w)
          /\ nc = (rr + h) * w2 + cc /\ nd = (rr + h) * w2 + (cc + w)
    OBVIOUS
  <1>5. PICK p : p = img.data[j]
    OBVIOUS
  <1>6. PICK red, green, blue :
          /\ red = make_pixel(p.r, 0, 0, p.a) /\ green = make_pixel(0, p.g, 0, p.a)
          /\ blue = make_pixel(0, 0, p.b, p.a)
    OBVIOUS
  <1>7. replicas(img, out, j)
        = Put(Put(Put(Put(out.data, na, p), nb, red), nc, green), nd, blue)
    <2>1. out.width = w2
      BY <1>1 DEF RgbSizes, IsTwice
    <2> QED
      BY <1>1, <1>3, <1>4, <1>5, <1>6, <2>1, Zenon DEF replicas, compute_index
  <1>8. /\ AtPlace(na, cc, rr, w2) /\ AtPlace(nb, cc + w, rr, w2)
        /\ AtPlace(nc, cc, rr + h, w2) /\ AtPlace(nd, cc + w, rr + h, w2)
    BY <1>4 DEF AtPlace
  <1>9. /\ rr % h = rr /\ (rr + h) % h = rr /\ cc % w = cc /\ (cc + w) % w = cc
        /\ rr \in 0..h2 - 1 /\ rr + h \in 0..h2 - 1
        /\ cc \in 0..w2 - 1 /\ cc + w \in 0..w2 - 1
        /\ rr < h /\ ~ (rr + h < h) /\ cc < w /\ ~ (cc + w < w)
        /\ rr # rr + h /\ cc # cc + w
    BY <1>1, BothHalves DEF RgbSizes
  <1>10. PICK all : all = 0..(h2 * w2 - 1)
    OBVIOUS
  <1>11. p = make_pixel(p.r, p.g, p.b, p.a)
    <2>1. p \in Pixel
      BY <1>5 DEF ImageOK, Area
    <2> QED
      BY <2>1 DEF make_pixel, Pixel
  <1>12. /\ na \in all /\ OutputPixel("rgb", img, na) = p
         /\ nb \in all /\ OutputPixel("rgb", img, nb) = red
         /\ nc \in all /\ OutputPixel("rgb", img, nc) = green
         /\ nd \in all /\ OutputPixel("rgb", img, nd) = blue
    <2>1. na \in all /\ OutputPixel("rgb", img, na) = make_pixel(p.r, p.g, p.b, p.a)
      <3>1. PICK x \in 0..w2 - 1, y \in 0..h2 - 1 :
              /\ x = cc /\ y = rr /\ AtPlace(na, x, y, w2)
              /\ x % w = cc /\ y % h = rr /\ x < w /\ y < h
        BY <1>8, <1>9
      <3>2. /\ na \in 0..(h2 * w2 - 1)
            /\ OutputPixel("rgb", img, na)
               = LET s == img.data[(y % h) * w + (x % w)]
                 IN  make_pixel(IF y < h THEN s.r ELSE 0, IF x < w THEN s.g ELSE 0,
                                IF (y < h) = (x < w) THEN s.b ELSE 0, s.a)
        BY <1>1, <3>1, ReplicaAt
      <3>3. OutputPixel("rgb", img, na)
            = make_pixel(IF y < h THEN p.r ELSE 0, IF x < w THEN p.g ELSE 0,
                         IF (y < h) = (x < w) THEN p.b ELSE 0, p.a)
        BY <3>1, <3>2, <1>3, <1>5, Zenon
      <3> QED
        BY <3>1, <3>2, <3>3, <1>6, <1>10
    <2>2. nb \in all /\ OutputPixel("rgb", img, nb) = red
      <3>1. PICK x \in 0..w2 - 1, y \in 0..h2 - 1 :
              /\ x = cc + w /\ y = rr /\ AtPlace(nb, x, y, w2)
              /\ x % w = cc /\ y % h = rr /\ ~ (x < w) /\ y < h
        BY <1>8, <1>9
      <3>2. /\ nb \in 0..(h2 * w2 - 1)
            /\ OutputPixel("rgb", img, nb)
               = LET s == img.data[(y % h) * w + (x % w)]
                 IN  make_pixel(IF y < h THEN s.r ELSE 0, IF x < w THEN s.g ELSE 0,
                                IF (y < h) = (x < w) THEN s.b ELSE 0, s.a)
        BY <1>1, <3>1, ReplicaAt
      <3>3. OutputPixel("rgb", img, nb)
            = make_pixel(IF y < h THEN p.r ELSE 0, IF x < w THEN p.g ELSE 0,
                         IF (y < h) = (x < w) THEN p.b ELSE 0, p.a)
        BY <3>1, <3>2, <1>3, <1>5, Zenon
      <3> QED
        BY <3>1, <3>2, <3>3, <1>6, <1>10
    <2>3. nc \in all /\ OutputPixel("rgb", img, nc) = green
      <3>1. PICK x \in 0..w2 - 1, y \in 0..h2 - 1 :
              /\ x = cc /\ y = rr + h /\ AtPlace(nc, x, y, w2)
              /\ x % w = cc /\ y % h = rr /\ x < w /\ ~ (y < h)
        BY <1>8, <1>9
      <3>2. /\ nc \in 0..(h2 * w2 - 1)
            /\ OutputPixel("rgb", img, nc)
               = LET s == img.data[(y % h) * w + (x % w)]
                 IN  make_pixel(IF y < h THEN s.r ELSE 0, IF x < w THEN s.g ELSE 0,
                                IF (y < h) = (x < w) THEN s.b ELSE 0, s.a)
        BY <1>1, <3>1, ReplicaAt
      <3>3. OutputPixel("rgb", img, nc)
            = make_pixel(IF y < h THEN p.r ELSE 0, IF x < w THEN p.g ELSE 0,
                         IF (y < h) = (x < w) THEN p.b ELSE 0, p.a)
        BY <3>1, <3>2, <1>3, <1>5, Zenon
      <3> QED
        BY <3>1, <3>2, <3>3, <1>6, <1>10
    <2>4. nd \in all /\ OutputPixel("rgb", img, nd) = blue
      <3>1. PICK x \in 0..w2 - 1, y \in 0..h2 - 1 :
              /\ x = cc + w /\ y = rr + h /\ AtPlace(nd, x, y, w2)
              /\ x % w = cc /\ y % h = rr /\ ~ (x < w) /\ ~ (y < h)
        BY <1>8, <1>9
      <3>2. /\ nd \in 0..(h2 * w2 - 1)
            /\ OutputPixel("rgb", img, nd)
               = LET s == img.data[(y % h) * w + (x % w)]
                 IN  make_pixel(IF y < h THEN s.r ELSE 0, IF x < w THEN s.g ELSE 0,
                                IF (y < h) = (x < w) THEN s.b ELSE 0, s.a)
        BY <1>1, <3>1, ReplicaAt
      <3>3. OutputPixel("rgb", img, nd)
            = make_pixel(IF y < h THEN p.r ELSE 0, IF x < w THEN p.g ELSE 0,
                         IF (y < h) = (x < w) THEN p.b ELSE 0, p.a)
        BY <3>1, <3>2, <1>3, <1>5, Zenon
      <3> QED
        BY <3>1, <3>2, <3>3, <1>6, <1>10
    <2> QED
      BY <1>11, <2>1, <2>2, <2>3, <2>4
  <1>13. \A n \in all : /\ TurnOf("rgb", img, n) \in Nat
                        /\ TurnOf("rgb", img, n) = j <=> n \in {na, nb, nc, nd}
    <2> SUFFICES ASSUME NEW n \in all
                 PROVE  /\ TurnOf("rgb", img, n) \in Nat
                        /\ TurnOf("rgb", img, n) = j <=> n \in {na, nb, nc, nd}
      OBVIOUS
    <2>1. /\ n = na <=> AtPlace(n, cc, rr, w2)
          /\ n = nb <=> AtPlace(n, cc + w, rr, w2)
          /\ n = nc <=> AtPlace(n, cc, rr + h, w2)
          /\ n = nd <=> AtPlace(n, cc + w, rr + h, w2)
      BY <1>4 DEF AtPlace
    <2>2. n \in 0..(h2 * w2 - 1)
      BY <1>10
    <2>3. /\ TurnOf("rgb", img, n) \in Nat
          /\ TurnOf("rgb", img, n) = rr * w + cc
             <=> \/ AtPlace(n, cc, rr, w2) \/ AtPlace(n, cc + w, rr, w2)
                 \/ AtPlace(n, cc, rr + h, w2) \/ AtPlace(n, cc + w, rr + h, w2)
      BY <1>1, <2>2, FourPlaces
    <2> QED
      BY <1>3, <2>1, <2>3, Zenon
  <1>14. OutputArea("rgb", img) = h2 * w2
    BY <1>1 DEF OutputArea, RgbSizes, IsTwice
  <1>15. /\ Places("rgb", img, j) = {n \in all : TurnOf("rgb", img, n) < j}
         /\ Places("rgb", img, j + 1) = {n \in all : TurnOf("rgb", img, n) < j + 1}
    BY <1>10, <1>14 DEF Places
  <1>16. Places("rgb", img, j + 1) = Places("rgb", img, j) \cup {na, nb, nc, nd}
    <2>1. \A n \in all : TurnOf("rgb", img, n) < j + 1
            <=> TurnOf("rgb", img, n) < j \/ TurnOf("rgb", img, n) = j
      BY <1>2, <1>13
    <2> QED
      BY <1>12, <1>13, <1>15, <2>1
  <1>17. na \notin {nb, nc, nd} /\ nb \notin {nc, nd} /\ nc # nd
    <2>1. rr \in Nat /\ rr + h \in Nat
      BY <1>1
    <2>2. /\ na = nb => cc = cc + w
          /\ na = nc => rr = rr + h
          /\ na = nd => rr = rr + h
          /\ nb = nc => rr = rr + h
          /\ nb = nd => rr = rr + h
          /\ nc = nd => cc = cc + w
      <3> DEFINE Distinct(r1, c1, r2, c2) ==
                   r1 * w2 + c1 = r2 * w2 + c2 => r1 = r2 /\ c1 = c2
      <3>1. \A r1, r2 \in Nat : \A c1, c2 \in 0..w2 - 1 : Distinct(r1, c1, r2, c2)
        BY OnePlace
      <3>2. cc \in 0..w2 - 1 /\ cc + w \in 0..w2 - 1
        BY <1>9
      <3> HIDE DEF Distinct
      <3>3. /\ Distinct(rr, cc, rr, cc + w) /\ Distinct(rr, cc, rr + h, cc)
            /\ Distinct(rr, cc, rr + h, cc + w) /\ Distinct(rr, cc + w, rr + h, cc)
            /\ Distinct(rr, cc + w, rr + h, cc + w)
            /\ Distinct(rr + h, cc, rr + h, cc + w)
        BY <2>1, <3>1, <3>2, Zenon
      <3> QED
        BY <1>4, <3>3, Zenon DEF Distinct
    <2> QED
      BY <1>9, <2>2
  <1>18. DOMAIN replicas(img, out, j) = DOMAIN out.data \cup {na, nb, nc, nd}
    BY <1>7 DEF Put
  <1>19. ASSUME NEW n \in DOMAIN out.data \cup {na, nb, nc, nd}
         PROVE  replicas(img, out, j)[n]
                = IF n = nd THEN blue ELSE IF n = nc THEN green ELSE IF n = nb THEN red
                  ELSE IF n = na THEN p ELSE out.data[n]
    BY <1>7 DEF Put
  <1>20. DOMAIN out.data = Places("rgb", img, j)
         /\ \A n \in Places("rgb", img, j) : out.data[n] = OutputPixel("rgb", img, n)
    BY DEF IsWritten
  <1> QED
    BY <1>12, <1>16, <1>17, <1>18, <1>19, <1>20 DEF IsWritten

-----------------------------------------------------------------------------
(* The pixel that kaleidoscope takes                                       *)

\* A row or column of the second half is mapped to the first, and in an even
\* width the rows at the same distance from the middle to the same one.
LEMMA MirrorIn ==
  ASSUME NEW w \in Nat, NEW x \in 0..w - 1
  PROVE  /\ Mirror(x, w) \in 0..w - 1
         /\ x < (w + 1) \div 2 => Mirror(x, w) = x
         /\ w % 2 = 0 => Mirror(w - 1 - x, w) = Mirror(x, w)
  <1>1. PICK m \in Nat, o \in {0, 1} : o = w % 2 /\ w = 2 * m - o
    <2>1. (w + (w % 2)) \div 2 \in Nat /\ 2 * ((w + (w % 2)) \div 2) = w + (w % 2)
          /\ w % 2 \in {0, 1}
      BY Parity
    <2> QED
      BY <2>1
  <1>2. w + o = 2 * m /\ (w + o) \div 2 = m /\ (w + 1) \div 2 = m
    BY <1>1
  <1>3. Mirror(x, w) = IF x >= m THEN 2 * m - x - 1 ELSE x
    BY <1>1, <1>2 DEF Mirror
  <1>4. Mirror(w - 1 - x, w) = IF w - 1 - x >= m THEN 2 * m - (w - 1 - x) - 1 ELSE w - 1 - x
    BY <1>1, <1>2 DEF Mirror
  <1> QED
    BY <1>1, <1>2, <1>3, <1>4

\* The place in wedge A, by the column and the row.
InWedgeA(w, x, y) ==
  IF Mirror(y, w) <= Mirror(x, w) THEN Mirror(y, w) * w + Mirror(x, w)
  ELSE Mirror(x, w) * w + Mirror(y, w)

\* The pixel of wedge A for a row and a column, with their places in numbers.
LEMMA FoldedPlace ==
  ASSUME NEW w \in Nat, NEW k \in 0..(w * w - 1)
  PROVE  /\ in_idx(w, k) = InWedgeA(w, k % w, k \div w)
         /\ in_idx(w, k) \in 0..(w * w - 1)
  <1>1. PICK y \in 0..w - 1, x \in 0..w - 1 : y = k \div w /\ x = k % w
    BY Coordinates
  <1>2. PICK my \in 0..w - 1, mx \in 0..w - 1 : my = Mirror(y, w) /\ mx = Mirror(x, w)
    BY MirrorIn
  <1>3. in_idx(w, k) = Min({my, mx}) * w + Max({my, mx})
    BY <1>1, <1>2 DEF in_idx
  <1>4. my \in Int /\ mx \in Int
    OBVIOUS
  <1>5. Min({my, mx}) = (IF my <= mx THEN my ELSE mx)
        /\ Max({my, mx}) = (IF my <= mx THEN mx ELSE my)
    BY <1>4, MinMaxOfTwo
  <1>6. in_idx(w, k) = IF my <= mx THEN my * w + mx ELSE mx * w + my
    <2>1. CASE my <= mx
      <3>1. Min({my, mx}) = my /\ Max({my, mx}) = mx
        BY <1>5, <2>1
      <3> QED
        BY <1>3, <2>1, <3>1
    <2>2. CASE ~ (my <= mx)
      <3>1. Min({my, mx}) = mx /\ Max({my, mx}) = my
        BY <1>5, <2>2
      <3> QED
        BY <1>3, <2>2, <3>1
    <2> QED
      BY <2>1, <2>2
  <1>7. my * w + mx \in 0..(w * w - 1) /\ mx * w + my \in 0..(w * w - 1)
    BY PlaceOf
  <1> QED
    BY <1>1, <1>2, <1>6, <1>7 DEF InWedgeA

\* The same by column and row.
LEMMA FoldedAt ==
  ASSUME NEW w \in Nat, NEW x \in 0..w - 1, NEW y \in 0..w - 1
  PROVE  /\ y * w + x \in 0..(w * w - 1)
         /\ in_idx(w, y * w + x) = InWedgeA(w, x, y)
  <1>1. /\ y * w + x \in 0..(w * w - 1)
        /\ (y * w + x) \div w = y /\ (y * w + x) % w = x
    BY PlaceOf
  <1>2. PICK k \in 0..(w * w - 1) : k = y * w + x /\ k \div w = y /\ k % w = x
    BY <1>1
  <1>3. in_idx(w, k) = InWedgeA(w, x, y)
    BY <1>2, FoldedPlace
  <1> QED
    BY <1>1, <1>2, <1>3

\* For an even width the reflections of a place fold to the same pixel.
LEMMA WedgeSymmetries ==
  ASSUME NEW w \in Nat, NEW x \in 0..w - 1, NEW y \in 0..w - 1
  PROVE  /\ InWedgeA(w, x, y) = InWedgeA(w, y, x)
         /\ y <= x /\ x < (w + 1) \div 2 => InWedgeA(w, x, y) = y * w + x
         /\ w % 2 = 0 => /\ InWedgeA(w, w - 1 - x, y) = InWedgeA(w, x, y)
                         /\ InWedgeA(w, x, w - 1 - y) = InWedgeA(w, x, y)
                         /\ InWedgeA(w, w - 1 - y, w - 1 - x) = InWedgeA(w, x, y)
  <1>1. PICK my \in 0..w - 1, mx \in 0..w - 1 : my = Mirror(y, w) /\ mx = Mirror(x, w)
    BY MirrorIn
  <1>2. InWedgeA(w, x, y) = IF my <= mx THEN my * w + mx ELSE mx * w + my
    BY <1>1 DEF InWedgeA
  <1>3. InWedgeA(w, y, x) = IF mx <= my THEN mx * w + my ELSE my * w + mx
    BY <1>1 DEF InWedgeA
  <1>4. InWedgeA(w, x, y) = InWedgeA(w, y, x)
    <2>1. CASE my < mx
      BY <2>1, <1>2, <1>3
    <2>2. CASE mx < my
      BY <2>2, <1>2, <1>3
    <2>3. CASE mx = my
      BY <2>3, <1>2, <1>3
    <2> QED
      BY <2>1, <2>2, <2>3
  <1>5. y <= x /\ x < (w + 1) \div 2 => my = y /\ mx = x
    <2>1. PICK m \in Int : m = (w + 1) \div 2
      OBVIOUS
    <2>2. (y < m => my = y) /\ (x < m => mx = x)
      BY <1>1, <2>1, MirrorIn
    <2> QED
      BY <2>1, <2>2
  <1>6. w % 2 = 0 => Mirror(w - 1 - x, w) = mx /\ Mirror(w - 1 - y, w) = my
    BY <1>1, MirrorIn
  <1>7. w % 2 = 0 => InWedgeA(w, w - 1 - y, w - 1 - x) = InWedgeA(w, y, x)
    BY <1>1, <1>6 DEF InWedgeA
  <1>8. w % 2 = 0 => /\ InWedgeA(w, w - 1 - x, y) = InWedgeA(w, x, y)
                     /\ InWedgeA(w, x, w - 1 - y) = InWedgeA(w, x, y)
    BY <1>1, <1>6 DEF InWedgeA
  <1> QED
    BY <1>2, <1>4, <1>5, <1>7, <1>8

-----------------------------------------------------------------------------
(* What a transformation has done when all its turns are done              *)

OutputSized ==
  LET k == IF fn = "rgb" THEN 2 ELSE 1
  IN  output_img.width = k * input_img.width /\ output_img.height = k * input_img.height

AllWritten ==
  /\ ImageOK(input_img) /\ OutputSized
  /\ IsWritten(output_img.data, fn, input_img, Area(input_img))

\* All places of an output of the size of the input.
LEMMA EveryPlace ==
  ASSUME AllWritten, fn \in Functions \ {"rgb"}, NEW k \in 0..(Area(input_img) - 1)
  PROVE  output_img.data[k] = OutputPixel(fn, input_img, k)
  <1>1. PICK a : a = Area(input_img)
    OBVIOUS
  <1>2. TurnOf(fn, input_img, k) = k /\ OutputArea(fn, input_img) = a
    BY <1>1 DEF TurnOf, OutputArea
  <1>3. a \in Nat
    <2>1. PICK w \in Nat, h \in Nat : w = input_img.width /\ h = input_img.height
      BY DEF AllWritten, ImageOK
    <2> QED
      BY <1>1, <2>1 DEF Area
  <1>4. k \in 0..a - 1 /\ k < a
    BY <1>1, <1>3
  <1>5. k \in Places(fn, input_img, a)
    BY <1>2, <1>4 DEF Places
  <1> QED
    BY <1>1, <1>5 DEF AllWritten, IsWritten

\* The input is an image of pixels.
LEMMA PixelOfInput ==
  ASSUME ImageOK(input_img)
  PROVE  /\ DOMAIN input_img.data = 0..(Area(input_img) - 1)
         /\ \A k \in 0..(Area(input_img) - 1) : input_img.data[k] \in Pixel
  BY DEF ImageOK, Area

IsGrayOf(p, q) ==
  /\ Min({p.r, p.g, p.b}) <= q.r /\ q.r <= Max({p.r, p.g, p.b})
  /\ q.r = q.g /\ q.g = q.b /\ q.a = p.a

\* What imgproc_grayscale has written when it is done.
LEMMA GrayWritten ==
  ASSUME AllWritten
  PROVE  GrayIsBetween
  <1> SUFFICES ASSUME fn = "grayscale"
               PROVE  \A k \in DOMAIN input_img.data :
                        IsGrayOf(input_img.data[k], output_img.data[k])
    BY DEF GrayIsBetween, Done, IsGrayOf
  <1>1. ASSUME NEW k \in 0..(Area(input_img) - 1)
        PROVE  IsGrayOf(input_img.data[k], output_img.data[k])
    <2>1. PICK p, q : p = input_img.data[k] /\ q = output_img.data[k]
      OBVIOUS
    <2>2. q = to_grayscale(p)
      BY <2>1, EveryPlace DEF OutputPixel, Functions
    <2>3. p \in Pixel
      BY <2>1, PixelOfInput DEF AllWritten
    <2> QED
      BY <2>1, <2>2, <2>3, GrayPixel DEF IsGrayOf
  <1> QED
    BY <1>1, PixelOfInput, Zenon DEF AllWritten

\* A pixel and its faded successor, beside all others.
FadedAt(k, w, h, places) ==
  LET p == input_img.data[k]
      q == output_img.data[k]
  IN  /\ q.a = p.a
      /\ k < w \/ k % w = 0 => q = make_pixel(0, 0, 0, p.a)
      /\ 2 * (k \div w) = h /\ 2 * (k % w) = w => q = p
      /\ \A c \in {"r", "g", "b"} :
            /\ q[c] <= p[c]
            /\ \A l \in places :
                /\ Nearer(l \div w, k \div w, h) /\ Nearer(l % w, k % w, w)
                /\ p[c] <= input_img.data[l][c]
                => q[c] <= output_img.data[l][c]

\* What imgproc_fade has written when it is done.
LEMMA FadeWritten ==
  ASSUME AllWritten
  PROVE  FadesFromTheMiddle
  <1>1. ImageOK(input_img) /\ Area(input_img) = input_img.width * input_img.height
    BY DEF AllWritten, Area
  <1>2. DOMAIN input_img.data = 0..(Area(input_img) - 1)
    BY <1>1, PixelOfInput
  <1>3. ASSUME fn = "fade", NEW k \in 0..(Area(input_img) - 1)
        PROVE  FadedAt(k, input_img.width, input_img.height, 0..(Area(input_img) - 1))
    <2>1. PICK w, h : w = input_img.width /\ h = input_img.height
      OBVIOUS
    <2>2. PICK p, q : p = input_img.data[k] /\ q = output_img.data[k]
      OBVIOUS
    <2>3. \A l \in 0..(Area(input_img) - 1) : output_img.data[l] = fade(input_img, l)
      BY <1>3, EveryPlace DEF OutputPixel, Functions
    <2>4. /\ q.a = p.a
          /\ k < w \/ k % w = 0 => q = make_pixel(0, 0, 0, p.a)
          /\ 2 * (k \div w) = h /\ 2 * (k % w) = w => q = p
          /\ \A c \in RGB : q[c] <= p[c]
      BY <1>1, <2>1, <2>2, <2>3, FadedPixel
    <2>5. ASSUME NEW c \in RGB, NEW l \in 0..(Area(input_img) - 1),
                 Nearer(l \div w, k \div w, h), Nearer(l % w, k % w, w),
                 p[c] <= input_img.data[l][c]
          PROVE  q[c] <= output_img.data[l][c]
      BY <1>1, <2>1, <2>2, <2>3, <2>5, FadedPixels
    <2> QED
      BY <2>1, <2>2, <2>4, <2>5, Zenon DEF FadedAt, RGB
  <1>4. fn = "fade" =>
          \A k \in DOMAIN input_img.data :
            FadedAt(k, input_img.width, input_img.height, DOMAIN input_img.data)
    BY <1>2, <1>3, Zenon
  <1> QED
    BY <1>4, Zenon DEF FadesFromTheMiddle, Done, FadedAt

\* What imgproc_rgb has written when it is done.
LEMMA RgbWritten ==
  ASSUME AllWritten
  PROVE  FourReplicas
  <1> SUFFICES ASSUME fn = "rgb", NEW w, NEW h, w = input_img.width, h = input_img.height
               PROVE  /\ output_img.width = 2 * w /\ output_img.height = 2 * h
                      /\ DOMAIN output_img.data = 0..(4 * w * h - 1)
                      /\ \A col \in 0..(2 * w - 1), line \in 0..(2 * h - 1) :
                           LET p == At(input_img, col % w, line % h)
                           IN  At(output_img, col, line) =
                                 make_pixel(IF line < h THEN p.r ELSE 0,
                                            IF col < w THEN p.g ELSE 0,
                                            IF (line < h) = (col < w) THEN p.b ELSE 0, p.a)
    BY Zenon DEF FourReplicas, Done
  <1>1. w \in Nat /\ h \in Nat
    BY DEF AllWritten, ImageOK
  <1>2. output_img.width = 2 * w /\ output_img.height = 2 * h
    BY DEF AllWritten, OutputSized
  <1>3. PICK w2 \in Nat, h2 \in Nat :
          w2 = 2 * w /\ h2 = 2 * h /\ RgbSizes(input_img, w, h, w2, h2)
    BY <1>1 DEF RgbSizes, IsTwice
  <1>4. OutputArea("rgb", input_img) = h2 * w2
    BY <1>3 DEF OutputArea
  <1>5. h2 * w2 = 4 * w * h
    BY <1>1, <1>3
  <1>6. ASSUME NEW x \in 0..w2 - 1, NEW y \in 0..h2 - 1
        PROVE  /\ y * w2 + x \in 0..(h2 * w2 - 1)
               /\ TurnOf("rgb", input_img, y * w2 + x) < Area(input_img)
               /\ OutputPixel("rgb", input_img, y * w2 + x)
                  = LET p == input_img.data[(y % h) * w + (x % w)]
                    IN  make_pixel(IF y < h THEN p.r ELSE 0, IF x < w THEN p.g ELSE 0,
                                   IF (y < h) = (x < w) THEN p.b ELSE 0, p.a)
    <2>1. PICK n : n = y * w2 + x /\ AtPlace(n, x, y, w2)
      BY DEF AtPlace
    <2>2. /\ n \in 0..(h2 * w2 - 1)
          /\ TurnOf("rgb", input_img, n) \in 0..(w * h - 1)
          /\ OutputPixel("rgb", input_img, n)
             = LET p == input_img.data[(y % h) * w + (x % w)]
               IN  make_pixel(IF y < h THEN p.r ELSE 0, IF x < w THEN p.g ELSE 0,
                              IF (y < h) = (x < w) THEN p.b ELSE 0, p.a)
      BY <1>3, <2>1, ReplicaAt
    <2>3. PICK s \in 0..(w * h - 1), a \in Nat :
            s = TurnOf("rgb", input_img, n) /\ a = Area(input_img) /\ a = w * h
      BY <1>1, <2>2 DEF Area
    <2>4. s < a
      BY <2>3
    <2> QED
      BY <2>1, <2>2, <2>3, <2>4, Zenon
  <1>7. Places("rgb", input_img, Area(input_img)) = 0..(h2 * w2 - 1)
    <2>1. ASSUME NEW n \in 0..(h2 * w2 - 1)
          PROVE  TurnOf("rgb", input_img, n) < Area(input_img)
      <3>1. PICK y \in 0..h2 - 1, x \in 0..w2 - 1 : n = y * w2 + x
        BY Coordinates
      <3> QED
        BY <3>1, <1>6
    <2> QED
      BY <1>4, <2>1 DEF Places
  <1>8. /\ DOMAIN output_img.data = 0..(h2 * w2 - 1)
        /\ \A n \in 0..(h2 * w2 - 1) : output_img.data[n] = OutputPixel("rgb", input_img, n)
    BY <1>7 DEF AllWritten, IsWritten
  <1>9. ASSUME NEW x \in 0..w2 - 1, NEW y \in 0..h2 - 1
        PROVE  LET p == At(input_img, x % w, y % h)
               IN  At(output_img, x, y) =
                     make_pixel(IF y < h THEN p.r ELSE 0, IF x < w THEN p.g ELSE 0,
                                IF (y < h) = (x < w) THEN p.b ELSE 0, p.a)
    <2>1. output_img.width = w2
      BY <1>2, <1>3
    <2> QED
      BY <2>1, <1>6, <1>8, ZenonT(60) DEF At
  <1> QED
    BY <1>2, <1>3, <1>5, <1>8, <1>9, Zenon

\* What imgproc_kaleidoscope has written when it is done.
LEMMA KaleidoscopeWritten ==
  ASSUME AllWritten, fn = "kaleidoscope" => input_img.width = input_img.height
  PROVE  WedgesMirrorA
  <1> SUFFICES ASSUME fn = "kaleidoscope", NEW w, w = input_img.width
               PROVE  /\ \A col, line \in 0..(w - 1) :
                           line <= col /\ col < (w + 1) \div 2 =>
                             At(output_img, col, line) = At(input_img, col, line)
                      /\ w % 2 = 0 =>
                           \A col, line \in 0..(w - 1) :
                             LET p == At(output_img, col, line)
                             IN  /\ p = At(output_img, w - 1 - col, line)
                                 /\ p = At(output_img, col, w - 1 - line)
                                 /\ p = At(output_img, line, col)
                                 /\ p = At(output_img, w - 1 - line, w - 1 - col)
    BY Zenon DEF WedgesMirrorA, FourSymmetries, Done
  <1>1. w \in Nat /\ output_img.width = w /\ Area(input_img) = w * w
    BY DEF AllWritten, ImageOK, OutputSized, Area
  <1>2. ASSUME NEW x \in 0..w - 1, NEW y \in 0..w - 1
        PROVE  At(output_img, x, y) = input_img.data[InWedgeA(w, x, y)]
    <2>1. PICK k \in 0..(w * w - 1) : k = y * w + x /\ in_idx(w, k) = InWedgeA(w, x, y)
      BY <1>1, FoldedAt
    <2>2. output_img.data[k] = OutputPixel(fn, input_img, k)
      BY <1>1, EveryPlace DEF Functions
    <2>3. OutputPixel(fn, input_img, k) = input_img.data[in_idx(w, k)]
      BY DEF OutputPixel
    <2>4. At(output_img, x, y) = output_img.data[k]
      BY <1>1, <2>1, Zenon DEF At
    <2> QED
      BY <2>1, <2>2, <2>3, <2>4, Zenon
  <1>3. ASSUME NEW x \in 0..w - 1, NEW y \in 0..w - 1
        PROVE  /\ y <= x /\ x < (w + 1) \div 2 =>
                    At(output_img, x, y) = At(input_img, x, y)
               /\ At(output_img, x, y) = At(output_img, y, x)
               /\ w % 2 = 0 =>
                    /\ At(output_img, x, y) = At(output_img, w - 1 - x, y)
                    /\ At(output_img, x, y) = At(output_img, x, w - 1 - y)
                    /\ At(output_img, x, y) = At(output_img, w - 1 - y, w - 1 - x)
    <2>1. w - 1 - x \in 0..w - 1 /\ w - 1 - y \in 0..w - 1
      BY <1>1
    <2>2. /\ InWedgeA(w, x, y) = InWedgeA(w, y, x)
          /\ y <= x /\ x < (w + 1) \div 2 => InWedgeA(w, x, y) = y * w + x
          /\ w % 2 = 0 => /\ InWedgeA(w, w - 1 - x, y) = InWedgeA(w, x, y)
                          /\ InWedgeA(w, x, w - 1 - y) = InWedgeA(w, x, y)
                          /\ InWedgeA(w, w - 1 - y, w - 1 - x) = InWedgeA(w, x, y)
      BY <1>1, WedgeSymmetries
    <2>3. At(input_img, x, y) = input_img.data[y * w + x]
      BY Zenon DEF At
    <2>4. /\ At(output_img, x, y) = input_img.data[InWedgeA(w, x, y)]
          /\ At(output_img, y, x) = input_img.data[InWedgeA(w, y, x)]
          /\ At(output_img, w - 1 - x, y) = input_img.data[InWedgeA(w, w - 1 - x, y)]
          /\ At(output_img, x, w - 1 - y) = input_img.data[InWedgeA(w, x, w - 1 - y)]
          /\ At(output_img, w - 1 - y, w - 1 - x)
             = input_img.data[InWedgeA(w, w - 1 - y, w - 1 - x)]
      BY <2>1, <1>2
    <2> QED
      BY <2>2, <2>3, <2>4, Zenon
  <1> QED
    BY <1>3

-----------------------------------------------------------------------------
(* The steps of a transformation                                           *)

SizedFor(f, in, out) ==
  LET k == IF f = "rgb" THEN 2 ELSE 1
  IN  out.width = k * in.width /\ out.height = k * in.height

\* A loop after t turns.
LoopAt(f, in, out, t) ==
  /\ f \in Functions /\ ImageOK(in) /\ SizedFor(f, in, out)
  /\ t \in 0..Area(in)
  /\ IsWritten(out.data, f, in, t)
  /\ f = "kaleidoscope" => in.width = in.height

\* The pixels before, in and after the loop.
PixelsAre(f, in, out, p, t) ==
  /\ out = [width |-> out.width, height |-> out.height, data |-> out.data]
  /\ p = "call" => t = 0 /\ out.data = << >>
  /\ p \in {"loop", "success"} => LoopAt(f, in, out, t)
  /\ p = "success" => t = Area(in)

DataAfter(t) ==
  IF fn = "rgb" THEN replicas(input_img, output_img, t)
  ELSE Put(output_img.data, t, OutputPixel(fn, input_img, t))

\* What ImgProc's actions do, when t turns were done before and t2 after.
Enters(t, t2) ==
  /\ pc = "call" /\ t2 = t
  /\ LET k == IF fn = "rgb" THEN 2 ELSE 1
     IN  IF fn = "kaleidoscope" /\ input_img.width # input_img.height
         THEN pc' = "failure"
         ELSE /\ pc' = "loop"
              /\ output_img' = [output_img EXCEPT !.width = k * input_img.width,
                                                  !.height = k * input_img.height]
  /\ output_img'.data = output_img.data
  /\ output_img' = [width |-> output_img'.width, height |-> output_img'.height,
                    data |-> output_img'.data]
  /\ UNCHANGED <<fn, input_img>>

Draws(t, t2) ==
  /\ pc = "loop" /\ t < Area(input_img) /\ t2 = t + 1
  /\ output_img' = [output_img EXCEPT !.data = DataAfter(t)]
  /\ UNCHANGED <<fn, input_img, pc>>

Returns(t, t2) ==
  /\ pc = "loop" /\ t = Area(input_img) /\ t2 = t
  /\ pc' = "success"
  /\ UNCHANGED <<fn, input_img, output_img>>

\* The number of the pixels of an image.
LEMMA AreaNat ==
  ASSUME NEW img, ImageOK(img)
  PROVE  Area(img) \in Nat
  <1>1. PICK w \in Nat, h \in Nat : w = img.width /\ h = img.height
    BY DEF ImageOK
  <1>2. w * h \in Nat
    OBVIOUS
  <1> QED
    BY <1>1, <1>2 DEF Area

\* Each of them keeps the pixels right.
LEMMA EntersKeeps ==
  ASSUME NEW t, NEW t2, fn \in Functions, ImageOK(input_img),
         PixelsAre(fn, input_img, output_img, pc, t), Enters(t, t2)
  PROVE  PixelsAre(fn', input_img', output_img', pc', t2)
  <1>1. t = 0 /\ t2 = 0 /\ output_img'.data = << >> /\ UNCHANGED <<fn, input_img>>
    BY DEF PixelsAre, Enters
  <1>2. pc' \in {"failure", "loop"}
    BY DEF Enters
  <1>3. pc' = "loop" => LoopAt(fn, input_img, output_img', 0)
    <2> SUFFICES ASSUME pc' = "loop" PROVE LoopAt(fn, input_img, output_img', 0)
      OBVIOUS
    <2>1. IsWritten(output_img'.data, fn, input_img, 0)
      BY <1>1, NothingWritten
    <2>2. 0 \in 0..Area(input_img)
      <3>1. PICK a \in Nat : a = Area(input_img)
        BY AreaNat
      <3>2. 0 \in 0..a
        OBVIOUS
      <3> QED
        BY <3>1, <3>2
    <2>3. SizedFor(fn, input_img, output_img')
      BY DEF Enters, SizedFor, PixelsAre
    <2>4. fn = "kaleidoscope" => input_img.width = input_img.height
      BY DEF Enters
    <2> QED
      BY <2>1, <2>2, <2>3, <2>4 DEF LoopAt
  <1>4. output_img' = [width |-> output_img'.width, height |-> output_img'.height,
                       data |-> output_img'.data]
    BY DEF Enters
  <1> QED
    BY <1>1, <1>2, <1>3, <1>4 DEF PixelsAre

\* A turn of the loop writes the pixels that are due in it, and no other.
LEMMA DrawsKeeps ==
  ASSUME NEW t, NEW t2, PixelsAre(fn, input_img, output_img, pc, t), Draws(t, t2)
  PROVE  PixelsAre(fn', input_img', output_img', pc', t2)
  <1>1. LoopAt(fn, input_img, output_img, t) /\ t2 = t + 1 /\ t < Area(input_img)
        /\ pc' = "loop" /\ UNCHANGED <<fn, input_img>>
    BY DEF PixelsAre, Draws
  <1>2. /\ output_img'.width = output_img.width /\ output_img'.height = output_img.height
        /\ output_img'.data = DataAfter(t)
        /\ output_img' = [width |-> output_img'.width, height |-> output_img'.height,
                          data |-> output_img'.data]
    BY DEF PixelsAre, Draws
  <1>3. t \in 0..(Area(input_img) - 1) /\ t + 1 \in 0..Area(input_img)
    <2>1. PICK a \in Nat : a = Area(input_img) /\ t \in 0..a /\ t < a
      BY <1>1, AreaNat DEF LoopAt
    <2>2. t \in 0..a - 1 /\ t + 1 \in 0..a
      BY <2>1
    <2> QED
      BY <2>1, <2>2
  <1>4. IsWritten(DataAfter(t), fn, input_img, t + 1)
    <2>1. CASE fn = "rgb"
      <3>1. output_img.width = 2 * input_img.width
        BY <1>1, <2>1 DEF LoopAt, SizedFor
      <3> QED
        BY <1>1, <1>3, <2>1, <3>1, FourMoreWritten DEF DataAfter, LoopAt
    <2>2. CASE fn # "rgb"
      BY <1>1, <1>3, <2>2, OneMoreWritten DEF DataAfter, LoopAt
    <2> QED
      BY <2>1, <2>2
  <1>5. LoopAt(fn, input_img, output_img', t + 1)
    BY <1>1, <1>2, <1>3, <1>4 DEF LoopAt, SizedFor
  <1> QED
    BY <1>1, <1>2, <1>5 DEF PixelsAre

\* A return after the last turn.
LEMMA ReturnsKeeps ==
  ASSUME NEW t, NEW t2, PixelsAre(fn, input_img, output_img, pc, t), Returns(t, t2)
  PROVE  PixelsAre(fn', input_img', output_img', pc', t2)
  BY DEF PixelsAre, Returns

\* When the transformation has succeeded, everything is written.
LEMMA SuccessWrites ==
  ASSUME NEW t, PixelsAre(fn, input_img, output_img, pc, t)
  PROVE  /\ FourReplicas /\ GrayIsBetween /\ FadesFromTheMiddle /\ WedgesMirrorA
         /\ pc = "success" => ImageOK(input_img) /\ output_img.width \in Nat
  <1>1. CASE pc = "success"
    <2>1. LoopAt(fn, input_img, output_img, Area(input_img))
      BY <1>1 DEF PixelsAre
    <2>2. AllWritten /\ (fn = "kaleidoscope" => input_img.width = input_img.height)
      BY <2>1 DEF LoopAt, AllWritten, SizedFor, OutputSized
    <2>3. ImageOK(input_img) /\ output_img.width \in Nat
      BY <2>1 DEF LoopAt, SizedFor, ImageOK
    <2> QED
      BY <2>2, <2>3, RgbWritten, GrayWritten, FadeWritten, KaleidoscopeWritten
  <1>2. CASE pc # "success"
    BY <1>2 DEF FourReplicas, GrayIsBetween, FadesFromTheMiddle, WedgesMirrorA,
                FourSymmetries, Done
  <1> QED
    BY <1>1, <1>2

-----------------------------------------------------------------------------
(* The functions in C                                                      *)

\* Each action of ImgProc is an entry, a turn or a return.
LEMMA CSteps ==
  ASSUME PixelsAre(fn, input_img, output_img, pc, i), fn \in Functions,
         Call \/ imgproc_grayscale \/ imgproc_rgb \/ imgproc_fade
         \/ imgproc_kaleidoscope \/ Return
  PROVE  Enters(i, i') \/ Draws(i, i') \/ Returns(i, i')
  <1>1. CASE Call
    BY <1>1 DEF Call, Enters, PixelsAre
  <1>2. CASE imgproc_grayscale
    BY <1>2 DEF imgproc_grayscale, Turn, Draws, DataAfter, OutputPixel, Area
  <1>3. CASE imgproc_rgb
    BY <1>3 DEF imgproc_rgb, Turn, Draws, DataAfter, Area
  <1>4. CASE imgproc_fade
    BY <1>4 DEF imgproc_fade, Turn, Draws, DataAfter, OutputPixel, Area
  <1>5. CASE imgproc_kaleidoscope
    BY <1>5 DEF imgproc_kaleidoscope, Turn, Draws, DataAfter, OutputPixel, Area
  <1>6. CASE Return
    BY <1>6 DEF Return, Returns, Area
  <1> QED
    BY <1>1, <1>2, <1>3, <1>4, <1>5, <1>6

\* All of them keep the invariant of the pixels.
LEMMA StepKeepsPixels ==
  ASSUME NEW t, NEW t2, fn \in Functions, ImageOK(input_img),
         PixelsAre(fn, input_img, output_img, pc, t),
         Enters(t, t2) \/ Draws(t, t2) \/ Returns(t, t2)
  PROVE  PixelsAre(fn', input_img', output_img', pc', t2)
  BY EntersKeeps, DrawsKeeps, ReturnsKeeps

-----------------------------------------------------------------------------
(* The registers of the functions in assembly                              *)

\* What they hold at the head of a loop.
RgbRegisters(R, in) ==
  /\ R.r8 = in.width /\ R.r9 = in.height /\ R.r14 = "input" /\ R.r15 = "output"
  /\ R.r12 \in Nat /\ R.r13 \in Nat
  /\ IF Area(in) = 0 THEN R.r12 = 0 /\ R.r13 = 0
     ELSE \/ R.r12 < in.height /\ R.r13 < in.width
          \/ R.r12 = in.height /\ R.r13 = in.width

GrayRegisters(R, in) ==
  /\ R.r9 = Area(in) /\ R.r13 \in 0..Area(in)
  /\ R.r10 = Asm!PixelAt("input", R.r13) /\ R.r12 = Asm!PixelAt("output", R.r13)

FadeRegisters(R, in) ==
  /\ R.r8 = in.width /\ R.r9 = in.height /\ R.r12 = Area(in) /\ R.rbx \in 0..Area(in)
  /\ R.r13 = Asm!PixelAt("input", 0) /\ R.r14 = Asm!PixelAt("output", 0)
  /\ R.r15 = Unit * Unit * Unit * Unit

KaleidoscopeRegisters(R, in) ==
  /\ in.width = in.height
  /\ R.r8 = in.width /\ R.r9 = Area(in) /\ R.r13 \in 0..Area(in)
  /\ R.r10 = in.width + (in.width % 2) /\ R.r11 = (in.width + (in.width % 2)) \div 2
  /\ R.r14 = Asm!PixelAt("input", 0) /\ R.r15 = Asm!PixelAt("output", R.r13)

RegistersOK ==
  /\ DOMAIN regs = Asm!Registers
  /\ pc = "loop" =>
       /\ fn = "rgb" => RgbRegisters(regs, input_img)
       /\ fn = "grayscale" => GrayRegisters(regs, input_img)
       /\ fn = "fade" => FadeRegisters(regs, input_img)
       /\ fn = "kaleidoscope" => KaleidoscopeRegisters(regs, input_img)

-----------------------------------------------------------------------------
(* The stack                                                               *)

\* The slot at o still holds what the caller had in the register r.
Holds(o, r) == o \in DOMAIN frame /\ frame[o] = r

StackOK ==
  /\ DOMAIN kept = Asm!CalleeSaved
  /\ pc = "call" => Asm!Entry
  /\ pc = "loop" =>
       /\ fn = "rgb" => /\ rsp = -96 /\ Holds(0, "rbp")
                        /\ Holds(-72, "r12") /\ Holds(-80, "r13")
                        /\ Holds(-88, "r14") /\ Holds(-96, "r15")
       /\ fn = "fade" => rsp = -104 /\ Holds(0, "rbp")
       /\ fn \in {"grayscale", "kaleidoscope"} => rsp = 8 /\ kept["rbp"] = "rbp"
  /\ pc \in {"success", "failure"} => Asm!StackIsBalanced

Turned == IF build = "asm" THEN Asm!Turns ELSE i

Pixels == PixelsAre(fn, input_img, output_img, pc, Turned)
Machine == build = "asm" => RegistersOK /\ StackOK

-----------------------------------------------------------------------------
(* Prologues, helpers and epilogues of the assembly                        *)

\* Before every step of a function in assembly.
Ready ==
  /\ RegistersOK /\ StackOK
  /\ fn \in Functions /\ ImageOK(input_img)
  /\ PixelsAre(fn, input_img, output_img, pc, Asm!Turns)

\* The names of the registers.
LEMMA RegisterNames ==
  /\ "rbx" \in Asm!Registers /\ "rax" \in Asm!Registers /\ "rcx" \in Asm!Registers
  /\ "rdx" \in Asm!Registers /\ "rsi" \in Asm!Registers /\ "rdi" \in Asm!Registers
  /\ "r8" \in Asm!Registers /\ "r9" \in Asm!Registers /\ "r10" \in Asm!Registers
  /\ "r11" \in Asm!Registers /\ "r12" \in Asm!Registers /\ "r13" \in Asm!Registers
  /\ "r14" \in Asm!Registers /\ "r15" \in Asm!Registers
  BY DEF Asm!Registers, Asm!CalleeSaved

\* The turns that are done, from the registers that count them.
LEMMA TurnsDone ==
  ASSUME fn \in Functions
  PROVE  /\ pc \notin {"loop", "success"} => Asm!Turns = 0
         /\ pc = "success" => Asm!Turns = Area(input_img)
         /\ pc = "loop" /\ fn = "rgb" =>
              Asm!Turns = IF Asm!RgbDone THEN Area(input_img) ELSE regs.r12 * regs.r8 + regs.r13
         /\ pc = "loop" /\ fn = "fade" => Asm!Turns = regs.rbx
         /\ pc = "loop" /\ fn \in {"grayscale", "kaleidoscope"} => Asm!Turns = regs.r13
  BY DEF Asm!Turns, Asm!InLoop, Area, Functions

\* The same after a step.
LEMMA TurnsDoneAfter ==
  ASSUME fn' \in Functions
  PROVE  /\ pc' \notin {"loop", "success"} => Asm!Turns' = 0
         /\ pc' = "success" => Asm!Turns' = Area(input_img')
         /\ pc' = "loop" /\ fn' = "rgb" =>
              Asm!Turns' = IF Asm!RgbDone' THEN Area(input_img') ELSE regs'.r12 * regs'.r8 + regs'.r13
         /\ pc' = "loop" /\ fn' = "fade" => Asm!Turns' = regs'.rbx
         /\ pc' = "loop" /\ fn' \in {"grayscale", "kaleidoscope"} => Asm!Turns' = regs'.r13
  BY DEF Asm!Turns, Asm!InLoop, Area, Functions

\* The slot of the k-th of the pushes that begin at a place, and n of them.
SlotOf(at, k, o) == o = at - 8 * (k - 1)
PushesOf(names, n) == DOMAIN names = 1..n

\* What a push leaves in its slot, and a pop takes from it.
LEMMA PushedSlot ==
  ASSUME NEW at \in Int, NEW names, NEW n \in Nat, PushesOf(names, n), NEW k \in 1..n,
         NEW o, SlotOf(at, k, o)
  PROVE  o \in DOMAIN Asm!Pushed(at, names) /\ Asm!Pushed(at, names)[o] = kept[names[k]]
  <1>1. k \in DOMAIN names /\ k \in Nat /\ o = at - 8 * (k - 1)
    BY DEF PushesOf, SlotOf
  <1>2. (at - o) \div 8 + 1 = k
    <2>1. PICK m \in Nat : m = k - 1 /\ at - o = m * 8 + 0
      BY <1>1
    <2>2. (m * 8 + 0) \div 8 = m
      BY QuotientOf
    <2> QED
      BY <1>1, <2>1, <2>2
  <1>3. o \in {at - 8 * (j - 1) : j \in DOMAIN names}
    BY <1>1
  <1> QED
    BY <1>2, <1>3 DEF Asm!Pushed

\* The k-th register that is popped gets what its slot holds.
LEMMA PoppedSlot ==
  ASSUME NEW at \in Int, NEW names, NEW n \in Nat, PushesOf(names, n), NEW k \in 1..n,
         \A j \in 1..n : names[j] = names[k] => j = k,
         NEW r, r = names[k], NEW v, Holds(at + 8 * (k - 1), v)
  PROVE  r \in DOMAIN Asm!Popped(at, names) /\ Asm!Popped(at, names)[r] = v
  <1>1. k \in DOMAIN names /\ DOMAIN names = 1..n
    BY DEF PushesOf
  <1>2. (CHOOSE j \in DOMAIN names : names[j] = r) = k
    BY <1>1
  <1>3. r \in {names[j] : j \in DOMAIN names}
    BY <1>1
  <1> QED
    BY <1>2, <1>3 DEF Asm!Popped, Holds

\* The names of the callee-saved registers.
LEMMA CalleeSavedNames ==
  /\ "rbp" \in Asm!CalleeSaved /\ "rbx" \in Asm!CalleeSaved
  /\ "r12" \in Asm!CalleeSaved /\ "r13" \in Asm!CalleeSaved
  /\ "r14" \in Asm!CalleeSaved /\ "r15" \in Asm!CalleeSaved
  BY DEF Asm!CalleeSaved

\* Registers that are written leave the others alone.
LEMMA ClobberedNames ==
  ASSUME NEW names
  PROVE  /\ DOMAIN Asm!Clobbered(names) = Asm!CalleeSaved
         /\ "rbp" \notin names => Asm!Clobbered(names)["rbp"] = kept["rbp"]
  BY CalleeSavedNames DEF Asm!Clobbered

\* What every entry does, whatever function it is of.
LEMMA Entered ==
  ASSUME Ready, NEW f \in Functions, NEW k, k = (IF f = "rgb" THEN 2 ELSE 1),
         Asm!Enter(f, k)
  PROVE  /\ fn = f /\ pc = "call" /\ Asm!Turns = 0 /\ Asm!Entry
         /\ UNCHANGED <<fn, input_img>> /\ fn' \in Functions
         /\ output_img' = [output_img EXCEPT !.width = k * input_img.width,
                                             !.height = k * input_img.height]
         /\ output_img'.data = output_img.data
         /\ output_img' = [width |-> output_img'.width, height |-> output_img'.height,
                           data |-> output_img'.data]
  <1>1. /\ fn = f /\ pc = "call" /\ UNCHANGED <<fn, input_img>>
        /\ output_img' = [output_img EXCEPT !.width = k * input_img.width,
                                            !.height = k * input_img.height]
    BY DEF Asm!Enter
  <1>2. output_img = [width |-> output_img.width, height |-> output_img.height,
                      data |-> output_img.data]
    BY DEF Ready, PixelsAre
  <1>3. Asm!Turns = 0 /\ Asm!Entry
    BY <1>1, TurnsDone DEF Ready, StackOK
  <1> QED
    BY <1>1, <1>2, <1>3 DEF Ready

\* The prologues.
LEMMA RgbPrologue ==
  ASSUME Ready, Asm!rgb_prologue
  PROVE  RegistersOK' /\ StackOK' /\ Enters(Asm!Turns, Asm!Turns')
  <1>1. Asm!Enter("rgb", 2) /\ pc' = "loop"
    BY DEF Asm!rgb_prologue
  <1>2. /\ fn = "rgb" /\ pc = "call" /\ Asm!Turns = 0 /\ Asm!Entry
        /\ UNCHANGED <<fn, input_img>> /\ fn' \in Functions
        /\ output_img' = [output_img EXCEPT !.width = 2 * input_img.width,
                                            !.height = 2 * input_img.height]
        /\ output_img'.data = output_img.data
        /\ output_img' = [width |-> output_img'.width, height |-> output_img'.height,
                          data |-> output_img'.data]
    BY <1>1, Entered DEF Functions
  <1>3. /\ DOMAIN regs' = Asm!Registers
        /\ regs'.r8 = input_img.width /\ regs'.r9 = input_img.height
        /\ regs'.r12 = 0 /\ regs'.r13 = 0 /\ regs'.r14 = "input" /\ regs'.r15 = "output"
    BY RegisterNames DEF Asm!rgb_prologue, Ready, RegistersOK
  <1>4. Asm!Turns' = 0
    <2>1. ~ Asm!RgbDone'
      BY <1>3 DEF Asm!RgbDone
    <2>2. Asm!Turns' = 0 * input_img.width + 0
      BY <1>1, <1>2, <1>3, <2>1, TurnsDoneAfter
    <2> QED
      BY <2>2 DEF Ready, ImageOK
  <1>5. RegistersOK'
    <2>1. PICK w \in Nat, h \in Nat : w = input_img.width /\ h = input_img.height
      BY DEF Ready, ImageOK
    <2>2. Area(input_img) # 0 => 0 < h /\ 0 < w
      <3>1. w = 0 => w * h = 0
        BY <2>1
      <3>2. h = 0 => w * h = 0
        BY <2>1
      <3> QED
        BY <2>1, <3>1, <3>2 DEF Area
    <2>3. RgbRegisters(regs', input_img)
      BY <1>3, <2>1, <2>2 DEF RgbRegisters
    <2> QED
      BY <1>1, <1>2, <1>3, <2>3 DEF RegistersOK
  <1>6. StackOK'
    <2>1. kept = [r \in Asm!CalleeSaved |-> r]
      BY <1>2 DEF Asm!Entry, Asm!EntryKept
    <2>2. frame' = Asm!With(Asm!Pushed(0, <<"rbp">>),
                            Asm!Pushed(-72, <<"r12", "r13", "r14", "r15">>))
          /\ rsp' = -96 /\ kept' = Asm!Clobbered({"rbp", "r12", "r13", "r14", "r15"})
      BY DEF Asm!rgb_prologue
    <2>3. PICK f, g : /\ f = Asm!Pushed(0, <<"rbp">>)
                      /\ g = Asm!Pushed(-72, <<"r12", "r13", "r14", "r15">>)
      OBVIOUS
    <2>4. 0 \in DOMAIN f /\ f[0] = "rbp" /\ DOMAIN f = {0}
      <3>1. DOMAIN f = {0 - 8 * (k - 1) : k \in DOMAIN <<"rbp">>}
        BY <2>3 DEF Asm!Pushed
      <3>2. DOMAIN f = {0}
        BY <3>1
      <3>3. f[0] = kept["rbp"]
        <4>1. PICK names : names = <<"rbp">>
          OBVIOUS
        <4>2. PushesOf(names, 1) /\ names[1] = "rbp"
          BY <4>1 DEF PushesOf
        <4>3. SlotOf(0, 1, 0) /\ 1 \in 1..1
          BY DEF SlotOf
        <4>4. Asm!Pushed(0, names)[0] = kept[names[1]]
          BY <4>2, <4>3, PushedSlot
        <4> QED
          BY <2>3, <4>1, <4>2, <4>4
      <3> QED
        BY <2>1, <3>2, <3>3, CalleeSavedNames
    <2>5. /\ -72 \in DOMAIN g /\ g[-72] = "r12"
          /\ -80 \in DOMAIN g /\ g[-80] = "r13"
          /\ -88 \in DOMAIN g /\ g[-88] = "r14"
          /\ -96 \in DOMAIN g /\ g[-96] = "r15"
      <3>1. PICK names : names = <<"r12", "r13", "r14", "r15">>
        OBVIOUS
      <3>2. PushesOf(names, 4) /\ names[1] = "r12" /\ names[2] = "r13"
            /\ names[3] = "r14" /\ names[4] = "r15"
        BY <3>1 DEF PushesOf
      <3>3. /\ SlotOf(-72, 1, -72) /\ SlotOf(-72, 2, -80)
            /\ SlotOf(-72, 3, -88) /\ SlotOf(-72, 4, -96)
            /\ 1 \in 1..4 /\ 2 \in 1..4 /\ 3 \in 1..4 /\ 4 \in 1..4 /\ -72 \in Int
        BY DEF SlotOf
      <3>4. /\ -72 \in DOMAIN g /\ g[-72] = kept["r12"]
            /\ -80 \in DOMAIN g /\ g[-80] = kept["r13"]
            /\ -88 \in DOMAIN g /\ g[-88] = kept["r14"]
            /\ -96 \in DOMAIN g /\ g[-96] = kept["r15"]
        BY <2>3, <3>1, <3>2, <3>3, PushedSlot
      <3> QED
        BY <2>1, <3>4, CalleeSavedNames
    <2>6. /\ Holds(0, "rbp")' /\ Holds(-72, "r12")' /\ Holds(-80, "r13")'
          /\ Holds(-88, "r14")' /\ Holds(-96, "r15")'
      BY <2>2, <2>3, <2>4, <2>5 DEF Holds, Asm!With
    <2> QED
      BY <1>1, <1>2, <2>2, <2>6, ClobberedNames DEF StackOK
  <1> QED
    BY <1>1, <1>2, <1>4, <1>5, <1>6 DEF Enters

\* imgproc_grayscale pushes nothing.
LEMMA GrayscaleEntry ==
  ASSUME Ready, Asm!grayscale_entry
  PROVE  RegistersOK' /\ StackOK' /\ Enters(Asm!Turns, Asm!Turns')
  <1>1. Asm!Enter("grayscale", 1) /\ pc' = "loop" /\ UNCHANGED <<rsp, frame>>
        /\ kept' = Asm!Clobbered({"r12", "r13"})
    BY DEF Asm!grayscale_entry
  <1>2. /\ fn = "grayscale" /\ pc = "call" /\ Asm!Turns = 0 /\ Asm!Entry
        /\ UNCHANGED <<fn, input_img>> /\ fn' \in Functions
        /\ output_img' = [output_img EXCEPT !.width = 1 * input_img.width,
                                            !.height = 1 * input_img.height]
        /\ output_img'.data = output_img.data
        /\ output_img' = [width |-> output_img'.width, height |-> output_img'.height,
                          data |-> output_img'.data]
    BY <1>1, Entered DEF Functions
  <1>3. /\ DOMAIN regs' = Asm!Registers
        /\ regs'.r9 = Area(input_img) /\ regs'.r10 = Asm!PixelAt("input", 0)
        /\ regs'.r12 = Asm!PixelAt("output", 0) /\ regs'.r13 = 0
    BY RegisterNames DEF Asm!grayscale_entry, Ready, RegistersOK, Area
  <1>4. Asm!Turns' = 0
    BY <1>1, <1>2, <1>3, TurnsDoneAfter
  <1>5. RegistersOK'
    <2>1. 0 \in 0..Area(input_img)
      BY AreaNat DEF Ready
    <2> QED
      BY <1>1, <1>2, <1>3, <2>1 DEF RegistersOK, GrayRegisters
  <1>6. StackOK'
    BY <1>1, <1>2, ClobberedNames, CalleeSavedNames
       DEF StackOK, Asm!Entry, Asm!EntryKept
  <1> QED
    BY <1>1, <1>2, <1>4, <1>5, <1>6 DEF Enters

\* The prologue of imgproc_fade: its pushes and its registers.
LEMMA FadePrologue ==
  ASSUME Ready, Asm!fade_prologue
  PROVE  RegistersOK' /\ StackOK' /\ Enters(Asm!Turns, Asm!Turns')
  <1>1. Asm!Enter("fade", 1) /\ pc' = "loop" /\ rsp' = -5 * 8 - 64
        /\ frame' = Asm!Pushed(0, <<"rbp", "rbx", "r12", "r13", "r14", "r15">>)
        /\ kept' = Asm!Clobbered(Asm!CalleeSaved)
    BY DEF Asm!fade_prologue
  <1>2. /\ fn = "fade" /\ pc = "call" /\ Asm!Turns = 0 /\ Asm!Entry
        /\ UNCHANGED <<fn, input_img>> /\ fn' \in Functions
        /\ output_img' = [output_img EXCEPT !.width = 1 * input_img.width,
                                            !.height = 1 * input_img.height]
        /\ output_img'.data = output_img.data
        /\ output_img' = [width |-> output_img'.width, height |-> output_img'.height,
                          data |-> output_img'.data]
    BY <1>1, Entered DEF Functions
  <1>3. /\ DOMAIN regs' = Asm!Registers
        /\ regs'.r8 = input_img.width /\ regs'.r9 = input_img.height
        /\ regs'.r12 = Area(input_img) /\ regs'.r13 = Asm!PixelAt("input", 0)
        /\ regs'.r14 = Asm!PixelAt("output", 0) /\ regs'.rbx = 0
        /\ regs'.r15 = Unit * Unit * Unit * Unit
    BY RegisterNames DEF Asm!fade_prologue, Ready, RegistersOK, Area
  <1>4. Asm!Turns' = 0
    BY <1>1, <1>2, <1>3, TurnsDoneAfter
  <1>5. RegistersOK'
    <2>1. 0 \in 0..Area(input_img)
      BY AreaNat DEF Ready
    <2> QED
      BY <1>1, <1>2, <1>3, <2>1 DEF RegistersOK, FadeRegisters
  <1>6. StackOK'
    <2>1. kept["rbp"] = "rbp"
      BY <1>2, CalleeSavedNames DEF Asm!Entry, Asm!EntryKept
    <2>2. Holds(0, "rbp")'
      <3>1. PICK names : names = <<"rbp", "rbx", "r12", "r13", "r14", "r15">>
        OBVIOUS
      <3>2. PushesOf(names, 6) /\ names[1] = "rbp"
        BY <3>1 DEF PushesOf
      <3>3. SlotOf(0, 1, 0) /\ 1 \in 1..6
        BY DEF SlotOf
      <3>4. 0 \in DOMAIN Asm!Pushed(0, names) /\ Asm!Pushed(0, names)[0] = kept[names[1]]
        BY <3>2, <3>3, PushedSlot
      <3> QED
        BY <1>1, <2>1, <3>1, <3>2, <3>4 DEF Holds
    <2>3. rsp' = -104
      BY <1>1
    <2> QED
      BY <1>1, <1>2, <2>2, <2>3, ClobberedNames DEF StackOK
  <1> QED
    BY <1>1, <1>2, <1>4, <1>5, <1>6 DEF Enters

\* imgproc_kaleidoscope refuses an image that is not square, or sets up its loop.
LEMMA KaleidoscopeEntry ==
  ASSUME Ready, Asm!kaleidoscope_entry
  PROVE  RegistersOK' /\ StackOK' /\ Enters(Asm!Turns, Asm!Turns')
  <1>1. Asm!Enter("kaleidoscope", 1) /\ UNCHANGED <<rsp, frame>>
    BY DEF Asm!kaleidoscope_entry
  <1>2. /\ fn = "kaleidoscope" /\ pc = "call" /\ Asm!Turns = 0 /\ Asm!Entry
        /\ UNCHANGED <<fn, input_img>> /\ fn' \in Functions
        /\ output_img' = [output_img EXCEPT !.width = 1 * input_img.width,
                                            !.height = 1 * input_img.height]
        /\ output_img'.data = output_img.data
        /\ output_img' = [width |-> output_img'.width, height |-> output_img'.height,
                          data |-> output_img'.data]
    BY <1>1, Entered DEF Functions
  <1>3. PICK R : /\ DOMAIN R = Asm!Registers
                 /\ R.r8 = input_img.width /\ R.r9 = input_img.height
                 /\ R = [regs EXCEPT !.r8 = input_img.width, !.r9 = input_img.height, !.rax = 0]
    BY RegisterNames DEF Ready, RegistersOK
  <1>4. PICK w \in Nat, h \in Nat : w = input_img.width /\ h = input_img.height
    BY DEF Ready, ImageOK
  <1>5. kept["rbp"] = "rbp" /\ DOMAIN kept = Asm!CalleeSaved /\ rsp = 8
    BY <1>2, CalleeSavedNames DEF Asm!Entry, Asm!EntryKept
  <1>6. CASE /\ input_img.width # input_img.height
             /\ pc' = "failure" /\ regs' = R /\ UNCHANGED kept
    <2>1. Asm!Turns' = 0
      BY <1>2, <1>6, TurnsDoneAfter
    <2>2. RegistersOK' /\ StackOK'
      BY <1>1, <1>2, <1>3, <1>5, <1>6 DEF RegistersOK, StackOK, Asm!StackIsBalanced
    <2> QED
      BY <1>2, <1>6, <2>1, <2>2 DEF Enters
  <1>7. CASE /\ input_img.width = input_img.height /\ pc' = "loop"
             /\ regs' = [R EXCEPT !.r14 = Asm!PixelAt("input", 0), !.r9 = w * w,
                                  !.r15 = Asm!PixelAt("output", 0),
                                  !.r10 = IF (w \div 2) * 2 = w THEN w ELSE w + 1,
                                  !.r11 = (IF (w \div 2) * 2 = w THEN w ELSE w + 1) \div 2,
                                  !.r13 = 0]
             /\ kept' = Asm!Clobbered({"r13", "r14", "r15"})
    <2>1. (IF (w \div 2) * 2 = w THEN w ELSE w + 1) = w + (w % 2)
      BY Parity
    <2>2. /\ DOMAIN regs' = Asm!Registers
          /\ regs'.r8 = w /\ regs'.r9 = w * w /\ regs'.r13 = 0
          /\ regs'.r10 = w + (w % 2) /\ regs'.r11 = (w + (w % 2)) \div 2
          /\ regs'.r14 = Asm!PixelAt("input", 0) /\ regs'.r15 = Asm!PixelAt("output", 0)
      BY <1>3, <1>4, <1>7, <2>1, RegisterNames, Zenon
    <2>3. Asm!Turns' = 0
      BY <1>2, <1>7, <2>2, TurnsDoneAfter
    <2>4. RegistersOK'
      <3>1. Area(input_img) = w * w /\ 0 \in 0..Area(input_img)
        BY <1>4, <1>7, AreaNat DEF Ready, Area
      <3>2. KaleidoscopeRegisters(regs', input_img)
        BY <1>4, <1>7, <2>2, <3>1 DEF KaleidoscopeRegisters
      <3> QED
        BY <1>2, <1>7, <2>2, <3>2 DEF RegistersOK
    <2>5. StackOK'
      BY <1>1, <1>2, <1>5, <1>7, ClobberedNames DEF StackOK
    <2> QED
      BY <1>2, <1>7, <2>3, <2>4, <2>5 DEF Enters
  <1> QED
    BY <1>3, <1>4, <1>6, <1>7 DEF Asm!kaleidoscope_entry

\* What the helpers return in rax, and the registers they leave alone.
KeepsBut(R, S, names) ==
  /\ DOMAIN S = Asm!Registers
  /\ \A r \in Asm!Registers \ names : S[r] = R[r]

\* What the helpers in assembly return, and which registers they write.
LEMMA AsmMakePixel ==
  ASSUME NEW R, DOMAIN R = Asm!Registers, NEW S, S = Asm!make_pixel(R)
  PROVE  /\ S.rax = make_pixel(R.rdi, R.rsi, R.rdx, R.rcx)
         /\ KeepsBut(R, S, {"rax", "rdi", "rsi", "rdx"})
  BY RegisterNames DEF Asm!make_pixel, make_pixel, KeepsBut

\* get_r, ..., get_a.
LEMMA AsmComponents ==
  ASSUME NEW R, DOMAIN R = Asm!Registers
  PROVE  /\ Asm!get_r(R).rax = R.rdi.r /\ Asm!get_g(R).rax = R.rdi.g
         /\ Asm!get_b(R).rax = R.rdi.b /\ Asm!get_a(R).rax = R.rdi.a
  BY RegisterNames DEF Asm!get_r, Asm!get_g, Asm!get_b, Asm!get_a

\* to_grayscale is the one of the C program.
LEMMA AsmGray ==
  ASSUME NEW R, DOMAIN R = Asm!Registers, NEW p \in Pixel, R.rdi = p,
         NEW S, S = Asm!to_grayscale(R)
  PROVE  /\ S.rax = to_grayscale(p)
         /\ KeepsBut(R, S, {"rax", "rdi", "rsi", "rdx", "rcx", "r8"})
  <1> DEFINE g == (R.rdi.r * 79 + R.rdi.g * 128 + R.rdi.b * 49) \div 256
             T == [R EXCEPT !.r8 = g, !.rcx = R.rdi.a, !.rdi = g, !.rsi = g, !.rdx = g]
  <1>1. S = Asm!make_pixel(T)
    BY AsmComponents, ZenonT(60) DEF Asm!to_grayscale
  <1>2. g = (79 * p.r + 128 * p.g + 49 * p.b) \div 256
    BY DEF Pixel
  <1> HIDE DEF g
  <1>3. /\ DOMAIN T = Asm!Registers
        /\ T.rdi = g /\ T.rsi = g /\ T.rdx = g /\ T.rcx = p.a
        /\ KeepsBut(R, T, {"rax", "rdi", "rsi", "rdx", "rcx", "r8"})
    BY RegisterNames DEF KeepsBut
  <1> HIDE DEF T
  <1>4. /\ S.rax = make_pixel(g, g, g, p.a)
        /\ KeepsBut(T, S, {"rax", "rdi", "rsi", "rdx"})
    BY <1>1, <1>3, AsmMakePixel
  <1>5. make_pixel(g, g, g, p.a) = to_grayscale(p)
    BY <1>2 DEF to_grayscale
  <1> QED
    BY <1>3, <1>4, <1>5 DEF KeepsBut

\* gradient is the one of the C program.
LEMMA AsmGradient ==
  ASSUME NEW R, DOMAIN R = Asm!Registers, NEW S, S = Asm!gradient(R)
  PROVE  /\ S.rax = gradient(R.rdi, R.rsi)
         /\ KeepsBut(R, S, {"rax", "rdi", "rdx", "rcx"})
  BY RegisterNames, Zenon DEF Asm!gradient, gradient, Square, KeepsBut

\* compute_index writes only its result.
LEMMA AsmIndex ==
  ASSUME NEW R, DOMAIN R = Asm!Registers, NEW S, S = Asm!compute_index(R)
  PROVE  /\ S.rax = R.rdx * Asm!Struct(R.rdi).width + R.rsi
         /\ KeepsBut(R, S, {"rax"})
  BY RegisterNames DEF Asm!compute_index, KeepsBut

\* The two images that pointers lead to.
LEMMA AsmStruct ==
  /\ Asm!Struct("input") = input_img /\ Asm!Struct("output") = output_img
  BY DEF Asm!Struct

\* The returns.
LEMMA GrayscaleReturn ==
  ASSUME Ready, Asm!grayscale_return
  PROVE  RegistersOK' /\ StackOK' /\ Returns(Asm!Turns, Asm!Turns')
  <1>1. /\ fn = "grayscale" /\ pc = "loop" /\ regs.r13 >= regs.r9 /\ pc' = "success"
        /\ UNCHANGED <<fn, input_img, output_img, regs, rsp, frame, kept>>
    BY DEF Asm!grayscale_return, Asm!InLoop
  <1>2. GrayRegisters(regs, input_img) /\ DOMAIN regs = Asm!Registers
    BY <1>1 DEF Ready, RegistersOK
  <1>3. PICK a \in Nat : a = Area(input_img)
    BY AreaNat DEF Ready
  <1>4. regs.r13 = a
    BY <1>1, <1>2, <1>3 DEF GrayRegisters
  <1>5. Asm!Turns = Area(input_img) /\ Asm!Turns' = Area(input_img)
    BY <1>1, <1>3, <1>4, TurnsDone, TurnsDoneAfter DEF Ready
  <1>6. StackOK'
    BY <1>1, Zenon DEF Ready, StackOK, Asm!StackIsBalanced
  <1> QED
    BY <1>1, <1>2, <1>5, <1>6 DEF Returns, RegistersOK

\* imgproc_kaleidoscope returns after its last turn.
LEMMA KaleidoscopeReturn ==
  ASSUME Ready, Asm!kaleidoscope_return
  PROVE  RegistersOK' /\ StackOK' /\ Returns(Asm!Turns, Asm!Turns')
  <1>1. /\ fn = "kaleidoscope" /\ pc = "loop" /\ regs.r13 >= regs.r9 /\ pc' = "success"
        /\ UNCHANGED <<fn, input_img, output_img, rsp, frame, kept>>
        /\ regs' = [regs EXCEPT !.rax = 1]
    BY DEF Asm!kaleidoscope_return, Asm!InLoop
  <1>2. KaleidoscopeRegisters(regs, input_img) /\ DOMAIN regs = Asm!Registers
    BY <1>1 DEF Ready, RegistersOK
  <1>3. PICK a \in Nat : a = Area(input_img)
    BY AreaNat DEF Ready
  <1>4. regs.r13 = a
    BY <1>1, <1>2, <1>3 DEF KaleidoscopeRegisters
  <1>5. Asm!Turns = Area(input_img) /\ Asm!Turns' = Area(input_img)
    BY <1>1, <1>3, <1>4, TurnsDone, TurnsDoneAfter DEF Ready
  <1>6. StackOK'
    BY <1>1, Zenon DEF Ready, StackOK, Asm!StackIsBalanced
  <1>7. DOMAIN regs' = Asm!Registers
    BY <1>1, <1>2
  <1> QED
    BY <1>1, <1>5, <1>6, <1>7 DEF Returns, RegistersOK

\* The epilogues pop what the prologues have pushed.
LEMMA FadeEpilogue ==
  ASSUME Ready, Asm!fade_epilogue
  PROVE  RegistersOK' /\ StackOK' /\ Returns(Asm!Turns, Asm!Turns')
  <1>1. /\ fn = "fade" /\ pc = "loop" /\ regs.rbx >= regs.r12 /\ pc' = "success"
        /\ UNCHANGED <<fn, input_img, output_img, regs, frame>>
        /\ kept' = Asm!Popped(rsp + 64, <<"rbx", "r12", "r13", "r14", "r15", "rbp">>)
        /\ rsp' = rsp + 64 + 6 * 8
    BY DEF Asm!fade_epilogue, Asm!InLoop
  <1>2. FadeRegisters(regs, input_img) /\ DOMAIN regs = Asm!Registers
    BY <1>1 DEF Ready, RegistersOK
  <1>3. PICK a \in Nat : a = Area(input_img)
    BY AreaNat DEF Ready
  <1>4. regs.rbx = a
    BY <1>1, <1>2, <1>3 DEF FadeRegisters
  <1>5. Asm!Turns = Area(input_img) /\ Asm!Turns' = Area(input_img)
    BY <1>1, <1>3, <1>4, TurnsDone, TurnsDoneAfter DEF Ready
  <1>6. rsp = -104 /\ Holds(0, "rbp")
    BY <1>1 DEF Ready, StackOK
  <1>7. rsp' = 8 /\ rsp + 64 = -40
    BY <1>1, <1>6
  <1>8. PICK names : names = <<"rbx", "r12", "r13", "r14", "r15", "rbp">>
    OBVIOUS
  <1>9. /\ PushesOf(names, 6)
        /\ \A k \in 1..6 : names[k] = "rbp" => k = 6
        /\ names[6] = "rbp"
    BY <1>8 DEF PushesOf
  <1>10. kept' = Asm!Popped(-40, names)
    BY <1>1, <1>7, <1>8
  <1>11. kept'["rbp"] = "rbp"
    <2>1. -40 + 8 * (6 - 1) = 0 /\ 6 \in 1..6 /\ -40 \in Int /\ 6 \in Nat
      OBVIOUS
    <2> QED
      BY <1>6, <1>9, <1>10, <2>1, PoppedSlot
  <1>12. DOMAIN kept' = Asm!CalleeSaved
    <2>1. DOMAIN kept' = {names[k] : k \in 1..6}
      BY <1>9, <1>10 DEF Asm!Popped, PushesOf
    <2>2. {names[k] : k \in 1..6}
          = {names[1], names[2], names[3], names[4], names[5], names[6]}
      OBVIOUS
    <2>3. names[1] = "rbx" /\ names[2] = "r12" /\ names[3] = "r13" /\ names[4] = "r14"
          /\ names[5] = "r15" /\ names[6] = "rbp"
      BY <1>8
    <2> QED
      BY <2>1, <2>2, <2>3 DEF Asm!CalleeSaved
  <1>13. StackOK'
    BY <1>1, <1>7, <1>11, <1>12 DEF StackOK, Asm!StackIsBalanced
  <1> QED
    BY <1>1, <1>2, <1>5, <1>13 DEF Returns, RegistersOK

\* imgproc_rgb pops what it has pushed, in the right order, from where it was.
LEMMA RgbEpilogue ==
  ASSUME Ready, Asm!rgb_epilogue
  PROVE  RegistersOK' /\ StackOK' /\ Returns(Asm!Turns, Asm!Turns')
  <1>1. /\ fn = "rgb" /\ pc = "loop" /\ Asm!RgbDone /\ pc' = "success"
        /\ UNCHANGED <<fn, input_img, output_img, regs, frame>>
        /\ kept' = Asm!With(Asm!Popped(rsp, <<"r15", "r14", "r13", "r12">>),
                            Asm!With(Asm!Popped(rsp + 4 * 8 + 64, <<"rbp">>), kept))
        /\ rsp' = rsp + 5 * 8 + 64
    BY DEF Asm!rgb_epilogue, Asm!InLoop
  <1>2. DOMAIN regs = Asm!Registers
    BY DEF Ready, RegistersOK
  <1>5. Asm!Turns = Area(input_img) /\ Asm!Turns' = Area(input_img)
    BY <1>1, TurnsDone, TurnsDoneAfter DEF Ready
  <1>6. /\ rsp = -96 /\ Holds(0, "rbp") /\ Holds(-72, "r12") /\ Holds(-80, "r13")
        /\ Holds(-88, "r14") /\ Holds(-96, "r15") /\ DOMAIN kept = Asm!CalleeSaved
    BY <1>1 DEF Ready, StackOK
  <1>7. PICK ns, one : ns = <<"r15", "r14", "r13", "r12">> /\ one = <<"rbp">>
    OBVIOUS
  <1>8. /\ PushesOf(ns, 4) /\ PushesOf(one, 1)
        /\ ns[1] = "r15" /\ ns[2] = "r14" /\ ns[3] = "r13" /\ ns[4] = "r12" /\ one[1] = "rbp"
    BY <1>7 DEF PushesOf
  <1>9. PICK f, g : f = Asm!Popped(-96, ns) /\ g = Asm!Popped(0, one)
    OBVIOUS
  <1>10. rsp' = 8 /\ kept' = Asm!With(f, Asm!With(g, kept))
    <2>1. rsp + 4 * 8 + 64 = 0 /\ rsp + 5 * 8 + 64 = 8
      BY <1>6
    <2> QED
      BY <1>1, <1>6, <1>7, <1>9, <2>1
  <1>11. \A k \in 1..4 : \A j \in 1..4 : ns[j] = ns[k] => j = k
    BY <1>8
  <1>12. /\ "r15" \in DOMAIN f /\ f["r15"] = "r15" /\ "r14" \in DOMAIN f /\ f["r14"] = "r14"
         /\ "r13" \in DOMAIN f /\ f["r13"] = "r13" /\ "r12" \in DOMAIN f /\ f["r12"] = "r12"
    <2>1. /\ Holds(-96 + 8 * (1 - 1), "r15") /\ Holds(-96 + 8 * (2 - 1), "r14")
          /\ Holds(-96 + 8 * (3 - 1), "r13") /\ Holds(-96 + 8 * (4 - 1), "r12")
      BY <1>6
    <2>2. 4 \in Nat /\ -96 \in Int /\ 1 \in 1..4 /\ 2 \in 1..4 /\ 3 \in 1..4 /\ 4 \in 1..4
      OBVIOUS
    <2>3. "r15" \in DOMAIN f /\ f["r15"] = "r15"
      BY <1>8, <1>9, <1>11, <2>1, <2>2, PoppedSlot
    <2>4. "r14" \in DOMAIN f /\ f["r14"] = "r14"
      BY <1>8, <1>9, <1>11, <2>1, <2>2, PoppedSlot
    <2>5. "r13" \in DOMAIN f /\ f["r13"] = "r13"
      BY <1>8, <1>9, <1>11, <2>1, <2>2, PoppedSlot
    <2>6. "r12" \in DOMAIN f /\ f["r12"] = "r12"
      BY <1>8, <1>9, <1>11, <2>1, <2>2, PoppedSlot
    <2> QED
      BY <2>3, <2>4, <2>5, <2>6
  <1>13. "rbp" \in DOMAIN g /\ g["rbp"] = "rbp" /\ DOMAIN g = {"rbp"}
    <2>1. Holds(0 + 8 * (1 - 1), "rbp") /\ 1 \in 1..1 /\ 1 \in Nat
          /\ \A j \in 1..1 : one[j] = one[1] => j = 1
      BY <1>6
    <2>2. "rbp" \in DOMAIN g /\ g["rbp"] = "rbp"
      BY <1>8, <1>9, <2>1, PoppedSlot
    <2>3. DOMAIN g = {one[k] : k \in 1..1}
      BY <1>8, <1>9 DEF Asm!Popped, PushesOf
    <2> QED
      BY <1>8, <2>2, <2>3
  <1>14. DOMAIN f = {"r15", "r14", "r13", "r12"}
    <2>1. DOMAIN f = {ns[k] : k \in 1..4}
      BY <1>8, <1>9 DEF Asm!Popped, PushesOf
    <2> QED
      BY <1>8, <2>1
  <1>15. /\ DOMAIN kept' = Asm!CalleeSaved /\ kept'["rbp"] = "rbp"
         /\ \A r \in {"r12", "r13", "r14", "r15"} : kept'[r] = r
    BY <1>6, <1>10, <1>12, <1>13, <1>14 DEF Asm!With, Asm!CalleeSaved
  <1>16. StackOK'
    BY <1>1, <1>10, <1>15 DEF StackOK, Asm!StackIsBalanced
  <1> QED
    BY <1>1, <1>2, <1>5, <1>16 DEF Returns, RegistersOK

-----------------------------------------------------------------------------
(* Turns of the loops of the assembly                                      *)

\* A loop that has another pixel to do.
LEMMA AtTurn ==
  ASSUME Ready, pc = "loop", Asm!Turns < Area(input_img)
  PROVE  /\ LoopAt(fn, input_img, output_img, Asm!Turns)
         /\ Asm!Turns \in 0..(Area(input_img) - 1) /\ Area(input_img) \in Nat
         /\ input_img.data[Asm!Turns] \in Pixel
  <1>1. LoopAt(fn, input_img, output_img, Asm!Turns)
    BY DEF Ready, PixelsAre
  <1>2. PICK a \in Nat : a = Area(input_img)
    BY AreaNat DEF Ready
  <1>3. Asm!Turns \in 0..(a - 1)
    BY <1>1, <1>2 DEF LoopAt
  <1> QED
    BY <1>1, <1>2, <1>3, PixelOfInput DEF Ready

\* A turn of imgproc_grayscale.
LEMMA GrayscaleTurn ==
  ASSUME Ready, Asm!grayscale_turn
  PROVE  RegistersOK' /\ StackOK' /\ Draws(Asm!Turns, Asm!Turns')
  <1>1. /\ fn = "grayscale" /\ pc = "loop" /\ regs.r13 < regs.r9
        /\ UNCHANGED <<fn, input_img, pc, rsp, frame, kept>>
    BY DEF Asm!grayscale_turn, Asm!InLoop
  <1>2. GrayRegisters(regs, input_img) /\ DOMAIN regs = Asm!Registers
    BY <1>1 DEF Ready, RegistersOK
  <1>3. Asm!Turns = regs.r13
    BY <1>1, TurnsDone DEF Ready
  <1>4. PICK t : t = regs.r13
    OBVIOUS
  <1>5. /\ t \in 0..(Area(input_img) - 1) /\ Area(input_img) \in Nat
        /\ input_img.data[t] \in Pixel
    BY <1>1, <1>2, <1>3, <1>4, AtTurn DEF GrayRegisters
  <1>6. PICK T : T = [regs EXCEPT !.rdi = input_img.data[t]]
    OBVIOUS
  <1>7. PICK R : R = Asm!to_grayscale(T)
    OBVIOUS
  <1>8. Asm!Load(regs.r10) = input_img.data[t]
    BY <1>2, <1>4, AsmStruct DEF Asm!Load, Asm!PixelAt, GrayRegisters
  <1>9. /\ Asm!Store(Asm!Put(output_img.data, regs.r12.at, R.rax))
        /\ regs' = [R EXCEPT !.r12.at = @ + 1, !.r10.at = @ + 1, !.r13 = @ + 1]
    BY <1>6, <1>7, <1>8 DEF Asm!grayscale_turn
  <1>10. DOMAIN T = Asm!Registers /\ T.rdi = input_img.data[t]
         /\ KeepsBut(regs, T, {"rdi"})
    BY <1>2, <1>6, RegisterNames DEF KeepsBut
  <1>11. R.rax = to_grayscale(input_img.data[t])
         /\ KeepsBut(T, R, {"rax", "rdi", "rsi", "rdx", "rcx", "r8"})
    BY <1>5, <1>7, <1>10, AsmGray
  <1>12. /\ DOMAIN R = Asm!Registers /\ R.r9 = Area(input_img) /\ R.r13 = t
         /\ R.r10 = [to |-> "input", at |-> t] /\ R.r12 = [to |-> "output", at |-> t]
    BY <1>2, <1>4, <1>10, <1>11, RegisterNames DEF KeepsBut, GrayRegisters, Asm!PixelAt
  <1>13. /\ DOMAIN regs' = Asm!Registers /\ regs'.r9 = Area(input_img) /\ regs'.r13 = t + 1
         /\ regs'.r10 = [to |-> "input", at |-> t + 1]
         /\ regs'.r12 = [to |-> "output", at |-> t + 1]
    BY <1>9, <1>12, RegisterNames
  <1>14. RegistersOK'
    <2>1. t + 1 \in 0..Area(input_img)
      BY <1>5
    <2> QED
      BY <1>1, <1>13, <2>1 DEF RegistersOK, GrayRegisters, Asm!PixelAt
  <1>15. StackOK'
    BY <1>1, Zenon DEF Ready, StackOK
  <1>16. Asm!Turns' = t + 1
    BY <1>1, <1>13, TurnsDoneAfter DEF Ready
  <1>17. output_img' = [output_img EXCEPT !.data = DataAfter(t)]
    <2>1. regs.r12.at = t
      BY <1>2, <1>4 DEF GrayRegisters, Asm!PixelAt
    <2>2. DataAfter(t) = Asm!Put(output_img.data, t, R.rax)
      BY <1>1, <1>11 DEF DataAfter, OutputPixel, Put, Asm!Put
    <2> QED
      BY <1>9, <2>1, <2>2 DEF Asm!Store
  <1>18. t < Area(input_img)
    BY <1>5
  <1> QED
    BY <1>1, <1>3, <1>4, <1>14, <1>15, <1>16, <1>17, <1>18 DEF Draws

\* A turn of imgproc_kaleidoscope.
LEMMA KaleidoscopeTurn ==
  ASSUME Ready, Asm!kaleidoscope_turn
  PROVE  RegistersOK' /\ StackOK' /\ Draws(Asm!Turns, Asm!Turns')
  <1>1. /\ fn = "kaleidoscope" /\ pc = "loop" /\ regs.r13 < regs.r9
        /\ UNCHANGED <<fn, input_img, pc, rsp, frame>>
    BY DEF Asm!kaleidoscope_turn, Asm!InLoop
  <1>2. KaleidoscopeRegisters(regs, input_img) /\ DOMAIN regs = Asm!Registers
    BY <1>1 DEF Ready, RegistersOK
  <1>3. Asm!Turns = regs.r13
    BY <1>1, TurnsDone DEF Ready
  <1>4. PICK t : t = regs.r13
    OBVIOUS
  <1>5. t \in 0..(Area(input_img) - 1) /\ Area(input_img) \in Nat
    BY <1>1, <1>2, <1>3, <1>4, AtTurn DEF KaleidoscopeRegisters
  <1>6. PICK w \in Nat : w = input_img.width /\ Area(input_img) = w * w
    BY <1>2 DEF Ready, ImageOK, Area, KaleidoscopeRegisters
  <1>7. PICK y, x : y = t \div w /\ x = t % w
    OBVIOUS
  <1>8. y \in 0..w - 1 /\ x \in 0..w - 1
    BY <1>5, <1>6, <1>7, Coordinates
  <1> DEFINE Folded(z) == IF z < regs.r11 THEN z ELSE regs.r10 - z - 1
             crosses == Folded(y) > Folded(x)
             idx == IF crosses THEN Folded(x) * w + Folded(y) ELSE Folded(y) * w + Folded(x)
             pixel == Asm!Load([regs.r14 EXCEPT !.at = @ + idx])
  <1>9. /\ Asm!Store(Asm!Put(output_img.data, regs.r15.at, pixel))
        /\ regs' = [regs EXCEPT !.rax = 4 * idx, !.rbx = pixel,
                                !.rdx = IF crosses THEN Folded(y) ELSE Folded(x),
                                !.r12 = IF crosses THEN Folded(y)
                                        ELSE IF x >= regs.r11 THEN x
                                        ELSE IF y >= regs.r11 THEN y ELSE @,
                                !.r15.at = @ + 1, !.r13 = @ + 1]
        /\ kept' = Asm!Clobbered(IF crosses \/ x >= regs.r11 \/ y >= regs.r11
                                 THEN {"rbx", "r12"} ELSE {"rbx"})
    BY <1>2, <1>4, <1>6, <1>7, ZenonT(60) DEF Asm!kaleidoscope_turn, KaleidoscopeRegisters
  <1>10. \A z \in 0..w - 1 : Folded(z) = Mirror(z, w) /\ Mirror(z, w) \in Int
    <2> TAKE z \in 0..w - 1
    <2>1. PICK f, m : /\ f = w + (w % 2) /\ m = f \div 2 /\ f \in Nat /\ m \in Nat
      BY <1>6, Parity
    <2>2. regs.r10 = f /\ regs.r11 = m
      BY <1>2, <1>6, <2>1 DEF KaleidoscopeRegisters
    <2>3. Mirror(z, w) = IF z >= m THEN f - z - 1 ELSE z
      BY <2>1 DEF Mirror
    <2> QED
      BY <2>1, <2>2, <2>3
  <1>11. idx = in_idx(w, t)
    <2>1. PICK my \in Int, mx \in Int : my = Mirror(y, w) /\ mx = Mirror(x, w)
                                        /\ Folded(y) = my /\ Folded(x) = mx
      BY <1>8, <1>10
    <2>2. Min({my, mx}) = (IF my <= mx THEN my ELSE mx)
          /\ Max({my, mx}) = (IF my <= mx THEN mx ELSE my)
      BY MinMaxOfTwo
    <2>3. in_idx(w, t) = Min({my, mx}) * w + Max({my, mx})
      BY <1>7, <2>1 DEF in_idx
    <2>4. CASE my > mx
      BY <2>1, <2>2, <2>3, <2>4
    <2>5. CASE ~ (my > mx)
      BY <2>1, <2>2, <2>3, <2>5
    <2> QED
      BY <2>4, <2>5
  <1>12. pixel = input_img.data[in_idx(w, t)]
    <2>1. in_idx(w, t) \in 0..(w * w - 1)
      BY <1>5, <1>6, FoldedPlace
    <2>2. regs.r14 = [to |-> "input", at |-> 0]
      BY <1>2 DEF KaleidoscopeRegisters, Asm!PixelAt
    <2>3. PICK n : n = in_idx(w, t) /\ n \in Int
      BY <1>6, <2>1
    <2>4. [regs.r14 EXCEPT !.at = @ + n] = [to |-> "input", at |-> n]
      BY <2>2, <2>3
    <2> QED
      BY <1>11, <2>3, <2>4, AsmStruct DEF Asm!Load
  <1> HIDE DEF Folded, crosses, idx, pixel
  <1>13. /\ DOMAIN regs' = Asm!Registers
         /\ regs'.r8 = regs.r8 /\ regs'.r9 = regs.r9 /\ regs'.r10 = regs.r10
         /\ regs'.r11 = regs.r11 /\ regs'.r14 = regs.r14 /\ regs'.r13 = t + 1
         /\ regs'.r15 = [to |-> "output", at |-> t + 1]
    <2>1. regs.r15 = [to |-> "output", at |-> t] /\ regs.r13 = t
      BY <1>2, <1>4 DEF KaleidoscopeRegisters, Asm!PixelAt
    <2> QED
      BY <1>2, <1>9, <2>1, RegisterNames
  <1>14. RegistersOK'
    <2>1. t + 1 \in 0..Area(input_img)
      BY <1>5
    <2>2. KaleidoscopeRegisters(regs', input_img)
      BY <1>2, <1>13, <2>1 DEF KaleidoscopeRegisters, Asm!PixelAt
    <2> QED
      BY <1>1, <1>13, <2>2 DEF RegistersOK
  <1>15. StackOK'
    BY <1>1, <1>9, ClobberedNames DEF Ready, StackOK
  <1>16. Asm!Turns' = t + 1
    BY <1>1, <1>13, TurnsDoneAfter DEF Ready
  <1>17. output_img' = [output_img EXCEPT !.data = DataAfter(t)]
    <2>1. regs.r15.at = t
      BY <1>2, <1>4 DEF KaleidoscopeRegisters, Asm!PixelAt
    <2>2. DataAfter(t) = Asm!Put(output_img.data, t, pixel)
      BY <1>1, <1>6, <1>12 DEF DataAfter, OutputPixel, Put, Asm!Put
    <2> QED
      BY <1>9, <2>1, <2>2 DEF Asm!Store
  <1>18. t < Area(input_img)
    BY <1>5
  <1> QED
    BY <1>1, <1>3, <1>4, <1>14, <1>15, <1>16, <1>17, <1>18 DEF Draws

\* Locals below a slot leave it as it is.
LEMMA SlotIntact ==
  ASSUME NEW o, NEW v, Holds(o, v), NEW locals,
         \A l \in locals : l[1] >= o + 8 \/ o >= l[1] + l[2]
  PROVE  o \in DOMAIN Asm!Overwritten(locals) /\ Asm!Overwritten(locals)[o] = v
  BY DEF Holds, Asm!Overwritten

\* A turn of imgproc_fade; its locals overwrite pushed registers, but not rbp.
LEMMA FadeTurn ==
  ASSUME Ready, Asm!fade_turn
  PROVE  RegistersOK' /\ StackOK' /\ Draws(Asm!Turns, Asm!Turns')
  <1>1. /\ fn = "fade" /\ pc = "loop" /\ regs.rbx < regs.r12
        /\ UNCHANGED <<fn, input_img, pc, rsp, kept>>
        /\ frame' = Asm!Overwritten({<<-4, 4>>, <<-8, 4>>, <<-12, 4>>, <<-16, 4>>, <<-20, 4>>,
                             <<-32, 8>>, <<-40, 4>>, <<-44, 4>>, <<-48, 4>>, <<-56, 8>>})
    BY DEF Asm!fade_turn, Asm!InLoop
  <1>2. FadeRegisters(regs, input_img) /\ DOMAIN regs = Asm!Registers
    BY <1>1 DEF Ready, RegistersOK
  <1>3. Asm!Turns = regs.rbx
    BY <1>1, TurnsDone DEF Ready
  <1>4. PICK t : t = regs.rbx
    OBVIOUS
  <1>5. /\ t \in 0..(Area(input_img) - 1) /\ Area(input_img) \in Nat
        /\ input_img.data[t] \in Pixel
    BY <1>1, <1>2, <1>3, <1>4, AtTurn DEF FadeRegisters
  <1>6. PICK w, h, p : w = input_img.width /\ h = input_img.height /\ p = input_img.data[t]
    OBVIOUS
  <1>7. PICK y, x : y = t \div w /\ x = t % w
    OBVIOUS
  <1>8. PICK R1 : R1 = [regs EXCEPT !.r10 = y, !.r11 = x, !.rdi = p]
    OBVIOUS
  <1>9. PICK T1 : T1 = [R1 EXCEPT !.rdi = R1.r10, !.rsi = R1.r9]
    OBVIOUS
  <1>10. PICK tr : tr = Asm!gradient(T1)
    OBVIOUS
  <1>11. PICK T2 : T2 = [tr EXCEPT !.rdi = tr.r11, !.rsi = tr.r8]
    OBVIOUS
  <1>12. PICK tc : tc = Asm!gradient(T2)
    OBVIOUS
  <1>13. PICK T3 : T3 = [tc EXCEPT !.rdi = (tr.rax * tc.rax * p.r) \div regs.r15,
                                   !.rsi = (tr.rax * tc.rax * p.g) \div regs.r15,
                                   !.rdx = (tr.rax * tc.rax * p.b) \div regs.r15,
                                   !.rcx = p.a]
    OBVIOUS
  <1>14. PICK R2 : R2 = Asm!make_pixel(T3)
    OBVIOUS
  <1>15. R1 = [regs EXCEPT !.r10 = regs.rbx \div regs.r8, !.r11 = regs.rbx % regs.r8,
                           !.rdi = Asm!Load([regs.r13 EXCEPT !.at = @ + regs.rbx])]
    <2>1. regs.r13 = [to |-> "input", at |-> 0] /\ regs.r8 = w
      BY <1>2, <1>6 DEF FadeRegisters, Asm!PixelAt
    <2>2. [regs.r13 EXCEPT !.at = @ + t] = [to |-> "input", at |-> t]
      BY <1>5, <2>1
    <2>3. Asm!Load([regs.r13 EXCEPT !.at = @ + t]) = p
      BY <1>6, <2>2, AsmStruct DEF Asm!Load
    <2> QED
      BY <1>4, <1>7, <1>8, <2>1, <2>3, Zenon
  <1>16. /\ DOMAIN R1 = Asm!Registers /\ R1.rdi = p /\ R1.r10 = y /\ R1.r11 = x
         /\ KeepsBut(regs, R1, {"r10", "r11", "rdi"})
    BY <1>2, <1>8, RegisterNames DEF KeepsBut
  <1>17. /\ Asm!get_r(R1).rax = p.r /\ Asm!get_g(R1).rax = p.g
         /\ Asm!get_b(R1).rax = p.b /\ Asm!get_a(R1).rax = p.a
    BY <1>16, AsmComponents
  <1>18. /\ Asm!Store(Asm!Put(output_img.data, R2.r14.at + R2.rbx, R2.rax))
         /\ regs' = [R2 EXCEPT !.rbx = @ + 1]
    <2>1. T3 = [tc EXCEPT !.rdi = (tr.rax * tc.rax * Asm!get_r(R1).rax) \div regs.r15,
                          !.rsi = (tr.rax * tc.rax * Asm!get_g(R1).rax) \div regs.r15,
                          !.rdx = (tr.rax * tc.rax * Asm!get_b(R1).rax) \div regs.r15,
                          !.rcx = Asm!get_a(R1).rax]
      BY <1>13, <1>17, Zenon
    <2> QED
      BY <1>9, <1>10, <1>11, <1>12, <1>14, <1>15, <2>1, Zenon DEF Asm!fade_turn
  <1>19. /\ DOMAIN T1 = Asm!Registers /\ T1.rdi = y /\ T1.rsi = h
         /\ KeepsBut(regs, T1, {"r10", "r11", "rdi", "rsi"}) /\ T1.r11 = x /\ T1.r8 = w
    <2>1. R1.r9 = h /\ R1.r8 = w
      BY <1>2, <1>6, <1>16, RegisterNames DEF KeepsBut, FadeRegisters
    <2> QED
      BY <1>9, <1>16, <2>1, RegisterNames DEF KeepsBut
  <1>20. tr.rax = gradient(y, h) /\ KeepsBut(T1, tr, {"rax", "rdi", "rdx", "rcx"})
    BY <1>10, <1>19, AsmGradient
  <1>21. /\ DOMAIN T2 = Asm!Registers /\ T2.rdi = x /\ T2.rsi = w
         /\ KeepsBut(regs, T2, {"r10", "r11", "rdi", "rsi", "rax", "rdx", "rcx"})
    BY <1>11, <1>19, <1>20, RegisterNames DEF KeepsBut
  <1>22. tc.rax = gradient(x, w) /\ KeepsBut(T2, tc, {"rax", "rdi", "rdx", "rcx"})
    BY <1>12, <1>21, AsmGradient
  <1>23. regs.r15 = Square(Square(Unit))
    <2>1. PICK u \in Nat : u = Unit
      BY ImagesAssumption
    <2>2. u * u * u * u = (u * u) * (u * u)
      OBVIOUS
    <2> QED
      BY <1>2, <2>1, <2>2 DEF FadeRegisters, Square
  <1>24. /\ DOMAIN T3 = Asm!Registers
         /\ T3.rdi = (gradient(y, h) * gradient(x, w) * p.r) \div Square(Square(Unit))
         /\ T3.rsi = (gradient(y, h) * gradient(x, w) * p.g) \div Square(Square(Unit))
         /\ T3.rdx = (gradient(y, h) * gradient(x, w) * p.b) \div Square(Square(Unit))
         /\ T3.rcx = p.a
         /\ KeepsBut(regs, T3, {"r10", "r11", "rdi", "rsi", "rax", "rdx", "rcx"})
    <2>1. DOMAIN tc = Asm!Registers
      BY <1>22 DEF KeepsBut
    <2>2. KeepsBut(regs, tc, {"r10", "r11", "rdi", "rsi", "rax", "rdx", "rcx"})
      BY <1>21, <1>22 DEF KeepsBut
    <2>3. KeepsBut(tc, T3, {"rdi", "rsi", "rdx", "rcx"}) /\ DOMAIN T3 = Asm!Registers
      BY <1>13, <2>1, RegisterNames, Zenon DEF KeepsBut
    <2>4. KeepsBut(regs, T3, {"r10", "r11", "rdi", "rsi", "rax", "rdx", "rcx"})
      BY <2>2, <2>3 DEF KeepsBut
    <2>5. /\ T3.rdi = (tr.rax * tc.rax * p.r) \div regs.r15
          /\ T3.rsi = (tr.rax * tc.rax * p.g) \div regs.r15
          /\ T3.rdx = (tr.rax * tc.rax * p.b) \div regs.r15
          /\ T3.rcx = p.a
      BY <1>13, <2>1, RegisterNames, Zenon
    <2> QED
      BY <1>20, <1>22, <1>23, <2>3, <2>4, <2>5, Zenon
  <1>25. R2.rax = fade(input_img, t) /\ KeepsBut(T3, R2, {"rax", "rdi", "rsi", "rdx"})
    <2>1. /\ R2.rax = make_pixel(T3.rdi, T3.rsi, T3.rdx, T3.rcx)
          /\ KeepsBut(T3, R2, {"rax", "rdi", "rsi", "rdx"})
      BY <1>14, <1>24, AsmMakePixel
    <2>2. fade(input_img, t) = make_pixel(T3.rdi, T3.rsi, T3.rdx, T3.rcx)
      BY <1>6, <1>7, <1>24, Zenon DEF fade
    <2> QED
      BY <2>1, <2>2
  <1>26. KeepsBut(regs, R2, {"r10", "r11", "rdi", "rsi", "rax", "rdx", "rcx"})
    BY <1>24, <1>25 DEF KeepsBut
  <1>27. /\ DOMAIN regs' = Asm!Registers /\ regs'.rbx = t + 1 /\ regs'.r8 = regs.r8
         /\ regs'.r9 = regs.r9 /\ regs'.r12 = regs.r12 /\ regs'.r13 = regs.r13
         /\ regs'.r14 = regs.r14 /\ regs'.r15 = regs.r15
         /\ R2.r14.at + R2.rbx = t
    <2>1. /\ R2.r8 = regs.r8 /\ R2.r9 = regs.r9 /\ R2.r12 = regs.r12 /\ R2.r13 = regs.r13
          /\ R2.r14 = regs.r14 /\ R2.r15 = regs.r15 /\ R2.rbx = t /\ DOMAIN R2 = Asm!Registers
      BY <1>4, <1>26, RegisterNames DEF KeepsBut
    <2>2. R2.r14.at = 0
      BY <1>2, <2>1 DEF FadeRegisters, Asm!PixelAt
    <2> QED
      BY <1>5, <1>18, <2>1, <2>2, RegisterNames
  <1>28. RegistersOK'
    <2>1. t + 1 \in 0..Area(input_img)
      BY <1>5
    <2>2. FadeRegisters(regs', input_img)
      BY <1>2, <1>27, <2>1 DEF FadeRegisters
    <2> QED
      BY <1>1, <1>27, <2>2 DEF RegistersOK
  <1>29. StackOK'
    <2>1. Holds(0, "rbp") /\ rsp = -104 /\ DOMAIN kept = Asm!CalleeSaved
      BY <1>1 DEF Ready, StackOK
    <2>2. Holds(0, "rbp")'
      <3> DEFINE locals == {<<-4, 4>>, <<-8, 4>>, <<-12, 4>>, <<-16, 4>>, <<-20, 4>>,
                            <<-32, 8>>, <<-40, 4>>, <<-44, 4>>, <<-48, 4>>, <<-56, 8>>}
      <3>1. \A l \in locals : l[1] >= 0 + 8 \/ 0 >= l[1] + l[2]
        OBVIOUS
      <3> QED
        BY <1>1, <2>1, <3>1, SlotIntact DEF Holds
    <2> QED
      BY <1>1, <2>1, <2>2 DEF StackOK
  <1>30. Asm!Turns' = t + 1
    BY <1>1, <1>27, TurnsDoneAfter DEF Ready
  <1>31. output_img' = [output_img EXCEPT !.data = DataAfter(t)]
    <2>1. DataAfter(t) = Asm!Put(output_img.data, t, R2.rax)
      BY <1>1, <1>25 DEF DataAfter, OutputPixel, Put, Asm!Put
    <2> QED
      BY <1>18, <1>27, <2>1 DEF Asm!Store
  <1>32. t < Area(input_img)
    BY <1>5
  <1> QED
    BY <1>1, <1>3, <1>4, <1>28, <1>29, <1>30, <1>31, <1>32 DEF Draws

\* compute_index for the output, with the row in rdx and the column in rsi.
LEMMA AsmIndexIn ==
  ASSUME NEW R, DOMAIN R = Asm!Registers, NEW image, NEW x, NEW y,
         NEW S, S = Asm!IndexIn(R, image, x, y)
  PROVE  /\ S.rax = y * Asm!Struct(image).width + x /\ S.rdx = y
         /\ KeepsBut(R, S, {"rax", "rdi", "rsi", "rdx"})
  <1>1. PICK T : T = [R EXCEPT !.rdi = image, !.rsi = x, !.rdx = y]
    OBVIOUS
  <1>2. /\ DOMAIN T = Asm!Registers /\ T.rdi = image /\ T.rsi = x /\ T.rdx = y
        /\ KeepsBut(R, T, {"rdi", "rsi", "rdx"})
    BY <1>1, RegisterNames DEF KeepsBut
  <1>3. S = Asm!compute_index(T)
    BY <1>1, Zenon DEF Asm!IndexIn
  <1>4. S.rax = T.rdx * Asm!Struct(T.rdi).width + T.rsi /\ KeepsBut(T, S, {"rax"})
    BY <1>2, <1>3, AsmIndex
  <1>5. S.rdx = T.rdx
    BY <1>4, RegisterNames DEF KeepsBut
  <1>6. KeepsBut(R, S, {"rax", "rdi", "rsi", "rdx"})
    BY <1>2, <1>4 DEF KeepsBut
  <1> QED
    BY <1>2, <1>4, <1>5, <1>6, Zenon

\* make_pixel after the loads of the components that a quadrant keeps.
LEMMA AsmColored ==
  ASSUME NEW R, DOMAIN R = Asm!Registers, NEW x, NEW y, NEW z,
         NEW S, S = Asm!Colored(R, x, y, z)
  PROVE  /\ S.rax = make_pixel(x, y, z, Asm!get_a(Asm!PixelLoaded).rax)
         /\ KeepsBut(R, S, {"rax", "rdi", "rsi", "rdx", "rcx"})
  <1>1. PICK v : v = Asm!get_a(Asm!PixelLoaded).rax
    OBVIOUS
  <1>2. PICK T : T = [R EXCEPT !.rdi = x, !.rsi = y, !.rdx = z, !.rcx = v]
    OBVIOUS
  <1>3. /\ DOMAIN T = Asm!Registers /\ T.rdi = x /\ T.rsi = y /\ T.rdx = z /\ T.rcx = v
        /\ KeepsBut(R, T, {"rdi", "rsi", "rdx", "rcx"})
    BY <1>2, RegisterNames DEF KeepsBut
  <1>4. S = Asm!make_pixel(T)
    BY <1>1, <1>2, Zenon DEF Asm!Colored
  <1>5. S.rax = make_pixel(T.rdi, T.rsi, T.rdx, T.rcx)
        /\ KeepsBut(T, S, {"rax", "rdi", "rsi", "rdx"})
    BY <1>3, <1>4, AsmMakePixel
  <1>6. KeepsBut(R, S, {"rax", "rdi", "rsi", "rdx", "rcx"})
    BY <1>3, <1>5 DEF KeepsBut
  <1> QED
    BY <1>1, <1>3, <1>5, <1>6, Zenon

\* The registers that the calls of a turn of imgproc_rgb change.
Scratch == {"rax", "rbx", "rcx", "rdx", "rdi", "rsi"}

\* Registers that two calls in a row keep.
LEMMA KeptByBoth ==
  ASSUME NEW R, NEW S, NEW T, NEW names, KeepsBut(R, S, Scratch), KeepsBut(S, T, names),
         names \subseteq Scratch
  PROVE  KeepsBut(R, T, Scratch)
  BY DEF KeepsBut

\* The pixel, and its copies in one color.
LEMMA RgbPixels ==
  ASSUME DOMAIN regs = Asm!Registers, regs.r14 = "input",
         NEW p, p = input_img.data[regs.r12 * input_img.width + regs.r13]
  PROVE  /\ Asm!PixelFound.rax = regs.r12 * input_img.width + regs.r13
         /\ Asm!PixelLoaded.rbx = p
         /\ Asm!Red.rax = make_pixel(p.r, 0, 0, p.a)
         /\ Asm!Green.rax = make_pixel(0, p.g, 0, p.a)
         /\ Asm!Blue.rax = make_pixel(0, 0, p.b, p.a)
         /\ KeepsBut(regs, Asm!Blue, Scratch)
  <1>1. PICK F, L, R, G, B : /\ F = Asm!PixelFound /\ L = Asm!PixelLoaded /\ R = Asm!Red
                             /\ G = Asm!Green /\ B = Asm!Blue
    OBVIOUS
  <1>2. F = Asm!IndexIn(regs, regs.r14, regs.r13, regs.r12)
    BY <1>1, Zenon DEF Asm!PixelFound
  <1>3. /\ F.rax = regs.r12 * input_img.width + regs.r13
        /\ KeepsBut(regs, F, {"rax", "rdi", "rsi", "rdx"})
    BY <1>2, AsmIndexIn, AsmStruct
  <1>4. L = [F EXCEPT !.rbx = p, !.rdi = p]
    BY <1>1, <1>3, Zenon DEF Asm!PixelLoaded
  <1>5. /\ DOMAIN L = Asm!Registers /\ L.rbx = p /\ L.rdi = p /\ KeepsBut(regs, L, Scratch)
    BY <1>3, <1>4, RegisterNames DEF KeepsBut, Scratch
  <1>6. /\ Asm!get_r(L).rax = p.r /\ Asm!get_g(L).rax = p.g
        /\ Asm!get_b(L).rax = p.b /\ Asm!get_a(L).rax = p.a
    BY <1>5, AsmComponents
  <1>7. /\ R = Asm!Colored(L, p.r, 0, 0) /\ G = Asm!Colored(R, 0, p.g, 0)
        /\ B = Asm!Colored(G, 0, 0, p.b) /\ Asm!get_a(Asm!PixelLoaded).rax = p.a
    BY <1>1, <1>6, Zenon DEF Asm!Red, Asm!Green, Asm!Blue
  <1> DEFINE names == {"rax", "rdi", "rsi", "rdx", "rcx"}
  <1>8. names \subseteq Scratch
    BY DEF Scratch
  <1>9. R.rax = make_pixel(p.r, 0, 0, p.a) /\ KeepsBut(L, R, names)
    <2>1. R = Asm!Colored(L, p.r, 0, 0) /\ DOMAIN L = Asm!Registers
      BY <1>5, <1>7
    <2>2. R.rax = make_pixel(p.r, 0, 0, Asm!get_a(Asm!PixelLoaded).rax)
          /\ KeepsBut(L, R, names)
      BY <2>1, AsmColored
    <2> QED
      BY <1>7, <2>2, Zenon
  <1>10. DOMAIN R = Asm!Registers /\ KeepsBut(regs, R, Scratch)
    BY <1>5, <1>8, <1>9, KeptByBoth DEF KeepsBut
  <1>11. G.rax = make_pixel(0, p.g, 0, p.a) /\ KeepsBut(R, G, names)
    <2>1. G = Asm!Colored(R, 0, p.g, 0) /\ DOMAIN R = Asm!Registers
      BY <1>7, <1>10
    <2>2. G.rax = make_pixel(0, p.g, 0, Asm!get_a(Asm!PixelLoaded).rax)
          /\ KeepsBut(R, G, names)
      BY <2>1, AsmColored
    <2> QED
      BY <1>7, <2>2, Zenon
  <1>12. DOMAIN G = Asm!Registers /\ KeepsBut(regs, G, Scratch)
    BY <1>8, <1>10, <1>11, KeptByBoth DEF KeepsBut
  <1>13. B.rax = make_pixel(0, 0, p.b, p.a) /\ KeepsBut(G, B, names)
    <2>1. B = Asm!Colored(G, 0, 0, p.b) /\ DOMAIN G = Asm!Registers
      BY <1>7, <1>12
    <2>2. B.rax = make_pixel(0, 0, p.b, Asm!get_a(Asm!PixelLoaded).rax)
          /\ KeepsBut(G, B, names)
      BY <2>1, AsmColored
    <2> QED
      BY <1>7, <2>2, Zenon
  <1>14. KeepsBut(regs, B, Scratch)
    BY <1>8, <1>12, <1>13, KeptByBoth
  <1> QED
    BY <1>1, <1>3, <1>5, <1>9, <1>11, <1>13, <1>14, Zenon

\* Where they go.
LEMMA RgbQuadrants ==
  ASSUME DOMAIN regs = Asm!Registers, regs.r15 = "output",
         KeepsBut(regs, Asm!Blue, Scratch),
         NEW W, W = output_img.width
  PROVE  /\ Asm!QuadrantA.rax = regs.r12 * W + regs.r13
         /\ Asm!QuadrantB.rax = regs.r12 * W + (regs.r13 + regs.r8)
         /\ Asm!QuadrantC.rax = (regs.r12 + regs.r9) * W + regs.r13
         /\ Asm!QuadrantD.rax = (regs.r12 + regs.r9) * W + (regs.r13 + regs.r8)
         /\ KeepsBut(regs, Asm!QuadrantD, Scratch)
  <1>1. PICK Z, A, B, C, D : /\ Z = Asm!Blue /\ A = Asm!QuadrantA /\ B = Asm!QuadrantB
                             /\ C = Asm!QuadrantC /\ D = Asm!QuadrantD
    OBVIOUS
  <1> DEFINE names == {"rax", "rdi", "rsi", "rdx"}
  <1>2. names \subseteq Scratch /\ {"rax"} \subseteq Scratch /\ {"rdi", "rsi"} \subseteq Scratch
    BY DEF Scratch
  <1>3. /\ A = Asm!IndexIn(Z, regs.r15, regs.r13, regs.r12)
        /\ DOMAIN Z = Asm!Registers /\ KeepsBut(regs, Z, Scratch)
    BY <1>1 DEF Asm!QuadrantA, KeepsBut
  <1>4. A.rax = regs.r12 * W + regs.r13 /\ A.rdx = regs.r12 /\ KeepsBut(Z, A, names)
    BY <1>3, AsmIndexIn, AsmStruct
  <1>5. DOMAIN A = Asm!Registers /\ KeepsBut(regs, A, Scratch)
    BY <1>2, <1>3, <1>4, KeptByBoth DEF KeepsBut
  <1>6. A.r8 = regs.r8
    BY <1>5, RegisterNames DEF KeepsBut, Scratch
  <1>7. PICK T : T = [A EXCEPT !.rdi = regs.r15, !.rsi = regs.r13 + regs.r8]
    OBVIOUS
  <1>8. B = Asm!compute_index(T)
    BY <1>1, <1>6, <1>7, Zenon DEF Asm!QuadrantB
  <1>9. /\ DOMAIN T = Asm!Registers /\ T.rdi = "output" /\ T.rsi = regs.r13 + regs.r8
        /\ T.rdx = regs.r12 /\ KeepsBut(A, T, {"rdi", "rsi"})
    BY <1>4, <1>5, <1>7, RegisterNames DEF KeepsBut
  <1>10. B.rax = regs.r12 * W + (regs.r13 + regs.r8) /\ KeepsBut(T, B, {"rax"})
    BY <1>8, <1>9, AsmIndex, AsmStruct
  <1>11. DOMAIN B = Asm!Registers /\ KeepsBut(regs, B, Scratch)
    BY <1>2, <1>5, <1>9, <1>10, KeptByBoth DEF KeepsBut
  <1>12. B.r9 = regs.r9
    BY <1>11, RegisterNames DEF KeepsBut, Scratch
  <1>13. C = Asm!IndexIn(B, regs.r15, regs.r13, regs.r12 + regs.r9)
    BY <1>1, <1>12, Zenon DEF Asm!QuadrantC
  <1>14. C.rax = (regs.r12 + regs.r9) * W + regs.r13 /\ KeepsBut(B, C, names)
    BY <1>11, <1>13, AsmIndexIn, AsmStruct
  <1>15. DOMAIN C = Asm!Registers /\ KeepsBut(regs, C, Scratch)
    BY <1>2, <1>11, <1>14, KeptByBoth DEF KeepsBut
  <1>16. C.r8 = regs.r8 /\ C.r9 = regs.r9
    BY <1>15, RegisterNames DEF KeepsBut, Scratch
  <1>17. D = Asm!IndexIn(C, regs.r15, regs.r13 + regs.r8, regs.r12 + regs.r9)
    BY <1>1, <1>16, Zenon DEF Asm!QuadrantD
  <1>18. D.rax = (regs.r12 + regs.r9) * W + (regs.r13 + regs.r8) /\ KeepsBut(C, D, names)
    BY <1>15, <1>17, AsmIndexIn, AsmStruct
  <1>19. KeepsBut(regs, D, Scratch)
    BY <1>2, <1>15, <1>18, KeptByBoth
  <1> QED
    BY <1>1, <1>4, <1>10, <1>14, <1>18, <1>19, Zenon

\* The pixel after this one, and the turns that are done then.
LEMMA NextPlace ==
  ASSUME NEW w \in Nat, NEW h \in Nat, NEW x \in 0..w - 1, NEW y \in 0..h - 1
  PROVE  /\ x + 1 >= w /\ y + 1 < h => (y + 1) * w + 0 = y * w + x + 1
         /\ x + 1 >= w /\ y + 1 >= h => w * h = y * w + x + 1
         /\ y * w + (x + 1) = y * w + x + 1
  <1>1. (y + 1) * w = y * w + w /\ y * w \in Nat
    OBVIOUS
  <1>2. x + 1 >= w => x + 1 = w
    OBVIOUS
  <1>3. y + 1 >= h => y + 1 = h
    OBVIOUS
  <1>4. y + 1 = h => w * h = (y + 1) * w
    OBVIOUS
  <1>5. PICK a \in Nat, b \in Nat : a = y * w /\ b = w * h
    BY <1>1
  <1>6. /\ x + 1 >= w => (y + 1) * w = a + x + 1
        /\ y + 1 >= h => b = (y + 1) * w
    BY <1>1, <1>2, <1>3, <1>4, <1>5
  <1>7. a + (x + 1) = a + x + 1 /\ (y + 1) * w + 0 = (y + 1) * w
    BY <1>5
  <1> QED
    BY <1>5, <1>6, <1>7

\* A loop that has another pixel to do is over an image with both sides.
LEMMA PositiveSides ==
  ASSUME Area(input_img) > 0, NEW w \in Nat, w = input_img.width,
         NEW h \in Nat, h = input_img.height
  PROVE  w > 0 /\ h > 0 /\ Area(input_img) # 0
  <1>1. w = 0 => w * h = 0
    OBVIOUS
  <1>2. h = 0 => w * h = 0
    OBVIOUS
  <1>3. w * h > 0
    BY DEF Area
  <1>4. PICK a \in Nat : a = w * h
    OBVIOUS
  <1> QED
    BY <1>1, <1>2, <1>3, <1>4 DEF Area

\* A turn of imgproc_rgb, when there is a pixel: the registers and the output.
LEMMA RgbStore ==
  ASSUME Ready, Asm!rgb_turn, Area(input_img) > 0,
         NEW t, t = regs.r12 * input_img.width + regs.r13, t \in 0..(Area(input_img) - 1),
         RgbRegisters(regs, input_img)
  PROVE  /\ DOMAIN regs' = Asm!Registers
         /\ regs'.r8 = regs.r8 /\ regs'.r9 = regs.r9
         /\ regs'.r14 = regs.r14 /\ regs'.r15 = regs.r15
         /\ LET row_ends == regs.r13 + 1 >= regs.r8
                next_row == row_ends /\ regs.r12 + 1 < regs.r9
            IN  /\ regs'.r12 = (IF row_ends THEN regs.r12 + 1 ELSE regs.r12)
                /\ regs'.r13 = (IF next_row THEN 0 ELSE regs.r13 + 1)
         /\ UNCHANGED pc
         /\ output_img' = [output_img EXCEPT !.data = replicas(input_img, output_img, t)]
         /\ frame' = Asm!Overwritten({<<-4 * k, 4>> : k \in 1..7})
         /\ kept' = Asm!Clobbered({"rbx"})
  <1>1. PICK p, W : p = input_img.data[t] /\ W = output_img.width
    OBVIOUS
  <1>2. PICK F, L, R, G, B : /\ F = Asm!PixelFound /\ L = Asm!PixelLoaded /\ R = Asm!Red
                             /\ G = Asm!Green /\ B = Asm!Blue
    OBVIOUS
  <1>3. PICK qa, qb, qc, D : /\ qa = Asm!QuadrantA.rax /\ qb = Asm!QuadrantB.rax
                             /\ qc = Asm!QuadrantC.rax /\ D = Asm!QuadrantD
    OBVIOUS
  <1>4. /\ DOMAIN regs = Asm!Registers /\ regs.r14 = "input" /\ regs.r15 = "output"
        /\ regs.r8 = input_img.width /\ regs.r9 = input_img.height
    BY DEF Ready, RegistersOK, RgbRegisters
  <1>5. /\ F.rax = t /\ L.rbx = p
        /\ R.rax = make_pixel(p.r, 0, 0, p.a)
        /\ G.rax = make_pixel(0, p.g, 0, p.a)
        /\ B.rax = make_pixel(0, 0, p.b, p.a)
        /\ KeepsBut(regs, Asm!Blue, Scratch)
    BY <1>1, <1>2, <1>4, RgbPixels
  <1>6. /\ qa = regs.r12 * W + regs.r13
        /\ qb = regs.r12 * W + (regs.r13 + regs.r8)
        /\ qc = (regs.r12 + regs.r9) * W + regs.r13
        /\ D.rax = (regs.r12 + regs.r9) * W + (regs.r13 + regs.r8)
        /\ KeepsBut(regs, D, Scratch)
    BY <1>1, <1>3, <1>4, <1>5, RgbQuadrants
  <1>7. /\ DOMAIN D = Asm!Registers /\ D.r8 = regs.r8 /\ D.r9 = regs.r9
        /\ D.r12 = regs.r12 /\ D.r13 = regs.r13 /\ D.r14 = regs.r14 /\ D.r15 = regs.r15
    BY <1>6, RegisterNames DEF KeepsBut, Scratch
  <1> DEFINE row_ends == regs.r13 + 1 >= D.r8
             next_row == row_ends /\ regs.r12 + 1 < D.r9
             data2 == Asm!Put(Asm!Put(Asm!Put(Asm!Put(output_img.data, qa, L.rbx),
                                              qb, R.rax), qc, G.rax), D.rax, B.rax)
  <1>8. /\ Asm!Store(data2)
        /\ regs' = [D EXCEPT !.rdx = B.rax, !.rcx = Asm!PixelAt("output", 0),
                              !.r12 = IF row_ends THEN @ + 1 ELSE @,
                              !.r13 = IF next_row THEN 0 ELSE @ + 1]
        /\ kept' = Asm!Clobbered({"rbx"})
        /\ frame' = Asm!Overwritten({<<-4 * k, 4>> : k \in 1..7})
        /\ UNCHANGED pc
    <2>1. F.rax \in DOMAIN input_img.data
      BY <1>5, PixelOfInput DEF Ready
    <2> QED
      BY <1>2, <1>3, <2>1, Zenon DEF Asm!rgb_turn
  <1>9. /\ DOMAIN regs' = Asm!Registers
        /\ regs'.r8 = regs.r8 /\ regs'.r9 = regs.r9
        /\ regs'.r14 = regs.r14 /\ regs'.r15 = regs.r15
        /\ regs'.r12 = (IF row_ends THEN regs.r12 + 1 ELSE regs.r12)
        /\ regs'.r13 = (IF next_row THEN 0 ELSE regs.r13 + 1)
    <2> HIDE DEF row_ends, next_row
    <2> QED
      BY <1>7, <1>8, RegisterNames
  <1>10. data2 = replicas(input_img, output_img, t)
    <2>1. PICK w, h, y, x : w = input_img.width /\ h = input_img.height
                            /\ y = regs.r12 /\ x = regs.r13
      OBVIOUS
    <2>2. w \in Nat /\ h \in Nat /\ x \in 0..w - 1 /\ y \in 0..h - 1
      <3>1. w \in Nat /\ h \in Nat /\ x \in Nat /\ y \in Nat
        BY <2>1 DEF Ready, ImageOK, RgbRegisters
      <3>2. y < h /\ x < w
        <4>1. ~ (y >= h /\ x > 0)
          BY <1>4, <2>1 DEF Asm!rgb_turn, Asm!RgbDone
        <4>2. (y < h /\ x < w) \/ (y = h /\ x = w)
          BY <2>1, <3>1, PositiveSides DEF RgbRegisters
        <4>3. w > 0
          BY <2>1, <3>1, PositiveSides
        <4> QED
          BY <3>1, <4>1, <4>2, <4>3
      <3> QED
        BY <3>1, <3>2
    <2>3. t \div w = y /\ t % w = x
      <3>1. t = y * w + x
        BY <2>1
      <3> QED
        <4>1. (y * w + x) \div w = y /\ (y * w + x) % w = x
          BY <2>2, PlaceOf
        <4> QED
          BY <3>1, <4>1, Zenon
    <2>4. PICK u : u = y * w + x /\ input_img.data[u] = p
      BY <1>1, <2>1
    <2> DEFINE A2 == Put(output_img.data, y * W + x, p)
               B2 == Put(A2, y * W + (x + w), make_pixel(p.r, 0, 0, p.a))
               C2 == Put(B2, (y + h) * W + x, make_pixel(0, p.g, 0, p.a))
    <2>5. replicas(input_img, output_img, t)
          = Put(C2, (y + h) * W + (x + w), make_pixel(0, 0, p.b, p.a))
      BY <1>1, <2>1, <2>3, <2>4, Zenon DEF replicas, compute_index
    <2>6. \A data, k, q : Asm!Put(data, k, q) = Put(data, k, q)
      BY DEF Asm!Put, Put
    <2>7. /\ qa = y * W + x /\ qb = y * W + (x + w) /\ qc = (y + h) * W + x
          /\ D.rax = (y + h) * W + (x + w)
      BY <1>4, <1>6, <2>1, Zenon
    <2> QED
      BY <1>5, <2>5, <2>6, <2>7, Zenon
  <1> QED
    BY <1>7, <1>8, <1>9, <1>10, Zenon DEF Asm!Store

\* A turn of imgproc_rgb: its four quadrants are replicas, although quadrant B
\* takes its row from a register a helper has left.
LEMMA RgbTurn ==
  ASSUME Ready, Asm!rgb_turn
  PROVE  /\ RegistersOK' /\ StackOK'
         /\ \/ Draws(Asm!Turns, Asm!Turns')
            \/ /\ pc' = "undefined" /\ Area(input_img) = 0
               /\ UNCHANGED <<fn, input_img, output_img>>
  <1>1. /\ fn = "rgb" /\ pc = "loop" /\ ~ Asm!RgbDone /\ UNCHANGED <<fn, input_img, rsp>>
    BY DEF Asm!rgb_turn, Asm!InLoop
  <1>2. RgbRegisters(regs, input_img) /\ DOMAIN regs = Asm!Registers
    BY <1>1 DEF Ready, RegistersOK
  <1>3. PICK w \in Nat, h \in Nat : w = input_img.width /\ h = input_img.height
    BY DEF Ready, ImageOK
  <1>4. PICK y \in Nat, x \in Nat : y = regs.r12 /\ x = regs.r13
    BY <1>2 DEF RgbRegisters
  <1>5. DOMAIN kept = Asm!CalleeSaved
    BY DEF Ready, StackOK
  <1>6. CASE Area(input_img) = 0
    <2>1. DOMAIN input_img.data = {}
      <3>1. 0..(0 - 1) = {}
        OBVIOUS
      <3> QED
        BY <1>6, <3>1, PixelOfInput DEF Ready
    <2>2. pc' = "undefined" /\ UNCHANGED <<output_img, regs, frame, kept>>
      <3>1. Asm!PixelFound.rax \notin DOMAIN input_img.data
        BY <2>1
      <3> QED
        BY <3>1, Zenon DEF Asm!rgb_turn
    <2> QED
      BY <1>1, <1>2, <1>5, <1>6, <2>2 DEF RegistersOK, StackOK
  <1>7. CASE Area(input_img) # 0
    <2>1. Area(input_img) > 0 /\ Area(input_img) \in Nat
      <3>1. PICK a \in Nat : a = Area(input_img)
        BY AreaNat DEF Ready
      <3> QED
        BY <1>7, <3>1
    <2>2. w > 0 /\ h > 0
      BY <1>3, <2>1, PositiveSides
    <2>3. y \in 0..h - 1 /\ x \in 0..w - 1
      <3>1. (y < h /\ x < w) \/ (y = h /\ x = w)
        BY <1>2, <1>3, <1>4, <1>7 DEF RgbRegisters
      <3>2. ~ (y >= h /\ x > 0)
        BY <1>1, <1>2, <1>3, <1>4 DEF Asm!RgbDone, RgbRegisters
      <3> QED
        BY <2>2, <3>1, <3>2
    <2>4. PICK t : t = y * w + x
      OBVIOUS
    <2>5. Asm!Turns = t
      BY <1>1, <1>2, <1>3, <1>4, <2>4, TurnsDone DEF Ready, RgbRegisters
    <2>6. t \in 0..(Area(input_img) - 1)
      <3>1. t \in 0..(h * w - 1)
        BY <2>3, <2>4, PlaceOf
      <3>2. h * w = w * h
        OBVIOUS
      <3> QED
        BY <1>3, <3>1, <3>2 DEF Area
    <2> DEFINE row_ends == x + 1 >= w
               next_row == row_ends /\ y + 1 < h
    <2>7. /\ DOMAIN regs' = Asm!Registers
          /\ regs'.r8 = w /\ regs'.r9 = h
          /\ regs'.r14 = "input" /\ regs'.r15 = "output"
          /\ regs'.r12 = (IF row_ends THEN y + 1 ELSE y)
          /\ regs'.r13 = (IF next_row THEN 0 ELSE x + 1)
          /\ UNCHANGED pc
          /\ output_img' = [output_img EXCEPT !.data = replicas(input_img, output_img, t)]
          /\ frame' = Asm!Overwritten({<<-4 * k, 4>> : k \in 1..7})
          /\ kept' = Asm!Clobbered({"rbx"})
      <3>1. t = regs.r12 * input_img.width + regs.r13
        BY <1>3, <1>4, <2>4
      <3>2. /\ regs.r8 = w /\ regs.r9 = h /\ regs.r14 = "input" /\ regs.r15 = "output"
        BY <1>2, <1>3 DEF RgbRegisters
      <3> HIDE DEF row_ends, next_row
      <3>3. /\ row_ends <=> regs.r13 + 1 >= regs.r8
            /\ next_row <=> row_ends /\ regs.r12 + 1 < regs.r9
        BY <1>4, <3>2 DEF row_ends, next_row
      <3> QED
        BY <1>2, <1>4, <2>1, <2>6, <3>1, <3>2, <3>3, RgbStore
    <2>8. /\ x + 1 >= w /\ y + 1 < h => (y + 1) * w + 0 = t + 1
          /\ x + 1 >= w /\ y + 1 >= h => Area(input_img) = t + 1
          /\ y * w + (x + 1) = t + 1
      <3>1. /\ x + 1 >= w /\ y + 1 < h => (y + 1) * w + 0 = y * w + x + 1
            /\ x + 1 >= w /\ y + 1 >= h => w * h = y * w + x + 1
            /\ y * w + (x + 1) = y * w + x + 1
        BY <1>3, <2>3, NextPlace
      <3>2. Area(input_img) = w * h
        BY <1>3 DEF Area
      <3> QED
        BY <2>4, <3>1, <3>2, Zenon
    <2>9. /\ Asm!RgbDone' <=> row_ends /\ ~ next_row
          /\ \/ regs'.r12 \in 0..h - 1 /\ regs'.r13 \in 0..w - 1
             \/ regs'.r12 = h /\ regs'.r13 = w
          /\ regs'.r12 \in Nat /\ regs'.r13 \in Nat
      BY <2>2, <2>3, <2>7 DEF Asm!RgbDone
    <2>10. Asm!Turns' = t + 1
      <3>1. Asm!Turns' = IF Asm!RgbDone' THEN Area(input_img) ELSE regs'.r12 * w + regs'.r13
        BY <1>1, <2>7, TurnsDoneAfter DEF Ready
      <3>2. CASE row_ends /\ ~ next_row
        BY <2>3, <2>8, <2>9, <3>1, <3>2
      <3>3. CASE next_row
        BY <2>7, <2>8, <2>9, <3>1, <3>3
      <3>4. CASE ~ row_ends
        BY <2>7, <2>8, <2>9, <3>1, <3>4
      <3> QED
        BY <3>2, <3>3, <3>4
    <2>11. RegistersOK'
      <3>1. RgbRegisters(regs', input_img)
        BY <1>3, <1>7, <2>7, <2>9 DEF RgbRegisters
      <3> QED
        BY <1>1, <2>7, <3>1 DEF RegistersOK
    <2>12. StackOK'
      <3>1. /\ rsp = -96 /\ Holds(0, "rbp") /\ Holds(-72, "r12") /\ Holds(-80, "r13")
            /\ Holds(-88, "r14") /\ Holds(-96, "r15")
        BY <1>1 DEF Ready, StackOK
      <3> DEFINE locals == {<<-4 * k, 4>> : k \in 1..7}
      <3>2. \A l \in locals : l[1] \in -28..-4 /\ l[2] = 4
        OBVIOUS
      <3>3. \A o \in {0, -72, -80, -88, -96} : \A l \in locals :
              l[1] >= o + 8 \/ o >= l[1] + l[2]
        BY <3>2
      <3> HIDE DEF locals
      <3>4. frame' = Asm!Overwritten(locals)
        BY <2>7 DEF locals
      <3>5. /\ Holds(0, "rbp")' /\ Holds(-72, "r12")' /\ Holds(-80, "r13")'
            /\ Holds(-88, "r14")' /\ Holds(-96, "r15")'
        BY <3>1, <3>3, <3>4, SlotIntact DEF Holds
      <3> QED
        BY <1>1, <2>7, <3>1, <3>5, ClobberedNames DEF StackOK
    <2>13. t < Area(input_img)
      BY <2>1, <2>6
    <2>14. output_img' = [output_img EXCEPT !.data = DataAfter(t)]
      BY <1>1, <2>7 DEF DataAfter
    <2> QED
      BY <1>1, <2>5, <2>7, <2>10, <2>11, <2>12, <2>13, <2>14 DEF Draws
  <1> QED
    BY <1>6, <1>7

-----------------------------------------------------------------------------
(* The functions in assembly                                               *)

\* Every step of them is one of the functions in C, unless it goes through a
\* pixel of an image that has none.
LEMMA AsmSteps ==
  ASSUME Ready, Asm!Next
  PROVE  /\ RegistersOK' /\ StackOK'
         /\ \/ Enters(Asm!Turns, Asm!Turns') \/ Draws(Asm!Turns, Asm!Turns')
            \/ Returns(Asm!Turns, Asm!Turns')
            \/ /\ pc' = "undefined" /\ Area(input_img) = 0
               /\ UNCHANGED <<fn, input_img, output_img>>
  <1>1. \/ Asm!rgb_prologue \/ Asm!rgb_turn \/ Asm!rgb_epilogue
        \/ Asm!grayscale_entry \/ Asm!grayscale_turn \/ Asm!grayscale_return
        \/ Asm!fade_prologue \/ Asm!fade_turn \/ Asm!fade_epilogue
        \/ Asm!kaleidoscope_entry \/ Asm!kaleidoscope_turn \/ Asm!kaleidoscope_return
    BY DEF Asm!Next
  <1>2. CASE Asm!rgb_prologue \/ Asm!grayscale_entry \/ Asm!fade_prologue
             \/ Asm!kaleidoscope_entry
    BY <1>2, RgbPrologue, GrayscaleEntry, FadePrologue, KaleidoscopeEntry
  <1>3. CASE Asm!grayscale_turn \/ Asm!fade_turn \/ Asm!kaleidoscope_turn
    BY <1>3, GrayscaleTurn, FadeTurn, KaleidoscopeTurn
  <1>4. CASE Asm!rgb_turn
    BY <1>4, RgbTurn
  <1>5. CASE Asm!rgb_epilogue \/ Asm!grayscale_return \/ Asm!fade_epilogue
             \/ Asm!kaleidoscope_return
    BY <1>5, RgbEpilogue, GrayscaleReturn, FadeEpilogue, KaleidoscopeReturn
  <1> QED
    BY <1>1, <1>2, <1>3, <1>4, <1>5, Zenon

\* A step of the assembly keeps all of the invariant.
LEMMA AsmKeeps ==
  ASSUME Ready, Asm!Next
  PROVE  /\ UNCHANGED <<fn, input_img>> /\ fn' \in Functions /\ ImageOK(input_img')
         /\ RegistersOK' /\ StackOK'
         /\ PixelsAre(fn', input_img', output_img', pc', Asm!Turns')
         /\ pc' \in {"loop", "success", "failure", "undefined"}
         /\ Ready'
  <1>1. PICK t, t2 : t = Asm!Turns /\ t2 = Asm!Turns'
    OBVIOUS
  <1>2. PixelsAre(fn, input_img, output_img, pc, t) /\ fn \in Functions /\ ImageOK(input_img)
    BY <1>1 DEF Ready
  <1>3. CASE Enters(t, t2) \/ Draws(t, t2) \/ Returns(t, t2)
    <2>1. PixelsAre(fn', input_img', output_img', pc', t2)
      BY <1>2, <1>3, StepKeepsPixels
    <2>2. UNCHANGED <<fn, input_img>> /\ pc' \in {"loop", "success", "failure", "undefined"}
      BY <1>3 DEF Enters, Draws, Returns
    <2> QED
      BY <1>1, <1>2, <2>1, <2>2, AsmSteps DEF Ready
  <1>4. CASE /\ pc' = "undefined" /\ Area(input_img) = 0
             /\ UNCHANGED <<fn, input_img, output_img>>
    <2>1. PixelsAre(fn', input_img', output_img', pc', t2)
      BY <1>2, <1>4 DEF PixelsAre
    <2> QED
      BY <1>1, <1>2, <1>4, <2>1, AsmSteps DEF Ready
  <1> QED
    BY <1>1, <1>3, <1>4, AsmSteps

\* The functions in C that AsmImgProc compares with are those of ImgProc.
LEMMA SameOperators ==
  /\ Asm!C!Functions = Functions
  /\ \A data, k, p : Asm!C!Put(data, k, p) = Put(data, k, p)
  /\ \A p : Asm!C!to_grayscale(p) = to_grayscale(p)
  /\ \A img, k : Asm!C!fade(img, k) = fade(img, k)
  /\ \A w, k : Asm!C!in_idx(w, k) = in_idx(w, k)
  /\ \A img, out, k : Asm!C!replicas(img, out, k) = replicas(img, out, k)
  <1>1. \A data, k, p : Asm!C!Put(data, k, p) = Put(data, k, p)
    BY DEF Asm!C!Put, Put
  <1>2. \A r, g, b, a : Asm!C!make_pixel(r, g, b, a) = make_pixel(r, g, b, a)
    BY DEF Asm!C!make_pixel, make_pixel
  <1>3. \A x, m : Asm!C!gradient(x, m) = gradient(x, m)
    BY DEF Asm!C!gradient, gradient, Asm!C!Square, Square
  <1>4. \A p : Asm!C!to_grayscale(p) = to_grayscale(p)
    BY <1>2, Zenon DEF Asm!C!to_grayscale, to_grayscale
  <1>5. \A x : Asm!C!Square(x) = Square(x)
    BY DEF Asm!C!Square, Square
  <1>6. \A img, k : Asm!C!fade(img, k) = fade(img, k)
    BY <1>2, <1>3, <1>5, Zenon DEF Asm!C!fade, fade
  <1>7. \A x, w : Asm!C!Mirror(x, w) = Mirror(x, w)
    BY Zenon DEF Asm!C!Mirror, Mirror
  <1>8. \A w, k : Asm!C!in_idx(w, k) = in_idx(w, k)
    BY <1>7, ZenonT(60) DEF Asm!C!in_idx, in_idx, Asm!C!Min, Min, Asm!C!Max, Max
  <1>9. \A img, x, y : Asm!C!compute_index(img, x, y) = compute_index(img, x, y)
    BY Zenon DEF Asm!C!compute_index, compute_index
  <1>10. \A img, out, k : Asm!C!replicas(img, out, k) = replicas(img, out, k)
    <2> TAKE img, out, k
    <2> DEFINE y == k \div img.width
               x == k % img.width
               p == img.data[compute_index(img, x, y)]
               A == Put(out.data, compute_index(out, x, y), p)
               B == Put(A, compute_index(out, x + img.width, y), make_pixel(p.r, 0, 0, p.a))
               D == Put(B, compute_index(out, x, y + img.height), make_pixel(0, p.g, 0, p.a))
    <2>1. replicas(img, out, k)
          = Put(D, compute_index(out, x + img.width, y + img.height), make_pixel(0, 0, p.b, p.a))
      BY Zenon DEF replicas
    <2>2. Asm!C!replicas(img, out, k)
          = LET A2 == Asm!C!Put(out.data, compute_index(out, x, y), p)
                B2 == Asm!C!Put(A2, compute_index(out, x + img.width, y),
                                Asm!C!make_pixel(p.r, 0, 0, p.a))
                D2 == Asm!C!Put(B2, compute_index(out, x, y + img.height),
                                Asm!C!make_pixel(0, p.g, 0, p.a))
            IN  Asm!C!Put(D2, compute_index(out, x + img.width, y + img.height),
                          Asm!C!make_pixel(0, 0, p.b, p.a))
      BY <1>9, Zenon DEF Asm!C!replicas
    <2>3. \A data, n, q : Asm!C!Put(data, n, q) = Put(data, n, q)
      BY <1>1
    <2> QED
      BY <1>2, <2>1, <2>2, <2>3, Zenon
  <1>11. Asm!C!Functions = Functions
    BY DEF Asm!C!Functions, Functions
  <1> QED
    BY <1>1, <1>4, <1>6, <1>8, <1>10, <1>11, Zenon

\* Entering a function writes the dimensions, also of an image it refuses.
LEMMA AsmSizes ==
  ASSUME Ready, Asm!Next, pc = "call"
  PROVE  output_img' = [output_img EXCEPT !.width = (IF fn = "rgb" THEN 2 ELSE 1) * input_img.width,
                                          !.height = (IF fn = "rgb" THEN 2 ELSE 1) * input_img.height]
  <1>1. PICK k : k = IF fn = "rgb" THEN 2 ELSE 1
    OBVIOUS
  <1>2. \/ Asm!rgb_prologue \/ Asm!grayscale_entry \/ Asm!fade_prologue \/ Asm!kaleidoscope_entry
    BY DEF Asm!Next, Asm!rgb_turn, Asm!rgb_epilogue, Asm!grayscale_turn, Asm!grayscale_return,
           Asm!fade_turn, Asm!fade_epilogue, Asm!kaleidoscope_turn, Asm!kaleidoscope_return,
           Asm!InLoop
  <1>3. \/ fn = "rgb" /\ Asm!Enter("rgb", 2)
        \/ fn = "grayscale" /\ Asm!Enter("grayscale", 1)
        \/ fn = "fade" /\ Asm!Enter("fade", 1)
        \/ fn = "kaleidoscope" /\ Asm!Enter("kaleidoscope", 1)
    BY <1>2 DEF Asm!rgb_prologue, Asm!grayscale_entry, Asm!fade_prologue,
                Asm!kaleidoscope_entry, Asm!Enter
  <1> QED
    BY <1>3 DEF Asm!Enter

\* On an image that is not empty, a step of the assembly is one of the C program.
LEMMA AsmImplementsC ==
  ASSUME Ready, Asm!Next, Area(input_img) > 0,
         pc = "call" => output_img = create_output_img(input_img, fn)
  PROVE  Asm!C!Next
  <1>1. PICK t, t2 : t = Asm!Turns /\ t2 = Asm!Turns'
    OBVIOUS
  <1>2. Enters(t, t2) \/ Draws(t, t2) \/ Returns(t, t2)
    BY <1>1, AsmSteps
  <1>3. fn \in Functions /\ Area(input_img) = input_img.width * input_img.height
    BY DEF Ready, Area
  <1>4. CASE Enters(t, t2)
    <2>1. /\ pc = "call" /\ t2 = t /\ UNCHANGED <<fn, input_img>>
          /\ output_img = create_output_img(input_img, fn)
      BY <1>4 DEF Enters
    <2>2. PICK k : k = IF fn = "rgb" THEN 2 ELSE 1
      OBVIOUS
    <2>3. output_img' = [output_img EXCEPT !.width = k * input_img.width,
                                           !.height = k * input_img.height]
      BY <2>1, <2>2, AsmSizes
    <2>4. output_img' = output_img
      <3>1. output_img = [width |-> k * input_img.width, height |-> k * input_img.height,
                          data |-> << >>]
        BY <2>1, <2>2, Zenon DEF create_output_img
      <3>2. PICK a, b : a = k * input_img.width /\ b = k * input_img.height
        OBVIOUS
      <3>3. output_img = [width |-> a, height |-> b, data |-> << >>]
            /\ output_img' = [output_img EXCEPT !.width = a, !.height = b]
        BY <2>3, <3>1, <3>2, Zenon
      <3>4. output_img'.width = a /\ output_img'.height = b /\ output_img'.data = << >>
        BY <3>3
      <3>5. output_img' = [width |-> output_img'.width, height |-> output_img'.height,
                           data |-> output_img'.data]
        BY <1>4 DEF Enters
      <3> QED
        BY <3>3, <3>4, <3>5, Zenon
    <2>5. IF fn = "kaleidoscope" /\ input_img.width # input_img.height
          THEN pc' = "failure" ELSE pc' = "loop"
      BY <1>4 DEF Enters
    <2>6. Asm!C!Call
      BY <1>1, <2>1, <2>2, <2>3, <2>4, <2>5, Zenon DEF Asm!C!Call
    <2> QED
      BY <2>6 DEF Asm!C!Next
  <1>5. CASE Draws(t, t2)
    <2>1. /\ pc = "loop" /\ t < input_img.width * input_img.height /\ t2 = t + 1
          /\ output_img' = [output_img EXCEPT !.data = DataAfter(t)]
          /\ UNCHANGED <<fn, input_img, pc>>
      BY <1>3, <1>5 DEF Draws
    <2>2. CASE fn = "rgb"
      <3>1. DataAfter(t) = Asm!C!replicas(input_img, output_img, t)
        BY <2>2, SameOperators DEF DataAfter
      <3>2. Asm!C!imgproc_rgb
        BY <1>1, <2>1, <2>2, <3>1, Zenon DEF Asm!C!imgproc_rgb, Asm!C!Turn
      <3> QED
        BY <3>2 DEF Asm!C!Next
    <2>3. CASE fn = "grayscale"
      <3>1. DataAfter(t) = Asm!C!Put(output_img.data, t, Asm!C!to_grayscale(input_img.data[t]))
        BY <2>3, SameOperators DEF DataAfter, OutputPixel
      <3>2. Asm!C!imgproc_grayscale
        BY <1>1, <2>1, <2>3, <3>1, Zenon DEF Asm!C!imgproc_grayscale, Asm!C!Turn
      <3> QED
        BY <3>2 DEF Asm!C!Next
    <2>4. CASE fn = "fade"
      <3>1. DataAfter(t) = Asm!C!Put(output_img.data, t, Asm!C!fade(input_img, t))
        BY <2>4, SameOperators DEF DataAfter, OutputPixel
      <3>2. Asm!C!imgproc_fade
        BY <1>1, <2>1, <2>4, <3>1, Zenon DEF Asm!C!imgproc_fade, Asm!C!Turn
      <3> QED
        BY <3>2 DEF Asm!C!Next
    <2>5. CASE fn = "kaleidoscope"
      <3>1. DataAfter(t) = Asm!C!Put(output_img.data, t,
                                     input_img.data[Asm!C!in_idx(input_img.width, t)])
        BY <2>5, SameOperators DEF DataAfter, OutputPixel
      <3>2. Asm!C!imgproc_kaleidoscope
        BY <1>1, <2>1, <2>5, <3>1, Zenon DEF Asm!C!imgproc_kaleidoscope, Asm!C!Turn
      <3> QED
        BY <3>2 DEF Asm!C!Next
    <2> QED
      BY <1>3, <2>2, <2>3, <2>4, <2>5 DEF Functions
  <1>6. CASE Returns(t, t2)
    <2>1. Asm!C!Return
      BY <1>1, <1>3, <1>6 DEF Asm!C!Return, Returns
    <2> QED
      BY <2>1 DEF Asm!C!Next
  <1> QED
    BY <1>2, <1>4, <1>5, <1>6

-----------------------------------------------------------------------------
(* The inductive invariant                                                 *)

Reading == {"open", "chunks", "unfilter"}
Exits == {"exit 0", "exit 1", "crashed"}

Sorts ==
  /\ picture \in Images /\ color \in {"truecolor", "truecolor_alpha", "other"}
  /\ build \in {"c", "asm"} /\ stage \in Reading \cup {"create", "apply"} \cup Exits

\* No function has been called before there is an output image.
NotCalled ==
  stage \in Reading \cup {"create"} =>
    /\ fn = "none" /\ pc = "call" /\ i = 0 /\ output_img.data = << >> /\ build = "c"
    /\ output_img = [width |-> output_img.width, height |-> output_img.height,
                     data |-> output_img.data]
    /\ Asm!Entry

\* What has been read so far.
RowsRead ==
  /\ stage \in Reading => input_img.data = << >>
  /\ stage \in {"open", "chunks"} => row = 0 /\ raw = << >>
  /\ stage = "unfilter" /\ held = "all" =>
       row \in 0..picture.height /\ FirstRows(raw, picture, bpp, row)

PictureRead ==
  /\ stage \in {"create", "apply"} =>
       /\ ImageOK(input_img)
       /\ input_img.width = picture.width /\ input_img.height = picture.height
  /\ ReadsThePicture

Called ==
  stage = "apply" =>
    /\ fn \in Functions \cup {"unknown"}
    /\ pc = "call" => output_img = create_output_img(input_img, fn)

\* The blocks that only main and img_write use.
OutputBlocks == {"output_img", "output_data"}
WriteBlocks == {"data_to_write", "filtered", "chunk", "out_file"}

HeapOK ==
  /\ DOMAIN heap = Blocks
  /\ stage = "open" => inflating = FALSE /\ \A b \in Blocks : heap[b] = "unset"
  /\ stage \in {"chunks", "unfilter"} =>
       /\ heap["input_img"] = "live" /\ heap["in_file"] = "live"
       /\ heap["pixel_data"] \in {"live", "null"}
       /\ heap["raw"] \in (IF color = "truecolor" THEN {"live", "null"} ELSE {"unset"})
       /\ \A b \in OutputBlocks : heap[b] = "unset"
  /\ stage = "chunks" =>
       /\ heap["readbuf"] \in {"live", "null"} /\ inflating \in BOOLEAN
       /\ heap["png_data"] = (IF inflating THEN "live" ELSE "null")
       /\ heap["zs"] = heap["png_data"]
  /\ stage = "unfilter" =>
       /\ heap["readbuf"] \in {"freed", "null"} /\ heap["zs"] \in {"freed", "null"}
       /\ heap["png_data"] \in {"live", "null"}
  /\ stage \in {"create", "apply"} =>
       /\ heap["input_img"] = "live" /\ heap["pixel_data"] \in {"live", "null"}
       /\ \A b \in {"raw", "png_data", "zs", "readbuf", "in_file"} :
            heap[b] \in {"freed", "null", "unset"}
       /\ \A b \in OutputBlocks : heap[b] = IF stage = "apply" THEN "live" ELSE "unset"
  /\ stage \notin Exits => \A b \in WriteBlocks : heap[b] = "unset"

Outcome ==
  /\ stage \notin Exits => output_file.state = "untouched"
  /\ stage \in Exits => ReleasedAtExit
  /\ ExitTellsTruth

MainInv ==
  /\ Sorts /\ NotCalled /\ RowsRead /\ PictureRead /\ Called
  /\ Pixels /\ Machine /\ HeapOK /\ Outcome

-----------------------------------------------------------------------------
(* Memory, and the ends of main                                            *)

\* What becomes of a block.
LEMMA FreedBlock ==
  ASSUME NEW h, NEW S
  PROVE  /\ DOMAIN Free(h, S) = Blocks
         /\ \A b \in Blocks :
              /\ b \notin S => Free(h, S)[b] = h[b]
              /\ b \in S /\ h[b] = "live" => Free(h, S)[b] = "freed"
              /\ b \in S /\ h[b] = "null" => Free(h, S)[b] = "null"
  BY DEF Free

\* Blocks that are allocated.
LEMMA GottenBlock ==
  ASSUME NEW h, NEW S
  PROVE  /\ DOMAIN Gets(h, S) = Blocks
         /\ \A b \in Blocks : Gets(h, S)[b] = IF b \in S THEN "live" ELSE h[b]
  BY DEF Gets

\* A block whose allocation fails.
LEMMA NullBlock ==
  ASSUME NEW h, DOMAIN h = Blocks, NEW b \in Blocks
  PROVE  /\ DOMAIN IsNull(h, b) = Blocks
         /\ IsNull(h, b)[b] = "null"
         /\ \A d \in Blocks \ {b} : IsNull(h, b)[d] = h[d]
  BY DEF IsNull

\* Whoever frees what is live or null leaves nothing misused, and live only
\* what was live and is not freed.
LEMMA FreedBlocks ==
  ASSUME NEW h, NEW S, \A b \in Blocks : h[b] # "misused",
         \A b \in S : h[b] \in {"live", "null"}
  PROVE  \A b \in Blocks : /\ Free(h, S)[b] # "misused"
                           /\ Free(h, S)[b] = "live" <=> h[b] = "live" /\ b \notin S
  BY DEF Free

\* While main runs nothing has been freed that was not live.
LEMMA NothingMisused ==
  ASSUME HeapOK, stage \notin Exits, Sorts
  PROVE  \A b \in Blocks : heap[b] # "misused"
  <1>1. CASE stage = "open"
    BY <1>1 DEF HeapOK
  <1>2. CASE stage = "chunks"
    BY <1>2 DEF HeapOK, Blocks, OutputBlocks, WriteBlocks, Exits
  <1>3. CASE stage = "unfilter"
    BY <1>3 DEF HeapOK, Blocks, OutputBlocks, WriteBlocks, Exits
  <1>4. CASE stage = "create"
    BY <1>4 DEF HeapOK, Blocks, OutputBlocks, WriteBlocks, Exits
  <1>5. CASE stage = "apply"
    BY <1>5 DEF HeapOK, Blocks, OutputBlocks, WriteBlocks, Exits
  <1> QED
    BY <1>1, <1>2, <1>3, <1>4, <1>5 DEF Sorts, Exits, Reading

\* The functions see the same as before.
LEMMA FunctionsUnchanged ==
  ASSUME Pixels, Machine, UNCHANGED <<build, c_vars, machine>>
  PROVE  Pixels' /\ Machine'
  <1>1. Turned' = Turned
    BY DEF Turned, c_vars, machine, Asm!Turns, Asm!InLoop, Asm!RgbDone
  <1>2. Pixels'
    BY <1>1 DEF Pixels, c_vars, PixelsAre
  <1>3. Machine'
    BY DEF Machine, RegistersOK, StackOK, Holds, c_vars, machine, Asm!Entry, Asm!StackIsBalanced
  <1> QED
    BY <1>2, <1>3

\* main ends: what is left to show is what became of the memory and the file.
LEMMA ExitKeeps ==
  ASSUME MainInv, stage' \in Exits, DOMAIN heap' = Blocks, Outcome',
         UNCHANGED <<picture, color, build, c_vars, machine>>
  PROVE  MainInv'
  <1>1. /\ stage' \notin Reading \cup {"create"} /\ stage' \notin {"create", "apply"}
        /\ stage' \notin {"open", "chunks"} /\ stage' \notin {"chunks", "unfilter"}
        /\ stage' # "open" /\ stage' # "chunks" /\ stage' # "unfilter" /\ stage' # "apply"
        /\ stage' \notin Reading
    BY DEF Exits, Reading
  <1>2. Sorts'
    BY DEF MainInv, Sorts
  <1>3. Pixels' /\ Machine'
    BY FunctionsUnchanged DEF MainInv
  <1>4. NotCalled' /\ RowsRead' /\ PictureRead' /\ Called'
    BY <1>1 DEF NotCalled, RowsRead, PictureRead, ReadsThePicture, Called
  <1>5. HeapOK'
    BY <1>1 DEF HeapOK
  <1> QED
    BY <1>2, <1>3, <1>4, <1>5 DEF MainInv

\* The outcomes.
LEMMA Crashed ==
  ASSUME stage' = "crashed", \A b \in Blocks : heap'[b] # "misused"
  PROVE  Outcome'
  BY DEF Outcome, ReleasedAtExit, ExitTellsTruth, Exits

\* main ends with status 1 before anything has been read.
LEMMA Refused ==
  ASSUME stage' = "exit 1", \A b \in Blocks : heap'[b] # "misused",
         input_img'.data = << >>, UNCHANGED output_file, output_file.state = "untouched",
         heap'["data_to_write"] = "unset",
         NEW S, \A b \in Blocks : heap'[b] = "live" => b \in S,
         \/ S = {} \/ S = {"in_file"}
         \/ S = {"raw", "zs"} /\ ("raw" \in Blocks /\ heap'["raw"] = "live" => color' = "truecolor")
            /\ (heap'["zs"] = "live" => ~ inflating')
  PROVE  Outcome'
  <1>1. ReleasedAtExit'
    <2> DEFINE live == {b \in Blocks : heap'[b] = "live"}
    <2>1. live \subseteq S /\ \A b \in live : b \in Blocks /\ heap'[b] = "live"
      OBVIOUS
    <2> HIDE DEF live
    <2>2. /\ live \subseteq {"raw", "in_file", "zs"}
          /\ "raw" \in live => color' = "truecolor"
          /\ "in_file" \in live => live = {"in_file"}
          /\ "zs" \in live => ~ inflating'
      BY <2>1
    <2> QED
      BY <2>2 DEF ReleasedAtExit, live
  <1>2. ExitTellsTruth'
    BY DEF ExitTellsTruth
  <1> QED
    BY <1>1, <1>2 DEF Outcome, Exits

\* Nothing is live.
LEMMA Ended ==
  ASSUME stage' \in {"exit 0", "exit 1"}, \A b \in Blocks : heap'[b] \notin {"misused", "live"},
         ExitTellsTruth'
  PROVE  Outcome'
  <1>1. {b \in Blocks : heap'[b] = "live"} = {}
    OBVIOUS
  <1>2. ReleasedAtExit'
    BY <1>1 DEF ReleasedAtExit
  <1> QED
    BY <1>2 DEF Outcome, Exits

-----------------------------------------------------------------------------
(* img_read that fails                                                     *)

\* The ends of img_read while it opens the file.
LEMMA OpenFails ==
  ASSUME MainInv,
         input_img_fails \/ png_open_file_read_fails \/ png_open_read_fails \/ not_truecolor
  PROVE  MainInv'
  <1>1. /\ stage = "open" /\ stage' = "exit 1"
        /\ UNCHANGED <<read_vars, output_file, build, c_vars, machine>>
    BY DEF input_img_fails, png_open_file_read_fails, png_open_read_fails, not_truecolor, Exit
  <1>2. /\ DOMAIN heap = Blocks /\ \A b \in Blocks : heap[b] = "unset"
        /\ input_img.data = << >> /\ output_file.state = "untouched"
    BY <1>1 DEF MainInv, HeapOK, RowsRead, Outcome, Reading, Exits
  <1>3. /\ DOMAIN heap' = Blocks /\ heap'["data_to_write"] = "unset"
        /\ \A b \in Blocks : heap'[b] # "misused" /\ (heap'[b] = "live" => b \in {"in_file"})
    <2>1. CASE input_img_fails
      BY <1>2, <2>1 DEF input_img_fails, Exit, IsNull, Blocks
    <2>2. CASE png_open_file_read_fails
      BY <1>2, <2>2 DEF png_open_file_read_fails, Exit, Free, Gets, Blocks
    <2>3. CASE png_open_read_fails
      BY <1>2, <2>3 DEF png_open_read_fails, Exit, Free, Gets, Blocks
    <2>4. CASE not_truecolor
      BY <1>2, <2>4 DEF not_truecolor, Exit, Free, Gets, Blocks
    <2> QED
      BY <2>1, <2>2, <2>3, <2>4
  <1>4. Outcome'
    <2>1. input_img'.data = << >> /\ UNCHANGED output_file
      BY <1>1, <1>2 DEF c_vars
    <2> QED
      BY <1>1, <1>2, <1>3, <2>1, Refused
  <1>5. UNCHANGED <<picture, color, build, c_vars, machine>> /\ stage' \in Exits
    BY <1>1 DEF read_vars, Exits
  <1> QED
    BY <1>3, <1>4, <1>5, ExitKeeps

\* png_get_data fails: what img_read and main then free, and what stays.
LEMMA GetDataFails ==
  ASSUME MainInv, stage = "chunks",
         NEW h, NEW started \in BOOLEAN, get_data_fails(h, started),
         DOMAIN h = Blocks, h["data_to_write"] = "unset",
         \A b \in Blocks : h[b] # "misused",
         \A b \in OutputBlocks \cup WriteBlocks : h[b] = "unset",
         \A b \in {"readbuf", "png_data", "in_file", "pixel_data", "input_img"} :
            h[b] \in {"live", "null"},
         h["raw"] = "live" => color = "truecolor",
         IF started THEN h["zs"] = "live" ELSE ~ inflating,
         UNCHANGED <<picture, color, build, c_vars, machine, output_file, inflating>>
  PROVE  MainInv'
  <1>1. PICK h1, h2, h3 : /\ h1 = Free(h, {"readbuf"})
                          /\ h2 = png_end_inflate(h1, started)
                          /\ h3 = Free(h2, {"png_data", "in_file", "pixel_data", "input_img"})
    OBVIOUS
  <1>2. stage' = "exit 1" /\ heap' = h3
    BY <1>1 DEF get_data_fails, Exit
  <1>3. /\ DOMAIN h1 = Blocks
        /\ \A b \in Blocks : h1[b] # "misused"
        /\ \A b \in Blocks : b # "readbuf" => h1[b] = h[b]
        /\ h1["readbuf"] \in {"freed", "null"}
    BY <1>1, FreedBlock DEF Blocks
  <1>4. /\ DOMAIN h2 = Blocks
        /\ \A b \in Blocks : h2[b] # "misused"
        /\ \A b \in Blocks \ {"readbuf", "zs"} : h2[b] = h[b]
        /\ h2["readbuf"] \in {"freed", "null"}
        /\ h2["zs"] = "live" => ~ inflating
    <2>1. CASE started
      <3>1. h2 = Free(h1, {"zs"}) /\ h1["zs"] = "live"
        BY <1>1, <1>3, <2>1 DEF png_end_inflate, Blocks
      <3> QED
        BY <1>3, <3>1, FreedBlock DEF Blocks
    <2>2. CASE ~ started
      BY <1>1, <1>3, <2>2 DEF png_end_inflate, Blocks
    <2> QED
      BY <2>1, <2>2
  <1>5. /\ DOMAIN h3 = Blocks
        /\ \A b \in Blocks : h3[b] # "misused"
        /\ \A b \in Blocks : h3[b] = "live" => b \in {"raw", "zs"}
        /\ h3["raw"] = "live" => color = "truecolor"
        /\ h3["zs"] = "live" => ~ inflating
        /\ h3["data_to_write"] = "unset"
    <2> DEFINE S == {"png_data", "in_file", "pixel_data", "input_img"}
    <2>1. \A b \in S : b \in Blocks /\ h2[b] \in {"live", "null"}
      BY <1>4 DEF Blocks
    <2>2. \A b \in Blocks : h3[b] # "misused" /\ (h3[b] = "live" => h2[b] = "live" /\ b \notin S)
      BY <1>1, <1>4, <2>1, FreedBlocks
    <2>3. \A b \in Blocks \ S : h3[b] = h2[b]
      BY <1>1, FreedBlock
    <2>4. \A b \in Blocks : h2[b] = "live" => b \in S \cup {"raw", "zs"}
      BY <1>4 DEF Blocks, OutputBlocks, WriteBlocks
    <2>5. DOMAIN h3 = Blocks
      BY <1>1, FreedBlock
    <2> HIDE DEF S
    <2>6. \A b \in Blocks : h3[b] = "live" => b \in {"raw", "zs"}
      BY <2>2, <2>4
    <2>7. /\ "raw" \in Blocks \ S /\ "zs" \in Blocks \ S /\ "data_to_write" \in Blocks \ S
      BY DEF S, Blocks
    <2> QED
      BY <1>4, <2>2, <2>3, <2>5, <2>6, <2>7
  <1>6. input_img'.data = << >> /\ output_file.state = "untouched"
    BY DEF MainInv, RowsRead, Outcome, Reading, Exits, c_vars
  <1>7. Outcome'
    <2> DEFINE S == {"raw", "zs"}
    <2>1. \A b \in Blocks : heap'[b] = "live" => b \in S
      BY <1>2, <1>5
    <2>2. S = {"raw", "zs"} /\ (heap'["raw"] = "live" => color' = "truecolor")
          /\ (heap'["zs"] = "live" => ~ inflating')
      BY <1>2, <1>5
    <2> HIDE DEF S
    <2> QED
      BY <1>2, <1>5, <1>6, <2>1, <2>2, Refused
  <1>8. stage' \in Exits /\ DOMAIN heap' = Blocks
    BY <1>2, <1>5 DEF Exits
  <1> QED
    BY <1>7, <1>8, ExitKeeps

\* The heap between two chunks.
LEMMA HeapOfChunks ==
  ASSUME MainInv, stage = "chunks"
  PROVE  /\ DOMAIN heap = Blocks /\ inflating \in BOOLEAN
         /\ \A b \in Blocks : heap[b] # "misused"
         /\ \A b \in OutputBlocks \cup WriteBlocks : heap[b] = "unset"
         /\ \A b \in {"readbuf", "png_data", "in_file", "pixel_data", "input_img"} :
              heap[b] \in {"live", "null"}
         /\ heap["raw"] = "live" => color = "truecolor"
         /\ heap["zs"] = (IF inflating THEN "live" ELSE "null") /\ heap["data_to_write"] = "unset"
  <1>1. HeapOK /\ Sorts /\ stage \notin Exits
    BY DEF MainInv, Exits
  <1>2. \A b \in Blocks : heap[b] # "misused"
    BY <1>1, NothingMisused
  <1>3. heap["png_data"] \in {"live", "null"} /\ heap["zs"] = IF inflating THEN "live" ELSE "null"
    BY <1>1 DEF HeapOK
  <1> QED
    BY <1>1, <1>2, <1>3 DEF HeapOK, WriteBlocks

\* A chunk that cannot be had: png_get_data cleans up, img_read and main after it.
LEMMA ChunkFails ==
  ASSUME MainInv, png_process_chunk_eof \/ png_init_inflate_fails \/ png_read_idat_fails
  PROVE  MainInv'
  <1>1. /\ stage = "chunks"
        /\ UNCHANGED <<picture, color, build, c_vars, machine, output_file, inflating>>
    BY DEF png_process_chunk_eof, png_init_inflate_fails, png_read_idat_fails, NextChunk
  <1> DEFINE Known(h) ==
               /\ DOMAIN h = Blocks
               /\ \A b \in Blocks : h[b] # "misused"
               /\ \A b \in OutputBlocks \cup WriteBlocks : h[b] = "unset"
               /\ \A b \in {"readbuf", "png_data", "in_file", "pixel_data", "input_img"} :
                    h[b] \in {"live", "null"}
               /\ h["raw"] = "live" => color = "truecolor"
  <1>2. Known(heap) /\ inflating \in BOOLEAN
        /\ heap["zs"] = IF inflating THEN "live" ELSE "null"
    BY <1>1, HeapOfChunks
  <1>3. \A h : \A started \in BOOLEAN :
          Known(h) /\ get_data_fails(h, started)
            /\ (IF started THEN h["zs"] = "live" ELSE ~ inflating) => MainInv'
    <2> SUFFICES ASSUME NEW h, NEW started \in BOOLEAN, Known(h), get_data_fails(h, started),
                        IF started THEN h["zs"] = "live" ELSE ~ inflating
                 PROVE  MainInv'
      OBVIOUS
    <2>1. h["data_to_write"] = "unset"
      BY DEF WriteBlocks
    <2> QED
      BY <1>1, <2>1, GetDataFails
  <1>4. \A h : Known(h) => Known(Gets(h, {"png_data"})) /\ Known(Gets(h, {"png_data", "zs"}))
    BY DEF Gets, Blocks, OutputBlocks, WriteBlocks
  <1>5. \A h : DOMAIN Gets(h, {"png_data", "zs"}) = Blocks
               /\ Gets(h, {"png_data", "zs"})["zs"] = "live"
    BY DEF Gets, Blocks
  <1>6. \A h : Known(h) /\ h["zs"] = "live" =>
          LET f == Free(h, {"readbuf"})
          IN  /\ Known(IsNull(f, "readbuf")) /\ IsNull(f, "readbuf")["zs"] = "live"
              /\ Known(Gets(f, {"readbuf"})) /\ Gets(f, {"readbuf"})["zs"] = "live"
    <2> SUFFICES ASSUME NEW h, Known(h), h["zs"] = "live"
                 PROVE  LET f == Free(h, {"readbuf"})
                        IN  /\ Known(IsNull(f, "readbuf")) /\ IsNull(f, "readbuf")["zs"] = "live"
                            /\ Known(Gets(f, {"readbuf"})) /\ Gets(f, {"readbuf"})["zs"] = "live"
      OBVIOUS
    <2>1. PICK f : f = Free(h, {"readbuf"})
      OBVIOUS
    <2>2. DOMAIN f = Blocks /\ \A b \in Blocks \ {"readbuf"} : f[b] = h[b]
      BY <2>1, FreedBlock
    <2>3. PICK n, g : n = IsNull(f, "readbuf") /\ g = Gets(f, {"readbuf"})
      OBVIOUS
    <2>4. /\ DOMAIN n = Blocks /\ n["readbuf"] = "null"
          /\ \A b \in Blocks \ {"readbuf"} : n[b] = h[b]
      BY <2>2, <2>3 DEF IsNull, Blocks
    <2>5. /\ DOMAIN g = Blocks /\ g["readbuf"] = "live"
          /\ \A b \in Blocks \ {"readbuf"} : g[b] = h[b]
      BY <2>2, <2>3 DEF Gets, Blocks
    <2>6. Known(n) /\ n["zs"] = "live"
      BY <2>4 DEF Blocks, OutputBlocks, WriteBlocks
    <2>7. Known(g) /\ g["zs"] = "live"
      BY <2>5 DEF Blocks, OutputBlocks, WriteBlocks
    <2> QED
      BY <2>1, <2>3, <2>6, <2>7
  <1> HIDE DEF Known
  <1>7. CASE png_process_chunk_eof
    <2>1. PICK h, started : h = heap /\ started = inflating /\ get_data_fails(h, started)
      BY <1>7 DEF png_process_chunk_eof, get_data_fails
    <2> QED
      BY <1>2, <1>3, <2>1
  <1>8. CASE png_init_inflate_fails
    <2>1. ~ inflating
      BY <1>2, <1>8 DEF png_init_inflate_fails
    <2>2. PICK data, h : /\ data = Gets(heap, {"png_data"})
                         /\ h \in {heap, data, Gets(data, {"zs"})} /\ get_data_fails(h, FALSE)
      BY <1>8 DEF png_init_inflate_fails, get_data_fails
    <2>3. Known(Gets(data, {"zs"}))
      <3>1. Known(data)
        BY <1>2, <1>4, <2>2
      <3> QED
        BY <3>1 DEF Known, Gets, Blocks, OutputBlocks, WriteBlocks
    <2>4. Known(h)
      BY <1>2, <1>4, <2>2, <2>3
    <2>5. PICK started \in BOOLEAN : started = FALSE /\ get_data_fails(h, started)
      BY <2>2 DEF get_data_fails
    <2> QED
      BY <1>3, <2>1, <2>4, <2>5
  <1>9. CASE png_read_idat_fails
    <2>1. PICK h1, freed, fits :
             /\ h1 = Gets(heap, {"png_data", "zs"}) /\ freed = Free(h1, {"readbuf"})
             /\ fits \in BOOLEAN
             /\ \/ get_data_fails(IsNull(freed, "readbuf"), TRUE)
                \/ get_data_fails(IF fits THEN h1 ELSE Gets(freed, {"readbuf"}), TRUE)
      BY <1>9 DEF png_read_idat_fails
    <2>2. Known(h1) /\ h1["zs"] = "live"
      BY <1>2, <1>4, <1>5, <2>1
    <2>3. /\ Known(IsNull(freed, "readbuf")) /\ IsNull(freed, "readbuf")["zs"] = "live"
          /\ Known(Gets(freed, {"readbuf"})) /\ Gets(freed, {"readbuf"})["zs"] = "live"
      BY <1>6, <2>1, <2>2
    <2>4. PICK h, started :
             /\ started = TRUE /\ get_data_fails(h, started)
             /\ h \in {IsNull(freed, "readbuf"), h1, Gets(freed, {"readbuf"})}
      BY <2>1 DEF get_data_fails
    <2>5. Known(h) /\ h["zs"] = "live"
      BY <2>2, <2>3, <2>4
    <2> QED
      BY <1>3, <2>4, <2>5
  <1> QED
    BY <1>7, <1>8, <1>9

\* The ends of img_read while it undoes the filters.
LEMMA UnfilterFails ==
  ASSUME MainInv, png_unknown_filter \/ img_read_crashes
  PROVE  MainInv'
  <1>1. /\ stage = "unfilter" /\ stage' \in {"exit 1", "crashed"}
        /\ UNCHANGED <<read_vars, output_file, build, c_vars, machine>>
    BY DEF png_unknown_filter, img_read_crashes, Exit
  <1>2. /\ HeapOK /\ DOMAIN heap = Blocks /\ \A b \in Blocks : heap[b] # "misused"
        /\ input_img.data = << >> /\ output_file.state = "untouched"
    BY <1>1, NothingMisused DEF MainInv, HeapOK, RowsRead, Outcome, Reading, Exits
  <1>3. CASE png_unknown_filter
    <2> DEFINE S == {"png_data", "in_file", "pixel_data", "input_img"}
    <2>1. PICK h0, h : stage' = "exit 1" /\ heap' = h /\ h = Free(h0, S) /\ h0 = heap
      BY <1>3 DEF png_unknown_filter, Exit
    <2>13. h = Free(h0, S)
      BY <2>1
    <2>2. \A b \in S : b \in Blocks /\ heap[b] \in {"live", "null"}
      BY <1>1, <1>2 DEF HeapOK, Blocks
    <2>3. \A b \in Blocks : heap'[b] # "misused"
                            /\ (heap'[b] = "live" => heap[b] = "live" /\ b \notin S)
      <3>1. /\ \A b \in Blocks : h0[b] # "misused"
            /\ \A b \in S : h0[b] \in {"live", "null"}
        BY <1>2, <2>1, <2>2
      <3>2. \A b \in Blocks : h[b] # "misused" /\ (h[b] = "live" <=> h0[b] = "live" /\ b \notin S)
        BY <2>13, <3>1, FreedBlocks
      <3> QED
        BY <2>1, <3>2
    <2>4. \A b \in Blocks : heap[b] = "live" => b \in S \cup {"raw"}
      BY <1>1, <1>2 DEF HeapOK, Blocks, OutputBlocks, WriteBlocks, Exits
    <2>5. heap["raw"] = "live" => color = "truecolor"
      BY <1>1, <1>2 DEF HeapOK
    <2>6. DOMAIN heap' = Blocks /\ heap'["data_to_write"] = "unset"
      <3>1. heap["data_to_write"] = "unset"
        BY <1>1, <1>2 DEF HeapOK, WriteBlocks, Exits
      <3>2. "data_to_write" \in Blocks /\ "data_to_write" \notin S
        BY DEF Blocks
      <3>3. h0["data_to_write"] = "unset"
        BY <2>1, <3>1
      <3>4. DOMAIN h = Blocks /\ h["data_to_write"] = "unset"
        BY <2>13, <3>2, <3>3, FreedBlock
      <3> QED
        BY <2>1, <3>4
    <2>7. color' = color /\ UNCHANGED output_file /\ input_img'.data = << >>
      BY <1>1, <1>2 DEF read_vars, c_vars
    <2>8. "raw" \in Blocks /\ "zs" \in Blocks
      BY DEF Blocks
    <2> HIDE DEF S
    <2>9. PICK Z : Z = {"raw", "zs"}
      OBVIOUS
    <2>10. /\ \A b \in Blocks : heap'[b] = "live" => b \in Z
           /\ heap'["raw"] = "live" => color' = "truecolor"
           /\ heap'["zs"] # "live"
      BY <2>3, <2>4, <2>5, <2>7, <2>8, <2>9
    <2>11. Outcome'
      BY <1>2, <2>1, <2>3, <2>6, <2>7, <2>9, <2>10, Refused
    <2>12. UNCHANGED <<picture, color, build, c_vars, machine>> /\ stage' \in Exits
      BY <1>1 DEF read_vars, Exits
    <2> QED
      BY <2>6, <2>11, <2>12, ExitKeeps
  <1>4. CASE img_read_crashes
    <2>1. stage' = "crashed" /\ heap' = heap
      BY <1>4 DEF img_read_crashes, Exit
    <2>2. Outcome'
      BY <1>2, <2>1, Crashed
    <2>3. UNCHANGED <<picture, color, build, c_vars, machine>> /\ stage' \in Exits
      BY <1>1 DEF read_vars, Exits
    <2> QED
      BY <1>2, <2>1, <2>2, <2>3, ExitKeeps
  <1> QED
    BY <1>3, <1>4

-----------------------------------------------------------------------------
(* The rest of main, up to its end                                         *)

\* Everything that is live is freed.
LEMMA AllReleased ==
  ASSUME NEW h, NEW S, \A b \in Blocks : h[b] # "misused",
         \A b \in S : h[b] \in {"live", "null"},
         \A b \in Blocks : h[b] = "live" => b \in S,
         NEW h2, h2 = Free(h, S)
  PROVE  DOMAIN h2 = Blocks /\ \A b \in Blocks : h2[b] \notin {"misused", "live"}
  <1>1. \A b \in Blocks : h2[b] # "misused" /\ (h2[b] = "live" <=> h[b] = "live" /\ b \notin S)
    BY FreedBlocks
  <1> QED
    BY <1>1, FreedBlock

\* The heap while main has both images, and before it has the second one.
HeapOfMain(h, output) ==
  /\ DOMAIN h = Blocks
  /\ h["input_img"] = "live" /\ h["pixel_data"] \in {"live", "null"}
  /\ \A b \in {"raw", "png_data", "zs", "readbuf", "in_file"} : h[b] \in {"freed", "null", "unset"}
  /\ \A b \in OutputBlocks : h[b] = output
  /\ \A b \in WriteBlocks : h[b] = "unset"

\* The invariant says so.
LEMMA HeapInMain ==
  ASSUME MainInv, stage \in {"create", "apply"}
  PROVE  HeapOfMain(heap, IF stage = "apply" THEN "live" ELSE "unset")
         /\ output_file.state = "untouched"
  BY DEF MainInv, HeapOK, HeapOfMain, Outcome, Exits

\* No memory for the output: cleanup_image of what there is.
LEMMA CreateFails ==
  ASSUME MainInv, create_output_fails
  PROVE  MainInv'
  <1>1. /\ stage = "create" /\ stage' = "exit 1"
        /\ UNCHANGED <<read_vars, output_file, build, c_vars, machine>>
    BY DEF create_output_fails, Exit
  <1>2. PICK g : g = heap
    OBVIOUS
  <1>3. HeapOfMain(g, "unset") /\ output_file.state = "untouched"
    BY <1>1, <1>2, HeapInMain
  <1>4. PICK h, h2 :
           /\ h \in {IsNull(g, "output_img"),
                     Free(IsNull(Gets(g, {"output_img"}), "output_data"), {"output_img"})}
           /\ h2 = Free(h, InputImage) /\ heap' = h2
    <2>1. PICK h : /\ heap' = Free(h, InputImage)
                   /\ h \in {IsNull(heap, "output_img"),
                             Free(IsNull(Gets(heap, {"output_img"}), "output_data"), {"output_img"})}
      BY DEF create_output_fails, Exit
    <2>2. h \in {IsNull(g, "output_img"),
                 Free(IsNull(Gets(g, {"output_img"}), "output_data"), {"output_img"})}
      BY <1>2, <2>1
    <2> QED
      BY <2>1, <2>2
  <1>5. /\ h \in {IsNull(g, "output_img"),
                  Free(IsNull(Gets(g, {"output_img"}), "output_data"), {"output_img"})}
        /\ h2 = Free(h, InputImage)
    BY <1>4
  <1>6. /\ DOMAIN h = Blocks
        /\ \A b \in Blocks \ OutputBlocks : h[b] = g[b]
        /\ \A b \in OutputBlocks : h[b] \in {"unset", "null", "freed"}
    <2>1. CASE h = IsNull(g, "output_img")
      BY <1>3, <2>1 DEF HeapOfMain, IsNull, Blocks, OutputBlocks
    <2>2. CASE h = Free(IsNull(Gets(g, {"output_img"}), "output_data"), {"output_img"})
      <3>1. PICK h3, h4 : /\ h3 = Gets(g, {"output_img"}) /\ h4 = IsNull(h3, "output_data")
                          /\ h = Free(h4, {"output_img"})
        BY <2>2
      <3>2. /\ DOMAIN h3 = Blocks /\ h3["output_img"] = "live"
            /\ \A b \in Blocks \ {"output_img"} : h3[b] = g[b]
        BY <3>1 DEF Gets, Blocks
      <3>3. /\ DOMAIN h4 = Blocks /\ h4["output_img"] = "live" /\ h4["output_data"] = "null"
            /\ \A b \in Blocks \ {"output_img", "output_data"} : h4[b] = g[b]
        BY <3>1, <3>2 DEF IsNull, Blocks
      <3>4. /\ DOMAIN h = Blocks /\ h["output_img"] = "freed" /\ h["output_data"] = "null"
            /\ \A b \in Blocks \ {"output_img", "output_data"} : h[b] = g[b]
        BY <3>1, <3>3 DEF Free, Blocks
      <3> QED
        BY <3>4 DEF OutputBlocks
    <2> QED
      BY <1>5, <2>1, <2>2
  <1>7. /\ \A b \in Blocks : h[b] # "misused"
        /\ \A b \in InputImage : h[b] \in {"live", "null"}
        /\ \A b \in Blocks : h[b] = "live" => b \in InputImage
        /\ h["data_to_write"] = "unset" /\ "data_to_write" \notin InputImage
        /\ "data_to_write" \in Blocks
    BY <1>3, <1>6 DEF HeapOfMain, Blocks, OutputBlocks, WriteBlocks, InputImage
  <1>8. DOMAIN h2 = Blocks /\ \A b \in Blocks : h2[b] \notin {"misused", "live"}
    BY <1>5, <1>7, AllReleased
  <1>9. h2["data_to_write"] = "unset"
    BY <1>5, <1>7, FreedBlock
  <1>10. ExitTellsTruth'
    BY <1>1, <1>3, <1>4, <1>9 DEF ExitTellsTruth
  <1>11. Outcome'
    BY <1>1, <1>4, <1>8, <1>10, Ended
  <1>12. UNCHANGED <<picture, color, build, c_vars, machine>> /\ stage' \in Exits
    BY <1>1 DEF read_vars, Exits
  <1> QED
    BY <1>4, <1>8, <1>11, <1>12, ExitKeeps

\* main frees both images.
BothImages == InputImage \cup OutputImage

\* The heap h, in which the blocks S of img_write are live as well.
WhileWriting(g, S, h) ==
  /\ HeapOfMain(g, "live") /\ S \subseteq WriteBlocks /\ DOMAIN h = Blocks
  /\ \A b \in Blocks \ WriteBlocks : h[b] = g[b]
  /\ \A b \in S : h[b] = "live"
  /\ \A b \in WriteBlocks \ S : h[b] \in {"unset", "null"}

\* Both images, and what img_write has used, are freed.
LEMMA ImagesReleased ==
  ASSUME NEW g, NEW S, NEW h, WhileWriting(g, S, h), NEW F,
         F = S \cup InputImage \cup OutputImage, NEW h2, h2 = Free(h, F)
  PROVE  /\ DOMAIN h2 = Blocks /\ \A b \in Blocks : h2[b] \notin {"misused", "live"}
         /\ \A b \in WriteBlocks \ S : h2[b] = h[b]
  <1>1. WriteBlocks \subseteq Blocks /\ BothImages \cap WriteBlocks = {}
        /\ BothImages \subseteq Blocks /\ BothImages = InputImage \cup OutputImage
    BY DEF WriteBlocks, Blocks, BothImages, InputImage, OutputImage
  <1>2. ASSUME HeapOfMain(g, "live") PROVE \A b \in BothImages : g[b] \in {"live", "null"}
    BY <1>2 DEF HeapOfMain, BothImages, InputImage, OutputImage, OutputBlocks
  <1>3. ASSUME HeapOfMain(g, "live")
        PROVE  \A b \in Blocks \ WriteBlocks : g[b] # "misused" /\ (g[b] = "live" => b \in BothImages)
    BY <1>3 DEF HeapOfMain, Blocks, BothImages, InputImage, OutputImage, OutputBlocks, WriteBlocks
  <1>4. F = S \cup BothImages
    BY <1>1
  <1>5. /\ \A b \in Blocks : h[b] # "misused"
        /\ \A b \in Blocks : h[b] = "live" => b \in F
    BY <1>3, <1>4 DEF WhileWriting
  <1>6. \A b \in F : h[b] \in {"live", "null"}
    BY <1>1, <1>2, <1>4 DEF WhileWriting
  <1>7. DOMAIN h2 = Blocks /\ \A b \in Blocks : h2[b] \notin {"misused", "live"}
    BY <1>5, <1>6, AllReleased
  <1>8. \A b \in WriteBlocks \ S : b \in Blocks /\ b \notin F
    BY <1>1, <1>4
  <1>9. \A b \in WriteBlocks \ S : h2[b] = h[b]
    BY <1>8, FreedBlock
  <1> QED
    BY <1>7, <1>9

\* Nothing but the images.
LEMMA OnlyImages ==
  ASSUME NEW g, HeapOfMain(g, "live"), NEW F, F = InputImage \cup OutputImage,
         NEW h2, h2 = Free(g, F)
  PROVE  /\ DOMAIN h2 = Blocks /\ \A b \in Blocks : h2[b] \notin {"misused", "live"}
         /\ h2["data_to_write"] = "unset"
  <1>1. PICK S : S = {}
    OBVIOUS
  <1>2. F = S \cup InputImage \cup OutputImage
    BY <1>1
  <1>3. WhileWriting(g, S, g)
    BY <1>1 DEF WhileWriting, HeapOfMain
  <1>4. /\ DOMAIN h2 = Blocks /\ \A b \in Blocks : h2[b] \notin {"misused", "live"}
        /\ \A b \in WriteBlocks \ S : h2[b] = g[b]
    BY <1>2, <1>3, ImagesReleased
  <1>5. "data_to_write" \in WriteBlocks \ S /\ g["data_to_write"] = "unset"
    BY <1>1 DEF WriteBlocks, HeapOfMain
  <1> QED
    BY <1>4, <1>5

\* A function that is unknown, or fails.
LEMMA ApplyEnds ==
  ASSUME MainInv, unknown_transformation \/ apply_fails
  PROVE  MainInv'
  <1>1. /\ stage = "apply" /\ stage' \in Exits
        /\ UNCHANGED <<read_vars, output_file, build, c_vars, machine>>
    BY DEF unknown_transformation, apply_fails, Exit, Exits
  <1>2. PICK g : g = heap
    OBVIOUS
  <1>3. HeapOfMain(g, "live") /\ output_file.state = "untouched"
    BY <1>1, <1>2, HeapInMain
  <1>4. UNCHANGED <<picture, color, build, c_vars, machine>>
    BY <1>1 DEF read_vars
  <1>5. CASE stage' = "crashed" /\ heap' = heap
    <2>1. \A b \in Blocks : g[b] # "misused"
      BY <1>3 DEF HeapOfMain, Blocks, OutputBlocks, WriteBlocks
    <2>2. Outcome'
      BY <1>2, <1>5, <2>1, Crashed
    <2>3. DOMAIN heap' = Blocks
      BY <1>2, <1>3, <1>5 DEF HeapOfMain
    <2> QED
      BY <1>1, <1>4, <2>2, <2>3, ExitKeeps
  <1>6. CASE stage' = "exit 1" /\ heap' = Free(heap, InputImage \cup OutputImage)
    <2>1. PICK F, h2 : heap' = h2 /\ h2 = Free(g, F) /\ F = InputImage \cup OutputImage
      BY <1>2, <1>6
    <2>2. h2 = Free(g, F) /\ F = InputImage \cup OutputImage
      BY <2>1
    <2>3. /\ DOMAIN h2 = Blocks /\ \A b \in Blocks : h2[b] \notin {"misused", "live"}
          /\ h2["data_to_write"] = "unset"
      BY <1>3, <2>2, OnlyImages
    <2>4. ExitTellsTruth'
      BY <1>1, <1>3, <1>6, <2>1, <2>3 DEF ExitTellsTruth
    <2>5. Outcome'
      BY <1>6, <2>1, <2>3, <2>4, Ended
    <2> QED
      BY <1>1, <1>4, <2>1, <2>3, <2>5, ExitKeeps
  <1> QED
    BY <1>5, <1>6 DEF unknown_transformation, apply_fails, Exit

\* img_write fails: the file is as it was, or empty.
LEMMA WriteFails ==
  ASSUME MainInv, img_write_fails
  PROVE  MainInv'
  <1>1. /\ stage = "apply" /\ stage' = "exit 1" /\ stage' \in Exits
        /\ UNCHANGED <<read_vars, build, c_vars, machine>>
    BY DEF img_write_fails, Exit, Exits
  <1>2. PICK g : g = heap
    OBVIOUS
  <1>3. HeapOfMain(g, "live") /\ output_file.state = "untouched"
    BY <1>1, <1>2, HeapInMain
  <1>4. UNCHANGED <<picture, color, build, c_vars, machine>>
    BY <1>1 DEF read_vars
  <1>5. CASE UNCHANGED output_file /\ heap' = Free(heap, InputImage \cup OutputImage)
    <2>1. PICK F, h2 : heap' = h2 /\ h2 = Free(g, F) /\ F = InputImage \cup OutputImage
      BY <1>2, <1>5
    <2>2. h2 = Free(g, F) /\ F = InputImage \cup OutputImage
      BY <2>1
    <2>3. /\ DOMAIN h2 = Blocks /\ \A b \in Blocks : h2[b] \notin {"misused", "live"}
          /\ h2["data_to_write"] = "unset"
      BY <1>3, <2>2, OnlyImages
    <2>4. ExitTellsTruth'
      BY <1>1, <1>3, <1>5, <2>1, <2>3 DEF ExitTellsTruth
    <2>5. Outcome'
      BY <1>1, <2>1, <2>3, <2>4, Ended
    <2> QED
      BY <1>1, <1>4, <2>1, <2>3, <2>5, ExitKeeps
  <1>6. CASE /\ output_file' = [state |-> "empty"]
             /\ heap' = Free(IsNull(Gets(heap, {"out_file"}), "data_to_write"),
                             {"out_file"} \cup InputImage \cup OutputImage)
    <2>1. PICK S, F, h3, h, h2 :
             /\ heap' = h2 /\ S = {"out_file"} /\ F = S \cup InputImage \cup OutputImage
             /\ h3 = Gets(g, S) /\ h = IsNull(h3, "data_to_write") /\ h2 = Free(h, F)
      BY <1>2, <1>6
    <2>2. /\ S = {"out_file"} /\ F = S \cup InputImage \cup OutputImage
          /\ h3 = Gets(g, S) /\ h = IsNull(h3, "data_to_write") /\ h2 = Free(h, F)
      BY <2>1
    <2>3. /\ DOMAIN h3 = Blocks /\ h3["out_file"] = "live"
          /\ \A b \in Blocks \ {"out_file"} : h3[b] = g[b]
      BY <2>2 DEF Gets, Blocks
    <2>4. /\ DOMAIN h = Blocks /\ h["out_file"] = "live" /\ h["data_to_write"] = "null"
          /\ \A b \in Blocks \ {"out_file", "data_to_write"} : h[b] = g[b]
      BY <2>2, <2>3 DEF IsNull, Blocks
    <2>5. WhileWriting(g, S, h) /\ "data_to_write" \in WriteBlocks \ S
      BY <1>3, <2>2, <2>4 DEF WhileWriting, WriteBlocks, Blocks, HeapOfMain
    <2>6. /\ DOMAIN h2 = Blocks /\ \A b \in Blocks : h2[b] \notin {"misused", "live"}
          /\ \A b \in WriteBlocks \ S : h2[b] = h[b]
      BY <2>2, <2>5, ImagesReleased
    <2>7. h2["data_to_write"] = "null"
      BY <2>4, <2>5, <2>6
    <2>8. ExitTellsTruth'
      BY <1>1, <1>6, <2>1, <2>7 DEF ExitTellsTruth
    <2>9. Outcome'
      BY <1>1, <2>1, <2>6, <2>8, Ended, ZenonT(60)
    <2> QED
      BY <1>1, <1>4, <2>1, <2>6, <2>9, ExitKeeps
  <1> QED
    BY <1>5, <1>6 DEF img_write_fails, Exit

\* img_write without memory for its rows.
LEMMA WriteCrashes ==
  ASSUME MainInv, img_write_crashes
  PROVE  MainInv'
  <1>1. /\ stage = "apply" /\ stage' = "crashed" /\ stage' \in Exits
        /\ UNCHANGED <<read_vars, build, c_vars, machine>>
    BY DEF img_write_crashes, Exit, Exits
  <1>2. PICK g : g = heap
    OBVIOUS
  <1>3. HeapOfMain(g, "live")
    BY <1>1, <1>2, HeapInMain
  <1>4. UNCHANGED <<picture, color, build, c_vars, machine>>
    BY <1>1 DEF read_vars
  <1>5. PICK h, h2 :
           /\ h = Gets(g, {"out_file"} \cup Swapped) /\ heap' = h2
           /\ h2 \in {IsNull(h, "filtered"), IsNull(Gets(h, {"filtered"}), "chunk")}
    BY <1>2 DEF img_write_crashes, Exit
  <1>6. /\ h = Gets(g, {"out_file"} \cup Swapped)
        /\ h2 \in {IsNull(h, "filtered"), IsNull(Gets(h, {"filtered"}), "chunk")}
    BY <1>5
  <1>7. \A b \in Blocks : g[b] # "misused"
    BY <1>3 DEF HeapOfMain, Blocks, OutputBlocks, WriteBlocks
  <1>8. DOMAIN h = Blocks /\ \A b \in Blocks : h[b] # "misused"
    BY <1>6, <1>7 DEF Gets
  <1>9. DOMAIN h2 = Blocks /\ \A b \in Blocks : h2[b] # "misused"
    BY <1>6, <1>8 DEF Gets, IsNull
  <1>10. Outcome'
    BY <1>1, <1>5, <1>9, Crashed
  <1> QED
    BY <1>1, <1>4, <1>5, <1>9, <1>10, ExitKeeps

\* img_write succeeds: the rows of the file are those of the output image.
LEMMA Written ==
  ASSUME MainInv, img_write
  PROVE  MainInv'
  <1>1. /\ stage = "apply" /\ stage' = "exit 0" /\ stage' \in Exits /\ pc = "success"
        /\ UNCHANGED <<read_vars, build, c_vars, machine>>
        /\ output_file' \in {png_set_data(output_img), [state |-> "short"],
                             [state |-> "undeflated"]}
    BY DEF img_write, Exit, Exits
  <1>2. PICK g : g = heap
    OBVIOUS
  <1>3. HeapOfMain(g, "live")
    BY <1>1, <1>2, HeapInMain
  <1>4. UNCHANGED <<picture, color, build, c_vars, machine>>
    BY <1>1 DEF read_vars
  <1>5. PICK S, F, h, h2 :
           /\ heap' = h2 /\ S = {"out_file", "filtered", "chunk"} \cup Swapped
           /\ F = S \cup InputImage \cup OutputImage
           /\ h = Gets(g, S) /\ h2 = Free(h, F)
    BY <1>2 DEF img_write, Exit
  <1>6. /\ S = {"out_file", "filtered", "chunk"} \cup Swapped
        /\ F = S \cup InputImage \cup OutputImage /\ h = Gets(g, S) /\ h2 = Free(h, F)
    BY <1>5
  <1>7. S \subseteq WriteBlocks
    BY <1>6 DEF Swapped, WriteBlocks
  <1>8. WhileWriting(g, S, h)
    <2>1. WriteBlocks \subseteq Blocks
      BY DEF WriteBlocks, Blocks
    <2>2. \A b \in WriteBlocks : g[b] = "unset"
      BY <1>3 DEF HeapOfMain
    <2> QED
      BY <1>3, <1>6, <1>7, <2>1, <2>2 DEF Gets, WhileWriting
  <1>9. DOMAIN h2 = Blocks /\ \A b \in Blocks : h2[b] \notin {"misused", "live"}
    BY <1>6, <1>8, ImagesReleased
  <1>10. ExitTellsTruth'
    <2>1. PICK out : out = output_img
      OBVIOUS
    <2>2. /\ out.width \in Nat /\ fn \in Functions
      BY <1>1, <2>1, SuccessWrites DEF MainInv, Pixels, PixelsAre, LoopAt
    <2>3. LittleEndian \in BOOLEAN
      BY ProgramAssumption
    <2>4. RowsToWrite(LittleEndian, out) = [k \in 1..out.height |-> ShownRow(out, 4, k - 1)]
      BY <2>2, <2>3, RowsWritten
    <2>5. PICK rows : rows = RowsToWrite(LittleEndian, out)
      OBVIOUS
    <2>6. png_set_data(out)
          = [state |-> "complete", width |-> out.width, height |-> out.height, rows |-> rows]
      BY <2>5 DEF png_set_data, png_write_ihdr
    <2>7. /\ output_img' = out /\ fn' \in Functions /\ pc' = "success"
      BY <1>1, <2>1, <2>2 DEF c_vars
    <2>8. \/ output_file' = [state |-> "complete", width |-> out.width, height |-> out.height,
                             rows |-> rows]
          \/ output_file' \in {[state |-> "short"], [state |-> "undeflated"]}
      BY <1>1, <2>1, <2>6
    <2>9. CASE output_file' \in {[state |-> "short"], [state |-> "undeflated"]}
      <3>1. output_file'.state = "short" \/ output_file'.state = "undeflated"
        BY <2>9
      <3>2. /\ output_file'.state # "complete"
            /\ output_file'.state \in {"complete", "short", "undeflated"}
        BY <3>1
      <3> QED
        BY <1>1, <2>7, <3>2, Zenon DEF ExitTellsTruth
    <2>10. CASE output_file' = [state |-> "complete", width |-> out.width,
                                height |-> out.height, rows |-> rows]
      <3>1. /\ output_file'.state = "complete" /\ output_file'.width = out.width
            /\ output_file'.height = out.height /\ output_file'.rows = rows
        BY <2>10
      <3>2. output_file'.rows = [k \in 1..output_img'.height |-> ShownRow(output_img', 4, k - 1)]
        BY <2>4, <2>5, <2>7, <3>1, Zenon
      <3> QED
        BY <1>1, <2>7, <3>1, <3>2, Zenon DEF ExitTellsTruth
    <2> QED
      BY <2>8, <2>9, <2>10
  <1>11. Outcome'
    BY <1>1, <1>5, <1>9, <1>10, Ended
  <1> QED
    BY <1>1, <1>4, <1>5, <1>9, <1>11, ExitKeeps

-----------------------------------------------------------------------------
(* img_read                                                                *)

\* What the headers allow.
LEMMA PictureOK ==
  ASSUME Sorts
  PROVE  ImageOK(picture) /\ bpp \in {3, 4}
  BY ImagesAssumption DEF Sorts, ImageOK, bpp

\* While the input file is read.
LEMMA ReadingKeeps ==
  ASSUME MainInv, stage \in Reading, stage' \in {"chunks", "unfilter"},
         UNCHANGED <<picture, color, output_file, build, c_vars, machine>>,
         RowsRead', HeapOK'
  PROVE  MainInv'
  <1>1. Sorts'
    BY DEF MainInv, Sorts, Reading
  <1>2. NotCalled'
    BY DEF MainInv, NotCalled, c_vars, machine, Asm!Entry, Reading
  <1>3. PictureRead' /\ Called'
    BY DEF PictureRead, ReadsThePicture, Called
  <1>4. Pixels' /\ Machine'
    BY FunctionsUnchanged DEF MainInv
  <1>5. Outcome'
    BY DEF MainInv, Outcome, ExitTellsTruth, Exits, Reading
  <1> QED
    BY <1>1, <1>2, <1>3, <1>4, <1>5 DEF MainInv

\* img_read allocates its buffers; none of them is looked at.
LEMMA Opened ==
  ASSUME MainInv, img_read
  PROVE  MainInv'
  <1>1. /\ stage = "open" /\ stage' = "chunks" /\ color # "other"
        /\ UNCHANGED <<read_vars, output_file, build, c_vars, machine>>
    BY DEF img_read
  <1>2. RowsRead'
    BY <1>1 DEF MainInv, RowsRead, Reading, read_vars, c_vars
  <1> DEFINE wanted == IF color = "truecolor" THEN {"pixel_data", "raw"} ELSE {"pixel_data"}
  <1>3a. wanted = IF color = "truecolor" THEN {"pixel_data", "raw"} ELSE {"pixel_data"}
    OBVIOUS
  <1>3b. \E failing \in SUBSET wanted :
            heap' = [b \in Blocks |->
                        CASE b \in failing \cup {"png_data", "zs", "readbuf"} -> "null"
                          [] b \in (wanted \ failing) \cup {"input_img", "in_file"} -> "live"
                          [] OTHER -> heap[b]]
    BY Zenon DEF img_read
  <1> HIDE DEF wanted
  <1>3c. PICK failing \in SUBSET wanted :
            heap' = [b \in Blocks |->
                        CASE b \in failing \cup {"png_data", "zs", "readbuf"} -> "null"
                          [] b \in (wanted \ failing) \cup {"input_img", "in_file"} -> "live"
                          [] OTHER -> heap[b]]
    BY <1>3b, Zenon
  <1>3d. PICK g, h2 : g = heap /\ h2 = heap'
    OBVIOUS
  <1>3e. h2 = [b \in Blocks |->
                        CASE b \in failing \cup {"png_data", "zs", "readbuf"} -> "null"
                          [] b \in (wanted \ failing) \cup {"input_img", "in_file"} -> "live"
                          [] OTHER -> g[b]]
    BY <1>3c, <1>3d
  <1>4. /\ DOMAIN h2 = Blocks
        /\ \A b \in Blocks :
             /\ b \in failing \cup {"png_data", "zs", "readbuf"} => h2[b] = "null"
             /\ b \notin failing \cup {"png_data", "zs", "readbuf"} =>
                  /\ b \in wanted \cup {"input_img", "in_file"} => h2[b] = "live"
                  /\ b \notin wanted \cup {"input_img", "in_file"} => h2[b] = "unset"
    <2>1. \A b \in Blocks : g[b] = "unset"
      BY <1>1, <1>3d DEF MainInv, HeapOK
    <2>2. PICK A, B : A = failing \cup {"png_data", "zs", "readbuf"}
                      /\ B = (wanted \ failing) \cup {"input_img", "in_file"}
      OBVIOUS
    <2>3. h2 = [b \in Blocks |->
                  CASE b \in A -> "null" [] b \in B -> "live" [] OTHER -> g[b]]
      BY <1>3e, <2>2
    <2>3a. DOMAIN h2 = Blocks
      BY <2>3
    <2>3b. A \cap B = {}
      <3>1. wanted \subseteq {"pixel_data", "raw"}
        BY <1>3a
      <3> QED
        BY <1>3c, <2>2, <3>1
    <2>4. ASSUME NEW b \in Blocks
          PROVE  /\ b \in A => h2[b] = "null"
                 /\ b \notin A => (b \in B => h2[b] = "live")
                                  /\ (b \notin B => h2[b] = "unset")
      <3>1. h2[b] = CASE b \in A -> "null" [] b \in B -> "live" [] OTHER -> g[b]
        BY <2>3
      <3> QED
        BY <2>1, <2>3b, <3>1
    <2> QED
      BY <2>2, <2>3a, <2>4
  <1>5. inflating' = inflating /\ color' = color
    BY <1>1 DEF read_vars
  <1>6. inflating = FALSE
    BY <1>1 DEF MainInv, HeapOK
  <1>7. HeapOK'
    <2>1. /\ h2["input_img"] = "live" /\ h2["in_file"] = "live"
          /\ h2["pixel_data"] \in {"live", "null"}
          /\ h2["raw"] \in (IF color = "truecolor" THEN {"live", "null"} ELSE {"unset"})
      BY <1>3a, <1>4 DEF Blocks
    <2>2. h2["readbuf"] = "null" /\ h2["png_data"] = "null" /\ h2["zs"] = "null"
      BY <1>4 DEF Blocks
    <2>3. \A b \in OutputBlocks \cup WriteBlocks : h2[b] = "unset"
      BY <1>3a, <1>4 DEF Blocks, OutputBlocks, WriteBlocks
    <2> QED
      BY <1>1, <1>3d, <1>4, <1>5, <1>6, <2>1, <2>2, <2>3 DEF HeapOK
  <1> QED
    BY <1>1, <1>2, <1>7, ReadingKeeps DEF Reading, read_vars

\* A chunk that is read.
LEMMA ChunkRead ==
  ASSUME MainInv, png_read_idat \/ png_process_chunk_other
  PROVE  MainInv'
  <1>1. /\ stage = "chunks" /\ stage' = "chunks"
        /\ UNCHANGED <<picture, color, row, raw, output_file, build, c_vars, machine>>
    BY DEF png_read_idat, png_process_chunk_other, NextChunk
  <1>2. RowsRead'
    BY <1>1 DEF MainInv, RowsRead, Reading, c_vars
  <1>3. CASE png_process_chunk_other
    <2>1. UNCHANGED <<heap, inflating>>
      BY <1>3 DEF png_process_chunk_other
    <2>2. HeapOK'
      BY <1>1, <2>1 DEF MainInv, HeapOK, Exits
    <2> QED
      BY <1>1, <1>2, <2>2, ReadingKeeps DEF Reading
  <1>4. CASE png_read_idat
    <2>1. PICK g : g = heap
      OBVIOUS
    <2>2. PICK h1, h2 : /\ h1 = Gets(g, {"png_data", "zs"})
                        /\ h2 \in {h1, Gets(Free(h1, {"readbuf"}), {"readbuf"})}
                        /\ heap' = h2
                        /\ h2 = h1 => g.readbuf = "live" \/ g["readbuf"] = "live"
                                      \/ h2 = Gets(Free(h1, {"readbuf"}), {"readbuf"})
      BY <1>4, <2>1 DEF png_read_idat
    <2>3. /\ h1 = Gets(g, {"png_data", "zs"})
          /\ h2 \in {h1, Gets(Free(h1, {"readbuf"}), {"readbuf"})}
      BY <2>2
    <2>4. DOMAIN g = Blocks /\ g["readbuf"] \in {"live", "null"}
      BY <1>1, <2>1 DEF MainInv, HeapOK
    <2>5. /\ DOMAIN h1 = Blocks /\ h1["png_data"] = "live" /\ h1["zs"] = "live"
          /\ \A b \in Blocks \ {"png_data", "zs"} : h1[b] = g[b]
      BY <2>3 DEF Gets, Blocks
    <2>6. PICK f : f = Free(h1, {"readbuf"})
      OBVIOUS
    <2>7. DOMAIN f = Blocks /\ \A b \in Blocks \ {"readbuf"} : f[b] = h1[b]
      BY <2>6, FreedBlock
    <2>8. /\ DOMAIN h2 = Blocks /\ h2["readbuf"] \in {"live", "null"}
          /\ \A b \in Blocks \ {"readbuf"} : h2[b] = h1[b]
      <3>1. CASE h2 = h1
        BY <2>4, <2>5, <3>1 DEF Blocks
      <3>2. CASE h2 = Gets(f, {"readbuf"})
        BY <2>7, <3>2 DEF Gets, Blocks
      <3> QED
        BY <2>3, <2>6, <3>1, <3>2
    <2>9. inflating' = TRUE /\ heap' = h2
      BY <1>4, <2>2 DEF png_read_idat
    <2>10. /\ h2["png_data"] = "live" /\ h2["zs"] = "live"
           /\ \A b \in Blocks \ {"png_data", "zs", "readbuf"} : h2[b] = g[b]
      BY <2>5, <2>8 DEF Blocks
    <2>11. HeapOK'
      <3>1. /\ g["input_img"] = "live" /\ g["in_file"] = "live"
            /\ g["pixel_data"] \in {"live", "null"}
            /\ g["raw"] \in (IF color = "truecolor" THEN {"live", "null"} ELSE {"unset"})
            /\ \A b \in OutputBlocks \cup WriteBlocks : g[b] = "unset"
        BY <1>1, <2>1 DEF MainInv, HeapOK, Exits
      <3>2. /\ h2["input_img"] = "live" /\ h2["in_file"] = "live"
            /\ h2["pixel_data"] \in {"live", "null"}
            /\ h2["raw"] \in (IF color = "truecolor" THEN {"live", "null"} ELSE {"unset"})
            /\ \A b \in OutputBlocks \cup WriteBlocks : h2[b] = "unset"
        BY <2>10, <3>1 DEF Blocks, OutputBlocks, WriteBlocks
      <3> QED
        BY <1>1, <2>8, <2>9, <2>10, <3>2 DEF HeapOK
    <2> QED
      BY <1>1, <1>2, <2>11, ReadingKeeps DEF Reading
  <1> QED
    BY <1>3, <1>4

\* IEND: no rows are unfiltered yet.
LEMMA ChunksDone ==
  ASSUME MainInv, png_done
  PROVE  MainInv'
  <1>1. /\ stage = "chunks" /\ stage' = "unfilter"
        /\ UNCHANGED <<picture, color, row, raw, output_file, build, c_vars, machine>>
    BY DEF png_done, NextChunk
  <1>2. RowsRead'
    <2>1. row = 0 /\ raw = << >> /\ input_img.data = << >> /\ Sorts
      BY <1>1 DEF MainInv, RowsRead, Reading
    <2>2. 0 \in 0..picture.height /\ FirstRows(<< >>, picture, bpp, 0)
      <3>1. PICK w \in Nat, h \in Nat : w = picture.width /\ h = picture.height
        BY <2>1, PictureOK DEF ImageOK
      <3>2. PICK s \in {3, 4} : s = bpp
        BY <2>1, PictureOK
      <3>3. s * w \in Nat /\ 0 \in 0..h
        OBVIOUS
      <3>4. 0 * (s * w) = 0
        BY <3>3
      <3>5. << >> \in Seq(Byte) /\ Len(<< >>) = 0 /\ 1..0 = {}
        OBVIOUS
      <3> QED
        BY <3>1, <3>2, <3>3, <3>4, <3>5 DEF FirstRows
    <2>3. bpp' = bpp
      BY <1>1 DEF bpp
    <2>4. row' = 0 /\ raw' = << >> /\ input_img'.data = << >> /\ picture' = picture
      BY <1>1, <2>1 DEF c_vars
    <2>5. FirstRows(raw', picture', bpp', row') /\ row' \in 0..picture'.height
      BY <2>2, <2>3, <2>4
    <2> QED
      BY <1>1, <2>4, <2>5 DEF RowsRead
  <1>3. PICK g, h1, h2 : /\ g = heap /\ h1 = Free(g, {"readbuf"})
                         /\ h2 = png_end_inflate(h1, inflating) /\ heap' = h2
    BY DEF png_done
  <1>4. h1 = Free(g, {"readbuf"}) /\ h2 = png_end_inflate(h1, inflating)
    BY <1>3
  <1>5. /\ DOMAIN g = Blocks /\ g["readbuf"] \in {"live", "null"} /\ inflating \in BOOLEAN
        /\ g["png_data"] = (IF inflating THEN "live" ELSE "null") /\ g["zs"] = g["png_data"]
        /\ g["input_img"] = "live" /\ g["in_file"] = "live"
        /\ g["pixel_data"] \in {"live", "null"}
        /\ g["raw"] \in (IF color = "truecolor" THEN {"live", "null"} ELSE {"unset"})
        /\ \A b \in OutputBlocks \cup WriteBlocks : g[b] = "unset"
    BY <1>1, <1>3 DEF MainInv, HeapOK, Exits
  <1>6. /\ DOMAIN h1 = Blocks /\ h1["readbuf"] \in {"freed", "null"}
        /\ \A b \in Blocks \ {"readbuf"} : h1[b] = g[b]
    BY <1>4, <1>5 DEF Free, Blocks
  <1>7. /\ DOMAIN h2 = Blocks /\ h2["readbuf"] \in {"freed", "null"}
        /\ h2["zs"] \in {"freed", "null"}
        /\ \A b \in Blocks \ {"readbuf", "zs"} : h2[b] = g[b]
    <2>1. CASE inflating
      <3>1. h2 = Free(h1, {"zs"}) /\ h1["zs"] = "live"
        BY <1>4, <1>5, <1>6, <2>1 DEF png_end_inflate, Blocks
      <3> QED
        BY <1>6, <3>1 DEF Free, Blocks
    <2>2. CASE ~ inflating
      BY <1>4, <1>5, <1>6, <2>2 DEF png_end_inflate, Blocks
    <2> QED
      BY <2>1, <2>2
  <1>8. HeapOK'
    <2>1. /\ h2["input_img"] = "live" /\ h2["in_file"] = "live"
          /\ h2["pixel_data"] \in {"live", "null"} /\ h2["png_data"] \in {"live", "null"}
          /\ h2["raw"] \in (IF color = "truecolor" THEN {"live", "null"} ELSE {"unset"})
          /\ \A b \in OutputBlocks \cup WriteBlocks : h2[b] = "unset"
      BY <1>5, <1>7 DEF Blocks, OutputBlocks, WriteBlocks
    <2> QED
      BY <1>1, <1>3, <1>7, <2>1 DEF HeapOK
  <1> QED
    BY <1>1, <1>2, <1>8, ReadingKeeps DEF Reading

\* What png_unfilter takes for the row above is the one of the picture.
RowAbove(img, stride, r) == IF r = 0 THEN NoRow ELSE ShownRow(img, stride, r - 1)
LineAbove(s, l) == IF s = << >> THEN NoRow ELSE SubSeq(s, Len(s) - l + 1, Len(s))

\* What png_unfilter takes for the row above is the one of the picture.
LEMMA AboveRow ==
  ASSUME NEW img, ImageOK(img), NEW stride \in {3, 4}, NEW r \in 0..(img.height - 1),
         NEW s, FirstRows(s, img, stride, r),
         NEW l, l = img.width * stride
  PROVE  /\ l \in Nat /\ IsRow(ShownRow(img, stride, r), l)
         /\ LineAbove(s, l) = RowAbove(img, stride, r)
         /\ RowAbove(img, stride, r) = NoRow \/ IsRow(RowAbove(img, stride, r), l)
  <1>0. PICK above, prev :
          /\ above = RowAbove(img, stride, r) /\ prev = LineAbove(s, l)
          /\ above = (IF r = 0 THEN NoRow ELSE ShownRow(img, stride, r - 1))
          /\ prev = (IF s = << >> THEN NoRow ELSE SubSeq(s, Len(s) - l + 1, Len(s)))
    BY Zenon DEF RowAbove, LineAbove
  <1>1. PICK w \in Nat, h \in Nat : w = img.width /\ h = img.height
    BY DEF ImageOK
  <1>2. PICK n \in Nat : n = stride * w /\ n = l
    BY <1>1
  <1>3. PICK shown : shown = ShownRow(img, stride, r) /\ IsRow(shown, n)
    BY <1>1, <1>2, ShownRowBytes
  <1>4. prev = above /\ (above = NoRow \/ IsRow(above, n))
    <2>1. CASE r = 0
      <3>1. Len(s) = 0 /\ s \in Seq(Byte)
        <4>1. 0 * (stride * w) = 0
          BY <1>2
        <4> QED
          BY <1>1, <2>1, <4>1 DEF FirstRows
      <3>2. s = << >>
        BY <3>1
      <3> QED
        BY <1>0, <2>1, <3>2
    <2>2. CASE r # 0
      <3>1. r \in 1..(img.height - 1) /\ r - 1 \in 0..(img.height - 1)
        BY <1>1, <2>2
      <3>2. above = ShownRow(img, stride, r - 1)
        BY <1>0, <2>2
      <3>3. prev = above
        <4>1. l \in Nat /\ l = stride * img.width
          BY <1>1, <1>2
        <4>2. PICK q : q = (IF s = << >> THEN << >> ELSE SubSeq(s, Len(s) - l + 1, Len(s)))
          OBVIOUS
        <4>3. q = ShownRow(img, stride, r - 1)
          BY <3>1, <4>1, <4>2, LastRow
        <4>4. prev = q
          BY <1>0, <4>2, Zenon DEF NoRow
        <4> QED
          BY <3>2, <4>3, <4>4
      <3>4. IsRow(above, n)
        BY <1>1, <1>2, <3>1, <3>2, ShownRowBytes
      <3> QED
        BY <3>3, <3>4
    <2> QED
      BY <2>1, <2>2
  <1> QED
    BY <1>0, <1>2, <1>3, <1>4

\* One more row of the picture, whatever filter it went through.
LEMMA RowUnfiltered ==
  ASSUME MainInv, png_unfilter_row
  PROVE  MainInv'
  <1>1. /\ stage = "unfilter" /\ stage' = "unfilter" /\ held = "all" /\ row < picture.height
        /\ row' = row + 1
        /\ UNCHANGED <<picture, color, chunks, held, inflating, readbuflen, heap,
                       output_file, build, c_vars, machine>>
    BY DEF png_unfilter_row, main_vars
  <1>2. /\ Sorts /\ row \in 0..picture.height /\ FirstRows(raw, picture, bpp, row)
        /\ input_img.data = << >>
    BY <1>1 DEF MainInv, RowsRead, Reading
  <1>3. ImageOK(picture) /\ bpp \in {3, 4}
    BY <1>2, PictureOK
  <1>4. PICK img, r, s, stride :
          img = picture /\ r = row /\ s = raw /\ stride = bpp /\ stride \in {3, 4}
    BY <1>3
  <1>5. /\ ImageOK(img) /\ FirstRows(s, img, stride, r)
        /\ r \in 0..img.height /\ r < img.height
    BY <1>1, <1>2, <1>3, <1>4
  <1>6. r \in 0..(img.height - 1) /\ r + 1 \in 0..img.height
    BY <1>5 DEF ImageOK
  <1>7. PICK filter \in FilterTypes :
          LET above == IF row = 0 THEN NoRow ELSE ShownRow(picture, bpp, row - 1)
              in == Filtered(filter, bpp, ShownRow(picture, bpp, row), above)
              prev_line == IF raw = << >> THEN NoRow
                           ELSE SubSeq(raw, Len(raw) - RowLength + 1, Len(raw))
          IN  raw' = raw \o unfiltered(filter, bpp, in, prev_line)
    BY DEF png_unfilter_row
  <1>8. PICK above, prev, l :
          above = RowAbove(img, stride, r) /\ prev = LineAbove(s, l) /\ l = img.width * stride
    OBVIOUS
  <1>9. raw' = s \o unfiltered(filter, stride, Filtered(filter, stride, ShownRow(img, stride, r), above), prev)
    BY <1>4, <1>7, <1>8, Zenon DEF RowLength, RowAbove, LineAbove
  <1>9a. l = img.width * stride /\ stride \in {3, 4}
    BY <1>4, <1>8
  <1>9b. /\ l \in Nat /\ IsRow(ShownRow(img, stride, r), l)
         /\ prev = above /\ (above = NoRow \/ IsRow(above, l))
    BY <1>5, <1>6, <1>8, <1>9a, AboveRow
  <1>9c. PICK shown : shown = ShownRow(img, stride, r)
    OBVIOUS
  <1>9d. /\ l \in Nat /\ stride \in Nat \ {0} /\ IsRow(shown, l)
         /\ above = NoRow \/ IsRow(above, l)
    BY <1>9a, <1>9b, <1>9c
  <1>9e. unfiltered(filter, stride, Filtered(filter, stride, shown, above), above) = shown
    BY <1>9d, UnfilteredIsShown
  <1>10. unfiltered(filter, stride, Filtered(filter, stride, ShownRow(img, stride, r), above), prev)
         = ShownRow(img, stride, r)
    BY <1>9b, <1>9c, <1>9e, Zenon
  <1>11. FirstRows(s \o ShownRow(img, stride, r), img, stride, r + 1)
    BY <1>5, <1>6, <1>9a, OneRowMore
  <1>12. /\ raw' = s \o ShownRow(img, stride, r) /\ row' = r + 1
         /\ picture' = img /\ bpp' = stride /\ stage' = "unfilter" /\ input_img'.data = << >>
    <2>1. bpp' = bpp
      BY <1>1 DEF bpp
    <2> QED
      BY <1>1, <1>2, <1>4, <1>9, <1>10, <2>1 DEF c_vars
  <1>13. RowsRead'
    BY <1>6, <1>11, <1>12 DEF RowsRead
  <1>14. HeapOK'
    BY <1>1 DEF MainInv, HeapOK, Exits
  <1> QED
    BY <1>1, <1>13, <1>14, ReadingKeeps DEF Reading

\* The picture that img_read hands over.
LEMMA PictureIsRead ==
  ASSUME MainInv, img_read_returns
  PROVE  /\ ImageOK(input_img')
         /\ input_img'.width = picture.width /\ input_img'.height = picture.height
         /\ held = "all" =>
              input_img'.data = [k \in DOMAIN picture.data |->
                                   IF color = "truecolor" THEN [picture.data[k] EXCEPT !.a = 255]
                                   ELSE picture.data[k]]
  <1>1. /\ stage = "unfilter" /\ (held = "all" => row = picture.height)
        /\ Sorts /\ LittleEndian \in BOOLEAN
    BY ProgramAssumption DEF MainInv, img_read_returns
  <1>2. ImageOK(picture) /\ bpp \in {3, 4}
    BY <1>1, PictureOK
  <1>3. PICK img, s, n : img = picture /\ s = raw /\ n = num_pixels
    OBVIOUS
  <1>4. ImageOK(img) /\ n = img.width * img.height /\ img.data \in [0..(n - 1) -> Pixel]
    BY <1>2, <1>3 DEF num_pixels, ImageOK
  <1>5. PICK p \in Leftover :
          input_img' =
            [width |-> picture.width, height |-> picture.height,
             data |-> IF held # "all" THEN [k \in 0..(num_pixels - 1) |-> p]
                      ELSE IF color = "truecolor" THEN ExpandTruecolor(raw, num_pixels)
                      ELSE SwapTruecolorAlpha(LittleEndian, raw, num_pixels)]
    BY Zenon DEF img_read_returns
  <1>6. p \in Pixel
    BY ProgramAssumption
  <1>7. input_img'.width = img.width /\ input_img'.height = img.height
    BY <1>3, <1>5
  <1>8. CASE held # "all"
    <2>1. input_img'.data = [k \in 0..(n - 1) |-> p]
      BY <1>3, <1>5, <1>8
    <2>2. input_img'.data \in [0..(n - 1) -> Pixel]
      BY <1>6, <2>1
    <2> QED
      BY <1>3, <1>4, <1>7, <1>8, <2>2 DEF ImageOK
  <1>9. CASE held = "all" /\ color = "truecolor"
    <2>1. input_img'.data = ExpandTruecolor(s, n)
      BY <1>3, <1>5, <1>9
    <2>2. FirstRows(s, img, 3, img.height)
      <3>1. FirstRows(raw, picture, bpp, row) /\ bpp = 3 /\ row = picture.height
        BY <1>1, <1>9 DEF MainInv, RowsRead, bpp
      <3> QED
        BY <1>3, <3>1
    <2>3. ExpandTruecolor(s, n) = [k \in 0..(n - 1) |-> [img.data[k] EXCEPT !.a = 255]]
      BY <1>4, <2>2, ExpandedPicture
    <2>4. \A k \in 0..(n - 1) : [img.data[k] EXCEPT !.a = 255] \in Pixel
      <3> SUFFICES ASSUME NEW k \in 0..(n - 1), NEW q, q = img.data[k]
                   PROVE  [q EXCEPT !.a = 255] \in Pixel
        OBVIOUS
      <3>1. q \in [r : 0..255, g : 0..255, b : 0..255, a : 0..255] /\ 255 \in 0..255
        <4>1. q \in Pixel
          BY <1>4
        <4> QED
          BY <4>1 DEF Pixel
      <3> QED
        BY <3>1 DEF Pixel
    <2>5. input_img'.data \in [0..(n - 1) -> Pixel]
      BY <2>1, <2>3, <2>4
    <2>6. DOMAIN picture.data = 0..(n - 1)
      BY <1>3, <1>4
    <2>7. input_img'.data = [k \in DOMAIN picture.data |-> [picture.data[k] EXCEPT !.a = 255]]
      BY <1>3, <2>1, <2>3, <2>6, Zenon
    <2>8. ImageOK(input_img')
      BY <1>4, <1>7, <2>5 DEF ImageOK
    <2> QED
      BY <1>3, <1>7, <1>9, <2>7, <2>8
  <1>10. CASE held = "all" /\ color # "truecolor"
    <2>1. input_img'.data = SwapTruecolorAlpha(LittleEndian, s, n)
      BY <1>3, <1>5, <1>10
    <2>2. FirstRows(s, img, 4, img.height)
      <3>1. FirstRows(raw, picture, bpp, row) /\ bpp = 4 /\ row = picture.height
        BY <1>1, <1>10 DEF MainInv, RowsRead, bpp
      <3> QED
        BY <1>3, <3>1
    <2>3. SwapTruecolorAlpha(LittleEndian, s, n) = img.data
      BY <1>1, <1>4, <2>2, SwappedPicture
    <2>4. picture.data = [k \in DOMAIN picture.data |-> picture.data[k]]
      BY <1>3, <1>4
    <2>5. ImageOK(input_img')
      BY <1>4, <1>7, <2>1, <2>3 DEF ImageOK
    <2> QED
      BY <1>3, <1>7, <1>10, <2>1, <2>3, <2>4, <2>5
  <1> QED
    BY <1>8, <1>9, <1>10

\* img_read returns with the picture.
LEMMA ReadReturns ==
  ASSUME MainInv, img_read_returns
  PROVE  MainInv'
  <1>1. /\ stage = "unfilter" /\ stage' = "create" /\ row' = 0 /\ raw' = << >> /\ chunks' = 0
        /\ UNCHANGED <<picture, color, held, inflating, readbuflen, output_file, build,
                       fn, output_img, pc, i, machine>>
        /\ CanStore("pixel_data")
    BY DEF img_read_returns
  <1>2. PICK g, h2, F : /\ g = heap /\ heap' = h2
                        /\ F = {"png_data", "in_file"} \cup (IF color = "truecolor" THEN {"raw"} ELSE {})
                        /\ h2 = Free(g, F)
    BY DEF img_read_returns
  <1>3. Sorts'
    BY <1>1 DEF MainInv, Sorts, Reading
  <1>4. NotCalled'
    BY <1>1 DEF MainInv, NotCalled, machine, Asm!Entry, Reading
  <1>5. RowsRead'
    BY <1>1 DEF RowsRead, Reading
  <1>6. PictureRead'
    BY <1>1, PictureIsRead DEF PictureRead, ReadsThePicture
  <1>7. Called'
    BY <1>1 DEF Called
  <1>8. Machine'
    BY <1>1 DEF MainInv, NotCalled, Reading, Machine
  <1>9. Pixels'
    <2>1. pc = "call" /\ pc' = "call" /\ build' = "c" /\ i' = 0 /\ output_img.data = << >>
          /\ output_img = [width |-> output_img.width, height |-> output_img.height,
                           data |-> output_img.data]
          /\ output_img' = output_img
      BY <1>1 DEF MainInv, NotCalled, Reading
    <2>2. Turned' = 0
      BY <2>1 DEF Turned
    <2> QED
      BY <2>1, <2>2 DEF Pixels, PixelsAre
  <1>10. HeapOK'
    <2>1. /\ DOMAIN g = Blocks /\ g["input_img"] = "live" /\ g["in_file"] = "live"
          /\ g["pixel_data"] \in {"live", "null"} /\ g["png_data"] \in {"live", "null"}
          /\ g["raw"] \in (IF color = "truecolor" THEN {"live", "null"} ELSE {"unset"})
          /\ g["readbuf"] \in {"freed", "null"} /\ g["zs"] \in {"freed", "null"}
          /\ \A b \in OutputBlocks \cup WriteBlocks : g[b] = "unset"
      BY <1>1, <1>2 DEF MainInv, HeapOK, Exits
    <2>2. h2 = Free(g, F) /\ F = {"png_data", "in_file"} \cup (IF color = "truecolor" THEN {"raw"} ELSE {})
      BY <1>2
    <2>3. /\ DOMAIN h2 = Blocks
          /\ \A b \in Blocks \ F : h2[b] = g[b]
          /\ \A b \in F \cap Blocks : g[b] = "live" => h2[b] = "freed"
          /\ \A b \in F \cap Blocks : g[b] = "null" => h2[b] = "null"
      BY <2>2, FreedBlock
    <2>4. /\ h2["input_img"] = "live" /\ h2["pixel_data"] \in {"live", "null"}
          /\ h2["in_file"] = "freed" /\ h2["png_data"] \in {"freed", "null"}
          /\ h2["readbuf"] \in {"freed", "null"} /\ h2["zs"] \in {"freed", "null"}
      BY <2>1, <2>2, <2>3 DEF Blocks
    <2>5. h2["raw"] \in {"freed", "null", "unset"}
      <3>1. CASE color = "truecolor"
        BY <2>1, <2>2, <2>3, <3>1 DEF Blocks
      <3>2. CASE color # "truecolor"
        BY <2>1, <2>2, <2>3, <3>2 DEF Blocks
      <3> QED
        BY <3>1, <3>2
    <2>6. \A b \in OutputBlocks \cup WriteBlocks : h2[b] = "unset"
      <3>1. \A b \in OutputBlocks \cup WriteBlocks : b \in Blocks \ F
        BY <2>2 DEF Blocks, OutputBlocks, WriteBlocks
      <3> QED
        BY <2>1, <2>3, <3>1
    <2>7. HeapOfMain(h2, "unset")
      BY <2>3, <2>4, <2>5, <2>6 DEF HeapOfMain
    <2>8. heap' = h2
      BY <1>2
    <2> QED
      BY <1>1, <2>7, <2>8 DEF HeapOK, HeapOfMain
  <1>11. Outcome'
    BY <1>1 DEF MainInv, Outcome, ExitTellsTruth, Exits
  <1> QED
    BY <1>3, <1>4, <1>5, <1>6, <1>7, <1>8, <1>9, <1>10, <1>11 DEF MainInv

-----------------------------------------------------------------------------
(* The call of a function                                                  *)

\* main has an output image and calls a function.
LEMMA OutputCreated ==
  ASSUME MainInv, create_output
  PROVE  MainInv'
  <1>1. /\ stage = "create" /\ stage' = "apply"
        /\ fn' \in Functions \cup {"unknown"} /\ build' \in {"c", "asm"}
        /\ output_img' = create_output_img(input_img, fn')
        /\ heap' = Gets(heap, OutputImage)
        /\ UNCHANGED <<read_vars, output_file, input_img, pc, i, machine>>
    BY DEF create_output
  <1>2. /\ fn = "none" /\ pc = "call" /\ i = 0 /\ Asm!Entry
        /\ pc' = "call" /\ i' = 0
    BY <1>1 DEF MainInv, NotCalled
  <1>3. UNCHANGED <<picture, color, held, row, raw, inflating>>
    BY <1>1 DEF read_vars
  <1>4. Sorts'
    BY <1>1, <1>3 DEF MainInv, Sorts
  <1>5. NotCalled' /\ RowsRead'
    BY <1>1 DEF NotCalled, RowsRead, Reading
  <1>6. PictureRead'
    BY <1>1, <1>3 DEF MainInv, PictureRead, ReadsThePicture
  <1>7. Called'
    <2>1. output_img' = create_output_img(input_img', fn')
      BY <1>1
    <2> QED
      BY <1>1, <2>1 DEF Called
  <1>8. Asm!Entry'
    BY <1>1, <1>2 DEF machine, Asm!Entry
  <1>9. Machine'
    <2>1. RegistersOK'
      BY <1>2, <1>8 DEF RegistersOK, Asm!Entry
    <2>2. StackOK'
      BY <1>2, <1>8 DEF StackOK, Asm!Entry, Asm!EntryKept
    <2> QED
      BY <2>1, <2>2 DEF Machine
  <1>10. Pixels'
    <2>1. Turned' = 0
      <3>1. Asm!Turns' = 0
        BY <1>2 DEF Asm!Turns, Asm!InLoop
      <3> QED
        BY <1>2, <3>1 DEF Turned
    <2>2. /\ output_img' = [width |-> output_img'.width, height |-> output_img'.height,
                            data |-> output_img'.data]
          /\ output_img'.data = << >>
      BY <1>1 DEF create_output_img
    <2> QED
      BY <1>2, <2>1, <2>2 DEF Pixels, PixelsAre
  <1>11. PICK g, h2 : g = heap /\ h2 = Gets(g, OutputImage) /\ heap' = h2
    BY <1>1
  <1>12. HeapOfMain(g, "unset") /\ output_file.state = "untouched"
    BY <1>1, <1>11, HeapInMain
  <1>13. HeapOfMain(h2, "live")
    <2>1. DOMAIN h2 = Blocks /\ \A b \in Blocks : h2[b] = IF b \in OutputImage THEN "live" ELSE g[b]
      BY <1>11, GottenBlock
    <2>2. OutputImage = OutputBlocks
      BY DEF OutputImage, OutputBlocks
    <2>3. /\ OutputBlocks \subseteq Blocks /\ WriteBlocks \subseteq Blocks \ OutputBlocks
          /\ {"input_img", "pixel_data", "raw", "png_data", "zs", "readbuf", "in_file"}
             \subseteq Blocks \ OutputBlocks
      BY DEF Blocks, OutputBlocks, WriteBlocks
    <2>4. \A b \in Blocks \ OutputBlocks : h2[b] = g[b]
      BY <2>1, <2>2
    <2>5. \A b \in OutputBlocks : h2[b] = "live"
      BY <2>1, <2>2, <2>3
    <2> QED
      BY <1>12, <2>1, <2>3, <2>4, <2>5 DEF HeapOfMain
  <1>14. HeapOK'
    BY <1>1, <1>11, <1>13 DEF HeapOK, HeapOfMain
  <1>15. Outcome'
    BY <1>1, <1>12 DEF Outcome, ExitTellsTruth, Exits
  <1> QED
    BY <1>4, <1>5, <1>6, <1>7, <1>9, <1>10, <1>14, <1>15 DEF MainInv

\* What a step of a function leaves alone.
LEMMA InApply ==
  ASSUME MainInv, stage = "apply", UNCHANGED <<read_vars, main_vars, fn, input_img>>,
         pc' # "call", Pixels', Machine'
  PROVE  MainInv'
  <1>1. UNCHANGED <<picture, color, chunks, held, inflating, readbuflen, row, raw,
                    stage, heap, output_file, build, fn, input_img>>
    BY DEF read_vars, main_vars
  <1>2. Sorts'
    BY <1>1 DEF MainInv, Sorts
  <1>3. NotCalled' /\ RowsRead'
    BY <1>1 DEF NotCalled, RowsRead, Reading
  <1>4. PictureRead'
    BY <1>1 DEF MainInv, PictureRead, ReadsThePicture
  <1>5. Called'
    BY <1>1 DEF MainInv, Called
  <1>6. HeapOK'
    BY <1>1 DEF MainInv, HeapOK, Exits
  <1>7. Outcome'
    BY <1>1 DEF MainInv, Outcome, ExitTellsTruth, Exits
  <1> QED
    BY <1>2, <1>3, <1>4, <1>5, <1>6, <1>7 DEF MainInv

\* In main a function in assembly finds what it relies on.
LEMMA ReadyInMain ==
  ASSUME MainInv, stage = "apply", build = "asm", fn \in Functions
  PROVE  /\ Ready
         /\ pc = "call" => output_img = create_output_img(input_img, fn)
         /\ Area(input_img) = num_pixels
  <1>1. RegistersOK /\ StackOK
    BY DEF MainInv, Machine
  <1>2. PixelsAre(fn, input_img, output_img, pc, Asm!Turns)
    BY DEF MainInv, Pixels, Turned
  <1>3. /\ ImageOK(input_img)
        /\ pc = "call" => output_img = create_output_img(input_img, fn)
        /\ input_img.width = picture.width /\ input_img.height = picture.height
    BY DEF MainInv, PictureRead, Called
  <1> QED
    BY <1>1, <1>2, <1>3 DEF Ready, Area, num_pixels

\* A step of a transformation, in C or in assembly.
LEMMA Applied ==
  ASSUME MainInv, apply
  PROVE  MainInv'
  <1>1. stage = "apply" /\ fn \in Functions /\ UNCHANGED <<read_vars, main_vars>> /\ build' = build
    BY DEF apply, main_vars
  <1>2. CASE /\ build = "c" /\ UNCHANGED machine
             /\ Call \/ imgproc_grayscale \/ imgproc_rgb \/ imgproc_fade
                \/ imgproc_kaleidoscope \/ Return
    <2>1. PixelsAre(fn, input_img, output_img, pc, i) /\ ImageOK(input_img)
      BY <1>1, <1>2 DEF MainInv, Pixels, Turned, PictureRead
    <2>2. Enters(i, i') \/ Draws(i, i') \/ Returns(i, i')
      BY <1>1, <1>2, <2>1, CSteps
    <2>3. PixelsAre(fn', input_img', output_img', pc', i')
      BY <1>1, <2>1, <2>2, StepKeepsPixels
    <2>4. Pixels' /\ Machine'
      BY <1>1, <1>2, <2>3 DEF Pixels, Turned, Machine
    <2>5. pc' # "call" /\ UNCHANGED <<fn, input_img>>
      BY <2>2 DEF Enters, Draws, Returns
    <2> QED
      BY <1>1, <2>4, <2>5, InApply
  <1>3. CASE build = "asm" /\ Asm!Next
    <2>1. Ready
      BY <1>1, <1>3, ReadyInMain
    <2>2. /\ UNCHANGED <<fn, input_img>> /\ RegistersOK' /\ StackOK'
          /\ PixelsAre(fn', input_img', output_img', pc', Asm!Turns')
          /\ pc' \in {"loop", "success", "failure", "undefined"}
      BY <1>3, <2>1, AsmKeeps
    <2>3. Pixels' /\ Machine' /\ pc' # "call"
      BY <1>1, <1>3, <2>2 DEF Pixels, Turned, Machine
    <2> QED
      BY <1>1, <2>2, <2>3, InApply
  <1> QED
    BY <1>2, <1>3 DEF apply

-----------------------------------------------------------------------------
(* The program                                                             *)

\* The program starts.
LEMMA MainStarts ==
  ASSUME MainInit
  PROVE  MainInv
  <1>1. /\ stage = "open" /\ build = "c" /\ fn = "none" /\ pc = "call" /\ i = 0
        /\ picture \in Images /\ color \in {"truecolor", "truecolor_alpha", "other"}
        /\ heap = [b \in Blocks |-> "unset"] /\ inflating = FALSE /\ row = 0 /\ raw = << >>
        /\ output_file = [state |-> "untouched"] /\ Asm!Entry
        /\ input_img = [width |-> 0, height |-> 0, data |-> << >>] /\ output_img = input_img
    BY DEF MainInit, png_read_ihdr
  <1>2. Sorts /\ RowsRead /\ PictureRead /\ Called
    BY <1>1 DEF Sorts, RowsRead, PictureRead, ReadsThePicture, Called, Reading
  <1>3. NotCalled
    BY <1>1 DEF NotCalled
  <1>4. Pixels /\ Machine
    BY <1>1, <1>3 DEF Pixels, PixelsAre, Turned, Machine, NotCalled, Reading
  <1>5. HeapOK
    BY <1>1 DEF HeapOK, Blocks, WriteBlocks, Exits
  <1>6. Outcome
    BY <1>1 DEF Outcome, ExitTellsTruth, Exits
  <1> QED
    BY <1>2, <1>3, <1>4, <1>5, <1>6 DEF MainInv

\* Nothing changes.
LEMMA MainStutters ==
  ASSUME MainInv, UNCHANGED all_vars
  PROVE  MainInv'
  <1>1. UNCHANGED <<picture, color, chunks, held, inflating, readbuflen, row, raw,
                    stage, heap, output_file, build, c_vars, machine>>
    BY DEF all_vars, read_vars, main_vars
  <1>2. UNCHANGED <<fn, input_img, output_img, pc, i>>
    BY <1>1 DEF c_vars
  <1>3. Pixels' /\ Machine'
    BY <1>1, FunctionsUnchanged DEF MainInv
  <1>4. Sorts' /\ RowsRead' /\ PictureRead' /\ Called'
    <2>1. bpp' = bpp
      BY <1>1 DEF bpp
    <2> QED
      BY <1>1, <1>2, <2>1 DEF MainInv, Sorts, RowsRead, PictureRead, ReadsThePicture, Called
  <1>5. NotCalled'
    BY <1>1, <1>2 DEF MainInv, NotCalled, machine, Asm!Entry
  <1>6. HeapOK'
    BY <1>1 DEF MainInv, HeapOK
  <1>7. Outcome'
    BY <1>1, <1>2 DEF MainInv, Outcome, ReleasedAtExit, ExitTellsTruth
  <1> QED
    BY <1>3, <1>4, <1>5, <1>6, <1>7 DEF MainInv

\* Every step keeps the invariant.
LEMMA MainKeeps ==
  ASSUME MainInv, MainNext
  PROVE  MainInv'
  BY OpenFails, Opened, ChunkRead, ChunksDone, GetDataFails, ChunkFails, RowUnfiltered,
     UnfilterFails, ReadReturns, OutputCreated, CreateFails, Applied, ApplyEnds, WriteFails,
     WriteCrashes, Written
     DEF MainNext

\* The invariant of the program: what has been read is the picture of the file,
\* what has been written is what the function should write, in C and in assembly,
\* and who owns which block and FILE.
THEOREM MainInvariance == MainSpec => []MainInv
  <1>1. MainInit => MainInv
    BY MainStarts
  <1>2. MainInv /\ [MainNext]_all_vars => MainInv'
    BY MainKeeps, MainStutters
  <1> QED
    BY <1>1, <1>2, PTL DEF MainSpec

\* What a function has written when it returns in main.
LEMMA WhatMainWrites ==
  ASSUME MainInv
  PROVE  FourReplicas /\ GrayIsBetween /\ FadesFromTheMiddle /\ WedgesMirrorA
  <1>1. PixelsAre(fn, input_img, output_img, pc, Turned)
    BY DEF MainInv, Pixels
  <1> QED
    BY <1>1, SuccessWrites

\* c_imgproc_fns.c:129, asm_imgproc_fns.S:221: the output shows the input four
\* times, every pixel written, in both programs and on any image.
THEOREM ReplicasInMain == MainSpec => []FourReplicas
  <1>1. MainInv => FourReplicas
    BY WhatMainWrites
  <1> QED
    BY <1>1, MainInvariance, PTL

\* c_imgproc_fns.c:84, asm_imgproc_fns.S:116: gray is between the darkest and
\* the brightest component, in both programs and on any image.
THEOREM GrayInMain == MainSpec => []GrayIsBetween
  <1>1. MainInv => GrayIsBetween
    BY WhatMainWrites
  <1> QED
    BY <1>1, MainInvariance, PTL

\* c_imgproc_fns.c:186: fading dims towards the borders, the first row and column
\* to black, and of two pixels the one nearer to the middle stays the brighter, in
\* both programs, on any image and for any unit of the gradient.
THEOREM FadeInMain == MainSpec => []FadesFromTheMiddle
  <1>1. MainInv => FadesFromTheMiddle
    BY WhatMainWrites
  <1> QED
    BY <1>1, MainInvariance, PTL

\* c_imgproc_fns.c:249: wedge A is kept, and an even width is mirrored in all four
\* lines, in both programs and for any size.
THEOREM WedgesInMain == MainSpec => []WedgesMirrorA
  <1>1. MainInv => WedgesMirrorA
    BY WhatMainWrites
  <1> QED
    BY <1>1, MainInvariance, PTL

\* pnglite.c:587 and image.c:61: what img_read hands over are the pixels of the
\* file, whatever its filters and chunks.
THEOREM PictureInMain == MainSpec => []ReadsThePicture
  <1>1. MainInv => ReadsThePicture
    BY DEF MainInv, PictureRead
  <1> QED
    BY <1>1, MainInvariance, PTL

\* asm_imgproc_fns.S: rsp and rbp are the caller's again when a function returns.
THEOREM StackInMain == MainSpec => []StackIsBalanced
  <1>1. MainInv => StackIsBalanced
    <2> SUFFICES ASSUME MainInv, build = "asm" PROVE Asm!StackIsBalanced
      BY DEF StackIsBalanced
    <2> QED
      BY DEF MainInv, Machine, StackOK, Asm!StackIsBalanced
  <1> QED
    BY <1>1, MainInvariance, PTL

\* c_imgproc_main.c, image.c and pnglite.c free every block once, and all of them
\* but those that ReleasedAtExit names.
THEOREM ReleasedInMain == MainSpec => []ReleasedAtExit
  <1>1. MainInv => ReleasedAtExit
    <2> SUFFICES ASSUME MainInv PROVE ReleasedAtExit
      OBVIOUS
    <2>1. CASE stage \in Exits
      BY <2>1 DEF MainInv, Outcome
    <2>2. CASE stage \notin Exits
      <3>1. \A b \in Blocks : heap[b] # "misused"
        BY <2>2, NothingMisused DEF MainInv
      <3> QED
        BY <2>2, <3>1 DEF ReleasedAtExit, Exits
    <2> QED
      BY <2>1, <2>2
  <1> QED
    BY <1>1, MainInvariance, PTL

\* c_imgproc_main.c:121: the exit status and the output file agree, up to a disk
\* that is full.
THEOREM TruthInMain == MainSpec => []ExitTellsTruth
  <1>1. MainInv => ExitTellsTruth
    BY DEF MainInv, Outcome
  <1> QED
    BY <1>1, MainInvariance, PTL

\* A step of the program while a function in assembly runs.
LEMMA BothAlike ==
  ASSUME MainInv, [MainNext]_all_vars, stage = "apply", build = "asm", num_pixels > 0
  PROVE  [Asm!C!Next]_<<fn, input_img, output_img, pc, Asm!Turns>>
  <1>1. CASE UNCHANGED <<c_vars, machine>>
    <2>1. Asm!Turns' = Asm!Turns
      BY <1>1 DEF c_vars, machine, Asm!Turns, Asm!InLoop, Asm!RgbDone
    <2> QED
      BY <1>1, <2>1 DEF c_vars
  <1>2. CASE apply
    <2>1. fn \in Functions /\ Asm!Next
      BY <1>2 DEF apply
    <2>2. Ready /\ Area(input_img) > 0
          /\ (pc = "call" => output_img = create_output_img(input_img, fn))
      BY <2>1, ReadyInMain
    <2>3. Asm!C!Next
      BY <2>1, <2>2, AsmImplementsC
    <2> QED
      BY <2>3
  <1>3. apply \/ UNCHANGED <<c_vars, machine>>
    <2>1. CASE MainNext
      <3>1. CASE unknown_transformation \/ apply_fails \/ img_write_fails \/ img_write_crashes
                 \/ img_write
        BY <3>1 DEF unknown_transformation, apply_fails, img_write_fails, img_write_crashes,
                    img_write
      <3>2. CASE apply
        BY <3>2
      <3> QED
        BY <2>1, <3>1, <3>2 DEF MainNext, input_img_fails, png_open_file_read_fails,
           png_open_read_fails, not_truecolor, img_read, png_read_idat,
           png_process_chunk_other, png_process_chunk_eof, png_init_inflate_fails,
           png_read_idat_fails, png_done, NextChunk, png_unfilter_row, png_unknown_filter,
           img_read_returns, img_read_crashes, create_output, create_output_fails
    <2>2. CASE UNCHANGED all_vars
      BY <2>2 DEF all_vars
    <2> QED
      BY <2>1, <2>2
  <1> QED
    BY <1>1, <1>2, <1>3

\* asm_imgproc_fns.S and c_imgproc_fns.c transform alike wherever main calls them.
THEOREM BuildsAgreeInMain == MainSpec => BuildsAgree
  <1>1. MainInv /\ [MainNext]_all_vars
        => [stage = "apply" /\ build = "asm" /\ num_pixels > 0 =>
             [Asm!C!Next]_<<fn, input_img, output_img, pc, Asm!Turns>>]_all_vars
    BY BothAlike
  <1> QED
    BY <1>1, MainInvariance, PTL DEF MainSpec, BuildsAgree

-----------------------------------------------------------------------------
(* The functions in assembly by themselves                                 *)

AsmInv ==
  /\ Ready /\ input_img \in Images
  /\ pc = "call" => output_img = create_output_img(input_img, fn)

\* A call of a function in assembly.
LEMMA AsmStarts ==
  ASSUME Asm!Init
  PROVE  AsmInv /\ Asm!C!Init
  <1>1. Asm!C!Init /\ Asm!Entry
    BY DEF Asm!Init
  <1>2. /\ pc = "call" /\ fn \in Functions /\ input_img \in Images
        /\ output_img = create_output_img(input_img, fn)
    BY <1>1 DEF Asm!C!Init, Asm!C!Functions, Functions, Asm!C!create_output_img, create_output_img
  <1>3. ImageOK(input_img)
    BY <1>2, ImagesAssumption DEF ImageOK
  <1>4. RegistersOK /\ StackOK
    BY <1>1, <1>2 DEF RegistersOK, StackOK, Asm!Entry, Asm!EntryKept
  <1>5. PixelsAre(fn, input_img, output_img, pc, Asm!Turns)
    <2>1. Asm!Turns = 0
      BY <1>2, TurnsDone
    <2>2. /\ output_img = [width |-> output_img.width, height |-> output_img.height,
                           data |-> output_img.data]
          /\ output_img.data = << >>
      BY <1>2 DEF create_output_img
    <2> QED
      BY <1>2, <2>1, <2>2 DEF PixelsAre
  <1> QED
    BY <1>1, <1>2, <1>3, <1>4, <1>5 DEF AsmInv, Ready

\* Its steps.
LEMMA AsmInvKept ==
  ASSUME AsmInv, [Asm!Next]_(Asm!asm_vars)
  PROVE  AsmInv'
  <1>1. CASE Asm!Next
    <2>1. /\ UNCHANGED <<fn, input_img>> /\ Ready'
          /\ pc' \in {"loop", "success", "failure", "undefined"}
      BY <1>1, AsmKeeps DEF AsmInv
    <2> QED
      BY <2>1 DEF AsmInv
  <1>2. CASE UNCHANGED Asm!asm_vars
    <2>1. UNCHANGED <<fn, input_img, output_img, pc, machine>>
      BY <1>2 DEF Asm!asm_vars, machine
    <2>2. Asm!Turns' = Asm!Turns
      BY <2>1 DEF machine, Asm!Turns, Asm!InLoop, Asm!RgbDone
    <2>3. RegistersOK' /\ StackOK'
      BY <2>1 DEF AsmInv, Ready, RegistersOK, StackOK, Holds, machine, Asm!Entry, Asm!StackIsBalanced
    <2>4. PixelsAre(fn', input_img', output_img', pc', Asm!Turns')
      BY <2>1, <2>2 DEF AsmInv, Ready
    <2>5. Ready'
      BY <2>1, <2>3, <2>4 DEF AsmInv, Ready
    <2> QED
      BY <2>1, <2>5 DEF AsmInv
  <1> QED
    BY <1>1, <1>2

\* Each of them is one of the function in C, or none.
LEMMA AsmStepIsC ==
  ASSUME AsmInv, [Asm!Next]_(Asm!asm_vars), \A img \in Images : Area(img) > 0
  PROVE  [Asm!C!Next]_(Asm!C!vars)
  <1>1. CASE Asm!Next
    <2>1. Ready /\ Area(input_img) > 0
          /\ (pc = "call" => output_img = create_output_img(input_img, fn))
      BY DEF AsmInv
    <2>2. Asm!C!Next
      BY <1>1, <2>1, AsmImplementsC
    <2> QED
      BY <2>2
  <1>2. CASE UNCHANGED Asm!asm_vars
    <2>1. UNCHANGED <<fn, input_img, output_img, pc, machine>>
      BY <1>2 DEF Asm!asm_vars, machine
    <2>2. Asm!Turns' = Asm!Turns
      BY <2>1 DEF machine, Asm!Turns, Asm!InLoop, Asm!RgbDone
    <2> QED
      BY <2>1, <2>2 DEF Asm!C!vars
  <1> QED
    BY <1>1, <1>2

\* The invariant of one call: registers, stack and pixels.
THEOREM AsmInvariance == Asm!Spec => []AsmInv
  <1>1. Asm!Init => AsmInv
    BY AsmStarts
  <1>2. AsmInv /\ [Asm!Next]_(Asm!asm_vars) => AsmInv'
    BY AsmInvKept
  <1> QED
    BY <1>1, <1>2, PTL DEF Asm!Spec

\* asm_imgproc_fns.S implements c_imgproc_fns.c, pixel by pixel, on images that
\* are not empty: on an empty one the division of gradient is not defined.
THEOREM AsmRefinesC ==
  ASSUME \A img \in Images : img.width * img.height > 0
  PROVE  Asm!Spec => Asm!ImplementsC
  <1>1. Asm!Init => Asm!C!Init
    BY AsmStarts
  <1>2. AsmInv /\ [Asm!Next]_(Asm!asm_vars) => [Asm!C!Next]_(Asm!C!vars)
    <2>1. \A img \in Images : Area(img) > 0
      BY DEF Area
    <2> QED
      BY <2>1, AsmStepIsC
  <1> QED
    BY <1>1, <1>2, AsmInvariance, PTL DEF Asm!Spec, Asm!ImplementsC, Asm!C!Spec

\* asm_imgproc_fns.S: so the caller has its stack and its rbp back.
THEOREM AsmStackBalanced == Asm!Spec => []Asm!StackIsBalanced
  <1>1. AsmInv => Asm!StackIsBalanced
    BY DEF AsmInv, Ready, StackOK, Asm!StackIsBalanced
  <1> QED
    BY <1>1, AsmInvariance, PTL
=============================================================================
