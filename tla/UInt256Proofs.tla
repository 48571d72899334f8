--------------------------- MODULE UInt256Proofs ----------------------------
(***************************************************************************)
(* Theorems about UInt256, for any number of words, of digits in a word    *)
(* and of bits in a digit, so also for the 256 bits of HW1: the operations *)
(* are those of the integers modulo the number of all values, the loop of  *)
(* uint256_mul multiplies, and numerals are read back as what was written. *)
(*                                                                         *)
(* Induction over data is done with sets of naturals that are closed under *)
(* successors (Reaches); the functions that the model defines by recursion *)
(* exist by Recursion.                                                     *)
(***************************************************************************)
EXTENDS UInt256, SequenceTheorems, WellFoundedInduction, TLAPS

-----------------------------------------------------------------------------
(* Induction and recursion                                                 *)

\* The order on the naturals, as a set of pairs.
NatLess == {ss \in Nat \X Nat : ss[1] < ss[2]}

\* A set of naturals has a least element.
LEMMA LeastNat ==
    ASSUME NEW S \in SUBSET Nat, S # {}
    PROVE  \E n \in S : \A m \in S : n <= m
    <1>1. IsWellFoundedOn(NatLess, Nat)
        BY NatLessThanWellFounded DEF OpToRel, NatLess
    <1>2. PICK n \in S : \A m \in S : ~ (<<m, n>> \in NatLess)
        BY <1>1, WFMin
    <1>3. ASSUME NEW m \in S PROVE n <= m
        <2>1. m < n => <<m, n>> \in NatLess
            BY DEF NatLess
        <2> QED
            BY <1>2, <2>1
    <1> QED
        BY <1>3

\* A set that has 0 and is closed under successors up to n has 0..n.
LEMMA Reaches ==
    ASSUME NEW n \in Nat, NEW G, 0 \in G,
           \A k \in 0..(n - 1) : k \in G => k + 1 \in G
    PROVE  \A k \in 0..n : k \in G
    <1> DEFINE Bad == {k \in 0..n : k \notin G}
    <1>1. ASSUME Bad # {} PROVE FALSE
        <2>0. Bad \in SUBSET Nat
            OBVIOUS
        <2>1. PICK k \in Bad : \A m \in Bad : k <= m
            BY <1>1, <2>0, LeastNat
        <2>2. k # 0 /\ k - 1 \in 0..(n - 1) /\ k - 1 \notin Bad
            BY <2>1
        <2>3. k - 1 \in G /\ (k - 1) + 1 = k
            BY <2>2
        <2> QED
            BY <2>1, <2>2, <2>3
    <1> QED
        BY <1>1

\* f is computed along 0..n from base by step.
Follows(f, n, base, step) ==
    f = [k \in 0..n |-> IF k = 0 THEN base ELSE step[<<k, f[k - 1]>>]]

\* There is such a function.
LEMMA Recursion ==
    ASSUME NEW n \in Nat, NEW S, NEW base \in S, NEW step \in [(1..n) \X S -> S]
    PROVE  \E f \in [0..n -> S] : Follows(f, n, base, step)
    <1> DEFINE G == {m \in 0..n : \E f \in [0..m -> S] : Follows(f, m, base, step)}
    <1>1. 0 \in G
        <2> DEFINE f == [k \in 0..0 |-> base]
        <2>1. f \in [0..0 -> S] /\ Follows(f, 0, base, step)
            BY DEF Follows
        <2> QED
            BY <2>1
    <1>2. ASSUME NEW m \in 0..(n - 1), m \in G PROVE m + 1 \in G
        <2>1. PICK f \in [0..m -> S] : Follows(f, m, base, step)
            BY <1>2
        <2> DEFINE v == step[<<m + 1, f[m]>>]
                   g == [k \in 0..(m + 1) |-> IF k = m + 1 THEN v ELSE f[k]]
        <2>2. v \in S
            <3>1. <<m + 1, f[m]>> \in (1..n) \X S
                OBVIOUS
            <3> QED
                BY <3>1
        <2>3. g \in [0..(m + 1) -> S]
            BY <2>2
        <2>4. \A k \in 0..(m + 1) : g[k] = IF k = 0 THEN base ELSE step[<<k, g[k - 1]>>]
            <3> TAKE k \in 0..(m + 1)
            <3>1. CASE k = m + 1
                <4>1. k - 1 = m /\ m # m + 1 /\ m \in 0..(m + 1) /\ k # 0
                    BY <3>1
                <4>2. g[k] = v /\ g[k - 1] = f[m]
                    BY <3>1, <4>1
                <4> QED
                    BY <3>1, <4>1, <4>2
            <3>2. CASE k # m + 1
                <4>1. k \in 0..m /\ g[k] = f[k] /\ (k # 0 => k - 1 \in 0..m /\ g[k - 1] = f[k - 1])
                    BY <3>2
                <4>2. f[k] = IF k = 0 THEN base ELSE step[<<k, f[k - 1]>>]
                    BY <2>1, <4>1 DEF Follows
                <4> QED
                    BY <4>1, <4>2
            <3> QED
                BY <3>1, <3>2
        <2>5. Follows(g, m + 1, base, step)
            <3> HIDE DEF g
            <3>1. g = [k \in 0..(m + 1) |-> g[k]]
                BY <2>3
            <3> QED
                BY <2>4, <3>1 DEF Follows
        <2> QED
            BY <2>3, <2>5
    <1>3. n \in G
        <2> HIDE DEF G
        <2>1. \A k \in 0..n : k \in G
            BY <1>1, <1>2, Reaches
        <2> QED
            BY <2>1
    <1> QED
        BY <1>3

\* The powers of two.
LEMMA BitsNat ==
    /\ WordBits \in Nat \ {0} /\ Bits \in Nat \ {0} /\ AllDigits \in Nat \ {0}
    /\ DigitBits \in 1..WordBits /\ WordBits \in 1..Bits
    BY SizesAssumption DEF WordBits, Bits, AllDigits

LEMMA PowerFunction ==
    /\ Power \in [0..Bits -> Nat]
    /\ \A n \in 0..Bits : Power[n] = IF n = 0 THEN 1 ELSE 2 * Power[n - 1]
    <1>0. Bits \in Nat
        BY BitsNat
    <1> DEFINE step == [ks \in (1..Bits) \X Nat |-> 2 * ks[2]]
    <1>1. step \in [(1..Bits) \X Nat -> Nat]
        OBVIOUS
    <1>2. PICK f \in [0..Bits -> Nat] : Follows(f, Bits, 1, step)
        <2> HIDE DEF step
        <2> QED
            BY <1>0, <1>1, Recursion
    <1>3. f = [n \in 0..Bits |-> IF n = 0 THEN 1 ELSE 2 * f[n - 1]]
        <2>1. \A n \in 0..Bits : n # 0 => step[<<n, f[n - 1]>>] = 2 * f[n - 1]
            <3> TAKE n \in 0..Bits
            <3>1. n # 0 => <<n, f[n - 1]>> \in (1..Bits) \X Nat
                BY <1>0
            <3> QED
                BY <3>1
        <2> HIDE DEF step
        <2> QED
            BY <1>2, <2>1 DEF Follows
    <1>4. Power = [n \in 0..Bits |-> IF n = 0 THEN 1 ELSE 2 * Power[n - 1]]
        BY <1>3 DEF Power
    <1> DEFINE G == {n \in 0..Bits : Power[n] \in Nat}
    <1>5. 0 \in G
        BY <1>0, <1>4
    <1>6. ASSUME NEW k \in 0..(Bits - 1), k \in G PROVE k + 1 \in G
        <2>1. k + 1 \in 0..Bits /\ (k + 1) - 1 = k /\ k + 1 # 0
            BY <1>0
        <2>2. Power[k + 1] = 2 * Power[k]
            BY <1>4, <2>1
        <2> QED
            BY <1>6, <2>1, <2>2
    <1>7. \A k \in 0..Bits : k \in G
        <2> HIDE DEF G
        <2> QED
            BY <1>0, <1>5, <1>6, Reaches
    <1> QED
        BY <1>4, <1>7

\* The same, one by one.
LEMMA PowerStep ==
    /\ Power \in [0..Bits -> Nat \ {0}] /\ Power[0] = 1
    /\ \A n \in 0..(Bits - 1) : Power[n + 1] = 2 * Power[n]
    <1>0. Bits \in Nat
        BY BitsNat
    <1>1. Power[0] = 1
        BY <1>0, PowerFunction
    <1>2. ASSUME NEW n \in 0..(Bits - 1) PROVE Power[n + 1] = 2 * Power[n]
        BY <1>0, PowerFunction
    <1> DEFINE G == {n \in 0..Bits : Power[n] # 0}
    <1>3. 0 \in G
        BY <1>0, <1>1
    <1>4. ASSUME NEW k \in 0..(Bits - 1), k \in G PROVE k + 1 \in G
        <2>1. Power[k] \in Nat
            BY <1>0, PowerFunction
        <2> QED
            BY <1>0, <1>2, <1>4, <2>1
    <1>5. \A n \in 0..Bits : n \in G
        <2> HIDE DEF G
        <2> QED
            BY <1>0, <1>3, <1>4, Reaches
    <1> QED
        BY <1>1, <1>2, <1>5, PowerFunction

\* Exponents add up.
LEMMA PowerSum ==
    ASSUME NEW a \in Nat, NEW b \in Nat, a + b <= Bits
    PROVE  Power[a + b] = Power[a] * Power[b]
    <1>0. Bits \in Nat
        BY BitsNat
    <1> DEFINE G == {n \in 0..b : Power[a + n] = Power[a] * Power[n]}
    <1>1. Power[a] \in Nat
        BY <1>0, PowerStep
    <1>2. 0 \in G
        BY <1>0, <1>1, PowerStep
    <1>3. ASSUME NEW n \in 0..(b - 1), n \in G PROVE n + 1 \in G
        <2>1. n \in 0..(Bits - 1) /\ a + n \in 0..(Bits - 1) /\ (a + n) + 1 = a + (n + 1)
            BY <1>0
        <2>2. Power[n + 1] = 2 * Power[n] /\ Power[a + (n + 1)] = 2 * Power[a + n]
            BY <2>1, PowerStep
        <2>3. PICK x \in Nat, y \in Nat : x = Power[a] /\ y = Power[n]
            BY <1>0, <1>1, <2>1, PowerStep
        <2>4. Power[a + (n + 1)] = 2 * (x * y) /\ Power[n + 1] = 2 * y
            BY <1>3, <2>2, <2>3
        <2>5. 2 * (x * y) = x * (2 * y)
            OBVIOUS
        <2> QED
            BY <2>3, <2>4, <2>5
    <1>4. \A n \in 0..b : n \in G
        <2> HIDE DEF G
        <2> QED
            BY <1>2, <1>3, Reaches
    <1> QED
        BY <1>4

\* A greater exponent is a greater power.
LEMMA PowerOrder ==
    ASSUME NEW a \in Nat, NEW b \in Nat, a <= b, b <= Bits
    PROVE  /\ Power[a] \in Nat \ {0} /\ Power[b] \in Nat \ {0}
           /\ Power[a] <= Power[b]
           /\ a < b => 2 * Power[a] <= Power[b]
           /\ Power[b] = Power[a] * Power[b - a]
    <1>0. /\ Bits \in Nat /\ a \in 0..Bits /\ b \in 0..Bits /\ b - a \in 0..Bits
          /\ a < b => b - a - 1 \in 0..(Bits - 1)
        BY BitsNat
    <1>1. Power[b] = Power[a] * Power[b - a]
        <2>1. a + (b - a) = b
            OBVIOUS
        <2> QED
            BY <1>0, <2>1, PowerSum
    <1>2. PICK x \in Nat \ {0}, y \in Nat \ {0} : x = Power[a] /\ y = Power[b - a]
        BY <1>0, PowerStep
    <1>3. a < b => y >= 2
        <2>1. ASSUME a < b PROVE y >= 2
            <3>1. PICK z \in Nat \ {0} : z = Power[b - a - 1]
                BY <1>0, <2>1, PowerStep
            <3>2. Power[(b - a - 1) + 1] = 2 * Power[b - a - 1]
                BY <1>0, <2>1, PowerStep
            <3>3. (b - a - 1) + 1 = b - a
                OBVIOUS
            <3> QED
                BY <1>2, <3>1, <3>2, <3>3
        <2> QED
            BY <2>1
    <1>4. x * y >= x /\ x * y \in Nat \ {0} /\ (y >= 2 => 2 * x <= x * y)
        <2>1. x * (y - 1) >= 0 /\ x * (y - 1) = x * y - x
            OBVIOUS
        <2>2. y >= 2 => x * (y - 2) >= 0 /\ x * (y - 2) = x * y - 2 * x
            OBVIOUS
        <2>3. x * y \in Nat
            OBVIOUS
        <2> QED
            BY <2>1, <2>2, <2>3
    <1> QED
        BY <1>1, <1>2, <1>3, <1>4

\* Quotient and remainder.
LEMMA DivMod ==
    ASSUME NEW a \in Int, NEW b \in Nat \ {0}
    PROVE  /\ a \div b \in Int /\ a % b \in 0..(b - 1)
           /\ a = (a \div b) * b + (a % b)
           /\ a \in Nat => a \div b \in Nat
    <1>1. PICK q \in Int, r \in Int : q = a \div b /\ r = a % b
        OBVIOUS
    <1>2. a = q * b + r /\ r \in 0..(b - 1)
        BY <1>1
    <1>3. a \in Nat => a \div b \in Nat
        OBVIOUS
    <1> QED
        BY <1>1, <1>2, <1>3

\* They are the only ones.
LEMMA DivModOf ==
    ASSUME NEW q \in Int, NEW b \in Nat \ {0}, NEW r \in 0..(b - 1), NEW a, a = q * b + r
    PROVE  a \div b = q /\ a % b = r
    <1>1. a \in Int
        OBVIOUS
    <1>2. PICK p \in Int, s \in Int : p = a \div b /\ s = a % b
        BY <1>1
    <1>3. a = p * b + s /\ s \in 0..(b - 1)
        BY <1>1, <1>2, DivMod
    <1>4. (q - p) * b = s - r /\ s - r < b /\ s - r > 0 - b
        BY <1>3
    <1>5. PICK d \in Int : d = q - p
        OBVIOUS
    <1>6. d * b < b /\ d * b > 0 - b
        BY <1>4, <1>5
    <1>7. d = 0
        <2>1. d >= 1 => d * b >= b
            <3>1. d >= 1 => (d - 1) * b >= 0
                OBVIOUS
            <3>2. (d - 1) * b = d * b - b
                OBVIOUS
            <3> QED
                BY <3>1, <3>2
        <2>2. d <= -1 => d * b <= 0 - b
            <3>1. d <= -1 => (0 - d - 1) * b >= 0
                OBVIOUS
            <3>2. (0 - d - 1) * b = 0 - d * b - b
                OBVIOUS
            <3> QED
                BY <3>1, <3>2
        <2> QED
            BY <1>6, <2>1, <2>2
    <1> QED
        BY <1>2, <1>3, <1>4, <1>5, <1>7

\* The two of a natural.
LEMMA Parts ==
    ASSUME NEW a \in Nat, NEW b \in Nat \ {0}
    PROVE  \E q \in Nat, r \in 0..(b - 1) : q = a \div b /\ r = a % b /\ a = q * b + r
    <1>1. a \in Int
        OBVIOUS
    <1>2. a \div b \in Nat /\ a % b \in 0..(b - 1) /\ a = (a \div b) * b + (a % b)
        BY <1>1, DivMod
    <1> QED
        BY <1>2

-----------------------------------------------------------------------------
(* The number an array of words stands for                                 *)

\* What a word counts for.
Weight(k) == Power[k * WordBits]

LEMMA Weights ==
    /\ NWords \in Nat \ {0} /\ WordSize \in Nat /\ WordSize >= 2
    /\ Weight(0) = 1 /\ Weight(NWords) = Modulus /\ Modulus \in Nat \ {0}
    /\ \A k \in 0..NWords : k * WordBits \in 0..Bits /\ Weight(k) \in Nat \ {0}
    /\ \A k \in 0..(NWords - 1) : Weight(k + 1) = Weight(k) * WordSize
    <1>0. /\ NWords \in Nat \ {0} /\ WordBits \in Nat \ {0} /\ Bits \in Nat \ {0}
          /\ Bits = NWords * WordBits /\ WordBits \in 1..Bits
        BY BitsNat, SizesAssumption DEF Bits
    <1>1. ASSUME NEW k \in 0..NWords PROVE k * WordBits \in 0..Bits /\ Weight(k) \in Nat \ {0}
        <2>1. k * WordBits \in Nat /\ (NWords - k) * WordBits >= 0
            BY <1>0
        <2>2. (NWords - k) * WordBits = NWords * WordBits - k * WordBits
            BY <1>0
        <2>3. k * WordBits \in 0..Bits
            BY <1>0, <2>1, <2>2
        <2> QED
            BY <2>3, PowerStep DEF Weight
    <1>2. ASSUME NEW k \in 0..(NWords - 1) PROVE Weight(k + 1) = Weight(k) * WordSize
        <2>1. k \in 0..NWords /\ k + 1 \in 0..NWords
            BY <1>0
        <2>2. (k + 1) * WordBits = k * WordBits + WordBits
            BY <1>0
        <2>3. k * WordBits \in Nat /\ WordBits \in Nat /\ k * WordBits + WordBits <= Bits
            BY <1>0, <1>1, <2>1, <2>2
        <2> QED
            BY <2>2, <2>3, PowerSum DEF Weight, WordSize
    <1>3. Weight(0) = 1 /\ Weight(NWords) = Modulus
        BY <1>0, PowerStep DEF Weight, Modulus
    <1>4. WordSize \in Nat /\ WordSize >= 2
        <2>1. 2 * Power[0] <= Power[WordBits] /\ Power[WordBits] \in Nat
            BY <1>0, PowerOrder
        <2> QED
            BY <2>1, PowerStep DEF WordSize
    <1>5. NWords \in 0..NWords
        BY <1>0
    <1>6. Modulus \in Nat \ {0}
        BY <1>1, <1>3, <1>5
    <1> QED
        BY <1>0, <1>1, <1>2, <1>3, <1>4, <1>6

\* The numbers of the lowest words.
Low(val) ==
    CHOOSE f : f = [k \in 0..NWords |->
                       IF k = 0 THEN 0 ELSE f[k - 1] + val[k - 1] * Power[(k - 1) * WordBits]]

LEMMA ValueIsLow ==
    ASSUME NEW val \in Values
    PROVE  /\ Low(val) = [k \in 0..NWords |->
                             IF k = 0 THEN 0
                             ELSE Low(val)[k - 1] + val[k - 1] * Power[(k - 1) * WordBits]]
           /\ Value(val) = Low(val)[NWords]
    <1>0. NWords \in Nat \ {0}
        BY SizesAssumption
    <1> DEFINE step == [ks \in (1..NWords) \X Nat |->
                           ks[2] + val[ks[1] - 1] * Power[(ks[1] - 1) * WordBits]]
    <1>1. step \in [(1..NWords) \X Nat -> Nat]
        <2>1. \A ks \in (1..NWords) \X Nat :
                  ks[2] + val[ks[1] - 1] * Power[(ks[1] - 1) * WordBits] \in Nat
            <3> TAKE ks \in (1..NWords) \X Nat
            <3>1. ks[1] - 1 \in 0..(NWords - 1) /\ ks[1] - 1 \in 0..NWords /\ ks[2] \in Nat
                BY <1>0
            <3>2. val[ks[1] - 1] \in Nat
                <4>1. val \in [Index -> Word] /\ ks[1] - 1 \in Index
                    BY <3>1 DEF Values, Index
                <4>2. val[ks[1] - 1] \in Word
                    BY <4>1
                <4>3. Word \subseteq Nat
                    BY Weights DEF Word
                <4> QED
                    BY <4>2, <4>3
            <3>3. Power[(ks[1] - 1) * WordBits] \in Nat
                BY <3>1, Weights DEF Weight
            <3>4. PICK x \in Nat, y \in Nat : x = val[ks[1] - 1] /\ y = Power[(ks[1] - 1) * WordBits]
                BY <3>2, <3>3
            <3>5. x * y \in Nat
                OBVIOUS
            <3> QED
                BY <3>1, <3>4, <3>5
        <2> QED
            BY <2>1
    <1>2. PICK f \in [0..NWords -> Nat] : Follows(f, NWords, 0, step)
        <2> HIDE DEF step
        <2> QED
            BY <1>0, <1>1, Recursion
    <1>3. f = [k \in 0..NWords |->
                  IF k = 0 THEN 0 ELSE f[k - 1] + val[k - 1] * Power[(k - 1) * WordBits]]
        <2>1. \A k \in 0..NWords : k # 0 =>
                  step[<<k, f[k - 1]>>] = f[k - 1] + val[k - 1] * Power[(k - 1) * WordBits]
            <3> TAKE k \in 0..NWords
            <3>1. k # 0 => <<k, f[k - 1]>> \in (1..NWords) \X Nat
                BY <1>0
            <3> QED
                BY <3>1
        <2> HIDE DEF step
        <2> QED
            BY <1>2, <2>1 DEF Follows
    <1>4. Low(val) = [k \in 0..NWords |->
                         IF k = 0 THEN 0
                         ELSE Low(val)[k - 1] + val[k - 1] * Power[(k - 1) * WordBits]]
        BY <1>3 DEF Low
    <1>5. Value(val) = Low(val)[NWords]
        BY DEF Value, Low
    <1> QED
        BY <1>4, <1>5

\* Word by word, and how large they are.
LEMMA LowSteps ==
    ASSUME NEW val \in Values
    PROVE  /\ Low(val) \in [0..NWords -> Nat] /\ Low(val)[0] = 0
           /\ \A k \in 0..(NWords - 1) :
                 Low(val)[k + 1] = Low(val)[k] + val[k] * Weight(k)
           /\ \A k \in 0..NWords : Low(val)[k] < Weight(k)
           /\ Value(val) = Low(val)[NWords] /\ Value(val) \in 0..(Modulus - 1)
    <1>0. NWords \in Nat \ {0}
        BY SizesAssumption
    <1> DEFINE L == Low(val)
               G == {k \in 0..NWords : L[k] \in Nat /\ L[k] < Weight(k)}
    <1>1. L[0] = 0 /\ \A k \in 0..(NWords - 1) : L[k + 1] = L[k] + val[k] * Weight(k)
        <2>1. ASSUME NEW k \in 0..(NWords - 1) PROVE L[k + 1] = L[k] + val[k] * Weight(k)
            <3>1. k + 1 \in 0..NWords /\ k + 1 # 0 /\ (k + 1) - 1 = k
                BY <1>0
            <3> QED
                BY <3>1, ValueIsLow DEF Weight
        <2> QED
            BY <1>0, <2>1, ValueIsLow
    <1>2. 0 \in G
        BY <1>0, <1>1, Weights
    <1>3. ASSUME NEW k \in 0..(NWords - 1), k \in G PROVE k + 1 \in G
        <2>1. PICK w \in Nat, s \in Nat, x \in Nat, y \in Nat :
                  /\ w = Weight(k) /\ s = WordSize /\ x = val[k] /\ x < s /\ y = L[k] /\ y < w
            <3>1. WordSize \in Nat /\ Weight(k) \in Nat
                BY <1>3, Weights
            <3>2. val[k] \in 0..(WordSize - 1)
                BY <1>0 DEF Values, Index, Word
            <3>3. L[k] \in Nat /\ L[k] < Weight(k)
                BY <1>3
            <3> HIDE DEF L
            <3> QED
                BY <3>1, <3>2, <3>3
        <2>2. Weight(k + 1) = w * s /\ L[k + 1] = y + x * w
            BY <1>1, <2>1, Weights
        <2>3. x * w \in Nat /\ (s - x - 1) * w >= 0 /\ (s - x - 1) * w = w * s - x * w - w
            BY <2>1
        <2>4. y + x * w < w * s
            BY <2>1, <2>3
        <2> QED
            BY <1>0, <2>1, <2>2, <2>3, <2>4
    <1>4. \A k \in 0..NWords : k \in G
        <2> HIDE DEF G
        <2> QED
            BY <1>0, <1>2, <1>3, Reaches
    <1>5. L \in [0..NWords -> Nat]
        <2>1. L = [k \in 0..NWords |-> L[k]]
            BY ValueIsLow
        <2> QED
            BY <1>4, <2>1
    <1>6. Value(val) = L[NWords] /\ NWords \in G
        BY <1>0, <1>4, ValueIsLow
    <1> HIDE DEF L
    <1>7. Value(val) \in 0..(Modulus - 1)
        BY <1>6, Weights
    <1> QED
        BY <1>1, <1>4, <1>5, <1>6, <1>7 DEF L

\* What kind of numbers these are.
LEMMA LowNat ==
    ASSUME NEW val \in Values, NEW k \in 0..NWords
    PROVE  Low(val)[k] \in Nat
    BY LowSteps

LEMMA WordNat ==
    ASSUME NEW val \in Values, NEW k \in Index
    PROVE  val[k] \in Nat /\ val[k] \in Word /\ val[k] < WordSize
    <1>1. val[k] \in 0..(WordSize - 1)
        BY DEF Values, Word
    <1> QED
        BY <1>1, Weights DEF Word

LEMMA LowZero ==
    ASSUME NEW val \in Values
    PROVE  Low(val)[0] = 0
    BY LowSteps

-----------------------------------------------------------------------------
(* Addition and subtraction                                                *)

\* The carry out of a word is found by comparing its sum with an operand.
LEMMA CarryBit ==
    ASSUME NEW l \in Word, NEW r \in Word, NEW c \in {0, 1}
    PROVE  /\ (l + r + c) % WordSize \in Word
           /\ l + r + c = ((l + r + c) % WordSize)
                          + (IF Carries(c, (l + r + c) % WordSize, l) THEN 1 ELSE 0) * WordSize
    <1>1. PICK w \in Nat \ {0} : w = WordSize /\ l \in 0..(w - 1) /\ r \in 0..(w - 1)
        BY Weights DEF Word
    <1>2a. PICK x \in Int : x = l + r + c
        BY <1>1
    <1>2. PICK t \in Int : t = x % w
        OBVIOUS
    <1>3. CASE x < w
        <2>1. x = 0 * w + x /\ x \in 0..(w - 1)
            BY <1>1, <1>2a, <1>3
        <2>2. t = x
            BY <1>2, <2>1, DivModOf
        <2>3. ~ Carries(c, t, l)
            BY <1>1, <1>2a, <2>2 DEF Carries
        <2> QED
            BY <1>1, <1>2a, <1>2, <2>1, <2>2, <2>3 DEF Word
    <1>4. CASE x >= w
        <2>1. PICK q \in Int, y \in 0..(w - 1) : q = 1 /\ y = x - w
            BY <1>1, <1>2a, <1>4
        <2>2. t = x - w
            <3>1. x = q * w + y
                BY <2>1
            <3>2. x % w = y
                BY <3>1, DivModOf
            <3> QED
                BY <1>2, <2>1, <3>2
        <2>3. Carries(c, t, l)
            BY <1>1, <1>2a, <2>2 DEF Carries
        <2> QED
            BY <1>1, <1>2a, <1>2, <2>1, <2>2, <2>3 DEF Word
    <1> QED
        BY <1>1, <1>3, <1>4

\* The carries of an addition, word by word.
Carry(l, r) ==
    CHOOSE f : f = [k \in 0..NWords |->
                       IF k = 0 THEN 0
                       ELSE IF Carries(f[k - 1], (l[k - 1] + r[k - 1] + f[k - 1]) % WordSize, l[k - 1])
                            THEN 1 ELSE 0]

LEMMA CarrySteps ==
    ASSUME NEW l \in Values, NEW r \in Values
    PROVE  /\ Carry(l, r) \in [0..NWords -> {0, 1}]
           /\ Carry(l, r)[0] = 0
           /\ \A k \in 0..(NWords - 1) :
                  Carry(l, r)[k + 1] =
                      IF Carries(Carry(l, r)[k], (l[k] + r[k] + Carry(l, r)[k]) % WordSize, l[k])
                      THEN 1 ELSE 0
           /\ uint256_add(l, r) = [k \in Index |-> (l[k] + r[k] + Carry(l, r)[k]) % WordSize]
    <1>0. NWords \in Nat \ {0}
        BY SizesAssumption
    <1> DEFINE Next1(k, c) ==
                   IF Carries(c, (l[k - 1] + r[k - 1] + c) % WordSize, l[k - 1]) THEN 1 ELSE 0
               step == [ks \in (1..NWords) \X {0, 1} |-> Next1(ks[1], ks[2])]
    <1>1. step \in [(1..NWords) \X {0, 1} -> {0, 1}]
        OBVIOUS
    <1>2. PICK f \in [0..NWords -> {0, 1}] : Follows(f, NWords, 0, step)
        <2> HIDE DEF step
        <2> QED
            BY <1>0, <1>1, Recursion
    <1>3. f = [k \in 0..NWords |-> IF k = 0 THEN 0 ELSE Next1(k, f[k - 1])]
        <2>1. \A k \in 0..NWords : k # 0 => step[<<k, f[k - 1]>>] = Next1(k, f[k - 1])
            <3> TAKE k \in 0..NWords
            <3>1. k # 0 => <<k, f[k - 1]>> \in (1..NWords) \X {0, 1}
                BY <1>0
            <3> HIDE DEF Next1
            <3> QED
                BY <3>1
        <2> HIDE DEF step, Next1
        <2> QED
            BY <1>2, <2>1 DEF Follows
    <1>4. Carry(l, r) = [k \in 0..NWords |-> IF k = 0 THEN 0 ELSE Next1(k, Carry(l, r)[k - 1])]
        BY <1>3 DEF Carry
    <1>5. ASSUME NEW k \in 0..(NWords - 1)
          PROVE  Carry(l, r)[k + 1] = Next1(k + 1, Carry(l, r)[k])
        <2>1. k + 1 \in 0..NWords /\ k + 1 # 0 /\ (k + 1) - 1 = k
            BY <1>0
        <2> HIDE DEF Next1
        <2> QED
            BY <1>4, <2>1
    <1>6. \A k \in 0..(NWords - 1) : (k + 1) - 1 = k
        BY <1>0
    <1>7. Carry(l, r)[0] = 0
        BY <1>0, <1>4
    <1>8. \A k \in 0..NWords : Carry(l, r)[k] \in {0, 1}
        BY <1>4
    <1>9. Carry(l, r) \in [0..NWords -> {0, 1}]
        <2> HIDE DEF Next1
        <2> QED
            BY <1>4, <1>8
    <1>10. uint256_add(l, r) = [k \in Index |-> (l[k] + r[k] + Carry(l, r)[k]) % WordSize]
        BY DEF uint256_add, Carry
    <1> QED
        BY <1>5, <1>6, <1>7, <1>9, <1>10

\* The low words of a sum, and the carry into the next one.
LEMMA SumSteps ==
    ASSUME NEW l \in Values, NEW r \in Values
    PROVE  /\ uint256_add(l, r) \in Values
           /\ \A k \in 0..NWords :
                  Low(uint256_add(l, r))[k] + Carry(l, r)[k] * Weight(k)
                  = Low(l)[k] + Low(r)[k]
    <1> DEFINE s == uint256_add(l, r)
               c == Carry(l, r)
    <1>0. NWords \in Nat \ {0}
        BY SizesAssumption
    <1>1. ASSUME NEW k \in Index
          PROVE  s[k] \in Word /\ c[k + 1] \in {0, 1} /\ l[k] + r[k] + c[k] = s[k] + c[k + 1] * WordSize
        <2>1. l[k] \in Word /\ r[k] \in Word /\ c[k] \in {0, 1} /\ c[k + 1] \in {0, 1}
            BY <1>0, CarrySteps DEF Values, Index
        <2>2. s[k] = (l[k] + r[k] + c[k]) % WordSize
            BY CarrySteps
        <2>3. c[k + 1] = IF Carries(c[k], (l[k] + r[k] + c[k]) % WordSize, l[k]) THEN 1 ELSE 0
            BY CarrySteps DEF Index
        <2> HIDE DEF s, c
        <2> QED
            BY <2>1, <2>2, <2>3, CarryBit
    <1>2. s \in Values
        <2>1. s = [k \in Index |-> s[k]]
            BY CarrySteps
        <2> HIDE DEF s
        <2> QED
            BY <1>1, <2>1 DEF Values
    <1> DEFINE G == {k \in 0..NWords : Low(s)[k] + c[k] * Weight(k) = Low(l)[k] + Low(r)[k]}
    <1>3. 0 \in G
        <2>1. c[0] = 0 /\ Weight(0) = 1 /\ Low(s)[0] = 0 /\ Low(l)[0] = 0 /\ Low(r)[0] = 0
            BY <1>2, CarrySteps, LowSteps, Weights
        <2> QED
            BY <1>0, <2>1
    <1>4. ASSUME NEW k \in 0..(NWords - 1), k \in G PROVE k + 1 \in G
        <2>1. k \in Index /\ k \in 0..NWords /\ k + 1 \in 0..NWords
            BY <1>0 DEF Index
        <2>2. /\ Low(s)[k + 1] = Low(s)[k] + s[k] * Weight(k)
              /\ Low(l)[k + 1] = Low(l)[k] + l[k] * Weight(k)
              /\ Low(r)[k + 1] = Low(r)[k] + r[k] * Weight(k)
              /\ Weight(k + 1) = Weight(k) * WordSize
            BY <1>2, LowSteps, Weights
        <2>3. PICK w \in Nat, z \in Nat : w = Weight(k) /\ z = WordSize
            BY <2>1, Weights
        <2>4. PICK a \in Int, b \in Int, d \in Int, e \in Int, f \in Int :
                  a = s[k] /\ b = l[k] /\ d = r[k] /\ e = c[k] /\ f = c[k + 1]
            <3>1. s[k] \in Int /\ l[k] \in Int /\ r[k] \in Int
                BY <1>2, <2>1, WordNat
            <3>2. c[k] \in {0, 1} /\ c[k + 1] \in {0, 1}
                BY <2>1, CarrySteps
            <3> HIDE DEF s, c
            <3> QED
                BY <3>1, <3>2
        <2>5. PICK x \in Int, y \in Int, u \in Int :
                  x = Low(s)[k] /\ y = Low(l)[k] /\ u = Low(r)[k]
            <3>1. Low(s)[k] \in Int /\ Low(l)[k] \in Int /\ Low(r)[k] \in Int
                BY <1>2, <2>1, LowNat
            <3> HIDE DEF s
            <3> QED
                BY <3>1
        <2>6. b + d + e = a + f * z /\ x + e * w = y + u
            BY <1>1, <1>4, <2>1, <2>3, <2>4, <2>5
        <2>7. (x + a * w) + f * (w * z) = (y + b * w) + (u + d * w)
            <3>1. (a + f * z) * w = a * w + f * (w * z) /\ (b + d + e) * w = b * w + d * w + e * w
                OBVIOUS
            <3>2. (b + d + e) * w = (a + f * z) * w
                BY <2>6
            <3> HIDE DEF s, c, G
            <3> QED
                BY <2>6, <3>1, <3>2
        <2> QED
            BY <2>1, <2>2, <2>3, <2>4, <2>5, <2>7
    <1>5. \A k \in 0..NWords : k \in G
        <2> HIDE DEF G
        <2> QED
            BY <1>0, <1>3, <1>4, Reaches
    <1> QED
        BY <1>2, <1>5

\* uint256_add adds modulo the size of the type.
LEMMA AddIsSum ==
    ASSUME NEW l \in Values, NEW r \in Values
    PROVE  /\ uint256_add(l, r) \in Values
           /\ Value(uint256_add(l, r)) = (Value(l) + Value(r)) % Modulus
    <1>1. uint256_add(l, r) \in Values
        BY SumSteps
    <1>2. PICK s \in Values : s = uint256_add(l, r)
        BY <1>1
    <1>3. PICK c \in {0, 1} : c = Carry(l, r)[NWords]
        BY SizesAssumption, CarrySteps
    <1>4. Low(s)[NWords] + c * Modulus = Low(l)[NWords] + Low(r)[NWords]
        BY <1>2, <1>3, SizesAssumption, SumSteps, Weights
    <1>5. Value(s) + c * Modulus = Value(l) + Value(r) /\ Value(s) \in 0..(Modulus - 1)
        BY <1>4, LowSteps
    <1>6. PICK m \in Nat \ {0} : m = Modulus
        BY Weights
    <1>7. PICK a \in Int, b \in Int : a = Value(l) + Value(r) /\ b = Value(s)
        BY <1>6, LowSteps
    <1>8. a = c * m + b /\ b \in 0..(m - 1)
        BY <1>5, <1>6, <1>7
    <1>9. a % m = b
        BY <1>8, DivModOf
    <1> QED
        BY <1>1, <1>2, <1>6, <1>7, <1>9

\* Negation is the difference to the modulus.
LEMMA Complement ==
    ASSUME NEW val \in Values
    PROVE  /\ [k \in Index |-> WordSize - 1 - val[k]] \in Values
           /\ Value([k \in Index |-> WordSize - 1 - val[k]]) = Modulus - 1 - Value(val)
    <1>0. NWords \in Nat \ {0}
        BY SizesAssumption
    <1>1. PICK n : n = [k \in Index |-> WordSize - 1 - val[k]]
        OBVIOUS
    <1>2. n \in Values
        <2>1. PICK w \in Nat \ {0} : w = WordSize
            BY Weights
        <2>2. \A k \in Index : val[k] \in 0..(w - 1) /\ w - 1 - val[k] \in 0..(w - 1)
            BY <2>1 DEF Values, Word
        <2> QED
            BY <1>1, <2>1, <2>2 DEF Values, Word
    <1> DEFINE G == {k \in 0..NWords : Low(n)[k] = Weight(k) - 1 - Low(val)[k]}
    <1>3. 0 \in G
        BY <1>0, <1>2, LowSteps, Weights, SMTT(30)
    <1>4. ASSUME NEW k \in 0..(NWords - 1), k \in G PROVE k + 1 \in G
        <2>1. k \in Index /\ k \in 0..NWords /\ k + 1 \in 0..NWords
            BY <1>0 DEF Index
        <2>2. /\ Low(n)[k + 1] = Low(n)[k] + n[k] * Weight(k)
              /\ Low(val)[k + 1] = Low(val)[k] + val[k] * Weight(k)
              /\ Weight(k + 1) = Weight(k) * WordSize
            BY <1>2, LowSteps, Weights
        <2>3. PICK w \in Nat, z \in Nat : w = Weight(k) /\ z = WordSize
            BY <2>1, Weights
        <2>4. PICK x \in Int, y \in Int : x = val[k] /\ y = Low(val)[k]
            <3>1. val[k] \in Int /\ Low(val)[k] \in Int
                BY <2>1, LowNat, WordNat
            <3> QED
                BY <3>1
        <2>5. n[k] = z - 1 - x /\ Low(n)[k] = w - 1 - y
            BY <1>1, <1>4, <2>1, <2>3, <2>4
        <2>6. (w - 1 - y) + (z - 1 - x) * w = w * z - 1 - (y + x * w)
            OBVIOUS
        <2> QED
            BY <2>1, <2>2, <2>3, <2>4, <2>5, <2>6
    <1>5. \A k \in 0..NWords : k \in G
        <2> HIDE DEF G
        <2> QED
            BY <1>0, <1>3, <1>4, Reaches
    <1>6. NWords \in G
        BY <1>0, <1>5
    <1>7. Value(n) = Modulus - 1 - Value(val)
        BY <1>2, <1>6, LowSteps, Weights
    <1> QED
        BY <1>1, <1>2, <1>7

LEMMA OneIsOne ==
    ASSUME NEW v \in Word
    PROVE  uint256_create_from_u32(v) \in Values /\ Value(uint256_create_from_u32(v)) = v
    <1>0. NWords \in Nat \ {0} /\ 0 \in Word /\ v \in Nat
        BY SizesAssumption, Weights DEF Word
    <1>1. PICK n : n = uint256_create_from_u32(v)
        OBVIOUS
    <1>2. n \in Values /\ n[0] = v /\ \A k \in 1..(NWords - 1) : n[k] = 0
        BY <1>0, <1>1 DEF uint256_create_from_u32, Values, Index
    <1> DEFINE G == {k \in 0..NWords : Low(n)[k] = IF k = 0 THEN 0 ELSE v}
    <1>3. 0 \in G
        BY <1>0, <1>2, LowSteps
    <1>4. ASSUME NEW k \in 0..(NWords - 1), k \in G PROVE k + 1 \in G
        <2>1. k \in 0..NWords /\ k + 1 \in 0..NWords /\ k + 1 # 0
            BY <1>0
        <2>2. Low(n)[k + 1] = Low(n)[k] + n[k] * Weight(k)
            BY <1>2, LowSteps
        <2>3. PICK w \in Nat : w = Weight(k) /\ (k = 0 => w = 1)
            BY <2>1, Weights
        <2>4. CASE k = 0
            BY <1>0, <1>2, <1>4, <2>1, <2>2, <2>3, <2>4
        <2>5. CASE k # 0
            <3>1. n[k] = 0 /\ Low(n)[k] = v
                BY <1>2, <1>4, <2>1, <2>5
            <3> QED
                BY <1>0, <2>1, <2>2, <2>3, <3>1
        <2> QED
            BY <2>4, <2>5
    <1>5. \A k \in 0..NWords : k \in G
        <2> HIDE DEF G
        <2> QED
            BY <1>0, <1>3, <1>4, Reaches
    <1>6. NWords \in G /\ NWords # 0
        BY <1>0, <1>5
    <1> QED
        BY <1>1, <1>2, <1>6, LowSteps

\* uint256_sub subtracts modulo the size of the type.
LEMMA SubIsDifference ==
    ASSUME NEW l \in Values, NEW r \in Values
    PROVE  /\ uint256_sub(l, r) \in Values
           /\ Value(uint256_sub(l, r)) = (Value(l) - Value(r)) % Modulus
    <1> DEFINE inverted == [k \in Index |-> WordSize - 1 - r[k]]
               one == uint256_create_from_u32(1)
               negative == uint256_negate(r)
    <1>0a. PICK m \in Nat \ {0} : m = Modulus
        BY Weights
    <1>0. PICK a \in 0..(m - 1), b \in 0..(m - 1) : m = Modulus /\ a = Value(l) /\ b = Value(r)
        BY <1>0a, LowSteps
    <1>1. inverted \in Values /\ Value(inverted) = m - 1 - b
        BY <1>0, Complement
    <1>2. one \in Values /\ Value(one) = 1
        <2>1. 1 \in Word
            BY Weights DEF Word
        <2> QED
            BY <2>1, OneIsOne
    <1>3. negative \in Values /\ Value(negative) = (m - b) % m
        <2>1. negative = uint256_add(inverted, one)
            BY DEF uint256_negate
        <2>2. (m - 1 - b) + 1 = m - b
            OBVIOUS
        <2> HIDE DEF inverted, one, negative
        <2> QED
            BY <1>0, <1>1, <1>2, <2>1, <2>2, AddIsSum
    <1>4. uint256_sub(l, r) = uint256_add(l, negative)
        BY DEF uint256_sub
    <1>5. uint256_sub(l, r) \in Values /\ Value(uint256_sub(l, r)) = (a + ((m - b) % m)) % m
        <2> HIDE DEF negative
        <2> QED
            BY <1>0, <1>3, <1>4, AddIsSum
    <1>6. PICK q \in Int, c \in 0..(m - 1) : c = (m - b) % m /\ m - b = q * m + c
        <2>1. m - b \in Int
            OBVIOUS
        <2> QED
            BY <2>1, DivMod
    <1>7. PICK p \in Int, d \in 0..(m - 1) : d = (a + c) % m /\ a + c = p * m + d
        <2>1. a + c \in Int
            OBVIOUS
        <2> QED
            BY <2>1, DivMod
    <1>8. a - b = (p + q - 1) * m + d
        <2>1. PICK x \in Int, y \in Int : x = p * m /\ y = q * m
            OBVIOUS
        <2>2. (p + q - 1) * m = p * m + q * m - m
            OBVIOUS
        <2>3. m - b = y + c /\ a + c = x + d
            BY <1>6, <1>7, <2>1
        <2>4. a - b = (x + y - m) + d
            BY <2>3
        <2> QED
            BY <2>1, <2>2, <2>4
    <1>9. PICK e \in Int : e = a - b
        OBVIOUS
    <1>10. e = (p + q - 1) * m + d
        BY <1>8, <1>9
    <1>11. e % m = d
        <2>1. PICK n \in Int : n = p + q - 1
            OBVIOUS
        <2> QED
            BY <1>10, <2>1, DivModOf
    <1>12. (a + ((m - b) % m)) % m = (a - b) % m
        BY <1>6, <1>7, <1>9, <1>11
    <1> HIDE DEF negative
    <1> QED
        BY <1>0, <1>5, <1>12

-----------------------------------------------------------------------------
(* Shifts                                                                  *)

\* What words count for multiplies.
LEMMA WeightSum ==
    ASSUME NEW j \in Nat, NEW k \in Nat, j + k <= NWords
    PROVE  Weight(j + k) = Weight(j) * Weight(k)
    <1>0. NWords \in Nat /\ WordBits \in Nat
        BY SizesAssumption, BitsNat
    <1>1. /\ j * WordBits \in Nat /\ k * WordBits \in Nat
          /\ (j + k) * WordBits = j * WordBits + k * WordBits
        BY <1>0
    <1>2. (j + k) * WordBits <= Bits
        <2>1. j + k \in 0..NWords
            BY <1>0
        <2> QED
            BY <2>1, Weights, BitsNat
    <1> QED
        BY <1>1, <1>2, PowerSum DEF Weight

\* The upper words count for a multiple of what the lowest of them counts for.
LEMMA LowAbove ==
    ASSUME NEW val \in Values, NEW j \in 0..NWords
    PROVE  \A k \in j..NWords : \E t \in Nat : Low(val)[k] = Low(val)[j] + t * Weight(j)
    <1>0. NWords \in Nat \ {0}
        BY SizesAssumption
    <1>1. PICK a \in Nat, w \in Nat : a = Low(val)[j] /\ w = Weight(j)
        BY <1>0, LowNat, Weights
    <1> DEFINE G == {n \in 0..(NWords - j) : \E t \in Nat : Low(val)[j + n] = a + t * w}
    <1>2. 0 \in G
        <2>1. Low(val)[j + 0] = a + 0 * w /\ 0 \in 0..(NWords - j)
            BY <1>0, <1>1
        <2> QED
            BY <2>1
    <1>3. ASSUME NEW n \in 0..(NWords - j - 1), n \in G PROVE n + 1 \in G
        <2>1. PICK t \in Nat : Low(val)[j + n] = a + t * w
            BY <1>3
        <2>2. j + n \in 0..(NWords - 1) /\ j + n \in Index /\ j + (n + 1) = (j + n) + 1
            BY <1>0 DEF Index
        <2>3. Low(val)[j + (n + 1)] = Low(val)[j + n] + val[j + n] * Weight(j + n)
            BY <2>2, LowSteps
        <2>4. PICK x \in Nat : x = val[j + n]
            BY <2>2, WordNat
        <2>5. PICK u \in Nat : u = Weight(n) /\ Weight(j + n) = w * u
            <3>1. j + n <= NWords /\ n \in 0..NWords /\ n \in Nat /\ j \in Nat
                BY <1>0
            <3> QED
                BY <1>1, <3>1, Weights, WeightSum
        <2>6. Low(val)[j + (n + 1)] = a + (t + x * u) * w
            <3>1. (t + x * u) * w = t * w + x * (w * u)
                OBVIOUS
            <3> QED
                BY <2>1, <2>3, <2>4, <2>5, <3>1
        <2>7. t + x * u \in Nat /\ n + 1 \in 0..(NWords - j)
            BY <1>0
        <2> QED
            BY <2>6, <2>7
    <1>4. \A n \in 0..(NWords - j) : n \in G
        <2>1. NWords - j \in Nat
            BY <1>0
        <2> HIDE DEF G
        <2> QED
            BY <1>2, <1>3, <2>1, Reaches
    <1>5. ASSUME NEW k \in j..NWords
          PROVE  \E t \in Nat : Low(val)[k] = Low(val)[j] + t * Weight(j)
        <2>1. k - j \in G /\ j + (k - j) = k
            BY <1>0, <1>4
        <2> QED
            BY <1>1, <2>1
    <1> QED
        BY <1>5

\* A word shifted by some bits, and what leaves it at the top.
LEMMA ShiftParts ==
    ASSUME NEW x \in Word, NEW B \in Nat \ {0}, NEW C \in Nat \ {0}, B * C = WordSize
    PROVE  /\ x \div C \in 0..(B - 1)
           /\ (x * B) % WordSize = x * B - (x \div C) * WordSize
           /\ (x * B) % WordSize \in Nat
           /\ ((x * B) % WordSize) + B <= WordSize
    <1>0. PICK w \in Nat \ {0} : w = WordSize /\ w = B * C /\ x \in Nat /\ x < w
        BY Weights DEF Word
    <1>1. PICK q \in Nat, r \in 0..(C - 1) : q = x \div C /\ x = q * C + r
        BY <1>0, Parts
    <1>2. q < B
        <2>1. q >= B => (q - B) * C >= 0 /\ (q - B) * C = q * C - B * C
            OBVIOUS
        <2>2. q * C <= x
            BY <1>1
        <2> QED
            BY <1>0, <2>1, <2>2
    <1>3. r * B \in Nat /\ r * B + B <= w
        <2>1. r * B \in Nat /\ (C - 1 - r) * B >= 0 /\ (C - 1 - r) * B = B * C - B - r * B
            OBVIOUS
        <2> QED
            BY <1>0, <2>1
    <1>4. x * B = q * w + r * B
        <2>1. (q * C + r) * B = q * (B * C) + r * B
            OBVIOUS
        <2> QED
            BY <1>0, <1>1, <2>1
    <1>5. PICK y \in Nat, z \in 0..(w - 1) : y = x * B /\ z = r * B
        BY <1>0, <1>3
    <1>6. y % w = z
        <2>1. y = q * w + z
            BY <1>4, <1>5
        <2> QED
            BY <2>1, DivModOf
    <1>7. x * B - q * w = z
        BY <1>4, <1>5
    <1> QED
        BY <1>0, <1>1, <1>2, <1>3, <1>5, <1>6, <1>7

\* The words and the bits of a shift.
LEMMA ShiftSizes ==
    ASSUME NEW by \in 0..(Bits - 1)
    PROVE  /\ by \div WordBits \in 0..(NWords - 1) /\ by % WordBits \in 0..(WordBits - 1)
           /\ Power[by % WordBits] \in Nat \ {0} /\ Power[WordBits - (by % WordBits)] \in Nat \ {0}
           /\ Power[by % WordBits] * Power[WordBits - (by % WordBits)] = WordSize
           /\ Power[by] = Weight(by \div WordBits) * Power[by % WordBits]
    <1>0. WordBits \in Nat \ {0} /\ Bits = NWords * WordBits /\ NWords \in Nat \ {0}
          /\ Bits \in Nat \ {0} /\ WordBits <= Bits
        BY BitsNat, SizesAssumption DEF Bits
    <1>1. PICK e \in Nat, b \in 0..(WordBits - 1) :
              e = by \div WordBits /\ b = by % WordBits /\ by = e * WordBits + b
        <2>1. by \in Nat
            BY <1>0
        <2> QED
            BY <1>0, <2>1, Parts
    <1>2. e < NWords
        <2>1. e >= NWords => (e - NWords) * WordBits >= 0
            BY <1>0
        <2>2. (e - NWords) * WordBits = e * WordBits - NWords * WordBits
            BY <1>0
        <2> QED
            BY <1>0, <1>1, <2>1, <2>2
    <1>3. Power[b] \in Nat \ {0} /\ Power[WordBits - b] \in Nat \ {0}
          /\ Power[WordBits] = Power[b] * Power[WordBits - b]
        <2>1. b \in Nat /\ WordBits \in Nat /\ b <= WordBits
              /\ WordBits - b \in 0..Bits
            BY <1>0
        <2> QED
            BY <1>0, <2>1, PowerOrder, PowerStep
    <1>4. Power[by] = Weight(e) * Power[b]
        <2>1. e * WordBits \in Nat /\ b \in Nat /\ e * WordBits + b <= Bits
            BY <1>0, <1>1
        <2> QED
            BY <1>1, <2>1, PowerSum DEF Weight
    <1>5. e \in 0..(NWords - 1)
        BY <1>0, <1>2
    <1>6. WordSize = Power[WordBits]
        BY DEF WordSize
    <1> QED
        BY <1>1, <1>3, <1>4, <1>5, <1>6

\* What leaves the word below m at the top.
Out(val, m, C) == IF m = 0 THEN 0 ELSE val[m - 1] \div C

\* Every word of the result.
LEMMA ShiftedWords ==
    ASSUME NEW val \in Values, NEW by \in 0..(Bits - 1), NEW e, NEW B, NEW C,
           e = by \div WordBits, B = Power[by % WordBits], C = Power[WordBits - (by % WordBits)]
    PROVE  /\ uint256_lshift(val, by) \in Values
           /\ \A k \in Index : k < e => uint256_lshift(val, by)[k] = 0
           /\ \A m \in 0..(NWords - 1 - e) :
                  uint256_lshift(val, by)[e + m]
                  = val[m] * B - Out(val, m + 1, C) * WordSize + Out(val, m, C)
    <1>0. /\ NWords \in Nat \ {0} /\ e \in 0..(NWords - 1) /\ B \in Nat \ {0}
          /\ C \in Nat \ {0} /\ B * C = WordSize /\ by % WordBits \in 0..(WordBits - 1)
        BY SizesAssumption, ShiftSizes
    <1>1. PICK R : R = uint256_lshift(val, by)
        OBVIOUS
    <1>2. R = [k \in Index |-> IF k < e THEN 0 ELSE ShiftedWord(val, k - e, by % WordBits)]
        BY <1>1 DEF uint256_lshift
    <1>3. ASSUME NEW m \in 0..(NWords - 1)
          PROVE  /\ ShiftedWord(val, m, by % WordBits)
                    = val[m] * B - Out(val, m + 1, C) * WordSize + Out(val, m, C)
                 /\ ShiftedWord(val, m, by % WordBits) \in Word
        <2>1. PICK w \in Nat \ {0} : w = WordSize
            BY Weights
        <2>2. m \in Index /\ val[m] \in Word
            BY WordNat DEF Index
        <2>3. PICK d \in Nat : /\ d = (val[m] * B) % w /\ d + B <= w
                               /\ d = val[m] * B - (val[m] \div C) * w
            <3>1. /\ (val[m] * B) % WordSize = val[m] * B - (val[m] \div C) * WordSize
                  /\ (val[m] * B) % WordSize \in Nat
                  /\ ((val[m] * B) % WordSize) + B <= WordSize
                BY <1>0, <2>2, ShiftParts
            <3> QED
                BY <2>1, <3>1
        <2>4. Out(val, m + 1, C) = val[m] \div C
            <3>1. m + 1 # 0 /\ (m + 1) - 1 = m
                OBVIOUS
            <3> QED
                BY <3>1 DEF Out
        <2>5. /\ Out(val, m, C) \in 0..(B - 1)
              /\ ShiftedWord(val, m, by % WordBits) = d + Out(val, m, C)
            <3>1. CASE m = 0
                BY <1>0, <2>1, <2>3, <3>1 DEF Out, ShiftedWord
            <3>2. CASE m # 0
                <4>1. m - 1 \in Index /\ val[m - 1] \in Word
                    BY <1>0, <3>2, WordNat DEF Index
                <4>2. val[m - 1] \div C \in 0..(B - 1)
                    BY <1>0, <4>1, ShiftParts
                <4>3. CASE by % WordBits = 0
                    <5>1. B = 1
                        BY <4>3, PowerStep
                    <5>2. val[m - 1] \div C = 0
                        BY <4>2, <5>1
                    <5>3. PICK bits : bits = by % WordBits /\ bits = 0
                        BY <4>3
                    <5>4. ShiftedWord(val, m, bits) = d + 0
                        BY <2>1, <2>3, <5>3 DEF ShiftedWord
                    <5> QED
                        BY <1>0, <2>3, <3>2, <5>2, <5>3, <5>4 DEF Out
                <4>4. CASE by % WordBits # 0
                    BY <1>0, <2>1, <2>3, <3>2, <4>2, <4>4 DEF Out, ShiftedWord
                <4> QED
                    BY <4>3, <4>4
            <3> QED
                BY <3>1, <3>2
        <2>6. PICK o \in 0..(B - 1) : o = Out(val, m, C)
            BY <2>5
        <2>7. d + o \in 0..(w - 1)
            BY <1>0, <2>3
        <2> QED
            BY <2>1, <2>3, <2>4, <2>5, <2>6, <2>7 DEF Word
    <1>4. R \in Values
        <2>1. ASSUME NEW k \in Index PROVE R[k] \in Word
            <3>1. CASE k < e
                BY <1>2, <3>1, Weights DEF Word
            <3>2. CASE ~ (k < e)
                <4>1. k - e \in 0..(NWords - 1)
                    BY <1>0, <3>2 DEF Index
                <4> QED
                    BY <1>2, <1>3, <3>2, <4>1
            <3> QED
                BY <3>1, <3>2
        <2>2. R = [k \in Index |-> R[k]]
            BY <1>2
        <2> QED
            BY <2>1, <2>2 DEF Values
    <1>5. ASSUME NEW m \in 0..(NWords - 1 - e)
          PROVE  R[e + m] = val[m] * B - Out(val, m + 1, C) * WordSize + Out(val, m, C)
        <2>1. e + m \in Index /\ ~ (e + m < e) /\ (e + m) - e = m /\ m \in 0..(NWords - 1)
            BY <1>0 DEF Index
        <2> QED
            BY <1>2, <1>3, <2>1
    <1> QED
        BY <1>1, <1>2, <1>4, <1>5

\* The low words of the result.
LEMMA ShiftSteps ==
    ASSUME NEW val \in Values, NEW by \in 0..(Bits - 1), NEW e, NEW B, NEW C,
           e = by \div WordBits, B = Power[by % WordBits], C = Power[WordBits - (by % WordBits)],
           NEW R, R = uint256_lshift(val, by)
    PROVE  \A m \in 0..(NWords - e) :
               Low(R)[e + m] + Out(val, m, C) * Weight(e + m) = Low(val)[m] * (Weight(e) * B)
    <1>0. /\ NWords \in Nat \ {0} /\ e \in 0..(NWords - 1) /\ B \in Nat \ {0}
          /\ C \in Nat \ {0} /\ B * C = WordSize /\ R \in Values
        BY SizesAssumption, ShiftSizes, ShiftedWords
    <1>1. Low(R)[e] = 0
        <2> DEFINE Z == {k \in 0..e : Low(R)[k] = 0}
        <2>1. 0 \in Z
            BY <1>0, LowZero
        <2>2. ASSUME NEW k \in 0..(e - 1), k \in Z PROVE k + 1 \in Z
            <3>1. k \in 0..(NWords - 1) /\ k \in Index /\ k < e /\ k \in 0..NWords
                BY <1>0 DEF Index
            <3>2. Low(R)[k + 1] = Low(R)[k] + R[k] * Weight(k) /\ R[k] = 0
                BY <1>0, <3>1, LowSteps, ShiftedWords
            <3>3. PICK w \in Nat : w = Weight(k)
                BY <3>1, Weights
            <3>4. Low(R)[k + 1] = 0 + 0 * w
                BY <2>2, <3>2, <3>3
            <3> QED
                BY <1>0, <3>4
        <2>3. \A k \in 0..e : k \in Z
            <3>1. e \in Nat
                BY <1>0
            <3> HIDE DEF Z
            <3> QED
                BY <2>1, <2>2, <3>1, Reaches
        <2> QED
            BY <1>0, <2>3
    <1> DEFINE G == {m \in 0..(NWords - e) :
                        Low(R)[e + m] + Out(val, m, C) * Weight(e + m)
                        = Low(val)[m] * (Weight(e) * B)}
    <1>2. 0 \in G
        <2>1. PICK w \in Nat : w = Weight(e)
            BY <1>0, Weights
        <2>2. Out(val, 0, C) = 0 /\ Low(val)[0] = 0 /\ e + 0 = e /\ 0 \in 0..(NWords - e)
            BY <1>0, LowZero DEF Out
        <2>3. 0 + 0 * w = 0 * (w * B)
            BY <1>0
        <2> QED
            BY <1>1, <2>1, <2>2, <2>3
    <1>3. ASSUME NEW m \in 0..(NWords - e - 1), m \in G PROVE m + 1 \in G
        <2>1. /\ m \in Index /\ m \in 0..(NWords - 1) /\ m \in 0..NWords /\ e + m <= NWords
              /\ e + m \in 0..(NWords - 1) /\ e + m \in 0..NWords /\ m \in 0..(NWords - 1 - e)
              /\ e + (m + 1) = (e + m) + 1 /\ m + 1 \in 0..(NWords - e)
              /\ e \in Nat /\ m \in Nat /\ e \in 0..NWords
            BY <1>0 DEF Index
        <2>2. PICK z \in Nat, u \in Nat, v \in Nat :
                  z = WordSize /\ u = Weight(e) /\ v = Weight(m)
            BY <2>1, Weights
        <2>3. Weight(e + m) = u * v /\ Weight(e + (m + 1)) = (u * v) * z
            BY <2>1, <2>2, Weights, WeightSum
        <2>4. PICK x \in Nat, y \in Nat, p \in Nat :
                  x = val[m] /\ y = Low(val)[m] /\ p = Low(R)[e + m]
            <3>1. val[m] \in Nat /\ Low(val)[m] \in Nat /\ Low(R)[e + m] \in Nat
                BY <1>0, <2>1, WordNat, LowNat
            <3> HIDE DEF G
            <3> QED
                BY <3>1
        <2>5. PICK o \in Int, q \in Int : o = Out(val, m, C) /\ q = Out(val, m + 1, C)
            <3>1. Out(val, m + 1, C) \in Int
                <4>1. m + 1 # 0 /\ (m + 1) - 1 = m
                    BY <2>1
                <4> QED
                    BY <1>0, <2>4, <4>1 DEF Out
            <3>2. Out(val, m, C) \in Int
                <4>1. CASE m = 0
                    BY <4>1 DEF Out
                <4>2. CASE m # 0
                    <5>1. m - 1 \in Index
                        BY <1>0, <2>1, <4>2 DEF Index
                    <5>2. val[m - 1] \in Nat
                        BY <5>1, WordNat
                    <5> QED
                        BY <1>0, <4>2, <5>2 DEF Out
                <4> QED
                    BY <4>1, <4>2
            <3> HIDE DEF G
            <3> QED
                BY <3>1, <3>2
        <2>6. R[e + m] = x * B - q * z + o
            BY <2>1, <2>2, <2>4, <2>5, ShiftedWords
        <2>7. Low(R)[e + (m + 1)] = p + (x * B - q * z + o) * (u * v)
            BY <1>0, <2>1, <2>3, <2>4, <2>6, LowSteps
        <2>8. Low(val)[m + 1] = y + x * v
            BY <2>1, <2>2, <2>4, LowSteps
        <2>9. p + o * (u * v) = y * (u * B)
            BY <1>3, <2>2, <2>3, <2>4, <2>5
        <2>10. p + (x * B - q * z + o) * (u * v) + q * ((u * v) * z) = (y + x * v) * (u * B)
            <3>1. (x * B - q * z + o) * (u * v)
                  = x * B * (u * v) - q * ((u * v) * z) + o * (u * v)
                BY <1>0
            <3>2. (y + x * v) * (u * B) = y * (u * B) + x * B * (u * v)
                BY <1>0
            <3>3. PICK i1 \in Int, i2 \in Int, i3 \in Int, i4 \in Int :
                      /\ i1 = x * B * (u * v) /\ i2 = q * ((u * v) * z)
                      /\ i3 = o * (u * v) /\ i4 = y * (u * B)
                BY <1>0
            <3> HIDE DEF G
            <3> QED
                BY <2>9, <3>1, <3>2, <3>3
        <2> QED
            BY <2>1, <2>2, <2>3, <2>5, <2>7, <2>8, <2>10
    <1>4. \A m \in 0..(NWords - e) : m \in G
        <2>1. NWords - e \in Nat
            BY <1>0
        <2> HIDE DEF G
        <2> QED
            BY <1>2, <1>3, <2>1, Reaches
    <1> QED
        BY <1>4

\* uint256_lshift multiplies by a power of two, modulo the size of the type.
LEMMA ShiftIsProduct ==
    ASSUME NEW val \in Values, NEW by \in 0..(Bits - 1)
    PROVE  /\ uint256_lshift(val, by) \in Values
           /\ Value(uint256_lshift(val, by)) = (Value(val) * Power[by]) % Modulus
    <1>1. PICK e, B, C, R :
              /\ e = by \div WordBits /\ B = Power[by % WordBits]
              /\ C = Power[WordBits - (by % WordBits)] /\ R = uint256_lshift(val, by)
        OBVIOUS
    <1>2. /\ NWords \in Nat \ {0} /\ e \in 0..(NWords - 1) /\ B \in Nat \ {0}
          /\ C \in Nat \ {0} /\ R \in Values /\ Power[by] = Weight(e) * B
        BY <1>1, SizesAssumption, ShiftSizes, ShiftedWords
    <1>3. /\ NWords - e \in 0..NWords /\ NWords - e \in Index \cup {NWords} /\ NWords - e # 0
          /\ e \in 0..NWords /\ e + (NWords - e) = NWords /\ NWords \in (NWords - e)..NWords
          /\ e \in Nat /\ NWords - e \in Nat /\ (NWords - e) - 1 \in Index
        BY <1>2 DEF Index
    <1>4. PICK m \in Nat \ {0}, u \in Nat, v \in Nat :
              m = Modulus /\ u = Weight(e) /\ v = Weight(NWords - e) /\ m = u * v
        <2>1. Modulus = Weight(NWords) /\ Modulus \in Nat \ {0}
              /\ Weight(e) \in Nat /\ Weight(NWords - e) \in Nat
            BY <1>3, Weights
        <2>2. Weight(e + (NWords - e)) = Weight(e) * Weight(NWords - e)
            <3>1. e + (NWords - e) <= NWords
                BY <1>2, <1>3
            <3> QED
                BY <1>3, <3>1, WeightSum
        <2> QED
            BY <1>3, <2>1, <2>2
    <1>5. PICK t \in Nat : Low(val)[NWords] = Low(val)[NWords - e] + t * v
        BY <1>3, <1>4, LowAbove
    <1>6. PICK o \in Int : o = Out(val, NWords - e, C)
        <2>1. val[(NWords - e) - 1] \in Nat
            BY <1>3, WordNat
        <2> QED
            BY <1>2, <1>3, <2>1 DEF Out
    <1>7. PICK y \in Int : y = Low(val)[NWords - e]
        <2>1. Low(val)[NWords - e] \in Nat
            BY <1>3, LowNat
        <2> QED
            BY <2>1
    <1>8. Low(R)[NWords] + o * m = y * (u * B)
        <2>1. NWords - e \in 0..(NWords - e)
            BY <1>3
        <2>2. Low(R)[e + (NWords - e)] + Out(val, NWords - e, C) * Weight(e + (NWords - e))
              = Low(val)[NWords - e] * (Weight(e) * B)
            BY <1>1, <2>1, ShiftSteps
        <2> QED
            BY <1>3, <1>4, <1>6, <1>7, <2>2, Weights
    <1>9. PICK r \in 0..(m - 1) : r = Value(R) /\ r = Low(R)[NWords]
        BY <1>2, <1>4, LowSteps
    <1>10. Value(val) * Power[by] = (t * B + o) * m + r
        <2>1. Value(val) = y + t * v
            BY <1>5, <1>7, LowSteps
        <2>2. (y + t * v) * (u * B) = y * (u * B) + (t * B) * (u * v)
            BY <1>2
        <2>3. PICK s \in Int : s = t * B
            BY <1>2
        <2>4. (s + o) * m + r = s * m + o * m + r
            OBVIOUS
        <2> QED
            BY <1>2, <1>4, <1>8, <1>9, <2>1, <2>2, <2>3, <2>4
    <1>11. (Value(val) * Power[by]) % m = r
        <2>1. PICK q \in Int, a \in Int : q = t * B + o /\ a = q * m + r
            BY <1>2
        <2>2. a % m = r
            BY <2>1, DivModOf
        <2> QED
            BY <1>10, <2>1, <2>2
    <1> QED
        BY <1>1, <1>2, <1>4, <1>9, <1>11

-----------------------------------------------------------------------------
(* Bits and multiplication                                                 *)

\* Shifting a word to the top and to the bottom leaves the bit in between.
LEMMA WordBit ==
    ASSUME NEW x \in Word, NEW B \in Nat \ {0}, NEW D \in Nat \ {0}, B * (2 * D) = WordSize
    PROVE  \E b \in {0, 1}, s \in 0..(D - 1), q \in Nat :
               /\ ((x * B) % WordSize) \div (B * D) = b
               /\ x = q * (2 * D) + b * D + s
    <1>0. PICK C \in Nat \ {0} : C = 2 * D /\ B * C = WordSize
        OBVIOUS
    <1>1. PICK w \in Nat : w = WordSize /\ x \in Nat
        BY Weights DEF Word
    <1>2. PICK q \in Nat, r \in 0..(C - 1) : q = x \div C /\ r = x % C /\ x = q * C + r
        BY <1>1, Parts
    <1>3. PICK b \in {0, 1}, s \in 0..(D - 1) : r = b * D + s
        <2>1. CASE r < D
            <3>1. r = 0 * D + r /\ r \in 0..(D - 1)
                BY <2>1
            <3> QED
                BY <3>1
        <2>2. CASE r >= D
            <3>1. r = 1 * D + (r - D) /\ r - D \in 0..(D - 1)
                BY <1>0, <2>2
            <3> QED
                BY <3>1
        <2> QED
            BY <2>1, <2>2
    <1>4. (x * B) % WordSize = x * B - q * w
        BY <1>0, <1>1, <1>2, ShiftParts
    <1>5. x * B - q * w = b * (B * D) + s * B
        <2>1. (q * C + (b * D + s)) * B = q * (B * C) + b * (B * D) + s * B
            OBVIOUS
        <2>2. PICK k \in Int : k = b * D + s
            OBVIOUS
        <2>3. x = q * C + k
            BY <1>2, <1>3, <2>2
        <2>4. x * B = (q * C + k) * B
            BY <2>3
        <2>5. q * (B * C) = q * w
            BY <1>0, <1>1
        <2>6. x * B = q * w + b * (B * D) + s * B
            BY <2>1, <2>2, <2>4, <2>5
        <2>7. PICK k1 \in Int, k2 \in Int, k3 \in Int :
                  k1 = q * w /\ k2 = b * (B * D) /\ k3 = s * B
            OBVIOUS
        <2> QED
            BY <2>6, <2>7
    <1>6. s * B \in 0..(B * D - 1) /\ B * D \in Nat \ {0}
        <2>1. s * B \in Nat /\ (D - 1 - s) * B >= 0 /\ (D - 1 - s) * B = B * D - B - s * B
            OBVIOUS
        <2> QED
            BY <2>1
    <1>6a. PICK n \in Nat \ {0} : n = B * D
        BY <1>6
    <1>7. PICK y \in 0..(n - 1), z \in Int : y = s * B /\ z = b * n + y
        BY <1>6, <1>6a
    <1>8. z \div n = b
        <2>1. b \in Int
            OBVIOUS
        <2> QED
            BY <1>7, <2>1, DivModOf
    <1>9. ((x * B) % WordSize) \div (B * D) = b
        BY <1>4, <1>5, <1>6a, <1>7, <1>8
    <1>10. x = q * (2 * D) + b * D + s
        <2>1. x = q * C + (b * D + s)
            BY <1>2, <1>3
        <2>2. PICK k1 \in Int, k2 \in Int : k1 = q * C /\ k2 = b * D
            OBVIOUS
        <2>3. x = k1 + k2 + s
            BY <2>1, <2>2
        <2> QED
            BY <1>0, <2>2, <2>3
    <1> QED
        BY <1>9, <1>10

\* v has the bit b where m is the power of two, and a below it.
HasBit(v, m, b, a) == \E u \in Int : v = u * (2 * m) + (b * m + a)

BitRemainders(v, m, b, a) == v % m = a /\ v % (2 * m) = b * m + a

LEMMA TwoRemainders ==
    ASSUME NEW m \in Nat \ {0}, NEW a \in 0..(m - 1), NEW b \in {0, 1}, NEW v \in Int
    PROVE  HasBit(v, m, b, a) => BitRemainders(v, m, b, a)
    <1>0. SUFFICES ASSUME NEW u \in Int, v = u * (2 * m) + (b * m + a)
                   PROVE  v % m = a /\ v % (2 * m) = b * m + a
        BY DEF HasBit, BitRemainders
    <1>1. v % m = a
        <2>1. PICK c \in Int : c = 2 * u + b
            OBVIOUS
        <2>2. v = c * m + a
            <3>1. c * m = u * (2 * m) + b * m
                BY <2>1
            <3> QED
                BY <1>0, <3>1
        <2> QED
            BY <2>2, DivModOf
    <1>2. PICK m2 \in Nat \ {0} : m2 = 2 * m
        OBVIOUS
    <1>3. PICK r \in 0..(m2 - 1) : r = b * m + a
        BY <1>2
    <1>4. v = u * m2 + r
        BY <1>0, <1>2, <1>3
    <1>5. v % m2 = r
        BY <1>4, DivModOf
    <1> QED
        BY <1>1, <1>2, <1>3, <1>5

\* uint256_is_bit_set is the bit of the number.
LEMMA BitIsBit ==
    ASSUME NEW val \in Values, NEW n \in 0..(Bits - 1)
    PROVE  /\ uint256_is_bit_set(val, n) \in {0, 1}
           /\ Value(val) % Power[n + 1]
              = (Value(val) % Power[n]) + uint256_is_bit_set(val, n) * Power[n]
           /\ Power[n] \in Nat /\ Value(val) % Power[n] \in Nat
    <1>1. PICK e, idx : e = n \div WordBits /\ idx = n % WordBits
        OBVIOUS
    <1>2. /\ NWords \in Nat \ {0} /\ WordBits \in Nat \ {0} /\ WordBits <= Bits /\ Bits \in Nat
          /\ e \in 0..(NWords - 1) /\ idx \in 0..(WordBits - 1)
        <2>1. n \div WordBits \in 0..(NWords - 1) /\ n % WordBits \in 0..(WordBits - 1)
            BY ShiftSizes
        <2>2. NWords \in Nat \ {0} /\ WordBits \in Nat \ {0} /\ WordBits <= Bits /\ Bits \in Nat
            BY SizesAssumption, BitsNat
        <2> QED
            BY <1>1, <2>1, <2>2
    <1>3. /\ e \in Index /\ e \in 0..NWords /\ e + 1 \in 0..NWords /\ NWords \in (e + 1)..NWords
          /\ idx \in 0..(Bits - 1) /\ idx \in 0..Bits /\ WordBits - 1 - idx \in 0..Bits
          /\ n + 1 \in 0..Bits /\ n \in 0..Bits
        BY <1>2 DEF Index
    <1>4. PICK B \in Nat \ {0}, D \in Nat \ {0} : B = Power[WordBits - 1 - idx] /\ D = Power[idx]
        <2>1. Power[WordBits - 1 - idx] \in Nat \ {0} /\ Power[idx] \in Nat \ {0}
            BY <1>3, PowerStep
        <2> QED
            BY <2>1
    <1>5. Power[WordBits - 1] = B * D
        <2>1. (WordBits - 1 - idx) + idx = WordBits - 1
            BY <1>2
        <2> QED
            BY <1>2, <1>3, <1>4, <2>1, PowerSum
    <1>6. B * (2 * D) = WordSize
        <2>1. WordBits - 1 \in 0..(Bits - 1) /\ (WordBits - 1) + 1 = WordBits
            BY <1>2
        <2>2. Power[WordBits] = 2 * Power[WordBits - 1]
            BY <2>1, PowerStep
        <2>3. B * (2 * D) = 2 * (B * D)
            OBVIOUS
        <2> QED
            BY <1>5, <2>2, <2>3 DEF WordSize
    <1>7. PICK x \in Word : x = val[e]
        BY <1>3, WordNat
    <1>8. PICK b \in {0, 1}, s \in 0..(D - 1), q \in Nat :
              /\ ((x * B) % WordSize) \div (B * D) = b
              /\ x = q * (2 * D) + b * D + s
        BY <1>6, WordBit
    <1>9. uint256_is_bit_set(val, n) = b
        BY <1>1, <1>4, <1>5, <1>7, <1>8 DEF uint256_is_bit_set
    <1>10a. PICK w \in Nat \ {0} : w = Weight(e)
        BY <1>3, Weights
    <1>10. PICK y \in 0..(w - 1) : w = Weight(e) /\ y = Low(val)[e]
        <2>1. Low(val)[e] \in 0..(w - 1)
            BY <1>3, <1>10a, LowSteps, SMTT(30)
        <2> QED
            BY <1>10a, <2>1
    <1>11. Power[n] = w * D /\ Power[n + 1] = w * (2 * D)
        <2>1. Power[n] = w * D
            BY <1>1, <1>4, <1>10, ShiftSizes
        <2>2. Power[n + 1] = 2 * Power[n]
            BY PowerStep
        <2>3. w * (2 * D) = 2 * (w * D)
            OBVIOUS
        <2> QED
            BY <2>1, <2>2, <2>3
    <1>12. PICK t \in Nat : Value(val) = (y + x * w) + t * (w * WordSize)
        <2>1. PICK t \in Nat : Low(val)[NWords] = Low(val)[e + 1] + t * Weight(e + 1)
            BY <1>3, LowAbove
        <2>2. Weight(e + 1) = w * WordSize
            BY <1>2, <1>10, Weights
        <2>3. Low(val)[e + 1] = y + x * w
            BY <1>2, <1>7, <1>10, LowSteps
        <2> QED
            BY <2>1, <2>2, <2>3, LowSteps
    <1>14. PICK m \in Nat \ {0} : m = w * D
        OBVIOUS
    <1>13. PICK a \in 0..(m - 1) : a = y + s * w
        <2>1. s * w \in Nat /\ (D - 1 - s) * w >= 0 /\ (D - 1 - s) * w = w * D - w - s * w
            OBVIOUS
        <2> QED
            BY <1>14, <2>1
    <1>15. PICK v \in Int : v = Value(val) /\ v = (q + t * B) * (2 * m) + (b * m + a)
        <2>1. (q * (2 * D) + b * D + s) * w = q * (2 * (w * D)) + b * (w * D) + s * w
            OBVIOUS
        <2>2. t * (w * (B * (2 * D))) = (t * B) * (2 * (w * D))
            OBVIOUS
        <2>3. (q + t * B) * (2 * m) = q * (2 * m) + (t * B) * (2 * m)
            OBVIOUS
        <2>4. PICK k1 \in Int, k2 \in Int, k3 \in Int, k4 \in Int :
                  /\ k1 = q * (2 * m) /\ k2 = (t * B) * (2 * m) /\ k3 = b * m /\ k4 = s * w
            OBVIOUS
        <2>5. x * w = k1 + k3 + k4
            BY <1>8, <1>14, <2>1, <2>4
        <2>6. t * (w * WordSize) = k2
            BY <1>6, <1>14, <2>2, <2>4
        <2>7. Value(val) = (y + (k1 + k3 + k4)) + k2
            BY <1>12, <2>5, <2>6
        <2>8. Value(val) = (k1 + k2) + (k3 + a)
            BY <1>13, <2>4, <2>7
        <2>9. Value(val) = (q + t * B) * (2 * m) + (b * m + a)
            BY <2>3, <2>4, <2>8
        <2> QED
            BY <2>8, <2>9
    <1>16. PICK u \in Int : u = q + t * B /\ v = u * (2 * m) + (b * m + a)
        BY <1>15
    <1>17. v % m = a /\ v % (2 * m) = b * m + a
        <2>2. HasBit(v, m, b, a)
            BY <1>16 DEF HasBit
        <2>3. BitRemainders(v, m, b, a)
            BY <2>2, TwoRemainders
        <2> QED
            BY <2>3 DEF BitRemainders
    <1>19. Power[n] = m /\ Power[n + 1] = 2 * m
        <2>1. w * (2 * D) = 2 * (w * D)
            OBVIOUS
        <2> QED
            BY <1>11, <1>14, <2>1
    <1> QED
        BY <1>9, <1>13, <1>14, <1>15, <1>17, <1>19

\* Remainders may be taken before or after an addition.
LEMMA ModSum ==
    ASSUME NEW x \in Int, NEW y \in Int, NEW m \in Nat \ {0}
    PROVE  ((x % m) + (y % m)) % m = (x + y) % m
    <1>1. PICK p \in Int, a \in 0..(m - 1) : a = x % m /\ x = p * m + a
        BY DivMod
    <1>2. PICK q \in Int, b \in 0..(m - 1) : b = y % m /\ y = q * m + b
        BY DivMod
    <1>3. PICK s \in Int : s = a + b
        OBVIOUS
    <1>4. PICK t \in Int, c \in 0..(m - 1) : c = s % m /\ s = t * m + c
        BY DivMod
    <1>5. PICK z \in Int, r \in Int : z = x + y /\ r = p + q + t
        OBVIOUS
    <1>6. z = r * m + c
        <2>1. r * m = p * m + q * m + t * m
            BY <1>5
        <2>2. PICK k1 \in Int, k2 \in Int, k3 \in Int : k1 = p * m /\ k2 = q * m /\ k3 = t * m
            OBVIOUS
        <2>3. x = k1 + a /\ a \in Int
            BY <1>1, <2>2
        <2>4. y = k2 + b /\ b \in Int
            BY <1>2, <2>2
        <2>5. s = k3 + c /\ c \in Int
            BY <1>4, <2>2
        <2>6. s = a + b /\ z = x + y
            BY <1>3, <1>5
        <2>7. z = k1 + k2 + k3 + c
            BY <2>3, <2>4, <2>5, <2>6
        <2> QED
            BY <2>1, <2>2, <2>7
    <1>7. z % m = c
        BY <1>6, DivModOf
    <1> QED
        BY <1>1, <1>2, <1>3, <1>4, <1>5, <1>7

\* A turn of the loop of uint256_mul.
LEMMA ProductTurn ==
    ASSUME NEW l \in Values, NEW r \in Values, NEW p \in Values, NEW n \in 0..(Bits - 1),
           Value(p) = ((Value(l) % Power[n]) * Value(r)) % Modulus,
           NEW s, s = IF uint256_is_bit_set(l, n) = 1
                      THEN uint256_add(p, uint256_lshift(r, n)) ELSE p
    PROVE  s \in Values /\ Value(s) = ((Value(l) % Power[n + 1]) * Value(r)) % Modulus
    <1>1. PICK a \in Nat, d \in Nat, v \in Nat :
              a = Value(l) % Power[n] /\ d = Power[n] /\ v = Value(r)
        <2>1. Value(r) \in Nat
            BY LowSteps, Weights
        <2> QED
            BY <2>1, BitIsBit
    <1>2. PICK m \in Nat \ {0} : m = Modulus
        BY Weights
    <1>3. CASE uint256_is_bit_set(l, n) = 1
        <2>1. Value(l) % Power[n + 1] = a + d
            BY <1>1, <1>3, BitIsBit
        <2>2. uint256_lshift(r, n) \in Values /\ Value(uint256_lshift(r, n)) = (v * d) % m
            BY <1>1, <1>2, ShiftIsProduct
        <2>3. s \in Values /\ Value(s) = (((a * v) % m) + ((v * d) % m)) % m
            BY <1>1, <1>2, <1>3, <2>2, AddIsSum
        <2>4. PICK x \in Int, y \in Int : x = a * v /\ y = v * d /\ x + y = (a + d) * v
            OBVIOUS
        <2>5. Value(s) = (x + y) % m
            BY <2>3, <2>4, ModSum
        <2> QED
            BY <1>1, <1>2, <2>1, <2>3, <2>4, <2>5
    <1>4. CASE uint256_is_bit_set(l, n) # 1
        <2>1. uint256_is_bit_set(l, n) = 0
            BY <1>4, BitIsBit
        <2>2. Value(l) % Power[n + 1] = a
            BY <1>1, <2>1, BitIsBit
        <2> QED
            BY <1>1, <1>4, <2>2
    <1> QED
        BY <1>3, <1>4

-----------------------------------------------------------------------------
(* Numerals                                                                *)

\* What a digit counts for with k digits behind it.
Place(k) == Power[DigitBits * k]

LEMMA Places ==
    /\ Place(0) = 1 /\ Place(1) = Base
    /\ Place(WordDigits) = WordSize /\ Place(AllDigits) = Modulus
    /\ Base \in Nat /\ Base >= 2
    /\ \A k \in 0..AllDigits : DigitBits * k \in 0..Bits /\ Place(k) \in Nat \ {0}
    <1>0. /\ DigitBits \in Nat \ {0} /\ WordDigits \in Nat \ {0} /\ NWords \in Nat \ {0}
          /\ AllDigits \in Nat \ {0} /\ Bits \in Nat \ {0} /\ DigitBits <= Bits
        BY SizesAssumption, BitsNat
    <1>1. Bits = DigitBits * AllDigits
        <2>1. NWords * (DigitBits * WordDigits) = DigitBits * (NWords * WordDigits)
            BY <1>0
        <2> QED
            BY <2>1 DEF Bits, WordBits, AllDigits
    <1>2. ASSUME NEW k \in 0..AllDigits
          PROVE  DigitBits * k \in 0..Bits /\ Place(k) \in Nat \ {0}
        <2>1. DigitBits * k \in Nat /\ DigitBits * (AllDigits - k) >= 0
            BY <1>0
        <2>2. DigitBits * (AllDigits - k) = DigitBits * AllDigits - DigitBits * k
            BY <1>0
        <2>3. DigitBits * k \in 0..Bits
            BY <1>0, <1>1, <2>1, <2>2
        <2> QED
            BY <2>3, PowerStep DEF Place
    <1>3. Place(0) = 1 /\ Place(1) = Base
        <2>1. DigitBits * 0 = 0 /\ DigitBits * 1 = DigitBits
            BY <1>0
        <2> QED
            BY <2>1, PowerStep DEF Place, Base
    <1>4. Place(WordDigits) = WordSize /\ Place(AllDigits) = Modulus
        BY <1>1 DEF Place, WordSize, WordBits, Modulus
    <1>5. Base \in Nat /\ Base >= 2
        <2>1. 2 * Power[0] <= Power[DigitBits] /\ Power[DigitBits] \in Nat
            BY <1>0, PowerOrder
        <2> QED
            BY <2>1, PowerStep DEF Base
    <1> QED
        BY <1>2, <1>3, <1>4, <1>5

\* Places multiply.
LEMMA PlaceSum ==
    ASSUME NEW a \in Nat, NEW b \in Nat, a + b <= AllDigits
    PROVE  Place(a + b) = Place(a) * Place(b)
    <1>0. DigitBits \in Nat /\ AllDigits \in Nat
        BY SizesAssumption, BitsNat
    <1>1. /\ DigitBits * a \in Nat /\ DigitBits * b \in Nat
          /\ DigitBits * (a + b) = DigitBits * a + DigitBits * b
        BY <1>0
    <1>2. DigitBits * (a + b) <= Bits
        <2>1. a + b \in 0..AllDigits
            BY <1>0
        <2> QED
            BY <2>1, Places, BitsNat
    <1> QED
        BY <1>1, <1>2, PowerSum DEF Place

\* A digit of a string.
LEMMA DigitNat ==
    ASSUME NEW str \in Seq(Digit), NEW k \in 1..Len(str)
    PROVE  str[k] \in Nat /\ str[k] < Base /\ Base \in Nat
    <1>1. str[k] \in 0..(Base - 1)
        BY ElementOfSeq DEF Digit
    <1>2. Base \in Nat
        BY Places
    <1> QED
        BY <1>1, <1>2

\* A digit does not reach the next place.
LEMMA DigitFits ==
    ASSUME NEW x \in Nat, NEW p \in Nat, x < p, NEW b \in Nat, NEW d \in Nat, d < b
    PROVE  x * b + d \in Nat /\ x * b + d < p * b
    <1>1. PICK k1 \in Int, k2 \in Int : k1 = p * b /\ k2 = x * b
        OBVIOUS
    <1>2. (p - x - 1) * b >= 0 /\ (p - x - 1) * b = p * b - x * b - b
        OBVIOUS
    <1>3. k1 - k2 - b >= 0 /\ k2 \in Nat
        <2>1. x * b \in Nat
            OBVIOUS
        <2> QED
            BY <1>1, <1>2, <2>1
    <1> QED
        BY <1>1, <1>3

\* The numbers the digits behind from write one after the other.
Numbers(str, from, n) ==
    CHOOSE f : f = [k \in 0..n |-> IF k = 0 THEN 0 ELSE f[k - 1] * Base + str[from + k]]

LEMMA NumberIsLast ==
    ASSUME NEW str \in Seq(Digit), NEW from \in Nat, NEW n \in Nat, from + n <= Len(str)
    PROVE  /\ Numbers(str, from, n)
              = [k \in 0..n |-> IF k = 0 THEN 0
                                ELSE Numbers(str, from, n)[k - 1] * Base + str[from + k]]
           /\ strtoul(str, from, n) = Numbers(str, from, n)[n]
    <1> DEFINE step == [ks \in (1..n) \X Nat |-> ks[2] * Base + str[from + ks[1]]]
    <1>1. step \in [(1..n) \X Nat -> Nat]
        <2>1. \A ks \in (1..n) \X Nat : ks[2] * Base + str[from + ks[1]] \in Nat
            <3> TAKE ks \in (1..n) \X Nat
            <3>1. from + ks[1] \in 1..Len(str) /\ ks[2] \in Nat
                BY LenProperties
            <3>2. str[from + ks[1]] \in Nat /\ Base \in Nat
                BY <3>1, DigitNat
            <3>3. PICK x \in Nat, b \in Nat, d \in Nat : x = ks[2] /\ b = Base /\ d = str[from + ks[1]]
                BY <3>1, <3>2
            <3>4. x * b \in Nat
                OBVIOUS
            <3> QED
                BY <3>3, <3>4
        <2> QED
            BY <2>1
    <1>2. PICK f \in [0..n -> Nat] : Follows(f, n, 0, step)
        <2> HIDE DEF step
        <2> QED
            BY <1>1, Recursion
    <1>3. f = [k \in 0..n |-> IF k = 0 THEN 0 ELSE f[k - 1] * Base + str[from + k]]
        <2>1. \A k \in 0..n : k # 0 => step[<<k, f[k - 1]>>] = f[k - 1] * Base + str[from + k]
            <3> TAKE k \in 0..n
            <3>1. k # 0 => <<k, f[k - 1]>> \in (1..n) \X Nat
                OBVIOUS
            <3> QED
                BY <3>1
        <2> HIDE DEF step
        <2> QED
            BY <1>2, <2>1 DEF Follows
    <1>4. Numbers(str, from, n)
          = [k \in 0..n |-> IF k = 0 THEN 0
                            ELSE Numbers(str, from, n)[k - 1] * Base + str[from + k]]
        BY <1>3 DEF Numbers
    <1>5. strtoul(str, from, n) = Numbers(str, from, n)[n]
        BY DEF strtoul, Numbers
    <1> QED
        BY <1>4, <1>5

\* Digit by digit.
LEMMA StrtoulSteps ==
    ASSUME NEW str \in Seq(Digit), NEW from \in Nat, NEW n \in Nat, from + n <= Len(str)
    PROVE  /\ strtoul(str, from, 0) = 0
           /\ \A k \in 0..(n - 1) :
                 strtoul(str, from, k + 1) = strtoul(str, from, k) * Base + str[from + (k + 1)]
    <1> DEFINE F(m) == Numbers(str, from, m)
    <1>1. ASSUME NEW m \in 0..n
          PROVE  /\ F(m)[0] = 0 /\ strtoul(str, from, m) = F(m)[m]
                 /\ \A k \in 0..(m - 1) : F(m)[k + 1] = F(m)[k] * Base + str[from + (k + 1)]
        <2>0. Len(str) \in Nat
            BY LenProperties
        <2>1. /\ F(m) = [k \in 0..m |-> IF k = 0 THEN 0 ELSE F(m)[k - 1] * Base + str[from + k]]
              /\ strtoul(str, from, m) = F(m)[m]
            BY <2>0, NumberIsLast
        <2>2. ASSUME NEW k \in 0..(m - 1)
              PROVE  F(m)[k + 1] = F(m)[k] * Base + str[from + (k + 1)]
            <3>1. k + 1 \in 0..m /\ k + 1 # 0 /\ (k + 1) - 1 = k
                OBVIOUS
            <3> HIDE DEF F
            <3> QED
                BY <2>1, <3>1
        <2> HIDE DEF F
        <2> QED
            BY <2>1, <2>2
    <1> HIDE DEF F
    <1>2. ASSUME NEW m \in 0..n, NEW j \in 0..m PROVE F(m)[j] = F(j)[j]
        <2> DEFINE G == {k \in 0..j : F(m)[k] = F(j)[k]}
        <2>1. 0 \in G
            BY <1>1
        <2>2. ASSUME NEW k \in 0..(j - 1), k \in G PROVE k + 1 \in G
            <3>1. F(m)[k + 1] = F(m)[k] * Base + str[from + (k + 1)]
                BY <1>1
            <3>2. F(j)[k + 1] = F(j)[k] * Base + str[from + (k + 1)]
                BY <1>1
            <3> QED
                BY <2>2, <3>1, <3>2
        <2>3. \A k \in 0..j : k \in G
            <3> HIDE DEF G
            <3> QED
                BY <2>1, <2>2, Reaches
        <2> QED
            BY <2>3
    <1>3. strtoul(str, from, 0) = 0
        BY <1>1
    <1>4. ASSUME NEW k \in 0..(n - 1)
          PROVE  strtoul(str, from, k + 1) = strtoul(str, from, k) * Base + str[from + (k + 1)]
        <2>1. F(k + 1)[k + 1] = F(k + 1)[k] * Base + str[from + (k + 1)] /\ F(k + 1)[k] = F(k)[k]
            BY <1>1, <1>2
        <2> QED
            BY <1>1, <2>1
    <1> QED
        BY <1>3, <1>4

\* A number has as many digits as it is read from.
LEMMA StrtoulBound ==
    ASSUME NEW str \in Seq(Digit), NEW from \in Nat, NEW n \in Nat, from + n <= Len(str)
    PROVE  /\ strtoul(str, from, n) \in Nat
           /\ n <= AllDigits => strtoul(str, from, n) < Place(n)
    <1> DEFINE N(k) == strtoul(str, from, k)
               G == {k \in 0..n : N(k) \in Nat /\ (k <= AllDigits => N(k) < Place(k))}
    <1>0. AllDigits \in Nat /\ Len(str) \in Nat
        BY BitsNat, LenProperties
    <1>1. 0 \in G
        <2>1. N(0) = 0 /\ Place(0) = 1
            BY StrtoulSteps, Places
        <2> QED
            BY <2>1
    <1>2. ASSUME NEW k \in 0..(n - 1), k \in G PROVE k + 1 \in G
        <2>1. N(k + 1) = N(k) * Base + str[from + (k + 1)]
            BY StrtoulSteps
        <2> HIDE DEF N
        <2>2. /\ N(k) \in Nat /\ str[from + (k + 1)] \in Nat
              /\ str[from + (k + 1)] < Base /\ Base \in Nat
            <3>1. from + (k + 1) \in 1..Len(str)
                BY <1>0
            <3> QED
                BY <1>2, <3>1, DigitNat
        <2>3. PICK x \in Nat, b \in Nat, d \in Nat :
                  x = N(k) /\ b = Base /\ d = str[from + (k + 1)] /\ d < b
            BY <2>2
        <2>4. N(k + 1) = x * b + d /\ x * b + d \in Nat
            <3>1. x * b \in Nat
                OBVIOUS
            <3> QED
                BY <2>1, <2>3, <3>1, SMTT(30)
        <2>5. ASSUME k + 1 <= AllDigits PROVE x * b + d < Place(k + 1)
            <3>1. k \in 0..AllDigits /\ N(k) < Place(k)
                BY <1>0, <1>2, <2>5
            <3>2. PICK p \in Nat : p = Place(k)
                BY <3>1, Places
            <3>3. Place(k + 1) = p * b
                BY <2>3, <2>5, <3>2, PlaceSum, Places
            <3>4. x < p
                BY <2>3, <3>1, <3>2
            <3>5. x * b + d < p * b
                BY <2>3, <3>4, DigitFits
            <3> QED
                BY <3>3, <3>5
        <2> QED
            BY <2>4, <2>5
    <1>3. \A k \in 0..n : k \in G
        <2> HIDE DEF G
        <2> QED
            BY <1>1, <1>2, Reaches
    <1> QED
        BY <1>3

\* Only the digits read matter.
SameDigits(s, from, t, other, n) == \A k \in 1..n : s[from + k] = t[other + k]

LEMMA StrtoulSame ==
    ASSUME NEW s \in Seq(Digit), NEW from \in Nat, NEW n \in Nat, from + n <= Len(s),
           NEW t \in Seq(Digit), NEW other \in Nat, other + n <= Len(t),
           SameDigits(s, from, t, other, n)
    PROVE  strtoul(s, from, n) = strtoul(t, other, n)
    <1> DEFINE G == {k \in 0..n : strtoul(s, from, k) = strtoul(t, other, k)}
    <1>1. 0 \in G
        BY StrtoulSteps
    <1>2. ASSUME NEW k \in 0..(n - 1), k \in G PROVE k + 1 \in G
        <2>1. strtoul(s, from, k + 1) = strtoul(s, from, k) * Base + s[from + (k + 1)]
            BY StrtoulSteps
        <2>2. strtoul(t, other, k + 1) = strtoul(t, other, k) * Base + t[other + (k + 1)]
            BY StrtoulSteps
        <2>3. k + 1 \in 1..n /\ k + 1 \in 0..n
            OBVIOUS
        <2> QED
            BY <1>2, <2>1, <2>2, <2>3 DEF SameDigits
    <1>3. \A k \in 0..n : k \in G
        <2> HIDE DEF G
        <2> QED
            BY <1>1, <1>2, Reaches
    <1> QED
        BY <1>3

\* A numeral cut in two.
LEMMA StrtoulSum ==
    ASSUME NEW str \in Seq(Digit), NEW from \in Nat, NEW a \in Nat, NEW b \in Nat,
           from + a + b <= Len(str), b <= AllDigits
    PROVE  strtoul(str, from, a + b)
           = strtoul(str, from, a) * Place(b) + strtoul(str, from + a, b)
    <1> DEFINE G == {k \in 0..b : strtoul(str, from, a + k)
                                  = strtoul(str, from, a) * Place(k) + strtoul(str, from + a, k)}
    <1>0. AllDigits \in Nat /\ Len(str) \in Nat /\ from + a <= Len(str)
        BY BitsNat, LenProperties
    <1>1. PICK x \in Nat : x = strtoul(str, from, a)
        <2>1. strtoul(str, from, a) \in Nat
            BY <1>0, StrtoulBound
        <2> QED
            BY <2>1
    <1>2. 0 \in G
        <2>1. strtoul(str, from + a, 0) = 0
            <3>1. from + a \in Nat /\ (from + a) + 0 <= Len(str)
                BY <1>0
            <3> QED
                BY <3>1, StrtoulSteps
        <2>2. Place(0) = 1 /\ a + 0 = a /\ 0 \in 0..b
            BY Places
        <2>3. strtoul(str, from, a + 0) = x * 1 + 0
            BY <1>1, <2>1, <2>2
        <2> QED
            BY <1>1, <2>1, <2>2, <2>3
    <1>3. ASSUME NEW k \in 0..(b - 1), k \in G PROVE k + 1 \in G
        <2>1. /\ a + b \in Nat /\ from + a \in Nat /\ a + k \in 0..((a + b) - 1) /\ (a + k) + 1 = a + (k + 1)
              /\ from + (a + b) <= Len(str) /\ (from + a) + b <= Len(str)
              /\ from + ((a + k) + 1) = (from + a) + (k + 1)
              /\ k + 1 \in 0..b /\ (from + a) + (k + 1) \in 1..Len(str)
              /\ (from + a) + k <= Len(str)
            BY <1>0
        <2>2. strtoul(str, from, (a + k) + 1)
              = strtoul(str, from, a + k) * Base + str[from + ((a + k) + 1)]
            BY <2>1, StrtoulSteps
        <2>3. strtoul(str, from + a, k + 1)
              = strtoul(str, from + a, k) * Base + str[(from + a) + (k + 1)]
            BY <2>1, StrtoulSteps
        <2>4. PICK y \in Nat, p \in Nat, c \in Nat, d \in Nat :
                  /\ y = strtoul(str, from + a, k) /\ p = Place(k) /\ c = Base
                  /\ d = str[(from + a) + (k + 1)]
            <3>1. strtoul(str, from + a, k) \in Nat
                BY <2>1, StrtoulBound
            <3>2. Place(k) \in Nat /\ Base \in Nat
                BY <1>0, Places
            <3>3. str[(from + a) + (k + 1)] \in 0..(Base - 1)
                BY <2>1, ElementOfSeq DEF Digit
            <3> QED
                BY <3>1, <3>2, <3>3
        <2>5. Place(k + 1) = p * c
            BY <1>0, <2>4, PlaceSum, Places
        <2>6. strtoul(str, from, a + k) = x * p + y
            BY <1>1, <1>3, <2>4
        <2>7. (x * p + y) * c + d = x * (p * c) + (y * c + d)
            <3>1. (x * p + y) * c = (x * p) * c + y * c /\ (x * p) * c = x * (p * c)
                OBVIOUS
            <3>2. PICK k1 \in Int, k2 \in Int : k1 = (x * p) * c /\ k2 = y * c
                OBVIOUS
            <3> QED
                BY <3>1, <3>2
        <2>8. strtoul(str, from, a + (k + 1)) = (x * p + y) * c + d
            BY <2>1, <2>2, <2>4, <2>6
        <2>9. strtoul(str, from + a, k + 1) = y * c + d
            BY <2>3, <2>4
        <2> QED
            BY <1>1, <2>1, <2>5, <2>7, <2>8, <2>9
    <1>4. \A k \in 0..b : k \in G
        <2> HIDE DEF G
        <2> QED
            BY <1>2, <1>3, Reaches
    <1> QED
        BY <1>4

-----------------------------------------------------------------------------
(* Reading a numeral                                                       *)

\* What the numerals of whole words count for.
LEMMA WordPlaces ==
    ASSUME NEW k \in 0..NWords
    PROVE  k * WordDigits \in 0..AllDigits /\ Place(k * WordDigits) = Weight(k)
    <1>0. NWords \in Nat /\ WordDigits \in Nat \ {0} /\ DigitBits \in Nat
        BY SizesAssumption
    <1>1. k * WordDigits \in Nat /\ (NWords - k) * WordDigits >= 0
        BY <1>0
    <1>2. (NWords - k) * WordDigits = NWords * WordDigits - k * WordDigits
        BY <1>0
    <1>3. DigitBits * (k * WordDigits) = k * (DigitBits * WordDigits)
        BY <1>0
    <1> QED
        BY <1>0, <1>1, <1>2, <1>3 DEF AllDigits, Place, Weight, WordBits

\* Above the highest word that is not 0 nothing is added.
LEMMA LowStays ==
    ASSUME NEW val \in Values, NEW j \in 0..NWords,
           \A k \in j..(NWords - 1) : val[k] = 0
    PROVE  Low(val)[NWords] = Low(val)[j]
    <1> DEFINE G == {k \in 0..(NWords - j) : Low(val)[j + k] = Low(val)[j]}
    <1>0. NWords \in Nat \ {0}
        BY SizesAssumption
    <1>1. 0 \in G
        BY <1>0
    <1>2. ASSUME NEW k \in 0..((NWords - j) - 1), k \in G PROVE k + 1 \in G
        <2>1. j + k \in 0..(NWords - 1) /\ j + k \in j..(NWords - 1) /\ (j + k) + 1 = j + (k + 1)
            BY <1>0
        <2>2. Low(val)[(j + k) + 1] = Low(val)[j + k] + val[j + k] * Weight(j + k)
            BY <2>1, LowSteps
        <2>3. PICK x \in Nat, w \in Nat : x = Low(val)[j + k] /\ w = Weight(j + k)
            <3>1. j + k \in 0..NWords
                BY <1>0
            <3>2. Weight(j + k) \in Nat
                BY <3>1, Weights
            <3>3. Low(val)[j + k] \in Nat
                BY <3>1, LowNat
            <3> QED
                BY <3>2, <3>3
        <2>4. Low(val)[(j + k) + 1] = x
            BY <2>1, <2>2, <2>3
        <2> QED
            BY <1>0, <1>2, <2>1, <2>3, <2>4
    <1>3. \A k \in 0..(NWords - j) : k \in G
        <2> HIDE DEF G
        <2> QED
            BY <1>0, <1>1, <1>2, Reaches
    <1>4. NWords - j \in G /\ j + (NWords - j) = NWords
        BY <1>0, <1>3
    <1> QED
        BY <1>4

\* b goes q times into a and leaves r.
Division(a, b, q, r) == q \in Int /\ r \in 0..(b - 1) /\ a = q * b + r

LEMMA DivisionIs ==
    ASSUME NEW a, NEW b \in Nat \ {0}, NEW q, NEW r, Division(a, b, q, r)
    PROVE  a \div b = q /\ a % b = r
    <1>1. PICK p \in Int, s \in 0..(b - 1), t \in Int : p = q /\ s = r /\ t = a /\ t = p * b + s
        <2>1. q \in Int /\ r \in 0..(b - 1) /\ a = q * b + r
            BY DEF Division
        <2>2. q * b + r \in Int
            BY <2>1
        <2> QED
            BY <2>1, <2>2
    <1>2. t = p * b + s
        BY <1>1
    <1>3. t \div b = p /\ t % b = s
        BY <1>2, DivModOf
    <1> QED
        BY <1>1, <1>3

\* One number has one quotient and one remainder.
LEMMA OneQuotient ==
    ASSUME NEW e, NEW w \in Nat \ {0}, NEW x \in Nat, x < w, NEW y \in Nat, y < w,
           NEW c \in Nat, NEW d \in Nat, e = x + c * w, e = y + d * w
    PROVE  c = d /\ x = y
    <1>1. Division(e, w, c, x)
        <2>1. x + c * w = c * w + x
            OBVIOUS
        <2> QED
            BY <2>1 DEF Division
    <1>2. Division(e, w, d, y)
        <2>1. y + d * w = d * w + y
            OBVIOUS
        <2> QED
            BY <2>1 DEF Division
    <1> QED
        BY <1>1, <1>2, DivisionIs

\* Different words are different numbers.
LEMMA ValueIsUnique ==
    ASSUME NEW a \in Values, NEW b \in Values, Value(a) = Value(b)
    PROVE  a = b
    <1>0. NWords \in Nat \ {0}
        BY SizesAssumption
    <1>1. ASSUME NEW k \in 0..(NWords - 1), Low(a)[k + 1] = Low(b)[k + 1]
          PROVE  a[k] = b[k] /\ Low(a)[k] = Low(b)[k]
        <2>1. /\ k \in Index /\ k \in 0..NWords /\ Weight(k) \in Nat \ {0}
              /\ Low(a)[k] \in Nat /\ Low(b)[k] \in Nat /\ a[k] \in Nat /\ b[k] \in Nat
              /\ Low(a)[k] < Weight(k) /\ Low(b)[k] < Weight(k)
            <3>1. k \in Index /\ k \in 0..NWords
                BY <1>0 DEF Index
            <3>2. Weight(k) \in Nat \ {0}
                BY <3>1, Weights
            <3> QED
                BY <3>1, <3>2, LowNat, WordNat, LowSteps
        <2>2. PICK w \in Nat \ {0}, x \in Nat, y \in Nat, c \in Nat, d \in Nat :
                  /\ w = Weight(k) /\ x = Low(a)[k] /\ y = Low(b)[k]
                  /\ c = a[k] /\ d = b[k] /\ x < w /\ y < w
            BY <2>1
        <2>3. Low(a)[k + 1] = x + c * w /\ Low(a)[k + 1] = y + d * w
            <3>1. Low(a)[k + 1] = x + c * w /\ Low(b)[k + 1] = y + d * w
                BY <2>2, LowSteps
            <3> QED
                BY <1>1, <3>1
        <2>4. c = d /\ x = y
            <3>1. PICK e : e = x + c * w /\ e = y + d * w
                BY <2>3
            <3>2. x < w /\ y < w
                BY <2>2
            <3> QED
                BY <3>1, <3>2, OneQuotient
        <2> QED
            BY <2>2, <2>4
    <1> DEFINE G == {k \in 0..NWords : Low(a)[NWords - k] = Low(b)[NWords - k]}
    <1>2. 0 \in G
        BY <1>0, LowSteps
    <1>3. ASSUME NEW k \in 0..(NWords - 1), k \in G PROVE k + 1 \in G
        <2>1. /\ NWords - (k + 1) \in 0..(NWords - 1) /\ (NWords - (k + 1)) + 1 = NWords - k
              /\ k + 1 \in 0..NWords
            BY <1>0
        <2>2. Low(a)[NWords - k] = Low(b)[NWords - k]
            BY <1>3
        <2> QED
            BY <1>1, <2>1, <2>2
    <1>4. \A k \in 0..NWords : k \in G
        <2> HIDE DEF G
        <2> QED
            BY <1>0, <1>2, <1>3, Reaches
    <1>5. ASSUME NEW k \in Index PROVE a[k] = b[k]
        <2>1. k \in 0..(NWords - 1) /\ NWords - (k + 1) \in 0..NWords /\ NWords - (NWords - (k + 1)) = k + 1
            BY <1>0 DEF Index
        <2>2. NWords - (k + 1) \in G
            BY <1>4, <2>1
        <2>3. Low(a)[k + 1] = Low(b)[k + 1]
            BY <2>1, <2>2
        <2> QED
            BY <1>1, <2>1, <2>3
    <1> QED
        BY <1>5 DEF Values

\* How uint256_create_from_hex cuts a string: it reads the n digits behind
\* the first s, remain of them and then count words; p of them are in words.
Cut(str, s, n, count, remain, p) ==
    /\ n \in 0..AllDigits /\ s \in Nat /\ s + n = Len(str)
    /\ s = 0 \/ n = AllDigits
    /\ count \in 0..NWords /\ remain \in 0..(WordDigits - 1)
    /\ count = NWords => remain = 0
    /\ p = count * WordDigits /\ p \in Nat /\ n = remain + p

Pieces(str, s, count, remain) ==
    [idx \in Index |->
        IF idx < count
        THEN strtoul(str, s + remain + (count - idx - 1) * WordDigits, WordDigits)
        ELSE IF idx = count THEN strtoul(str, s, remain) ELSE 0]

LEMMA HexCuts ==
    ASSUME NEW str \in Seq(Digit)
    PROVE  \E n, s, count, remain, p :
               /\ Cut(str, s, n, count, remain, p)
               /\ uint256_create_from_hex(str) = Pieces(str, s, count, remain)
    <1>0. /\ Len(str) \in Nat /\ NWords \in Nat \ {0} /\ WordDigits \in Nat \ {0}
          /\ AllDigits \in Nat /\ AllDigits = NWords * WordDigits
        BY SizesAssumption, BitsNat, LenProperties DEF AllDigits
    <1>1. CASE Len(str) > AllDigits
        <2>1. uint256_create_from_hex(str) = Pieces(str, Len(str) - AllDigits, NWords, 0)
            BY <1>1 DEF uint256_create_from_hex, Pieces
        <2>2. Cut(str, Len(str) - AllDigits, AllDigits, NWords, 0, AllDigits)
            BY <1>0, <1>1 DEF Cut
        <2> QED
            BY <2>1, <2>2
    <1>2. CASE Len(str) <= AllDigits
        <2>1. PICK count \in Nat, remain \in 0..(WordDigits - 1) :
                  /\ count = Len(str) \div WordDigits /\ remain = Len(str) % WordDigits
                  /\ Len(str) = count * WordDigits + remain
            BY <1>0, Parts
        <2>2. uint256_create_from_hex(str) = Pieces(str, 0, count, remain)
            BY <1>0, <1>2, <2>1 DEF uint256_create_from_hex, Pieces
        <2>3. count <= NWords /\ (count = NWords => remain = 0)
            <3>1. count * WordDigits + remain <= NWords * WordDigits
                BY <1>0, <1>2, <2>1
            <3>2. ASSUME count > NWords PROVE FALSE
                <4>1. (count - NWords - 1) * WordDigits >= 0
                    BY <1>0, <3>2
                <4>2. (count - NWords - 1) * WordDigits
                      = count * WordDigits - NWords * WordDigits - WordDigits
                    BY <1>0
                <4>3. PICK k1 \in Int, k2 \in Int : k1 = count * WordDigits /\ k2 = NWords * WordDigits
                    BY <1>0
                <4> QED
                    BY <1>0, <3>1, <4>1, <4>2, <4>3
            <3>3. ASSUME count = NWords PROVE remain = 0
                <4>1. PICK k2 \in Int : k2 = NWords * WordDigits
                    BY <1>0
                <4> QED
                    BY <3>1, <3>3, <4>1
            <3> QED
                BY <1>0, <3>2, <3>3
        <2>4. Cut(str, 0, Len(str), count, remain, count * WordDigits)
            <3>1. PICK k1 \in Nat : k1 = count * WordDigits
                <4>1. count * WordDigits \in Nat
                    BY <1>0
                <4> QED
                    BY <4>1
            <3>2. Len(str) = remain + k1
                BY <1>0, <2>1, <3>1
            <3> QED
                BY <1>0, <1>2, <2>1, <2>3, <3>1, <3>2 DEF Cut
        <2> QED
            BY <2>2, <2>4
    <1> QED
        BY <1>0, <1>1, <1>2

\* The words that uint256_create_from_hex reads are words, and the lowest of
\* them are the last digits.
LEMMA HexIsNumber ==
    ASSUME NEW str \in Seq(Digit), NEW n, NEW s, NEW count, NEW remain, NEW p,
           Cut(str, s, n, count, remain, p)
    PROVE  /\ Pieces(str, s, count, remain) \in Values
           /\ Value(Pieces(str, s, count, remain)) = strtoul(str, s, n)
    <1> DEFINE R == Pieces(str, s, count, remain)
               at(idx) == s + remain + (count - idx - 1) * WordDigits
    <1>0. /\ Len(str) \in Nat /\ NWords \in Nat \ {0} /\ WordDigits \in Nat \ {0}
          /\ AllDigits \in Nat /\ WordDigits <= AllDigits
        <2>1. 1 * WordDigits \in 0..AllDigits /\ 1 * WordDigits = WordDigits
            BY SizesAssumption, WordPlaces
        <2> QED
            BY <2>1, SizesAssumption, BitsNat, LenProperties
    <1>a. /\ n \in 0..AllDigits /\ s \in Nat /\ s + n = Len(str)
          /\ count \in 0..NWords /\ remain \in 0..(WordDigits - 1)
          /\ count = NWords => remain = 0
          /\ p \in Nat /\ n = remain + p
        BY DEF Cut
    <1>b. p = count * WordDigits
        BY DEF Cut
    \* Word idx is read from at(idx).
    <1>1. ASSUME NEW idx \in 0..(count - 1)
          PROVE  \E a \in Nat, q \in Nat :
                     /\ a = at(idx) /\ q = idx * WordDigits
                     /\ WordDigits + q = (idx + 1) * WordDigits
                     /\ a + (WordDigits + q) = s + n
        <2>1. PICK k3 \in Int, q \in Int :
                  k3 = (count - idx - 1) * WordDigits /\ q = idx * WordDigits
            BY <1>0, <1>a
        <2>2. k3 >= 0 /\ q >= 0
            BY <1>0, <1>a, <2>1
        <2>3. k3 = p - q - WordDigits
            <3>1. (count - idx - 1) * WordDigits = count * WordDigits - idx * WordDigits - WordDigits
                BY <1>0, <1>a
            <3> QED
                BY <1>b, <2>1, <3>1
        <2>4. WordDigits + q = (idx + 1) * WordDigits
            BY <1>0, <1>a, <2>1
        <2>5. at(idx) = s + remain + k3
            BY <2>1
        <2>6. s + remain + k3 \in Nat /\ (s + remain + k3) + (WordDigits + q) = s + n
            BY <1>0, <1>a, <2>2, <2>3
        <2> HIDE DEF at
        <2> QED
            BY <2>1, <2>2, <2>4, <2>5, <2>6
    <1>2. /\ \A idx \in 0..(count - 1) : R[idx] = strtoul(str, at(idx), WordDigits)
          /\ count < NWords => R[count] = strtoul(str, s, remain)
          /\ \A idx \in (count + 1)..(NWords - 1) : R[idx] = 0
        BY <1>0, <1>a DEF Index, Pieces
    <1>c. R = [idx \in Index |-> R[idx]]
        BY DEF Pieces
    <1> HIDE DEF at, R
    <1>3. R \in Values
        <2>1. ASSUME NEW idx \in Index PROVE R[idx] \in 0..(WordSize - 1)
            <3>0. idx \in 0..(NWords - 1) /\ WordSize \in Nat /\ WordSize >= 2
                BY Weights DEF Index
            <3>1. CASE idx < count
                <4>1. PICK a \in Nat, q \in Nat : a = at(idx) /\ a + (WordDigits + q) = s + n
                    BY <1>a, <1>1, <3>0, <3>1
                <4>2. a + WordDigits <= Len(str)
                    BY <1>0, <1>a, <4>1
                <4>3. /\ strtoul(str, a, WordDigits) \in Nat
                      /\ strtoul(str, a, WordDigits) < Place(WordDigits)
                    BY <1>0, <4>2, StrtoulBound
                <4>4. R[idx] = strtoul(str, a, WordDigits) /\ Place(WordDigits) = WordSize
                    BY <1>a, <1>2, <3>0, <3>1, <4>1, Places
                <4> QED
                    BY <3>0, <4>3, <4>4
            <3>2. CASE idx = count
                <4>1. remain \in 0..AllDigits /\ s + remain <= Len(str) /\ count < NWords
                    BY <1>0, <1>a, <3>0, <3>2
                <4>2. strtoul(str, s, remain) \in Nat /\ strtoul(str, s, remain) < Place(remain)
                    BY <1>a, <4>1, StrtoulBound
                <4>3. PICK x \in Nat \ {0}, y \in Nat \ {0} :
                          x = Place(remain) /\ y = Place(WordDigits - remain)
                    <5>1. WordDigits - remain \in 0..AllDigits
                        BY <1>0, <1>a
                    <5>2. Place(remain) \in Nat \ {0} /\ Place(WordDigits - remain) \in Nat \ {0}
                        BY <4>1, <5>1, Places
                    <5> QED
                        BY <5>2
                <4>4. WordSize = x * y
                    <5>1. WordDigits - remain \in Nat /\ remain + (WordDigits - remain) = WordDigits
                        BY <1>0, <1>a
                    <5> QED
                        BY <1>0, <1>a, <4>3, <5>1, PlaceSum, Places
                <4>5. x <= WordSize
                    <5>1. x * (y - 1) >= 0 /\ x * (y - 1) = x * y - x
                        OBVIOUS
                    <5>2. PICK z \in Int : z = x * y
                        OBVIOUS
                    <5> QED
                        BY <4>4, <5>1, <5>2
                <4>6. R[idx] = strtoul(str, s, remain)
                    BY <1>2, <3>2, <4>1
                <4> QED
                    BY <3>0, <4>2, <4>3, <4>5, <4>6
            <3>3. CASE idx > count
                <4>1. R[idx] = 0
                    BY <1>a, <1>2, <3>0, <3>3
                <4> QED
                    BY <3>0, <4>1
            <3> QED
                BY <1>a, <3>0, <3>1, <3>2, <3>3
        <2> QED
            BY <1>c, <2>1 DEF Values, Word
    <1> DEFINE tail(k) == strtoul(str, (s + n) - k * WordDigits, k * WordDigits)
               G == {k \in 0..count : Low(R)[k] = tail(k)}
    <1>4. \A k \in 0..count : k \in G
        <2>1. 0 \in G
            <3>1. 0 * WordDigits = 0 /\ (s + n) - 0 = s + n /\ (s + n) + 0 <= Len(str) /\ s + n \in Nat
                BY <1>0, <1>a
            <3>2. strtoul(str, s + n, 0) = 0
                BY <3>1, StrtoulSteps
            <3>3. tail(0) = 0
                BY <3>1, <3>2
            <3> HIDE DEF tail
            <3> QED
                BY <1>3, <1>a, <3>3, LowZero
        <2>2. ASSUME NEW k \in 0..(count - 1), k \in G PROVE k + 1 \in G
            <3>1. PICK a \in Nat, q \in Nat :
                      /\ a = at(k) /\ q = k * WordDigits /\ WordDigits + q = (k + 1) * WordDigits
                      /\ a + (WordDigits + q) = s + n
                BY <1>1
            <3>2. k \in Index /\ k \in 0..NWords /\ k \in 0..(NWords - 1)
                BY <1>0, <1>a DEF Index
            <3>3. q <= AllDigits /\ Place(q) = Weight(k)
                BY <3>1, <3>2, WordPlaces
            <3>4. PICK x \in Nat, y \in Nat, w \in Nat : x = R[k] /\ y = Low(R)[k] /\ w = Weight(k)
                <4>1. R[k] \in Nat /\ Low(R)[k] \in Nat
                    BY <1>3, <3>2, WordNat, LowNat
                <4>2. Weight(k) \in Nat
                    BY <3>2, Weights
                <4> QED
                    BY <4>1, <4>2
            <3>5. tail(k) = strtoul(str, a + WordDigits, q) /\ tail(k + 1) = strtoul(str, a, WordDigits + q)
                <4>1. (s + n) - q = a + WordDigits /\ (s + n) - (WordDigits + q) = a
                    BY <1>0, <1>a, <3>1, SMTT(30)
                <4> QED
                    BY <3>1, <4>1
            <3> HIDE DEF tail
            <3>6. strtoul(str, a, WordDigits + q)
                  = strtoul(str, a, WordDigits) * Place(q) + strtoul(str, a + WordDigits, q)
                <4>1. (a + WordDigits) + q <= Len(str)
                    BY <1>0, <1>a, <3>1
                <4> QED
                    BY <1>0, <3>3, <4>1, StrtoulSum
            <3>7. tail(k + 1) = x * w + y
                BY <1>2, <2>2, <3>1, <3>3, <3>4, <3>5, <3>6
            <3>8. Low(R)[k + 1] = y + x * w
                BY <1>3, <3>2, <3>4, LowSteps
            <3>9. PICK z \in Int : z = x * w
                OBVIOUS
            <3>10. Low(R)[k + 1] = tail(k + 1)
                BY <3>7, <3>8, <3>9
            <3> QED
                BY <1>a, <3>10
        <2> HIDE DEF G
        <2> QED
            BY <1>a, <2>1, <2>2, Reaches
    <1>5. Low(R)[count] = strtoul(str, s + remain, p)
        <2>1. count \in G
            BY <1>a, <1>4
        <2>2. (s + n) - p = s + remain
            BY <1>a
        <2>3. tail(count) = strtoul(str, s + remain, p)
            BY <1>b, <2>2
        <2> QED
            BY <2>1, <2>3
    <1> HIDE DEF tail, G
    <1>6. CASE count = NWords
        <2>1. remain = 0 /\ s + remain = s /\ n = p
            BY <1>a, <1>6
        <2> QED
            BY <1>3, <1>5, <1>6, <2>1, LowSteps DEF R
    <1>7. CASE count < NWords
        <2>0. count \in Index /\ count \in 0..NWords /\ count \in 0..(NWords - 1) /\ count + 1 \in 0..NWords
            BY <1>0, <1>a, <1>7 DEF Index
        <2>1. Low(R)[NWords] = Low(R)[count + 1]
            BY <1>2, <1>3, <2>0, LowStays
        <2>2. Low(R)[count + 1] = Low(R)[count] + R[count] * Weight(count)
            BY <1>3, <2>0, LowSteps
        <2>3. p <= AllDigits /\ Place(p) = Weight(count)
            BY <1>b, <2>0, WordPlaces
        <2>4. strtoul(str, s, remain + p)
              = strtoul(str, s, remain) * Place(p) + strtoul(str, s + remain, p)
            <3>1. (s + remain) + p <= Len(str) /\ remain \in Nat
                BY <1>0, <1>a
            <3> QED
                BY <1>a, <2>3, <3>1, StrtoulSum
        <2>5. PICK x \in Nat, y \in Nat, w \in Nat :
                  x = R[count] /\ y = Low(R)[count] /\ w = Weight(count)
            <3>1. R[count] \in Nat /\ Low(R)[count] \in Nat
                BY <1>3, <2>0, WordNat, LowNat
            <3>2. Weight(count) \in Nat
                BY <2>0, Weights
            <3> QED
                BY <3>1, <3>2
        <2>6. strtoul(str, s, n) = x * w + y
            BY <1>2, <1>5, <1>7, <1>a, <2>3, <2>4, <2>5
        <2>7. Low(R)[NWords] = y + x * w
            BY <2>1, <2>2, <2>5
        <2>8. PICK z \in Int : z = x * w
            OBVIOUS
        <2>9. Low(R)[NWords] = strtoul(str, s, n)
            BY <2>6, <2>7, <2>8
        <2> QED
            BY <1>3, <2>9, LowSteps DEF R
    <1> QED
        BY <1>0, <1>a, <1>3, <1>6, <1>7 DEF R

\* A string is read as the number it writes, modulo the modulus.
LEMMA HexIsRead ==
    ASSUME NEW str \in Seq(Digit)
    PROVE  /\ uint256_create_from_hex(str) \in Values
           /\ Value(uint256_create_from_hex(str)) = strtoul(str, 0, Len(str)) % Modulus
           /\ Len(str) <= AllDigits =>
                  Value(uint256_create_from_hex(str)) = strtoul(str, 0, Len(str))
    <1>0. Len(str) \in Nat /\ AllDigits \in Nat
        BY BitsNat, LenProperties
    <1>1. PICK n, s, count, remain, p :
              /\ Cut(str, s, n, count, remain, p)
              /\ uint256_create_from_hex(str) = Pieces(str, s, count, remain)
        BY HexCuts
    <1>2. /\ uint256_create_from_hex(str) \in Values
          /\ Value(uint256_create_from_hex(str)) = strtoul(str, s, n)
        BY <1>1, HexIsNumber
    <1>3. n \in 0..AllDigits /\ s \in Nat /\ s + n = Len(str) /\ (s = 0 \/ n = AllDigits)
        BY <1>1 DEF Cut
    <1>4. PICK m \in Nat \ {0} : m = Modulus
        BY Weights
    <1>5. PICK v \in 0..(m - 1) : v = Value(uint256_create_from_hex(str))
        BY <1>2, <1>4, LowSteps
    <1>6. CASE s = 0
        <2>1. n = Len(str)
            BY <1>0, <1>3, <1>6
        <2>2. v % m = v
            OBVIOUS
        <2> QED
            BY <1>2, <1>4, <1>5, <1>6, <2>1, <2>2
    <1>7. CASE s # 0
        <2>1. n = AllDigits /\ ~ (Len(str) <= AllDigits) /\ 0 + s = s /\ (0 + s) + n <= Len(str)
            BY <1>0, <1>3, <1>7
        <2>2. strtoul(str, 0, s + n) = strtoul(str, 0, s) * Place(n) + strtoul(str, 0 + s, n)
            BY <1>0, <1>3, <2>1, StrtoulSum
        <2>3. PICK x \in Nat : x = strtoul(str, 0, s)
            <3>1. strtoul(str, 0, s) \in Nat
                BY <1>0, <1>3, StrtoulBound
            <3> QED
                BY <3>1
        <2>4. Place(n) = m
            BY <1>4, <2>1, Places
        <2>5. Division(strtoul(str, 0, Len(str)), m, x, v)
            <3>1. strtoul(str, 0, Len(str)) = x * m + v
                BY <1>2, <1>3, <1>5, <2>1, <2>2, <2>3, <2>4
            <3> QED
                BY <3>1 DEF Division
        <2>6. strtoul(str, 0, Len(str)) % m = v
            BY <2>5, DivisionIs
        <2> QED
            BY <1>2, <1>4, <1>5, <2>1, <2>5, <2>6
    <1> QED
        BY <1>6, <1>7

-----------------------------------------------------------------------------
(* Writing a numeral                                                       *)

\* Division by a and then by b is division by their product.
LEMMA DivTwice ==
    ASSUME NEW v \in Nat, NEW a \in Nat \ {0}, NEW b \in Nat \ {0}
    PROVE  a * b \in Nat \ {0} /\ (v \div a) \div b = v \div (a * b)
    <1>1. PICK q \in Nat, r \in 0..(a - 1) : q = v \div a /\ v = q * a + r
        BY Parts
    <1>2. PICK p \in Nat, t \in 0..(b - 1) : p = q \div b /\ q = p * b + t
        BY Parts
    <1>3. a * b \in Nat \ {0}
        <2>1. a * b >= a
            <3>1. a * (b - 1) >= 0 /\ a * (b - 1) = a * b - a
                OBVIOUS
            <3>2. PICK k \in Int : k = a * b
                OBVIOUS
            <3> QED
                BY <3>1, <3>2
        <2> QED
            BY <2>1
    <1>4. t * a + r \in 0..(a * b - 1)
        <2>1. t * a + r \in Nat /\ t * a + r < b * a
            BY DigitFits
        <2>2. b * a = a * b
            OBVIOUS
        <2>3. PICK k1 \in Int, k2 \in Int : k1 = t * a /\ k2 = a * b
            OBVIOUS
        <2> QED
            BY <2>1, <2>2, <2>3
    <1>5. v = p * (a * b) + (t * a + r)
        <2>1. (p * b + t) * a = p * (a * b) + t * a
            <3>1. (p * b + t) * a = (p * b) * a + t * a /\ (p * b) * a = p * (a * b)
                OBVIOUS
            <3> QED
                BY <3>1
        <2>2. PICK k1 \in Int, k2 \in Int : k1 = p * (a * b) /\ k2 = t * a
            OBVIOUS
        <2>3. q * a = (p * b + t) * a
            BY <1>2
        <2> QED
            BY <1>1, <2>1, <2>2, <2>3
    <1>6. Division(v, a * b, p, t * a + r)
        BY <1>4, <1>5 DEF Division
    <1> QED
        BY <1>1, <1>2, <1>3, <1>6, DivisionIs

\* The last n digits of a number that has no more write it.
LEMMA DigitsWrite ==
    ASSUME NEW n \in 0..AllDigits, NEW v \in Nat, v < Place(n)
    PROVE  /\ Digits(v, n) \in Seq(Digit) /\ Len(Digits(v, n)) = n
           /\ \A k \in 1..n : Digits(v, n)[k] = (v \div Place(n - k)) % Base
           /\ strtoul(Digits(v, n), 0, n) = v
    <1> DEFINE D == Digits(v, n)
    <1>0. AllDigits \in Nat /\ Base \in Nat \ {0}
        BY BitsNat, Places
    <1>1. \A k \in 1..n : (v \div Place(n - k)) % Base \in Digit
        <2> TAKE k \in 1..n
        <2>1. n - k \in 0..AllDigits
            BY <1>0
        <2>2. PICK p \in Nat \ {0} : p = Place(n - k)
            BY <2>1, Places
        <2>3. PICK q \in Nat : q = v \div p
            BY Parts
        <2>4. q % Base \in 0..(Base - 1)
            BY <1>0, Parts
        <2> QED
            BY <2>2, <2>3, <2>4 DEF Digit
    <1>2. D = [k \in 1..n |-> (v \div Place(n - k)) % Base]
        BY DEF Digits, Place
    <1>3. D \in Seq(Digit) /\ Len(D) = n
        <2>1. D \in [1..n -> Digit]
            BY <1>1, <1>2
        <2> HIDE DEF D
        <2>2. D \in Seq(Digit)
            BY <1>0, <2>1, SeqDef
        <2> QED
            BY <1>0, <2>1, <2>2, LenProperties
    <1>4. \A k \in 1..n : D[k] = (v \div Place(n - k)) % Base
        BY <1>2
    <1> HIDE DEF D
    <1>a. /\ strtoul(D, 0, 0) = 0
          /\ \A k \in 0..(n - 1) : strtoul(D, 0, k + 1) = strtoul(D, 0, k) * Base + D[0 + (k + 1)]
        <2>1. n \in Nat /\ 0 + n <= Len(D) /\ 0 \in Nat
            BY <1>0, <1>3
        <2> QED
            BY <1>3, <2>1, StrtoulSteps
    <1> DEFINE G == {k \in 0..n : strtoul(D, 0, k) = v \div Place(n - k)}
    <1>5. 0 \in G
        <2>1. PICK p \in Nat \ {0} : p = Place(n) /\ v < p
            BY <1>0, Places
        <2>2. v \div p = 0
            <3>1. Division(v, p, 0, v)
                <4>1. v \in 0..(p - 1) /\ v = 0 * p + v
                    BY <2>1
                <4> QED
                    BY <4>1 DEF Division
            <3> QED
                BY <3>1, DivisionIs
        <2>3. strtoul(D, 0, 0) = 0
            BY <1>a
        <2>4. n - 0 = n /\ 0 \in 0..n
            BY <1>0
        <2> QED
            BY <2>1, <2>2, <2>3, <2>4
    <1>6. ASSUME NEW k \in 0..(n - 1), k \in G PROVE k + 1 \in G
        <2>1. strtoul(D, 0, k + 1) = strtoul(D, 0, k) * Base + D[0 + (k + 1)]
            BY <1>a
        <2>2. /\ n - (k + 1) \in Nat /\ (n - (k + 1)) + 1 = n - k /\ n - k <= AllDigits
              /\ 0 + (k + 1) = k + 1 /\ k + 1 \in 1..n /\ k + 1 \in 0..n
              /\ n - (k + 1) \in 0..AllDigits
            BY <1>0
        <2>3. PICK p \in Nat \ {0}, b \in Nat \ {0} : p = Place(n - (k + 1)) /\ b = Base
            BY <1>0, <2>2, Places
        <2>4. Place(n - k) = p * b
            BY <2>2, <2>3, PlaceSum, Places
        <2>5. PICK q \in Nat : q = v \div p
            BY Parts
        <2>6. q \div b = v \div (p * b)
            BY <2>5, DivTwice
        <2>7. q = (q \div b) * b + (q % b)
            BY Parts
        <2>8. D[0 + (k + 1)] = q % b
            BY <1>4, <2>2, <2>3, <2>5
        <2>9. strtoul(D, 0, k) = q \div b
            BY <1>6, <2>4, <2>6
        <2>10. strtoul(D, 0, k + 1) = q
            BY <2>1, <2>3, <2>7, <2>8, <2>9
        <2> QED
            BY <2>2, <2>3, <2>5, <2>10
    <1>7. n \in G
        <2>1. \A k \in 0..n : k \in G
            <3> HIDE DEF G
            <3> QED
                BY <1>0, <1>5, <1>6, Reaches
        <2> QED
            BY <1>0, <2>1
    <1>8. v \div Place(n - n) = v
        <2>1. n - n = 0 /\ Place(0) = 1
            BY <1>0, Places
        <2>2. v \div 1 = v
            OBVIOUS
        <2> QED
            BY <2>1, <2>2
    <1> QED
        BY <1>3, <1>4, <1>7, <1>8 DEF D

\* A word is written with all its digits.
LEMMA PaddedWrites ==
    ASSUME NEW v \in Word
    PROVE  /\ Padded(v) \in Seq(Digit) /\ Len(Padded(v)) = WordDigits
           /\ strtoul(Padded(v), 0, WordDigits) = v
    <1>1. WordDigits \in 0..AllDigits
        <2>1. 1 * WordDigits \in 0..AllDigits /\ 1 * WordDigits = WordDigits
            BY SizesAssumption, WordPlaces
        <2> QED
            BY <2>1
    <1>2. v \in Nat /\ v < Place(WordDigits)
        BY Places, Weights DEF Word
    <1> QED
        BY <1>1, <1>2, DigitsWrite DEF Padded

\* A word other than 0 is written from its first digit other than 0 on.
LEMMA UnpaddedWrites ==
    ASSUME NEW v \in Word, v # 0
    PROVE  /\ Unpadded(v) \in Seq(Digit) /\ Len(Unpadded(v)) \in 1..WordDigits
           /\ Unpadded(v)[1] # 0
           /\ strtoul(Unpadded(v), 0, Len(Unpadded(v))) = v
    <1> DEFINE S == {n \in 1..WordDigits : v < Place(n)}
    <1>0. WordDigits \in Nat \ {0} /\ WordDigits \in 0..AllDigits /\ AllDigits \in Nat
        <2>1. 1 * WordDigits \in 0..AllDigits /\ 1 * WordDigits = WordDigits
            BY SizesAssumption, WordPlaces
        <2> QED
            BY <2>1, SizesAssumption, BitsNat
    <1>1. v \in Nat /\ v < Place(WordDigits)
        BY Places, Weights DEF Word
    <1>2. PICK u \in S : u = Min(S) /\ \A n \in S : u <= n
        <2>1. S \in SUBSET Nat /\ S # {}
            BY <1>0, <1>1
        <2>2. \E n \in S : \A m \in S : n <= m
            <3> HIDE DEF S
            <3> QED
                BY <2>1, LeastNat
        <2> HIDE DEF S
        <2> QED
            BY <2>2 DEF Min
    <1>3. u \in 1..WordDigits /\ u \in 0..AllDigits /\ v < Place(u) /\ u - 1 \in 0..AllDigits
        BY <1>0, <1>2
    <1>4. Unpadded(v) = Digits(v, u)
        BY <1>2 DEF Unpadded, Place
    <1>5. /\ Unpadded(v) \in Seq(Digit) /\ Len(Unpadded(v)) = u
          /\ strtoul(Unpadded(v), 0, u) = v
          /\ Unpadded(v)[1] = (v \div Place(u - 1)) % Base
        BY <1>1, <1>3, <1>4, DigitsWrite
    <1>6. PICK p \in Nat \ {0} : p = Place(u - 1)
        BY <1>3, Places
    <1>7. p <= v
        <2>1. CASE u = 1
            <3>1. p = 1
                BY <1>6, <2>1, Places
            <3> QED
                BY <1>1, <3>1
        <2>2. CASE u # 1
            <3>1. u - 1 \notin S /\ u - 1 \in 1..WordDigits
                BY <1>0, <1>2, <1>3, <2>2
            <3> QED
                BY <1>1, <1>6, <3>1
        <2> QED
            BY <2>1, <2>2
    <1>8. PICK q \in Nat, r \in 0..(p - 1) : q = v \div p /\ v = q * p + r
        BY <1>1, Parts
    <1>9. q # 0
        BY <1>7, <1>8
    <1>10. PICK b \in Nat \ {0} : b = Base /\ Place(u) = p * b
        <2>1. u - 1 \in Nat /\ (u - 1) + 1 = u
            BY <1>3
        <2> QED
            BY <1>3, <1>6, <2>1, PlaceSum, Places
    <1>11. q < b
        <2>1. q * p <= v /\ v < p * b
            BY <1>3, <1>8, <1>10
        <2>2. ASSUME q >= b PROVE FALSE
            <3>1. (q - b) * p >= 0 /\ (q - b) * p = q * p - p * b
                BY <2>2
            <3>2. PICK k1 \in Int, k2 \in Int : k1 = q * p /\ k2 = p * b
                OBVIOUS
            <3> QED
                BY <1>1, <2>1, <3>1, <3>2
        <2> QED
            BY <2>2
    <1>12. q % b = q
        BY <1>11
    <1> QED
        BY <1>3, <1>5, <1>6, <1>8, <1>9, <1>10, <1>12

\* One numeral behind another.
LEMMA StrtoulAppend ==
    ASSUME NEW s \in Seq(Digit), NEW d \in Seq(Digit), Len(d) <= AllDigits
    PROVE  /\ s \o d \in Seq(Digit) /\ Len(s \o d) = Len(s) + Len(d)
           /\ strtoul(s \o d, 0, Len(s \o d))
              = strtoul(s, 0, Len(s)) * Place(Len(d)) + strtoul(d, 0, Len(d))
    <1> DEFINE c == s \o d
    <1>1. PICK m \in Nat, n \in Nat : m = Len(s) /\ n = Len(d) /\ n <= AllDigits
        BY LenProperties
    <1>2. /\ c \in Seq(Digit) /\ Len(c) = m + n
          /\ \A k \in 1..(m + n) : c[k] = IF k <= m THEN s[k] ELSE d[k - m]
        BY <1>1, ConcatProperties
    <1> HIDE DEF c
    <1>2a. c \in Seq(Digit)
        BY <1>2
    <1>3. strtoul(c, 0, m + n) = strtoul(c, 0, m) * Place(n) + strtoul(c, m, n)
        <2>1. 0 + m + n <= Len(c) /\ 0 + m = m
            BY <1>2
        <2>2. strtoul(c, 0, m + n) = strtoul(c, 0, m) * Place(n) + strtoul(c, 0 + m, n)
            BY <1>1, <1>2, <2>1, StrtoulSum
        <2> QED
            BY <2>1, <2>2
    <1>4. strtoul(c, 0, m) = strtoul(s, 0, m)
        <2>1. SameDigits(c, 0, s, 0, m)
            BY <1>2 DEF SameDigits
        <2>2. 0 + m <= Len(c) /\ 0 + m <= Len(s)
            BY <1>1, <1>2
        <2> QED
            BY <1>2a, <2>1, <2>2, StrtoulSame
    <1>5. strtoul(c, m, n) = strtoul(d, 0, n)
        <2>1. SameDigits(c, m, d, 0, n)
            BY <1>2 DEF SameDigits
        <2>2. m + n <= Len(c) /\ 0 + n <= Len(d)
            BY <1>1, <1>2
        <2> QED
            BY <1>2a, <2>1, <2>2, StrtoulSame
    <1> QED
        BY <1>1, <1>2, <1>3, <1>4, <1>5 DEF c

\* The words that are not 0.
Used(val) == {k \in Index : val[k] # 0}

LEMMA TopWord ==
    ASSUME NEW val \in Values, Used(val) # {}
    PROVE  /\ Max(Used(val)) \in Index /\ val[Max(Used(val))] # 0
           /\ \A k \in Index : k > Max(Used(val)) => val[k] = 0
    <1>0. NWords \in Nat \ {0}
        BY SizesAssumption
    <1> DEFINE U == Used(val)
               B == {n \in Nat : \E k \in U : n = NWords - k}
    <1>1. U \in SUBSET Index /\ \A k \in U : NWords - k \in B
        BY <1>0 DEF Used, Index
    <1>2. B \in SUBSET Nat /\ B # {}
        <2>1. PICK k : k \in U
            OBVIOUS
        <2>2. NWords - k \in B
            BY <1>1, <2>1
        <2> QED
            BY <2>2
    <1>3. PICK n \in B : \A m \in B : n <= m
        <2> HIDE DEF B
        <2> QED
            BY <1>2, LeastNat
    <1>4. PICK top \in U : n = NWords - top
        BY <1>3
    <1>5. \A k \in U : k <= top
        <2> TAKE k \in U
        <2>1. NWords - k \in B
            BY <1>1
        <2>2. n <= NWords - k
            BY <1>3, <2>1
        <2>3. k \in Int /\ top \in Int
            BY <1>0, <1>1, <1>4 DEF Index
        <2> HIDE DEF U, B
        <2> QED
            BY <1>0, <1>4, <2>2, <2>3
    <1>6. Max(U) \in U /\ \A k \in U : k <= Max(U)
        <2> HIDE DEF U
        <2> QED
            BY <1>4, <1>5 DEF Max
    <1>7. ASSUME NEW k \in Index, k > Max(U) PROVE val[k] = 0
        <2>1. k \in Int /\ Max(U) \in Int
            BY <1>0, <1>1, <1>6 DEF Index
        <2>2. k \notin U
            <3> HIDE DEF U
            <3> QED
                BY <1>6, <1>7, <2>1
        <2> QED
            BY <2>2 DEF Used
    <1> QED
        BY <1>6, <1>7 DEF Used

\* The strings of uint256_format_as_hex.
Hexes(val) ==
    CHOOSE f : f = [k \in 0..Max(Used(val)) |->
                       IF k = 0 THEN Unpadded(val[Max(Used(val))])
                       ELSE f[k - 1] \o Padded(val[Max(Used(val)) - k])]

LEMMA HexesSteps ==
    ASSUME NEW val \in Values, Used(val) # {}
    PROVE  /\ Hexes(val)[0] = Unpadded(val[Max(Used(val))])
           /\ \A k \in 0..(Max(Used(val)) - 1) :
                 Hexes(val)[k + 1] = Hexes(val)[k] \o Padded(val[Max(Used(val)) - (k + 1)])
           /\ uint256_format_as_hex(val) = Hexes(val)[Max(Used(val))]
    <1> DEFINE top == Max(Used(val))
    <1>0. NWords \in Nat \ {0} /\ top \in Index /\ val[top] # 0 /\ top \in Nat /\ top < NWords
        BY SizesAssumption, TopWord DEF Index
    <1>1. uint256_format_as_hex(val) = Hexes(val)[top]
        BY DEF uint256_format_as_hex, Hexes, Used
    <1>2. Unpadded(val[top]) \in Seq(Digit)
        BY <1>0, WordNat, UnpaddedWrites
    <1> DEFINE step == [ks \in (1..top) \X Seq(Digit) |-> ks[2] \o Padded(val[top - ks[1]])]
    <1> HIDE DEF top
    <1>3. step \in [(1..top) \X Seq(Digit) -> Seq(Digit)]
        <2>1. \A ks \in (1..top) \X Seq(Digit) : ks[2] \o Padded(val[top - ks[1]]) \in Seq(Digit)
            <3> TAKE ks \in (1..top) \X Seq(Digit)
            <3>1. top - ks[1] \in Index /\ ks[2] \in Seq(Digit)
                BY <1>0 DEF Index
            <3>2. Padded(val[top - ks[1]]) \in Seq(Digit)
                BY <3>1, WordNat, PaddedWrites
            <3> QED
                BY <3>1, <3>2, ConcatProperties
        <2> QED
            BY <2>1
    <1>4. PICK f \in [0..top -> Seq(Digit)] : Follows(f, top, Unpadded(val[top]), step)
        <2> HIDE DEF step
        <2> QED
            BY <1>0, <1>2, <1>3, Recursion
    <1>5. f = [k \in 0..top |-> IF k = 0 THEN Unpadded(val[top])
                                ELSE f[k - 1] \o Padded(val[top - k])]
        <2>1. \A k \in 0..top : k # 0 => step[<<k, f[k - 1]>>] = f[k - 1] \o Padded(val[top - k])
            <3> TAKE k \in 0..top
            <3>1. k # 0 => <<k, f[k - 1]>> \in (1..top) \X Seq(Digit)
                BY <1>0
            <3> QED
                BY <3>1
        <2> HIDE DEF step
        <2> QED
            BY <1>4, <2>1 DEF Follows
    <1>6. Hexes(val) = [k \in 0..top |-> IF k = 0 THEN Unpadded(val[top])
                                         ELSE Hexes(val)[k - 1] \o Padded(val[top - k])]
        BY <1>5 DEF Hexes, top
    <1>7. Hexes(val)[0] = Unpadded(val[top])
        BY <1>0, <1>6
    <1>8. ASSUME NEW k \in 0..(top - 1)
          PROVE  Hexes(val)[k + 1] = Hexes(val)[k] \o Padded(val[top - (k + 1)])
        <2>1. k + 1 \in 0..top /\ k + 1 # 0 /\ (k + 1) - 1 = k
            BY <1>0
        <2> QED
            BY <1>6, <2>1
    <1> QED
        BY <1>1, <1>7, <1>8 DEF top

\* What has been written when k words have followed the top one.
Written(val, top, h, k) ==
    /\ h \in Seq(Digit) /\ Len(h) \in 1..((k + 1) * WordDigits) /\ h[1] # 0
    /\ strtoul(h, 0, Len(h)) * Weight(top - k) + Low(val)[top - k] = Low(val)[top + 1]

LEMMA WrittenSteps ==
    ASSUME NEW val \in Values, Used(val) # {}, NEW top, top = Max(Used(val))
    PROVE  \A k \in 0..top : Written(val, top, Hexes(val)[k], k)
    <1>0. /\ NWords \in Nat \ {0} /\ WordDigits \in Nat \ {0} /\ top \in Index /\ val[top] # 0
          /\ top \in 0..(NWords - 1) /\ top \in Nat
        BY SizesAssumption, TopWord DEF Index
    <1> DEFINE G == {k \in 0..top : Written(val, top, Hexes(val)[k], k)}
    <1>1. 0 \in G
        <2>1. PICK h : h = Hexes(val)[0]
            OBVIOUS
        <2>2. h = Unpadded(val[top])
            BY <2>1, HexesSteps
        <2>3. /\ h \in Seq(Digit) /\ Len(h) \in 1..WordDigits /\ h[1] # 0
              /\ strtoul(h, 0, Len(h)) = val[top]
            BY <1>0, <2>2, WordNat, UnpaddedWrites
        <2>4. (0 + 1) * WordDigits = WordDigits /\ top - 0 = top
            BY <1>0
        <2>5. PICK x \in Nat, w \in Nat, y \in Nat : x = val[top] /\ w = Weight(top) /\ y = Low(val)[top]
            <3>1. top \in 0..NWords
                BY <1>0
            <3>2. val[top] \in Nat /\ Low(val)[top] \in Nat
                BY <1>0, <3>1, WordNat, LowNat
            <3>3. Weight(top) \in Nat
                BY <3>1, Weights
            <3> QED
                BY <3>2, <3>3
        <2>6. Low(val)[top + 1] = y + x * w
            BY <1>0, <2>5, LowSteps
        <2>7. PICK z \in Int : z = x * w
            OBVIOUS
        <2>8. strtoul(h, 0, Len(h)) * Weight(top - 0) + Low(val)[top - 0] = Low(val)[top + 1]
            <3>1. strtoul(h, 0, Len(h)) * Weight(top - 0) + Low(val)[top - 0] = x * w + y
                BY <2>3, <2>4, <2>5
            <3> QED
                BY <2>6, <2>7, <3>1
        <2>9. Written(val, top, h, 0)
            BY <2>3, <2>4, <2>8 DEF Written
        <2> QED
            BY <1>0, <2>1, <2>9
    <1>2. ASSUME NEW k \in 0..(top - 1), k \in G PROVE k + 1 \in G
        <2>1. PICK h, g, j : h = Hexes(val)[k] /\ g = Hexes(val)[k + 1] /\ j = top - (k + 1)
            OBVIOUS
        <2>2. /\ j \in 0..(NWords - 1) /\ j \in Index /\ j \in 0..NWords /\ j + 1 = top - k
              /\ k + 1 \in 0..top
            BY <1>0, <2>1 DEF Index
        <2>3. /\ h \in Seq(Digit) /\ Len(h) \in 1..((k + 1) * WordDigits) /\ h[1] # 0
              /\ strtoul(h, 0, Len(h)) * Weight(j + 1) + Low(val)[j + 1] = Low(val)[top + 1]
            BY <1>2, <2>1, <2>2 DEF Written
        <2>4. PICK d : d = Padded(val[j])
            OBVIOUS
        <2>5. d \in Seq(Digit) /\ Len(d) = WordDigits /\ strtoul(d, 0, WordDigits) = val[j]
            BY <2>2, <2>4, WordNat, PaddedWrites
        <2>6. g = h \o d
            BY <1>0, <2>1, <2>4, HexesSteps
        <2>7. WordDigits <= AllDigits
            <3>1. 1 * WordDigits \in 0..AllDigits /\ 1 * WordDigits = WordDigits
                BY <1>0, WordPlaces
            <3> QED
                BY <3>1
        <2>8. /\ g \in Seq(Digit) /\ Len(g) = Len(h) + WordDigits
              /\ strtoul(g, 0, Len(g)) = strtoul(h, 0, Len(h)) * WordSize + val[j]
            BY <2>3, <2>5, <2>6, <2>7, StrtoulAppend, Places
        <2>9. Len(g) \in 1..(((k + 1) + 1) * WordDigits)
            <3>1. PICK p \in Int : p = (k + 1) * WordDigits
                BY <1>0
            <3>2. ((k + 1) + 1) * WordDigits = p + WordDigits
                BY <1>0, <3>1
            <3>3. Len(h) \in 1..p
                BY <2>3, <3>1
            <3> QED
                BY <1>0, <2>8, <3>2, <3>3
        <2>10. g[1] # 0
            <3>1. Len(h) \in Nat /\ Len(h) >= 1
                BY <2>3, LenProperties
            <3>2. g[1] = h[1]
                BY <1>0, <2>3, <2>5, <2>6, <3>1, ConcatProperties
            <3> QED
                BY <2>3, <3>2
        <2>11. strtoul(g, 0, Len(g)) * Weight(j) + Low(val)[j] = Low(val)[top + 1]
            <3>1. PICK n \in Nat, s \in Nat, x \in Nat, w \in Nat, y \in Nat :
                      /\ n = strtoul(h, 0, Len(h)) /\ s = WordSize /\ x = val[j]
                      /\ w = Weight(j) /\ y = Low(val)[j]
                <4>1. strtoul(h, 0, Len(h)) \in Nat
                    <5>1. Len(h) \in Nat /\ 0 + Len(h) <= Len(h)
                        BY <2>3, LenProperties
                    <5> QED
                        BY <2>3, <5>1, StrtoulBound
                <4>2. val[j] \in Nat /\ Low(val)[j] \in Nat
                    BY <2>2, WordNat, LowNat
                <4>3. WordSize \in Nat /\ Weight(j) \in Nat
                    BY <2>2, Weights
                <4> QED
                    BY <4>1, <4>2, <4>3
            <3>2. Weight(j + 1) = w * s /\ Low(val)[j + 1] = y + x * w
                BY <2>2, <3>1, Weights, LowSteps
            <3>3. n * (w * s) + (y + x * w) = Low(val)[top + 1]
                BY <2>3, <3>1, <3>2
            <3>4. strtoul(g, 0, Len(g)) * Weight(j) + Low(val)[j] = (n * s + x) * w + y
                BY <2>8, <3>1
            <3>5. (n * s + x) * w + y = n * (w * s) + (y + x * w)
                <4>1. (n * s + x) * w = (n * s) * w + x * w /\ (n * s) * w = n * (w * s)
                    BY <3>1
                <4>2. PICK k1 \in Int, k2 \in Int, k3 \in Int :
                          k1 = n * (w * s) /\ k2 = x * w /\ k3 = (n * s + x) * w
                    OBVIOUS
                <4>3. k3 = k1 + k2
                    BY <4>1, <4>2
                <4>4. k3 + y = k1 + (y + k2)
                    BY <4>3
                <4> QED
                    BY <4>2, <4>4
            <3> QED
                BY <3>3, <3>4, <3>5
        <2>12. Written(val, top, g, k + 1)
            BY <2>1, <2>8, <2>9, <2>10, <2>11 DEF Written
        <2> QED
            BY <2>1, <2>2, <2>12
    <1>3. \A k \in 0..top : k \in G
        <2> HIDE DEF G
        <2> QED
            BY <1>0, <1>1, <1>2, Reaches
    <1> QED
        BY <1>3

\* A value is written without leading zeros, and read back as itself.
LEMMA HexIsWritten ==
    ASSUME NEW val \in Values, NEW h, h = uint256_format_as_hex(val)
    PROVE  /\ h \in Seq(Digit) /\ uint256_create_from_hex(h) = val
           /\ h = <<0>> \/ h[1] # 0
           /\ Len(h) <= AllDigits
    <1>0. NWords \in Nat \ {0} /\ AllDigits \in Nat \ {0} /\ Base \in Nat /\ Base >= 2
        BY SizesAssumption, BitsNat, Places
    <1>1. CASE Used(val) = {}
        <2>1. h = <<0>>
            BY <1>1 DEF uint256_format_as_hex, Used
        <2>2. h \in Seq(Digit) /\ Len(h) = 1 /\ h[1] = 0
            <3>1. 0 \in Digit
                BY <1>0 DEF Digit
            <3> QED
                BY <2>1, <3>1
        <2>3. strtoul(h, 0, 1) = 0
            <3>1. 0 + 1 <= Len(h) /\ 0 \in 0..(1 - 1) /\ 0 + 1 = 1
                BY <2>2
            <3>2. strtoul(h, 0, 0) = 0 /\ strtoul(h, 0, 0 + 1) = strtoul(h, 0, 0) * Base + h[0 + (0 + 1)]
                BY <2>2, <3>1, StrtoulSteps
            <3> QED
                BY <1>0, <2>2, <3>2
        <2>4. Value(val) = 0
            <3>1. \A k \in 0..(NWords - 1) : val[k] = 0
                BY <1>1 DEF Used, Index
            <3>2. Low(val)[NWords] = Low(val)[0]
                BY <1>0, <3>1, LowStays
            <3> QED
                BY <3>2, LowSteps, LowZero
        <2>5. uint256_create_from_hex(h) \in Values /\ Value(uint256_create_from_hex(h)) = 0
            <3>1. Len(h) <= AllDigits /\ strtoul(h, 0, Len(h)) = 0
                BY <1>0, <2>2, <2>3
            <3> QED
                BY <2>2, <3>1, HexIsRead
        <2> QED
            BY <1>0, <2>1, <2>2, <2>4, <2>5, ValueIsUnique
    <1>2. CASE Used(val) # {}
        <2>1. PICK top : top = Max(Used(val))
            OBVIOUS
        <2>2. /\ top \in Nat /\ top \in 0..(NWords - 1) /\ top + 1 \in 0..NWords
              /\ \A k \in (top + 1)..(NWords - 1) : val[k] = 0
            BY <1>0, <1>2, <2>1, TopWord DEF Index
        <2>3. h = Hexes(val)[top]
            BY <1>2, <2>1, HexesSteps
        <2>4. Written(val, top, h, top)
            BY <1>2, <2>1, <2>2, <2>3, WrittenSteps
        <2>5. h \in Seq(Digit) /\ Len(h) \in 1..((top + 1) * WordDigits) /\ h[1] # 0
            BY <2>4 DEF Written
        <2>6. Len(h) <= AllDigits
            <3>1. PICK p \in Int : p = (top + 1) * WordDigits /\ p <= AllDigits
                <4>1. (top + 1) * WordDigits \in 0..AllDigits
                    BY <2>2, WordPlaces
                <4> QED
                    BY <4>1
            <3>2. Len(h) \in 1..p
                BY <2>5, <3>1
            <3> QED
                BY <1>0, <3>1, <3>2
        <2>7. strtoul(h, 0, Len(h)) = Value(val)
            <3>1. top - top = 0 /\ Weight(0) = 1 /\ Low(val)[0] = 0
                BY <2>2, Weights, LowZero
            <3>2. PICK n \in Nat : n = strtoul(h, 0, Len(h))
                <4>1. Len(h) \in Nat /\ 0 + Len(h) <= Len(h)
                    BY <2>5, LenProperties
                <4>2. strtoul(h, 0, Len(h)) \in Nat
                    BY <2>5, <4>1, StrtoulBound
                <4> QED
                    BY <4>2
            <3>3. n * 1 + 0 = Low(val)[top + 1]
                BY <2>4, <3>1, <3>2 DEF Written
            <3>4. Low(val)[NWords] = Low(val)[top + 1]
                BY <2>2, LowStays
            <3> QED
                BY <3>2, <3>3, <3>4, LowSteps
        <2>8. uint256_create_from_hex(h) \in Values /\ Value(uint256_create_from_hex(h)) = Value(val)
            BY <2>5, <2>6, <2>7, HexIsRead
        <2> QED
            BY <2>5, <2>6, <2>8, ValueIsUnique
    <1> QED
        BY <1>1, <1>2

-----------------------------------------------------------------------------
(* The inductive invariant                                                 *)

\* What the variables hold.  A loop of uint256_mul starts from 0.
TypesAreRight ==
    /\ left \in Values /\ right \in Values /\ result \in Values
    /\ shift \in 0..(Bits - 1) /\ i \in 0..Bits
    /\ hex \in Seq(Digit)
    /\ fn = "none" => i = 0 /\ result = zero

IInv == TypesAreRight /\ WrapsAround /\ PartialProduct /\ HexRoundTrip

LEMMA ZeroValue == zero \in Values /\ Value(zero) = 0
    <1>1. zero \in Values
        BY Weights DEF zero, uint256_create_from_u32, Values, Word
    <1>2. \A k \in 0..(NWords - 1) : zero[k] = 0
        BY DEF zero, uint256_create_from_u32, Index
    <1>3. Low(zero)[NWords] = Low(zero)[0]
        <2>1. 0 \in 0..NWords
            BY SizesAssumption
        <2> QED
            BY <1>1, <1>2, <2>1, LowStays
    <1> QED
        BY <1>1, <1>3, LowSteps, LowZero

\* The invariant holds before the call.
THEOREM UInt256Init == Init => IInv
    <1> SUFFICES ASSUME Init PROVE IInv
        OBVIOUS
    <1>1. TypesAreRight
        BY ZeroValue, BitsNat, EmptySeq DEF Init, TypesAreRight
    <1> QED
        BY <1>1 DEF Init, IInv, TypesAreRight, WrapsAround, PartialProduct, HexRoundTrip

\* Every call and every turn of the loop keep it.
THEOREM UInt256Step == IInv /\ [Next]_vars => IInv'
    <1> SUFFICES ASSUME IInv, [Next]_vars PROVE IInv'
        OBVIOUS
    <1>0. TypesAreRight /\ WrapsAround /\ PartialProduct /\ HexRoundTrip
        BY DEF IInv
    <1>1. CASE UNCHANGED vars
        BY <1>0, <1>1 DEF vars, IInv, TypesAreRight, WrapsAround, PartialProduct, HexRoundTrip
    <1>2. CASE Add
        <2>1. PICK l \in Values, r \in Values :
                  /\ fn' = "add" /\ left' = l /\ right' = r /\ result' = uint256_add(l, r)
                  /\ UNCHANGED <<shift, hex, i>>
            BY <1>2 DEF Add, Call
        <2>2. result' \in Values /\ Value(result') = (Value(left') + Value(right')) % Modulus
            BY <2>1, AddIsSum
        <2>3. TypesAreRight'
            BY <1>0, <2>1, <2>2 DEF TypesAreRight
        <2> QED
            BY <2>1, <2>2, <2>3 DEF IInv, WrapsAround, PartialProduct, HexRoundTrip
    <1>3. CASE Sub
        <2>1. PICK l \in Values, r \in Values :
                  /\ fn' = "sub" /\ left' = l /\ right' = r /\ result' = uint256_sub(l, r)
                  /\ UNCHANGED <<shift, hex, i>>
            BY <1>3 DEF Sub, Call
        <2>2. result' \in Values /\ Value(result') = (Value(left') - Value(right')) % Modulus
            BY <2>1, SubIsDifference
        <2>3. TypesAreRight'
            BY <1>0, <2>1, <2>2 DEF TypesAreRight
        <2> QED
            BY <2>1, <2>2, <2>3 DEF IInv, WrapsAround, PartialProduct, HexRoundTrip
    <1>4. CASE LShift
        <2>1. PICK l \in Values, by \in 0..(Bits - 1) :
                  /\ fn' = "lshift" /\ left' = l /\ right' = right
                  /\ shift' = by /\ result' = uint256_lshift(l, by)
                  /\ UNCHANGED <<hex, i>>
            BY <1>4 DEF LShift, Call
        <2>2. result' \in Values /\ Value(result') = (Value(left') * Power[shift']) % Modulus
            BY <2>1, ShiftIsProduct
        <2>3. TypesAreRight'
            BY <1>0, <2>1, <2>2 DEF TypesAreRight
        <2> QED
            BY <2>1, <2>2, <2>3 DEF IInv, WrapsAround, PartialProduct, HexRoundTrip
    <1>5. CASE CreateFromHex
        <2>0. PICK n \in 0..MaxDigits : \E str \in [1..n -> Digit] :
                  /\ fn' = "create_from_hex" /\ left' = left /\ right' = right
                  /\ hex' = str /\ result' = uint256_create_from_hex(str)
                  /\ UNCHANGED <<shift, i>>
            BY <1>5 DEF CreateFromHex, Call
        <2>1. PICK str \in [1..n -> Digit] :
                  /\ fn' = "create_from_hex" /\ left' = left /\ right' = right
                  /\ hex' = str /\ result' = uint256_create_from_hex(str)
                  /\ UNCHANGED <<shift, i>>
            BY <2>0
        <2>2. hex' \in Seq(Digit)
            <3>1. n \in Nat
                BY SizesAssumption
            <3> QED
                BY <2>1, <3>1, SeqDef
        <2>3. /\ result' \in Values
              /\ Value(result') = strtoul(hex', 0, Len(hex')) % Modulus
            BY <2>1, <2>2, HexIsRead
        <2>4. TypesAreRight'
            BY <1>0, <2>1, <2>2, <2>3 DEF TypesAreRight
        <2> QED
            BY <2>1, <2>3, <2>4 DEF IInv, WrapsAround, PartialProduct, HexRoundTrip
    <1>6. CASE FormatAsHex
        <2>1. PICK l \in Values :
                  /\ fn' = "format_as_hex" /\ left' = l /\ right' = right
                  /\ hex' = uint256_format_as_hex(l)
                  /\ UNCHANGED <<shift, i, result>>
            BY <1>6 DEF FormatAsHex, Call
        <2>2. /\ hex' \in Seq(Digit) /\ uint256_create_from_hex(hex') = left'
              /\ hex' = <<0>> \/ hex'[1] # 0
              /\ Len(hex') <= AllDigits
            BY <2>1, HexIsWritten
        <2>3. TypesAreRight'
            BY <1>0, <2>1, <2>2 DEF TypesAreRight
        <2> QED
            BY <1>0, <2>1, <2>2, <2>3 DEF IInv, WrapsAround, PartialProduct, HexRoundTrip
    <1>7. CASE Mul
        <2>1. PICK l \in Values, r \in Values :
                  /\ fn = "none" /\ fn' = "mul" /\ left' = l /\ right' = r
                  /\ UNCHANGED <<shift, hex, i, result>>
            BY <1>7 DEF Mul, Call
        <2>2. i' = 0 /\ result' = zero
            BY <1>0, <2>1 DEF TypesAreRight
        <2>3. TypesAreRight'
            BY <1>0, <2>1 DEF TypesAreRight
        <2>4. Value(result') = ((Value(left') % Power[i']) * Value(right')) % Modulus
            <3>1. PICK v \in Nat, w \in Nat, m \in Nat \ {0} :
                      v = Value(left') /\ w = Value(right') /\ m = Modulus
                BY <2>1, LowSteps, Weights
            <3>2. v % 1 = 0 /\ (0 * w) % m = 0
                OBVIOUS
            <3> QED
                BY <2>2, <3>1, <3>2, ZeroValue, PowerStep
        <2> QED
            BY <2>1, <2>2, <2>3, <2>4, ZeroValue
               DEF IInv, WrapsAround, PartialProduct, HexRoundTrip
    <1>8. CASE MulBit
        <2>1. /\ fn = "mul" /\ i < Bits /\ i' = i + 1
              /\ result' = IF uint256_is_bit_set(left, i) = 1
                           THEN uint256_add(result, uint256_lshift(right, i))
                           ELSE result
              /\ UNCHANGED <<fn, left, right, shift, hex>>
            BY <1>8 DEF MulBit
        <2>2. /\ left \in Values /\ right \in Values /\ result \in Values
              /\ i \in 0..(Bits - 1)
            BY <1>0, <2>1, BitsNat DEF TypesAreRight
        <2>3. Value(result) = ((Value(left) % Power[i]) * Value(right)) % Modulus
            BY <1>0, <2>1 DEF PartialProduct
        <2>4. /\ result' \in Values
              /\ Value(result') = ((Value(left) % Power[i + 1]) * Value(right)) % Modulus
            BY <2>1, <2>2, <2>3, ProductTurn
        <2>5. TypesAreRight'
            BY <1>0, <2>1, <2>2, <2>4, BitsNat DEF TypesAreRight
        <2> QED
            BY <2>1, <2>4, <2>5 DEF IInv, WrapsAround, PartialProduct, HexRoundTrip
    <1> QED
        BY <1>1, <1>2, <1>3, <1>4, <1>5, <1>6, <1>7, <1>8 DEF Next

\* Every reachable state satisfies the inductive invariant.
THEOREM UInt256Invariance == Spec => []IInv
    BY UInt256Init, UInt256Step, PTL DEF Spec

-----------------------------------------------------------------------------
(* What the integers promise                                               *)

\* Addition, subtraction and shifts are those of the integers modulo the
\* number of all values, however many words and bits there are.
THEOREM ArithmeticWraps == Spec => []WrapsAround
    <1>1. IInv => WrapsAround
        BY DEF IInv
    <1> QED
        BY <1>1, UInt256Invariance, PTL

\* uint256_mul has multiplied by the bits it has seen, before every turn and
\* after the last.
THEOREM ProductIsPartial == Spec => []PartialProduct
    <1>1. IInv => PartialProduct
        BY DEF IInv
    <1> QED
        BY <1>1, UInt256Invariance, PTL

\* Strings of any length are read modulo the number of all values, and every
\* value is written so that it is read back.
THEOREM HexReadsBack == Spec => []HexRoundTrip
    <1>1. IInv => HexRoundTrip
        BY DEF IInv
    <1> QED
        BY <1>1, UInt256Invariance, PTL
=============================================================================
