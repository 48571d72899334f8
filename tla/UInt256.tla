------------------------------ MODULE UInt256 -------------------------------
(***************************************************************************)
(* The 256-bit integers of HW1 (uint256.c): one call of an operation, and  *)
(* a step per bit for the loop of uint256_mul.  A value is an array of     *)
(* words, the least significant first.                                     *)
(*                                                                         *)
(* Scaled: the code has 8 words of 8 hexadecimal digits of 4 bits.         *)
(***************************************************************************)
EXTENDS Integers, Sequences, FiniteSetsExt

CONSTANTS NWords, WordDigits, DigitBits,
          MaxDigits    \* bound: the longest string read

ASSUME SizesAssumption ==
    /\ NWords \in Nat \ {0} /\ WordDigits \in Nat \ {0}
    /\ DigitBits \in Nat \ {0} /\ MaxDigits \in Nat

WordBits  == DigitBits * WordDigits
Bits      == NWords * WordBits
AllDigits == NWords * WordDigits

\* The powers of two, up to the number of all values.
Power[n \in 0..Bits] == IF n = 0 THEN 1 ELSE 2 * Power[n - 1]

Base      == Power[DigitBits]
WordSize  == Power[WordBits]
Modulus   == Power[Bits]

Digit  == 0..(Base - 1)
Index  == 0..(NWords - 1)
Word   == 0..(WordSize - 1)
Values == [Index -> Word]

VARIABLES
    fn,           \* the function called, "none" before the call
    left, right,  \* its arguments; val is left
    shift,
    hex,          \* a string of digits, argument or result
    i,            \* the bits the loop of uint256_mul has done
    result

vars == <<fn, left, right, shift, hex, i, result>>

-----------------------------------------------------------------------------
(* The operations                                                          *)

uint256_create_from_u32(val) == [k \in Index |-> IF k = 0 THEN val ELSE 0]

zero == uint256_create_from_u32(0)

\* The bit is shifted to the top of its word, then to the bottom.
uint256_is_bit_set(val, index) ==
    LET bit_idx == index \div WordBits
        idx == index % WordBits
    IN  ((val[bit_idx] * Power[WordBits - 1 - idx]) % WordSize) \div Power[WordBits - 1]

\* Mutant: an overflow is only looked for as if none came in.
CarriesIfLess(before, total, leftpart) == total < leftpart

\* Whether total, a sum cut to a word, has overflowed.
Carries(before, total, leftpart) ==
    \/ before = 0 /\ total < leftpart
    \/ before = 1 /\ total <= leftpart

uint256_add(l, r) ==
    LET overflow[k \in 0..NWords] ==
            IF k = 0 THEN 0
            ELSE LET before == overflow[k - 1]
                     total == (l[k - 1] + r[k - 1] + before) % WordSize
                 IN  IF Carries(before, total, l[k - 1]) THEN 1 ELSE 0
    IN  [k \in Index |-> (l[k] + r[k] + overflow[k]) % WordSize]

uint256_negate(val) ==
    uint256_add([k \in Index |-> WordSize - 1 - val[k]], uint256_create_from_u32(1))

uint256_sub(l, r) == uint256_add(l, uint256_negate(r))

\* Mutant: what leaves a word at the top does not enter the next one.
ShiftedWordAlone(val, k, bits) == (val[k] * Power[bits]) % WordSize

\* Word k shifted by less than a word, with what its lower neighbour shifts
\* out.  The two have no bit in common, so | adds them.
ShiftedWord(val, k, bits) ==
    ((val[k] * Power[bits]) % WordSize)
    + (IF bits > 0 /\ k > 0 THEN val[k - 1] \div Power[WordBits - bits] ELSE 0)

uint256_lshift(val, by) ==
    LET element_shift == by \div WordBits
        bits_shift == by % WordBits
    IN  [k \in Index |-> IF k < element_shift THEN 0
                         ELSE ShiftedWord(val, k - element_shift, bits_shift)]

-----------------------------------------------------------------------------
(* Hexadecimal.  Strings are sequences of digits.                          *)

\* The number written by the n digits behind the first from ones.
strtoul(str, from, n) ==
    LET number[k \in 0..n] ==
            IF k = 0 THEN 0 ELSE number[k - 1] * Base + str[from + k]
    IN  number[n]

uint256_create_from_hex(str) ==
    LET len == Len(str)
        start == IF len > AllDigits THEN len - AllDigits ELSE 0
        count == IF len > AllDigits THEN NWords ELSE len \div WordDigits
        remain == IF len > AllDigits THEN 0 ELSE len % WordDigits
    IN  [idx \in Index |->
            IF idx < count
            THEN strtoul(str, start + remain + (count - idx - 1) * WordDigits, WordDigits)
            ELSE IF idx = count THEN strtoul(str, start, remain)
            ELSE 0]

\* The last n digits of a word.
Digits(value, n) ==
    [k \in 1..n |-> (value \div Power[DigitBits * (n - k)]) % Base]

\* sprintf with %x and with %08x.
Unpadded(value) ==
    Digits(value, Min({n \in 1..WordDigits : value < Power[DigitBits * n]}))

Padded(value) == Digits(value, WordDigits)

\* The words from the greatest that is not 0 on, one behind the other.
uint256_format_as_hex(val) ==
    LET used == {k \in Index : val[k] # 0}
        hexes[k \in 0..Max(used)] ==
            IF k = 0 THEN Unpadded(val[Max(used)])
            ELSE hexes[k - 1] \o Padded(val[Max(used) - k])
    IN  IF used = {} THEN <<0>> ELSE hexes[Max(used)]

-----------------------------------------------------------------------------
(* The calls                                                               *)

Init ==
    /\ fn = "none"
    /\ left = zero /\ right = zero /\ shift = 0 /\ hex = << >>
    /\ i = 0 /\ result = zero

Call(f, l, r) ==
    /\ fn = "none" /\ fn' = f
    /\ left' = l /\ right' = r

Add ==
    \E l, r \in Values :
        /\ Call("add", l, r)
        /\ result' = uint256_add(l, r)
        /\ UNCHANGED <<shift, hex, i>>

Sub ==
    \E l, r \in Values :
        /\ Call("sub", l, r)
        /\ result' = uint256_sub(l, r)
        /\ UNCHANGED <<shift, hex, i>>

\* The caller keeps to the assertion that shift is less than 256.
LShift ==
    \E l \in Values, by \in 0..(Bits - 1) :
        /\ Call("lshift", l, right)
        /\ shift' = by
        /\ result' = uint256_lshift(l, by)
        /\ UNCHANGED <<hex, i>>

CreateFromHex ==
    \E n \in 0..MaxDigits : \E str \in [1..n -> Digit] :
        /\ Call("create_from_hex", left, right)
        /\ hex' = str
        /\ result' = uint256_create_from_hex(str)
        /\ UNCHANGED <<shift, i>>

FormatAsHex ==
    \E l \in Values :
        /\ Call("format_as_hex", l, right)
        /\ hex' = uint256_format_as_hex(l)
        /\ UNCHANGED <<shift, i, result>>

Mul ==
    \E l, r \in Values :
        /\ Call("mul", l, r)
        /\ UNCHANGED <<shift, hex, i, result>>

MulBit ==
    /\ fn = "mul" /\ i < Bits
    /\ i' = i + 1
    /\ result' = IF uint256_is_bit_set(left, i) = 1
                 THEN uint256_add(result, uint256_lshift(right, i))
                 ELSE result
    /\ UNCHANGED <<fn, left, right, shift, hex>>

Next == Add \/ Sub \/ LShift \/ CreateFromHex \/ FormatAsHex \/ Mul \/ MulBit

Spec == Init /\ [][Next]_vars

-----------------------------------------------------------------------------
\* The number that an array of words stands for.
Value(val) ==
    LET value[k \in 0..NWords] ==
            IF k = 0 THEN 0
            ELSE value[k - 1] + val[k - 1] * Power[(k - 1) * WordBits]
    IN  value[NWords]

\* Sums, differences and shifts are those of the integers modulo 2^256: every
\* carry reaches the next word, also one that meets a word of all ones, and a
\* shift by whole words and bits loses nothing but what leaves at the top.
WrapsAround ==
    /\ result \in Values
    /\ fn = "add" => Value(result) = (Value(left) + Value(right)) % Modulus
    /\ fn = "sub" => Value(result) = (Value(left) - Value(right)) % Modulus
    /\ fn = "lshift" => Value(result) = (Value(left) * Power[shift]) % Modulus

\* The invariant of the loop of uint256_mul: the product of right with the
\* bits of left seen so far, so at the end with all of left, modulo 2^256.
PartialProduct ==
    fn = "mul" =>
        Value(result) = ((Value(left) % Power[i]) * Value(right)) % Modulus

\* A string is read as the number of its last 64 digits (uint256.c:41), even
\* if it has none; a value is written in its only numeral without leading
\* zeros, with the zeros inside it, and is read back as itself.
HexRoundTrip ==
    /\ fn = "create_from_hex" =>
        Value(result) = strtoul(hex, 0, Len(hex)) % Modulus
    /\ fn = "format_as_hex" =>
        /\ uint256_create_from_hex(hex) = left
        /\ hex = <<0>> \/ hex[1] # 0
        /\ Len(hex) <= AllDigits
=============================================================================
