----------------------------- MODULE CacheProofs -----------------------------
(***************************************************************************)
(* Theorems about Cache, for caches of any size, any trace and any command *)
(* lines: every variable has its type; under LRU the ages of a set's       *)
(* blocks are a permutation of 0..blocks - 1, so that a miss refills one   *)
(* block; and the simulator implements the abstract cache of MemoryCache,  *)
(* at the same price.                                                      *)
(***************************************************************************)
EXTENDS Cache, SequencesExt, FiniteSetTheorems, SequenceTheorems,
        WellFoundedInduction, TLAPS

-----------------------------------------------------------------------------
(* The inductive invariant                                                 *)

\* The n ages are 0..n-1, each of them once.
IsPermutation(age, n) ==
  /\ age \in [0..n - 1 -> 0..n - 1]
  /\ \A i, j \in 0..n - 1 : age[i] = age[j] => i = j
  /\ \A a \in 0..n - 1 : \E i \in 0..n - 1 : age[i] = a

AgesOf(set, n) == [i \in 0..n - 1 |-> set[i].access_ts]

AgesInv ==
  is_valid_argument(args) /\ args.evic_policy = "lru" =>
    \A s \in 0..args.num_sets - 1 : IsPermutation(AgesOf(sets[s], args.blocks), args.blocks)

\* Two blocks of a set never hold the same memory block.
OneCopy(set, n) ==
  \A i, j \in 0..n - 1 : set[i].valid /\ set[j].valid /\ set[i].tag = set[j].tag => i = j

\* LRU: the blocks never filled are older than the others.
InvalidLast(set, n) ==
  \A i, j \in 0..n - 1 : set[i].valid /\ ~set[j].valid => set[i].access_ts < set[j].access_ts

TagsInv ==
  is_valid_argument(args) =>
    \A s \in 0..args.num_sets - 1 :
      /\ OneCopy(sets[s], args.blocks)
      /\ args.evic_policy = "lru" => InvalidLast(sets[s], args.blocks)

\* main reads a trace only when it has accepted the arguments.
StatusInv ==
  /\ status = "reading" => is_valid_argument(args)
  /\ ~is_valid_argument(args) => sets = <<>>

IInv == TypeOK /\ StatusInv /\ AgesInv /\ TagsInv

-----------------------------------------------------------------------------
(* Arithmetic                                                              *)

\* A quotient of naturals is no larger than the dividend.
LEMMA QuotientBound ==
  ASSUME NEW a \in Nat, NEW b \in Nat \ {0}
  PROVE  a \div b \in 0..a
  OBVIOUS

\* A remainder is smaller than the divisor.
LEMMA RemainderBound ==
  ASSUME NEW a \in Nat, NEW b \in Nat \ {0}
  PROVE  a % b \in 0..b - 1
  OBVIOUS

\* A product of positive numbers is positive.
LEMMA ProductPositive ==
  ASSUME NEW a \in Nat \ {0}, NEW b \in Nat \ {0}
  PROVE  a * b \in Nat \ {0}
  OBVIOUS

\* The quotient of a number by one that is not larger is positive.
LEMMA QuotientPositive ==
  ASSUME NEW a \in Nat, NEW b \in Nat \ {0}, ~(a < b)
  PROVE  a \div b \in Nat \ {0}
  OBVIOUS

\* What valid arguments are: positive numbers, and at least a word in a block.
LEMMA ValidArguments ==
  ASSUME args \in Arguments, is_valid_argument(args)
  PROVE  /\ args.num_sets \in Nat \ {0}
         /\ args.blocks \in Nat \ {0} /\ args.blocks < Word
         /\ args.bytes \in Nat \ {0}
         /\ args.write_alloc \in BOOLEAN /\ args.write_back \in BOOLEAN
         /\ args.evic_policy \in {"lru", "fifo"}
  BY ArgumentsAssumption DEF is_valid_argument, is_valid_num

\* An address is in a set the cache has, and its tag fits an unsigned int.
LEMMA AddressParts ==
  ASSUME args \in Arguments, is_valid_argument(args), NEW addr \in Address
  PROVE  /\ IndexOf(addr % Word) \in 0..args.num_sets - 1
         /\ TagOf(addr % Word) \in 0..Word - 1
  <1> DEFINE a == addr % Word
  <1>1. a \in 0..Word - 1
    BY ArgumentsAssumption, RemainderBound
  <1>2. a \in Nat
    BY <1>1, ArgumentsAssumption
  <1> HIDE DEF a
  <1>3. /\ args.num_sets \in Nat \ {0} /\ args.bytes \in Nat \ {0}
    BY ValidArguments
  <1>4. a \div args.bytes \in Nat
    BY <1>2, <1>3, QuotientBound
  <1>5. (a \div args.bytes) % args.num_sets \in 0..args.num_sets - 1
    BY <1>3, <1>4, RemainderBound
  <1>6. args.num_sets * args.bytes \in Nat \ {0}
    BY <1>3, ProductPositive
  <1>7. PICK c \in Nat \ {0} : c = args.num_sets * args.bytes
    BY <1>6
  <1>8. PICK d \in Nat \ {0} : d = IF c < Word THEN c ELSE c \div Word
    BY <1>7, QuotientPositive, ArgumentsAssumption
  <1>9. a \div d \in 0..a
    BY <1>2, <1>8, QuotientBound
  <1>10. a \div d \in 0..Word - 1
    BY <1>1, <1>2, <1>9, ArgumentsAssumption
  <1>11. TagOf(a) = a \div d
    BY <1>7, <1>8 DEF TagOf
  <1>12. IndexOf(a) \in 0..args.num_sets - 1
    BY <1>5 DEF IndexOf
  <1> QED
    BY <1>10, <1>11, <1>12 DEF a

NatLess == {ss \in Nat \X Nat : ss[1] < ss[2]}

\* A set of naturals has a least element.
LEMMA LeastNat ==
  ASSUME NEW S \in SUBSET Nat, S # {}
  PROVE  \E n \in S : \A m \in S : n <= m
  <1>1. IsWellFoundedOn(NatLess, Nat)
    BY NatLessThanWellFounded DEF OpToRel, NatLess
  <1>2. \E n \in S : \A m \in S : ~ (<<m, n>> \in NatLess)
    BY <1>1, WFMin
  <1>3. PICK n \in S : \A m \in S : ~ (<<m, n>> \in NatLess)
    BY <1>2
  <1>4. ASSUME NEW m \in S PROVE n <= m
    <2>1. m \in Nat /\ n \in Nat
      OBVIOUS
    <2>2. m < n => <<m, n>> \in NatLess
      BY <2>1 DEF NatLess
    <2> QED
      BY <1>3, <2>1, <2>2
  <1> QED
    BY <1>4

\* Min and Max choose what they should in sets of naturals, bounded for Max.
LEMMA MinNat ==
  ASSUME NEW S \in SUBSET Nat, S # {}
  PROVE  Min(S) \in S /\ \A x \in S : Min(S) <= x
  <1>1. \E n \in S : \A m \in S : n <= m
    BY LeastNat
  <1> QED
    BY <1>1 DEF Min

\* Max of a nonempty set of numbers up to b is its greatest element.
LEMMA MaxNat ==
  ASSUME NEW b \in Nat, NEW S \in SUBSET (0..b), S # {}
  PROVE  Max(S) \in S /\ \A x \in S : x <= Max(S)
  <1> DEFINE D == {b - x : x \in S}
  <1>a. D \in SUBSET Nat
    OBVIOUS
  <1>b. D # {}
    OBVIOUS
  <1>2. PICK d \in D : \A e \in D : d <= e
    BY <1>a, <1>b, LeastNat
  <1>3. PICK m \in S : d = b - m
    BY <1>2
  <1>4. ASSUME NEW x \in S PROVE x <= m
    <2>1. b - m <= b - x
      BY <1>2, <1>3
    <2>2. x \in 0..b /\ m \in 0..b
      OBVIOUS
    <2> QED
      BY <2>1, <2>2
  <1>5. m \in S /\ \A x \in S : m >= x
    BY <1>4
  <1> QED
    BY <1>5 DEF Max

-----------------------------------------------------------------------------
(* The operators on one set                                                *)

\* Setting one age to 0 and ageing the younger ones permutes the ages.
LEMMA TouchPermutes ==
  ASSUME NEW n \in Nat \ {0}, NEW age, IsPermutation(age, n), NEW i \in 0..n - 1
  PROVE  IsPermutation([j \in 0..n - 1 |-> IF j = i THEN 0
                                           ELSE IF age[j] < age[i] THEN age[j] + 1
                                           ELSE age[j]], n)
  <1> DEFINE new == [j \in 0..n - 1 |-> IF j = i THEN 0
                                        ELSE IF age[j] < age[i] THEN age[j] + 1
                                        ELSE age[j]]
  <1>1. \A j \in 0..n - 1 : age[j] \in 0..n - 1
    BY DEF IsPermutation
  <1>2. \A j, k \in 0..n - 1 : age[j] = age[k] => j = k
    BY DEF IsPermutation
  <1>3. \A a \in 0..n - 1 : \E j \in 0..n - 1 : age[j] = a
    BY DEF IsPermutation
  <1>4. \A j \in 0..n - 1 : new[j] = IF j = i THEN 0
                                     ELSE IF age[j] < age[i] THEN age[j] + 1
                                     ELSE age[j]
    OBVIOUS
  <1>5. age[i] \in 0..n - 1 /\ 0 \in 0..n - 1
    BY <1>1
  <1> HIDE DEF new
  <1>6. ASSUME NEW j \in 0..n - 1 PROVE new[j] \in 0..n - 1
    <2>1. age[j] \in 0..n - 1
      BY <1>1
    <2> QED
      BY <1>4, <1>5, <2>1
  <1>7. ASSUME NEW j \in 0..n - 1, NEW k \in 0..n - 1, new[j] = new[k]
        PROVE  j = k
    <2>1. age[j] \in 0..n - 1 /\ age[k] \in 0..n - 1
      BY <1>1
    <2>2. (j # i => age[j] # age[i]) /\ (k # i => age[k] # age[i])
      BY <1>2
    <2>3. age[j] = age[k] \/ (j = i /\ k = i)
      BY <1>4, <1>5, <1>7, <2>1, <2>2
    <2> QED
      BY <1>2, <2>3
  <1>8. ASSUME NEW a \in 0..n - 1 PROVE \E j \in 0..n - 1 : new[j] = a
    <2>1. CASE a = 0
      BY <1>4, <2>1
    <2>2. CASE a > age[i]
      <3>1. PICK j \in 0..n - 1 : age[j] = a
        BY <1>3
      <3>2. new[j] = a
        BY <1>4, <1>5, <2>2, <3>1
      <3> QED
        BY <3>2
    <2>3. CASE a # 0 /\ a <= age[i]
      <3>1. a - 1 \in 0..n - 1
        BY <2>3
      <3>2. PICK j \in 0..n - 1 : age[j] = a - 1
        BY <1>3, <3>1
      <3>3. new[j] = a
        BY <1>4, <1>5, <2>3, <3>2
      <3> QED
        BY <3>3
    <2> QED
      BY <1>5, <2>1, <2>2, <2>3
  <1>9. new \in [0..n - 1 -> 0..n - 1]
    BY <1>6 DEF new
  <1> QED
    BY <1>7, <1>8, <1>9 DEF IsPermutation, new

\* Setting the largest age to 0 and ageing the others permutes the ages.
LEMMA RotatePermutes ==
  ASSUME NEW n \in Nat \ {0}, NEW age, IsPermutation(age, n), NEW v \in 0..n - 1,
         age[v] = n - 1
  PROVE  IsPermutation([j \in 0..n - 1 |-> IF j = v THEN 0 ELSE age[j] + 1], n)
  <1> DEFINE new == [j \in 0..n - 1 |-> IF j = v THEN 0 ELSE age[j] + 1]
  <1>1. \A j \in 0..n - 1 : age[j] \in 0..n - 1
    BY DEF IsPermutation
  <1>2. \A j, k \in 0..n - 1 : age[j] = age[k] => j = k
    BY DEF IsPermutation
  <1>3. \A a \in 0..n - 1 : \E j \in 0..n - 1 : age[j] = a
    BY DEF IsPermutation
  <1>4. \A j \in 0..n - 1 : new[j] = IF j = v THEN 0 ELSE age[j] + 1
    OBVIOUS
  <1> HIDE DEF new
  <1>5. ASSUME NEW j \in 0..n - 1, j # v PROVE age[j] + 1 \in 1..n - 1
    <2>1. age[j] \in 0..n - 1 /\ age[j] # n - 1
      BY <1>1, <1>2, <1>5
    <2> QED
      BY <2>1
  <1>6. ASSUME NEW j \in 0..n - 1 PROVE new[j] \in 0..n - 1
    <2>1. CASE j = v
      BY <1>4, <2>1
    <2>2. CASE j # v
      BY <1>4, <1>5, <2>2
    <2> QED
      BY <2>1, <2>2
  <1>7. ASSUME NEW j \in 0..n - 1, NEW k \in 0..n - 1, new[j] = new[k]
        PROVE  j = k
    <2>1. age[j] \in 0..n - 1 /\ age[k] \in 0..n - 1
      BY <1>1
    <2>2. age[j] = age[k] \/ (j = v /\ k = v)
      BY <1>4, <1>7, <2>1
    <2> QED
      BY <1>2, <2>2
  <1>8. ASSUME NEW a \in 0..n - 1 PROVE \E j \in 0..n - 1 : new[j] = a
    <2>1. CASE a = 0
      BY <1>4, <2>1
    <2>2. CASE a # 0
      <3>1. a - 1 \in 0..n - 1
        BY <2>2
      <3>2. PICK j \in 0..n - 1 : age[j] = a - 1
        BY <1>3, <3>1
      <3>3. new[j] = a
        BY <1>4, <2>2, <3>2
      <3> QED
        BY <3>3
    <2> QED
      BY <2>1, <2>2
  <1>9. new \in [0..n - 1 -> 0..n - 1]
    BY <1>6 DEF new
  <1> QED
    BY <1>7, <1>8, <1>9 DEF IsPermutation, new

\* LRU: from old to new, block i of a set was used for a tag: it is the youngest,
\* the younger blocks have aged, and the others hold what they held.
Used(old, new, n, i, tag) ==
  /\ new[i].valid /\ new[i].tag = tag /\ new[i].access_ts = 0
  /\ \A j \in 0..n - 1 : j # i =>
       /\ new[j].valid = old[j].valid
       /\ new[j].tag = old[j].tag
       /\ new[j].access_ts = IF old[j].access_ts < old[i].access_ts
                             THEN old[j].access_ts + 1 ELSE old[j].access_ts

\* Block b holds the memory block of a tag; the used one does on a hit, and is the
\* oldest one on a miss.
Holds(b, tag) == b.valid /\ b.tag = tag

HitOrOldest(set, n, i, tag) ==
  \/ Holds(set[i], tag)
  \/ set[i].access_ts = n - 1 /\ \A j \in 0..n - 1 : ~Holds(set[j], tag)

\* LRU: using a block keeps one copy of each memory block, and the blocks never
\* filled last.
LEMMA UsedKeepsTags ==
  ASSUME NEW n \in Nat \ {0}, NEW old, NEW new, NEW i \in 0..n - 1, NEW tag,
         \A j \in 0..n - 1 : old[j].access_ts \in 0..n - 1,
         \A j, k \in 0..n - 1 : old[j].access_ts = old[k].access_ts => j = k,
         OneCopy(old, n), InvalidLast(old, n),
         HitOrOldest(old, n, i, tag), Used(old, new, n, i, tag)
  PROVE  OneCopy(new, n) /\ InvalidLast(new, n)
  <1>1. \A j \in 0..n - 1 : j # i =>
          /\ new[j].valid = old[j].valid
          /\ new[j].tag = old[j].tag
          /\ new[j].access_ts = IF old[j].access_ts < old[i].access_ts
                                THEN old[j].access_ts + 1 ELSE old[j].access_ts
    BY DEF Used
  <1>2. new[i].valid /\ new[i].tag = tag /\ new[i].access_ts = 0
    BY DEF Used
  <1>3. \A j \in 0..n - 1 : j # i => ~(old[j].valid /\ old[j].tag = tag)
    BY DEF HitOrOldest, Holds, OneCopy
  <1>4. OneCopy(new, n)
    BY <1>1, <1>2, <1>3 DEF OneCopy
  <1>5. ASSUME NEW j \in 0..n - 1, NEW k \in 0..n - 1, new[j].valid, ~new[k].valid
        PROVE  new[j].access_ts < new[k].access_ts
    <2>1. k # i /\ ~old[k].valid
      BY <1>1, <1>2, <1>5
    <2>2. /\ old[j].access_ts \in 0..n - 1 /\ old[k].access_ts \in 0..n - 1
          /\ old[i].access_ts \in 0..n - 1 /\ old[k].access_ts # old[i].access_ts
      BY <2>1
    <2>3. HitOrOldest(old, n, i, tag)
      OBVIOUS
    <2>4. \/ old[i].access_ts < old[k].access_ts
          \/ old[i].access_ts = n - 1
      BY <2>1, <2>3 DEF HitOrOldest, Holds, InvalidLast
    <2>5. new[k].access_ts = IF old[k].access_ts < old[i].access_ts
                             THEN old[k].access_ts + 1 ELSE old[k].access_ts
      BY <1>1, <2>1
    <2>6. CASE j = i
      <3>1. new[k].access_ts > 0
        BY <2>2, <2>4, <2>5
      <3> QED
        BY <1>2, <2>6, <3>1
    <2>7. CASE j # i
      <3>1. old[j].valid
        BY <1>1, <1>5, <2>7
      <3>2. old[j].access_ts < old[k].access_ts
        BY <2>1, <3>1 DEF InvalidLast
      <3>3. new[j].access_ts = IF old[j].access_ts < old[i].access_ts
                               THEN old[j].access_ts + 1 ELSE old[j].access_ts
        BY <1>1, <2>7
      <3> QED
        BY <2>2, <2>4, <2>5, <3>2, <3>3
    <2> QED
      BY <2>6, <2>7
  <1> QED
    BY <1>4, <1>5 DEF InvalidLast

\* LRU: touching a block keeps a permutation of ages, and the rest of the set.
LEMMA TouchKeepsAges ==
  ASSUME NEW n \in Nat \ {0}, n < Word, NEW set \in [0..n - 1 -> Block],
         IsPermutation(AgesOf(set, n), n), NEW i \in 0..n - 1
  PROVE  /\ Touch(set, i) \in [0..n - 1 -> Block]
         /\ IsPermutation(AgesOf(Touch(set, i), n), n)
         /\ set[i].valid => Used(set, Touch(set, i), n, i, set[i].tag)
  <1> DEFINE new == Touch(set, i)
             age == AgesOf(set, n)
             turned == [j \in 0..n - 1 |-> IF j = i THEN 0
                          ELSE IF age[j] < age[i] THEN age[j] + 1 ELSE age[j]]
  <1>1. Word \in Nat
    BY ArgumentsAssumption
  <1>2. IsPermutation(turned, n)
    BY TouchPermutes
  <1>3. \A j \in 0..n - 1 : set[j] \in Block /\ set[j].access_ts = age[j]
    BY DEF AgesOf
  <1>4. \A j \in 0..n - 1 : turned[j] \in 0..n - 1
    BY <1>2 DEF IsPermutation
  <1>5. ASSUME NEW j \in 0..n - 1
        PROVE  new[j] = [set[j] EXCEPT !.access_ts = turned[j]]
    <2>1. new[j] = IF j = i THEN [set[j] EXCEPT !.access_ts = 0]
                   ELSE IF set[j].access_ts < set[i].access_ts
                        THEN [set[j] EXCEPT !.access_ts = @ + 1]
                        ELSE set[j]
      BY DEF Touch
    <2>2. set[j] = [set[j] EXCEPT !.access_ts = set[j].access_ts]
      BY <1>3 DEF Block
    <2>3. CASE j = i
      BY <2>1, <2>3
    <2>4. CASE j # i /\ age[j] < age[i]
      BY <1>3, <2>1, <2>4
    <2>5. CASE j # i /\ ~(age[j] < age[i])
      BY <1>3, <2>1, <2>2, <2>5
    <2> QED
      BY <2>3, <2>4, <2>5
  <1>6. new = [j \in 0..n - 1 |-> new[j]]
    BY DEF Touch
  <1> HIDE DEF new, turned
  <1>7. ASSUME NEW j \in 0..n - 1
        PROVE  /\ new[j] \in Block /\ new[j].access_ts = turned[j]
               /\ new[j].valid = set[j].valid /\ new[j].tag = set[j].tag
    <2>1. turned[j] \in 0..Word - 1
      BY <1>1, <1>4
    <2> QED
      BY <1>3, <1>5, <2>1 DEF Block
  <1>8. AgesOf(new, n) = turned
    BY <1>7 DEF AgesOf, turned
  <1>9. \A j \in 0..n - 1 :
          turned[j] = IF j = i THEN 0
                      ELSE IF set[j].access_ts < set[i].access_ts
                           THEN set[j].access_ts + 1 ELSE set[j].access_ts
    BY <1>3 DEF turned
  <1>10. set[i].valid => Used(set, new, n, i, set[i].tag)
    BY <1>7, <1>9 DEF Used
  <1>11. new \in [0..n - 1 -> Block]
    BY <1>6, <1>7
  <1> QED
    BY <1>2, <1>8, <1>10, <1>11 DEF new

\* LRU: one block, and no other, has the largest age.
LEMMA OneOldest ==
  ASSUME NEW n \in Nat \ {0}, args.blocks = n,
         NEW set \in [0..n - 1 -> Block], IsPermutation(AgesOf(set, n), n)
  PROVE  \E v \in 0..n - 1 : /\ Oldest(set) = {v}
                             /\ set[v].access_ts = n - 1
                             /\ AgesOf(set, n)[v] = n - 1
  <1> DEFINE age == AgesOf(set, n)
  <1>1. n - 1 \in 0..n - 1
    OBVIOUS
  <1>2. PICK v \in 0..n - 1 : age[v] = n - 1
    BY <1>1 DEF IsPermutation
  <1>3. \A j \in 0..n - 1 : set[j].access_ts = age[j]
    BY DEF AgesOf
  <1>4. \A j \in 0..n - 1 : age[j] = age[v] => j = v
    BY DEF IsPermutation
  <1>5. \A j \in 0..n - 1 : set[j].access_ts = n - 1 => j = v
    BY <1>2, <1>3, <1>4
  <1>6. \A j : j \in Oldest(set) <=> j \in 0..n - 1 /\ set[j].access_ts = n - 1
    BY DEF Oldest
  <1>7. Oldest(set) = {v}
    BY <1>2, <1>3, <1>5, <1>6
  <1> QED
    BY <1>2, <1>3, <1>7

\* LRU: the block of the largest age, and no other, is refilled; the rest age.
LEMMA ReplaceKeepsAges ==
  ASSUME NEW n \in Nat \ {0}, n < Word, args.blocks = n,
         NEW set \in [0..n - 1 -> Block], IsPermutation(AgesOf(set, n), n),
         NEW tag \in 0..Word - 1, NEW dirty \in BOOLEAN
  PROVE  /\ ReplaceOldest(set, tag, dirty) \in [0..n - 1 -> Block]
         /\ IsPermutation(AgesOf(ReplaceOldest(set, tag, dirty), n), n)
         /\ \E v \in 0..n - 1 :
              /\ Oldest(set) = {v}
              /\ set[v].access_ts = n - 1
              /\ Used(set, ReplaceOldest(set, tag, dirty), n, v, tag)
  <1> DEFINE new == ReplaceOldest(set, tag, dirty)
             age == AgesOf(set, n)
  <1>1. Word \in Nat
    BY ArgumentsAssumption
  <1>2. PICK v \in 0..n - 1 : Oldest(set) = {v} /\ set[v].access_ts = n - 1 /\ age[v] = n - 1
    BY OneOldest
  <1>3. \A j \in 0..n - 1 : set[j] \in Block /\ set[j].access_ts = age[j]
    BY DEF AgesOf
  <1>4. Oldest(set) = {v}
    BY <1>2
  <1> DEFINE turned == [j \in 0..n - 1 |-> IF j = v THEN 0 ELSE age[j] + 1]
  <1>5. IsPermutation(turned, n)
    BY <1>2, RotatePermutes
  <1>6. \A j \in 0..n - 1 : turned[j] \in 0..n - 1
    BY <1>5 DEF IsPermutation
  <1>7. ASSUME NEW j \in 0..n - 1
        PROVE  new[j] = IF j = v THEN [Filled(set[j], tag, dirty) EXCEPT !.access_ts = 0]
                        ELSE [set[j] EXCEPT !.access_ts = @ + 1]
    BY <1>4 DEF ReplaceOldest
  <1>8. new = [j \in 0..n - 1 |-> new[j]]
    BY DEF ReplaceOldest
  <1>9. \A j \in 0..n - 1 : turned[j] = IF j = v THEN 0 ELSE age[j] + 1
    OBVIOUS
  <1> HIDE DEF new, turned
  <1>10. ASSUME NEW j \in 0..n - 1
         PROVE  /\ new[j] \in Block /\ new[j].access_ts = turned[j]
                /\ j # v => new[j].valid = set[j].valid /\ new[j].tag = set[j].tag
                /\ j = v => new[j].valid /\ new[j].tag = tag
    <2>1. turned[j] \in 0..Word - 1
      BY <1>1, <1>6
    <2>2. CASE j = v
      BY <1>3, <1>7, <1>9, <2>1, <2>2, ZenonT(60) DEF Filled, Block
    <2>3. CASE j # v
      <3>1. new[j] = [set[j] EXCEPT !.access_ts = set[j].access_ts + 1]
        BY <1>7, <2>3
      <3>2. new[j] = [set[j] EXCEPT !.access_ts = turned[j]]
        BY <1>3, <1>9, <2>3, <3>1
      <3>3. set[j] \in Block
        BY <1>3
      <3> QED
        BY <2>1, <2>3, <3>2, <3>3 DEF Block
    <2> QED
      BY <2>2, <2>3
  <1>11. AgesOf(new, n) = turned
    BY <1>10 DEF AgesOf, turned
  <1>12. ASSUME NEW j \in 0..n - 1, j # v
         PROVE  set[j].access_ts < set[v].access_ts /\ turned[j] = set[j].access_ts + 1
    <2>1. age[j] \in 0..n - 1 /\ age[j] # age[v]
      BY <1>12 DEF IsPermutation
    <2>2. set[j].access_ts < set[v].access_ts
      BY <1>2, <1>3, <2>1
    <2> QED
      BY <1>3, <1>9, <1>12, <2>2
  <1>13. turned[v] = 0
    BY <1>9
  <1>14. Used(set, new, n, v, tag)
    BY <1>10, <1>12, <1>13 DEF Used
  <1>15. new \in [0..n - 1 -> Block]
    BY <1>8, <1>10
  <1> QED
    BY <1>2, <1>5, <1>11, <1>14, <1>15 DEF new

\* A block that matches a tag is one of the set, and so is the chosen one.
LEMMA MatchingMin ==
  ASSUME NEW n \in Nat \ {0}, NEW set \in [0..n - 1 -> Block], NEW tag,
         Matching(set, tag) # {}
  PROVE  /\ Min(Matching(set, tag)) \in Matching(set, tag)
         /\ Min(Matching(set, tag)) \in 0..n - 1
  <1>1. Matching(set, tag) \in SUBSET (0..n - 1)
    BY DEF Matching
  <1>2. Matching(set, tag) \in SUBSET Nat
    BY <1>1
  <1>3. Min(Matching(set, tag)) \in Matching(set, tag)
    BY <1>2, MinNat
  <1> QED
    BY <1>1, <1>3

\* A store hit changes the dirty bit at most.
LEMMA MarkedKeeps ==
  ASSUME NEW n \in Nat \ {0}, NEW set \in [0..n - 1 -> Block], NEW i \in 0..n - 1
  PROVE  /\ Marked(set, i) \in [0..n - 1 -> Block]
         /\ AgesOf(Marked(set, i), n) = AgesOf(set, n)
         /\ \A j \in 0..n - 1 :
              /\ Marked(set, i)[j].valid = set[j].valid
              /\ Marked(set, i)[j].tag = set[j].tag
              /\ Marked(set, i)[j].load_ts = set[j].load_ts
              /\ Marked(set, i)[j].access_ts = set[j].access_ts
  <1>1. Marked(set, i) \in [0..n - 1 -> Block]
    BY DEF Marked, Block
  <1>2. \A j \in 0..n - 1 :
          /\ Marked(set, i)[j].valid = set[j].valid
          /\ Marked(set, i)[j].tag = set[j].tag
          /\ Marked(set, i)[j].load_ts = set[j].load_ts
          /\ Marked(set, i)[j].access_ts = set[j].access_ts
    BY DEF Marked, Block
  <1> QED
    BY <1>1, <1>2 DEF AgesOf

\* FIFO: the block that came first is one of the set.
LEMMA FirstInSet ==
  ASSUME NEW n \in Nat \ {0}, NEW set \in [0..n - 1 -> Block]
  PROVE  /\ FirstIn(set) \in 0..n - 1
         /\ \A j \in 0..n - 1 : set[FirstIn(set)].load_ts <= set[j].load_ts
  <1> DEFINE T == {set[j].load_ts : j \in DOMAIN set}
             F == {i \in DOMAIN set : \A j \in DOMAIN set : set[i].load_ts <= set[j].load_ts}
  <1>0. 0 \in DOMAIN set
    OBVIOUS
  <1>1. T \in SUBSET Nat
    BY ArgumentsAssumption DEF Block
  <1>2. T # {}
    BY <1>0
  <1>3. PICK t \in T : \A u \in T : t <= u
    BY <1>1, <1>2, LeastNat
  <1>4. F # {}
    <2>1. PICK i \in DOMAIN set : set[i].load_ts = t
      OBVIOUS
    <2>2. i \in F
      BY <1>3, <2>1
    <2> QED
      BY <2>2
  <1>5. F \in SUBSET Nat
    OBVIOUS
  <1>6. Min(F) \in F
    BY <1>4, <1>5, MinNat
  <1> QED
    BY <1>6 DEF FirstIn

\* FIFO: the refilled block gets a load time that fits an unsigned int.
LEMMA ReplaceFirstKeepsType ==
  ASSUME NEW n \in Nat \ {0}, NEW set \in [0..n - 1 -> Block],
         NEW tag \in 0..Word - 1, NEW dirty \in BOOLEAN
  PROVE  ReplaceFirstIn(set, tag, dirty) \in [0..n - 1 -> Block]
  <1> DEFINE T == {set[j].load_ts : j \in DOMAIN set}
             ts == (Max(T) + 1) % Word
             i == FirstIn(set)
  <1>0. Word \in Nat \ {0}
    BY ArgumentsAssumption
  <1>a. T \in SUBSET (0..Word - 1)
    BY DEF Block
  <1>b. T # {}
    <2>1. 0 \in DOMAIN set
      OBVIOUS
    <2> QED
      BY <2>1
  <1>1. Word - 1 \in Nat
    BY <1>0
  <1> HIDE DEF T
  <1>2. Max(T) \in T
    BY <1>a, <1>b, <1>1, MaxNat
  <1>d. Max(T) \in 0..Word - 1
    BY <1>2, <1>a
  <1>c. Max(T) + 1 \in Nat
    BY <1>d
  <1>3. ts \in 0..Word - 1
    BY <1>0, <1>c, RemainderBound
  <1>4. i \in 0..n - 1
    BY FirstInSet
  <1> HIDE DEF ts, i
  <1>5. [[set[i] EXCEPT !.tag = tag, !.valid = TRUE, !.dirty = dirty]
            EXCEPT !.load_ts = ts] \in Block
    BY <1>3, <1>4 DEF Block
  <1> QED
    BY <1>4, <1>5 DEF ReplaceFirstIn, Filled, ts, i, T

\* FIFO: refilling a block with a tag no block holds keeps one copy of each.
LEMMA ReplaceFirstKeepsTags ==
  ASSUME NEW n \in Nat \ {0}, NEW set \in [0..n - 1 -> Block],
         NEW tag \in 0..Word - 1, NEW dirty \in BOOLEAN,
         OneCopy(set, n), Matching(set, tag) = {}
  PROVE  OneCopy(ReplaceFirstIn(set, tag, dirty), n)
  <1> DEFINE new == ReplaceFirstIn(set, tag, dirty)
  <1>1. PICK v \in 0..n - 1 : v = FirstIn(set)
    BY FirstInSet
  <1>2. PICK ts : ts = (Max({set[j].load_ts : j \in DOMAIN set}) + 1) % Word
    OBVIOUS
  <1>3. new = [set EXCEPT ![v] = [Filled(set[v], tag, dirty) EXCEPT !.load_ts = ts]]
    BY <1>1, <1>2 DEF ReplaceFirstIn
  <1>4. \A j \in 0..n - 1 : set[j] \in Block
    OBVIOUS
  <1>5. \A j \in 0..n - 1 : ~(set[j].valid /\ set[j].tag = tag)
    BY DEF Matching
  <1> HIDE DEF new
  <1>6. new[v].tag = tag
    BY <1>3, <1>4 DEF Filled, Block
  <1>7. \A j \in 0..n - 1 : j # v => new[j] = set[j]
    BY <1>3
  <1>8. OneCopy(new, n)
    BY <1>5, <1>6, <1>7 DEF OneCopy
  <1> QED
    BY <1>8 DEF new

-----------------------------------------------------------------------------
(* The counters                                                            *)

\* What a block, and writing blocks of a set back, costs is a natural number.
LEMMA PenaltyIsNat ==
  ASSUME args \in Arguments, is_valid_argument(args)
  PROVE  Penalty \in Nat
  <1>1. args.bytes \in Nat
    BY ValidArguments
  <1>2. args.bytes \div 4 \in Nat
    BY <1>1
  <1>3. StoreCost \in Nat
    BY ArgumentsAssumption
  <1>4. \A x, y \in Nat : x * y \in Nat
    OBVIOUS
  <1> QED
    BY <1>2, <1>3, <1>4 DEF Penalty

\* The cycles of writing blocks back are a natural number.
LEMMA WriteBackIsNat ==
  ASSUME args \in Arguments, is_valid_argument(args),
         NEW n \in Nat, NEW set, NEW I \in SUBSET (0..n - 1)
  PROVE  WriteBack(set, I) \in Nat /\ Cardinality(I) \in Nat
  <1> DEFINE D == {i \in I : set[i].dirty}
  <1>1. IsFiniteSet(0..n - 1)
    BY FS_Interval
  <1>2. IsFiniteSet(I) /\ IsFiniteSet(D)
    BY <1>1, FS_Subset
  <1>3. Cardinality(I) \in Nat /\ Cardinality(D) \in Nat
    BY <1>2, FS_CardinalityType
  <1>4. \A x, y \in Nat : x * y \in Nat
    OBVIOUS
  <1> QED
    BY <1>3, <1>4, PenaltyIsNat DEF WriteBack

\* What an access adds to the counters.
LEMMA CountKeepsType ==
  ASSUME stats \in [Counter -> Nat], NEW access \in {"loads", "stores"},
         NEW outcome \in {"load_hits", "load_misses", "store_hits", "store_misses"},
         NEW cycles \in Nat, Count(access, outcome, cycles)
  PROVE  /\ stats' \in [Counter -> Nat]
         /\ stats' = [stats EXCEPT ![access] = stats[access] + 1,
                                   ![outcome] = stats[outcome] + 1,
                                   !.total_cycles = stats.total_cycles + 1 + cycles]
  <1>1. /\ access \in Counter /\ outcome \in Counter /\ "total_cycles" \in Counter
        /\ access # outcome /\ access # "total_cycles" /\ outcome # "total_cycles"
    BY DEF Counter
  <1>2. /\ stats[access] + 1 \in Nat /\ stats[outcome] + 1 \in Nat
        /\ stats.total_cycles + 1 + cycles \in Nat
    BY <1>1
  <1>3. stats' = [stats EXCEPT ![access] = stats[access] + 1,
                               ![outcome] = stats[outcome] + 1,
                               !.total_cycles = stats.total_cycles + 1 + cycles]
    BY <1>1 DEF Count
  <1> QED
    BY <1>1, <1>2, <1>3

-----------------------------------------------------------------------------
(* One access                                                              *)

\* What holds of one set of a cache.
SetOK(set) ==
  /\ set \in [0..args.blocks - 1 -> Block]
  /\ OneCopy(set, args.blocks)
  /\ args.evic_policy = "lru" =>
       /\ IsPermutation(AgesOf(set, args.blocks), args.blocks)
       /\ InvalidLast(set, args.blocks)

\* An access that counts with natural numbers and changes at most one set.
AccessOK(s) ==
  /\ stats' \in [Counter -> Nat]
  /\ \/ sets' = sets
     \/ \E new : SetOK(new) /\ sets' = [sets EXCEPT ![s] = new]

\* How an LRU cache answers an access: it uses the block that holds the tag and
\* counts a hit, or, if the access allocates, the oldest block and counts a miss.
LruEffect(s, tag, allocates) ==
  \/ /\ \E i \in 0..args.blocks - 1 : \E new :
          /\ Holds(sets[s][i], tag)
          /\ Used(sets[s], new, args.blocks, i, tag)
          /\ SetOK(new)
          /\ sets' = [sets EXCEPT ![s] = new]
     /\ stats'.load_hits + stats'.store_hits = stats.load_hits + stats.store_hits + 1
  \/ /\ \A i \in 0..args.blocks - 1 : ~Holds(sets[s][i], tag)
     /\ allocates =>
          \E i \in 0..args.blocks - 1 : \E new :
            /\ sets[s][i].access_ts = args.blocks - 1
            /\ Used(sets[s], new, args.blocks, i, tag)
            /\ SetOK(new)
            /\ sets' = [sets EXCEPT ![s] = new]
     /\ ~allocates => sets' = sets
     /\ stats'.load_hits + stats'.store_hits = stats.load_hits + stats.store_hits

\* What the invariant says of a set.
LEMMA SetsAreOK ==
  ASSUME IInv, is_valid_argument(args), NEW s \in 0..args.num_sets - 1
  PROVE  SetOK(sets[s])
  BY DEF IInv, TypeOK, AgesInv, TagsInv, SetOK

\* LRU: the used block is one that holds the tag, or the oldest when none does.
LEMMA UsedIsOK ==
  ASSUME NEW n \in Nat \ {0}, args.blocks = n, args.evic_policy = "lru",
         NEW set, SetOK(set), NEW new \in [0..n - 1 -> Block],
         IsPermutation(AgesOf(new, n), n),
         NEW i \in 0..n - 1, NEW tag, HitOrOldest(set, n, i, tag),
         Used(set, new, n, i, tag)
  PROVE  SetOK(new)
  <1> DEFINE age == AgesOf(set, n)
  <1>1. \A j \in 0..n - 1 : set[j].access_ts = age[j]
    BY DEF AgesOf
  <1>2. \A j \in 0..n - 1 : age[j] \in 0..n - 1
    BY DEF SetOK, IsPermutation
  <1>3. \A j, k \in 0..n - 1 : age[j] = age[k] => j = k
    BY DEF SetOK, IsPermutation
  <1> HIDE DEF age
  <1>4. \A j \in 0..n - 1 : set[j].access_ts \in 0..n - 1
    BY <1>1, <1>2
  <1>5. \A j, k \in 0..n - 1 : set[j].access_ts = set[k].access_ts => j = k
    BY <1>1, <1>3
  <1>6. OneCopy(set, n) /\ InvalidLast(set, n)
    BY DEF SetOK
  <1>7. OneCopy(new, n) /\ InvalidLast(new, n)
    BY <1>4, <1>5, <1>6, UsedKeepsTags
  <1> QED
    BY <1>7 DEF SetOK

\* LRU: the set after a hit on the block that holds the tag.
LEMMA TouchIsOK ==
  ASSUME NEW n \in Nat \ {0}, n < Word, args.blocks = n, args.evic_policy = "lru",
         NEW set, SetOK(set), NEW tag, Matching(set, tag) # {}
  PROVE  LET i == Min(Matching(set, tag)) IN
           /\ i \in 0..n - 1
           /\ Holds(set[i], tag)
           /\ Used(set, Touch(set, i), n, i, tag)
           /\ SetOK(Touch(set, i))
  <1>1. set \in [0..n - 1 -> Block] /\ IsPermutation(AgesOf(set, n), n)
    BY DEF SetOK
  <1>2. PICK i \in 0..n - 1 : i = Min(Matching(set, tag)) /\ i \in Matching(set, tag)
    BY <1>1, MatchingMin
  <1>3. Holds(set[i], tag)
    BY <1>2 DEF Matching, Holds
  <1>4. /\ Touch(set, i) \in [0..n - 1 -> Block]
        /\ IsPermutation(AgesOf(Touch(set, i), n), n)
        /\ set[i].valid => Used(set, Touch(set, i), n, i, set[i].tag)
    BY <1>1, TouchKeepsAges
  <1>5. Used(set, Touch(set, i), n, i, tag)
    BY <1>3, <1>4 DEF Holds
  <1>6. HitOrOldest(set, n, i, tag)
    BY <1>3 DEF HitOrOldest
  <1>7. SetOK(Touch(set, i))
    BY <1>4, <1>5, <1>6, UsedIsOK
  <1> QED
    BY <1>2, <1>3, <1>5, <1>7

\* LRU: the set after a miss that allocates.
LEMMA ReplaceIsOK ==
  ASSUME NEW n \in Nat \ {0}, n < Word, args.blocks = n, args.evic_policy = "lru",
         NEW set, SetOK(set), NEW tag \in 0..Word - 1, NEW dirty \in BOOLEAN,
         Matching(set, tag) = {}
  PROVE  /\ Oldest(set) \in SUBSET (0..n - 1)
         /\ \E i \in 0..n - 1 :
              /\ set[i].access_ts = n - 1
              /\ Used(set, ReplaceOldest(set, tag, dirty), n, i, tag)
         /\ SetOK(ReplaceOldest(set, tag, dirty))
  <1>1. set \in [0..n - 1 -> Block] /\ IsPermutation(AgesOf(set, n), n)
    BY DEF SetOK
  <1>2. /\ ReplaceOldest(set, tag, dirty) \in [0..n - 1 -> Block]
        /\ IsPermutation(AgesOf(ReplaceOldest(set, tag, dirty), n), n)
    BY <1>1, ReplaceKeepsAges
  <1>3. PICK i \in 0..n - 1 :
          /\ Oldest(set) = {i}
          /\ set[i].access_ts = n - 1
          /\ Used(set, ReplaceOldest(set, tag, dirty), n, i, tag)
    BY <1>1, ReplaceKeepsAges
  <1>4. \A j \in 0..n - 1 : ~Holds(set[j], tag)
    BY <1>1 DEF Matching, Holds
  <1>5. HitOrOldest(set, n, i, tag)
    BY <1>3, <1>4 DEF HitOrOldest
  <1>6. SetOK(ReplaceOldest(set, tag, dirty))
    BY <1>2, <1>3, <1>5, UsedIsOK
  <1> QED
    BY <1>3, <1>6

\* Marking a block dirty changes nothing the invariant speaks of.
LEMMA MarkedIsOK ==
  ASSUME NEW n \in Nat \ {0}, args.blocks = n, NEW set, SetOK(set), NEW i \in 0..n - 1
  PROVE  /\ SetOK(Marked(set, i))
         /\ \A old, tag : Used(old, set, n, i, tag) => Used(old, Marked(set, i), n, i, tag)
  <1>1. set \in [0..n - 1 -> Block] /\ OneCopy(set, n)
    BY DEF SetOK
  <1>2. /\ Marked(set, i) \in [0..n - 1 -> Block]
        /\ AgesOf(Marked(set, i), n) = AgesOf(set, n)
        /\ \A j \in 0..n - 1 :
             /\ Marked(set, i)[j].valid = set[j].valid
             /\ Marked(set, i)[j].tag = set[j].tag
             /\ Marked(set, i)[j].access_ts = set[j].access_ts
    BY <1>1, MarkedKeeps
  <1>3. OneCopy(Marked(set, i), n)
    BY <1>1, <1>2 DEF OneCopy
  <1>4. InvalidLast(set, n) => InvalidLast(Marked(set, i), n)
    BY <1>2 DEF InvalidLast
  <1>5. \A old, tag : Used(old, set, n, i, tag) => Used(old, Marked(set, i), n, i, tag)
    BY <1>2 DEF Used
  <1> QED
    BY <1>2, <1>3, <1>4, <1>5 DEF SetOK

\* What a counted access does to the hits.
LEMMA CountHits ==
  ASSUME stats \in [Counter -> Nat], NEW access \in {"loads", "stores"},
         NEW outcome \in {"load_hits", "load_misses", "store_hits", "store_misses"},
         NEW cycles, Count(access, outcome, cycles)
  PROVE  stats'.load_hits + stats'.store_hits =
           stats.load_hits + stats.store_hits
             + (IF outcome \in {"load_hits", "store_hits"} THEN 1 ELSE 0)
  <1>a. /\ access \in Counter /\ outcome \in Counter /\ "total_cycles" \in Counter
        /\ access # outcome /\ access # "total_cycles" /\ outcome # "total_cycles"
    BY DEF Counter
  <1>1. stats' = [stats EXCEPT ![access] = stats[access] + 1,
                               ![outcome] = stats[outcome] + 1,
                               !.total_cycles = stats.total_cycles + 1 + cycles]
    BY <1>a DEF Count
  <1>2. "load_hits" \in Counter /\ "store_hits" \in Counter /\ outcome \in Counter
    BY DEF Counter
  <1>3. \A c \in {"load_hits", "store_hits"} :
          stats'[c] = IF c = outcome THEN stats[c] + 1 ELSE stats[c]
    BY <1>1, <1>2
  <1>4. stats.load_hits \in Nat /\ stats.store_hits \in Nat
    BY <1>2
  <1>5. /\ stats'.load_hits = IF "load_hits" = outcome THEN stats.load_hits + 1 ELSE stats.load_hits
        /\ stats'.store_hits = IF "store_hits" = outcome THEN stats.store_hits + 1 ELSE stats.store_hits
    BY <1>3
  <1> QED
    BY <1>4, <1>5

\* A load of an LRU cache.
LEMMA LoadingLru ==
  ASSUME IInv, is_valid_argument(args), args.evic_policy = "lru",
         NEW s \in 0..args.num_sets - 1, NEW tag \in 0..Word - 1,
         loading_lru(s, tag)
  PROVE  LruEffect(s, tag, TRUE) /\ stats' \in [Counter -> Nat]
  <1> DEFINE set == sets[s]
             found == Matching(set, tag)
  <1>1. PICK n \in Nat \ {0} : n = args.blocks /\ n < Word
    BY ValidArguments DEF IInv, TypeOK
  <1>2. SetOK(set)
    BY SetsAreOK
  <1>3. stats \in [Counter -> Nat] /\ args \in Arguments
    BY DEF IInv, TypeOK
  <1>4. CASE /\ found # {}
             /\ sets' = [sets EXCEPT ![s] = Touch(set, Min(found))]
             /\ Count("loads", "load_hits", 0)
    <2>1. PICK i \in 0..n - 1 : i = Min(found) /\ Holds(set[i], tag)
                                /\ Used(set, Touch(set, i), n, i, tag)
                                /\ SetOK(Touch(set, i))
      BY <1>1, <1>2, <1>4, TouchIsOK
    <2>2. stats' \in [Counter -> Nat]
      BY <1>3, <1>4, CountKeepsType
    <2>3. stats'.load_hits + stats'.store_hits = stats.load_hits + stats.store_hits + 1
      BY <1>3, <1>4, CountHits
    <2> QED
      BY <1>1, <1>4, <2>1, <2>2, <2>3 DEF LruEffect
  <1>5. CASE /\ found = {}
             /\ sets' = [sets EXCEPT ![s] = ReplaceOldest(set, tag, FALSE)]
             /\ Count("loads", "load_misses",
                      Penalty * Cardinality(Oldest(set)) + WriteBack(set, Oldest(set)))
    <2>1. PICK i \in 0..n - 1 : /\ set[i].access_ts = n - 1
                                /\ Used(set, ReplaceOldest(set, tag, FALSE), n, i, tag)
      BY <1>1, <1>2, <1>5, ReplaceIsOK
    <2>2. Oldest(set) \in SUBSET (0..n - 1) /\ SetOK(ReplaceOldest(set, tag, FALSE))
      BY <1>1, <1>2, <1>5, ReplaceIsOK
    <2>3. /\ Penalty \in Nat /\ Cardinality(Oldest(set)) \in Nat
          /\ WriteBack(set, Oldest(set)) \in Nat
      BY <1>3, <2>2, PenaltyIsNat, WriteBackIsNat
    <2>4. \A x, y, z \in Nat : x * y + z \in Nat
      OBVIOUS
    <2>5. Penalty * Cardinality(Oldest(set)) + WriteBack(set, Oldest(set)) \in Nat
      BY <2>3, <2>4
    <2>6. stats' \in [Counter -> Nat]
      BY <1>3, <1>5, <2>5, CountKeepsType
    <2>7. stats'.load_hits + stats'.store_hits = stats.load_hits + stats.store_hits + 0
      BY <1>3, <1>5, <2>5, CountHits
    <2>8. stats.load_hits \in Nat /\ stats.store_hits \in Nat
      BY <1>3 DEF Counter
    <2>9. \A j \in 0..n - 1 : ~Holds(set[j], tag)
      BY <1>1, <1>2, <1>5 DEF Matching, Holds, SetOK
    <2>10. stats'.load_hits + stats'.store_hits = stats.load_hits + stats.store_hits
      BY <2>7, <2>8
    <2>11. PICK new : new = ReplaceOldest(set, tag, FALSE)
      OBVIOUS
    <2>12. SetOK(new) /\ sets' = [sets EXCEPT ![s] = new] /\ Used(set, new, n, i, tag)
      BY <1>5, <2>1, <2>2, <2>11
    <2> QED
      BY <1>1, <2>1, <2>6, <2>9, <2>10, <2>12 DEF LruEffect
  <1> QED
    BY <1>4, <1>5 DEF loading_lru

\* A store of an LRU cache.
LEMMA StoringLru ==
  ASSUME IInv, is_valid_argument(args), args.evic_policy = "lru",
         NEW s \in 0..args.num_sets - 1, NEW tag \in 0..Word - 1,
         storing_lru(s, tag)
  PROVE  LruEffect(s, tag, args.write_alloc) /\ stats' \in [Counter -> Nat]
  <1> DEFINE set == sets[s]
             found == Matching(set, tag)
  <1>1. PICK n \in Nat \ {0} : n = args.blocks /\ n < Word
    BY ValidArguments DEF IInv, TypeOK
  <1>2. SetOK(set)
    BY SetsAreOK
  <1>3. stats \in [Counter -> Nat] /\ args \in Arguments
    BY DEF IInv, TypeOK
  <1>a. args.write_back \in BOOLEAN /\ Through \in Nat /\ StoreCost \in Nat
    BY <1>3, ArgumentsAssumption, ValidArguments DEF Through
  <1>b. stats.load_hits \in Nat /\ stats.store_hits \in Nat
    BY <1>3 DEF Counter
  <1>c. found = {} => \A i \in 0..n - 1 : ~Holds(set[i], tag)
    BY <1>1, <1>2 DEF Matching, Holds, SetOK
  <1>4. CASE /\ found # {}
             /\ sets' = [sets EXCEPT ![s] = Marked(Touch(set, Min(found)), Min(found))]
             /\ Count("stores", "store_hits", Through)
    <2>1. PICK i \in 0..n - 1 : i = Min(found) /\ Holds(set[i], tag)
                                /\ Used(set, Touch(set, i), n, i, tag)
                                /\ SetOK(Touch(set, i))
      BY <1>1, <1>2, <1>4, TouchIsOK
    <2>2. PICK new : new = Marked(Touch(set, i), i)
      OBVIOUS
    <2>3. SetOK(new) /\ Used(set, new, n, i, tag)
      BY <1>1, <2>1, <2>2, MarkedIsOK
    <2>4. stats' \in [Counter -> Nat]
      BY <1>3, <1>a, <1>4, CountKeepsType
    <2>5. stats'.load_hits + stats'.store_hits = stats.load_hits + stats.store_hits + 1
      BY <1>3, <1>a, <1>4, CountHits
    <2>6. sets' = [sets EXCEPT ![s] = new]
      BY <1>4, <2>1, <2>2
    <2> QED
      BY <1>1, <2>1, <2>3, <2>4, <2>5, <2>6 DEF LruEffect
  <1>5. CASE /\ found = {}
             /\ args.write_alloc
             /\ sets' = [sets EXCEPT ![s] = ReplaceOldest(set, tag, args.write_back)]
             /\ Count("stores", "store_misses",
                      Penalty + WriteBack(set, Oldest(set))
                              + Through * Cardinality(Oldest(set)))
    <2>0. PICK new : new = ReplaceOldest(set, tag, args.write_back)
      OBVIOUS
    <2>1. PICK i \in 0..n - 1 : set[i].access_ts = n - 1 /\ Used(set, new, n, i, tag)
      BY <1>1, <1>2, <1>a, <1>5, <2>0, ReplaceIsOK
    <2>2. Oldest(set) \in SUBSET (0..n - 1) /\ SetOK(new)
      BY <1>1, <1>2, <1>a, <1>5, <2>0, ReplaceIsOK
    <2>3. /\ Penalty \in Nat /\ Cardinality(Oldest(set)) \in Nat
          /\ WriteBack(set, Oldest(set)) \in Nat
      BY <1>3, <2>2, PenaltyIsNat, WriteBackIsNat
    <2>4. \A x, y, z, w \in Nat : x + y + z * w \in Nat
      OBVIOUS
    <2>5. Penalty + WriteBack(set, Oldest(set)) + Through * Cardinality(Oldest(set)) \in Nat
      BY <1>a, <2>3, <2>4
    <2>6. stats' \in [Counter -> Nat]
      BY <1>3, <1>5, <2>5, CountKeepsType
    <2>7. stats'.load_hits + stats'.store_hits = stats.load_hits + stats.store_hits + 0
      BY <1>3, <1>5, <2>5, CountHits
    <2>8. sets' = [sets EXCEPT ![s] = new]
      BY <1>5, <2>0
    <2>9. stats'.load_hits + stats'.store_hits = stats.load_hits + stats.store_hits
      BY <1>b, <2>7
    <2> QED
      BY <1>1, <1>c, <1>5, <2>1, <2>2, <2>6, <2>8, <2>9 DEF LruEffect
  <1>6. CASE /\ found = {}
             /\ ~args.write_alloc
             /\ Count("stores", "store_misses", StoreCost)
             /\ UNCHANGED sets
    <2>1. stats' \in [Counter -> Nat]
      BY <1>3, <1>a, <1>6, CountKeepsType
    <2>2. stats'.load_hits + stats'.store_hits = stats.load_hits + stats.store_hits + 0
      BY <1>3, <1>a, <1>6, CountHits
    <2> QED
      BY <1>1, <1>b, <1>c, <1>6, <2>1, <2>2 DEF LruEffect
  <1> QED
    BY <1>4, <1>5, <1>6 DEF storing_lru

\* LRU: an access keeps the invariant of the set it changes.
LEMMA LruEffectIsOK ==
  ASSUME NEW s, NEW tag, NEW allocates \in BOOLEAN,
         LruEffect(s, tag, allocates), stats' \in [Counter -> Nat]
  PROVE  AccessOK(s)
  BY DEF LruEffect, AccessOK

\* LRU: what an access does to its set: it uses the block that holds the tag, or,
\* if it allocates, the oldest one.
Answers(old, new, n, tag, allocates) ==
  \/ \E i \in 0..n - 1 : Holds(old[i], tag) /\ Used(old, new, n, i, tag)
  \/ /\ \A i \in 0..n - 1 : ~Holds(old[i], tag)
     /\ allocates =>
          \E i \in 0..n - 1 : old[i].access_ts = n - 1 /\ Used(old, new, n, i, tag)
     /\ ~allocates => new = old

\* The effect, with the block it answers from or refills.
LEMMA LruEffectAnswers ==
  ASSUME IInv, is_valid_argument(args), NEW s \in 0..args.num_sets - 1,
         NEW tag, NEW allocates \in BOOLEAN, LruEffect(s, tag, allocates)
  PROVE  /\ Answers(sets[s], sets'[s], args.blocks, tag, allocates)
         /\ \A r \in 0..args.num_sets - 1 : r # s => sets'[r] = sets[r]
         /\ stats'.load_hits + stats'.store_hits =
              stats.load_hits + stats.store_hits
                + (IF \E i \in 0..args.blocks - 1 : Holds(sets[s][i], tag) THEN 1 ELSE 0)
  <1>1. DOMAIN sets = 0..args.num_sets - 1
    BY DEF IInv, TypeOK
  <1>2. \A new : sets' = [sets EXCEPT ![s] = new] =>
          /\ sets'[s] = new
          /\ \A r \in 0..args.num_sets - 1 : r # s => sets'[r] = sets[r]
    BY <1>1
  <1>3. stats.load_hits \in Nat /\ stats.store_hits \in Nat
    BY DEF IInv, TypeOK, Counter
  <1>4. CASE /\ \E i \in 0..args.blocks - 1 : \E new :
                  /\ Holds(sets[s][i], tag)
                  /\ Used(sets[s], new, args.blocks, i, tag)
                  /\ SetOK(new)
                  /\ sets' = [sets EXCEPT ![s] = new]
             /\ stats'.load_hits + stats'.store_hits =
                  stats.load_hits + stats.store_hits + 1
    <2>a. PICK i \in 0..args.blocks - 1 : \E new :
                  /\ Holds(sets[s][i], tag)
                  /\ Used(sets[s], new, args.blocks, i, tag)
                  /\ sets' = [sets EXCEPT ![s] = new]
      BY <1>4
    <2>1. PICK new :
                  /\ Holds(sets[s][i], tag)
                  /\ Used(sets[s], new, args.blocks, i, tag)
                  /\ sets' = [sets EXCEPT ![s] = new]
      BY <2>a
    <2>2. /\ sets'[s] = new
          /\ \A r \in 0..args.num_sets - 1 : r # s => sets'[r] = sets[r]
      BY <1>2, <2>1
    <2> QED
      BY <1>4, <2>1, <2>2 DEF Answers
  <1>5. CASE /\ \A i \in 0..args.blocks - 1 : ~Holds(sets[s][i], tag)
             /\ stats'.load_hits + stats'.store_hits =
                  stats.load_hits + stats.store_hits
             /\ allocates
             /\ \E i \in 0..args.blocks - 1 : \E new :
                  /\ sets[s][i].access_ts = args.blocks - 1
                  /\ Used(sets[s], new, args.blocks, i, tag)
                  /\ SetOK(new)
                  /\ sets' = [sets EXCEPT ![s] = new]
    <2>a. PICK i \in 0..args.blocks - 1 : \E new :
                  /\ sets[s][i].access_ts = args.blocks - 1
                  /\ Used(sets[s], new, args.blocks, i, tag)
                  /\ sets' = [sets EXCEPT ![s] = new]
      BY <1>5
    <2>1. PICK new :
                  /\ sets[s][i].access_ts = args.blocks - 1
                  /\ Used(sets[s], new, args.blocks, i, tag)
                  /\ sets' = [sets EXCEPT ![s] = new]
      BY <2>a
    <2>2. /\ sets'[s] = new
          /\ \A r \in 0..args.num_sets - 1 : r # s => sets'[r] = sets[r]
      BY <1>2, <2>1
    <2> QED
      BY <1>3, <1>5, <2>1, <2>2 DEF Answers
  <1>6. CASE /\ \A i \in 0..args.blocks - 1 : ~Holds(sets[s][i], tag)
             /\ stats'.load_hits + stats'.store_hits =
                  stats.load_hits + stats.store_hits
             /\ ~allocates
             /\ sets' = sets
    BY <1>3, <1>6 DEF Answers
  <1> QED
    BY <1>4, <1>5, <1>6 DEF LruEffect

\* The ages of a set are ages of n different blocks.
DistinctAges(set, n) ==
  /\ \A i \in 0..n - 1 : set[i].access_ts \in 0..n - 1
  /\ \A i, j \in 0..n - 1 : set[i].access_ts = set[j].access_ts => i = j

\* What holds of an LRU set of n blocks on its own.
Orderly(set, n) ==
  /\ DistinctAges(set, n)
  /\ OneCopy(set, n)
  /\ InvalidLast(set, n)

\* The invariant makes every set of an LRU cache orderly.
LEMMA SetsAreOrderly ==
  ASSUME IInv, is_valid_argument(args), args.evic_policy = "lru",
         NEW s \in 0..args.num_sets - 1
  PROVE  Orderly(sets[s], args.blocks)
  <1> DEFINE age == AgesOf(sets[s], args.blocks)
  <1>1. SetOK(sets[s])
    BY SetsAreOK
  <1>2. IsPermutation(age, args.blocks)
    BY <1>1 DEF SetOK
  <1>3. \A i \in 0..args.blocks - 1 : sets[s][i].access_ts = age[i]
    BY DEF AgesOf
  <1>4. \A i \in 0..args.blocks - 1 : age[i] \in 0..args.blocks - 1
    BY <1>2 DEF IsPermutation
  <1>5. \A i, j \in 0..args.blocks - 1 : age[i] = age[j] => i = j
    BY <1>2 DEF IsPermutation
  <1> HIDE DEF age
  <1>6. DistinctAges(sets[s], args.blocks)
    BY <1>3, <1>4, <1>5 DEF DistinctAges
  <1> QED
    BY <1>1, <1>6 DEF SetOK, Orderly

\* A load of a FIFO cache.
LEMMA LoadingFifo ==
  ASSUME IInv, is_valid_argument(args), args.evic_policy # "lru",
         NEW s \in 0..args.num_sets - 1, NEW tag \in 0..Word - 1,
         loading_fifo(s, tag)
  PROVE  AccessOK(s)
  <1> DEFINE set == sets[s]
  <1>1. PICK n \in Nat \ {0} : n = args.blocks
    BY ValidArguments DEF IInv, TypeOK
  <1>2. set \in [0..n - 1 -> Block] /\ OneCopy(set, n)
    BY <1>1 DEF IInv, TypeOK, TagsInv
  <1>3. stats \in [Counter -> Nat] /\ args \in Arguments
    BY DEF IInv, TypeOK
  <1>4. CASE Count("loads", "load_hits", 0) /\ UNCHANGED sets
    BY <1>3, <1>4, CountKeepsType DEF AccessOK
  <1>5. CASE /\ Matching(set, tag) = {}
             /\ sets' = [sets EXCEPT ![s] = ReplaceFirstIn(set, tag, FALSE)]
             /\ Count("loads", "load_misses", Penalty + WriteBack(set, {FirstIn(set)}))
    <2>1. SetOK(ReplaceFirstIn(set, tag, FALSE))
      BY <1>1, <1>2, <1>5, ReplaceFirstKeepsType, ReplaceFirstKeepsTags DEF SetOK
    <2>2. {FirstIn(set)} \in SUBSET (0..n - 1)
      BY <1>2, FirstInSet
    <2>3. Penalty \in Nat /\ WriteBack(set, {FirstIn(set)}) \in Nat
      BY <1>3, <2>2, PenaltyIsNat, WriteBackIsNat
    <2>4. Penalty + WriteBack(set, {FirstIn(set)}) \in Nat
      BY <2>3
    <2>5. stats' \in [Counter -> Nat]
      BY <1>3, <1>5, <2>4, CountKeepsType
    <2> QED
      BY <1>5, <2>1, <2>5 DEF AccessOK
  <1> QED
    BY <1>4, <1>5 DEF loading_fifo

\* A store of a FIFO cache.
LEMMA StoringFifo ==
  ASSUME IInv, is_valid_argument(args), args.evic_policy # "lru",
         NEW s \in 0..args.num_sets - 1, NEW tag \in 0..Word - 1,
         storing_fifo(s, tag)
  PROVE  AccessOK(s)
  <1> DEFINE set == sets[s]
             found == Matching(set, tag)
  <1>1. PICK n \in Nat \ {0} : n = args.blocks
    BY ValidArguments DEF IInv, TypeOK
  <1>2. set \in [0..n - 1 -> Block] /\ OneCopy(set, n)
    BY <1>1 DEF IInv, TypeOK, TagsInv
  <1>3. stats \in [Counter -> Nat] /\ args \in Arguments
    BY DEF IInv, TypeOK
  <1>a. args.write_back \in BOOLEAN /\ Through \in Nat /\ StoreCost \in Nat
    BY <1>3, ArgumentsAssumption, ValidArguments DEF Through
  <1>4. CASE /\ found # {}
             /\ sets' = [sets EXCEPT ![s] = Marked(set, Min(found))]
             /\ Count("stores", "store_hits", Through)
    <2>1. Min(found) \in 0..n - 1
      BY <1>2, <1>4, MatchingMin
    <2>2. SetOK(Marked(set, Min(found)))
      BY <1>1, <1>2, <2>1, MarkedIsOK DEF SetOK
    <2>3. stats' \in [Counter -> Nat]
      BY <1>3, <1>a, <1>4, CountKeepsType
    <2> QED
      BY <1>4, <2>2, <2>3 DEF AccessOK
  <1>5. CASE /\ found = {}
             /\ sets' = [sets EXCEPT ![s] = ReplaceFirstIn(set, tag, args.write_back)]
             /\ Count("stores", "store_misses",
                      Penalty + WriteBack(set, {FirstIn(set)}) + Through)
    <2>1. SetOK(ReplaceFirstIn(set, tag, args.write_back))
      BY <1>1, <1>2, <1>a, <1>5, ReplaceFirstKeepsType, ReplaceFirstKeepsTags DEF SetOK
    <2>2. {FirstIn(set)} \in SUBSET (0..n - 1)
      BY <1>2, FirstInSet
    <2>3. Penalty \in Nat /\ WriteBack(set, {FirstIn(set)}) \in Nat
      BY <1>3, <2>2, PenaltyIsNat, WriteBackIsNat
    <2>4. Penalty + WriteBack(set, {FirstIn(set)}) + Through \in Nat
      BY <1>a, <2>3
    <2>5. stats' \in [Counter -> Nat]
      BY <1>3, <1>5, <2>4, CountKeepsType
    <2> QED
      BY <1>5, <2>1, <2>5 DEF AccessOK
  <1>6. CASE Count("stores", "store_misses", StoreCost) /\ UNCHANGED sets
    BY <1>3, <1>a, <1>6, CountKeepsType DEF AccessOK
  <1> QED
    BY <1>4, <1>5, <1>6 DEF storing_fifo, storing_miss_fifo

\* Either access, whatever the policy, keeps the inductive invariant.
LEMMA AccessKeepsInvariant ==
  ASSUME IInv, is_valid_argument(args), UNCHANGED <<args, status>>,
         NEW s \in 0..args.num_sets - 1, AccessOK(s)
  PROVE  IInv'
  <1>1. TypeOK'
    <2>1. sets' \in [0..args.num_sets - 1 -> [0..args.blocks - 1 -> Block]]
      BY DEF IInv, TypeOK, AccessOK, SetOK
    <2> QED
      BY <2>1 DEF IInv, TypeOK, AccessOK
  <1>2. StatusInv'
    BY DEF IInv, StatusInv
  <1>3. ASSUME NEW r \in 0..args.num_sets - 1 PROVE SetOK(sets'[r])
    <2>1. SetOK(sets[r])
      BY SetsAreOK
    <2>2. DOMAIN sets = 0..args.num_sets - 1
      BY DEF IInv, TypeOK
    <2>3. CASE sets' = sets
      BY <2>1, <2>3
    <2>4. ASSUME NEW new, SetOK(new), sets' = [sets EXCEPT ![s] = new]
          PROVE  SetOK(sets'[r])
      BY <2>1, <2>2, <2>4
    <2> QED
      BY <2>3, <2>4 DEF AccessOK
  <1>4. AgesInv' /\ TagsInv'
    BY <1>3 DEF AgesInv, TagsInv, SetOK
  <1> QED
    BY <1>1, <1>2, <1>4 DEF IInv

-----------------------------------------------------------------------------
(* One block per set                                                       *)

\* A block with this tag in it.
HasTag(b, tag, dirty) == b.valid /\ b.tag = tag /\ b.dirty = dirty

\* What one access does to a set of one block, whatever the policy.
OneBlockAccess(s, tag, isStore) ==
  LET b    == sets[s][0]
      mark == IF isStore THEN args.write_back ELSE FALSE
      thru == IF isStore THEN Through ELSE 0
      access == IF isStore THEN "stores" ELSE "loads"
  IN  /\ \A r \in 0..args.num_sets - 1 : r # s => sets'[r] = sets[r]
      /\ Holds(b, tag) =>
           /\ HasTag(sets'[s][0], tag, IF mark THEN TRUE ELSE b.dirty)
           /\ Count(access, IF isStore THEN "store_hits" ELSE "load_hits", thru)
      /\ ~Holds(b, tag) /\ (isStore => args.write_alloc) =>
           /\ HasTag(sets'[s][0], tag, mark)
           /\ Count(access, IF isStore THEN "store_misses" ELSE "load_misses",
                    Penalty + (IF b.dirty THEN Penalty ELSE 0) + thru)
      /\ ~Holds(b, tag) /\ ~(isStore => args.write_alloc) =>
           /\ sets'[s] = sets[s]
           /\ Count(access, "store_misses", StoreCost)

\* In a set of one block every choice is block 0, and writing it back costs a
\* block when it is dirty.
LEMMA OneBlockSet ==
  ASSUME args \in Arguments, is_valid_argument(args), args.blocks = 1,
         NEW set, SetOK(set), NEW tag \in 0..Word - 1
  PROVE  /\ set[0] \in Block /\ DOMAIN set = {0}
         /\ Matching(set, tag) = IF Holds(set[0], tag) THEN {0} ELSE {}
         /\ Min({0}) = 0
         /\ FirstIn(set) = 0
         /\ args.evic_policy = "lru" => Oldest(set) = {0}
         /\ Cardinality({0}) = 1
         /\ WriteBack(set, {0}) = IF set[0].dirty THEN Penalty ELSE 0
  <1>1. set \in [0..0 -> Block]
    BY DEF SetOK
  <1>2. set[0] \in Block /\ DOMAIN set = {0}
    BY <1>1
  <1>3. Matching(set, tag) = IF Holds(set[0], tag) THEN {0} ELSE {}
    BY <1>2 DEF Matching, Holds
  <1>4. Min({0}) = 0
    BY MinNat
  <1>5. FirstIn(set) = 0
    <2>1. PICK n \in Nat \ {0} : n = 1
      OBVIOUS
    <2>a. set \in [0..n - 1 -> Block]
      BY <1>1, <2>1
    <2>2. FirstIn(set) \in 0..n - 1
      BY <2>a, FirstInSet
    <2> QED
      BY <2>1, <2>2
  <1>6. ASSUME args.evic_policy = "lru" PROVE Oldest(set) = {0}
    <2>1. IsPermutation(AgesOf(set, 1), 1)
      BY <1>6 DEF SetOK
    <2>2. AgesOf(set, 1)[0] \in 0..0 /\ AgesOf(set, 1)[0] = set[0].access_ts
      BY <2>1 DEF IsPermutation, AgesOf
    <2> QED
      BY <1>2, <2>2 DEF Oldest
  <1>7. Cardinality({0}) = 1
    BY FS_Singleton
  <1>8. WriteBack(set, {0}) = IF set[0].dirty THEN Penalty ELSE 0
    <2>1. Penalty \in Nat
      BY PenaltyIsNat
    <2>2. CASE set[0].dirty
      <3>1. {i \in {0} : set[i].dirty} = {0}
        BY <2>2
      <3>2. WriteBack(set, {0}) = Penalty * 1
        BY <1>7, <3>1 DEF WriteBack
      <3> QED
        BY <2>1, <2>2, <3>2
    <2>3. CASE ~set[0].dirty
      <3>1. {i \in {0} : set[i].dirty} = {}
        BY <2>3
      <3>2. WriteBack(set, {0}) = Penalty * 0
        BY <3>1, FS_EmptySet DEF WriteBack
      <3> QED
        BY <2>1, <2>3, <3>2
    <2> QED
      BY <2>2, <2>3
  <1> QED
    BY <1>2, <1>3, <1>4, <1>5, <1>6, <1>7, <1>8

\* What the operators that change a set do to its one block.
LEMMA OneBlockUpdates ==
  ASSUME args \in Arguments, is_valid_argument(args), args.blocks = 1,
         NEW set, SetOK(set), NEW tag \in 0..Word - 1, NEW dirty \in BOOLEAN
  PROVE  /\ Touch(set, 0)[0] = [set[0] EXCEPT !.access_ts = 0]
         /\ DOMAIN Touch(set, 0) = {0}
         /\ args.evic_policy = "lru" => HasTag(ReplaceOldest(set, tag, dirty)[0], tag, dirty)
         /\ HasTag(ReplaceFirstIn(set, tag, dirty)[0], tag, dirty)
  <1>1. /\ set[0] \in Block /\ DOMAIN set = {0} /\ FirstIn(set) = 0
        /\ args.evic_policy = "lru" => Oldest(set) = {0}
    BY OneBlockSet
  <1>2. Touch(set, 0)[0] = [set[0] EXCEPT !.access_ts = 0] /\ DOMAIN Touch(set, 0) = {0}
    BY <1>1 DEF Touch
  <1>3. ASSUME args.evic_policy = "lru"
        PROVE  HasTag(ReplaceOldest(set, tag, dirty)[0], tag, dirty)
    <2>1. ReplaceOldest(set, tag, dirty)[0] =
            [Filled(set[0], tag, dirty) EXCEPT !.access_ts = 0]
      BY <1>1, <1>3 DEF ReplaceOldest
    <2> QED
      BY <1>1, <2>1 DEF Filled, Block, HasTag
  <1>4. HasTag(ReplaceFirstIn(set, tag, dirty)[0], tag, dirty)
    <2>1. PICK ts : ts = (Max({set[j].load_ts : j \in DOMAIN set}) + 1) % Word
      OBVIOUS
    <2>2. ReplaceFirstIn(set, tag, dirty)[0] =
            [Filled(set[0], tag, dirty) EXCEPT !.load_ts = ts]
      BY <1>1, <2>1 DEF ReplaceFirstIn
    <2> QED
      BY <1>1, <2>2 DEF Filled, Block, HasTag
  <1> QED
    BY <1>2, <1>3, <1>4

\* Loads of a cache of one block per set, by either policy.
LEMMA OneBlockLoads ==
  ASSUME IInv, is_valid_argument(args), args.blocks = 1,
         NEW s \in 0..args.num_sets - 1, NEW tag \in 0..Word - 1,
         \/ args.evic_policy = "lru" /\ loading_lru(s, tag)
         \/ args.evic_policy = "fifo" /\ loading_fifo(s, tag)
  PROVE  OneBlockAccess(s, tag, FALSE)
  <1> DEFINE set == sets[s]
             found == Matching(set, tag)
  <1>1. SetOK(set) /\ args \in Arguments /\ Penalty \in Nat
    BY SetsAreOK, PenaltyIsNat DEF IInv, TypeOK
  <1>2. /\ set[0] \in Block
        /\ found = IF Holds(set[0], tag) THEN {0} ELSE {}
        /\ Min({0}) = 0 /\ FirstIn(set) = 0 /\ Cardinality({0}) = 1
        /\ args.evic_policy = "lru" => Oldest(set) = {0}
        /\ WriteBack(set, {0}) = IF set[0].dirty THEN Penalty ELSE 0
    BY <1>1, OneBlockSet
  <1>3. Touch(set, 0)[0] = [set[0] EXCEPT !.access_ts = 0]
    BY <1>1, OneBlockUpdates
  <1>4. /\ args.evic_policy = "lru" => HasTag(ReplaceOldest(set, tag, FALSE)[0], tag, FALSE)
        /\ HasTag(ReplaceFirstIn(set, tag, FALSE)[0], tag, FALSE)
    <2> DEFINE Tagged(dirty) ==
                 /\ args.evic_policy = "lru" =>
                      HasTag(ReplaceOldest(set, tag, dirty)[0], tag, dirty)
                 /\ HasTag(ReplaceFirstIn(set, tag, dirty)[0], tag, dirty)
    <2>1. ASSUME NEW dirty \in BOOLEAN PROVE Tagged(dirty)
      <3> SetOK(set)
        BY <1>1
      <3> HIDE DEF set
      <3> QED
        BY <1>1, OneBlockUpdates
    <2>2. Tagged(FALSE)
      <3> HIDE DEF Tagged
      <3> QED
        BY <2>1
    <2> QED
      BY <2>2
  <1>5. \A new : sets' = [sets EXCEPT ![s] = new] =>
          /\ sets'[s] = new
          /\ \A r \in 0..args.num_sets - 1 : r # s => sets'[r] = sets[r]
    BY DEF IInv, TypeOK
  <1>6. CASE args.evic_policy = "lru" /\ Holds(set[0], tag)
    <2>1. sets' = [sets EXCEPT ![s] = Touch(set, 0)] /\ Count("loads", "load_hits", 0)
      BY <1>2, <1>6 DEF loading_lru
    <2>2. sets'[s][0] = [set[0] EXCEPT !.access_ts = 0]
      BY <1>3, <1>5, <2>1
    <2> QED
      BY <1>2, <1>5, <1>6, <2>1, <2>2 DEF OneBlockAccess, Holds, HasTag, Block
  <1>7. CASE args.evic_policy = "fifo" /\ Holds(set[0], tag)
    <2>1. sets' = sets /\ Count("loads", "load_hits", 0)
      BY <1>2, <1>7 DEF loading_fifo
    <2> QED
      BY <1>2, <1>7, <2>1 DEF OneBlockAccess, Holds, HasTag, Block
  <1>8. CASE args.evic_policy = "lru" /\ ~Holds(set[0], tag)
    <2>1. /\ sets' = [sets EXCEPT ![s] = ReplaceOldest(set, tag, FALSE)]
          /\ Count("loads", "load_misses", Penalty * 1 + WriteBack(set, {0}))
      BY <1>2, <1>8 DEF loading_lru
    <2>2. Penalty * 1 + WriteBack(set, {0}) = Penalty + (IF set[0].dirty THEN Penalty ELSE 0) + 0
      BY <1>1, <1>2
    <2>3. /\ sets'[s] = ReplaceOldest(set, tag, FALSE)
          /\ \A r \in 0..args.num_sets - 1 : r # s => sets'[r] = sets[r]
      BY <1>5, <2>1
    <2>4. Count("loads", "load_misses", Penalty + (IF set[0].dirty THEN Penalty ELSE 0) + 0)
      BY <2>1, <2>2
    <2> QED
      BY <1>4, <1>8, <2>3, <2>4 DEF OneBlockAccess
  <1>9. CASE args.evic_policy = "fifo" /\ ~Holds(set[0], tag)
    <2>1. /\ sets' = [sets EXCEPT ![s] = ReplaceFirstIn(set, tag, FALSE)]
          /\ Count("loads", "load_misses", Penalty + WriteBack(set, {0}))
      BY <1>2, <1>9 DEF loading_fifo
    <2>2. Penalty + WriteBack(set, {0}) = Penalty + (IF set[0].dirty THEN Penalty ELSE 0) + 0
      BY <1>1, <1>2
    <2>3. /\ sets'[s] = ReplaceFirstIn(set, tag, FALSE)
          /\ \A r \in 0..args.num_sets - 1 : r # s => sets'[r] = sets[r]
      BY <1>5, <2>1
    <2>4. Count("loads", "load_misses", Penalty + (IF set[0].dirty THEN Penalty ELSE 0) + 0)
      BY <2>1, <2>2
    <2> QED
      BY <1>4, <1>9, <2>3, <2>4 DEF OneBlockAccess
  <1> QED
    BY <1>6, <1>7, <1>8, <1>9

\* Stores of a cache of one block per set, by either policy.
LEMMA OneBlockStores ==
  ASSUME IInv, is_valid_argument(args), args.blocks = 1,
         NEW s \in 0..args.num_sets - 1, NEW tag \in 0..Word - 1,
         \/ args.evic_policy = "lru" /\ storing_lru(s, tag)
         \/ args.evic_policy # "lru" /\ storing_fifo(s, tag)
  PROVE  OneBlockAccess(s, tag, TRUE)
  <1> DEFINE set == sets[s]
             found == Matching(set, tag)
             mark == args.write_back
  <1>1. SetOK(set) /\ args \in Arguments /\ Penalty \in Nat
    BY SetsAreOK, PenaltyIsNat DEF IInv, TypeOK
  <1>a. args.write_back \in BOOLEAN /\ args.write_alloc \in BOOLEAN /\ Through \in Nat
    BY <1>1, ArgumentsAssumption, ValidArguments DEF Through
  <1>2. /\ set[0] \in Block /\ DOMAIN set = {0}
        /\ found = IF Holds(set[0], tag) THEN {0} ELSE {}
        /\ Min({0}) = 0 /\ FirstIn(set) = 0 /\ Cardinality({0}) = 1
        /\ args.evic_policy = "lru" => Oldest(set) = {0}
        /\ WriteBack(set, {0}) = IF set[0].dirty THEN Penalty ELSE 0
    BY <1>1, OneBlockSet
  <1>3. Touch(set, 0)[0] = [set[0] EXCEPT !.access_ts = 0] /\ DOMAIN Touch(set, 0) = {0}
    BY <1>1, OneBlockUpdates
  <1>4. /\ args.evic_policy = "lru" => HasTag(ReplaceOldest(set, tag, mark)[0], tag, mark)
        /\ HasTag(ReplaceFirstIn(set, tag, mark)[0], tag, mark)
    <2> DEFINE Tagged(dirty) ==
                 /\ args.evic_policy = "lru" =>
                      HasTag(ReplaceOldest(set, tag, dirty)[0], tag, dirty)
                 /\ HasTag(ReplaceFirstIn(set, tag, dirty)[0], tag, dirty)
    <2>1. ASSUME NEW dirty \in BOOLEAN PROVE Tagged(dirty)
      <3> SetOK(set)
        BY <1>1
      <3> HIDE DEF set
      <3> QED
        BY <1>1, OneBlockUpdates
    <2>2. Tagged(mark)
      <3> HIDE DEF Tagged
      <3> QED
        BY <1>a, <2>1
    <2> QED
      BY <2>2
  <1>5. \A new : sets' = [sets EXCEPT ![s] = new] =>
          /\ sets'[s] = new
          /\ \A r \in 0..args.num_sets - 1 : r # s => sets'[r] = sets[r]
    BY DEF IInv, TypeOK
  <1>6. CASE args.evic_policy = "lru" /\ Holds(set[0], tag)
    <2>1. /\ sets' = [sets EXCEPT ![s] = Marked(Touch(set, 0), 0)]
          /\ Count("stores", "store_hits", Through)
      BY <1>2, <1>6 DEF storing_lru
    <2>2. HasTag(Marked(Touch(set, 0), 0)[0], tag, IF mark THEN TRUE ELSE set[0].dirty)
      BY <1>2, <1>3, <1>6, <1>a DEF Marked, Holds, HasTag, Block
    <2>3. HasTag(sets'[s][0], tag, IF mark THEN TRUE ELSE set[0].dirty)
      BY <1>5, <2>1, <2>2
    <2> QED
      BY <1>5, <1>6, <2>1, <2>3 DEF OneBlockAccess
  <1>7. CASE args.evic_policy # "lru" /\ Holds(set[0], tag)
    <2>1. /\ sets' = [sets EXCEPT ![s] = Marked(set, 0)]
          /\ Count("stores", "store_hits", Through)
      BY <1>2, <1>7 DEF storing_fifo
    <2>2. HasTag(Marked(set, 0)[0], tag, IF mark THEN TRUE ELSE set[0].dirty)
      BY <1>2, <1>7, <1>a DEF Marked, Holds, HasTag, Block
    <2>3. HasTag(sets'[s][0], tag, IF mark THEN TRUE ELSE set[0].dirty)
      BY <1>5, <2>1, <2>2
    <2> QED
      BY <1>5, <1>7, <2>1, <2>3 DEF OneBlockAccess
  <1>8. CASE args.evic_policy = "lru" /\ ~Holds(set[0], tag) /\ args.write_alloc
    <2>1. /\ sets' = [sets EXCEPT ![s] = ReplaceOldest(set, tag, mark)]
          /\ Count("stores", "store_misses", Penalty + WriteBack(set, {0}) + Through * 1)
      BY <1>2, <1>8 DEF storing_lru
    <2>2. Penalty + WriteBack(set, {0}) + Through * 1 =
            Penalty + (IF set[0].dirty THEN Penalty ELSE 0) + Through
      BY <1>1, <1>2, <1>a
    <2>3. /\ sets'[s] = ReplaceOldest(set, tag, mark)
          /\ \A r \in 0..args.num_sets - 1 : r # s => sets'[r] = sets[r]
      BY <1>5, <2>1
    <2>4. Count("stores", "store_misses",
                Penalty + (IF set[0].dirty THEN Penalty ELSE 0) + Through)
      BY <2>1, <2>2
    <2> QED
      BY <1>4, <1>8, <2>3, <2>4 DEF OneBlockAccess
  <1>9. CASE args.evic_policy # "lru" /\ ~Holds(set[0], tag) /\ args.write_alloc
    <2>1. /\ sets' = [sets EXCEPT ![s] = ReplaceFirstIn(set, tag, mark)]
          /\ Count("stores", "store_misses", Penalty + WriteBack(set, {0}) + Through)
      BY <1>2, <1>9 DEF storing_fifo, storing_miss_fifo
    <2>2. Penalty + WriteBack(set, {0}) + Through =
            Penalty + (IF set[0].dirty THEN Penalty ELSE 0) + Through
      BY <1>1, <1>2, <1>a
    <2>3. /\ sets'[s] = ReplaceFirstIn(set, tag, mark)
          /\ \A r \in 0..args.num_sets - 1 : r # s => sets'[r] = sets[r]
      BY <1>5, <2>1
    <2>4. Count("stores", "store_misses",
                Penalty + (IF set[0].dirty THEN Penalty ELSE 0) + Through)
      BY <2>1, <2>2
    <2> QED
      BY <1>4, <1>9, <2>3, <2>4 DEF OneBlockAccess
  <1>10. CASE ~Holds(set[0], tag) /\ ~args.write_alloc
    <2>1. sets' = sets /\ Count("stores", "store_misses", StoreCost)
      BY <1>2, <1>10 DEF storing_lru, storing_fifo, storing_miss_fifo
    <2> QED
      BY <1>10, <2>1 DEF OneBlockAccess
  <1> QED
    BY <1>a, <1>6, <1>7, <1>8, <1>9, <1>10

-----------------------------------------------------------------------------
(* What an access does to the blocks, but for their dirty bits             *)

\* The shape of a block, its times unbounded.
Shape == [valid : BOOLEAN, dirty : BOOLEAN, tag : Int, load_ts : Int, access_ts : Int]

\* Two blocks, and two sets of n blocks, that differ in the dirty bits at most.
ButDirty(b, c) == /\ b.valid = c.valid /\ b.tag = c.tag
                  /\ b.load_ts = c.load_ts /\ b.access_ts = c.access_ts

SameButDirty(A, B, n) ==
  /\ A \in [0..n - 1 -> Shape] /\ B \in [0..n - 1 -> Shape]
  /\ \A i \in 0..n - 1 : ButDirty(A[i], B[i])

\* The searches of Cache do not look at the dirty bits.
LEMMA SearchesAgree ==
  ASSUME NEW n, NEW A, NEW B, SameButDirty(A, B, n)
  PROVE  /\ \A tag : Matching(A, tag) = Matching(B, tag)
         /\ Oldest(A) = Oldest(B)
         /\ FirstIn(A) = FirstIn(B)
  <1>1. DOMAIN A = 0..n - 1 /\ DOMAIN B = 0..n - 1
    BY DEF SameButDirty
  <1>2. \A i \in 0..n - 1 : /\ A[i].valid = B[i].valid /\ A[i].tag = B[i].tag
                            /\ A[i].load_ts = B[i].load_ts
                            /\ A[i].access_ts = B[i].access_ts
    BY DEF SameButDirty, ButDirty
  <1>3. \A tag : Matching(A, tag) = Matching(B, tag)
    BY <1>1, <1>2 DEF Matching
  <1>4. Oldest(A) = Oldest(B)
    BY <1>1, <1>2 DEF Oldest
  <1>5. {i \in DOMAIN A : \A j \in DOMAIN A : A[i].load_ts <= A[j].load_ts} =
          {i \in DOMAIN B : \A j \in DOMAIN B : B[i].load_ts <= B[j].load_ts}
    BY <1>1, <1>2
  <1>6. FirstIn(A) = FirstIn(B)
    BY <1>5 DEF FirstIn
  <1> QED
    BY <1>3, <1>4, <1>6

\* Nor do the operators that change a set, whatever they do to the dirty bits.
LEMMA TouchAgrees ==
  ASSUME NEW n, NEW A, NEW B, SameButDirty(A, B, n), NEW i \in 0..n - 1
  PROVE  SameButDirty(Touch(A, i), Touch(B, i), n)
  <1>1. /\ A \in [0..n - 1 -> Shape] /\ B \in [0..n - 1 -> Shape]
        /\ \A j \in 0..n - 1 : ButDirty(A[j], B[j])
    BY DEF SameButDirty
  <1>2. \A j \in 0..n - 1 : /\ A[j] \in Shape /\ B[j] \in Shape
                            /\ A[j].access_ts \in Int
                            /\ B[j].access_ts = A[j].access_ts
    BY <1>1 DEF Shape, ButDirty
  <1>3. ASSUME NEW j \in 0..n - 1
        PROVE  \E a \in Int : /\ Touch(A, i)[j] = [A[j] EXCEPT !.access_ts = a]
                              /\ Touch(B, i)[j] = [B[j] EXCEPT !.access_ts = a]
    <2>1. /\ Touch(A, i)[j] = IF j = i THEN [A[j] EXCEPT !.access_ts = 0]
                              ELSE IF A[j].access_ts < A[i].access_ts
                                   THEN [A[j] EXCEPT !.access_ts = A[j].access_ts + 1]
                                   ELSE A[j]
          /\ Touch(B, i)[j] = IF j = i THEN [B[j] EXCEPT !.access_ts = 0]
                              ELSE IF B[j].access_ts < B[i].access_ts
                                   THEN [B[j] EXCEPT !.access_ts = B[j].access_ts + 1]
                                   ELSE B[j]
      BY <1>1 DEF Touch
    <2>2. A[j] = [A[j] EXCEPT !.access_ts = A[j].access_ts]
      BY <1>2 DEF Shape
    <2>3. B[j] = [B[j] EXCEPT !.access_ts = B[j].access_ts]
      BY <1>2 DEF Shape
    <2>4. CASE j = i
      BY <2>1, <2>4
    <2>5. CASE j # i /\ A[j].access_ts < A[i].access_ts
      <3>1. /\ Touch(A, i)[j] = [A[j] EXCEPT !.access_ts = A[j].access_ts + 1]
            /\ Touch(B, i)[j] = [B[j] EXCEPT !.access_ts = A[j].access_ts + 1]
        BY <1>2, <2>1, <2>5
      <3>2. A[j].access_ts + 1 \in Int
        BY <1>2
      <3> QED
        BY <3>1, <3>2
    <2>6. CASE j # i /\ ~(A[j].access_ts < A[i].access_ts)
      <3>1. /\ Touch(A, i)[j] = [A[j] EXCEPT !.access_ts = A[j].access_ts]
            /\ Touch(B, i)[j] = [B[j] EXCEPT !.access_ts = A[j].access_ts]
        BY <1>2, <2>1, <2>2, <2>3, <2>6
      <3> QED
        BY <1>2, <3>1
    <2> QED
      BY <2>4, <2>5, <2>6
  <1>4. ASSUME NEW j \in 0..n - 1
        PROVE  /\ Touch(A, i)[j] \in Shape /\ Touch(B, i)[j] \in Shape
               /\ ButDirty(Touch(A, i)[j], Touch(B, i)[j])
    <2>1. PICK a \in Int : /\ Touch(A, i)[j] = [A[j] EXCEPT !.access_ts = a]
                           /\ Touch(B, i)[j] = [B[j] EXCEPT !.access_ts = a]
      BY <1>3
    <2>2. A[j] \in Shape /\ B[j] \in Shape /\ ButDirty(A[j], B[j])
      BY <1>1
    <2> QED
      BY <2>1, <2>2 DEF Shape, ButDirty
  <1>5. /\ Touch(A, i) = [j \in 0..n - 1 |-> Touch(A, i)[j]]
        /\ Touch(B, i) = [j \in 0..n - 1 |-> Touch(B, i)[j]]
    BY <1>1 DEF Touch
  <1>6. Touch(A, i) \in [0..n - 1 -> Shape] /\ Touch(B, i) \in [0..n - 1 -> Shape]
    BY <1>4, <1>5
  <1> QED
    BY <1>4, <1>6 DEF SameButDirty

\* LRU misses refill the same block of both sets.
LEMMA ReplaceOldestAgrees ==
  ASSUME NEW n, NEW A, NEW B, SameButDirty(A, B, n), NEW tag \in Int,
         NEW d \in BOOLEAN, NEW e \in BOOLEAN
  PROVE  SameButDirty(ReplaceOldest(A, tag, d), ReplaceOldest(B, tag, e), n)
  <1> DEFINE C == ReplaceOldest(A, tag, d)
             D == ReplaceOldest(B, tag, e)
  <1>1. /\ A \in [0..n - 1 -> Shape] /\ B \in [0..n - 1 -> Shape]
        /\ \A j \in 0..n - 1 : ButDirty(A[j], B[j])
    BY DEF SameButDirty
  <1>2. Oldest(A) = Oldest(B)
    BY SearchesAgree
  <1>3. ASSUME NEW j \in 0..n - 1
        PROVE  C[j] \in Shape /\ D[j] \in Shape /\ ButDirty(C[j], D[j])
    <2>1. A[j] \in Shape /\ B[j] \in Shape /\ ButDirty(A[j], B[j])
      BY <1>1
    <2>2. CASE j \in Oldest(A)
      <3>1. C[j] = [Filled(A[j], tag, d) EXCEPT !.access_ts = 0]
        BY <1>1, <2>2 DEF ReplaceOldest
      <3>2. D[j] = [Filled(B[j], tag, e) EXCEPT !.access_ts = 0]
        BY <1>1, <1>2, <2>2 DEF ReplaceOldest
      <3> HIDE DEF C, D
      <3>3. C[j] = [valid |-> TRUE, dirty |-> d, tag |-> tag,
                    load_ts |-> A[j].load_ts, access_ts |-> 0]
        BY <2>1, <3>1 DEF Filled, Shape
      <3>4. D[j] = [valid |-> TRUE, dirty |-> e, tag |-> tag,
                    load_ts |-> B[j].load_ts, access_ts |-> 0]
        BY <2>1, <3>2 DEF Filled, Shape
      <3>5. A[j].load_ts \in Int /\ B[j].load_ts \in Int
        BY <2>1 DEF Shape
      <3>6. C[j] \in Shape /\ D[j] \in Shape
        BY <3>3, <3>4, <3>5 DEF Shape
      <3> QED
        BY <2>1, <3>3, <3>4, <3>6 DEF ButDirty
    <2>3. CASE j \notin Oldest(A)
      <3>1. C[j] = [A[j] EXCEPT !.access_ts = A[j].access_ts + 1]
        BY <1>1, <2>3 DEF ReplaceOldest
      <3>2. D[j] = [B[j] EXCEPT !.access_ts = B[j].access_ts + 1]
        BY <1>1, <1>2, <2>3 DEF ReplaceOldest
      <3> HIDE DEF C, D
      <3> QED
        BY <2>1, <3>1, <3>2 DEF Shape, ButDirty
    <2> QED
      BY <2>2, <2>3
  <1>4. C = [j \in 0..n - 1 |-> C[j]] /\ D = [j \in 0..n - 1 |-> D[j]]
    BY <1>1 DEF ReplaceOldest
  <1> HIDE DEF C, D
  <1>5. C \in [0..n - 1 -> Shape] /\ D \in [0..n - 1 -> Shape]
    BY <1>3, <1>4
  <1>6. SameButDirty(C, D, n)
    BY <1>3, <1>5 DEF SameButDirty
  <1> QED
    BY <1>6 DEF C, D

\* FIFO misses do, with the same load time.
LEMMA ReplaceFirstAgrees ==
  ASSUME NEW n \in Nat \ {0}, NEW A \in [0..n - 1 -> Block], NEW B \in [0..n - 1 -> Block],
         SameButDirty(A, B, n), NEW tag \in 0..Word - 1,
         NEW d \in BOOLEAN, NEW e \in BOOLEAN
  PROVE  SameButDirty(ReplaceFirstIn(A, tag, d), ReplaceFirstIn(B, tag, e), n)
  <1>0. \A b \in Block : b \in Shape
    BY ArgumentsAssumption DEF Block, Shape
  <1>1. \A j \in 0..n - 1 : ButDirty(A[j], B[j])
    BY DEF SameButDirty
  <1>a. FirstIn(A) = FirstIn(B)
    BY SearchesAgree
  <1>b. FirstIn(A) \in 0..n - 1
    BY FirstInSet
  <1>2. PICK v \in 0..n - 1 : v = FirstIn(A) /\ v = FirstIn(B)
    BY <1>a, <1>b
  <1>e. \A j \in 0..n - 1 : A[j].load_ts = B[j].load_ts
    BY <1>1 DEF ButDirty
  <1>c. {A[j].load_ts : j \in DOMAIN A} = {B[j].load_ts : j \in DOMAIN B}
    BY <1>e
  <1>d. PICK ts : ts = (Max({A[j].load_ts : j \in DOMAIN A}) + 1) % Word
    OBVIOUS
  <1>3. /\ ts = (Max({A[j].load_ts : j \in DOMAIN A}) + 1) % Word
        /\ ts = (Max({B[j].load_ts : j \in DOMAIN B}) + 1) % Word
    BY <1>c, <1>d
  <1>4. /\ ReplaceFirstIn(A, tag, d) \in [0..n - 1 -> Block]
        /\ ReplaceFirstIn(B, tag, e) \in [0..n - 1 -> Block]
    BY ReplaceFirstKeepsType
  <1>5. /\ ReplaceFirstIn(A, tag, d) =
             [A EXCEPT ![v] = [Filled(A[v], tag, d) EXCEPT !.load_ts = ts]]
        /\ ReplaceFirstIn(B, tag, e) =
             [B EXCEPT ![v] = [Filled(B[v], tag, e) EXCEPT !.load_ts = ts]]
    BY <1>2, <1>3 DEF ReplaceFirstIn
  <1>6. \A j \in 0..n - 1 : A[j] \in Block /\ B[j] \in Block
    OBVIOUS
  <1>7. ASSUME NEW j \in 0..n - 1
        PROVE  ButDirty(ReplaceFirstIn(A, tag, d)[j], ReplaceFirstIn(B, tag, e)[j])
    <2>1. CASE j = v
      <3>1. /\ ReplaceFirstIn(A, tag, d)[j] = [Filled(A[v], tag, d) EXCEPT !.load_ts = ts]
            /\ ReplaceFirstIn(B, tag, e)[j] = [Filled(B[v], tag, e) EXCEPT !.load_ts = ts]
        BY <1>5, <2>1
      <3> QED
        BY <1>1, <1>6, <3>1 DEF ButDirty, Filled, Block
    <2>2. CASE j # v
      <3>1. ReplaceFirstIn(A, tag, d)[j] = A[j] /\ ReplaceFirstIn(B, tag, e)[j] = B[j]
        BY <1>5, <2>2
      <3> QED
        BY <1>1, <3>1
    <2> QED
      BY <2>1, <2>2
  <1>8. /\ ReplaceFirstIn(A, tag, d) \in [0..n - 1 -> Shape]
        /\ ReplaceFirstIn(B, tag, e) \in [0..n - 1 -> Shape]
    BY <1>0, <1>4
  <1> QED
    BY <1>7, <1>8 DEF SameButDirty

\* A set is like itself, and two sets like a third one are alike.
LEMMA SameIsEquivalence ==
  ASSUME NEW n, NEW A, NEW B, NEW C, SameButDirty(A, B, n)
  PROVE  /\ SameButDirty(A, A, n)
         /\ SameButDirty(B, A, n)
         /\ SameButDirty(B, C, n) => SameButDirty(A, C, n)
  <1> QED
    BY DEF SameButDirty, ButDirty

\* A set of a valid cache is like itself, and marking a block changes nothing but
\* its dirty bit.
LEMMA MarkedIsSame ==
  ASSUME NEW n \in Nat \ {0}, NEW set \in [0..n - 1 -> Block], NEW i \in 0..n - 1
  PROVE  SameButDirty(set, set, n) /\ SameButDirty(Marked(set, i), set, n)
  <1>0. \A b \in Block : b \in Shape
    BY ArgumentsAssumption DEF Block, Shape
  <1>1. Marked(set, i) \in [0..n - 1 -> Block]
    BY MarkedKeeps
  <1>2. set \in [0..n - 1 -> Shape] /\ Marked(set, i) \in [0..n - 1 -> Shape]
    BY <1>0, <1>1
  <1>3. \A j \in 0..n - 1 : ButDirty(Marked(set, i)[j], set[j])
    BY MarkedKeeps DEF ButDirty
  <1> QED
    BY <1>2, <1>3 DEF SameButDirty, ButDirty

\* The set after an access, but for its dirty bits.
AfterMiss(set, tag) == IF args.evic_policy = "lru" THEN ReplaceOldest(set, tag, FALSE)
                       ELSE ReplaceFirstIn(set, tag, FALSE)
AfterHit(set, i) == IF args.evic_policy = "lru" THEN Touch(set, i) ELSE set

Afterwards(set, tag, allocates) ==
  IF Matching(set, tag) # {} THEN AfterHit(set, Min(Matching(set, tag)))
  ELSE IF allocates THEN AfterMiss(set, tag)
  ELSE set

\* Sets that are alike are alike after the same access.
LEMMA AfterwardsAgrees ==
  ASSUME NEW n \in Nat \ {0}, NEW A \in [0..n - 1 -> Block], NEW B \in [0..n - 1 -> Block],
         SameButDirty(A, B, n), NEW tag \in 0..Word - 1, NEW allocates
  PROVE  SameButDirty(Afterwards(A, tag, allocates), Afterwards(B, tag, allocates), n)
  <1>1. Matching(A, tag) = Matching(B, tag)
    BY SearchesAgree
  <1>2. CASE Matching(A, tag) # {}
    <2>1. PICK i \in 0..n - 1 : i = Min(Matching(A, tag))
      BY <1>2, MatchingMin
    <2>2. /\ Afterwards(A, tag, allocates) = AfterHit(A, i)
          /\ Afterwards(B, tag, allocates) = AfterHit(B, i)
      BY <1>1, <1>2, <2>1 DEF Afterwards
    <2>3. SameButDirty(AfterHit(A, i), AfterHit(B, i), n)
      BY TouchAgrees DEF AfterHit
    <2> QED
      BY <2>2, <2>3
  <1>3. CASE Matching(A, tag) = {}
    <2>1. /\ Afterwards(A, tag, allocates) = IF allocates THEN AfterMiss(A, tag) ELSE A
          /\ Afterwards(B, tag, allocates) = IF allocates THEN AfterMiss(B, tag) ELSE B
      BY <1>1, <1>3 DEF Afterwards
    <2>2. tag \in Int
      BY ArgumentsAssumption
    <2>3. SameButDirty(ReplaceOldest(A, tag, FALSE), ReplaceOldest(B, tag, FALSE), n)
      BY <2>2, ReplaceOldestAgrees
    <2>4. SameButDirty(ReplaceFirstIn(A, tag, FALSE), ReplaceFirstIn(B, tag, FALSE), n)
      BY ReplaceFirstAgrees
    <2>5. SameButDirty(AfterMiss(A, tag), AfterMiss(B, tag), n)
      BY <2>3, <2>4 DEF AfterMiss
    <2> QED
      BY <2>1, <2>5
  <1> QED
    BY <1>2, <1>3

\* The effect of an access on the blocks and on the hits, which the write policy
\* and the costs do not touch.
Moves(s, tag, allocates) ==
  /\ SameButDirty(sets'[s], Afterwards(sets[s], tag, allocates), args.blocks)
  /\ \A r \in 0..args.num_sets - 1 : r # s => sets'[r] = sets[r]
  /\ stats'.load_hits + stats'.store_hits =
       stats.load_hits + stats.store_hits
         + (IF Matching(sets[s], tag) # {} THEN 1 ELSE 0)

\* The sets a step of the cache can leave behind are moves.
LEMMA HitMoves ==
  ASSUME IInv, is_valid_argument(args),
         NEW s \in 0..args.num_sets - 1, NEW tag \in 0..Word - 1, NEW allocates,
         Matching(sets[s], tag) # {},
         NEW access \in {"loads", "stores"}, NEW outcome \in {"load_hits", "store_hits"},
         NEW cycles, Count(access, outcome, cycles),
         NEW isMarked \in BOOLEAN,
         LET i == Min(Matching(sets[s], tag)) IN
           \/ isMarked /\ sets' = [sets EXCEPT ![s] = Marked(AfterHit(sets[s], i), i)]
           \/ ~isMarked /\ sets' = [sets EXCEPT ![s] = AfterHit(sets[s], i)]
  PROVE  Moves(s, tag, allocates)
  <1>1. PICK n \in Nat \ {0} : n = args.blocks /\ n < Word
    BY ValidArguments DEF IInv, TypeOK
  <1>2. sets \in [0..args.num_sets - 1 -> [0..n - 1 -> Block]] /\ stats \in [Counter -> Nat]
    BY <1>1 DEF IInv, TypeOK
  <1>3. PICK i \in 0..n - 1 : i = Min(Matching(sets[s], tag))
    BY <1>2, MatchingMin
  <1>4. PICK new : new = AfterHit(sets[s], i)
    OBVIOUS
  <1>5. new \in [0..n - 1 -> Block]
    <2>1. CASE args.evic_policy = "lru"
      <3>1. IsPermutation(AgesOf(sets[s], n), n)
        BY <1>1, <2>1 DEF IInv, AgesInv
      <3> QED
        BY <1>1, <1>2, <1>4, <2>1, <3>1, TouchKeepsAges DEF AfterHit
    <2>2. CASE args.evic_policy # "lru"
      BY <1>2, <1>4, <2>2 DEF AfterHit
    <2> QED
      BY <2>1, <2>2
  <1>6. SameButDirty(new, new, n) /\ SameButDirty(Marked(new, i), new, n)
    BY <1>5, MarkedIsSame
  <1>7. sets' = [sets EXCEPT ![s] = Marked(new, i)] \/ sets' = [sets EXCEPT ![s] = new]
    BY <1>3, <1>4
  <1>8. SameButDirty(sets'[s], new, n) /\ \A r \in 0..args.num_sets - 1 : r # s => sets'[r] = sets[r]
    BY <1>2, <1>6, <1>7
  <1>9. Afterwards(sets[s], tag, allocates) = new
    BY <1>3, <1>4 DEF Afterwards
  <1>10. stats'.load_hits + stats'.store_hits = stats.load_hits + stats.store_hits + 1
    BY <1>2, CountHits
  <1> QED
    BY <1>1, <1>8, <1>9, <1>10 DEF Moves

\* An access that misses and allocates.
LEMMA MissMoves ==
  ASSUME IInv, is_valid_argument(args),
         NEW s \in 0..args.num_sets - 1, NEW tag \in 0..Word - 1,
         Matching(sets[s], tag) = {},
         NEW access \in {"loads", "stores"}, NEW outcome \in {"load_misses", "store_misses"},
         NEW cycles, Count(access, outcome, cycles), NEW dirty \in BOOLEAN,
         sets' = [sets EXCEPT ![s] = IF args.evic_policy = "lru"
                                     THEN ReplaceOldest(sets[s], tag, dirty)
                                     ELSE ReplaceFirstIn(sets[s], tag, dirty)]
  PROVE  Moves(s, tag, TRUE)
  <1>1. PICK n \in Nat \ {0} : n = args.blocks
    BY ValidArguments DEF IInv, TypeOK
  <1>2. sets \in [0..args.num_sets - 1 -> [0..n - 1 -> Block]] /\ stats \in [Counter -> Nat]
    BY <1>1 DEF IInv, TypeOK
  <1>3. SameButDirty(sets[s], sets[s], n)
    BY <1>2, MarkedIsSame
  <1>4. tag \in Int
    BY ArgumentsAssumption
  <1>a. SameButDirty(ReplaceOldest(sets[s], tag, dirty), ReplaceOldest(sets[s], tag, FALSE), n)
    BY <1>3, <1>4, ReplaceOldestAgrees
  <1>b. SameButDirty(ReplaceFirstIn(sets[s], tag, dirty), ReplaceFirstIn(sets[s], tag, FALSE), n)
    BY <1>2, <1>3, ReplaceFirstAgrees
  <1>5. PICK new : new = IF args.evic_policy = "lru"
                         THEN ReplaceOldest(sets[s], tag, dirty)
                         ELSE ReplaceFirstIn(sets[s], tag, dirty)
    OBVIOUS
  <1>6. SameButDirty(new, AfterMiss(sets[s], tag), n)
    BY <1>a, <1>b, <1>5 DEF AfterMiss
  <1>7. sets'[s] = new /\ \A r \in 0..args.num_sets - 1 : r # s => sets'[r] = sets[r]
    BY <1>2, <1>5
  <1>8. Afterwards(sets[s], tag, TRUE) = AfterMiss(sets[s], tag)
    BY DEF Afterwards
  <1>9. stats'.load_hits + stats'.store_hits = stats.load_hits + stats.store_hits + 0
    BY <1>2, CountHits
  <1> QED
    BY <1>1, <1>6, <1>7, <1>8, <1>9 DEF Moves

\* A store that misses and does not allocate.
LEMMA PassMoves ==
  ASSUME IInv, is_valid_argument(args),
         NEW s \in 0..args.num_sets - 1, NEW tag \in 0..Word - 1,
         Matching(sets[s], tag) = {}, UNCHANGED sets,
         NEW cycles, Count("stores", "store_misses", cycles)
  PROVE  Moves(s, tag, FALSE)
  <1>1. PICK n \in Nat \ {0} : n = args.blocks
    BY ValidArguments DEF IInv, TypeOK
  <1>2. sets \in [0..args.num_sets - 1 -> [0..n - 1 -> Block]] /\ stats \in [Counter -> Nat]
    BY <1>1 DEF IInv, TypeOK
  <1>3. SameButDirty(sets[s], sets[s], n)
    BY <1>2, MarkedIsSame
  <1>4. Afterwards(sets[s], tag, FALSE) = sets[s]
    BY DEF Afterwards
  <1>5. stats'.load_hits + stats'.store_hits = stats.load_hits + stats.store_hits + 0
    BY <1>2, CountHits
  <1> QED
    BY <1>1, <1>3, <1>4, <1>5 DEF Moves

\* Every load and every store is such a move.
LEMMA LoadingMoves ==
  ASSUME IInv, is_valid_argument(args),
         NEW s \in 0..args.num_sets - 1, NEW tag \in 0..Word - 1,
         \/ args.evic_policy = "lru" /\ loading_lru(s, tag)
         \/ args.evic_policy = "fifo" /\ loading_fifo(s, tag)
  PROVE  Moves(s, tag, TRUE)
  <1> DEFINE set == sets[s]
             found == Matching(set, tag)
  <1>0. sets = [sets EXCEPT ![s] = sets[s]]
    BY DEF IInv, TypeOK
  <1>1. CASE found # {}
    <2>1. Count("loads", "load_hits", 0)
      BY <1>1 DEF loading_lru, loading_fifo
    <2>2. sets' = [sets EXCEPT ![s] = AfterHit(set, Min(found))]
      BY <1>0, <1>1 DEF loading_lru, loading_fifo, AfterHit
    <2> QED
      BY <1>1, <2>1, <2>2, HitMoves
  <1>2. CASE found = {}
    <2>1. PICK cycles : Count("loads", "load_misses", cycles)
      BY <1>2 DEF loading_lru, loading_fifo
    <2>2. sets' = [sets EXCEPT ![s] = IF args.evic_policy = "lru"
                                      THEN ReplaceOldest(set, tag, FALSE)
                                      ELSE ReplaceFirstIn(set, tag, FALSE)]
      BY <1>2 DEF loading_lru, loading_fifo
    <2> QED
      BY <1>2, <2>1, <2>2, MissMoves
  <1> QED
    BY <1>1, <1>2

\* Stores move the blocks as loads do, unless they miss and do not allocate.
LEMMA StoringMoves ==
  ASSUME IInv, is_valid_argument(args),
         NEW s \in 0..args.num_sets - 1, NEW tag \in 0..Word - 1,
         \/ args.evic_policy = "lru" /\ storing_lru(s, tag)
         \/ args.evic_policy # "lru" /\ storing_fifo(s, tag)
  PROVE  Moves(s, tag, args.write_alloc)
  <1> DEFINE set == sets[s]
             found == Matching(set, tag)
  <1>0. args.write_back \in BOOLEAN /\ args.write_alloc \in BOOLEAN
    BY ValidArguments DEF IInv, TypeOK
  <1>1. CASE found # {}
    <2>1. Count("stores", "store_hits", Through)
      BY <1>1 DEF storing_lru, storing_fifo
    <2>2. sets' = [sets EXCEPT ![s] = Marked(AfterHit(set, Min(found)), Min(found))]
      BY <1>1 DEF storing_lru, storing_fifo, AfterHit
    <2> QED
      BY <1>1, <2>1, <2>2, HitMoves
  <1>2. CASE found = {} /\ args.write_alloc
    <2>1. PICK cycles : Count("stores", "store_misses", cycles)
      BY <1>2 DEF storing_lru, storing_fifo, storing_miss_fifo
    <2>2. sets' = [sets EXCEPT ![s] = IF args.evic_policy = "lru"
                                      THEN ReplaceOldest(set, tag, args.write_back)
                                      ELSE ReplaceFirstIn(set, tag, args.write_back)]
      BY <1>2 DEF storing_lru, storing_fifo, storing_miss_fifo
    <2>3. Moves(s, tag, TRUE)
      BY <1>0, <1>2, <2>1, <2>2, MissMoves
    <2> QED
      BY <1>0, <1>2, <2>3
  <1>3. CASE found = {} /\ ~args.write_alloc
    <2>1. UNCHANGED sets /\ Count("stores", "store_misses", StoreCost)
      BY <1>3 DEF storing_lru, storing_fifo, storing_miss_fifo
    <2>2. Moves(s, tag, FALSE)
      BY <1>3, <2>1, PassMoves
    <2> QED
      BY <1>0, <1>3, <2>2
  <1> QED
    BY <1>1, <1>2, <1>3

-----------------------------------------------------------------------------
(* The invariant of the simulator                                          *)

\* A cache starts with the ages 0, 1, ... in every set.
THEOREM CacheInit == Init => IInv
  <1> SUFFICES ASSUME Init PROVE IInv
    OBVIOUS
  <1>1. args \in Arguments
    BY DEF Init
  <1>2. ASSUME is_valid_argument(args)
        PROVE  /\ sets \in [0..args.num_sets - 1 -> [0..args.blocks - 1 -> Block]]
               /\ \A s \in 0..args.num_sets - 1 :
                    /\ IsPermutation(AgesOf(sets[s], args.blocks), args.blocks)
                    /\ OneCopy(sets[s], args.blocks) /\ InvalidLast(sets[s], args.blocks)
    <2>1. PICK n \in Nat \ {0} : n = args.blocks /\ n < Word
      BY <1>1, <1>2, ValidArguments
    <2>2. Word \in Nat
      BY ArgumentsAssumption
    <2>3. \A i \in 0..n - 1 : i \in 0..Word - 1 /\ 0 \in 0..Word - 1
      BY <2>1, <2>2
    <2>4. EmptySet(n) \in [0..n - 1 -> Block]
      BY <2>3 DEF EmptySet, Block
    <2>5. AgesOf(EmptySet(n), n) = [i \in 0..n - 1 |-> i]
      BY DEF AgesOf, EmptySet
    <2>6. IsPermutation([i \in 0..n - 1 |-> i], n)
      BY DEF IsPermutation
    <2>7. sets = [s \in 0..args.num_sets - 1 |-> EmptySet(n)]
      BY <1>2, <2>1 DEF Init
    <2>8. OneCopy(EmptySet(n), n) /\ InvalidLast(EmptySet(n), n)
      BY DEF OneCopy, InvalidLast, EmptySet
    <2> QED
      BY <2>1, <2>4, <2>5, <2>6, <2>7, <2>8
  <1>3. stats \in [Counter -> Nat]
    BY DEF Init
  <1>4. StatusInv
    BY DEF Init, StatusInv
  <1>5. TypeOK
    BY <1>1, <1>2, <1>3 DEF TypeOK, Init
  <1> QED
    BY <1>2, <1>4, <1>5 DEF IInv, AgesInv, TagsInv

\* Every access keeps the types and the ages.
THEOREM CacheStep == IInv /\ [Next]_vars => IInv'
  <1> SUFFICES ASSUME IInv, [Next]_vars PROVE IInv'
    OBVIOUS
  <1>1. args \in Arguments
    BY DEF IInv, TypeOK
  <1>2. CASE Load
    <2>1. PICK addr \in Address : loading(addr % Word)
      BY <1>2 DEF Load
    <2>2. is_valid_argument(args)
      BY <1>2 DEF Load, MayRead, IInv, StatusInv
    <2>3. PICK s \in 0..args.num_sets - 1 : s = IndexOf(addr % Word)
      BY <1>1, <2>2, AddressParts
    <2>4. PICK tag \in 0..Word - 1 : tag = TagOf(addr % Word)
      BY <1>1, <2>2, AddressParts
    <2>5. \/ args.evic_policy = "lru" /\ loading_lru(s, tag)
          \/ args.evic_policy = "fifo" /\ loading_fifo(s, tag)
      BY <2>1, <2>3, <2>4 DEF loading
    <2>6. AccessOK(s)
      BY <2>2, <2>5, LoadingLru, LoadingFifo, LruEffectIsOK
    <2> QED
      BY <1>2, <2>2, <2>6, AccessKeepsInvariant DEF Load
  <1>3. CASE Store
    <2>1. PICK addr \in Address : storing(addr % Word)
      BY <1>3 DEF Store
    <2>2. is_valid_argument(args)
      BY <1>3 DEF Store, MayRead, IInv, StatusInv
    <2>3. PICK s \in 0..args.num_sets - 1 : s = IndexOf(addr % Word)
      BY <1>1, <2>2, AddressParts
    <2>4. PICK tag \in 0..Word - 1 : tag = TagOf(addr % Word)
      BY <1>1, <2>2, AddressParts
    <2>5. \/ args.evic_policy = "lru" /\ storing_lru(s, tag)
          \/ args.evic_policy # "lru" /\ storing_fifo(s, tag)
      BY <2>1, <2>3, <2>4 DEF storing
    <2>a. args.write_alloc \in BOOLEAN
      BY <1>1, <2>2, ValidArguments
    <2>6. AccessOK(s)
      BY <2>2, <2>5, <2>a, StoringLru, StoringFifo, LruEffectIsOK
    <2> QED
      BY <1>3, <2>2, <2>6, AccessKeepsInvariant DEF Store
  <1>4. CASE InvalidOperation
    BY <1>4 DEF InvalidOperation, IInv, TypeOK, StatusInv, AgesInv, TagsInv
  <1>5. CASE print_stats
    BY <1>5 DEF print_stats, IInv, TypeOK, StatusInv, AgesInv, TagsInv
  <1>6. CASE UNCHANGED vars
    BY <1>6 DEF vars, IInv, TypeOK, StatusInv, AgesInv, TagsInv
  <1> QED
    BY <1>2, <1>3, <1>4, <1>5, <1>6 DEF Next

\* The invariant holds after any trace.
THEOREM CacheInvariant == Spec => []IInv
  <1> QED
    BY CacheInit, CacheStep, PTL DEF Spec

\* Every variable of the simulator has its type.
THEOREM CacheTyped == Spec => []TypeOK
  <1>1. IInv => TypeOK
    BY DEF IInv
  <1> QED
    BY <1>1, CacheInvariant, PTL

\* The simulated cache never holds a memory block twice, whatever the policy: a
\* block is refilled only when none of its set matches the tag.
HoldsOneCopy ==
  status = "reading" => \A s \in DOMAIN sets : OneCopy(sets[s], args.blocks)

\* While the trace is read, no set ever holds two blocks of one tag.
THEOREM CacheHoldsOneCopy == Spec => []HoldsOneCopy
  <1>1. IInv => HoldsOneCopy
    BY DEF IInv, TypeOK, StatusInv, TagsInv, HoldsOneCopy
  <1> QED
    BY <1>1, CacheInvariant, PTL

\* In that invariant the ages of a set are 0, 1, ..., blocks - 1.
LEMMA InvariantGivesAges == IInv => AgesAreAPermutation
  <1> SUFFICES ASSUME IInv, args.evic_policy = "lru", NEW s \in DOMAIN sets
               PROVE  {sets[s][i].access_ts : i \in DOMAIN sets[s]} = 0..args.blocks - 1
    BY DEF AgesAreAPermutation
  <1>1. is_valid_argument(args)
    BY DEF IInv, StatusInv
  <1>2. s \in 0..args.num_sets - 1 /\ DOMAIN sets[s] = 0..args.blocks - 1
    BY <1>1 DEF IInv, TypeOK
  <1> DEFINE age == AgesOf(sets[s], args.blocks)
  <1>3. IsPermutation(age, args.blocks)
    BY <1>1, <1>2 DEF IInv, AgesInv
  <1>4. \A i \in 0..args.blocks - 1 : age[i] = sets[s][i].access_ts
    BY DEF AgesOf
  <1>5. \A i \in 0..args.blocks - 1 : age[i] \in 0..args.blocks - 1
    BY <1>3 DEF IsPermutation
  <1>6. \A a \in 0..args.blocks - 1 : \E i \in 0..args.blocks - 1 : age[i] = a
    BY <1>3 DEF IsPermutation
  <1> HIDE DEF age
  <1> QED
    BY <1>2, <1>4, <1>5, <1>6, ZenonT(30)

\* Under LRU the ages of a set's blocks are 0, 1, ..., blocks - 1 in some order
\* after any trace.
THEOREM CacheAges == Spec => []AgesAreAPermutation
  <1> QED
    BY CacheInvariant, InvariantGivesAges, PTL

\* So a miss of an LRU cache refills exactly one block, and the loops of
\* loading_lru and storing_lru pay for one.
OneVictim ==
  status = "reading" /\ args.evic_policy = "lru" =>
    \A s \in DOMAIN sets : Cardinality(Oldest(sets[s])) = 1

\* While the trace is read by an LRU cache, every set has exactly one victim.
THEOREM CacheEvictsOne == Spec => []OneVictim
  <1>1. ASSUME IInv PROVE OneVictim
    <2> SUFFICES ASSUME status = "reading", args.evic_policy = "lru",
                        NEW s \in DOMAIN sets
                 PROVE  Cardinality(Oldest(sets[s])) = 1
      BY DEF OneVictim
    <2>1. is_valid_argument(args) /\ args \in Arguments
      BY <1>1 DEF IInv, StatusInv, TypeOK
    <2>2. PICK n \in Nat \ {0} : n = args.blocks /\ n < Word
      BY <2>1, ValidArguments
    <2>3. sets[s] \in [0..n - 1 -> Block] /\ IsPermutation(AgesOf(sets[s], n), n)
      BY <1>1, <2>1, <2>2 DEF IInv, TypeOK, AgesInv
    <2>6. PICK v \in 0..n - 1 : Oldest(sets[s]) = {v}
      BY <2>2, <2>3, OneOldest
    <2> QED
      BY <2>6, FS_Singleton
  <1> QED
    BY <1>1, CacheInvariant, PTL
-----------------------------------------------------------------------------
(* The order of eviction                                                   *)

\* Block i of a set is evicted before block j.
Older(set, a, i, j) == IF a.evic_policy = "lru" THEN set[i].access_ts > set[j].access_ts
                       ELSE set[i].load_ts < set[j].load_ts

Filling(set) == {i \in DOMAIN set : set[i].valid}

PlaceOf(set, a, i) == Cardinality({j \in Filling(set) : Older(set, a, j, i)}) + 1

\* The number of the memory block that set s holds with a tag.
Number(tag, s, a) == tag * a.num_sets + s

\* The memory blocks of a set in the order of eviction.
QueueOf(set, s, a) ==
  [n \in 1..Cardinality(Filling(set)) |->
     Number(set[CHOOSE i \in Filling(set) : PlaceOf(set, a, i) = n].tag, s, a)]

\* The refinement mapping looks at one set at a time.
LEMMA OrderIsQueue ==
  ASSUME NEW s
  PROVE  EvictionOrder(s) = QueueOf(sets[s], s, args)
  BY DEF EvictionOrder, QueueOf, Filling, PlaceOf, Older, Held, Number

\* One of two blocks is evicted before the other, and one never filled before
\* the others.
InOrder(set, a, n) ==
  \A i, j \in 0..n - 1 :
    /\ i # j => Older(set, a, i, j) \/ Older(set, a, j, i)
    /\ set[i].valid /\ ~set[j].valid => Older(set, a, j, i)

\* o lists the m blocks of a set that are filled, the next victim first.
Enumerates(o, m, set, a) ==
  /\ m \in Nat /\ o \in [1..m -> Filling(set)]
  /\ \A i \in Filling(set) : \E k \in 1..m : o[k] = i
  /\ \A k, l \in 1..m : k < l => Older(set, a, o[k], o[l])

\* Times are compared as numbers.
LEMMA OlderIsStrict ==
  ASSUME NEW n \in Nat, NEW set \in [0..n - 1 -> Block], NEW a
  PROVE  /\ Filling(set) \in SUBSET (0..n - 1)
         /\ \A i, j \in 0..n - 1 : ~(Older(set, a, i, j) /\ Older(set, a, j, i))
         /\ \A i, j, k \in 0..n - 1 :
              Older(set, a, i, j) /\ Older(set, a, j, k) => Older(set, a, i, k)
  <1>1. \A i \in 0..n - 1 : set[i].access_ts \in Int /\ set[i].load_ts \in Int
    BY ArgumentsAssumption DEF Block
  <1>2. Filling(set) \in SUBSET (0..n - 1)
    BY DEF Filling
  <1>3. CASE a.evic_policy = "lru"
    BY <1>1, <1>2, <1>3 DEF Older
  <1>4. CASE a.evic_policy # "lru"
    BY <1>1, <1>2, <1>4 DEF Older
  <1> QED
    BY <1>3, <1>4

\* The places of the blocks that a list has.
LEMMA ListedPlaces ==
  ASSUME NEW n \in Nat, NEW set \in [0..n - 1 -> Block], NEW a, NEW o, NEW m,
         Enumerates(o, m, set, a)
  PROVE  /\ Cardinality(Filling(set)) = m
         /\ \A k, l \in 1..m : o[k] = o[l] => k = l
         /\ \A k \in 1..m : PlaceOf(set, a, o[k]) = k
  <1>1. /\ m \in Nat /\ o \in [1..m -> Filling(set)]
        /\ \A i \in Filling(set) : \E k \in 1..m : o[k] = i
        /\ \A k, l \in 1..m : k < l => Older(set, a, o[k], o[l])
    BY DEF Enumerates
  <1>2. /\ Filling(set) \in SUBSET (0..n - 1)
        /\ \A i, j \in 0..n - 1 : ~(Older(set, a, i, j) /\ Older(set, a, j, i))
    BY OlderIsStrict
  <1>3. ASSUME NEW k \in 1..m, NEW l \in 1..m, o[k] = o[l] PROVE k = l
    <2>1. k < l => Older(set, a, o[k], o[k])
      BY <1>1, <1>3
    <2>2. l < k => Older(set, a, o[k], o[k])
      BY <1>1, <1>3
    <2>3. ~Older(set, a, o[k], o[k])
      BY <1>1, <1>2
    <2> QED
      BY <1>1, <2>1, <2>2, <2>3
  <1>4. o \in Bijection(1..m, Filling(set))
    BY <1>1, <1>3 DEF Bijection, Injection, Surjection, IsInjective
  <1>5. Cardinality(Filling(set)) = m
    BY <1>1, <1>4, FS_CountingElements DEF ExistsBijection
  <1>6. ASSUME NEW k \in 1..m PROVE PlaceOf(set, a, o[k]) = k
    <2> DEFINE Before == {j \in Filling(set) : Older(set, a, j, o[k])}
               f == [l \in 1..(k - 1) |-> o[l]]
    <2>1. \A l \in 1..(k - 1) : l \in 1..m /\ l < k
      BY <1>1
    <2>2. \A l \in 1..(k - 1) : o[l] \in Before
      BY <1>1, <2>1
    <2>3. ASSUME NEW j \in Before PROVE \E l \in 1..(k - 1) : o[l] = j
      <3>1. PICK l \in 1..m : o[l] = j
        BY <1>1
      <3>2. Older(set, a, o[l], o[k])
        BY <3>1
      <3>3. ~(k < l) /\ k # l
        BY <1>1, <1>2, <3>2
      <3>4. l \in 1..(k - 1)
        BY <1>1, <3>3
      <3> QED
        BY <3>1, <3>4
    <2>4. f \in Bijection(1..(k - 1), Before)
      <3>1. f \in [1..(k - 1) -> Before]
        BY <2>2
      <3>2. \A l, r \in 1..(k - 1) : f[l] = f[r] => l = r
        BY <1>3, <2>1
      <3>3. \A j \in Before : \E l \in 1..(k - 1) : f[l] = j
        BY <2>3
      <3> HIDE DEF f, Before
      <3> QED
        BY <3>1, <3>2, <3>3 DEF Bijection, Injection, Surjection, IsInjective
    <2> HIDE DEF f
    <2>5. k - 1 \in Nat
      BY <1>1
    <2>6. Cardinality(Before) = k - 1
      BY <2>4, <2>5, FS_CountingElements DEF ExistsBijection
    <2> QED
      BY <1>1, <2>6 DEF PlaceOf
  <1> QED
    BY <1>3, <1>5, <1>6

\* So the list is the queue.
LEMMA ListIsQueue ==
  ASSUME NEW n \in Nat, NEW set \in [0..n - 1 -> Block], NEW s, NEW a, NEW o, NEW m,
         Enumerates(o, m, set, a)
  PROVE  QueueOf(set, s, a) = [k \in 1..m |-> Number(set[o[k]].tag, s, a)]
  <1>1. Cardinality(Filling(set)) = m /\ \A k \in 1..m : PlaceOf(set, a, o[k]) = k
    BY ListedPlaces
  <1>2. /\ m \in Nat /\ o \in [1..m -> Filling(set)]
        /\ \A i \in Filling(set) : \E k \in 1..m : o[k] = i
    BY DEF Enumerates
  <1>3. ASSUME NEW k \in 1..m
        PROVE  (CHOOSE i \in Filling(set) : PlaceOf(set, a, i) = k) = o[k]
    <2>1. \A i \in Filling(set) : PlaceOf(set, a, i) = k => i = o[k]
      BY <1>1, <1>2
    <2>2. o[k] \in Filling(set) /\ PlaceOf(set, a, o[k]) = k
      BY <1>1, <1>2
    <2> QED
      BY <2>1, <2>2
  <1>4. QueueOf(set, s, a) =
          [k \in 1..m |->
             Number(set[CHOOSE i \in Filling(set) : PlaceOf(set, a, i) = k].tag, s, a)]
    BY <1>1 DEF QueueOf
  <1> QED
    BY <1>3, <1>4

\* Every set has such a list.
LEMMA ListExists ==
  ASSUME NEW n \in Nat, NEW set \in [0..n - 1 -> Block], NEW a, InOrder(set, a, n)
  PROVE  \E m \in Nat : \E o \in [1..m -> Filling(set)] : Enumerates(o, m, set, a)
  <1> DEFINE V == Filling(set)
             c == Cardinality(V)
             Before(i) == {j \in V : Older(set, a, j, i)}
  <1>1. /\ V \in SUBSET (0..n - 1)
        /\ \A i, j \in 0..n - 1 : ~(Older(set, a, i, j) /\ Older(set, a, j, i))
        /\ \A i, j, k \in 0..n - 1 :
             Older(set, a, i, j) /\ Older(set, a, j, k) => Older(set, a, i, k)
    BY OlderIsStrict
  <1>2. \A i, j \in V : i # j => Older(set, a, i, j) \/ Older(set, a, j, i)
    BY <1>1 DEF InOrder
  <1>3. IsFiniteSet(V)
    <2>1. IsFiniteSet(0..n - 1)
      BY FS_Interval
    <2> QED
      BY <1>1, <2>1, FS_Subset
  <1>4. c \in Nat
    BY <1>3, FS_CardinalityType
  <1>5. ASSUME NEW i \in V
        PROVE  /\ IsFiniteSet(Before(i)) /\ Cardinality(Before(i)) \in 0..(c - 1)
               /\ PlaceOf(set, a, i) = Cardinality(Before(i)) + 1
    <2>1. Before(i) \in SUBSET (V \ {i})
      BY <1>1
    <2>2. IsFiniteSet(V \ {i}) /\ Cardinality(V \ {i}) = c - 1
      BY <1>3, FS_RemoveElement
    <2>3. IsFiniteSet(Before(i)) /\ Cardinality(Before(i)) <= c - 1
      BY <2>1, <2>2, FS_Subset
    <2>4. Cardinality(Before(i)) \in Nat
      BY <2>3, FS_CardinalityType
    <2> QED
      BY <1>4, <2>3, <2>4 DEF PlaceOf
  <1>6. ASSUME NEW i \in V, NEW j \in V, Older(set, a, i, j)
        PROVE  PlaceOf(set, a, i) < PlaceOf(set, a, j)
    <2>1. Before(i) \in SUBSET Before(j) /\ i \in Before(j) /\ i \notin Before(i)
      BY <1>1, <1>6
    <2>2. Cardinality(Before(i)) <= Cardinality(Before(j))
          /\ Cardinality(Before(i)) # Cardinality(Before(j))
      BY <1>5, <2>1, FS_Subset
    <2> HIDE DEF Before, c
    <2> QED
      BY <1>4, <1>5, <2>2
  <1> DEFINE f == [i \in V |-> PlaceOf(set, a, i)]
  <1> HIDE DEF c, Before
  <1>7. \A i \in V : PlaceOf(set, a, i) \in 1..c
    BY <1>4, <1>5
  <1>8. \A i, j \in V : PlaceOf(set, a, i) = PlaceOf(set, a, j) => i = j
    <2> SUFFICES ASSUME NEW i \in V, NEW j \in V,
                        PlaceOf(set, a, i) = PlaceOf(set, a, j), i # j
                 PROVE  FALSE
      OBVIOUS
    <2>1. PlaceOf(set, a, i) \in Int /\ PlaceOf(set, a, j) \in Int
      BY <1>4, <1>7
    <2> QED
      BY <1>2, <1>6, <2>1
  <1>9. f \in Surjection(V, 1..c)
    <2>1. f \in Injection(V, 1..c)
      BY <1>7, <1>8 DEF Injection, IsInjective
    <2>2. IsFiniteSet(1..c) /\ Cardinality(1..c) = c
      BY <1>4, FS_Interval, SMTT(30)
    <2> HIDE DEF f
    <2> QED
      BY <2>1, <2>2, FS_Injection DEF c
  <1>10. \A k \in 1..c : \E i \in V : PlaceOf(set, a, i) = k
    BY <1>9 DEF Surjection
  <1> DEFINE o == [k \in 1..c |-> CHOOSE i \in V : PlaceOf(set, a, i) = k]
  <1>11. \A k \in 1..c : o[k] \in V /\ PlaceOf(set, a, o[k]) = k
    BY <1>10
  <1>12. o \in [1..c -> V]
    BY <1>11
  <1> HIDE DEF o
  <1>13. \A i \in V : \E k \in 1..c : o[k] = i
    BY <1>7, <1>8, <1>11
  <1>14. ASSUME NEW k \in 1..c, NEW l \in 1..c, k < l
         PROVE  Older(set, a, o[k], o[l])
    <2>1. o[k] # o[l] /\ ~(l < k)
      BY <1>4, <1>11, <1>14
    <2>2. ~Older(set, a, o[l], o[k])
      BY <1>6, <1>11, <2>1
    <2> QED
      BY <1>2, <1>11, <2>1, <2>2
  <1>15. Enumerates(o, c, set, a)
    BY <1>4, <1>12, <1>13, <1>14 DEF Enumerates
  <1> QED
    BY <1>4, <1>12, <1>15

\* Block i goes behind the others, which keep their order.
MovedBack(set, new, a, n, i) ==
  /\ \A j \in 0..n - 1 : j # i => Older(new, a, j, i)
  /\ \A j, k \in 0..n - 1 :
       j # i /\ k # i /\ Older(set, a, j, k) => Older(new, a, j, k)

\* The blocks other than i are as they were, but for times and dirty bits.
OthersStay(set, new, n, i) ==
  \A j \in 0..n - 1 : j # i => new[j].valid = set[j].valid /\ new[j].tag = set[j].tag

\* The order stays one, as block i is filled now.
LEMMA MovedBackInOrder ==
  ASSUME NEW n \in Nat, NEW set, NEW new, NEW a, NEW i \in 0..n - 1,
         InOrder(set, a, n), MovedBack(set, new, a, n, i),
         OthersStay(set, new, n, i), new[i].valid
  PROVE  InOrder(new, a, n)
  <1> SUFFICES ASSUME NEW j \in 0..n - 1, NEW k \in 0..n - 1
               PROVE  /\ j # k => Older(new, a, j, k) \/ Older(new, a, k, j)
                      /\ new[j].valid /\ ~new[k].valid => Older(new, a, k, j)
    BY DEF InOrder
  <1>1. /\ j # k => Older(set, a, j, k) \/ Older(set, a, k, j)
        /\ set[j].valid /\ ~set[k].valid => Older(set, a, k, j)
    BY DEF InOrder
  <1>2. CASE j = i \/ k = i
    BY <1>2 DEF MovedBack
  <1>3. CASE j # i /\ k # i
    BY <1>1, <1>3 DEF MovedBack, OthersStay
  <1> QED
    BY <1>2, <1>3

\* A list of m with one more at its end; and with the one at place p left out.
Grown(f, m, x) == [k \in 1..m + 1 |-> IF k <= m THEN f[k] ELSE x]
Turned(f, m, p, x) ==
  [k \in 1..m |-> IF k < p THEN f[k] ELSE IF k < m THEN f[k + 1] ELSE x]

\* A block that is filled for the first time is listed last.
LEMMA ListGrows ==
  ASSUME NEW n \in Nat, NEW set \in [0..n - 1 -> Block], NEW new \in [0..n - 1 -> Block],
         NEW a, NEW i \in 0..n - 1, ~set[i].valid, new[i].valid,
         MovedBack(set, new, a, n, i), OthersStay(set, new, n, i),
         NEW m, NEW o, Enumerates(o, m, set, a)
  PROVE  Enumerates(Grown(o, m, i), m + 1, new, a)
  <1> DEFINE p == [k \in 1..m + 1 |-> IF k <= m THEN o[k] ELSE i]
  <1>1. /\ m \in Nat /\ o \in [1..m -> Filling(set)]
        /\ \A j \in Filling(set) : \E k \in 1..m : o[k] = j
        /\ \A k, l \in 1..m : k < l => Older(set, a, o[k], o[l])
    BY DEF Enumerates
  <1>2. \A j : j \in Filling(new) <=> j \in Filling(set) \/ j = i
    BY DEF Filling, OthersStay
  <1>3. \A j \in Filling(set) : j \in 0..n - 1 /\ j # i
    BY DEF Filling
  <1>4. \A k \in 1..m : k \in 1..m + 1 /\ p[k] = o[k] /\ o[k] \in Filling(set)
    BY <1>1
  <1>5. m + 1 \in 1..m + 1 /\ p[m + 1] = i /\ m + 1 \in Nat
    BY <1>1
  <1>6. \A k \in 1..m + 1 : k \in 1..m \/ k = m + 1
    BY <1>1
  <1>7. p \in [1..m + 1 -> Filling(new)]
    <2>1. \A k \in 1..m + 1 : (IF k <= m THEN o[k] ELSE i) \in Filling(new)
      BY <1>1, <1>2, <1>4
    <2> QED
      BY <2>1
  <1> HIDE DEF p
  <1>8. \A j \in Filling(new) : \E k \in 1..m + 1 : p[k] = j
    BY <1>1, <1>2, <1>4, <1>5
  <1>9. ASSUME NEW k \in 1..m + 1, NEW l \in 1..m + 1, k < l
        PROVE  Older(new, a, p[k], p[l])
    <2>1. k \in 1..m
      BY <1>1, <1>9
    <2>2. CASE l \in 1..m
      <3>1. Older(set, a, o[k], o[l])
        BY <1>1, <1>9, <2>1, <2>2
      <3> QED
        BY <1>3, <1>4, <2>1, <2>2, <3>1 DEF MovedBack
    <2>3. CASE l = m + 1
      BY <1>3, <1>4, <1>5, <2>1, <2>3 DEF MovedBack
    <2> QED
      BY <1>6, <2>2, <2>3
  <1>10. Enumerates(p, m + 1, new, a)
    BY <1>5, <1>7, <1>8, <1>9 DEF Enumerates
  <1> QED
    BY <1>10 DEF p, Grown

\* A block that was filled before goes from its place to the last one.
LEMMA ListTurns ==
  ASSUME NEW n \in Nat, NEW set \in [0..n - 1 -> Block], NEW new \in [0..n - 1 -> Block],
         NEW a, NEW i \in 0..n - 1, set[i].valid, new[i].valid,
         MovedBack(set, new, a, n, i), OthersStay(set, new, n, i),
         NEW m, NEW o, Enumerates(o, m, set, a), NEW p \in 1..m, o[p] = i
  PROVE  Enumerates(Turned(o, m, p, i), m, new, a)
  <1> DEFINE r == [k \in 1..m |-> IF k < p THEN o[k] ELSE IF k < m THEN o[k + 1] ELSE i]
  <1>1. /\ m \in Nat /\ o \in [1..m -> Filling(set)]
        /\ \A j \in Filling(set) : \E k \in 1..m : o[k] = j
        /\ \A k, l \in 1..m : k < l => Older(set, a, o[k], o[l])
    BY DEF Enumerates
  <1>2. \A j : j \in Filling(new) <=> j \in Filling(set)
    BY DEF Filling, OthersStay
  <1>3. \A j \in Filling(set) : j \in 0..n - 1
    BY DEF Filling
  <1>4. \A k, l \in 1..m : o[k] = o[l] => k = l
    BY ListedPlaces
  <1> DEFINE at(k) == IF k < p THEN k ELSE k + 1
  <1>5. \A k \in 1..m : k # m => /\ at(k) \in 1..m /\ at(k) # p
                                 /\ r[k] = o[at(k)]
    BY <1>1
  <1>6. m \in 1..m /\ r[m] = i
    BY <1>1
  <1>7. \A k \in 1..m : r[k] \in Filling(new)
    BY <1>1, <1>2, <1>5, <1>6
  <1>8. r \in [1..m -> Filling(new)]
    BY <1>7
  <1>9. \A l \in 1..m : l # p => \E k \in 1..m : k # m /\ at(k) = l
    <2> SUFFICES ASSUME NEW l \in 1..m, l # p
                 PROVE  \E k \in 1..m : k # m /\ at(k) = l
      OBVIOUS
    <2>1. CASE l < p
      <3>1. l # m /\ at(l) = l
        BY <1>1, <2>1
      <3> QED
        BY <3>1
    <2>2. CASE l > p
      <3>1. l - 1 \in 1..m /\ l - 1 # m /\ at(l - 1) = l
        BY <1>1, <2>2
      <3> QED
        BY <3>1
    <2> QED
      BY <1>1, <2>1, <2>2
  <1>10. \A k, l \in 1..m : k < l => at(k) < at(l)
    BY <1>1
  <1> HIDE DEF r, at
  <1>11. ASSUME NEW j \in Filling(new) PROVE \E k \in 1..m : r[k] = j
    <2>1. PICK l \in 1..m : o[l] = j
      BY <1>1, <1>2
    <2>2. CASE l = p
      BY <1>6, <2>1, <2>2
    <2>3. CASE l # p
      <3>1. PICK k \in 1..m : k # m /\ at(k) = l
        BY <1>9, <2>3
      <3>2. r[k] = j
        BY <1>5, <2>1, <3>1
      <3> QED
        BY <3>2
    <2> QED
      BY <2>2, <2>3
  <1>12. \A k \in 1..m : k # m => r[k] \in 0..n - 1 /\ r[k] # i
    BY <1>1, <1>3, <1>4, <1>5
  <1>13. ASSUME NEW k \in 1..m, NEW l \in 1..m, k < l
         PROVE  Older(new, a, r[k], r[l])
    <2>1. k # m
      BY <1>1, <1>13
    <2>2. CASE l = m
      BY <1>6, <1>12, <2>1, <2>2 DEF MovedBack
    <2>3. CASE l # m
      <3>1. Older(set, a, r[k], r[l])
        BY <1>1, <1>5, <1>10, <1>13, <2>1, <2>3
      <3> QED
        BY <1>12, <2>1, <2>3, <3>1 DEF MovedBack
    <2> QED
      BY <2>2, <2>3
  <1>14. Enumerates(r, m, new, a)
    BY <1>1, <1>8, <1>11, <1>13 DEF Enumerates
  <1> QED
    BY <1>14 DEF r, Turned

\* The block that is evicted before all others is the first of the list, and
\* filled only if all are.
LEMMA OldestIsFirst ==
  ASSUME NEW n \in Nat \ {0}, NEW set \in [0..n - 1 -> Block], NEW a, InOrder(set, a, n),
         NEW v \in 0..n - 1, \A j \in 0..n - 1 : j # v => Older(set, a, v, j),
         NEW m, NEW o, Enumerates(o, m, set, a)
  PROVE  /\ set[v].valid => m = n /\ o[1] = v
         /\ ~set[v].valid => m < n
  <1>1. /\ m \in Nat /\ o \in [1..m -> Filling(set)]
        /\ \A j \in Filling(set) : \E k \in 1..m : o[k] = j
        /\ \A k, l \in 1..m : k < l => Older(set, a, o[k], o[l])
    BY DEF Enumerates
  <1>2. \A i, j \in 0..n - 1 : ~(Older(set, a, i, j) /\ Older(set, a, j, i))
    BY OlderIsStrict
  <1>3. Cardinality(Filling(set)) = m
    BY ListedPlaces
  <1>4. IsFiniteSet(0..n - 1) /\ Cardinality(0..n - 1) = n
    BY FS_Interval
  <1>5. CASE set[v].valid
    <2>1. \A j \in 0..n - 1 : set[j].valid
      BY <1>2, <1>5 DEF InOrder
    <2>2. Filling(set) = 0..n - 1
      BY <2>1 DEF Filling
    <2>3. m = n
      BY <1>3, <1>4, <2>2
    <2>4. PICK k \in 1..m : o[k] = v
      BY <1>1, <2>2
    <2>5. k = 1
      <3>1. 1 \in 1..m /\ o[1] \in 0..n - 1
        BY <1>1, <2>2, <2>3
      <3>2. k # 1 => Older(set, a, o[1], v)
        BY <1>1, <2>4, <3>1
      <3> QED
        BY <1>2, <2>4, <3>1, <3>2
    <2> QED
      BY <1>5, <2>3, <2>4, <2>5
  <1>6. CASE ~set[v].valid
    <2>1. Filling(set) \in SUBSET (0..n - 1) /\ v \notin Filling(set)
      BY <1>6 DEF Filling
    <2>2. Cardinality(Filling(set)) <= n /\ Cardinality(Filling(set)) # n
      BY <1>4, <2>1, FS_Subset
    <2> QED
      BY <1>1, <1>3, <1>6, <2>2
  <1> QED
    BY <1>5, <1>6
-----------------------------------------------------------------------------
(* Queues of numbers                                                       *)

\* A number is added to the back of a queue.
LEMMA QueueGrows ==
  ASSUME NEW q \in Seq(Int), NEW x \in Int
  PROVE  Append(q, x) = Grown(q, Len(q), x)
  <1> DEFINE r == Append(q, x)
  <1>1. PICK m \in Nat : m = Len(q)
    BY LenProperties
  <1>2. /\ r \in Seq(Int) /\ Len(r) = m + 1
        /\ \A k \in 1..m : r[k] = q[k]
        /\ r[m + 1] = x
    BY <1>1, AppendProperties
  <1>3. DOMAIN r = 1..m + 1 /\ r \in [1..m + 1 -> Int]
    BY <1>2, LenProperties
  <1> HIDE DEF r
  <1>4. \A k \in 1..m + 1 : r[k] = IF k <= m THEN q[k] ELSE x
    BY <1>1, <1>2
  <1>5. r = [k \in 1..m + 1 |-> IF k <= m THEN q[k] ELSE x]
    BY <1>3, <1>4
  <1> QED
    BY <1>1, <1>5 DEF r, Grown

\* One at its place p goes, and another is added to its back.
LEMMA QueueTurns ==
  ASSUME NEW q \in Seq(Int), NEW x \in Int, NEW p \in 1..Len(q)
  PROVE  Append(RemoveAt(q, p), x) = Turned(q, Len(q), p, x)
  <1> DEFINE r == SubSeq(q, 1, p - 1)
             t == SubSeq(q, p + 1, Len(q))
             u == r \o t
  <1>1. PICK m \in Nat : m = Len(q) /\ q \in [1..m -> Int]
    BY LenProperties
  <1>2. p \in 1..m /\ p - 1 \in Int /\ p + 1 \in Int /\ 1 \in Int
    BY <1>1
  <1>3. \A k \in 1..p - 1 : q[k] \in Int
    BY <1>1, <1>2
  <1>4. \A k \in p + 1..m : q[k] \in Int
    BY <1>1, <1>2
  <1>5. /\ r \in Seq(Int)
        /\ Len(r) = IF 1 <= p - 1 THEN p - 1 - 1 + 1 ELSE 0
        /\ \A k \in 1..p - 1 - 1 + 1 : r[k] = q[1 + k - 1]
    BY <1>2, <1>3, SubSeqProperties
  <1>6. /\ t \in Seq(Int)
        /\ Len(t) = IF p + 1 <= m THEN m - (p + 1) + 1 ELSE 0
        /\ \A k \in 1..m - (p + 1) + 1 : t[k] = q[p + 1 + k - 1]
    <2>1. SubSeq(q, p + 1, m) = t
      BY <1>1
    <2>2. m \in Int /\ p + 1 \in Int
      BY <1>2
    <2>3. /\ SubSeq(q, p + 1, m) \in Seq(Int)
          /\ Len(SubSeq(q, p + 1, m)) = IF p + 1 <= m THEN m - (p + 1) + 1 ELSE 0
          /\ \A k \in 1..m - (p + 1) + 1 : SubSeq(q, p + 1, m)[k] = q[p + 1 + k - 1]
      <3> HIDE DEF t
      <3> QED
        BY <1>4, <2>2, SubSeqProperties
    <2> HIDE DEF t
    <2> QED
      BY <2>1, <2>3
  <1> HIDE DEF r, t
  <1>7. Len(r) = p - 1 /\ \A k \in 1..p - 1 : r[k] = q[k]
    BY <1>2, <1>5
  <1>8. Len(t) = m - p /\ \A k \in 1..m - p : t[k] = q[p + k]
    BY <1>2, <1>6
  <1>9. /\ u \in Seq(Int) /\ Len(u) = m - 1
        /\ \A k \in 1..m - 1 : u[k] = IF k < p THEN q[k] ELSE q[k + 1]
    <2>1. /\ u \in Seq(Int) /\ Len(u) = Len(r) + Len(t)
          /\ \A k \in 1..Len(r) + Len(t) : u[k] = IF k <= Len(r) THEN r[k] ELSE t[k - Len(r)]
      BY <1>5, <1>6, ConcatProperties
    <2>2. Len(r) + Len(t) = m - 1
      BY <1>2, <1>7, <1>8
    <2> HIDE DEF u
    <2>3. ASSUME NEW k \in 1..m - 1 PROVE u[k] = IF k < p THEN q[k] ELSE q[k + 1]
      <3>1. u[k] = IF k <= p - 1 THEN r[k] ELSE t[k - (p - 1)]
        BY <1>7, <2>1, <2>2
      <3>2. CASE k < p
        BY <1>2, <1>7, <3>1, <3>2
      <3>3. CASE ~(k < p)
        <4>1. k - (p - 1) \in 1..m - p /\ p + (k - (p - 1)) = k + 1
          BY <1>2, <3>3
        <4> QED
          BY <1>2, <1>8, <3>1, <3>3, <4>1
      <3> QED
        BY <3>2, <3>3
    <2> QED
      BY <2>1, <2>2, <2>3
  <1>10. RemoveAt(q, p) = u
    BY DEF RemoveAt, r, t
  <1> HIDE DEF u
  <1>11. Append(u, x) = [k \in 1..m - 1 + 1 |-> IF k <= m - 1 THEN u[k] ELSE x]
    <2>1. Append(u, x) = [k \in 1..Len(u) + 1 |-> IF k <= Len(u) THEN u[k] ELSE x]
      BY <1>9, QueueGrows DEF Grown
    <2>2. Len(u) = m - 1
      BY <1>9
    <2> QED
      BY <2>1, <2>2, Zenon
  <1>12. m - 1 + 1 = m /\ m >= 1
    BY <1>2
  <1>13. \A k \in 1..m : (IF k <= m - 1 THEN u[k] ELSE x)
                           = IF k < p THEN q[k] ELSE IF k < m THEN q[k + 1] ELSE x
    <2> SUFFICES ASSUME NEW k \in 1..m
                 PROVE  (IF k <= m - 1 THEN u[k] ELSE x)
                           = IF k < p THEN q[k] ELSE IF k < m THEN q[k + 1] ELSE x
      OBVIOUS
    <2>1. CASE k = m
      BY <1>2, <2>1
    <2>2. CASE k # m
      <3>1. k \in 1..m - 1 /\ k < m
        BY <2>2
      <3> QED
        BY <1>9, <3>1
    <2> QED
      BY <2>1, <2>2
  <1> QED
    BY <1>1, <1>10, <1>11, <1>12, <1>13 DEF Turned

\* The first one goes.
LEMMA QueueMovesUp ==
  ASSUME NEW q \in Seq(Int), NEW x \in Int, Len(q) >= 1
  PROVE  /\ Head(q) = q[1]
         /\ Append(Tail(q), x) = Turned(q, Len(q), 1, x)
  <1>1. PICK m \in Nat : m = Len(q) /\ q \in [1..m -> Int]
    BY LenProperties
  <1>2. q # <<>>
    BY EmptySeq
  <1> DEFINE t == Tail(q)
  <1>3. /\ t \in Seq(Int) /\ Len(t) = m - 1
        /\ \A k \in 1..m - 1 : t[k] = q[k + 1]
    BY <1>1, <1>2, HeadTailProperties
  <1> HIDE DEF t
  <1>4. Append(t, x) = [k \in 1..m - 1 + 1 |-> IF k <= m - 1 THEN t[k] ELSE x]
    <2>1. Append(t, x) = [k \in 1..Len(t) + 1 |-> IF k <= Len(t) THEN t[k] ELSE x]
      BY <1>3, QueueGrows DEF Grown
    <2>2. Len(t) = m - 1
      BY <1>3
    <2> QED
      BY <2>1, <2>2, Zenon
  <1>5. m - 1 + 1 = m /\ m >= 1
    BY <1>1
  <1>6. \A k \in 1..m : (IF k <= m - 1 THEN t[k] ELSE x)
                          = IF k < 1 THEN q[k] ELSE IF k < m THEN q[k + 1] ELSE x
    BY <1>3, <1>5
  <1>7. Append(t, x) = Turned(q, m, 1, x)
    BY <1>4, <1>5, <1>6 DEF Turned
  <1>8. Head(q) = q[1]
    OBVIOUS
  <1> QED
    BY <1>1, <1>7, <1>8 DEF t
-----------------------------------------------------------------------------
(* What an access does to the order of eviction                            *)

\* A hit: block i holds the tag; LRU moves it back and FIFO leaves the order.
HitEffect(set, new, n, i, tag, mark) ==
  /\ i \in 0..n - 1 /\ Holds(set[i], tag) /\ Holds(new[i], tag)
  /\ OthersStay(set, new, n, i)
  /\ IF args.evic_policy = "lru" THEN MovedBack(set, new, args, n, i)
     ELSE \A j \in 0..n - 1 : new[j].load_ts = set[j].load_ts
  /\ \A j \in 0..n - 1 : new[j].dirty = (set[j].dirty \/ (mark /\ j = i))

\* A miss that allocates: the block evicted before all others holds the tag now.
FetchEffect(set, new, n, v, tag, mark) ==
  /\ v \in 0..n - 1 /\ \A j \in 0..n - 1 : ~Holds(set[j], tag)
  /\ \A j \in 0..n - 1 : j # v => Older(set, args, v, j)
  /\ Holds(new[v], tag) /\ OthersStay(set, new, n, v)
  /\ MovedBack(set, new, args, n, v)
  /\ \A j \in 0..n - 1 : new[j].dirty = IF j = v THEN mark ELSE set[j].dirty

\* LRU: the block that is used is moved back.
LEMMA UsedMovesBack ==
  ASSUME NEW n \in Nat \ {0}, NEW set, NEW new, NEW a, a.evic_policy = "lru",
         DistinctAges(set, n), NEW i \in 0..n - 1, NEW tag, Used(set, new, n, i, tag)
  PROVE  MovedBack(set, new, a, n, i) /\ OthersStay(set, new, n, i) /\ Holds(new[i], tag)
  <1>1. /\ \A j \in 0..n - 1 : set[j].access_ts \in Nat
        /\ \A j \in 0..n - 1 : j # i => set[j].access_ts # set[i].access_ts
    BY DEF DistinctAges
  <1>2. /\ new[i].access_ts = 0
        /\ \A j \in 0..n - 1 : j # i =>
             new[j].access_ts = IF set[j].access_ts < set[i].access_ts
                                THEN set[j].access_ts + 1 ELSE set[j].access_ts
    BY DEF Used
  <1>3. ASSUME NEW j \in 0..n - 1, j # i PROVE Older(new, a, j, i)
    <2>1. new[j].access_ts > 0
      BY <1>1, <1>2, <1>3
    <2> QED
      BY <1>2, <2>1 DEF Older
  <1>4. ASSUME NEW j \in 0..n - 1, NEW k \in 0..n - 1, j # i, k # i, Older(set, a, j, k)
        PROVE  Older(new, a, j, k)
    <2>1. set[j].access_ts > set[k].access_ts
      BY <1>4 DEF Older
    <2>2. new[j].access_ts > new[k].access_ts
      BY <1>1, <1>2, <1>4, <2>1
    <2> QED
      BY <2>2 DEF Older
  <1>5. OthersStay(set, new, n, i) /\ Holds(new[i], tag)
    BY DEF Used, OthersStay, Holds
  <1> QED
    BY <1>3, <1>4, <1>5 DEF MovedBack

\* A store hit marks the block of a hit.
LEMMA MarkedEffect ==
  ASSUME args \in Arguments, NEW n \in Nat \ {0},
         NEW set \in [0..n - 1 -> Block], NEW new \in [0..n - 1 -> Block],
         NEW i, NEW tag, HitEffect(set, new, n, i, tag, FALSE)
  PROVE  HitEffect(set, Marked(new, i), n, i, tag, args.write_back)
  <1> DEFINE b == Marked(new, i)
  <1>1. i \in 0..n - 1
    BY DEF HitEffect
  <1>2. args.write_back \in BOOLEAN
    BY ArgumentsAssumption
  <1>3. \A j \in 0..n - 1 : /\ b[j].valid = new[j].valid /\ b[j].tag = new[j].tag
                            /\ b[j].load_ts = new[j].load_ts
                            /\ b[j].access_ts = new[j].access_ts
    BY <1>1, MarkedKeeps, ZenonT(60)
  <1>4. \A j \in 0..n - 1 : b[j].dirty = (new[j].dirty \/ (args.write_back /\ j = i))
    BY <1>1, <1>2 DEF Marked, Block
  <1>5. /\ Holds(set[i], tag) /\ Holds(new[i], tag) /\ OthersStay(set, new, n, i)
        /\ IF args.evic_policy = "lru" THEN MovedBack(set, new, args, n, i)
           ELSE \A j \in 0..n - 1 : new[j].load_ts = set[j].load_ts
        /\ \A j \in 0..n - 1 : new[j].dirty = (set[j].dirty \/ (FALSE /\ j = i))
    BY DEF HitEffect
  <1>a. \A j \in 0..n - 1 : new[j].dirty = set[j].dirty
    <2>1. \A j \in 0..n - 1 : set[j].dirty \in BOOLEAN
      BY DEF Block
    <2> QED
      BY <1>5, <2>1
  <1> HIDE DEF b
  <1>6. Holds(b[i], tag) /\ OthersStay(set, b, n, i)
    BY <1>1, <1>3, <1>5 DEF Holds, OthersStay
  <1>7. \A j, k \in 0..n - 1 : Older(b, args, j, k) <=> Older(new, args, j, k)
    BY <1>3 DEF Older
  <1>8. args.evic_policy = "lru" => MovedBack(set, b, args, n, i)
    BY <1>1, <1>5, <1>7 DEF MovedBack
  <1>9. args.evic_policy # "lru" => \A j \in 0..n - 1 : b[j].load_ts = set[j].load_ts
    BY <1>3, <1>5
  <1>10. \A j \in 0..n - 1 : b[j].dirty = (set[j].dirty \/ (args.write_back /\ j = i))
    BY <1>4, <1>a
  <1>11. HitEffect(set, b, n, i, tag, args.write_back)
    BY <1>1, <1>5, <1>6, <1>8, <1>9, <1>10 DEF HitEffect
  <1> QED
    BY <1>11 DEF b

\* An LRU hit.
LEMMA TouchEffect ==
  ASSUME NEW n \in Nat \ {0}, n < Word, args.blocks = n, args.evic_policy = "lru",
         NEW set, SetOK(set), DistinctAges(set, n), NEW tag, Matching(set, tag) # {}
  PROVE  LET i == Min(Matching(set, tag)) IN
           /\ HitEffect(set, Touch(set, i), n, i, tag, FALSE)
           /\ Touch(set, i) \in [0..n - 1 -> Block]
  <1>1. PICK i \in 0..n - 1 : /\ i = Min(Matching(set, tag))
                              /\ Holds(set[i], tag)
                              /\ Used(set, Touch(set, i), n, i, tag)
                              /\ SetOK(Touch(set, i))
    BY TouchIsOK
  <1>2. set \in [0..n - 1 -> Block] /\ Touch(set, i) \in [0..n - 1 -> Block]
    BY <1>1 DEF SetOK
  <1>3. /\ MovedBack(set, Touch(set, i), args, n, i)
        /\ OthersStay(set, Touch(set, i), n, i)
        /\ Holds(Touch(set, i)[i], tag)
    BY <1>1, UsedMovesBack
  <1>4. ASSUME NEW j \in 0..n - 1
        PROVE  Touch(set, i)[j].dirty = (set[j].dirty \/ (FALSE /\ j = i))
    <2>1. set[j] \in Block /\ set[j].dirty \in BOOLEAN
      BY <1>2 DEF Block
    <2>2. \/ \E x : Touch(set, i)[j] = [set[j] EXCEPT !.access_ts = x]
          \/ Touch(set, i)[j] = set[j]
      BY <1>2 DEF Touch
    <2>3. Touch(set, i)[j].dirty = set[j].dirty
      BY <2>1, <2>2 DEF Block
    <2> QED
      BY <2>1, <2>3
  <1>5. HitEffect(set, Touch(set, i), n, i, tag, FALSE)
    BY <1>1, <1>3, <1>4 DEF HitEffect
  <1> QED
    BY <1>1, <1>2, <1>5

\* A FIFO hit.
LEMMA FoundEffect ==
  ASSUME NEW n \in Nat \ {0}, args.evic_policy # "lru",
         NEW set \in [0..n - 1 -> Block], NEW tag, Matching(set, tag) # {}
  PROVE  HitEffect(set, set, n, Min(Matching(set, tag)), tag, FALSE)
  <1>1. PICK i \in 0..n - 1 : i = Min(Matching(set, tag)) /\ i \in Matching(set, tag)
    BY MatchingMin
  <1>2. Holds(set[i], tag)
    BY <1>1 DEF Matching, Holds
  <1>3. \A j \in 0..n - 1 : set[j].dirty = (set[j].dirty \/ (FALSE /\ j = i))
    <2>1. \A j \in 0..n - 1 : set[j].dirty \in BOOLEAN
      BY DEF Block
    <2> QED
      BY <2>1
  <1>4. HitEffect(set, set, n, i, tag, FALSE)
    BY <1>2, <1>3 DEF HitEffect, OthersStay
  <1> QED
    BY <1>1, <1>4

\* An LRU miss that allocates.
LEMMA OldestEffect ==
  ASSUME NEW n \in Nat \ {0}, n < Word, args.blocks = n, args.evic_policy = "lru",
         NEW set, SetOK(set), DistinctAges(set, n),
         NEW tag \in 0..Word - 1, NEW dirty \in BOOLEAN, Matching(set, tag) = {}
  PROVE  \E v \in 0..n - 1 :
           /\ Oldest(set) = {v}
           /\ FetchEffect(set, ReplaceOldest(set, tag, dirty), n, v, tag, dirty)
  <1> DEFINE new == ReplaceOldest(set, tag, dirty)
  <1>1. set \in [0..n - 1 -> Block] /\ IsPermutation(AgesOf(set, n), n)
    BY DEF SetOK
  <1>2. PICK v \in 0..n - 1 : /\ Oldest(set) = {v} /\ set[v].access_ts = n - 1
                              /\ Used(set, new, n, v, tag)
    BY <1>1, ReplaceKeepsAges
  <1>3. MovedBack(set, new, args, n, v) /\ OthersStay(set, new, n, v) /\ Holds(new[v], tag)
    BY <1>2, UsedMovesBack
  <1>4. \A j \in 0..n - 1 : j # v => Older(set, args, v, j)
    <2>1. \A j \in 0..n - 1 : set[j].access_ts \in 0..n - 1
      BY DEF DistinctAges
    <2>2. \A j \in 0..n - 1 : j # v => set[j].access_ts # set[v].access_ts
      BY DEF DistinctAges
    <2>3. \A j \in 0..n - 1 : j # v => set[v].access_ts > set[j].access_ts
      BY <1>2, <2>1, <2>2
    <2> QED
      BY <2>3 DEF Older
  <1>5. ASSUME NEW j \in 0..n - 1
        PROVE  new[j].dirty = IF j = v THEN dirty ELSE set[j].dirty
    <2>1. set[j] \in Block /\ DOMAIN set = 0..n - 1
      BY <1>1
    <2>2. CASE j = v
      <3>1. new[j] = [Filled(set[j], tag, dirty) EXCEPT !.access_ts = 0]
        BY <1>2, <2>1, <2>2 DEF ReplaceOldest
      <3> QED
        BY <2>1, <2>2, <3>1 DEF Filled, Block
    <2>3. CASE j # v
      <3>1. new[j] = [set[j] EXCEPT !.access_ts = set[j].access_ts + 1]
        BY <1>2, <2>1, <2>3 DEF ReplaceOldest
      <3> QED
        BY <2>1, <2>3, <3>1 DEF Block
    <2> QED
      BY <2>2, <2>3
  <1>6. \A j \in 0..n - 1 : ~Holds(set[j], tag)
    BY <1>1 DEF Matching, Holds
  <1> HIDE DEF new
  <1>7. FetchEffect(set, new, n, v, tag, dirty)
    BY <1>3, <1>4, <1>5, <1>6 DEF FetchEffect
  <1> QED
    BY <1>2, <1>7 DEF new

\* A FIFO miss that allocates, when the load times have not come to their limit.
LEMMA FirstInEffect ==
  ASSUME NEW n \in Nat \ {0}, args.evic_policy # "lru",
         NEW set \in [0..n - 1 -> Block], InOrder(set, args, n),
         NEW top \in Nat, top + 1 < Word, \A j \in 0..n - 1 : set[j].load_ts <= top,
         NEW tag \in 0..Word - 1, NEW dirty \in BOOLEAN, Matching(set, tag) = {}
  PROVE  LET new == ReplaceFirstIn(set, tag, dirty) IN
           /\ FetchEffect(set, new, n, FirstIn(set), tag, dirty)
           /\ \A j \in 0..n - 1 : new[j].load_ts <= top + 1
  <1> DEFINE T == {set[j].load_ts : j \in DOMAIN set}
             new == ReplaceFirstIn(set, tag, dirty)
  <1>0. Word \in Nat
    BY ArgumentsAssumption
  <1>1. \A j \in 0..n - 1 : set[j] \in Block /\ set[j].load_ts \in 0..top
    BY <1>0 DEF Block
  <1>2. PICK v \in 0..n - 1 : v = FirstIn(set)
    BY FirstInSet
  <1>3. \A j \in 0..n - 1 : set[v].load_ts <= set[j].load_ts
    BY <1>2, FirstInSet
  <1>4. PICK latest \in 0..top : latest = Max(T) /\ \A j \in 0..n - 1 : set[j].load_ts <= latest
    <2>1. T \in SUBSET (0..top) /\ \A j \in 0..n - 1 : set[j].load_ts \in T
      BY <1>1
    <2>2. T # {}
      BY <2>1
    <2> HIDE DEF T
    <2>3. Max(T) \in T /\ \A x \in T : x <= Max(T)
      BY <2>1, <2>2, MaxNat
    <2> QED
      BY <2>1, <2>3
  <1>5. (Max(T) + 1) % Word = latest + 1
    <2>1. latest + 1 \in 0..Word - 1
      BY <1>0
    <2> QED
      BY <1>0, <1>4, <2>1, SMTT(30)
  <1>6. new = [set EXCEPT ![v] = [Filled(set[v], tag, dirty) EXCEPT !.load_ts = latest + 1]]
    BY <1>2, <1>5 DEF ReplaceFirstIn
  <1> HIDE DEF T, new
  <1>7. \A j \in 0..n - 1 : j # v => new[j] = set[j]
    BY <1>6
  <1>8. new[v] = [Filled(set[v], tag, dirty) EXCEPT !.load_ts = latest + 1]
    BY <1>6
  <1>9. /\ new[v].valid /\ new[v].tag = tag /\ new[v].dirty = dirty
        /\ new[v].load_ts = latest + 1
    BY <1>1, <1>8 DEF Filled, Block
  <1>10. MovedBack(set, new, args, n, v)
    <2>1. ASSUME NEW j \in 0..n - 1, j # v PROVE Older(new, args, j, v)
      <3>1. new[j].load_ts < new[v].load_ts
        BY <1>1, <1>4, <1>7, <1>9, <2>1
      <3> QED
        BY <3>1 DEF Older
    <2>2. \A j, k \in 0..n - 1 :
            j # v /\ k # v /\ Older(set, args, j, k) => Older(new, args, j, k)
      BY <1>7 DEF Older
    <2> QED
      BY <2>1, <2>2 DEF MovedBack
  <1>11. ASSUME NEW j \in 0..n - 1, j # v PROVE Older(set, args, v, j)
    <2>1. Older(set, args, v, j) \/ Older(set, args, j, v)
      BY <1>11 DEF InOrder
    <2>2. ~(set[j].load_ts < set[v].load_ts)
      BY <1>1, <1>3
    <2> QED
      BY <2>1, <2>2 DEF Older
  <1>12. \A j \in 0..n - 1 : ~Holds(set[j], tag)
    BY DEF Matching, Holds
  <1>13. FetchEffect(set, new, n, v, tag, dirty)
    BY <1>7, <1>9, <1>10, <1>11, <1>12 DEF FetchEffect, Holds, OthersStay
  <1>14. ASSUME NEW j \in 0..n - 1 PROVE new[j].load_ts <= top + 1
    BY <1>1, <1>4, <1>7, <1>9, SMTT(30)
  <1> QED
    BY <1>2, <1>13, <1>14 DEF new

\* Writing one block back costs its words when it is dirty.
LEMMA OneWriteBack ==
  ASSUME args \in Arguments, is_valid_argument(args), NEW set, NEW v
  PROVE  WriteBack(set, {v}) = IF set[v].dirty THEN Penalty ELSE 0
  <1>1. Penalty \in Nat /\ Cardinality({v}) = 1
    BY PenaltyIsNat, FS_Singleton
  <1>2. CASE set[v].dirty
    <2>1. {i \in {v} : set[i].dirty} = {v}
      BY <1>2
    <2>2. WriteBack(set, {v}) = Penalty * 1
      BY <1>1, <2>1 DEF WriteBack
    <2> QED
      BY <1>1, <1>2, <2>2
  <1>3. CASE ~set[v].dirty
    <2>1. {i \in {v} : set[i].dirty} = {}
      BY <1>3
    <2>2. WriteBack(set, {v}) = Penalty * 0
      BY <2>1, FS_EmptySet DEF WriteBack
    <2> QED
      BY <1>1, <1>3, <2>2
  <1> QED
    BY <1>2, <1>3
-----------------------------------------------------------------------------
(* What an access does to the cache                                        *)

\* Every set is in order, only filled blocks are dirty, and the load times of a
\* FIFO cache are smaller than the accesses allow.
OrderlySet(set, accesses) ==
  /\ InOrder(set, args, args.blocks)
  /\ \A i \in 0..args.blocks - 1 : set[i].dirty => set[i].valid
  /\ args.evic_policy # "lru" =>
       \A i \in 0..args.blocks - 1 : set[i].load_ts < args.blocks + accesses

OrderInv ==
  is_valid_argument(args) =>
    \A s \in 0..args.num_sets - 1 : OrderlySet(sets[s], stats.loads + stats.stores)

\* The load times of FIFO caches do not wrap.
LoadTimesFit ==
  \A a \in Arguments : a.evic_policy = "fifo" => a.blocks + MaxAccesses <= Word

\* The sets of a cache span less than the memory, so that no tag is shifted too
\* short.
TagsFit ==
  \A a \in Arguments : is_valid_argument(a) => a.num_sets * a.bytes < Word

Mark(isStore) == IF isStore THEN args.write_back ELSE FALSE
Sent(isStore) == IF isStore THEN Through ELSE 0
Outcome(isStore, hit) == IF isStore THEN IF hit THEN "store_hits" ELSE "store_misses"
                         ELSE IF hit THEN "load_hits" ELSE "load_misses"
Counted(isStore, hit, cycles) ==
  Count(IF isStore THEN "stores" ELSE "loads", Outcome(isStore, hit), cycles)

\* A hit, a miss that fetches the block, or a store that passes it by.
Effect(s, tag, isStore) ==
  /\ \A r \in 0..args.num_sets - 1 : r # s => sets'[r] = sets[r]
  /\ args.evic_policy # "lru" =>
       \A j \in 0..args.blocks - 1 :
         sets'[s][j].load_ts < args.blocks + (stats.loads + stats.stores) + 1
  /\ \/ /\ \E i \in 0..args.blocks - 1 :
             HitEffect(sets[s], sets'[s], args.blocks, i, tag, Mark(isStore))
        /\ Counted(isStore, TRUE, Sent(isStore))
     \/ /\ isStore => args.write_alloc
        /\ \E v \in 0..args.blocks - 1 :
             /\ FetchEffect(sets[s], sets'[s], args.blocks, v, tag, Mark(isStore))
             /\ Counted(isStore, FALSE,
                        Penalty + (IF sets[s][v].dirty THEN Penalty ELSE 0) + Sent(isStore))
     \/ /\ isStore /\ ~args.write_alloc
        /\ \A j \in 0..args.blocks - 1 : ~Holds(sets[s][j], tag)
        /\ sets'[s] = sets[s]
        /\ Counted(isStore, FALSE, StoreCost)

\* What the sets are, before an access and after it.
LEMMA BeforeAccess ==
  ASSUME IInv, OrderInv, is_valid_argument(args), NEW s \in 0..args.num_sets - 1
  PROVE  /\ args \in Arguments
         /\ args.blocks \in Nat \ {0} /\ args.blocks < Word /\ Word \in Nat
         /\ args.write_back \in BOOLEAN /\ args.write_alloc \in BOOLEAN
         /\ SetOK(sets[s]) /\ sets[s] \in [0..args.blocks - 1 -> Block]
         /\ args.evic_policy = "lru" => DistinctAges(sets[s], args.blocks)
         /\ OrderlySet(sets[s], stats.loads + stats.stores)
         /\ stats.loads + stats.stores \in Nat
         /\ \A new : sets' = [sets EXCEPT ![s] = new] =>
              /\ sets'[s] = new
              /\ \A r \in 0..args.num_sets - 1 : r # s => sets'[r] = sets[r]
         /\ StoreCost \in Nat /\ Penalty \in Nat /\ Through \in Nat
         /\ args.evic_policy \in {"lru", "fifo"}
  <1>1. args \in Arguments /\ DOMAIN sets = 0..args.num_sets - 1 /\ stats \in [Counter -> Nat]
    BY DEF IInv, TypeOK
  <1>2. /\ args.blocks \in Nat \ {0} /\ args.blocks < Word
        /\ args.write_back \in BOOLEAN /\ args.write_alloc \in BOOLEAN
        /\ args.evic_policy \in {"lru", "fifo"}
    BY <1>1, ValidArguments
  <1>3. SetOK(sets[s]) /\ sets[s] \in [0..args.blocks - 1 -> Block]
    BY SetsAreOK DEF SetOK
  <1>4. args.evic_policy = "lru" => DistinctAges(sets[s], args.blocks)
    BY SetsAreOrderly DEF Orderly
  <1>5. OrderlySet(sets[s], stats.loads + stats.stores)
    BY DEF OrderInv
  <1>6. stats.loads + stats.stores \in Nat
    BY <1>1 DEF Counter
  <1>7. StoreCost \in Nat /\ Penalty \in Nat /\ Through \in Nat /\ Word \in Nat
    BY <1>1, ArgumentsAssumption, PenaltyIsNat DEF Through
  <1> QED
    BY <1>1, <1>2, <1>3, <1>4, <1>5, <1>6, <1>7

\* The latest load time of a FIFO set.
LEMMA LatestFits ==
  ASSUME IInv, OrderInv, LoadTimesFit, is_valid_argument(args),
         stats.loads + stats.stores < MaxAccesses,
         args.evic_policy # "lru", NEW s \in 0..args.num_sets - 1
  PROVE  \E top \in Nat : /\ top + 1 < Word
                          /\ top + 1 = args.blocks + (stats.loads + stats.stores)
                          /\ \A j \in 0..args.blocks - 1 : sets[s][j].load_ts <= top
  <1>1. /\ args \in Arguments /\ args.blocks \in Nat \ {0} /\ Word \in Nat
        /\ OrderlySet(sets[s], stats.loads + stats.stores)
        /\ sets[s] \in [0..args.blocks - 1 -> Block]
        /\ args.evic_policy = "fifo"
    BY BeforeAccess
  <1>2. PICK n \in Nat \ {0}, c \in Nat : n = args.blocks /\ c = stats.loads + stats.stores
    BY BeforeAccess
  <1>3. n + MaxAccesses <= Word /\ c < MaxAccesses /\ MaxAccesses \in Nat
    BY <1>1, <1>2, ArgumentsAssumption DEF LoadTimesFit
  <1>4. \A j \in 0..n - 1 : sets[s][j].load_ts < n + c /\ sets[s][j].load_ts \in Nat
    <2>1. OrderlySet(sets[s], c)
      BY <1>1, <1>2
    <2>2. \A j \in 0..n - 1 : sets[s][j].load_ts < n + c
      BY <1>1, <1>2, <2>1 DEF OrderlySet
    <2>3. \A j \in 0..n - 1 : sets[s][j] \in Block
      BY <1>1, <1>2
    <2>4. \A b \in Block : b.load_ts \in Nat
      BY <1>1 DEF Block
    <2> QED
      BY <2>2, <2>3, <2>4
  <1>5. n + c - 1 \in Nat /\ n + c - 1 + 1 < Word /\ n + c - 1 + 1 = n + c
    BY <1>1, <1>3
  <1>6. \A j \in 0..n - 1 : sets[s][j].load_ts <= n + c - 1
    BY <1>4
  <1> QED
    BY <1>2, <1>5, <1>6

\* The three kinds of access, by either policy.
LEMMA HitIsEffect ==
  ASSUME IInv, OrderInv, is_valid_argument(args), NEW s \in 0..args.num_sets - 1,
         NEW tag \in 0..Word - 1, NEW isStore \in BOOLEAN,
         Matching(sets[s], tag) # {}, NEW new,
         new = IF args.evic_policy = "lru" THEN Touch(sets[s], Min(Matching(sets[s], tag)))
               ELSE sets[s],
         sets' = [sets EXCEPT ![s] = IF isStore THEN Marked(new, Min(Matching(sets[s], tag)))
                                     ELSE new],
         Counted(isStore, TRUE, Sent(isStore))
  PROVE  Effect(s, tag, isStore)
  <1> DEFINE set == sets[s]
  <1>1. PICK n \in Nat \ {0} : n = args.blocks /\ n < Word
    BY BeforeAccess
  <1>2. /\ args \in Arguments /\ SetOK(set) /\ set \in [0..n - 1 -> Block]
        /\ args.evic_policy = "lru" => DistinctAges(set, n)
        /\ OrderlySet(set, stats.loads + stats.stores)
        /\ stats.loads + stats.stores \in Nat
    BY <1>1, BeforeAccess
  <1>3. PICK i \in 0..n - 1 : i = Min(Matching(set, tag))
    BY <1>2, MatchingMin
  <1>4. HitEffect(set, new, n, i, tag, FALSE) /\ new \in [0..n - 1 -> Block]
    <2>1. CASE args.evic_policy = "lru"
      <3> HIDE DEF set
      <3> QED
        BY <1>1, <1>2, <1>3, <2>1, TouchEffect DEF set
    <2>2. CASE args.evic_policy # "lru"
      BY <1>1, <1>2, <1>3, <2>2, FoundEffect
    <2> QED
      BY <2>1, <2>2
  <1>5. PICK after : after = IF isStore THEN Marked(new, i) ELSE new
    OBVIOUS
  <1>6. HitEffect(set, after, n, i, tag, Mark(isStore))
    <2>1. CASE isStore
      <3>1. HitEffect(set, Marked(new, i), n, i, tag, args.write_back)
        BY <1>2, <1>4, MarkedEffect
      <3> QED
        BY <1>5, <2>1, <3>1 DEF Mark
    <2>2. CASE ~isStore
      BY <1>4, <1>5, <2>2 DEF Mark
    <2> QED
      BY <2>1, <2>2
  <1>7. sets'[s] = after /\ \A r \in 0..args.num_sets - 1 : r # s => sets'[r] = sets[r]
    <2>1. sets' = [sets EXCEPT ![s] = after]
      BY <1>3, <1>5
    <2> QED
      BY <2>1, BeforeAccess, ZenonT(60)
  <1>8. ASSUME args.evic_policy # "lru", NEW j \in 0..n - 1
        PROVE  after[j].load_ts < n + (stats.loads + stats.stores) + 1
    <2>1. after[j].load_ts = set[j].load_ts
      BY <1>6, <1>8 DEF HitEffect
    <2>2. set[j].load_ts < n + (stats.loads + stats.stores)
      BY <1>1, <1>2, <1>8 DEF OrderlySet
    <2>3. set[j].load_ts \in Int
      <3>1. set[j] \in Block
        BY <1>2
      <3>2. \A b \in Block : b.load_ts \in Int
        BY ArgumentsAssumption DEF Block
      <3> QED
        BY <3>1, <3>2
    <2> QED
      BY <1>2, <2>1, <2>2, <2>3
  <1> QED
    BY <1>1, <1>6, <1>7, <1>8 DEF Effect

\* The blocks that a miss refills, and what it costs when it is one block.
Victims(set) == IF args.evic_policy = "lru" THEN Oldest(set) ELSE {FirstIn(set)}
Refilled(set, tag, mark) == IF args.evic_policy = "lru" THEN ReplaceOldest(set, tag, mark)
                            ELSE ReplaceFirstIn(set, tag, mark)
MissCost(set, v, isStore) ==
  Penalty + (IF set[v].dirty THEN Penalty ELSE 0) + Sent(isStore)

LEMMA MissIsEffect ==
  ASSUME IInv, OrderInv, LoadTimesFit, is_valid_argument(args),
         stats.loads + stats.stores < MaxAccesses,
         NEW s \in 0..args.num_sets - 1, NEW tag \in 0..Word - 1, NEW isStore \in BOOLEAN,
         Matching(sets[s], tag) = {}, isStore => args.write_alloc,
         sets' = [sets EXCEPT ![s] = Refilled(sets[s], tag, Mark(isStore))],
         NEW cycles, Counted(isStore, FALSE, cycles),
         \A v : Victims(sets[s]) = {v} => cycles = MissCost(sets[s], v, isStore)
  PROVE  Effect(s, tag, isStore)
  <1> DEFINE set == sets[s]
             mark == Mark(isStore)
  <1>1. PICK n \in Nat \ {0} : n = args.blocks /\ n < Word
    BY BeforeAccess
  <1>2. /\ SetOK(set) /\ set \in [0..n - 1 -> Block] /\ mark \in BOOLEAN
        /\ args.evic_policy = "lru" => DistinctAges(set, n)
        /\ InOrder(set, args, n)
        /\ stats.loads + stats.stores \in Nat
    BY <1>1, BeforeAccess DEF OrderlySet, Mark
  <1>3. PICK new : new = Refilled(set, tag, mark)
    OBVIOUS
  <1> HIDE DEF mark
  <1>4. sets'[s] = new /\ \A r \in 0..args.num_sets - 1 : r # s => sets'[r] = sets[r]
    <2>1. sets' = [sets EXCEPT ![s] = new]
      BY <1>3 DEF mark
    <2> QED
      BY <2>1, BeforeAccess
  <1>5. /\ \E v \in 0..n - 1 : Victims(set) = {v} /\ FetchEffect(set, new, n, v, tag, mark)
        /\ args.evic_policy # "lru" =>
             \A j \in 0..n - 1 : new[j].load_ts < n + (stats.loads + stats.stores) + 1
    <2>1. CASE args.evic_policy = "lru"
      <3>1. new = ReplaceOldest(set, tag, mark)
        BY <1>3, <2>1 DEF Refilled
      <3>2. \E v \in 0..n - 1 :
              /\ Oldest(set) = {v}
              /\ FetchEffect(set, ReplaceOldest(set, tag, mark), n, v, tag, mark)
        <4> SetOK(set) /\ Matching(set, tag) = {} /\ DistinctAges(set, n)
          BY <1>2, <2>1
        <4> HIDE DEF set
        <4> QED
          BY <1>1, <1>2, <2>1, OldestEffect
      <3> QED
        BY <2>1, <3>1, <3>2 DEF Victims
    <2>2. CASE args.evic_policy # "lru"
      <3>1. new = ReplaceFirstIn(set, tag, mark)
        BY <1>3, <2>2 DEF Refilled
      <3>2. PICK top \in Nat :
              /\ top + 1 < Word /\ top + 1 = n + (stats.loads + stats.stores)
              /\ \A j \in 0..n - 1 : set[j].load_ts <= top
        BY <1>1, <2>2, LatestFits
      <3>3. /\ FetchEffect(set, new, n, FirstIn(set), tag, mark)
            /\ \A j \in 0..n - 1 : new[j].load_ts <= top + 1
        <4> Matching(set, tag) = {}
          OBVIOUS
        <4> HIDE DEF set
        <4> QED
          BY <1>2, <2>2, <3>1, <3>2, FirstInEffect
      <3>4. FirstIn(set) \in 0..n - 1 /\ Victims(set) = {FirstIn(set)}
        BY <2>2, <3>3 DEF FetchEffect, Victims
      <3>5. ASSUME NEW j \in 0..n - 1
            PROVE  new[j].load_ts < n + (stats.loads + stats.stores) + 1
        <4>1. new \in [0..n - 1 -> Block]
          BY <1>2, <3>1, ReplaceFirstKeepsType
        <4>2. new[j].load_ts \in Int
          <5>1. new[j] \in Block
            BY <4>1
          <5> QED
            BY <5>1, ArgumentsAssumption DEF Block
        <4> QED
          BY <1>2, <3>2, <3>3, <4>2
      <3> QED
        BY <3>3, <3>4, <3>5
    <2> QED
      BY <2>1, <2>2
  <1>6. PICK v \in 0..n - 1 : Victims(set) = {v} /\ FetchEffect(set, new, n, v, tag, mark)
    BY <1>5
  <1>7. Counted(isStore, FALSE,
                Penalty + (IF set[v].dirty THEN Penalty ELSE 0) + Sent(isStore))
    BY <1>6 DEF MissCost
  <1> QED
    BY <1>1, <1>4, <1>5, <1>6, <1>7 DEF Effect, mark

\* Every load has such an effect.
LEMMA LoadEffect ==
  ASSUME IInv, OrderInv, LoadTimesFit, is_valid_argument(args),
         stats.loads + stats.stores < MaxAccesses,
         NEW s \in 0..args.num_sets - 1, NEW tag \in 0..Word - 1,
         \/ args.evic_policy = "lru" /\ loading_lru(s, tag)
         \/ args.evic_policy = "fifo" /\ loading_fifo(s, tag)
  PROVE  Effect(s, tag, FALSE)
  <1> DEFINE set == sets[s]
             found == Matching(set, tag)
  <1>0. sets = [sets EXCEPT ![s] = sets[s]]
    BY DEF IInv, TypeOK
  <1>a. args \in Arguments /\ Penalty \in Nat
    BY BeforeAccess
  <1>1. CASE found # {}
    <2>1. Counted(FALSE, TRUE, Sent(FALSE))
      BY <1>1 DEF loading_lru, loading_fifo, Counted, Outcome, Sent
    <2>2. PICK new : new = IF args.evic_policy = "lru" THEN Touch(set, Min(found)) ELSE set
      OBVIOUS
    <2>3. sets' = [sets EXCEPT ![s] = IF FALSE THEN Marked(new, Min(found)) ELSE new]
      BY <1>0, <1>1, <2>2 DEF loading_lru, loading_fifo
    <2> QED
      BY <1>1, <2>1, <2>2, <2>3, HitIsEffect
  <1>2. CASE found = {}
    <2>1. PICK cycles :
            /\ Count("loads", "load_misses", cycles)
            /\ cycles = IF args.evic_policy = "lru"
                        THEN Penalty * Cardinality(Oldest(set)) + WriteBack(set, Oldest(set))
                        ELSE Penalty + WriteBack(set, {FirstIn(set)})
      BY <1>2 DEF loading_lru, loading_fifo
    <2>2. Counted(FALSE, FALSE, cycles)
      BY <2>1 DEF Counted, Outcome
    <2>3. sets' = [sets EXCEPT ![s] = Refilled(set, tag, Mark(FALSE))]
      BY <1>2 DEF loading_lru, loading_fifo, Refilled, Mark
    <2>4. ASSUME NEW v, Victims(set) = {v} PROVE cycles = MissCost(set, v, FALSE)
      <3>1. WriteBack(set, {v}) = IF set[v].dirty THEN Penalty ELSE 0
        BY <1>a, OneWriteBack
      <3>2. Cardinality({v}) = 1
        BY FS_Singleton
      <3>3. cycles = IF args.evic_policy = "lru"
                     THEN Penalty * Cardinality({v}) + WriteBack(set, {v})
                     ELSE Penalty + WriteBack(set, {v})
        BY <2>1, <2>4 DEF Victims
      <3> QED
        BY <1>a, <3>1, <3>2, <3>3 DEF MissCost, Sent
    <2> QED
      BY <1>2, <2>2, <2>3, <2>4, MissIsEffect
  <1> QED
    BY <1>1, <1>2

\* Every store, too.
LEMMA StoreEffect ==
  ASSUME IInv, OrderInv, LoadTimesFit, is_valid_argument(args),
         stats.loads + stats.stores < MaxAccesses,
         NEW s \in 0..args.num_sets - 1, NEW tag \in 0..Word - 1,
         \/ args.evic_policy = "lru" /\ storing_lru(s, tag)
         \/ args.evic_policy # "lru" /\ storing_fifo(s, tag)
  PROVE  Effect(s, tag, TRUE)
  <1> DEFINE set == sets[s]
             found == Matching(set, tag)
  <1>a. /\ args \in Arguments /\ Penalty \in Nat /\ Through \in Nat
        /\ args.write_alloc \in BOOLEAN
    BY BeforeAccess
  <1>1. CASE found # {}
    <2>1. Counted(TRUE, TRUE, Sent(TRUE))
      BY <1>1 DEF storing_lru, storing_fifo, Counted, Outcome, Sent
    <2>2. PICK new : new = IF args.evic_policy = "lru" THEN Touch(set, Min(found)) ELSE set
      OBVIOUS
    <2>3. sets' = [sets EXCEPT ![s] = IF TRUE THEN Marked(new, Min(found)) ELSE new]
      BY <1>1, <2>2 DEF storing_lru, storing_fifo
    <2> QED
      BY <1>1, <2>1, <2>2, <2>3, HitIsEffect
  <1>2. CASE found = {} /\ args.write_alloc
    <2>1. PICK cycles :
            /\ Count("stores", "store_misses", cycles)
            /\ cycles = IF args.evic_policy = "lru"
                        THEN Penalty + WriteBack(set, Oldest(set))
                                     + Through * Cardinality(Oldest(set))
                        ELSE Penalty + WriteBack(set, {FirstIn(set)}) + Through
      BY <1>2 DEF storing_lru, storing_fifo, storing_miss_fifo
    <2>2. Counted(TRUE, FALSE, cycles)
      BY <2>1 DEF Counted, Outcome
    <2>3. sets' = [sets EXCEPT ![s] = Refilled(set, tag, Mark(TRUE))]
      BY <1>2 DEF storing_lru, storing_fifo, storing_miss_fifo, Refilled, Mark
    <2>4. ASSUME NEW v, Victims(set) = {v} PROVE cycles = MissCost(set, v, TRUE)
      <3>1. WriteBack(set, {v}) = IF set[v].dirty THEN Penalty ELSE 0
        BY <1>a, OneWriteBack
      <3>2. Cardinality({v}) = 1
        BY FS_Singleton
      <3>3. cycles = IF args.evic_policy = "lru"
                     THEN Penalty + WriteBack(set, {v}) + Through * Cardinality({v})
                     ELSE Penalty + WriteBack(set, {v}) + Through
        BY <2>1, <2>4 DEF Victims
      <3> QED
        BY <1>a, <3>1, <3>2, <3>3 DEF MissCost, Sent
    <2> QED
      BY <1>2, <2>2, <2>3, <2>4, MissIsEffect
  <1>3. CASE found = {} /\ ~args.write_alloc
    <2>1. UNCHANGED sets /\ Count("stores", "store_misses", StoreCost)
      BY <1>3 DEF storing_lru, storing_fifo, storing_miss_fifo
    <2>2. PICK n \in Nat \ {0} : n = args.blocks
      BY BeforeAccess
    <2>3. set \in [0..n - 1 -> Block] /\ stats.loads + stats.stores \in Nat
      BY <2>2, BeforeAccess
    <2>4. \A j \in 0..n - 1 : ~Holds(set[j], tag)
      BY <1>3, <2>3 DEF Matching, Holds
    <2>5. ASSUME args.evic_policy # "lru", NEW j \in 0..n - 1
          PROVE  set[j].load_ts < n + (stats.loads + stats.stores) + 1
      <3>1. set[j].load_ts < n + (stats.loads + stats.stores)
        BY <2>2, <2>5, BeforeAccess DEF OrderlySet
      <3>2. set[j] \in Block
        BY <2>3
      <3>3. set[j].load_ts \in Int
        BY <3>2, ArgumentsAssumption DEF Block
      <3> QED
        BY <2>3, <3>1, <3>3
    <2>6. Counted(TRUE, FALSE, StoreCost)
      BY <2>1 DEF Counted, Outcome
    <2> QED
      BY <1>3, <2>1, <2>2, <2>4, <2>5, <2>6 DEF Effect
  <1> QED
    BY <1>a, <1>1, <1>2, <1>3
-----------------------------------------------------------------------------
(* The order of eviction after any trace                                   *)

\* An access is counted once.
LEMMA CountAccesses ==
  ASSUME stats \in [Counter -> Nat], NEW isStore \in BOOLEAN, NEW hit \in BOOLEAN,
         NEW cycles, Counted(isStore, hit, cycles)
  PROVE  /\ stats'.loads + stats'.stores = stats.loads + stats.stores + 1
         /\ stats'.total_cycles = stats.total_cycles + 1 + cycles
         /\ \A c \in {"load_hits", "load_misses", "store_hits", "store_misses"} :
              stats'[c] = IF c = Outcome(isStore, hit) THEN stats[c] + 1 ELSE stats[c]
  <1> DEFINE access == IF isStore THEN "stores" ELSE "loads"
             outcome == Outcome(isStore, hit)
  <1>1. /\ access \in {"loads", "stores"}
        /\ outcome \in {"load_hits", "load_misses", "store_hits", "store_misses"}
    BY DEF Outcome
  <1>2. stats' = [stats EXCEPT ![access] = @ + 1, ![outcome] = @ + 1,
                               !.total_cycles = @ + 1 + cycles]
    BY DEF Counted, Count
  <1> HIDE DEF outcome, access
  <1>3. DOMAIN stats = Counter
    OBVIOUS
  <1>4. /\ stats'.total_cycles = stats.total_cycles + 1 + cycles
        /\ \A c \in {"load_hits", "load_misses", "store_hits", "store_misses"} :
             stats'[c] = IF c = outcome THEN stats[c] + 1 ELSE stats[c]
        /\ stats'.loads = IF access = "loads" THEN stats.loads + 1 ELSE stats.loads
        /\ stats'.stores = IF access = "stores" THEN stats.stores + 1 ELSE stats.stores
    BY <1>1, <1>2, <1>3 DEF Counter
  <1>5. stats.loads \in Nat /\ stats.stores \in Nat
    BY DEF Counter
  <1> QED
    BY <1>1, <1>4, <1>5 DEF outcome

\* The set that is looked in stays orderly.
LEMMA EffectKeepsSet ==
  ASSUME IInv, OrderInv, is_valid_argument(args), NEW s \in 0..args.num_sets - 1,
         NEW tag, NEW isStore \in BOOLEAN, Effect(s, tag, isStore)
  PROVE  OrderlySet(sets'[s], stats.loads + stats.stores + 1)
  <1> DEFINE set == sets[s]
             new == sets'[s]
  <1>1. PICK n \in Nat \ {0} : n = args.blocks
    BY BeforeAccess
  <1>2. /\ InOrder(set, args, n)
        /\ \A j \in 0..n - 1 : set[j].dirty => set[j].valid
        /\ \A j \in 0..n - 1 : set[j].dirty \in BOOLEAN
    <2>1. OrderlySet(set, stats.loads + stats.stores)
      BY BeforeAccess
    <2>2. \A j \in 0..n - 1 : set[j] \in Block
      BY <1>1, BeforeAccess
    <2>3. \A b \in Block : b.dirty \in BOOLEAN
      BY DEF Block
    <2> QED
      BY <1>1, <2>1, <2>2, <2>3 DEF OrderlySet
  <1>3. args.evic_policy # "lru" =>
          \A j \in 0..n - 1 : new[j].load_ts < n + (stats.loads + stats.stores + 1)
    <2>1. args.evic_policy # "lru" =>
            \A j \in 0..n - 1 : new[j].load_ts < n + (stats.loads + stats.stores) + 1
      BY <1>1 DEF Effect
    <2>2. PICK c \in Nat : c = stats.loads + stats.stores
      BY BeforeAccess
    <2>3. n + c + 1 = n + (c + 1)
      BY <2>2
    <2> QED
      BY <2>1, <2>2, <2>3
  <1>4. CASE \E i \in 0..n - 1 : HitEffect(set, new, n, i, tag, Mark(isStore))
    <2>1. PICK i \in 0..n - 1 : HitEffect(set, new, n, i, tag, Mark(isStore))
      BY <1>4
    <2>2. /\ Holds(set[i], tag) /\ Holds(new[i], tag) /\ OthersStay(set, new, n, i)
          /\ IF args.evic_policy = "lru" THEN MovedBack(set, new, args, n, i)
             ELSE \A j \in 0..n - 1 : new[j].load_ts = set[j].load_ts
          /\ \A j \in 0..n - 1 : new[j].dirty = (set[j].dirty \/ (Mark(isStore) /\ j = i))
      BY <2>1 DEF HitEffect
    <2>3. InOrder(new, args, n)
      <3>1. CASE args.evic_policy = "lru"
        BY <1>2, <2>2, <3>1, MovedBackInOrder DEF Holds
      <3>2. CASE args.evic_policy # "lru"
        <4>1. \A j \in 0..n - 1 : new[j].valid <=> set[j].valid
          BY <2>2 DEF Holds, OthersStay
        <4>2. \A j, k \in 0..n - 1 : Older(new, args, j, k) <=> Older(set, args, j, k)
          BY <2>2, <3>2 DEF Older
        <4> QED
          BY <1>2, <4>1, <4>2 DEF InOrder
      <3> QED
        BY <3>1, <3>2
    <2>4. ASSUME NEW j \in 0..n - 1, new[j].dirty PROVE new[j].valid
      <3>1. CASE j = i
        BY <2>2, <3>1 DEF Holds
      <3>2. CASE j # i
        <4>1. set[j].dirty
          BY <2>2, <2>4, <3>2
        <4> QED
          BY <1>2, <2>2, <3>2, <4>1 DEF OthersStay
      <3> QED
        BY <3>1, <3>2
    <2> QED
      BY <1>1, <1>3, <2>3, <2>4 DEF OrderlySet
  <1>5. CASE \E v \in 0..n - 1 : FetchEffect(set, new, n, v, tag, Mark(isStore))
    <2>1. PICK v \in 0..n - 1 : FetchEffect(set, new, n, v, tag, Mark(isStore))
      BY <1>5
    <2>2. /\ Holds(new[v], tag) /\ OthersStay(set, new, n, v)
          /\ MovedBack(set, new, args, n, v)
          /\ \A j \in 0..n - 1 : new[j].dirty = IF j = v THEN Mark(isStore) ELSE set[j].dirty
      BY <2>1 DEF FetchEffect
    <2>3. InOrder(new, args, n)
      BY <1>2, <2>2, MovedBackInOrder DEF Holds
    <2>4. ASSUME NEW j \in 0..n - 1, new[j].dirty PROVE new[j].valid
      <3>1. CASE j = v
        BY <2>2, <3>1 DEF Holds
      <3>2. CASE j # v
        <4>1. set[j].dirty
          BY <2>2, <2>4, <3>2
        <4> QED
          BY <1>2, <2>2, <3>2, <4>1 DEF OthersStay
      <3> QED
        BY <3>1, <3>2
    <2> QED
      BY <1>1, <1>3, <2>3, <2>4 DEF OrderlySet
  <1>6. CASE new = set
    BY <1>1, <1>2, <1>3, <1>6 DEF OrderlySet
  <1> QED
    BY <1>1, <1>4, <1>5, <1>6 DEF Effect

\* And so do the others.
LEMMA EffectKeepsOrder ==
  ASSUME IInv, OrderInv, is_valid_argument(args), UNCHANGED args,
         NEW s \in 0..args.num_sets - 1,
         NEW tag, NEW isStore \in BOOLEAN, Effect(s, tag, isStore)
  PROVE  OrderInv'
  <1>1. stats \in [Counter -> Nat]
    BY DEF IInv, TypeOK
  <1>2. stats'.loads + stats'.stores = stats.loads + stats.stores + 1
    <2>1. \E hit \in BOOLEAN : \E cycles : Counted(isStore, hit, cycles)
      BY DEF Effect
    <2> QED
      BY <1>1, <2>1, CountAccesses
  <1>3. ASSUME NEW r \in 0..args.num_sets - 1
        PROVE  OrderlySet(sets'[r], stats.loads + stats.stores + 1)
    <2>1. CASE r = s
      BY <2>1, EffectKeepsSet
    <2>2. CASE r # s
      <3>1. sets'[r] = sets[r]
        BY <2>2 DEF Effect
      <3>2. OrderlySet(sets[r], stats.loads + stats.stores)
        BY DEF OrderInv
      <3>3. PICK n \in Nat, c \in Nat : n = args.blocks /\ c = stats.loads + stats.stores
        BY BeforeAccess
      <3>4. \A j \in 0..n - 1 : sets[r][j].load_ts \in Int
        <4>1. \A j \in 0..n - 1 : sets[r][j] \in Block
          BY <3>3, BeforeAccess, SMTT(30)
        <4> QED
          BY <4>1, ArgumentsAssumption DEF Block
      <3>5. args.evic_policy # "lru" => \A j \in 0..n - 1 : sets[r][j].load_ts < n + (c + 1)
        <4>1. args.evic_policy # "lru" => \A j \in 0..n - 1 : sets[r][j].load_ts < n + c
          BY <3>2, <3>3 DEF OrderlySet
        <4> QED
          BY <3>3, <3>4, <4>1
      <3> QED
        BY <3>1, <3>2, <3>3, <3>5 DEF OrderlySet
    <2> QED
      BY <2>1, <2>2
  <1> QED
    BY <1>2, <1>3 DEF OrderInv, OrderlySet, InOrder, Older

\* A cache starts in order.
LEMMA OrderInit == Init => OrderInv
  <1> SUFFICES ASSUME Init, is_valid_argument(args), NEW s \in 0..args.num_sets - 1
               PROVE  OrderlySet(sets[s], stats.loads + stats.stores)
    BY DEF OrderInv
  <1>1. args \in Arguments
    BY DEF Init
  <1>2. PICK n \in Nat \ {0} : n = args.blocks
    BY <1>1, ValidArguments
  <1>3. sets[s] = EmptySet(n)
    BY <1>2 DEF Init
  <1>4. \A i \in 0..n - 1 : /\ sets[s][i].valid = FALSE /\ sets[s][i].dirty = FALSE
                            /\ sets[s][i].access_ts = i /\ sets[s][i].load_ts = i
    BY <1>3 DEF EmptySet
  <1>5. stats.loads = 0 /\ stats.stores = 0
    BY DEF Init, Counter
  <1>6. InOrder(sets[s], args, n)
    BY <1>4 DEF InOrder, Older
  <1>7. \A i \in 0..n - 1 : sets[s][i].load_ts < n + (0 + 0)
    BY <1>4
  <1> QED
    BY <1>2, <1>4, <1>5, <1>6, <1>7 DEF OrderlySet

\* Every step of the simulator is such an access, or leaves the cache alone.
LEMMA StepIsEffect ==
  ASSUME IInv, OrderInv, LoadTimesFit, [Next]_vars
  PROVE  \/ UNCHANGED <<args, sets, stats>>
         \/ /\ is_valid_argument(args) /\ UNCHANGED args
            /\ \E addr \in Address, isStore \in BOOLEAN :
                 /\ IndexOf(addr % Word) \in 0..args.num_sets - 1
                 /\ TagOf(addr % Word) \in 0..Word - 1
                 /\ Effect(IndexOf(addr % Word), TagOf(addr % Word), isStore)
  <1>1. args \in Arguments
    BY DEF IInv, TypeOK
  <1>2. CASE Load
    <2>1. PICK addr \in Address : loading(addr % Word)
      BY <1>2 DEF Load
    <2>2. /\ is_valid_argument(args) /\ UNCHANGED args
          /\ stats.loads + stats.stores < MaxAccesses
      BY <1>2 DEF Load, MayRead, IInv, StatusInv
    <2>3. PICK s \in 0..args.num_sets - 1 : s = IndexOf(addr % Word)
      BY <1>1, <2>2, AddressParts
    <2>4. PICK tag \in 0..Word - 1 : tag = TagOf(addr % Word)
      BY <1>1, <2>2, AddressParts
    <2>5. \/ args.evic_policy = "lru" /\ loading_lru(s, tag)
          \/ args.evic_policy = "fifo" /\ loading_fifo(s, tag)
      BY <2>1, <2>3, <2>4 DEF loading
    <2>6. Effect(s, tag, FALSE)
      BY <2>2, <2>5, LoadEffect
    <2> QED
      BY <2>2, <2>3, <2>4, <2>6
  <1>3. CASE Store
    <2>1. PICK addr \in Address : storing(addr % Word)
      BY <1>3 DEF Store
    <2>2. /\ is_valid_argument(args) /\ UNCHANGED args
          /\ stats.loads + stats.stores < MaxAccesses
      BY <1>3 DEF Store, MayRead, IInv, StatusInv
    <2>3. PICK s \in 0..args.num_sets - 1 : s = IndexOf(addr % Word)
      BY <1>1, <2>2, AddressParts
    <2>4. PICK tag \in 0..Word - 1 : tag = TagOf(addr % Word)
      BY <1>1, <2>2, AddressParts
    <2>5. \/ args.evic_policy = "lru" /\ storing_lru(s, tag)
          \/ args.evic_policy # "lru" /\ storing_fifo(s, tag)
      BY <2>1, <2>3, <2>4 DEF storing
    <2>6. Effect(s, tag, TRUE)
      BY <2>2, <2>5, StoreEffect
    <2> QED
      BY <2>2, <2>3, <2>4, <2>6
  <1>4. CASE InvalidOperation \/ print_stats \/ UNCHANGED vars
    BY <1>4 DEF InvalidOperation, print_stats, vars
  <1> QED
    BY <1>2, <1>3, <1>4 DEF Next

\* So every set stays in order.
LEMMA OrderStep ==
  ASSUME IInv, OrderInv, LoadTimesFit, [Next]_vars
  PROVE  OrderInv'
  <1>1. CASE UNCHANGED <<args, sets, stats>>
    BY <1>1 DEF OrderInv, OrderlySet, InOrder, Older, is_valid_argument
  <1>2. CASE /\ is_valid_argument(args) /\ UNCHANGED args
             /\ \E addr \in Address, isStore \in BOOLEAN :
                  /\ IndexOf(addr % Word) \in 0..args.num_sets - 1
                  /\ TagOf(addr % Word) \in 0..Word - 1
                  /\ Effect(IndexOf(addr % Word), TagOf(addr % Word), isStore)
    <2>1. PICK addr \in Address, isStore \in BOOLEAN :
            /\ IndexOf(addr % Word) \in 0..args.num_sets - 1
            /\ Effect(IndexOf(addr % Word), TagOf(addr % Word), isStore)
      BY <1>2
    <2> QED
      BY <1>2, <2>1, EffectKeepsOrder
  <1> QED
    BY <1>1, <1>2, StepIsEffect
-----------------------------------------------------------------------------
(* The numbers of the memory blocks                                        *)

\* Quotient and remainder.
LEMMA QuotientAndRemainder ==
  ASSUME NEW x \in Nat, NEW b \in Nat \ {0}
  PROVE  \E q \in Nat, r \in 0..b - 1 : q = x \div b /\ r = x % b /\ x = q * b + r
  <1>1. PICK q \in Int, r \in Int : q = x \div b /\ r = x % b
    OBVIOUS
  <1>2. x = q * b + r /\ r \in 0..b - 1
    BY <1>1
  <1>3. q \in Nat
    BY <1>1, QuotientBound
  <1> QED
    BY <1>1, <1>2, <1>3

\* They are the only ones.
LEMMA OneQuotient ==
  ASSUME NEW b \in Nat \ {0}, NEW q \in Nat, NEW r \in 0..b - 1,
         NEW p \in Nat, NEW t \in 0..b - 1, q * b + r = p * b + t
  PROVE  q = p /\ r = t
  <1>1. ASSUME NEW x \in Nat, NEW y \in Nat, x < y PROVE y * b >= x * b + b
    <2>1. (y - x - 1) * b >= 0
      BY <1>1
    <2>2. (y - x - 1) * b = y * b - x * b - b
      OBVIOUS
    <2>3. x * b \in Int /\ y * b \in Int
      OBVIOUS
    <2> QED
      BY <2>1, <2>2, <2>3
  <1>2. PICK m \in Int, n \in Int : m = q * b /\ n = p * b
    OBVIOUS
  <1>3. m + r = n + t
    BY <1>2
  <1>4. ~(q < p)
    <2>1. q < p => n >= m + b
      BY <1>1, <1>2
    <2> QED
      BY <1>3, <2>1
  <1>5. ~(p < q)
    <2>1. p < q => m >= n + b
      BY <1>1, <1>2
    <2> QED
      BY <1>3, <2>1
  <1>6. q = p
    BY <1>4, <1>5
  <1>7. m = n
    BY <1>2, <1>6
  <1> QED
    BY <1>3, <1>6, <1>7

\* Sets and tags give different memory blocks different numbers.
LEMMA Numbers ==
  ASSUME NEW a, a.num_sets \in Nat \ {0},
         NEW s \in 0..a.num_sets - 1, NEW tag \in Nat
  PROVE  /\ Number(tag, s, a) \in Nat
         /\ \A r \in 0..a.num_sets - 1, t \in Nat :
              Number(tag, s, a) = Number(t, r, a) => s = r /\ tag = t
  <1>1. PICK n \in Nat \ {0} : n = a.num_sets
    OBVIOUS
  <1>2. tag * n + s \in Nat
    OBVIOUS
  <1>3. ASSUME NEW r \in 0..n - 1, NEW t \in Nat, tag * n + s = t * n + r
        PROVE  s = r /\ tag = t
    BY <1>1, <1>3, OneQuotient
  <1> QED
    BY <1>1, <1>2, <1>3 DEF Number

\* A memory block is in the set, and has the tag, that its addresses give.
LEMMA BlockOfAddress ==
  ASSUME NEW x \in Nat, args.num_sets \in Nat \ {0}, args.bytes \in Nat \ {0},
         args.num_sets * args.bytes < Word
  PROVE  /\ x \div args.bytes = TagOf(x) * args.num_sets + IndexOf(x)
         /\ (x \div args.bytes) % args.num_sets = IndexOf(x)
         /\ TagOf(x) \in Nat
  <1>1. PICK n \in Nat \ {0}, b \in Nat \ {0} : n = args.num_sets /\ b = args.bytes
    OBVIOUS
  <1>2. PICK q \in Nat, r \in 0..b - 1 : q = x \div b /\ r = x % b /\ x = q * b + r
    BY QuotientAndRemainder
  <1>3. PICK t \in Nat, s \in 0..n - 1 : t = q \div n /\ s = q % n /\ q = t * n + s
    BY QuotientAndRemainder
  <1>4. PICK c \in Nat \ {0} : c = n * b
    BY ProductPositive
  <1>5. PICK p \in Nat, u \in 0..c - 1 : p = x \div c /\ u = x % c /\ x = p * c + u
    BY QuotientAndRemainder
  <1>6. s * b + r \in 0..c - 1
    <2>1. (n - 1 - s) * b >= 0
      BY <1>3
    <2>2. (n - 1 - s) * b = n * b - b - s * b
      BY <1>3
    <2>3. s * b \in Nat
      BY <1>3
    <2>4. PICK m \in Nat : m = s * b
      BY <2>3
    <2>5. c - b - m >= 0
      BY <1>4, <2>1, <2>2, <2>4
    <2>6. m + r \in 0..c - 1
      BY <1>2, <2>5
    <2> QED
      BY <2>4, <2>6
  <1>7. t * c + (s * b + r) = x
    <2>1. q * b = t * n * b + s * b
      BY <1>3
    <2>2. t * c = t * n * b
      BY <1>4
    <2>3. PICK k \in Int, l \in Int : k = t * c /\ l = s * b
      BY <1>3
    <2> QED
      BY <1>2, <2>1, <2>2, <2>3
  <1>8. t = p
    <2>1. PICK w \in 0..c - 1 : w = s * b + r
      BY <1>6
    <2>2. t * c + w = p * c + u
      BY <1>5, <1>7, <2>1
    <2> QED
      BY <2>2, OneQuotient
  <1>9. TagOf(x) = t
    BY <1>1, <1>4, <1>5, <1>8 DEF TagOf
  <1>10. IndexOf(x) = s
    BY <1>1, <1>2, <1>3 DEF IndexOf
  <1> QED
    BY <1>1, <1>2, <1>3, <1>9, <1>10
-----------------------------------------------------------------------------
(* What an access does to the queue of its set                             *)

\* The queue q of a set holds the m memory blocks that o lists.
Lists(q, o, m, set, s, n) ==
  /\ Enumerates(o, m, set, args)
  /\ \A k \in 1..m : o[k] \in 0..n - 1 /\ set[o[k]].valid
  /\ \A i \in 0..n - 1 : set[i].valid => \E k \in 1..m : o[k] = i
  /\ q \in Seq(Int) /\ Len(q) = m
  /\ \A k \in 1..m : q[k] = Number(set[o[k]].tag, s, args)

LEMMA QueueIsList ==
  ASSUME NEW n \in Nat, NEW set \in [0..n - 1 -> Block], InOrder(set, args, n),
         args.num_sets \in Nat \ {0}, NEW s \in 0..args.num_sets - 1
  PROVE  \E m, o : m \in Nat /\ Lists(QueueOf(set, s, args), o, m, set, s, n)
  <1> DEFINE q == QueueOf(set, s, args)
  <1>1. PICK m \in Nat : \E o \in [1..m -> Filling(set)] : Enumerates(o, m, set, args)
    BY ListExists
  <1>2. PICK o \in [1..m -> Filling(set)] : Enumerates(o, m, set, args)
    BY <1>1
  <1>3. /\ \A j \in Filling(set) : j \in 0..n - 1 /\ set[j].valid
        /\ \A j \in 0..n - 1 : set[j].valid => j \in Filling(set)
    BY DEF Filling
  <1>4. q = [k \in 1..m |-> Number(set[o[k]].tag, s, args)]
    BY <1>2, ListIsQueue
  <1>5. \A k \in 1..m : Number(set[o[k]].tag, s, args) \in Int
    <2>1. \A k \in 1..m : set[o[k]] \in Block
      BY <1>2, <1>3
    <2>2. \A b \in Block : b.tag \in Nat
      BY ArgumentsAssumption DEF Block
    <2>3. \A t \in Nat : Number(t, s, args) \in Int
      BY Numbers
    <2>4. \A k \in 1..m : set[o[k]].tag \in Nat
      BY <2>1, <2>2
    <2> QED
      BY <2>3, <2>4
  <1> HIDE DEF q
  <1>6. q \in Seq(Int) /\ Len(q) = m
    BY <1>4, <1>5
  <1>7. \A k \in 1..m : q[k] = Number(set[o[k]].tag, s, args)
    BY <1>4
  <1>8. \A k \in 1..m : o[k] \in 0..n - 1 /\ set[o[k]].valid
    BY <1>3
  <1>9. \A i \in 0..n - 1 : set[i].valid => \E k \in 1..m : o[k] = i
    BY <1>2, <1>3 DEF Enumerates
  <1>10. Lists(q, o, m, set, s, n)
    BY <1>2, <1>6, <1>7, <1>8, <1>9 DEF Lists
  <1> QED
    BY <1>10 DEF q

\* A block of the set holds the tag of every memory block in the queue.
LEMMA QueueHolds ==
  ASSUME NEW n \in Nat, NEW set \in [0..n - 1 -> Block],
         args.num_sets \in Nat \ {0}, NEW s \in 0..args.num_sets - 1, NEW tag \in Nat,
         NEW m \in Nat, NEW o, NEW q, Lists(q, o, m, set, s, n),
         NEW k \in 1..m, q[k] = Number(tag, s, args)
  PROVE  o[k] \in 0..n - 1 /\ Holds(set[o[k]], tag)
  <1>1. /\ o[k] \in 0..n - 1 /\ set[o[k]].valid /\ q[k] = Number(set[o[k]].tag, s, args)
        /\ set[o[k]] \in Block
    BY DEF Lists
  <1>2. set[o[k]].tag \in Nat
    BY <1>1, ArgumentsAssumption DEF Block
  <1>3. \A t \in Nat : Number(tag, s, args) = Number(t, s, args) => tag = t
    BY Numbers
  <1> QED
    BY <1>1, <1>2, <1>3 DEF Holds

\* The place of a memory block in the queue.
PlaceIn(queue, b) == CHOOSE k \in 1..Len(queue) : queue[k] = b

\* The queue after the block of its place p has gone to the last one.
LEMMA QueueAfterTurn ==
  ASSUME NEW n \in Nat, NEW set \in [0..n - 1 -> Block], NEW new \in [0..n - 1 -> Block],
         NEW s, NEW i \in 0..n - 1, set[i].valid, new[i].valid,
         MovedBack(set, new, args, n, i), OthersStay(set, new, n, i),
         NEW m, NEW o, NEW q, Lists(q, o, m, set, s, n), NEW p \in 1..m, o[p] = i
  PROVE  QueueOf(new, s, args) = Turned(q, m, p, Number(new[i].tag, s, args))
  <1> DEFINE r == Turned(o, m, p, i)
             t == Turned(q, m, p, Number(new[i].tag, s, args))
  <1>0. /\ Enumerates(o, m, set, args)
        /\ \A k \in 1..m : o[k] \in 0..n - 1
        /\ \A k \in 1..m : q[k] = Number(set[o[k]].tag, s, args)
    BY DEF Lists
  <1>1. m \in Nat
    BY <1>0 DEF Enumerates
  <1>2. \A k, l \in 1..m : o[k] = o[l] => k = l
    BY <1>0, ListedPlaces
  <1>3. Enumerates(r, m, new, args)
    BY <1>0, ListTurns
  <1>4. QueueOf(new, s, args) = [k \in 1..m |-> Number(new[r[k]].tag, s, args)]
    <2> HIDE DEF r
    <2> QED
      BY <1>3, ListIsQueue
  <1>5. ASSUME NEW k \in 1..m PROVE Number(new[r[k]].tag, s, args) = t[k]
    <2>1. CASE k < p
      <3>1. r[k] = o[k] /\ t[k] = q[k] /\ o[k] # i /\ o[k] \in 0..n - 1
        BY <1>0, <1>1, <1>2, <2>1 DEF Turned
      <3>2. new[o[k]].tag = set[o[k]].tag
        BY <3>1 DEF OthersStay
      <3> HIDE DEF r, t
      <3> QED
        BY <1>0, <3>1, <3>2
    <2>2. CASE ~(k < p) /\ k < m
      <3>1. k + 1 \in 1..m /\ k + 1 # p
        BY <1>1, <2>2
      <3>2. r[k] = o[k + 1] /\ t[k] = q[k + 1] /\ o[k + 1] # i /\ o[k + 1] \in 0..n - 1
        BY <1>0, <1>1, <1>2, <2>2, <3>1 DEF Turned
      <3>3. new[o[k + 1]].tag = set[o[k + 1]].tag
        BY <3>2 DEF OthersStay
      <3> HIDE DEF r, t
      <3> QED
        BY <1>0, <3>1, <3>2, <3>3
    <2>3. CASE ~(k < p) /\ ~(k < m)
      BY <2>3 DEF Turned
    <2> QED
      BY <2>1, <2>2, <2>3
  <1>6. t = [k \in 1..m |-> t[k]]
    BY DEF Turned
  <1> HIDE DEF r, t
  <1>7. QueueOf(new, s, args) = t
    BY <1>4, <1>5, <1>6
  <1> QED
    BY <1>7 DEF t

\* A hit: LRU moves the memory block to the back of the queue.
HitInQueue(q, next, b) ==
  /\ q \in Seq(Int) /\ Contains(q, b)
  /\ next = IF args.evic_policy = "lru" THEN Append(RemoveAt(q, PlaceIn(q, b)), b) ELSE q

LEMMA HitQueue ==
  ASSUME NEW n \in Nat, NEW set \in [0..n - 1 -> Block], NEW new \in [0..n - 1 -> Block],
         InOrder(set, args, n), OneCopy(set, n),
         args.num_sets \in Nat \ {0}, NEW s \in 0..args.num_sets - 1,
         NEW i, NEW tag \in Nat, NEW mark, HitEffect(set, new, n, i, tag, mark)
  PROVE  HitInQueue(QueueOf(set, s, args), QueueOf(new, s, args), Number(tag, s, args))
  <1> DEFINE q == QueueOf(set, s, args)
             b == Number(tag, s, args)
  <1>1. PICK m, o : m \in Nat /\ Lists(q, o, m, set, s, n)
    BY QueueIsList
  <1>a. Enumerates(o, m, set, args)
    BY <1>1 DEF Lists
  <1>2. /\ m \in Nat
        /\ \A j \in 0..n - 1 : set[j].valid => \E k \in 1..m : o[k] = j
        /\ q \in Seq(Int) /\ Len(q) = m
        /\ \A k \in 1..m : q[k] = Number(set[o[k]].tag, s, args)
    BY <1>1 DEF Lists
  <1>3. /\ i \in 0..n - 1 /\ Holds(set[i], tag) /\ Holds(new[i], tag)
        /\ OthersStay(set, new, n, i)
        /\ args.evic_policy = "lru" => MovedBack(set, new, args, n, i)
        /\ args.evic_policy # "lru" => \A j \in 0..n - 1 : new[j].load_ts = set[j].load_ts
    BY DEF HitEffect
  <1>4. b \in Int
    BY Numbers
  <1> HIDE DEF b, q
  <1>5. PICK p \in 1..m : o[p] = i
    BY <1>2, <1>3 DEF Holds
  <1>6. q[p] = b
    BY <1>2, <1>3, <1>5 DEF Holds, b
  <1>7. ASSUME NEW k \in 1..m, q[k] = b PROVE k = p
    <2>1. o[k] \in 0..n - 1 /\ Holds(set[o[k]], tag)
      BY <1>1, <1>7, QueueHolds DEF b
    <2>2. o[k] = i
      BY <1>3, <2>1 DEF OneCopy, Holds
    <2>3. \A x, y \in 1..m : o[x] = o[y] => x = y
      BY <1>a, ListedPlaces
    <2> QED
      BY <1>5, <2>2, <2>3
  <1>8. PlaceIn(q, b) = p
    <2>1. \A k \in 1..Len(q) : q[k] = b => k = p
      BY <1>2, <1>7
    <2>2. p \in 1..Len(q) /\ q[p] = b
      BY <1>2, <1>6
    <2> QED
      BY <2>1, <2>2 DEF PlaceIn
  <1>9. Contains(q, b)
    BY <1>2, <1>6 DEF Contains
  <1>10. CASE args.evic_policy = "lru"
    <2>a. set[i].valid /\ new[i].valid
      BY <1>3 DEF Holds
    <2>b. MovedBack(set, new, args, n, i)
      BY <1>3, <1>10
    <2>c. OthersStay(set, new, n, i)
      BY <1>3
    <2>d. i \in 0..n - 1
      BY <1>3
    <2>1. QueueOf(new, s, args) = Turned(q, m, p, Number(new[i].tag, s, args))
      <3>1. Lists(q, o, m, set, s, n)
        BY <1>1
      <3>2. p \in 1..m /\ o[p] = i
        BY <1>5
      <3> QED
        BY <2>a, <2>b, <2>c, <2>d, <3>1, <3>2, <1>3, QueueAfterTurn DEF Holds
    <2>2. Number(new[i].tag, s, args) = b
      BY <1>3 DEF Holds, b
    <2>3. p \in 1..Len(q)
      BY <1>2
    <2>4. Append(RemoveAt(q, p), b) = Turned(q, Len(q), p, b)
      BY <1>2, <1>4, <2>3, QueueTurns
    <2>5. QueueOf(new, s, args) = Append(RemoveAt(q, p), b)
      BY <1>2, <2>1, <2>2, <2>4
    <2> QED
      BY <1>2, <1>8, <1>9, <1>10, <2>5 DEF q, b, HitInQueue
  <1>11. CASE args.evic_policy # "lru"
    <2>1. \A j \in 0..n - 1 : new[j].valid = set[j].valid /\ new[j].tag = set[j].tag
      <3>1. \A j \in 0..n - 1 : set[j].valid \in BOOLEAN /\ new[j].valid \in BOOLEAN
        BY DEF Block
      <3> QED
        BY <1>3, <3>1 DEF OthersStay, Holds
    <2>2. Filling(new) = Filling(set)
      BY <2>1 DEF Filling
    <2>3. \A j, k \in 0..n - 1 : Older(set, args, j, k) => Older(new, args, j, k)
      BY <1>3, <1>11 DEF Older
    <2>4. \A k \in 1..m : o[k] \in 0..n - 1
      BY <1>1 DEF Lists
    <2>5. Enumerates(o, m, new, args)
      BY <1>a, <2>2, <2>3, <2>4 DEF Enumerates
    <2>6. QueueOf(new, s, args) = [k \in 1..m |-> Number(new[o[k]].tag, s, args)]
      BY <2>5, ListIsQueue
    <2>7. QueueOf(set, s, args) = [k \in 1..m |-> Number(set[o[k]].tag, s, args)]
      BY <1>a, ListIsQueue
    <2>8. \A k \in 1..m : new[o[k]].tag = set[o[k]].tag
      BY <2>1, <2>4
    <2>9. QueueOf(new, s, args) = q
      BY <2>6, <2>7, <2>8 DEF q
    <2> QED
      BY <1>2, <1>9, <1>11, <2>9 DEF q, b, HitInQueue
  <1> QED
    BY <1>10, <1>11

\* A miss: the memory block is not in the queue.
LEMMA NotInQueue ==
  ASSUME NEW n \in Nat, NEW set \in [0..n - 1 -> Block], InOrder(set, args, n),
         args.num_sets \in Nat \ {0}, NEW s \in 0..args.num_sets - 1, NEW tag \in Nat,
         \A j \in 0..n - 1 : ~Holds(set[j], tag)
  PROVE  ~Contains(QueueOf(set, s, args), Number(tag, s, args))
  <1> DEFINE q == QueueOf(set, s, args)
             b == Number(tag, s, args)
  <1>1. PICK m, o : m \in Nat /\ Lists(q, o, m, set, s, n)
    BY QueueIsList
  <1>2. Len(q) = m
    BY <1>1 DEF Lists
  <1> HIDE DEF b, q
  <1>3. ASSUME NEW k \in 1..m, q[k] = b PROVE FALSE
    <2>1. o[k] \in 0..n - 1 /\ Holds(set[o[k]], tag)
      BY <1>1, <1>3, QueueHolds DEF b
    <2> QED
      BY <2>1
  <1>4. ~Contains(q, b)
    BY <1>2, <1>3 DEF Contains
  <1> QED
    BY <1>4 DEF q, b

\* A miss that fetches the memory block: the first one of a full queue goes.
FetchIntoQueue(q, next, b, size, evicts, victim) ==
  /\ q \in Seq(Int) /\ ~Contains(q, b)
  /\ evicts <=> Len(q) = size
  /\ evicts => Head(q) = victim
  /\ next = Append(IF Len(q) = size THEN Tail(q) ELSE q, b)

LEMMA FetchQueue ==
  ASSUME NEW n \in Nat \ {0}, NEW set \in [0..n - 1 -> Block], NEW new \in [0..n - 1 -> Block],
         InOrder(set, args, n),
         args.num_sets \in Nat \ {0}, NEW s \in 0..args.num_sets - 1,
         NEW v, NEW tag \in Nat, NEW mark, FetchEffect(set, new, n, v, tag, mark)
  PROVE  FetchIntoQueue(QueueOf(set, s, args), QueueOf(new, s, args), Number(tag, s, args), n,
                        set[v].valid, Number(set[v].tag, s, args))
  <1> DEFINE q == QueueOf(set, s, args)
             b == Number(tag, s, args)
  <1>0. n \in Nat
    OBVIOUS
  <1>1. PICK m, o : m \in Nat /\ Lists(q, o, m, set, s, n)
    BY <1>0, QueueIsList
  <1>a. Enumerates(o, m, set, args)
    BY <1>1 DEF Lists
  <1>2. /\ m \in Nat
        /\ q \in Seq(Int) /\ Len(q) = m
        /\ \A k \in 1..m : q[k] = Number(set[o[k]].tag, s, args)
    BY <1>1 DEF Lists
  <1>3. /\ v \in 0..n - 1 /\ \A j \in 0..n - 1 : ~Holds(set[j], tag)
        /\ \A j \in 0..n - 1 : j # v => Older(set, args, v, j)
        /\ Holds(new[v], tag) /\ OthersStay(set, new, n, v)
        /\ MovedBack(set, new, args, n, v)
    BY DEF FetchEffect
  <1>4. b \in Int
    BY Numbers
  <1> HIDE DEF b, q
  <1>5. ~Contains(q, b)
    BY <1>0, <1>3, NotInQueue DEF q, b
  <1>6. /\ set[v].valid => m = n /\ o[1] = v
        /\ ~set[v].valid => m < n
    BY <1>a, <1>3, OldestIsFirst
  <1>7. Number(new[v].tag, s, args) = b
    BY <1>3 DEF Holds, b
  <1>8. CASE set[v].valid
    <2>1. 1 \in 1..m /\ o[1] = v /\ m = n
      BY <1>6, <1>8
    <2>2. QueueOf(new, s, args) = Turned(q, m, 1, Number(new[v].tag, s, args))
      BY <1>0, <1>1, <1>3, <1>8, <2>1, QueueAfterTurn, SMTT(30) DEF Holds
    <2>3. Len(q) >= 1
      BY <1>2, <2>1
    <2>4. Head(q) = q[1] /\ Append(Tail(q), b) = Turned(q, Len(q), 1, b)
      BY <1>2, <1>4, <2>3, QueueMovesUp
    <2>5. QueueOf(new, s, args) = Append(Tail(q), b)
      BY <1>2, <1>7, <2>2, <2>4
    <2>6. Head(q) = Number(set[v].tag, s, args)
      BY <1>2, <2>1, <2>4
    <2> QED
      BY <1>2, <1>5, <1>8, <2>1, <2>5, <2>6 DEF q, b, FetchIntoQueue
  <1>9. CASE ~set[v].valid
    <2> DEFINE p == Grown(o, m, v)
    <2>1. \A k \in 1..m : set[o[k]].valid /\ o[k] \in 0..n - 1
      BY <1>1 DEF Lists
    <2>2. Enumerates(p, m + 1, new, args)
      BY <1>0, <1>a, <1>3, <1>9, ListGrows DEF Holds
    <2>3. \A k \in 1..m : p[k] = o[k] /\ new[o[k]].tag = set[o[k]].tag
      <3>1. \A k \in 1..m : p[k] = o[k]
        BY <1>2 DEF Grown
      <3>2. \A k \in 1..m : o[k] # v
        BY <1>9, <2>1
      <3> HIDE DEF p
      <3> QED
        BY <1>3, <2>1, <3>1, <3>2 DEF OthersStay
    <2>4. p[m + 1] = v
      BY <1>2 DEF Grown
    <2> HIDE DEF p
    <2>5. QueueOf(new, s, args) = [k \in 1..m + 1 |-> Number(new[p[k]].tag, s, args)]
      <3>1. \A l : Enumerates(p, l, new, args) =>
              QueueOf(new, s, args) = [k \in 1..l |-> Number(new[p[k]].tag, s, args)]
        BY <1>0, ListIsQueue
      <3> QED
        BY <2>2, <3>1
    <2>6. \A k \in 1..m + 1 : Number(new[p[k]].tag, s, args) = IF k <= m THEN q[k] ELSE b
      <3>1. ASSUME NEW k \in 1..m PROVE Number(new[p[k]].tag, s, args) = q[k]
        BY <1>2, <2>3
      <3>2. Number(new[p[m + 1]].tag, s, args) = b
        BY <1>7, <2>4
      <3>3. \A k \in 1..m + 1 : (k \in 1..m /\ k <= m) \/ (k = m + 1 /\ ~(k <= m))
        BY <1>2
      <3> QED
        BY <3>1, <3>2, <3>3
    <2>7. QueueOf(new, s, args) = Grown(q, m, b)
      BY <2>5, <2>6 DEF Grown
    <2>8. Append(q, b) = Grown(q, Len(q), b)
      BY <1>2, <1>4, QueueGrows
    <2>9. QueueOf(new, s, args) = Append(q, b)
      BY <1>2, <2>7, <2>8
    <2> QED
      BY <1>2, <1>5, <1>6, <1>9, <2>9 DEF q, b, FetchIntoQueue
  <1> QED
    BY <1>8, <1>9

\* The dirty memory blocks of a set.
Unsaved(set, s) == {Number(set[i].tag, s, args) : i \in {j \in DOMAIN set : set[j].dirty}}

LEMMA DirtyOfSets == Dirty = UNION {Unsaved(sets[s], s) : s \in DOMAIN sets}
  BY DEF Dirty, Unsaved, Held, Number

LEMMA UnsavedHas ==
  ASSUME NEW n \in Nat, NEW set \in [0..n - 1 -> Block], NEW s, NEW x
  PROVE  x \in Unsaved(set, s) <=>
           \E j \in 0..n - 1 : set[j].dirty /\ x = Number(set[j].tag, s, args)
  BY DEF Unsaved

\* A hit adds the block, if it is a store that marks it.
MarkedUnsaved(unsaved, next, b, mark) ==
  \A x : x \in next <=> x \in unsaved \/ (mark /\ x = b)

LEMMA HitUnsaved ==
  ASSUME NEW n \in Nat, NEW set \in [0..n - 1 -> Block], NEW new \in [0..n - 1 -> Block],
         NEW s, NEW i, NEW tag, NEW mark \in BOOLEAN,
         HitEffect(set, new, n, i, tag, mark)
  PROVE  MarkedUnsaved(Unsaved(set, s), Unsaved(new, s), Number(tag, s, args), mark)
  <1>1. /\ i \in 0..n - 1 /\ Holds(set[i], tag) /\ Holds(new[i], tag)
        /\ \A j \in 0..n - 1 : j # i => new[j].tag = set[j].tag
        /\ \A j \in 0..n - 1 : new[j].dirty = (set[j].dirty \/ (mark /\ j = i))
    BY DEF HitEffect, OthersStay
  <1>2. \A j \in 0..n - 1 : set[j].dirty \in BOOLEAN /\ new[j].dirty \in BOOLEAN
    BY DEF Block
  <1>3. \A j \in 0..n - 1 : new[j].tag = set[j].tag
    BY <1>1 DEF Holds
  <1>4. new[i].tag = tag
    BY <1>1 DEF Holds
  <1>5. \A j \in 0..n - 1 : new[j].dirty <=> (set[j].dirty \/ (mark /\ j = i))
    BY <1>1, <1>2
  <1>6. /\ \A x : x \in Unsaved(set, s) <=>
             \E j \in 0..n - 1 : set[j].dirty /\ x = Number(set[j].tag, s, args)
        /\ \A x : x \in Unsaved(new, s) <=>
             \E j \in 0..n - 1 : new[j].dirty /\ x = Number(new[j].tag, s, args)
    BY UnsavedHas
  <1>7. ASSUME NEW x, x \in Unsaved(new, s)
        PROVE  x \in Unsaved(set, s) \/ (mark /\ x = Number(tag, s, args))
    <2>1. PICK j \in 0..n - 1 : new[j].dirty /\ x = Number(new[j].tag, s, args)
      BY <1>6, <1>7
    <2> QED
      BY <1>3, <1>4, <1>5, <1>6, <2>1
  <1>8. ASSUME NEW x, x \in Unsaved(set, s) PROVE x \in Unsaved(new, s)
    <2>1. PICK j \in 0..n - 1 : set[j].dirty /\ x = Number(set[j].tag, s, args)
      BY <1>6, <1>8
    <2> QED
      BY <1>3, <1>5, <1>6, <2>1
  <1>9. ASSUME NEW x, mark, x = Number(tag, s, args) PROVE x \in Unsaved(new, s)
    BY <1>1, <1>4, <1>5, <1>6, <1>9
  <1> QED
    BY <1>7, <1>8, <1>9 DEF MarkedUnsaved

\* A fetch takes the memory block of the victim out.
FetchedUnsaved(unsaved, next, b, mark, evicts, dirty, victim) ==
  /\ evicts => (victim \in unsaved <=> dirty)
  /\ \A x : x \in next <=> \/ mark /\ x = b
                           \/ x \in unsaved /\ ~(evicts /\ x = victim)

LEMMA FetchUnsaved ==
  ASSUME NEW n \in Nat, NEW set \in [0..n - 1 -> Block], NEW new \in [0..n - 1 -> Block],
         args.num_sets \in Nat \ {0}, NEW s \in 0..args.num_sets - 1,
         NEW v, NEW tag, NEW mark \in BOOLEAN,
         FetchEffect(set, new, n, v, tag, mark), OneCopy(set, n),
         \A j \in 0..n - 1 : set[j].dirty => set[j].valid
  PROVE  FetchedUnsaved(Unsaved(set, s), Unsaved(new, s), Number(tag, s, args), mark,
                        set[v].valid, set[v].dirty, Number(set[v].tag, s, args))
  <1>1. /\ v \in 0..n - 1 /\ Holds(new[v], tag)
        /\ \A j \in 0..n - 1 : j # v => new[j].tag = set[j].tag
        /\ \A j \in 0..n - 1 : new[j].dirty = IF j = v THEN mark ELSE set[j].dirty
    BY DEF FetchEffect, OthersStay
  <1>2. \A j \in 0..n - 1 : /\ set[j].dirty \in BOOLEAN /\ new[j].dirty \in BOOLEAN
                            /\ set[j].tag \in Nat
    <2>1. \A b \in Block : b.tag \in Nat /\ b.dirty \in BOOLEAN
      BY ArgumentsAssumption DEF Block
    <2>2. \A j \in 0..n - 1 : set[j] \in Block /\ new[j] \in Block
      OBVIOUS
    <2> QED
      BY <2>1, <2>2
  <1>3. new[v].tag = tag /\ (new[v].dirty <=> mark)
    BY <1>1, <1>2 DEF Holds
  <1>4. \A j \in 0..n - 1 : j # v => (new[j].dirty <=> set[j].dirty)
    BY <1>1, <1>2
  <1>5. \A y : y \in Unsaved(set, s) <=>
             \E j \in 0..n - 1 : set[j].dirty /\ y = Number(set[j].tag, s, args)
    BY UnsavedHas
  <1>6. \A x : x \in Unsaved(new, s) <=>
             \E j \in 0..n - 1 : new[j].dirty /\ x = Number(new[j].tag, s, args)
    BY UnsavedHas
  <1>7. ASSUME NEW j \in 0..n - 1, set[j].dirty, set[v].valid,
               Number(set[j].tag, s, args) = Number(set[v].tag, s, args)
        PROVE  j = v
    <2>1. \A t, u \in Nat : Number(t, s, args) = Number(u, s, args) => t = u
      BY Numbers
    <2>2. set[j].tag = set[v].tag
      BY <1>1, <1>2, <1>7, <2>1
    <2> QED
      BY <1>1, <1>7, <2>2 DEF OneCopy
  <1>8. ASSUME NEW x, x \in Unsaved(new, s), ~(mark /\ x = Number(tag, s, args))
        PROVE  x \in Unsaved(set, s) /\ ~(set[v].valid /\ x = Number(set[v].tag, s, args))
    <2>1. PICK j \in 0..n - 1 : new[j].dirty /\ x = Number(new[j].tag, s, args)
      BY <1>6, <1>8
    <2>2. j # v
      BY <1>3, <1>8, <2>1
    <2>3. set[j].dirty /\ x = Number(set[j].tag, s, args)
      BY <1>1, <1>4, <2>1, <2>2
    <2> QED
      BY <1>5, <1>7, <2>2, <2>3
  <1>9. ASSUME NEW x, mark, x = Number(tag, s, args) PROVE x \in Unsaved(new, s)
    BY <1>1, <1>3, <1>6, <1>9
  <1>10. ASSUME NEW x, x \in Unsaved(set, s), ~(set[v].valid /\ x = Number(set[v].tag, s, args))
         PROVE  x \in Unsaved(new, s)
    <2>1. PICK j \in 0..n - 1 : set[j].dirty /\ x = Number(set[j].tag, s, args)
      BY <1>5, <1>10
    <2>2. j # v
      BY <1>10, <2>1
    <2>3. new[j].dirty /\ x = Number(new[j].tag, s, args)
      BY <1>1, <1>4, <2>1, <2>2
    <2> QED
      BY <1>6, <2>3
  <1>11. ASSUME set[v].valid
         PROVE  Number(set[v].tag, s, args) \in Unsaved(set, s) <=> set[v].dirty
    BY <1>1, <1>5, <1>7, <1>11
  <1>12. ASSUME NEW x
         PROVE  x \in Unsaved(new, s) <=>
                  \/ mark /\ x = Number(tag, s, args)
                  \/ x \in Unsaved(set, s) /\ ~(set[v].valid /\ x = Number(set[v].tag, s, args))
    BY <1>8, <1>9, <1>10
  <1> QED
    BY <1>11, <1>12 DEF FetchedUnsaved
-----------------------------------------------------------------------------
(* What an access does to the abstract cache                               *)

Lines == [s \in DOMAIN sets |-> EvictionOrder(s)]

\* Only the queue of the set that is looked in changes.
LEMMA LinesAfter ==
  ASSUME IInv, IInv', is_valid_argument(args), UNCHANGED args,
         NEW s \in 0..args.num_sets - 1, NEW queue,
         \A r \in 0..args.num_sets - 1 : r # s => sets'[r] = sets[r],
         queue = QueueOf(sets'[s], s, args)
  PROVE  /\ Lines[s] = QueueOf(sets[s], s, args)
         /\ Lines' = [Lines EXCEPT ![s] = queue]
  <1>1. DOMAIN sets = 0..args.num_sets - 1 /\ DOMAIN sets' = 0..args.num_sets - 1
    BY DEF IInv, TypeOK, is_valid_argument
  <1>2. \A r \in 0..args.num_sets - 1 : EvictionOrder(r) = QueueOf(sets[r], r, args)
    BY OrderIsQueue
  <1>3. \A r \in 0..args.num_sets - 1 : EvictionOrder(r)' = QueueOf(sets'[r], r, args)
    BY DEF EvictionOrder, QueueOf, Filling, PlaceOf, Older, Held, Number
  <1>4. Lines = [r \in 0..args.num_sets - 1 |-> QueueOf(sets[r], r, args)]
    BY <1>1, <1>2 DEF Lines
  <1>5. Lines' = [r \in 0..args.num_sets - 1 |-> QueueOf(sets'[r], r, args)]
    BY <1>1, <1>3 DEF Lines
  <1>6. \A r \in 0..args.num_sets - 1 :
          QueueOf(sets'[r], r, args) = IF r = s THEN queue ELSE QueueOf(sets[r], r, args)
    OBVIOUS
  <1>7. Lines' = [r \in 0..args.num_sets - 1 |->
                    IF r = s THEN queue ELSE QueueOf(sets[r], r, args)]
    BY <1>5, <1>6
  <1> QED
    BY <1>4, <1>7

\* The dirty blocks of the other sets stay dirty, and are other memory blocks.
LEMMA DirtyAfter ==
  ASSUME IInv, IInv', is_valid_argument(args), UNCHANGED args,
         NEW s \in 0..args.num_sets - 1,
         \A r \in 0..args.num_sets - 1 : r # s => sets'[r] = sets[r], NEW x
  PROVE  \E others \in BOOLEAN :
           /\ x \in Dirty <=> others \/ x \in Unsaved(sets[s], s)
           /\ x \in Dirty' <=> others \/ x \in Unsaved(sets'[s], s)
           /\ others => \A tag \in Nat : x # Number(tag, s, args)
  <1>1. DOMAIN sets = 0..args.num_sets - 1 /\ DOMAIN sets' = 0..args.num_sets - 1
    BY DEF IInv, TypeOK, is_valid_argument
  <1>2. args \in Arguments
    BY DEF IInv, TypeOK
  <1>a. args.num_sets \in Nat \ {0} /\ args.blocks \in Nat
    BY <1>2, ValidArguments
  <1>3. Dirty = UNION {Unsaved(sets[r], r) : r \in DOMAIN sets}
    BY DirtyOfSets
  <1>4. Dirty' = UNION {Unsaved(sets'[r], r) : r \in DOMAIN sets'}
    BY DEF Dirty, Unsaved, Held, Number
  <1> DEFINE others == \E r \in 0..args.num_sets - 1 : r # s /\ x \in Unsaved(sets[r], r)
  <1>5. x \in Dirty <=> others \/ x \in Unsaved(sets[s], s)
    BY <1>1, <1>3
  <1>6. x \in Dirty' <=> others \/ x \in Unsaved(sets'[s], s)
    <2>1. x \in Dirty' <=> \E r \in 0..args.num_sets - 1 : x \in Unsaved(sets'[r], r)
      BY <1>1, <1>4
    <2>2. \A r \in 0..args.num_sets - 1 : r # s => Unsaved(sets'[r], r) = Unsaved(sets[r], r)
      OBVIOUS
    <2> QED
      BY <2>1, <2>2
  <1>7. ASSUME others, NEW tag \in Nat, x = Number(tag, s, args) PROVE FALSE
    <2>1. PICK r \in 0..args.num_sets - 1 : r # s /\ x \in Unsaved(sets[r], r)
      BY <1>7
    <2>2. PICK n \in Nat : n = args.blocks /\ sets[r] \in [0..n - 1 -> Block]
      BY <1>a, SetsAreOK DEF SetOK
    <2>3. PICK j \in 0..n - 1 : x = Number(sets[r][j].tag, r, args)
      BY <2>1, <2>2, UnsavedHas
    <2>4. sets[r][j].tag \in Nat
      <3>1. sets[r][j] \in Block
        BY <2>2
      <3> QED
        BY <3>1, ArgumentsAssumption DEF Block
    <2>5. \A t \in Nat : Number(tag, s, args) = Number(t, r, args) => s = r
      BY <1>a, Numbers
    <2> QED
      BY <1>7, <2>1, <2>3, <2>4, <2>5
  <1> QED
    BY <1>5, <1>6, <1>7

\* What the abstract cache counts.
HitsOf == [isStore \in BOOLEAN |-> IF isStore THEN stats.store_hits ELSE stats.load_hits]
MissesOf == [isStore \in BOOLEAN |-> IF isStore THEN stats.store_misses ELSE stats.load_misses]

\* The abstract accesses: a hit, a miss that fetches the block into a set with
\* or without room for it, and a store that passes the cache by.
LEMMA AbstractHit ==
  ASSUME NEW b, NEW isStore \in BOOLEAN, NEW s, NEW queue,
         s = b % args.num_sets, queue = Lines[s], Contains(queue, b),
         Lines' = [Lines EXCEPT ![s] =
                     IF args.evic_policy = "lru" THEN Append(RemoveAt(queue, PlaceIn(queue, b)), b)
                     ELSE queue],
         Dirty' = Dirty \union (IF isStore /\ args.write_back THEN {b} ELSE {}),
         stats'.total_cycles = stats.total_cycles + 1 + 0 + 0
                               + (IF isStore /\ ~args.write_back THEN StoreCost ELSE 0),
         HitsOf' = [HitsOf EXCEPT ![isStore] = @ + 1], MissesOf' = MissesOf,
         UNCHANGED args, args.write_alloc \in BOOLEAN, args.write_back \in BOOLEAN
  PROVE  Abstract!Access(b, isStore)
  <1>1. Dirty \ {} = Dirty
    OBVIOUS
  <1>2. CASE args.evic_policy = "lru"
    <2> DEFINE line == Lines[b % args.num_sets]
    <2>1. Lines' = [Lines EXCEPT ![b % args.num_sets] =
                      Append(RemoveAt(line, CHOOSE k \in 1..Len(line) : line[k] = b), b)]
      BY <1>2 DEF PlaceIn
    <2>2. Contains(line, b)
      OBVIOUS
    <2> QED
      BY <1>1, <1>2, <2>1, <2>2
      DEF Abstract!Access, Abstract!Price, Lines, HitsOf, MissesOf,
          Contains, Abstract!Contains, RemoveAt, Abstract!RemoveAt
  <1>3. CASE args.evic_policy # "lru"
    <2>1. Lines' = [Lines EXCEPT ![s] = queue]
      BY <1>3
    <2> QED
      BY <1>1, <1>3, <2>1, ZenonT(60)
      DEF Abstract!Access, Abstract!Price, Lines, HitsOf, MissesOf,
          Contains, Abstract!Contains
  <1> QED
    BY <1>2, <1>3

LEMMA AbstractFetch ==
  ASSUME NEW b, NEW isStore \in BOOLEAN, NEW s, NEW queue,
         s = b % args.num_sets, queue = Lines[s], ~Contains(queue, b),
         isStore => args.write_alloc,
         NEW victims, victims = IF Len(queue) = args.blocks THEN {Head(queue)} ELSE {},
         Lines' = [Lines EXCEPT ![s] =
                     Append(IF Len(queue) = args.blocks THEN Tail(queue) ELSE queue, b)],
         Dirty' = (Dirty \ victims) \union (IF isStore /\ args.write_back THEN {b} ELSE {}),
         stats'.total_cycles = stats.total_cycles + 1 + Penalty
                               + (IF victims \cap Dirty # {} THEN Penalty ELSE 0)
                               + (IF isStore /\ ~args.write_back THEN StoreCost ELSE 0),
         HitsOf' = HitsOf, MissesOf' = [MissesOf EXCEPT ![isStore] = @ + 1],
         UNCHANGED args, args.write_alloc \in BOOLEAN, args.write_back \in BOOLEAN
  PROVE  Abstract!Access(b, isStore)
  BY ZenonT(60) DEF Abstract!Access, Abstract!Price, Abstract!Penalty, Penalty, Lines, HitsOf, MissesOf,
             Contains, Abstract!Contains

LEMMA AbstractPass ==
  ASSUME NEW b, NEW s, NEW queue,
         s = b % args.num_sets, queue = Lines[s], ~Contains(queue, b), ~args.write_alloc,
         Lines' = [Lines EXCEPT ![s] = queue], Dirty' = Dirty,
         stats'.total_cycles = stats.total_cycles + 1 + 0 + 0 + StoreCost,
         HitsOf' = HitsOf, MissesOf' = [MissesOf EXCEPT ![TRUE] = @ + 1],
         UNCHANGED args, args.write_alloc \in BOOLEAN, args.write_back \in BOOLEAN
  PROVE  Abstract!Access(b, TRUE)
  <1>1. (Dirty \ {}) \union {} = Dirty
    OBVIOUS
  <1> QED
    BY <1>1, ZenonT(60) DEF Abstract!Access, Abstract!Price, Lines, HitsOf, MissesOf,
             Contains, Abstract!Contains
-----------------------------------------------------------------------------
(* The refinement                                                          *)

LEMMA CountsAfter ==
  ASSUME IInv, OrderInv, is_valid_argument(args), NEW isStore \in BOOLEAN,
         NEW hit \in BOOLEAN, NEW cycles, Counted(isStore, hit, cycles)
  PROVE  /\ stats'.total_cycles = stats.total_cycles + 1 + cycles
         /\ HitsOf' = IF hit THEN [HitsOf EXCEPT ![isStore] = @ + 1] ELSE HitsOf
         /\ MissesOf' = IF hit THEN MissesOf ELSE [MissesOf EXCEPT ![isStore] = @ + 1]
  <1>1. stats \in [Counter -> Nat]
    BY DEF IInv, TypeOK
  <1>2. /\ stats'.total_cycles = stats.total_cycles + 1 + cycles
        /\ \A c \in {"load_hits", "load_misses", "store_hits", "store_misses"} :
             stats'[c] = IF c = Outcome(isStore, hit) THEN stats[c] + 1 ELSE stats[c]
    BY <1>1, CountAccesses
  <1>3. ASSUME NEW x \in BOOLEAN
        PROVE  /\ HitsOf'[x] = IF x = isStore /\ hit THEN HitsOf[x] + 1 ELSE HitsOf[x]
               /\ MissesOf'[x] = IF x = isStore /\ ~hit THEN MissesOf[x] + 1 ELSE MissesOf[x]
    BY <1>2 DEF HitsOf, MissesOf, Outcome
  <1>4. /\ HitsOf = [x \in BOOLEAN |-> HitsOf[x]] /\ HitsOf' = [x \in BOOLEAN |-> HitsOf'[x]]
        /\ MissesOf = [x \in BOOLEAN |-> MissesOf[x]]
        /\ MissesOf' = [x \in BOOLEAN |-> MissesOf'[x]]
    BY DEF HitsOf, MissesOf
  <1>5. CASE hit
    BY <1>2, <1>3, <1>4, <1>5
  <1>6. CASE ~hit
    BY <1>2, <1>3, <1>4, <1>6
  <1> QED
    BY <1>5, <1>6

\* What the access to a set finds.
LEMMA SetsOfAccess ==
  ASSUME IInv, IInv', OrderInv, is_valid_argument(args), UNCHANGED args,
         NEW s \in 0..args.num_sets - 1
  PROVE  /\ args.num_sets \in Nat \ {0} /\ args.blocks \in Nat \ {0}
         /\ args.write_alloc \in BOOLEAN /\ args.write_back \in BOOLEAN
         /\ sets[s] \in [0..args.blocks - 1 -> Block]
         /\ sets'[s] \in [0..args.blocks - 1 -> Block]
         /\ InOrder(sets[s], args, args.blocks) /\ OneCopy(sets[s], args.blocks)
         /\ \A j \in 0..args.blocks - 1 : sets[s][j].dirty => sets[s][j].valid
         /\ stats.total_cycles \in Nat /\ Penalty \in Nat /\ StoreCost \in Nat
  <1>1. args \in Arguments /\ stats.total_cycles \in Nat
    BY DEF IInv, TypeOK, Counter
  <1>2. args.num_sets \in Nat \ {0} /\ OrderlySet(sets[s], stats.loads + stats.stores)
    BY <1>1, ValidArguments, BeforeAccess
  <1>3. sets'[s] \in [0..args.blocks - 1 -> Block]
    <2>1. is_valid_argument(args')
      OBVIOUS
    <2> QED
      BY <2>1 DEF IInv, TypeOK
  <1>4. OneCopy(sets[s], args.blocks)
    BY DEF IInv, TagsInv
  <1> QED
    BY <1>1, <1>2, <1>3, <1>4, BeforeAccess DEF OrderlySet

LEMMA HitIsAccess ==
  ASSUME IInv, IInv', OrderInv, is_valid_argument(args), UNCHANGED args,
         NEW s \in 0..args.num_sets - 1, NEW tag \in Nat, NEW isStore \in BOOLEAN,
         Number(tag, s, args) % args.num_sets = s,
         \A r \in 0..args.num_sets - 1 : r # s => sets'[r] = sets[r],
         NEW i, HitEffect(sets[s], sets'[s], args.blocks, i, tag, Mark(isStore)),
         Counted(isStore, TRUE, Sent(isStore))
  PROVE  Abstract!Access(Number(tag, s, args), isStore)
  <1> DEFINE set == sets[s]
             new == sets'[s]
             q == QueueOf(set, s, args)
             b == Number(tag, s, args)
             after == IF args.evic_policy = "lru" THEN Append(RemoveAt(q, PlaceIn(q, b)), b) ELSE q
  <1>1. PICK n \in Nat \ {0} : n = args.blocks
    BY SetsOfAccess
  <1>2. /\ args.num_sets \in Nat \ {0}
        /\ args.write_alloc \in BOOLEAN /\ args.write_back \in BOOLEAN
        /\ set \in [0..n - 1 -> Block] /\ new \in [0..n - 1 -> Block]
        /\ InOrder(set, args, n) /\ OneCopy(set, n)
        /\ stats.total_cycles \in Nat /\ StoreCost \in Nat
    BY <1>1, SetsOfAccess
  <1>3. PICK mark \in BOOLEAN : /\ mark = Mark(isStore)
                                /\ mark <=> isStore /\ args.write_back
    BY <1>2 DEF Mark
  <1>4. HitEffect(set, new, n, i, tag, mark)
    BY <1>1, <1>3
  <1>5. Contains(q, b) /\ QueueOf(new, s, args) = after
    <2>1. HitInQueue(QueueOf(set, s, args), QueueOf(new, s, args), Number(tag, s, args))
      <3> HIDE DEF set, new
      <3> QED
        BY <1>2, <1>4, HitQueue
    <2> QED
      BY <2>1 DEF HitInQueue
  <1>6. Lines[s] = q /\ Lines' = [Lines EXCEPT ![s] = after]
    <2>1. PICK queue : queue = after
      OBVIOUS
    <2>2. queue = QueueOf(sets'[s], s, args)
      BY <1>5, <2>1
    <2> HIDE DEF after, q, new, set
    <2>3. Lines[s] = QueueOf(sets[s], s, args) /\ Lines' = [Lines EXCEPT ![s] = queue]
      BY <2>2, LinesAfter
    <2> QED
      BY <2>1, <2>3 DEF q, set
  <1>7. Dirty' = Dirty \union (IF isStore /\ args.write_back THEN {b} ELSE {})
    <2>1. ASSUME NEW x PROVE x \in Dirty' <=> x \in Dirty \/ (mark /\ x = b)
      <3>1. x \in Unsaved(new, s) <=> x \in Unsaved(set, s) \/ (mark /\ x = b)
        <4>1. MarkedUnsaved(Unsaved(set, s), Unsaved(new, s), Number(tag, s, args), mark)
          <5>1. n \in Nat /\ set \in [0..n - 1 -> Block] /\ new \in [0..n - 1 -> Block]
            BY <1>2
          <5> HIDE DEF set, new
          <5> QED
            BY <1>4, <5>1, HitUnsaved, ZenonT(60)
        <4> QED
          BY <4>1 DEF MarkedUnsaved
      <3>2. PICK others \in BOOLEAN : /\ x \in Dirty <=> others \/ x \in Unsaved(set, s)
                                      /\ x \in Dirty' <=> others \/ x \in Unsaved(new, s)
        BY DirtyAfter
      <3> QED
        BY <3>1, <3>2
    <2> HIDE DEF b
    <2> QED
      BY <1>3, <2>1
  <1>8. /\ stats'.total_cycles = stats.total_cycles + 1 + 0 + 0
                                 + (IF isStore /\ ~args.write_back THEN StoreCost ELSE 0)
        /\ HitsOf' = [HitsOf EXCEPT ![isStore] = @ + 1] /\ MissesOf' = MissesOf
    <2>1. /\ stats'.total_cycles = stats.total_cycles + 1 + Sent(isStore)
          /\ HitsOf' = [HitsOf EXCEPT ![isStore] = @ + 1] /\ MissesOf' = MissesOf
      BY CountsAfter
    <2>2. Sent(isStore) = 0 + 0 + (IF isStore /\ ~args.write_back THEN StoreCost ELSE 0)
      BY <1>2 DEF Sent, Through
    <2> QED
      BY <1>2, <2>1, <2>2
  <1> HIDE DEF q, b, set, new
  <1>9. s = b % args.num_sets
    BY DEF b
  <1>10. Abstract!Access(b, isStore)
    BY <1>2, <1>5, <1>6, <1>7, <1>8, <1>9, AbstractHit
  <1> QED
    BY <1>10 DEF b

LEMMA FetchIsAccess ==
  ASSUME IInv, IInv', OrderInv, is_valid_argument(args), UNCHANGED args,
         NEW s \in 0..args.num_sets - 1, NEW tag \in Nat, NEW isStore \in BOOLEAN,
         Number(tag, s, args) % args.num_sets = s, isStore => args.write_alloc,
         \A r \in 0..args.num_sets - 1 : r # s => sets'[r] = sets[r],
         NEW v \in 0..args.blocks - 1,
         FetchEffect(sets[s], sets'[s], args.blocks, v, tag, Mark(isStore)),
         Counted(isStore, FALSE,
                 Penalty + (IF sets[s][v].dirty THEN Penalty ELSE 0) + Sent(isStore))
  PROVE  Abstract!Access(Number(tag, s, args), isStore)
  <1> DEFINE set == sets[s]
             new == sets'[s]
             q == QueueOf(set, s, args)
             b == Number(tag, s, args)
             w == Number(set[v].tag, s, args)
             full == Len(q) = args.blocks
             after == Append(IF full THEN Tail(q) ELSE q, b)
             victims == IF full THEN {Head(q)} ELSE {}
  <1>1. PICK n \in Nat \ {0} : n = args.blocks
    BY SetsOfAccess
  <1>2. /\ args.num_sets \in Nat \ {0}
        /\ args.write_alloc \in BOOLEAN /\ args.write_back \in BOOLEAN
        /\ set \in [0..n - 1 -> Block] /\ new \in [0..n - 1 -> Block]
        /\ InOrder(set, args, n) /\ OneCopy(set, n)
        /\ \A j \in 0..n - 1 : set[j].dirty => set[j].valid
        /\ stats.total_cycles \in Nat /\ Penalty \in Nat /\ StoreCost \in Nat
    BY <1>1, SetsOfAccess
  <1>3. PICK mark \in BOOLEAN : /\ mark = Mark(isStore)
                                /\ mark <=> isStore /\ args.write_back
    BY <1>2 DEF Mark
  <1>4. FetchEffect(set, new, n, v, tag, mark)
    BY <1>1, <1>3
  <1>5. /\ ~Contains(q, b) /\ QueueOf(new, s, args) = after
        /\ set[v].valid <=> full
        /\ full => Head(q) = w
    <2>1. FetchIntoQueue(QueueOf(set, s, args), QueueOf(new, s, args), Number(tag, s, args), n,
                         set[v].valid, Number(set[v].tag, s, args))
      <3> HIDE DEF set, new
      <3> QED
        BY <1>2, <1>4, FetchQueue
    <2> QED
      BY <1>1, <2>1 DEF FetchIntoQueue
  <1>6. Lines[s] = q /\ Lines' = [Lines EXCEPT ![s] = after]
    <2>1. PICK queue : queue = after
      OBVIOUS
    <2>2. queue = QueueOf(sets'[s], s, args)
      BY <1>5, <2>1
    <2> HIDE DEF after, q, new, set
    <2>3. Lines[s] = QueueOf(sets[s], s, args) /\ Lines' = [Lines EXCEPT ![s] = queue]
      BY <2>2, LinesAfter
    <2> QED
      BY <2>1, <2>3 DEF q, set
  <1>7. set[v].tag \in Nat /\ set[v].dirty \in BOOLEAN
    <2>1. \A x \in Block : x.tag \in Nat /\ x.dirty \in BOOLEAN
      BY ArgumentsAssumption DEF Block
    <2>2. set[v] \in Block
      BY <1>1, <1>2
    <2> QED
      BY <2>1, <2>2
  <1>8. \A x : x \in victims <=> set[v].valid /\ x = w
    BY <1>5
  <1>9. ASSUME NEW x
        PROVE  /\ x \in Dirty' <=> (x \in Dirty /\ ~(set[v].valid /\ x = w)) \/ (mark /\ x = b)
               /\ set[v].valid /\ x = w => (x \in Dirty <=> set[v].dirty)
    <2>1. /\ x \in Unsaved(new, s) <=>
               \/ mark /\ x = b
               \/ x \in Unsaved(set, s) /\ ~(set[v].valid /\ x = w)
          /\ set[v].valid => (w \in Unsaved(set, s) <=> set[v].dirty)
      <3>1. FetchedUnsaved(Unsaved(set, s), Unsaved(new, s), Number(tag, s, args), mark,
                           set[v].valid, set[v].dirty, Number(set[v].tag, s, args))
        <4>1. n \in Nat /\ set \in [0..n - 1 -> Block] /\ new \in [0..n - 1 -> Block]
          BY <1>2
        <4>2. OneCopy(set, n) /\ \A j \in 0..n - 1 : set[j].dirty => set[j].valid
          BY <1>2
        <4>3. args.num_sets \in Nat \ {0}
          BY <1>2
        <4> HIDE DEF set, new
        <4> QED
          BY <1>4, <4>1, <4>2, <4>3, FetchUnsaved, ZenonT(60)
      <3> QED
        BY <3>1 DEF FetchedUnsaved
    <2>2. PICK others \in BOOLEAN : /\ x \in Dirty <=> others \/ x \in Unsaved(set, s)
                                    /\ x \in Dirty' <=> others \/ x \in Unsaved(new, s)
                                    /\ others => \A t \in Nat : x # Number(t, s, args)
      BY DirtyAfter
    <2>3. others => x # w
      BY <1>7, <2>2
    <2> HIDE DEF w, b
    <2> QED
      BY <2>1, <2>2, <2>3
  <1> HIDE DEF q, b, w, set, new
  <1>10. Dirty' = (Dirty \ victims) \union (IF isStore /\ args.write_back THEN {b} ELSE {})
    <2> HIDE DEF victims
    <2> QED
      BY <1>3, <1>8, <1>9
  <1>11. victims \cap Dirty # {} <=> set[v].dirty
    <2>1. set[v].dirty => set[v].valid
      BY <1>1, <1>2
    <2> HIDE DEF victims
    <2> QED
      BY <1>8, <1>9, <2>1
  <1>12. /\ stats'.total_cycles = stats.total_cycles + 1 + Penalty
                                  + (IF victims \cap Dirty # {} THEN Penalty ELSE 0)
                                  + (IF isStore /\ ~args.write_back THEN StoreCost ELSE 0)
         /\ HitsOf' = HitsOf /\ MissesOf' = [MissesOf EXCEPT ![isStore] = @ + 1]
    <2>1. PICK c : c = Penalty + (IF set[v].dirty THEN Penalty ELSE 0) + Sent(isStore)
      OBVIOUS
    <2>2. Counted(isStore, FALSE, c)
      BY <2>1 DEF set
    <2>3. /\ stats'.total_cycles = stats.total_cycles + 1 + c
          /\ HitsOf' = HitsOf /\ MissesOf' = [MissesOf EXCEPT ![isStore] = @ + 1]
      BY <2>2, CountsAfter
    <2>4. Sent(isStore) = IF isStore /\ ~args.write_back THEN StoreCost ELSE 0
      BY <1>2 DEF Sent, Through
    <2> HIDE DEF victims
    <2>5. (IF victims \cap Dirty # {} THEN Penalty ELSE 0) = IF set[v].dirty THEN Penalty ELSE 0
      BY <1>7, <1>11
    <2>6. PICK d \in Nat, e \in Nat : /\ d = IF set[v].dirty THEN Penalty ELSE 0
                                      /\ e = Sent(isStore)
      BY <1>2, <2>4
    <2>7. stats.total_cycles + 1 + c = stats.total_cycles + 1 + Penalty + d + e
      BY <1>2, <2>1, <2>6, SMTT(30)
    <2> QED
      BY <2>3, <2>4, <2>5, <2>6, <2>7
  <1>13. s = b % args.num_sets
    BY DEF b
  <1>14. Abstract!Access(b, isStore)
    <2>1. PICK out : out = victims
      OBVIOUS
    <2> QED
      BY <1>2, <1>5, <1>6, <1>10, <1>12, <1>13, <2>1, AbstractFetch
  <1> QED
    BY <1>14 DEF b

LEMMA PassIsAccess ==
  ASSUME IInv, IInv', OrderInv, is_valid_argument(args), UNCHANGED args,
         NEW s \in 0..args.num_sets - 1, NEW tag \in Nat,
         Number(tag, s, args) % args.num_sets = s, ~args.write_alloc,
         \A r \in 0..args.num_sets - 1 : r # s => sets'[r] = sets[r],
         \A j \in 0..args.blocks - 1 : ~Holds(sets[s][j], tag),
         sets'[s] = sets[s], Counted(TRUE, FALSE, StoreCost)
  PROVE  Abstract!Access(Number(tag, s, args), TRUE)
  <1> DEFINE set == sets[s]
             q == QueueOf(set, s, args)
             b == Number(tag, s, args)
  <1>1. PICK n \in Nat \ {0} : n = args.blocks
    BY SetsOfAccess
  <1>2. /\ args.num_sets \in Nat \ {0}
        /\ args.write_alloc \in BOOLEAN /\ args.write_back \in BOOLEAN
        /\ set \in [0..n - 1 -> Block] /\ InOrder(set, args, n)
        /\ stats.total_cycles \in Nat /\ StoreCost \in Nat
    BY <1>1, SetsOfAccess
  <1>3. ~Contains(q, b)
    <2>1. n \in Nat /\ \A j \in 0..n - 1 : ~Holds(set[j], tag)
      BY <1>1
    <2> HIDE DEF set
    <2> QED
      BY <1>2, <2>1, NotInQueue
  <1>4. Lines[s] = q /\ Lines' = [Lines EXCEPT ![s] = q]
    <2>1. q = QueueOf(sets'[s], s, args)
      OBVIOUS
    <2>2. PICK queue : queue = q
      OBVIOUS
    <2> HIDE DEF q
    <2>3. Lines[s] = QueueOf(sets[s], s, args) /\ Lines' = [Lines EXCEPT ![s] = queue]
      BY <2>1, <2>2, LinesAfter
    <2> QED
      BY <2>2, <2>3 DEF q
  <1>5. Dirty' = Dirty
    <2>1. ASSUME NEW x PROVE x \in Dirty' <=> x \in Dirty
      <3>1. Unsaved(sets'[s], s) = Unsaved(sets[s], s)
        OBVIOUS
      <3>2. PICK others \in BOOLEAN : /\ x \in Dirty <=> others \/ x \in Unsaved(sets[s], s)
                                      /\ x \in Dirty' <=> others \/ x \in Unsaved(sets'[s], s)
        BY DirtyAfter
      <3> QED
        BY <3>1, <3>2
    <2> QED
      BY <2>1
  <1>6. /\ stats'.total_cycles = stats.total_cycles + 1 + 0 + 0 + StoreCost
        /\ HitsOf' = HitsOf /\ MissesOf' = [MissesOf EXCEPT ![TRUE] = @ + 1]
    <2>1. /\ stats'.total_cycles = stats.total_cycles + 1 + StoreCost
          /\ HitsOf' = HitsOf /\ MissesOf' = [MissesOf EXCEPT ![TRUE] = @ + 1]
      BY CountsAfter
    <2> QED
      BY <1>2, <2>1
  <1>7. s = b % args.num_sets
    OBVIOUS
  <1> HIDE DEF q, b, set
  <1>8. Abstract!Access(b, TRUE)
    BY <1>2, <1>3, <1>4, <1>5, <1>6, <1>7, AbstractPass
  <1> QED
    BY <1>8 DEF b

\* So every access is one of the abstract cache.
LEMMA EffectIsAccess ==
  ASSUME IInv, IInv', OrderInv, is_valid_argument(args), UNCHANGED args,
         NEW s \in 0..args.num_sets - 1, NEW tag \in Nat, NEW isStore \in BOOLEAN,
         Number(tag, s, args) % args.num_sets = s, Effect(s, tag, isStore)
  PROVE  Abstract!Access(Number(tag, s, args), isStore)
  <1>1. \A r \in 0..args.num_sets - 1 : r # s => sets'[r] = sets[r]
    BY DEF Effect
  <1>2. CASE /\ \E i \in 0..args.blocks - 1 :
                  HitEffect(sets[s], sets'[s], args.blocks, i, tag, Mark(isStore))
             /\ Counted(isStore, TRUE, Sent(isStore))
    BY <1>1, <1>2, HitIsAccess
  <1>3. CASE /\ isStore => args.write_alloc
             /\ \E v \in 0..args.blocks - 1 :
                  /\ FetchEffect(sets[s], sets'[s], args.blocks, v, tag, Mark(isStore))
                  /\ Counted(isStore, FALSE,
                       Penalty + (IF sets[s][v].dirty THEN Penalty ELSE 0) + Sent(isStore))
    BY <1>1, <1>3, FetchIsAccess
  <1>4. CASE /\ isStore /\ ~args.write_alloc
             /\ \A j \in 0..args.blocks - 1 : ~Holds(sets[s][j], tag)
             /\ sets'[s] = sets[s]
             /\ Counted(isStore, FALSE, StoreCost)
    <2>1. isStore = TRUE
      BY <1>4
    <2> QED
      BY <1>1, <1>4, <2>1, PassIsAccess
  <1> QED
    BY <1>2, <1>3, <1>4 DEF Effect

\* Every step of the simulator is one of the abstract cache, or a stutter.
LEMMA StepIsAccess ==
  ASSUME IInv, OrderInv, LoadTimesFit, TagsFit, [Next]_vars
  PROVE  [Abstract!Next]_(Abstract!vars)
  <1>1. IInv'
    BY CacheStep
  <1>2. args \in Arguments
    BY DEF IInv, TypeOK
  <1>3. CASE UNCHANGED <<args, sets, stats>>
    BY <1>3 DEF Abstract!vars, EvictionOrder, Dirty, Held
  <1>4. CASE /\ is_valid_argument(args) /\ UNCHANGED args
             /\ \E addr \in Address, isStore \in BOOLEAN :
                  /\ IndexOf(addr % Word) \in 0..args.num_sets - 1
                  /\ TagOf(addr % Word) \in 0..Word - 1
                  /\ Effect(IndexOf(addr % Word), TagOf(addr % Word), isStore)
    <2>1. PICK addr \in Address, isStore \in BOOLEAN :
            /\ IndexOf(addr % Word) \in 0..args.num_sets - 1
            /\ Effect(IndexOf(addr % Word), TagOf(addr % Word), isStore)
      BY <1>4
    <2>2. PICK x \in Nat : x = addr % Word
      BY ArgumentsAssumption
    <2>3. /\ args.num_sets \in Nat \ {0} /\ args.bytes \in Nat \ {0}
          /\ args.num_sets * args.bytes < Word
      BY <1>2, <1>4, ValidArguments DEF TagsFit
    <2>4. PICK s \in 0..args.num_sets - 1, tag \in Nat :
            /\ s = IndexOf(x) /\ tag = TagOf(x) /\ Effect(s, tag, isStore)
      BY <2>1, <2>2, <2>3, BlockOfAddress
    <2>5. /\ x \div args.bytes = Number(tag, s, args)
          /\ Number(tag, s, args) % args.num_sets = s
      BY <2>3, <2>4, BlockOfAddress DEF Number
    <2>6. Abstract!Access(Number(tag, s, args), isStore)
      BY <1>1, <1>4, <2>4, <2>5, EffectIsAccess
    <2>7. (addr % Word) \div args.bytes
            \in {(a % Word) \div c.bytes : a \in Address, c \in Arguments}
      BY <1>2
    <2>8. Number(tag, s, args) \in {(a % Word) \div c.bytes : a \in Address, c \in Arguments}
      BY <2>2, <2>5, <2>7
    <2> QED
      BY <2>6, <2>8 DEF Abstract!Next
  <1> QED
    BY <1>3, <1>4, StepIsEffect

\* The cache starts as the abstract one does.
LEMMA InitIsAbstract == Init => Abstract!Init
  <1> SUFFICES ASSUME Init PROVE Abstract!Init
    OBVIOUS
  <1>1. stats = [c \in Counter |-> 0] /\ args \in Arguments
    BY DEF Init
  <1>2. /\ stats.total_cycles = 0 /\ stats.load_hits = 0 /\ stats.load_misses = 0
        /\ stats.store_hits = 0 /\ stats.store_misses = 0
    BY <1>1 DEF Counter
  <1>4. CASE is_valid_argument(args)
    <2>1. sets = [s \in 0..args.num_sets - 1 |-> EmptySet(args.blocks)]
      BY <1>4 DEF Init
    <2>2. \A s \in DOMAIN sets : /\ Filling(sets[s]) = {}
                                 /\ \A i \in DOMAIN sets[s] : sets[s][i].dirty = FALSE
      BY <2>1 DEF Filling, EmptySet
    <2>3. ASSUME NEW s \in DOMAIN sets PROVE EvictionOrder(s) = <<>>
      <3>1. EvictionOrder(s) = QueueOf(sets[s], s, args)
        BY OrderIsQueue
      <3>2. Cardinality(Filling(sets[s])) = 0
        BY <2>2, FS_EmptySet
      <3>3. 1..0 = {}
        OBVIOUS
      <3> QED
        BY <3>1, <3>2, <3>3 DEF QueueOf
    <2>4. Lines = [s \in 0..args.num_sets - 1 |-> <<>>]
      BY <2>1, <2>3 DEF Lines
    <2>5. Dirty = {}
      BY <2>2 DEF Dirty
    <2> QED
      BY <1>2, <2>4, <2>5 DEF Abstract!Init, Lines
  <1>5. CASE ~is_valid_argument(args)
    <2>1. sets = <<>>
      BY <1>5 DEF Init
    <2>2. DOMAIN sets = {}
      BY <2>1
    <2>3. Lines = <<>>
      BY <2>2 DEF Lines
    <2>4. Dirty = {}
      BY <2>2 DEF Dirty
    <2> QED
      BY <1>2, <2>3, <2>4 DEF Abstract!Init, Lines
  <1> QED
    BY <1>4, <1>5

\* For caches of any size, under every policy, the simulator of cache_sim.cpp
\* holds the memory blocks of the abstract cache, would evict them in its order,
\* owes memory its stores and counts its hits, misses and cycles, as long as the
\* load times of a FIFO cache stay below 2^32, and its sets times its block size.
THEOREM CacheImplementsMemoryCache ==
  ASSUME LoadTimesFit, TagsFit
  PROVE  Spec => ImplementsMemoryCache
  <1>1. Init => OrderInv
    BY OrderInit
  <1>2. IInv /\ OrderInv /\ [Next]_vars => OrderInv'
    BY OrderStep
  <1>3. IInv /\ OrderInv /\ [Next]_vars => [Abstract!Next]_(Abstract!vars)
    BY StepIsAccess
  <1> QED
    BY <1>1, <1>2, <1>3, InitIsAbstract, CacheInvariant, PTL
    DEF Spec, ImplementsMemoryCache, Abstract!Spec
=============================================================================
