--------------------------- MODULE CachePairProofs ---------------------------
(***************************************************************************)
(* Theorems about CachePair, for caches of any size, any trace and any     *)
(* pair of command lines: an LRU cache with more blocks per set holds what *)
(* the smaller one holds and hits no less often, and what does not change  *)
(* the blocks a cache holds, the eviction policy of one-block sets and the *)
(* write policy, does not change its hits either.                          *)
(***************************************************************************)
EXTENDS CachePair, CacheProofs

\* The theorems of CacheProofs about the second run.
SecondProofs == INSTANCE CacheProofs
  WITH args <- args2, sets <- sets2, stats <- stats2, status <- status2

-----------------------------------------------------------------------------
(* LRU: one set of the smaller cache and the same set of the larger one    *)

\* The larger set holds what the smaller one holds, in the same order of use; and
\* while the smaller set has blocks left to fill, the two hold the same.
AllHeld(small, n1, large, n2) ==
  \A i \in 0..n1 - 1 : small[i].valid =>
    \E j \in 0..n2 - 1 : large[j].valid /\ large[j].tag = small[i].tag

SameOrder(small, n1, large, n2) ==
  \A i, k \in 0..n1 - 1, j, l \in 0..n2 - 1 :
    /\ small[i].valid /\ small[k].valid /\ large[j].valid /\ large[l].valid
    /\ small[i].tag = large[j].tag /\ small[k].tag = large[l].tag
    /\ small[i].access_ts < small[k].access_ts
    => large[j].access_ts < large[l].access_ts

SameWhileFilling(small, n1, large, n2) ==
  (\E i \in 0..n1 - 1 : ~small[i].valid) =>
    \A j \in 0..n2 - 1 : large[j].valid =>
      \E i \in 0..n1 - 1 : /\ small[i].valid
                           /\ small[i].tag = large[j].tag
                           /\ small[i].access_ts = large[j].access_ts

Included(small, n1, large, n2) ==
  /\ AllHeld(small, n1, large, n2)
  /\ SameOrder(small, n1, large, n2)
  /\ SameWhileFilling(small, n1, large, n2)

\* Ageing the younger blocks keeps the order of the others.
LEMMA AgeingKeepsOrder ==
  ASSUME NEW n \in Nat, NEW old, NEW new, NEW i \in 0..n - 1, NEW tag,
         DistinctAges(old, n), Used(old, new, n, i, tag)
  PROVE  \A j, k \in 0..n - 1 : j # i /\ k # i =>
           /\ new[j].access_ts < new[k].access_ts <=> old[j].access_ts < old[k].access_ts
           /\ 0 < new[j].access_ts
  <1> SUFFICES ASSUME NEW j \in 0..n - 1, NEW k \in 0..n - 1, j # i, k # i
               PROVE  /\ new[j].access_ts < new[k].access_ts
                            <=> old[j].access_ts < old[k].access_ts
                      /\ 0 < new[j].access_ts
    OBVIOUS
  <1>1. /\ old[j].access_ts \in 0..n - 1 /\ old[k].access_ts \in 0..n - 1
        /\ old[i].access_ts \in 0..n - 1
    BY DEF DistinctAges
  <1>2. old[j].access_ts # old[i].access_ts /\ old[k].access_ts # old[i].access_ts
    BY DEF DistinctAges
  <1>3. /\ new[j].access_ts = IF old[j].access_ts < old[i].access_ts
                              THEN old[j].access_ts + 1 ELSE old[j].access_ts
        /\ new[k].access_ts = IF old[k].access_ts < old[i].access_ts
                              THEN old[k].access_ts + 1 ELSE old[k].access_ts
    BY DEF Used
  <1> QED
    BY <1>1, <1>2, <1>3

\* When both sets use a block for the tag, and what they hold besides agrees as
\* before, the larger one still includes the smaller one.
LEMMA BothUsed ==
  ASSUME NEW n1 \in Nat, NEW n2 \in Nat, NEW S, NEW S2, NEW L, NEW L2, NEW tag,
         Orderly(S, n1), Orderly(L, n2), Included(S, n1, L, n2),
         NEW i \in 0..n1 - 1, NEW j \in 0..n2 - 1,
         Used(S, S2, n1, i, tag), Used(L, L2, n2, j, tag),
         \A p \in 0..n1 - 1 : p # i /\ S[p].valid => S[p].tag # tag,
         \A q \in 0..n2 - 1 : q # j /\ L[q].valid => L[q].tag # tag,
         \A p \in 0..n1 - 1 : p # i /\ S[p].valid =>
           \E q \in 0..n2 - 1 : q # j /\ L[q].valid /\ L[q].tag = S[p].tag,
         \A x \in 0..n1 - 1 : x # i /\ ~S[x].valid =>
           \A q \in 0..n2 - 1 : q # j /\ L[q].valid =>
             \E p \in 0..n1 - 1 :
               /\ p # i /\ S[p].valid /\ S[p].tag = L[q].tag
               /\ S[p].access_ts = L[q].access_ts
               /\ S[p].access_ts < S[i].access_ts <=> L[q].access_ts < L[j].access_ts
  PROVE  Included(S2, n1, L2, n2)
  <1>1. /\ S2[i].valid /\ S2[i].tag = tag /\ S2[i].access_ts = 0
        /\ L2[j].valid /\ L2[j].tag = tag /\ L2[j].access_ts = 0
    BY DEF Used
  <1>2. \A p \in 0..n1 - 1 : p # i =>
          /\ S2[p].valid = S[p].valid /\ S2[p].tag = S[p].tag
          /\ S2[p].access_ts = IF S[p].access_ts < S[i].access_ts
                               THEN S[p].access_ts + 1 ELSE S[p].access_ts
    BY DEF Used
  <1>3. \A q \in 0..n2 - 1 : q # j =>
          /\ L2[q].valid = L[q].valid /\ L2[q].tag = L[q].tag
          /\ L2[q].access_ts = IF L[q].access_ts < L[j].access_ts
                               THEN L[q].access_ts + 1 ELSE L[q].access_ts
    BY DEF Used
  <1>4. AllHeld(S2, n1, L2, n2)
    <2> SUFFICES ASSUME NEW p \in 0..n1 - 1, S2[p].valid
                 PROVE  \E q \in 0..n2 - 1 : L2[q].valid /\ L2[q].tag = S2[p].tag
      BY DEF AllHeld
    <2>1. CASE p = i
      BY <1>1, <2>1
    <2>2. CASE p # i
      <3>1. S[p].valid /\ S2[p].tag = S[p].tag
        BY <1>2, <2>2
      <3>2. PICK q \in 0..n2 - 1 : q # j /\ L[q].valid /\ L[q].tag = S[p].tag
        BY <2>2, <3>1
      <3> QED
        BY <1>3, <3>1, <3>2
    <2> QED
      BY <2>1, <2>2
  <1>5. SameOrder(S2, n1, L2, n2)
    <2> SUFFICES ASSUME NEW p \in 0..n1 - 1, NEW k \in 0..n1 - 1,
                        NEW q \in 0..n2 - 1, NEW l \in 0..n2 - 1,
                        S2[p].valid, S2[k].valid, L2[q].valid, L2[l].valid,
                        S2[p].tag = L2[q].tag, S2[k].tag = L2[l].tag,
                        S2[p].access_ts < S2[k].access_ts
                 PROVE  L2[q].access_ts < L2[l].access_ts
      BY DEF SameOrder
    <2>a. DistinctAges(S, n1) /\ DistinctAges(L, n2)
      BY DEF Orderly
    <2>0. \A x, y \in 0..n1 - 1 : x # i /\ y # i =>
            /\ S2[x].access_ts < S2[y].access_ts <=> S[x].access_ts < S[y].access_ts
            /\ 0 < S2[x].access_ts
      BY <2>a, AgeingKeepsOrder
    <2>b. \A x, y \in 0..n2 - 1 : x # j /\ y # j =>
            /\ L2[x].access_ts < L2[y].access_ts <=> L[x].access_ts < L[y].access_ts
            /\ 0 < L2[x].access_ts
      BY <2>a, AgeingKeepsOrder
    <2>1. k # i
      <3> SUFFICES ASSUME k = i PROVE FALSE
        OBVIOUS
      <3>1. p # i
        BY <1>1
      <3>2. 0 < S2[p].access_ts
        BY <2>0, <3>1
      <3>3. S[p].access_ts \in 0..n1 - 1
        BY <2>a DEF DistinctAges
      <3>4. S2[p].access_ts \in Int
        BY <1>2, <3>1, <3>3
      <3> QED
        BY <1>1, <3>2, <3>4
    <2>2. S[k].valid /\ S2[k].tag = S[k].tag /\ S[k].tag # tag
      BY <1>2, <2>1
    <2>3. l # j
      BY <1>1, <2>2
    <2>4. L[l].valid /\ L2[l].tag = L[l].tag
      BY <1>3, <2>3
    <2>5. CASE p = i
      <3>1. q = j
        BY <1>1, <1>3, <2>5
      <3>2. 0 < L2[l].access_ts
        BY <2>b, <2>3
      <3> QED
        BY <1>1, <3>1, <3>2
    <2>6. CASE p # i
      <3>1. S[p].valid /\ S2[p].tag = S[p].tag /\ S[p].tag # tag
        BY <1>2, <2>6
      <3>2. q # j
        <4> SUFFICES ASSUME q = j PROVE FALSE
          OBVIOUS
        <4>1. S2[p].tag = tag
          BY <1>1
        <4> QED
          BY <3>1, <4>1
      <3>3. L[q].valid /\ L2[q].tag = L[q].tag
        BY <1>3, <3>2
      <3>4. S[p].access_ts < S[k].access_ts
        BY <2>0, <2>1, <2>6
      <3>a. S[p].tag = L[q].tag /\ S[k].tag = L[l].tag
        BY <2>2, <2>4, <3>1, <3>3
      <3>b. SameOrder(S, n1, L, n2)
        BY DEF Included
      <3>5. L[q].access_ts < L[l].access_ts
        BY <2>2, <2>4, <3>1, <3>3, <3>4, <3>a, <3>b DEF SameOrder
      <3> QED
        BY <2>b, <2>3, <3>2, <3>5
    <2> QED
      BY <2>5, <2>6
  <1>6. SameWhileFilling(S2, n1, L2, n2)
    <2> SUFFICES ASSUME NEW x \in 0..n1 - 1, ~S2[x].valid,
                        NEW q \in 0..n2 - 1, L2[q].valid
                 PROVE  \E p \in 0..n1 - 1 : /\ S2[p].valid
                                             /\ S2[p].tag = L2[q].tag
                                             /\ S2[p].access_ts = L2[q].access_ts
      BY DEF SameWhileFilling
    <2>1. x # i /\ ~S[x].valid
      BY <1>1, <1>2
    <2>2. CASE q = j
      BY <1>1, <2>2
    <2>3. CASE q # j
      <3>1. L[q].valid /\ L2[q].tag = L[q].tag
        BY <1>3, <2>3
      <3>2. PICK p \in 0..n1 - 1 :
              /\ p # i /\ S[p].valid /\ S[p].tag = L[q].tag
              /\ S[p].access_ts = L[q].access_ts
              /\ S[p].access_ts < S[i].access_ts <=> L[q].access_ts < L[j].access_ts
        BY <2>1, <2>3, <3>1
      <3>3. S2[p].valid /\ S2[p].tag = L2[q].tag
        BY <1>2, <3>1, <3>2
      <3>4. S2[p].access_ts = L2[q].access_ts
        BY <1>2, <1>3, <2>3, <3>2
      <3> QED
        BY <3>3, <3>4
    <2> QED
      BY <2>2, <2>3
  <1> QED
    BY <1>4, <1>5, <1>6 DEF Included

\* A tag that both hold.
LEMMA BothHit ==
  ASSUME NEW n1 \in Nat, NEW n2 \in Nat, NEW S, NEW S2, NEW L, NEW L2, NEW tag,
         Orderly(S, n1), Orderly(L, n2), Included(S, n1, L, n2),
         NEW i \in 0..n1 - 1, NEW j \in 0..n2 - 1,
         Used(S, S2, n1, i, tag), Used(L, L2, n2, j, tag),
         Holds(S[i], tag), Holds(L[j], tag)
  PROVE  Included(S2, n1, L2, n2)
  <1>1. \A p \in 0..n1 - 1 : p # i /\ S[p].valid => S[p].tag # tag
    BY DEF Orderly, OneCopy, Holds
  <1>2. \A q \in 0..n2 - 1 : q # j /\ L[q].valid => L[q].tag # tag
    BY DEF Orderly, OneCopy, Holds
  <1>3. \A p \in 0..n1 - 1 : p # i /\ S[p].valid =>
          \E q \in 0..n2 - 1 : q # j /\ L[q].valid /\ L[q].tag = S[p].tag
    BY <1>1 DEF Included, AllHeld, Holds
  <1>4. ASSUME NEW x \in 0..n1 - 1, ~S[x].valid, NEW q \in 0..n2 - 1, q # j, L[q].valid
        PROVE  \E p \in 0..n1 - 1 :
                 /\ p # i /\ S[p].valid /\ S[p].tag = L[q].tag
                 /\ S[p].access_ts = L[q].access_ts
                 /\ S[p].access_ts < S[i].access_ts <=> L[q].access_ts < L[j].access_ts
    <2>1. \A r \in 0..n2 - 1 : L[r].valid =>
            \E p \in 0..n1 - 1 : /\ S[p].valid
                                 /\ S[p].tag = L[r].tag
                                 /\ S[p].access_ts = L[r].access_ts
      BY <1>4 DEF Included, SameWhileFilling
    <2>2. PICK p \in 0..n1 - 1 : /\ S[p].valid
                                 /\ S[p].tag = L[q].tag
                                 /\ S[p].access_ts = L[q].access_ts
      BY <1>4, <2>1
    <2>3. p # i
      BY <1>2, <1>4, <2>2 DEF Holds
    <2>4. PICK o \in 0..n1 - 1 : /\ S[o].valid
                                 /\ S[o].tag = L[j].tag
                                 /\ S[o].access_ts = L[j].access_ts
      BY <2>1 DEF Holds
    <2>5. o = i
      BY <1>1, <2>4 DEF Holds
    <2> QED
      BY <2>2, <2>3, <2>4, <2>5
  <1> QED
    BY <1>1, <1>2, <1>3, <1>4, BothUsed

\* A tag that only the larger set holds, and that both hold afterwards.
LEMMA SmallMisses ==
  ASSUME NEW n1 \in Nat, NEW n2 \in Nat, NEW S, NEW S2, NEW L, NEW L2, NEW tag,
         Orderly(S, n1), Orderly(L, n2), Included(S, n1, L, n2),
         NEW i \in 0..n1 - 1, NEW j \in 0..n2 - 1,
         Used(S, S2, n1, i, tag), Used(L, L2, n2, j, tag),
         \A p \in 0..n1 - 1 : ~Holds(S[p], tag), Holds(L[j], tag)
  PROVE  Included(S2, n1, L2, n2)
  <1>1. \A p \in 0..n1 - 1 : S[p].valid => S[p].tag # tag
    BY DEF Holds
  <1>2. \A q \in 0..n2 - 1 : q # j /\ L[q].valid => L[q].tag # tag
    BY DEF Orderly, OneCopy, Holds
  <1>3. \A p \in 0..n1 - 1 : S[p].valid =>
          \E q \in 0..n2 - 1 : q # j /\ L[q].valid /\ L[q].tag = S[p].tag
    BY <1>1 DEF Included, AllHeld, Holds
  <1>4. \A p \in 0..n1 - 1 : S[p].valid
    BY <1>1 DEF Included, SameWhileFilling, Holds
  <1> QED
    BY <1>1, <1>2, <1>3, <1>4, BothUsed

\* A tag that only the larger set holds and that the smaller one does not take.
LEMMA SmallPasses ==
  ASSUME NEW n1 \in Nat, NEW n2 \in Nat, NEW S, NEW L, NEW L2, NEW tag,
         Orderly(S, n1), Orderly(L, n2), Included(S, n1, L, n2),
         NEW j \in 0..n2 - 1, Used(L, L2, n2, j, tag),
         \A p \in 0..n1 - 1 : ~Holds(S[p], tag), Holds(L[j], tag)
  PROVE  Included(S, n1, L2, n2)
  <1>1. \A p \in 0..n1 - 1 : S[p].valid => S[p].tag # tag
    BY DEF Holds
  <1>2. \A p \in 0..n1 - 1 : S[p].valid
    BY <1>1 DEF Included, SameWhileFilling, Holds
  <1>3. /\ L2[j].valid /\ L2[j].tag = tag
        /\ \A q \in 0..n2 - 1 : q # j => L2[q].valid = L[q].valid /\ L2[q].tag = L[q].tag
    BY DEF Used
  <1>4. AllHeld(S, n1, L2, n2)
    BY <1>1, <1>3 DEF Included, AllHeld, Holds
  <1>5. SameOrder(S, n1, L2, n2)
    <2> SUFFICES ASSUME NEW p \in 0..n1 - 1, NEW k \in 0..n1 - 1,
                        NEW q \in 0..n2 - 1, NEW l \in 0..n2 - 1,
                        S[p].valid, S[k].valid, L2[q].valid, L2[l].valid,
                        S[p].tag = L2[q].tag, S[k].tag = L2[l].tag,
                        S[p].access_ts < S[k].access_ts
                 PROVE  L2[q].access_ts < L2[l].access_ts
      BY DEF SameOrder
    <2>1. q # j /\ l # j
      BY <1>1, <1>3
    <2>2. /\ L[q].valid /\ L2[q].tag = L[q].tag
          /\ L[l].valid /\ L2[l].tag = L[l].tag
      BY <1>3, <2>1
    <2>3. L[q].access_ts < L[l].access_ts
      BY <2>2 DEF Included, SameOrder
    <2>4. DistinctAges(L, n2)
      BY DEF Orderly
    <2>5. \A x, y \in 0..n2 - 1 : x # j /\ y # j =>
            L2[x].access_ts < L2[y].access_ts <=> L[x].access_ts < L[y].access_ts
      BY <2>4, AgeingKeepsOrder
    <2> QED
      BY <2>1, <2>3, <2>5
  <1>6. SameWhileFilling(S, n1, L2, n2)
    BY <1>2 DEF SameWhileFilling
  <1> QED
    BY <1>4, <1>5, <1>6 DEF Included

\* A tag that neither holds: the larger set evicts nothing the smaller one keeps.
LEMMA BothMiss ==
  ASSUME NEW n1 \in Nat, NEW n2 \in Nat, n1 <= n2,
         NEW S, NEW S2, NEW L, NEW L2, NEW tag,
         Orderly(S, n1), Orderly(L, n2), Included(S, n1, L, n2),
         NEW i \in 0..n1 - 1, NEW j \in 0..n2 - 1,
         Used(S, S2, n1, i, tag), Used(L, L2, n2, j, tag),
         S[i].access_ts = n1 - 1, L[j].access_ts = n2 - 1,
         \A p \in 0..n1 - 1 : ~Holds(S[p], tag),
         \A q \in 0..n2 - 1 : ~Holds(L[q], tag)
  PROVE  Included(S2, n1, L2, n2)
  <1>1. \A p \in 0..n1 - 1 : S[p].valid => S[p].tag # tag
    BY DEF Holds
  <1>2. \A q \in 0..n2 - 1 : L[q].valid => L[q].tag # tag
    BY DEF Holds
  <1>3. /\ \A x \in 0..n1 - 1 : S[x].access_ts \in 0..n1 - 1
        /\ \A x, y \in 0..n1 - 1 : S[x].access_ts = S[y].access_ts => x = y
        /\ \A x \in 0..n2 - 1 : L[x].access_ts \in 0..n2 - 1
        /\ \A x, y \in 0..n2 - 1 : L[x].access_ts = L[y].access_ts => x = y
    BY DEF Orderly, DistinctAges
  <1>4. ASSUME NEW p \in 0..n1 - 1, p # i PROVE S[p].access_ts < S[i].access_ts
    <2>1. S[p].access_ts \in 0..n1 - 1 /\ S[p].access_ts # S[i].access_ts
      BY <1>3, <1>4
    <2> QED
      BY <2>1
  <1>5. ASSUME NEW q \in 0..n2 - 1, q # j PROVE L[q].access_ts < L[j].access_ts
    <2>1. L[q].access_ts \in 0..n2 - 1 /\ L[q].access_ts # L[j].access_ts
      BY <1>3, <1>5
    <2> QED
      BY <2>1
  <1>6. (\E x \in 0..n1 - 1 : ~S[x].valid) => ~S[i].valid
    <2> SUFFICES ASSUME NEW x \in 0..n1 - 1, ~S[x].valid, S[i].valid PROVE FALSE
      OBVIOUS
    <2>1. S[i].access_ts < S[x].access_ts
      BY DEF Orderly, InvalidLast
    <2>2. S[x].access_ts \in 0..n1 - 1
      BY <1>3
    <2> QED
      BY <2>1, <2>2
  <1>7. ASSUME NEW p \in 0..n1 - 1, p # i, S[p].valid
        PROVE  \E q \in 0..n2 - 1 : q # j /\ L[q].valid /\ L[q].tag = S[p].tag
    <2>1. PICK q \in 0..n2 - 1 : L[q].valid /\ L[q].tag = S[p].tag
      BY <1>7 DEF Included, AllHeld
    <2>2. q # j
      <3> SUFFICES ASSUME q = j PROVE FALSE
        OBVIOUS
      <3>1. CASE S[i].valid
        <4>1. PICK l \in 0..n2 - 1 : L[l].valid /\ L[l].tag = S[i].tag
          BY <3>1 DEF Included, AllHeld
        <4>2. S[p].access_ts < S[i].access_ts
          BY <1>4, <1>7
        <4>3. L[q].access_ts < L[l].access_ts
          BY <1>7, <2>1, <3>1, <4>1, <4>2 DEF Included, SameOrder
        <4>4. L[l].access_ts \in 0..n2 - 1
          BY <1>3
        <4> QED
          BY <4>3, <4>4
      <3>2. CASE ~S[i].valid
        <4>1. PICK o \in 0..n1 - 1 : /\ S[o].valid
                                     /\ S[o].tag = L[j].tag
                                     /\ S[o].access_ts = L[j].access_ts
          BY <2>1, <3>2 DEF Included, SameWhileFilling
        <4>2. o # i
          BY <3>2, <4>1
        <4>3. S[o].access_ts < S[i].access_ts
          BY <1>4, <4>2
        <4> QED
          BY <4>1, <4>3
      <3> QED
        BY <3>1, <3>2
    <2> QED
      BY <2>1, <2>2
  <1>8. ASSUME NEW x \in 0..n1 - 1, x # i, ~S[x].valid,
               NEW q \in 0..n2 - 1, q # j, L[q].valid
        PROVE  \E p \in 0..n1 - 1 :
                 /\ p # i /\ S[p].valid /\ S[p].tag = L[q].tag
                 /\ S[p].access_ts = L[q].access_ts
                 /\ S[p].access_ts < S[i].access_ts <=> L[q].access_ts < L[j].access_ts
    <2>1. PICK p \in 0..n1 - 1 : /\ S[p].valid
                                 /\ S[p].tag = L[q].tag
                                 /\ S[p].access_ts = L[q].access_ts
      BY <1>8 DEF Included, SameWhileFilling
    <2>2. p # i
      BY <1>6, <1>8, <2>1
    <2> QED
      BY <1>4, <1>5, <1>8, <2>1, <2>2
  <1> QED
    BY <1>1, <1>2, <1>7, <1>8, BothUsed

\* Whatever the access, the larger set still includes the smaller one, and it hits
\* when the smaller one does.
LEMMA AnswersKeepIncluded ==
  ASSUME NEW n1 \in Nat, NEW n2 \in Nat, n1 <= n2,
         NEW S, NEW S2, NEW L, NEW L2, NEW tag, NEW allocates \in BOOLEAN,
         Orderly(S, n1), Orderly(L, n2), Included(S, n1, L, n2),
         Answers(S, S2, n1, tag, allocates), Answers(L, L2, n2, tag, allocates)
  PROVE  /\ Included(S2, n1, L2, n2)
         /\ (\E i \in 0..n1 - 1 : Holds(S[i], tag)) => \E j \in 0..n2 - 1 : Holds(L[j], tag)
  <1>1. (\E i \in 0..n1 - 1 : Holds(S[i], tag)) => \E j \in 0..n2 - 1 : Holds(L[j], tag)
    BY DEF Included, AllHeld, Holds
  <1>2. CASE \E i \in 0..n1 - 1 : Holds(S[i], tag)
    <2>1. PICK i \in 0..n1 - 1 : Holds(S[i], tag) /\ Used(S, S2, n1, i, tag)
      BY <1>2 DEF Answers
    <2>2. PICK j \in 0..n2 - 1 : Holds(L[j], tag) /\ Used(L, L2, n2, j, tag)
      BY <1>1, <1>2 DEF Answers
    <2>3. Included(S2, n1, L2, n2)
      BY <2>1, <2>2, BothHit
    <2> QED
      BY <1>1, <2>3
  <1>3. CASE /\ \A i \in 0..n1 - 1 : ~Holds(S[i], tag)
             /\ \E j \in 0..n2 - 1 : Holds(L[j], tag)
    <2>1. PICK j \in 0..n2 - 1 : Holds(L[j], tag) /\ Used(L, L2, n2, j, tag)
      BY <1>3 DEF Answers
    <2>2. CASE allocates
      <3>1. PICK i \in 0..n1 - 1 : Used(S, S2, n1, i, tag)
        BY <1>3, <2>2 DEF Answers
      <3>2. Included(S2, n1, L2, n2)
        BY <1>3, <2>1, <3>1, SmallMisses
      <3> QED
        BY <1>1, <3>2
    <2>3. CASE ~allocates
      <3>1. S2 = S
        BY <1>3, <2>3 DEF Answers
      <3>2. Included(S, n1, L2, n2)
        BY <1>3, <2>1, SmallPasses
      <3> QED
        BY <1>1, <3>1, <3>2
    <2> QED
      BY <2>2, <2>3
  <1>4. CASE /\ \A i \in 0..n1 - 1 : ~Holds(S[i], tag)
             /\ \A j \in 0..n2 - 1 : ~Holds(L[j], tag)
    <2>1. CASE allocates
      <3>1. PICK i \in 0..n1 - 1 : S[i].access_ts = n1 - 1 /\ Used(S, S2, n1, i, tag)
        BY <1>4, <2>1 DEF Answers
      <3>2. PICK j \in 0..n2 - 1 : L[j].access_ts = n2 - 1 /\ Used(L, L2, n2, j, tag)
        BY <1>4, <2>1 DEF Answers
      <3>3. Included(S2, n1, L2, n2)
        BY <1>4, <3>1, <3>2, BothMiss
      <3> QED
        BY <1>1, <3>3
    <2>2. CASE ~allocates
      <3>1. S2 = S /\ L2 = L
        BY <1>4, <2>2 DEF Answers
      <3> QED
        BY <1>1, <3>1
    <2> QED
      BY <2>1, <2>2
  <1> QED
    BY <1>2, <1>3, <1>4

-----------------------------------------------------------------------------
(* The second run                                                          *)

\* The actions CachePair takes of the second run are those CacheProofs is about.
LEMMA SecondLoads ==
  ASSUME NEW addr
  PROVE  Second!loading(addr) <=> SecondProofs!loading(addr)
  <1>1. ASSUME NEW s, NEW tag
        PROVE  Second!loading_lru(s, tag) <=> SecondProofs!loading_lru(s, tag)
    BY DEF Second!loading_lru, SecondProofs!loading_lru,
           Second!Matching, SecondProofs!Matching, Second!Touch, SecondProofs!Touch,
           Second!ReplaceOldest, SecondProofs!ReplaceOldest,
           Second!Oldest, SecondProofs!Oldest, Second!Filled, SecondProofs!Filled,
           Second!Penalty, SecondProofs!Penalty, Second!WriteBack, SecondProofs!WriteBack,
           Second!Count, SecondProofs!Count, Second!Min, SecondProofs!Min,
           Second!Cardinality, SecondProofs!Cardinality
  <1>2. ASSUME NEW s, NEW tag
        PROVE  Second!loading_fifo(s, tag) <=> SecondProofs!loading_fifo(s, tag)
    BY DEF Second!loading_fifo, SecondProofs!loading_fifo,
           Second!Matching, SecondProofs!Matching, Second!Filled, SecondProofs!Filled,
           Second!ReplaceFirstIn, SecondProofs!ReplaceFirstIn,
           Second!FirstIn, SecondProofs!FirstIn,
           Second!Penalty, SecondProofs!Penalty, Second!WriteBack, SecondProofs!WriteBack,
           Second!Count, SecondProofs!Count, Second!Min, SecondProofs!Min,
           Second!Max, SecondProofs!Max, Second!Cardinality, SecondProofs!Cardinality
  <1> QED
    BY <1>1, <1>2 DEF Second!loading, SecondProofs!loading,
      Second!IndexOf, SecondProofs!IndexOf, Second!TagOf, SecondProofs!TagOf

\* So do the stores.
LEMMA SecondStores ==
  ASSUME NEW addr
  PROVE  Second!storing(addr) <=> SecondProofs!storing(addr)
  <1>1. ASSUME NEW s, NEW tag
        PROVE  Second!storing_lru(s, tag) <=> SecondProofs!storing_lru(s, tag)
    BY DEF Second!storing_lru, SecondProofs!storing_lru,
           Second!Matching, SecondProofs!Matching, Second!Touch, SecondProofs!Touch,
           Second!ReplaceOldest, SecondProofs!ReplaceOldest,
           Second!Oldest, SecondProofs!Oldest, Second!Filled, SecondProofs!Filled,
           Second!Marked, SecondProofs!Marked, Second!Through, SecondProofs!Through,
           Second!Penalty, SecondProofs!Penalty, Second!WriteBack, SecondProofs!WriteBack,
           Second!Count, SecondProofs!Count, Second!Min, SecondProofs!Min,
           Second!Cardinality, SecondProofs!Cardinality
  <1>2. ASSUME NEW s, NEW tag
        PROVE  Second!storing_fifo(s, tag) <=> SecondProofs!storing_fifo(s, tag)
    BY DEF Second!storing_fifo, SecondProofs!storing_fifo,
           Second!storing_miss_fifo, SecondProofs!storing_miss_fifo,
           Second!Matching, SecondProofs!Matching, Second!Filled, SecondProofs!Filled,
           Second!ReplaceFirstIn, SecondProofs!ReplaceFirstIn,
           Second!FirstIn, SecondProofs!FirstIn,
           Second!Marked, SecondProofs!Marked, Second!Through, SecondProofs!Through,
           Second!Penalty, SecondProofs!Penalty, Second!WriteBack, SecondProofs!WriteBack,
           Second!Count, SecondProofs!Count, Second!Min, SecondProofs!Min,
           Second!Max, SecondProofs!Max, Second!Cardinality, SecondProofs!Cardinality
  <1> QED
    BY <1>1, <1>2 DEF Second!storing, SecondProofs!storing,
      Second!IndexOf, SecondProofs!IndexOf, Second!TagOf, SecondProofs!TagOf

\* Every step of the pair is a step of both runs.
LEMMA PairSteps ==
  ASSUME [NextPair]_<<vars, second>>
  PROVE  [Next]_vars /\ [SecondProofs!Next]_(SecondProofs!vars)
  <1>1. CASE LoadBoth
    <2>1. Load
      BY <1>1 DEF LoadBoth, Load
    <2>2. SecondProofs!Load
      BY <1>1, SecondLoads
         DEF LoadBoth, SecondProofs!Load, Second!MayRead, SecondProofs!MayRead
    <2> QED
      BY <2>1, <2>2 DEF Next, SecondProofs!Next
  <1>2. CASE StoreBoth
    <2>1. Store
      BY <1>2 DEF StoreBoth, Store
    <2>2. SecondProofs!Store
      BY <1>2, SecondStores
         DEF StoreBoth, SecondProofs!Store, Second!MayRead, SecondProofs!MayRead
    <2> QED
      BY <2>1, <2>2 DEF Next, SecondProofs!Next
  <1>3. CASE EndBoth
    BY <1>3 DEF EndBoth, Next, SecondProofs!Next,
      Second!InvalidOperation, SecondProofs!InvalidOperation,
      Second!print_stats, SecondProofs!print_stats
  <1>4. CASE UNCHANGED <<vars, second>>
    BY <1>4 DEF vars, second, SecondProofs!vars
  <1> QED
    BY <1>1, <1>2, <1>3, <1>4 DEF NextPair

-----------------------------------------------------------------------------
(* The invariant of the pair                                               *)

\* A pair with a refused command line never moves: main has returned.
RefusedInv ==
  \/ is_valid_argument(args) /\ SecondProofs!is_valid_argument(args2)
  \/ Init /\ SecondProofs!Init

BothOK == IInv /\ SecondProofs!IInv /\ RefusedInv

\* Two LRU command lines that differ in the blocks of a set, the smaller first.
MoreBlocks ==
  /\ is_valid_argument(args) /\ SecondProofs!is_valid_argument(args2)
  /\ Differ({"blocks"})
  /\ args.evic_policy = "lru"
  /\ args.blocks <= args2.blocks

InclusionInv ==
  MoreBlocks =>
    /\ \A s \in 0..args.num_sets - 1 : Included(sets[s], args.blocks, sets2[s], args2.blocks)
    /\ Hits(stats) <= Hits(stats2)

\* At the start both runs are as their own command lines make them.
LEMMA BothInit == InitPair => BothOK
  <1> SUFFICES ASSUME InitPair PROVE BothOK
    OBVIOUS
  <1>1. Init
    BY DEF InitPair
  <1>2. SecondProofs!Init
    BY DEF InitPair, Second!Init, SecondProofs!Init,
      Second!is_valid_argument, SecondProofs!is_valid_argument,
      Second!is_valid_num, SecondProofs!is_valid_num,
      Second!EmptySet, SecondProofs!EmptySet, Second!Counter, SecondProofs!Counter
  <1>3. IInv
    BY <1>1, CacheInit
  <1>4. SecondProofs!IInv
    BY <1>2, SecondProofs!CacheInit, ArgumentsAssumption
  <1> QED
    BY <1>1, <1>2, <1>3, <1>4 DEF BothOK, RefusedInv

\* A step of the pair starts with both command lines accepted.
LEMMA StepsAreValid ==
  ASSUME BothOK, NextPair
  PROVE  is_valid_argument(args) /\ SecondProofs!is_valid_argument(args2)
  <1>1. status = "reading" /\ status2 = "reading"
    BY DEF NextPair, LoadBoth, StoreBoth, EndBoth, MayRead, Second!MayRead,
      InvalidOperation, Second!InvalidOperation, print_stats, Second!print_stats
  <1> QED
    BY <1>1 DEF BothOK, IInv, SecondProofs!IInv, StatusInv, SecondProofs!StatusInv

\* The inductive invariants of both runs, and what a refused pair looks like, are kept.
LEMMA BothStep ==
  ASSUME BothOK, [NextPair]_<<vars, second>>
  PROVE  BothOK'
  <1>1. IInv'
    BY PairSteps, CacheStep DEF BothOK
  <1>2. SecondProofs!IInv'
    BY PairSteps, SecondProofs!CacheStep, ArgumentsAssumption DEF BothOK
  <1>3. RefusedInv'
    <2>1. CASE NextPair
      <3>1. is_valid_argument(args) /\ SecondProofs!is_valid_argument(args2)
        BY <2>1, StepsAreValid
      <3>2. UNCHANGED <<args, args2>>
        BY <2>1 DEF NextPair, LoadBoth, StoreBoth, EndBoth, InvalidOperation,
          Second!InvalidOperation, print_stats, Second!print_stats
      <3> QED
        BY <3>1, <3>2 DEF RefusedInv
    <2>2. CASE UNCHANGED <<vars, second>>
      BY <2>2 DEF BothOK, RefusedInv, vars, second, Init, SecondProofs!Init
    <2> QED
      BY <2>1, <2>2
  <1> QED
    BY <1>1, <1>2, <1>3 DEF BothOK

\* What MoreBlocks says of the two command lines.
LEMMA MoreBlocksFacts ==
  ASSUME BothOK, MoreBlocks
  PROVE  /\ args2.num_sets = args.num_sets /\ args2.bytes = args.bytes
         /\ args2.write_alloc = args.write_alloc /\ args.write_alloc \in BOOLEAN
         /\ args2.evic_policy = "lru"
         /\ args.blocks \in Nat /\ args2.blocks \in Nat /\ args.blocks <= args2.blocks
         /\ args \in Arguments /\ args2 \in Arguments
  <1>1. args \in Arguments /\ args2 \in Arguments
    BY DEF BothOK, IInv, TypeOK, SecondProofs!IInv, SecondProofs!TypeOK
  <1>2. \A f \in {"num_sets", "bytes", "write_alloc", "evic_policy"} : args[f] = args2[f]
    BY DEF MoreBlocks, Differ, ArgumentFields
  <1>3. /\ args2.num_sets = args.num_sets /\ args2.bytes = args.bytes
        /\ args2.write_alloc = args.write_alloc /\ args2.evic_policy = args.evic_policy
    BY <1>2
  <1>4. args.blocks \in Nat /\ args.write_alloc \in BOOLEAN
    BY <1>1, ValidArguments DEF MoreBlocks
  <1>5. args2.blocks \in Nat
    BY <1>1, SecondProofs!ValidArguments, ArgumentsAssumption DEF MoreBlocks
  <1> QED
    BY <1>1, <1>3, <1>4, <1>5 DEF MoreBlocks

\* What an access of both LRU runs does to the set it indexes, and to the hits.
BothAnswer(s, tag, allocates) ==
  /\ Answers(sets[s], sets'[s], args.blocks, tag, allocates)
  /\ Answers(sets2[s], sets2'[s], args2.blocks, tag, allocates)
  /\ \A r \in 0..args.num_sets - 1 : r # s => sets'[r] = sets[r] /\ sets2'[r] = sets2[r]
  /\ Hits(stats') = Hits(stats)
                      + (IF \E i \in 0..args.blocks - 1 : Holds(sets[s][i], tag) THEN 1 ELSE 0)
  /\ Hits(stats2') = Hits(stats2)
                      + (IF \E i \in 0..args2.blocks - 1 : Holds(sets2[s][i], tag) THEN 1 ELSE 0)

\* A load of both runs is the same access of the same set in both.
LEMMA LoadsAnswer ==
  ASSUME BothOK, MoreBlocks, NEW addr \in Address,
         loading(addr % Word), Second!loading(addr % Word)
  PROVE  \E s \in 0..args.num_sets - 1, tag \in 0..Word - 1 : BothAnswer(s, tag, TRUE)
  <1>0. /\ IInv /\ SecondProofs!IInv
        /\ is_valid_argument(args) /\ SecondProofs!is_valid_argument(args2)
    BY DEF BothOK, MoreBlocks
  <1>1. /\ args2.num_sets = args.num_sets /\ args2.bytes = args.bytes
        /\ args.evic_policy = "lru" /\ args2.evic_policy = "lru" /\ args \in Arguments
    BY MoreBlocksFacts DEF MoreBlocks
  <1>2. PICK s \in 0..args.num_sets - 1 : s = IndexOf(addr % Word)
    BY <1>0, <1>1, AddressParts
  <1>3. PICK tag \in 0..Word - 1 : tag = TagOf(addr % Word)
    BY <1>0, <1>1, AddressParts
  <1>4. /\ SecondProofs!IndexOf(addr % Word) = s /\ SecondProofs!TagOf(addr % Word) = tag
    BY <1>1, <1>2, <1>3 DEF IndexOf, TagOf, SecondProofs!IndexOf, SecondProofs!TagOf
  <1>5. loading_lru(s, tag)
    BY <1>1, <1>2, <1>3 DEF loading
  <1>6. SecondProofs!loading_lru(s, tag)
    BY <1>1, <1>4, SecondLoads DEF SecondProofs!loading
  <1>7. s \in 0..args2.num_sets - 1
    BY <1>1
  <1>8. LruEffect(s, tag, TRUE)
    BY <1>0, <1>1, <1>5, LoadingLru
  <1>9. SecondProofs!LruEffect(s, tag, TRUE)
    BY <1>0, <1>1, <1>6, <1>7, SecondProofs!LoadingLru, ArgumentsAssumption
  <1>10. /\ Answers(sets[s], sets'[s], args.blocks, tag, TRUE)
         /\ \A r \in 0..args.num_sets - 1 : r # s => sets'[r] = sets[r]
         /\ stats'.load_hits + stats'.store_hits =
              stats.load_hits + stats.store_hits
                + (IF \E i \in 0..args.blocks - 1 : Holds(sets[s][i], tag) THEN 1 ELSE 0)
    BY <1>0, <1>8, LruEffectAnswers
  <1>11. /\ SecondProofs!Answers(sets2[s], sets2'[s], args2.blocks, tag, TRUE)
         /\ \A r \in 0..args2.num_sets - 1 : r # s => sets2'[r] = sets2[r]
         /\ stats2'.load_hits + stats2'.store_hits =
              stats2.load_hits + stats2.store_hits
                + (IF \E i \in 0..args2.blocks - 1 : SecondProofs!Holds(sets2[s][i], tag)
                   THEN 1 ELSE 0)
    BY <1>0, <1>7, <1>9, SecondProofs!LruEffectAnswers, ArgumentsAssumption
  <1>12. BothAnswer(s, tag, TRUE)
    BY <1>1, <1>10, <1>11 DEF BothAnswer, Hits, Answers, SecondProofs!Answers,
      Holds, SecondProofs!Holds, Used, SecondProofs!Used
  <1> QED
    BY <1>12

\* A store is too, and a miss allocates in both or in none.
LEMMA StoresAnswer ==
  ASSUME BothOK, MoreBlocks, NEW addr \in Address,
         storing(addr % Word), Second!storing(addr % Word)
  PROVE  \E s \in 0..args.num_sets - 1, tag \in 0..Word - 1 : BothAnswer(s, tag, args.write_alloc)
  <1>0. /\ IInv /\ SecondProofs!IInv
        /\ is_valid_argument(args) /\ SecondProofs!is_valid_argument(args2)
    BY DEF BothOK, MoreBlocks
  <1>1. /\ args2.num_sets = args.num_sets /\ args2.bytes = args.bytes
        /\ args.evic_policy = "lru" /\ args2.evic_policy = "lru" /\ args \in Arguments
        /\ args2.write_alloc = args.write_alloc /\ args.write_alloc \in BOOLEAN
    BY MoreBlocksFacts DEF MoreBlocks
  <1>2. PICK s \in 0..args.num_sets - 1 : s = IndexOf(addr % Word)
    BY <1>0, <1>1, AddressParts
  <1>3. PICK tag \in 0..Word - 1 : tag = TagOf(addr % Word)
    BY <1>0, <1>1, AddressParts
  <1>4. /\ SecondProofs!IndexOf(addr % Word) = s /\ SecondProofs!TagOf(addr % Word) = tag
    BY <1>1, <1>2, <1>3 DEF IndexOf, TagOf, SecondProofs!IndexOf, SecondProofs!TagOf
  <1>5. storing_lru(s, tag)
    BY <1>1, <1>2, <1>3 DEF storing
  <1>6. SecondProofs!storing_lru(s, tag)
    BY <1>1, <1>4, SecondStores DEF SecondProofs!storing
  <1>7. s \in 0..args2.num_sets - 1
    BY <1>1
  <1>8. LruEffect(s, tag, args.write_alloc)
    BY <1>0, <1>1, <1>5, StoringLru
  <1>9. SecondProofs!LruEffect(s, tag, args.write_alloc)
    BY <1>0, <1>1, <1>6, <1>7, SecondProofs!StoringLru, ArgumentsAssumption
  <1>10. /\ Answers(sets[s], sets'[s], args.blocks, tag, args.write_alloc)
         /\ \A r \in 0..args.num_sets - 1 : r # s => sets'[r] = sets[r]
         /\ stats'.load_hits + stats'.store_hits =
              stats.load_hits + stats.store_hits
                + (IF \E i \in 0..args.blocks - 1 : Holds(sets[s][i], tag) THEN 1 ELSE 0)
    BY <1>0, <1>1, <1>8, LruEffectAnswers
  <1>11. /\ SecondProofs!Answers(sets2[s], sets2'[s], args2.blocks, tag, args.write_alloc)
         /\ \A r \in 0..args2.num_sets - 1 : r # s => sets2'[r] = sets2[r]
         /\ stats2'.load_hits + stats2'.store_hits =
              stats2.load_hits + stats2.store_hits
                + (IF \E i \in 0..args2.blocks - 1 : SecondProofs!Holds(sets2[s][i], tag)
                   THEN 1 ELSE 0)
    BY <1>0, <1>1, <1>7, <1>9, SecondProofs!LruEffectAnswers, ArgumentsAssumption
  <1>12. BothAnswer(s, tag, args.write_alloc)
    BY <1>1, <1>10, <1>11 DEF BothAnswer, Hits, Answers, SecondProofs!Answers,
      Holds, SecondProofs!Holds, Used, SecondProofs!Used
  <1> QED
    BY <1>12

\* The hits of a run are counted with natural numbers.
LEMMA HitsAreNat ==
  ASSUME BothOK
  PROVE  Hits(stats) \in Nat /\ Hits(stats2) \in Nat
  <1>1. stats \in [Counter -> Nat] /\ stats2 \in [SecondProofs!Counter -> Nat]
    BY DEF BothOK, IInv, TypeOK, SecondProofs!IInv, SecondProofs!TypeOK
  <1>2. /\ stats.load_hits \in Nat /\ stats.store_hits \in Nat
        /\ stats2.load_hits \in Nat /\ stats2.store_hits \in Nat
    BY <1>1 DEF Counter, SecondProofs!Counter
  <1> QED
    BY <1>2 DEF Hits

\* An access of both keeps the inclusion.
LEMMA AccessKeepsInclusion ==
  ASSUME BothOK, MoreBlocks, InclusionInv, UNCHANGED <<args, args2>>,
         NEW s \in 0..args.num_sets - 1, NEW tag, NEW allocates \in BOOLEAN,
         BothAnswer(s, tag, allocates)
  PROVE  InclusionInv'
  <1>0. /\ IInv /\ SecondProofs!IInv
        /\ is_valid_argument(args) /\ SecondProofs!is_valid_argument(args2)
    BY DEF BothOK, MoreBlocks
  <1>1. /\ args2.num_sets = args.num_sets
        /\ args.evic_policy = "lru" /\ args2.evic_policy = "lru"
        /\ args.blocks \in Nat /\ args2.blocks \in Nat /\ args.blocks <= args2.blocks
    BY MoreBlocksFacts DEF MoreBlocks
  <1>2. Orderly(sets[s], args.blocks)
    BY <1>0, <1>1, SetsAreOrderly
  <1>3. s \in 0..args2.num_sets - 1
    BY <1>1
  <1>4. SecondProofs!Orderly(sets2[s], args2.blocks)
    BY <1>0, <1>1, <1>3, SecondProofs!SetsAreOrderly, ArgumentsAssumption
  <1>5. Orderly(sets2[s], args2.blocks)
    BY <1>4 DEF Orderly, SecondProofs!Orderly, DistinctAges, SecondProofs!DistinctAges,
      OneCopy, SecondProofs!OneCopy, InvalidLast, SecondProofs!InvalidLast
  <1>6. /\ \A r \in 0..args.num_sets - 1 : Included(sets[r], args.blocks, sets2[r], args2.blocks)
        /\ Hits(stats) <= Hits(stats2)
    BY DEF InclusionInv
  <1>7. /\ Answers(sets[s], sets'[s], args.blocks, tag, allocates)
        /\ Answers(sets2[s], sets2'[s], args2.blocks, tag, allocates)
        /\ \A r \in 0..args.num_sets - 1 : r # s => sets'[r] = sets[r] /\ sets2'[r] = sets2[r]
    BY DEF BothAnswer
  <1>8. /\ Included(sets'[s], args.blocks, sets2'[s], args2.blocks)
        /\ (\E i \in 0..args.blocks - 1 : Holds(sets[s][i], tag)) =>
             \E j \in 0..args2.blocks - 1 : Holds(sets2[s][j], tag)
    BY <1>1, <1>2, <1>5, <1>6, <1>7, AnswersKeepIncluded
  <1>9. Hits(stats') <= Hits(stats2')
    BY <1>6, <1>8, HitsAreNat DEF BothAnswer
  <1>10. \A r \in 0..args.num_sets - 1 :
           Included(sets'[r], args.blocks, sets2'[r], args2.blocks)
    BY <1>6, <1>7, <1>8
  <1> QED
    BY <1>9, <1>10 DEF InclusionInv

\* Empty sets include each other.
LEMMA InclusionInit == InitPair => InclusionInv
  <1> SUFFICES ASSUME InitPair, MoreBlocks
               PROVE  /\ \A s \in 0..args.num_sets - 1 :
                           Included(sets[s], args.blocks, sets2[s], args2.blocks)
                      /\ Hits(stats) <= Hits(stats2)
    BY DEF InclusionInv
  <1>0. BothOK /\ Init /\ Second!Init
    BY BothInit DEF InitPair
  <1>1. args2.num_sets = args.num_sets /\ is_valid_argument(args)
    BY <1>0, MoreBlocksFacts DEF MoreBlocks
  <1>2. Second!is_valid_argument(args2)
    BY DEF MoreBlocks, Second!is_valid_argument, SecondProofs!is_valid_argument,
      Second!is_valid_num, SecondProofs!is_valid_num
  <1>3. /\ sets = [s \in 0..args.num_sets - 1 |-> EmptySet(args.blocks)]
        /\ sets2 = [s \in 0..args2.num_sets - 1 |-> Second!EmptySet(args2.blocks)]
    BY <1>0, <1>1, <1>2 DEF Init, Second!Init
  <1>4. Hits(stats) = 0 /\ Hits(stats2) = 0
    BY <1>0 DEF Init, Second!Init, Hits, Counter, Second!Counter
  <1>5. ASSUME NEW s \in 0..args.num_sets - 1
        PROVE  Included(sets[s], args.blocks, sets2[s], args2.blocks)
    <2>1. /\ \A i \in 0..args.blocks - 1 : ~sets[s][i].valid
          /\ \A i \in 0..args2.blocks - 1 : ~sets2[s][i].valid
      BY <1>1, <1>3 DEF EmptySet, Second!EmptySet
    <2> QED
      BY <2>1 DEF Included, AllHeld, SameOrder, SameWhileFilling
  <1> QED
    BY <1>4, <1>5

\* Every step of the pair keeps the inclusion.
LEMMA InclusionStep ==
  ASSUME BothOK, InclusionInv, [NextPair]_<<vars, second>>
  PROVE  InclusionInv'
  <1>0. UNCHANGED <<args, args2>>
    BY DEF NextPair, LoadBoth, StoreBoth, EndBoth, InvalidOperation, vars, second,
      Second!InvalidOperation, print_stats, Second!print_stats
  <1>1. CASE ~MoreBlocks
    <2>1. ~MoreBlocks'
      BY <1>0, <1>1 DEF MoreBlocks, Differ
    <2> QED
      BY <2>1 DEF InclusionInv
  <1>2. CASE MoreBlocks /\ LoadBoth
    <2>1. PICK addr \in Address : loading(addr % Word) /\ Second!loading(addr % Word)
      BY <1>2 DEF LoadBoth
    <2>2. PICK s \in 0..args.num_sets - 1, tag \in 0..Word - 1 : BothAnswer(s, tag, TRUE)
      BY <1>2, <2>1, LoadsAnswer
    <2> QED
      BY <1>0, <1>2, <2>2, AccessKeepsInclusion
  <1>3. CASE MoreBlocks /\ StoreBoth
    <2>1. PICK addr \in Address : storing(addr % Word) /\ Second!storing(addr % Word)
      BY <1>3 DEF StoreBoth
    <2>2. PICK s \in 0..args.num_sets - 1, tag \in 0..Word - 1 : BothAnswer(s, tag, args.write_alloc)
      BY <1>3, <2>1, StoresAnswer
    <2>3. args.write_alloc \in BOOLEAN
      BY <1>3, MoreBlocksFacts
    <2> QED
      BY <1>0, <1>3, <2>2, <2>3, AccessKeepsInclusion
  <1>4. CASE EndBoth \/ UNCHANGED <<vars, second>>
    <2>1. UNCHANGED <<sets, stats, sets2, stats2>>
      BY <1>4 DEF EndBoth, InvalidOperation, vars, second,
        Second!InvalidOperation, print_stats, Second!print_stats
    <2> QED
      BY <1>0, <2>1 DEF InclusionInv, MoreBlocks, Differ, Hits
  <1> QED
    BY <1>1, <1>2, <1>3, <1>4 DEF NextPair

\* Set by set, the larger cache includes the smaller one after any trace.
THEOREM InclusionInvariant == SpecPair => [](BothOK /\ InclusionInv)
  <1>1. InitPair => BothOK /\ InclusionInv
    BY BothInit, InclusionInit
  <1>2. BothOK /\ InclusionInv /\ [NextPair]_<<vars, second>> => (BothOK /\ InclusionInv)'
    BY BothStep, InclusionStep
  <1> QED
    BY <1>1, <1>2, PTL DEF SpecPair

\* Inclusion set by set is inclusion of the contents.
LEMMA InclusionKeepsMore == BothOK /\ InclusionInv => MoreBlocksKeepMore
  <1> SUFFICES ASSUME BothOK, InclusionInv, Differ({"blocks"}),
                      args.evic_policy = "lru", args.blocks <= args2.blocks
               PROVE  /\ Contents(sets) \subseteq Contents(sets2)
                      /\ Hits(stats) <= Hits(stats2)
    BY DEF MoreBlocksKeepMore
  <1>1. CASE MoreBlocks
    <2>0. /\ IInv /\ SecondProofs!IInv
          /\ is_valid_argument(args) /\ SecondProofs!is_valid_argument(args2)
      BY <1>1 DEF BothOK, MoreBlocks
    <2>1. args2.num_sets = args.num_sets
      BY <1>1, MoreBlocksFacts
    <2>2. /\ DOMAIN sets = 0..args.num_sets - 1
          /\ \A s \in 0..args.num_sets - 1 : DOMAIN sets[s] = 0..args.blocks - 1
      BY <2>0 DEF IInv, TypeOK
    <2>3. /\ DOMAIN sets2 = 0..args2.num_sets - 1
          /\ \A s \in 0..args2.num_sets - 1 : DOMAIN sets2[s] = 0..args2.blocks - 1
      BY <2>0 DEF SecondProofs!IInv, SecondProofs!TypeOK
    <2>4. ASSUME NEW x \in Contents(sets) PROVE x \in Contents(sets2)
      <3>1. PICK s \in 0..args.num_sets - 1, i \in 0..args.blocks - 1 :
              sets[s][i].valid /\ x = <<s, sets[s][i].tag>>
        BY <2>2 DEF Contents
      <3>2. AllHeld(sets[s], args.blocks, sets2[s], args2.blocks)
        BY <1>1 DEF InclusionInv, Included
      <3>3. PICK j \in 0..args2.blocks - 1 : sets2[s][j].valid /\ sets2[s][j].tag = sets[s][i].tag
        BY <3>1, <3>2 DEF AllHeld
      <3>4. s \in DOMAIN sets2 /\ j \in {k \in DOMAIN sets2[s] : sets2[s][k].valid}
        BY <2>1, <2>3, <3>3
      <3> QED
        BY <3>1, <3>3, <3>4 DEF Contents
    <2> QED
      BY <1>1, <2>4 DEF InclusionInv
  <1>2. CASE ~MoreBlocks
    <2>1. Init /\ SecondProofs!Init
      BY <1>2 DEF MoreBlocks, BothOK, RefusedInv
    <2>2. \A s \in DOMAIN sets : \A i \in DOMAIN sets[s] : ~sets[s][i].valid
      BY <2>1 DEF Init, EmptySet
    <2>3. Contents(sets) = {}
      BY <2>2 DEF Contents
    <2>4. Hits(stats) = 0 /\ Hits(stats2) = 0
      BY <2>1 DEF Init, SecondProofs!Init, Hits, Counter, SecondProofs!Counter
    <2> QED
      BY <2>3, <2>4
  <1> QED
    BY <1>1, <1>2

\* An LRU cache with more blocks per set holds whatever the smaller one holds and
\* never hits less often, for any trace and any sizes.
THEOREM MoreBlocksHoldMore == SpecPair => []MoreBlocksKeepMore
  <1> QED
    BY InclusionInvariant, InclusionKeepsMore, PTL

-----------------------------------------------------------------------------
(* One block per set: the policies agree                                   *)

\* Two command lines with one block per set that differ in the policy at most.
OnePolicy ==
  /\ is_valid_argument(args) /\ SecondProofs!is_valid_argument(args2)
  /\ Differ({"evic_policy"})
  /\ args.blocks = 1

\* Two blocks that hold the same, and are dirty alike.
Alike(b, c) == (b.valid <=> c.valid) /\ b.tag = c.tag /\ b.dirty = c.dirty

AlikeInv ==
  OnePolicy => /\ stats = stats2
               /\ \A s \in 0..args.num_sets - 1 : Alike(sets[s][0], sets2[s][0])

\* What OnePolicy says of the two command lines.
LEMMA OnePolicyFacts ==
  ASSUME BothOK, OnePolicy
  PROVE  /\ args2.num_sets = args.num_sets /\ args2.bytes = args.bytes
         /\ args2.blocks = 1
         /\ args2.write_alloc = args.write_alloc /\ args2.write_back = args.write_back
         /\ args \in Arguments /\ args2 \in Arguments
         /\ args.evic_policy \in {"lru", "fifo"} /\ args2.evic_policy \in {"lru", "fifo"}
  <1>1. args \in Arguments /\ args2 \in Arguments
    BY DEF BothOK, IInv, TypeOK, SecondProofs!IInv, SecondProofs!TypeOK
  <1>2. \A f \in {"num_sets", "bytes", "blocks", "write_alloc", "write_back"} :
          args[f] = args2[f]
    BY DEF OnePolicy, Differ, ArgumentFields
  <1>3. args.evic_policy \in {"lru", "fifo"}
    BY <1>1, ValidArguments DEF OnePolicy
  <1>4. args2.evic_policy \in {"lru", "fifo"}
    BY <1>1, SecondProofs!ValidArguments, ArgumentsAssumption DEF OnePolicy
  <1> QED
    BY <1>1, <1>2, <1>3, <1>4 DEF OnePolicy

\* The same access on alike blocks costs the same and leaves them alike.
LEMMA OneBlockAlike ==
  ASSUME BothOK, OnePolicy, AlikeInv, UNCHANGED <<args, args2>>,
         NEW s \in 0..args.num_sets - 1, NEW tag, NEW isStore \in BOOLEAN,
         OneBlockAccess(s, tag, isStore), SecondProofs!OneBlockAccess(s, tag, isStore)
  PROVE  AlikeInv'
  <1>1. /\ args2.num_sets = args.num_sets /\ args2.bytes = args.bytes
        /\ args2.write_alloc = args.write_alloc /\ args2.write_back = args.write_back
    BY OnePolicyFacts
  <1>2. stats = stats2 /\ \A r \in 0..args.num_sets - 1 : Alike(sets[r][0], sets2[r][0])
    BY DEF AlikeInv
  <1>3. SecondProofs!Penalty = Penalty /\ SecondProofs!Through = Through
    BY <1>1 DEF Penalty, SecondProofs!Penalty, Through, SecondProofs!Through
  <1> DEFINE b == sets[s][0]
             c == sets2[s][0]
             mark == IF isStore THEN args.write_back ELSE FALSE
             thru == IF isStore THEN Through ELSE 0
             access == IF isStore THEN "stores" ELSE "loads"
  <1>4. Holds(b, tag) <=> Holds(c, tag)
    BY <1>2 DEF Alike, Holds
  <1>5. b.dirty = c.dirty /\ b.tag = c.tag /\ (b.valid <=> c.valid)
    BY <1>2 DEF Alike
  <1>6. \A r \in 0..args.num_sets - 1 : r # s => sets'[r] = sets[r] /\ sets2'[r] = sets2[r]
    BY <1>1 DEF OneBlockAccess, SecondProofs!OneBlockAccess
  <1>7. \A x, d : HasTag(x, tag, d) <=> x.valid /\ x.tag = tag /\ x.dirty = d
    BY DEF HasTag
  <1>8. \A x, d : SecondProofs!HasTag(x, tag, d) <=> HasTag(x, tag, d)
    BY DEF HasTag, SecondProofs!HasTag
  <1>9. \A x : SecondProofs!Holds(x, tag) <=> Holds(x, tag)
    BY DEF Holds, SecondProofs!Holds
  <1>10. ASSUME NEW outcome, NEW cycles, Count(access, outcome, cycles),
                SecondProofs!Count(access, outcome, cycles)
         PROVE  stats' = stats2'
    BY <1>2, <1>10 DEF Count, SecondProofs!Count
  <1>11. CASE Holds(b, tag)
    <2>1. /\ HasTag(sets'[s][0], tag, IF mark THEN TRUE ELSE b.dirty)
          /\ Count(access, IF isStore THEN "store_hits" ELSE "load_hits", thru)
      BY <1>11 DEF OneBlockAccess
    <2>2. /\ HasTag(sets2'[s][0], tag, IF mark THEN TRUE ELSE c.dirty)
          /\ SecondProofs!Count(access, IF isStore THEN "store_hits" ELSE "load_hits", thru)
      <3>1. SecondProofs!Holds(c, tag)
        BY <1>4, <1>9, <1>11
      <3>2. /\ SecondProofs!HasTag(sets2'[s][0], tag, IF mark THEN TRUE ELSE c.dirty)
            /\ SecondProofs!Count(access, IF isStore THEN "store_hits" ELSE "load_hits", thru)
        BY <1>1, <1>3, <3>1 DEF SecondProofs!OneBlockAccess
      <3> QED
        BY <1>8, <3>2
    <2>3. Alike(sets'[s][0], sets2'[s][0])
      <3> DEFINE d == IF mark THEN TRUE ELSE b.dirty
      <3>1. d = IF mark THEN TRUE ELSE c.dirty
        BY <1>5
      <3>2. HasTag(sets'[s][0], tag, d) /\ HasTag(sets2'[s][0], tag, d)
        BY <2>1, <2>2, <3>1
      <3> HIDE DEF d
      <3> QED
        BY <1>7, <3>2 DEF Alike
    <2>4. stats' = stats2'
      BY <1>10, <2>1, <2>2
    <2> QED
      BY <1>2, <1>6, <2>3, <2>4 DEF AlikeInv
  <1>12. CASE ~Holds(b, tag) /\ (isStore => args.write_alloc)
    <2> DEFINE cycles == Penalty + (IF b.dirty THEN Penalty ELSE 0) + thru
    <2>1. /\ HasTag(sets'[s][0], tag, mark)
          /\ Count(access, IF isStore THEN "store_misses" ELSE "load_misses", cycles)
      BY <1>12 DEF OneBlockAccess
    <2>2. /\ HasTag(sets2'[s][0], tag, mark)
          /\ SecondProofs!Count(access, IF isStore THEN "store_misses" ELSE "load_misses", cycles)
      BY <1>1, <1>3, <1>4, <1>5, <1>8, <1>9, <1>12 DEF SecondProofs!OneBlockAccess
    <2> HIDE DEF mark
    <2>3. Alike(sets'[s][0], sets2'[s][0])
      BY <2>1, <2>2 DEF Alike, HasTag
    <2>4. stats' = stats2'
      BY <1>10, <2>1, <2>2
    <2> QED
      BY <1>2, <1>6, <2>3, <2>4 DEF AlikeInv
  <1>13. CASE ~Holds(b, tag) /\ ~(isStore => args.write_alloc)
    <2>1. sets'[s] = sets[s] /\ Count(access, "store_misses", StoreCost)
      BY <1>13 DEF OneBlockAccess
    <2>2. sets2'[s] = sets2[s] /\ SecondProofs!Count(access, "store_misses", StoreCost)
      BY <1>1, <1>4, <1>9, <1>13 DEF SecondProofs!OneBlockAccess
    <2>3. Alike(sets'[s][0], sets2'[s][0])
      BY <1>2, <2>1, <2>2
    <2>4. stats' = stats2'
      BY <1>10, <2>1, <2>2
    <2> QED
      BY <1>2, <1>6, <2>3, <2>4 DEF AlikeInv
  <1> QED
    BY <1>11, <1>12, <1>13

\* Both caches start empty and with the same counters.
LEMMA AlikeInit == InitPair => AlikeInv
  <1> SUFFICES ASSUME InitPair, OnePolicy
               PROVE  /\ stats = stats2
                      /\ \A s \in 0..args.num_sets - 1 : Alike(sets[s][0], sets2[s][0])
    BY DEF AlikeInv
  <1>0. BothOK /\ Init /\ Second!Init
    BY BothInit DEF InitPair
  <1>1. args2.num_sets = args.num_sets /\ args.blocks = 1 /\ args2.blocks = 1
    BY <1>0, OnePolicyFacts DEF OnePolicy
  <1>2. is_valid_argument(args) /\ Second!is_valid_argument(args2)
    BY DEF OnePolicy, Second!is_valid_argument, SecondProofs!is_valid_argument,
      Second!is_valid_num, SecondProofs!is_valid_num
  <1>3. /\ sets = [s \in 0..args.num_sets - 1 |-> EmptySet(1)]
        /\ sets2 = [s \in 0..args.num_sets - 1 |-> Second!EmptySet(1)]
    BY <1>0, <1>1, <1>2 DEF Init, Second!Init
  <1>4. stats = stats2
    BY <1>0 DEF Init, Second!Init, Counter, Second!Counter
  <1>5. EmptySet(1) = Second!EmptySet(1)
    BY DEF EmptySet, Second!EmptySet
  <1> QED
    BY <1>3, <1>4, <1>5 DEF Alike

\* Every step of the pair keeps the one blocks of each set alike.
LEMMA AlikeStep ==
  ASSUME BothOK, AlikeInv, [NextPair]_<<vars, second>>
  PROVE  AlikeInv'
  <1>0. UNCHANGED <<args, args2>>
    BY DEF NextPair, LoadBoth, StoreBoth, EndBoth, InvalidOperation, vars, second,
      Second!InvalidOperation, print_stats, Second!print_stats
  <1>1. CASE ~OnePolicy
    <2>1. ~OnePolicy'
      BY <1>0, <1>1 DEF OnePolicy, Differ
    <2> QED
      BY <2>1 DEF AlikeInv
  <1>2. ASSUME OnePolicy, NEW addr \in Address
        PROVE  \E s \in 0..args.num_sets - 1, tag \in 0..Word - 1 :
                 /\ s = IndexOf(addr % Word) /\ tag = TagOf(addr % Word)
                 /\ s = SecondProofs!IndexOf(addr % Word)
                 /\ tag = SecondProofs!TagOf(addr % Word)
                 /\ s \in 0..args2.num_sets - 1
    <2>1. /\ args2.num_sets = args.num_sets /\ args2.bytes = args.bytes
          /\ args \in Arguments
      BY <1>2, OnePolicyFacts
    <2>2. PICK s \in 0..args.num_sets - 1 : s = IndexOf(addr % Word)
      BY <1>2, <2>1, AddressParts DEF OnePolicy
    <2>3. PICK tag \in 0..Word - 1 : tag = TagOf(addr % Word)
      BY <1>2, <2>1, AddressParts DEF OnePolicy
    <2> QED
      BY <2>1, <2>2, <2>3 DEF IndexOf, TagOf, SecondProofs!IndexOf, SecondProofs!TagOf
  <1>3. ASSUME OnePolicy
        PROVE  /\ IInv /\ SecondProofs!IInv
               /\ is_valid_argument(args) /\ SecondProofs!is_valid_argument(args2)
               /\ args.blocks = 1 /\ args2.blocks = 1
    BY <1>3, OnePolicyFacts DEF OnePolicy, BothOK
  <1>4. CASE OnePolicy /\ LoadBoth
    <2>1. PICK addr \in Address : loading(addr % Word) /\ SecondProofs!loading(addr % Word)
      BY <1>4, SecondLoads DEF LoadBoth
    <2>2. PICK s \in 0..args.num_sets - 1, tag \in 0..Word - 1 :
                 /\ s = IndexOf(addr % Word) /\ tag = TagOf(addr % Word)
                 /\ s = SecondProofs!IndexOf(addr % Word)
                 /\ tag = SecondProofs!TagOf(addr % Word)
                 /\ s \in 0..args2.num_sets - 1
      BY <1>2, <1>4
    <2>3. \/ args.evic_policy = "lru" /\ loading_lru(s, tag)
          \/ args.evic_policy = "fifo" /\ loading_fifo(s, tag)
      BY <2>1, <2>2 DEF loading
    <2>4. \/ args2.evic_policy = "lru" /\ SecondProofs!loading_lru(s, tag)
          \/ args2.evic_policy = "fifo" /\ SecondProofs!loading_fifo(s, tag)
      BY <2>1, <2>2 DEF SecondProofs!loading
    <2>5. OneBlockAccess(s, tag, FALSE)
      BY <1>3, <1>4, <2>3, OneBlockLoads
    <2>6. SecondProofs!OneBlockAccess(s, tag, FALSE)
      BY <1>3, <1>4, <2>2, <2>4, SecondProofs!OneBlockLoads, ArgumentsAssumption
    <2> QED
      BY <1>0, <1>4, <2>5, <2>6, OneBlockAlike
  <1>5. CASE OnePolicy /\ StoreBoth
    <2>1. PICK addr \in Address : storing(addr % Word) /\ SecondProofs!storing(addr % Word)
      BY <1>5, SecondStores DEF StoreBoth
    <2>2. PICK s \in 0..args.num_sets - 1, tag \in 0..Word - 1 :
                 /\ s = IndexOf(addr % Word) /\ tag = TagOf(addr % Word)
                 /\ s = SecondProofs!IndexOf(addr % Word)
                 /\ tag = SecondProofs!TagOf(addr % Word)
                 /\ s \in 0..args2.num_sets - 1
      BY <1>2, <1>5
    <2>3. \/ args.evic_policy = "lru" /\ storing_lru(s, tag)
          \/ args.evic_policy # "lru" /\ storing_fifo(s, tag)
      BY <2>1, <2>2 DEF storing
    <2>4. \/ args2.evic_policy = "lru" /\ SecondProofs!storing_lru(s, tag)
          \/ args2.evic_policy # "lru" /\ SecondProofs!storing_fifo(s, tag)
      BY <2>1, <2>2 DEF SecondProofs!storing
    <2>5. OneBlockAccess(s, tag, TRUE)
      BY <1>3, <1>5, <2>3, OneBlockStores
    <2>6. SecondProofs!OneBlockAccess(s, tag, TRUE)
      BY <1>3, <1>5, <2>2, <2>4, SecondProofs!OneBlockStores, ArgumentsAssumption
    <2> QED
      BY <1>0, <1>5, <2>5, <2>6, OneBlockAlike
  <1>6. CASE EndBoth \/ UNCHANGED <<vars, second>>
    <2>1. UNCHANGED <<sets, stats, sets2, stats2>>
      BY <1>6 DEF EndBoth, InvalidOperation, vars, second,
        Second!InvalidOperation, print_stats, Second!print_stats
    <2> QED
      BY <1>0, <2>1 DEF AlikeInv, OnePolicy, Differ
  <1> QED
    BY <1>1, <1>4, <1>5, <1>6 DEF NextPair

-----------------------------------------------------------------------------
(* The write policy: the same blocks, but for their dirty bits             *)

\* Two command lines that differ in the write policy at most.
WriteOnly ==
  /\ is_valid_argument(args) /\ SecondProofs!is_valid_argument(args2)
  /\ Differ({"write_back"})

MoveInv ==
  WriteOnly => /\ \A s \in 0..args.num_sets - 1 : SameButDirty(sets[s], sets2[s], args.blocks)
               /\ Hits(stats) = Hits(stats2)

\* What WriteOnly says of the two command lines.
LEMMA WriteOnlyFacts ==
  ASSUME BothOK, WriteOnly
  PROVE  /\ args2.num_sets = args.num_sets /\ args2.bytes = args.bytes
         /\ args2.blocks = args.blocks /\ args2.write_alloc = args.write_alloc
         /\ args2.evic_policy = args.evic_policy
         /\ args \in Arguments /\ args2 \in Arguments
         /\ IInv /\ SecondProofs!IInv
         /\ is_valid_argument(args) /\ SecondProofs!is_valid_argument(args2)
  <1>1. IInv /\ SecondProofs!IInv
    BY DEF BothOK, WriteOnly
  <1>2. args \in Arguments /\ args2 \in Arguments
    BY <1>1 DEF IInv, TypeOK, SecondProofs!IInv, SecondProofs!TypeOK
  <1>3. \A f \in {"num_sets", "bytes", "blocks", "write_alloc", "evic_policy"} :
          args[f] = args2[f]
    BY DEF WriteOnly, Differ, ArgumentFields
  <1> QED
    BY <1>1, <1>2, <1>3 DEF WriteOnly

\* The second run changes its sets the way the first one would.
LEMMA SameAfterwards ==
  ASSUME args2.blocks = args.blocks, args2.evic_policy = args.evic_policy,
         NEW set, NEW tag, NEW allocates
  PROVE  SecondProofs!Afterwards(set, tag, allocates) = Afterwards(set, tag, allocates)
  <1>1. SecondProofs!Matching(set, tag) = Matching(set, tag)
    BY DEF Matching, SecondProofs!Matching
  <1>2. \A S : SecondProofs!Min(S) = Min(S)
    BY DEF Min, SecondProofs!Min
  <1>3. \A S : SecondProofs!Max(S) = Max(S)
    BY DEF Max, SecondProofs!Max
  <1>4. \A i : SecondProofs!AfterHit(set, i) = AfterHit(set, i)
    BY DEF AfterHit, SecondProofs!AfterHit, Touch, SecondProofs!Touch
  <1>5. \A b : SecondProofs!Filled(b, tag, FALSE) = Filled(b, tag, FALSE)
    BY DEF Filled, SecondProofs!Filled
  <1>6. SecondProofs!Oldest(set) = Oldest(set)
    BY DEF Oldest, SecondProofs!Oldest
  <1>7. SecondProofs!ReplaceOldest(set, tag, FALSE) = ReplaceOldest(set, tag, FALSE)
    BY <1>5, <1>6 DEF ReplaceOldest, SecondProofs!ReplaceOldest
  <1>8. SecondProofs!FirstIn(set) = FirstIn(set)
    BY <1>2 DEF FirstIn, SecondProofs!FirstIn
  <1>9. SecondProofs!ReplaceFirstIn(set, tag, FALSE) = ReplaceFirstIn(set, tag, FALSE)
    BY <1>3, <1>5, <1>8 DEF ReplaceFirstIn, SecondProofs!ReplaceFirstIn
  <1>10. SecondProofs!AfterMiss(set, tag) = AfterMiss(set, tag)
    BY <1>7, <1>9 DEF AfterMiss, SecondProofs!AfterMiss
  <1> QED
    BY <1>1, <1>2, <1>4, <1>10 DEF Afterwards, SecondProofs!Afterwards

\* The same access moves the blocks of both runs alike.
LEMMA MovesAgree ==
  ASSUME BothOK, WriteOnly, MoveInv, UNCHANGED <<args, args2>>,
         NEW s \in 0..args.num_sets - 1, NEW tag \in 0..Word - 1, NEW allocates,
         Moves(s, tag, allocates), SecondProofs!Moves(s, tag, allocates)
  PROVE  MoveInv'
  <1>1. PICK n \in Nat \ {0} : n = args.blocks
    BY WriteOnlyFacts, ValidArguments
  <1>2. args2.blocks = n /\ args2.num_sets = args.num_sets
        /\ args2.evic_policy = args.evic_policy
    BY <1>1, WriteOnlyFacts
  <1>3. sets[s] \in [0..n - 1 -> Block]
    BY <1>1, WriteOnlyFacts DEF IInv, TypeOK
  <1>4. sets2[s] \in [0..n - 1 -> Block]
    <2>1. /\ SecondProofs!TypeOK /\ SecondProofs!is_valid_argument(args2)
          /\ SecondProofs!Block = Block
      BY WriteOnlyFacts DEF SecondProofs!IInv, SecondProofs!Block, Block
    <2> QED
      BY <1>2, <2>1 DEF SecondProofs!TypeOK
  <1>5. /\ \A r \in 0..args.num_sets - 1 : SameButDirty(sets[r], sets2[r], n)
        /\ Hits(stats) = Hits(stats2)
    BY <1>1 DEF MoveInv
  <1>6. SameButDirty(Afterwards(sets[s], tag, allocates),
                     Afterwards(sets2[s], tag, allocates), n)
    BY <1>3, <1>4, <1>5, AfterwardsAgrees
  <1>7. SameButDirty(sets'[s], Afterwards(sets[s], tag, allocates), n)
    BY <1>1 DEF Moves
  <1>8. SameButDirty(sets2'[s], Afterwards(sets2[s], tag, allocates), n)
    <2>1. SecondProofs!SameButDirty(sets2'[s], SecondProofs!Afterwards(sets2[s], tag, allocates), n)
      BY <1>2 DEF SecondProofs!Moves
    <2>2. \A A, B : SecondProofs!SameButDirty(A, B, n) <=> SameButDirty(A, B, n)
      BY DEF SecondProofs!SameButDirty, SameButDirty, SecondProofs!ButDirty, ButDirty,
        SecondProofs!Shape, Shape
    <2>3. SecondProofs!Afterwards(sets2[s], tag, allocates) = Afterwards(sets2[s], tag, allocates)
      BY <1>1, <1>2, SameAfterwards
    <2> QED
      BY <2>1, <2>2, <2>3
  <1>9. SameButDirty(sets'[s], sets2'[s], n)
    <2>1. SameButDirty(Afterwards(sets2[s], tag, allocates), sets2'[s], n)
      BY <1>8, SameIsEquivalence
    <2>2. SameButDirty(sets'[s], Afterwards(sets2[s], tag, allocates), n)
      BY <1>6, <1>7, SameIsEquivalence
    <2> QED
      BY <2>1, <2>2, SameIsEquivalence
  <1>10. \A r \in 0..args.num_sets - 1 : r # s => sets'[r] = sets[r] /\ sets2'[r] = sets2[r]
    BY <1>2 DEF Moves, SecondProofs!Moves
  <1>11. \A r \in 0..args.num_sets - 1 : SameButDirty(sets'[r], sets2'[r], n)
    BY <1>5, <1>9, <1>10
  <1>12. Matching(sets[s], tag) = SecondProofs!Matching(sets2[s], tag)
    <2>1. Matching(sets[s], tag) = Matching(sets2[s], tag)
      BY <1>5, SearchesAgree
    <2> QED
      BY <2>1 DEF Matching, SecondProofs!Matching
  <1>13. Hits(stats)' = Hits(stats2)'
    BY <1>5, <1>12 DEF Moves, SecondProofs!Moves, Hits
  <1> QED
    BY <1>1, <1>11, <1>13 DEF MoveInv

\* Both caches start empty.
LEMMA MoveInit == InitPair => MoveInv
  <1> SUFFICES ASSUME InitPair, WriteOnly
               PROVE  /\ \A s \in 0..args.num_sets - 1 :
                           SameButDirty(sets[s], sets2[s], args.blocks)
                      /\ Hits(stats) = Hits(stats2)
    BY DEF MoveInv
  <1>0. BothOK /\ Init /\ Second!Init
    BY BothInit DEF InitPair
  <1>1. PICK n \in Nat \ {0} : n = args.blocks
    BY <1>0, WriteOnlyFacts, ValidArguments
  <1>2. /\ args2.num_sets = args.num_sets /\ args2.blocks = n
        /\ is_valid_argument(args)
    BY <1>0, <1>1, WriteOnlyFacts
  <1>3. Second!is_valid_argument(args2)
    BY DEF WriteOnly, Second!is_valid_argument, SecondProofs!is_valid_argument,
      Second!is_valid_num, SecondProofs!is_valid_num
  <1>4. /\ sets = [s \in 0..args.num_sets - 1 |-> EmptySet(n)]
        /\ sets2 = [s \in 0..args.num_sets - 1 |-> Second!EmptySet(n)]
    BY <1>0, <1>1, <1>2, <1>3 DEF Init, Second!Init
  <1>5. Second!EmptySet(n) = EmptySet(n)
    BY DEF EmptySet, Second!EmptySet
  <1>6. SameButDirty(EmptySet(n), EmptySet(n), n)
    <2>1. EmptySet(n) \in [0..n - 1 -> Shape]
      BY DEF EmptySet, Shape
    <2> QED
      BY <2>1 DEF SameButDirty, ButDirty
  <1>7. Hits(stats) = Hits(stats2)
    BY <1>0 DEF Init, Second!Init, Counter, Second!Counter, Hits
  <1> QED
    BY <1>1, <1>4, <1>5, <1>6, <1>7

\* Every step of the pair moves the blocks alike.
LEMMA MoveStep ==
  ASSUME BothOK, MoveInv, [NextPair]_<<vars, second>>
  PROVE  MoveInv'
  <1>0. UNCHANGED <<args, args2>>
    BY DEF NextPair, LoadBoth, StoreBoth, EndBoth, InvalidOperation, vars, second,
      Second!InvalidOperation, print_stats, Second!print_stats
  <1>1. CASE ~WriteOnly
    <2>1. ~WriteOnly'
      BY <1>0, <1>1 DEF WriteOnly, Differ
    <2> QED
      BY <2>1 DEF MoveInv
  <1>2. ASSUME WriteOnly, NEW addr \in Address
        PROVE  \E s \in 0..args.num_sets - 1, tag \in 0..Word - 1 :
                 /\ s = IndexOf(addr % Word) /\ tag = TagOf(addr % Word)
                 /\ s = SecondProofs!IndexOf(addr % Word)
                 /\ tag = SecondProofs!TagOf(addr % Word)
                 /\ s \in 0..args2.num_sets - 1
    <2>1. /\ args2.num_sets = args.num_sets /\ args2.bytes = args.bytes
          /\ args \in Arguments /\ is_valid_argument(args)
      BY <1>2, WriteOnlyFacts
    <2>2. PICK s \in 0..args.num_sets - 1 : s = IndexOf(addr % Word)
      BY <1>2, <2>1, AddressParts
    <2>3. PICK tag \in 0..Word - 1 : tag = TagOf(addr % Word)
      BY <1>2, <2>1, AddressParts
    <2> QED
      BY <2>1, <2>2, <2>3 DEF IndexOf, TagOf, SecondProofs!IndexOf, SecondProofs!TagOf
  <1>3. CASE WriteOnly /\ LoadBoth
    <2>1. PICK addr \in Address : loading(addr % Word) /\ SecondProofs!loading(addr % Word)
      BY <1>3, SecondLoads DEF LoadBoth
    <2>2. PICK s \in 0..args.num_sets - 1, tag \in 0..Word - 1 :
                 /\ s = IndexOf(addr % Word) /\ tag = TagOf(addr % Word)
                 /\ s = SecondProofs!IndexOf(addr % Word)
                 /\ tag = SecondProofs!TagOf(addr % Word)
                 /\ s \in 0..args2.num_sets - 1
      BY <1>2, <1>3
    <2>3. \/ args.evic_policy = "lru" /\ loading_lru(s, tag)
          \/ args.evic_policy = "fifo" /\ loading_fifo(s, tag)
      BY <2>1, <2>2 DEF loading
    <2>4. \/ args2.evic_policy = "lru" /\ SecondProofs!loading_lru(s, tag)
          \/ args2.evic_policy = "fifo" /\ SecondProofs!loading_fifo(s, tag)
      BY <2>1, <2>2 DEF SecondProofs!loading
    <2>5. Moves(s, tag, TRUE)
      BY <1>3, <2>3, WriteOnlyFacts, LoadingMoves
    <2>6. SecondProofs!Moves(s, tag, TRUE)
      BY <1>3, <2>2, <2>4, WriteOnlyFacts, SecondProofs!LoadingMoves, ArgumentsAssumption
    <2> QED
      BY <1>0, <1>3, <2>5, <2>6, MovesAgree
  <1>4. CASE WriteOnly /\ StoreBoth
    <2>1. PICK addr \in Address : storing(addr % Word) /\ SecondProofs!storing(addr % Word)
      BY <1>4, SecondStores DEF StoreBoth
    <2>2. PICK s \in 0..args.num_sets - 1, tag \in 0..Word - 1 :
                 /\ s = IndexOf(addr % Word) /\ tag = TagOf(addr % Word)
                 /\ s = SecondProofs!IndexOf(addr % Word)
                 /\ tag = SecondProofs!TagOf(addr % Word)
                 /\ s \in 0..args2.num_sets - 1
      BY <1>2, <1>4
    <2>3. \/ args.evic_policy = "lru" /\ storing_lru(s, tag)
          \/ args.evic_policy # "lru" /\ storing_fifo(s, tag)
      BY <2>1, <2>2 DEF storing
    <2>4. \/ args2.evic_policy = "lru" /\ SecondProofs!storing_lru(s, tag)
          \/ args2.evic_policy # "lru" /\ SecondProofs!storing_fifo(s, tag)
      BY <2>1, <2>2 DEF SecondProofs!storing
    <2>5. Moves(s, tag, args.write_alloc)
      BY <1>4, <2>3, WriteOnlyFacts, StoringMoves
    <2>6. SecondProofs!Moves(s, tag, args2.write_alloc)
      BY <1>4, <2>2, <2>4, WriteOnlyFacts, SecondProofs!StoringMoves, ArgumentsAssumption
    <2>7. args2.write_alloc = args.write_alloc
      BY <1>4, WriteOnlyFacts
    <2>8. PICK allocates : allocates = args.write_alloc
      OBVIOUS
    <2>9. Moves(s, tag, allocates) /\ SecondProofs!Moves(s, tag, allocates)
      BY <2>5, <2>6, <2>7, <2>8
    <2> QED
      BY <1>0, <1>4, <2>9, MovesAgree
  <1>5. CASE EndBoth \/ UNCHANGED <<vars, second>>
    <2>1. UNCHANGED <<sets, stats, sets2, stats2>>
      BY <1>5 DEF EndBoth, InvalidOperation, vars, second,
        Second!InvalidOperation, print_stats, Second!print_stats
    <2> QED
      BY <1>0, <2>1 DEF MoveInv, WriteOnly, Differ, Hits
  <1> QED
    BY <1>1, <1>3, <1>4, <1>5 DEF NextPair

\* A refused command line leaves no cache and no counts: both runs are as they began.
LEMMA RefusedIsEmpty ==
  ASSUME Init, SecondProofs!Init
  PROVE  /\ Contents(sets) = {} /\ Contents(sets2) = {} /\ stats = stats2
  <1>1. \A s \in DOMAIN sets : \A i \in DOMAIN sets[s] : ~sets[s][i].valid
    BY DEF Init, EmptySet
  <1>2. \A s \in DOMAIN sets2 : \A i \in DOMAIN sets2[s] : ~sets2[s][i].valid
    BY DEF SecondProofs!Init, SecondProofs!EmptySet
  <1>3. stats = stats2
    BY DEF Init, SecondProofs!Init, Counter, SecondProofs!Counter
  <1> QED
    BY <1>1, <1>2, <1>3 DEF Contents

\* The two invariants say that no policy moves a block.
LEMMA AlikeMovesNoBlock ==
  ASSUME BothOK, AlikeInv, Differ({"evic_policy"}), args.blocks = 1
  PROVE  /\ stats = stats2
         /\ \A s \in DOMAIN sets, f \in {"valid", "dirty", "tag"} :
              sets[s][0][f] = sets2[s][0][f]
  <1>1. CASE OnePolicy
    <2>1. /\ IInv /\ SecondProofs!IInv
          /\ is_valid_argument(args) /\ SecondProofs!is_valid_argument(args2)
      BY <1>1 DEF OnePolicy, BothOK
    <2>2. sets \in [0..args.num_sets - 1 -> [0..0 -> Block]]
      BY <1>1, <2>1 DEF IInv, TypeOK
    <2>a. args2.num_sets = args.num_sets /\ args2.blocks - 1 = 0
      BY <1>1, OnePolicyFacts
    <2>b. sets2 \in [0..args2.num_sets - 1 -> [0..args2.blocks - 1 -> SecondProofs!Block]]
      BY <2>1 DEF SecondProofs!IInv, SecondProofs!TypeOK
    <2>3. sets2 \in [0..args.num_sets - 1 -> [0..0 -> SecondProofs!Block]]
      BY <2>a, <2>b
    <2>4. ASSUME NEW s \in DOMAIN sets
          PROVE  \A f \in {"valid", "dirty", "tag"} : sets[s][0][f] = sets2[s][0][f]
      <3>1. s \in 0..args.num_sets - 1 /\ 0 \in 0..0
        BY <2>2
      <3>2. sets[s][0].valid \in BOOLEAN
        BY <2>2, <3>1 DEF Block
      <3>3. sets2[s][0].valid \in BOOLEAN
        BY <2>3, <3>1 DEF SecondProofs!Block
      <3>4. Alike(sets[s][0], sets2[s][0])
        BY <1>1, <3>1 DEF AlikeInv
      <3> QED
        BY <3>2, <3>3, <3>4 DEF Alike
    <2> QED
      BY <1>1, <2>4 DEF AlikeInv
  <1>2. CASE ~OnePolicy
    <2>1. Init /\ SecondProofs!Init
      BY <1>2 DEF OnePolicy, BothOK, RefusedInv
    <2>a. \A f \in {"num_sets", "bytes", "blocks", "write_alloc", "write_back"} :
            args[f] = args2[f]
      BY DEF Differ, ArgumentFields
    <2>b. is_valid_argument(args) => SecondProofs!is_valid_argument(args2)
      BY <2>a DEF is_valid_argument, SecondProofs!is_valid_argument,
        is_valid_num, SecondProofs!is_valid_num
    <2>2. ~is_valid_argument(args)
      BY <1>2, <2>b DEF OnePolicy
    <2>3. sets = <<>>
      BY <2>1, <2>2 DEF Init
    <2>4. DOMAIN sets = {}
      BY <2>3
    <2> QED
      BY <2>1, <2>4, RefusedIsEmpty
  <1> QED
    BY <1>1, <1>2

\* Sets that differ in the dirty bits at most hold the same memory blocks.
LEMMA WritesMoveNoBlock ==
  ASSUME BothOK, MoveInv, Differ({"write_back"})
  PROVE  Contents(sets) = Contents(sets2) /\ Hits(stats) = Hits(stats2)
  <1>1. CASE WriteOnly
    <2>0. /\ args2.num_sets = args.num_sets /\ args2.blocks = args.blocks
          /\ IInv /\ SecondProofs!IInv
          /\ is_valid_argument(args) /\ SecondProofs!is_valid_argument(args2)
      BY <1>1, WriteOnlyFacts
    <2>1. /\ DOMAIN sets = 0..args.num_sets - 1
          /\ \A s \in 0..args.num_sets - 1 : DOMAIN sets[s] = 0..args.blocks - 1
      BY <2>0 DEF IInv, TypeOK
    <2>2. /\ DOMAIN sets2 = 0..args.num_sets - 1
          /\ \A s \in 0..args.num_sets - 1 : DOMAIN sets2[s] = 0..args.blocks - 1
      BY <2>0 DEF SecondProofs!IInv, SecondProofs!TypeOK
    <2>3. \A s \in 0..args.num_sets - 1 : \A i \in 0..args.blocks - 1 :
            sets[s][i].valid = sets2[s][i].valid /\ sets[s][i].tag = sets2[s][i].tag
      BY <1>1 DEF MoveInv, SameButDirty, ButDirty
    <2>4. ASSUME NEW x
          PROVE  x \in Contents(sets) <=> x \in Contents(sets2)
      <3>1. x \in Contents(sets) => x \in Contents(sets2)
        <4> SUFFICES ASSUME x \in Contents(sets) PROVE x \in Contents(sets2)
          OBVIOUS
        <4>1. PICK s \in 0..args.num_sets - 1, i \in 0..args.blocks - 1 :
                sets[s][i].valid /\ x = <<s, sets[s][i].tag>>
          BY <2>1 DEF Contents
        <4>2. s \in DOMAIN sets2 /\ i \in {k \in DOMAIN sets2[s] : sets2[s][k].valid}
          BY <2>2, <2>3, <4>1
        <4> QED
          BY <2>3, <4>1, <4>2 DEF Contents
      <3>2. x \in Contents(sets2) => x \in Contents(sets)
        <4> SUFFICES ASSUME x \in Contents(sets2) PROVE x \in Contents(sets)
          OBVIOUS
        <4>1. PICK s \in 0..args.num_sets - 1, i \in 0..args.blocks - 1 :
                sets2[s][i].valid /\ x = <<s, sets2[s][i].tag>>
          BY <2>2 DEF Contents
        <4>2. s \in DOMAIN sets /\ i \in {k \in DOMAIN sets[s] : sets[s][k].valid}
          BY <2>1, <2>3, <4>1
        <4> QED
          BY <2>3, <4>1, <4>2 DEF Contents
      <3> QED
        BY <3>1, <3>2
    <2>5. Contents(sets) = Contents(sets2)
      <3>1. \A x : x \in Contents(sets) <=> x \in Contents(sets2)
        BY <2>4
      <3> QED
        BY <3>1
    <2> QED
      BY <1>1, <2>5 DEF MoveInv
  <1>2. CASE ~WriteOnly
    <2>1. Init /\ SecondProofs!Init
      BY <1>2 DEF WriteOnly, BothOK, RefusedInv
    <2> QED
      BY <2>1, RefusedIsEmpty
  <1> QED
    BY <1>1, <1>2

\* With one block per set the two eviction policies leave the same blocks and the
\* same counters, and a write-back and a write-through cache hold the same blocks
\* and hit alike, for any trace and any sizes: the code that looks for a victim by
\* age or by load time, in loads and in stores, agrees where it has no choice.
THEOREM PoliciesAgree == SpecPair => []PoliciesMoveNoBlock
  <1>1. InitPair => BothOK /\ AlikeInv /\ MoveInv
    BY BothInit, AlikeInit, MoveInit
  <1>2. BothOK /\ AlikeInv /\ MoveInv /\ [NextPair]_<<vars, second>>
          => (BothOK /\ AlikeInv /\ MoveInv)'
    BY BothStep, AlikeStep, MoveStep
  <1>3. BothOK /\ AlikeInv /\ MoveInv => PoliciesMoveNoBlock
    BY AlikeMovesNoBlock, WritesMoveNoBlock DEF PoliciesMoveNoBlock
  <1> QED
    BY <1>1, <1>2, <1>3, PTL DEF SpecPair
=============================================================================
