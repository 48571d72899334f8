--------------------------- MODULE ParsortProofs ----------------------------
(***************************************************************************)
(* Theorems about csf_assign04/parsort.c.  First ForkSort, for files of    *)
(* any size and any threshold: what holds along the tree of processes is   *)
(* stated of every process and every process below it, not only of its     *)
(* children, so that each step preserves it without an induction along the *)
(* tree.  Then Partition, for arrays of any size, any values and any word  *)
(* that can count the elements: the contract that ForkSort takes a call of *)
(* partition for.                                                          *)
(***************************************************************************)
EXTENDS ForkSort, Partition, FiniteSetTheorems, SequenceTheorems, TLAPS

-----------------------------------------------------------------------------
(* ForkSort: the inductive invariant                                       *)

Sides == {"l", "r"}

Kid(p, s) == Append(p, s)

\* p is an ancestor of q; Side says in which part of p's region q works.
Above(p, q) == Len(p) < Len(q) /\ \A i \in 1..Len(p) : q[i] = p[i]
Side(p, q) == q[Len(p) + 1]

Apart(p, q) == p # q /\ ~ Above(p, q) /\ ~ Above(q, p)

Born(p) == pc[p] # "unborn"
Forking(p) == pc[p] \in {"left", "right", "waitleft", "waitright"}

\* The region loses an element with every generation.
SizeInv ==
    \A p \in Process :
        /\ start[p] <= end[p]
        /\ Born(p) => Len(p) + (end[p] - start[p]) <= N
        /\ Forking(p) => mid[p] \in Region(p)

FirstInv == Born(First) /\ start[First] = 0 /\ end[First] = N

\* A process works in one of the two parts of each of its ancestors, which
\* have left the region to it.
BelowInv ==
    \A p, q \in Process :
        Above(p, q) /\ Born(q) =>
            /\ Born(p) /\ pc[p] # "quicksort" /\ mid[p] \in Region(p)
            /\ Side(p, q) = "l" => start[p] <= start[q] /\ end[q] <= mid[p]
            /\ Side(p, q) = "r" => mid[p] < start[q] /\ end[q] <= end[p]

ApartInv ==
    \A p, q \in Process :
        Apart(p, q) /\ Born(p) /\ Born(q) =>
            end[p] <= start[q] \/ end[q] <= start[p]

TreeInv == SizeInv /\ FirstInv /\ BelowInv /\ ApartInv

Alive(p, s) == Kid(p, s) \in Process /\ pc[Kid(p, s)] \notin {"unborn", "reaped"}
Unborn(p, s) == Kid(p, s) \in Process => pc[Kid(p, s)] = "unborn"

\* The children a process still has to wait for are those its two pids stand
\* for; a pid of 0 has waitpid take the other one.
Kids(p) ==
    /\ pc[p] = "left" => Unborn(p, "l")
    /\ pc[p] \in {"left", "right"} => Unborn(p, "r")
    /\ pc[p] \in {"right", "waitleft", "waitright"} =>
        left_pid[p] \in {"child", "zero"}
    /\ pc[p] \in {"waitleft", "waitright"} => right_pid[p] \in {"child", "zero"}
    /\ pc[p] \in {"right", "waitleft"} =>
        (Alive(p, "l") <=> left_pid[p] = "child")
    /\ pc[p] = "waitleft" => (Alive(p, "r") <=> right_pid[p] = "child")
    /\ pc[p] = "waitright" =>
        /\ ~ Alive(p, "l")
        /\ Alive(p, "r") <=> left_pid[p] = "child" /\ right_pid[p] = "child"
    /\ pc[p] = "return" => ~ Alive(p, "l") /\ ~ Alive(p, "r")

KidsInv == \A p \in Process : Kids(p)

StatusInv ==
    \A p \in Process : status[p] = "none" <=> pc[p] \notin {"zombie", "reaped"}

\* No process has left the array.
Intact == \A p \in Process : status[p] # "segfault"

\* As long as nothing has failed, everything succeeds.
FailInv ==
    ~ failed /\ Intact =>
        \A p \in Process :
            /\ left_pid[p] # "zero" /\ right_pid[p] # "zero"
            /\ status[p] \in {"none", "success"}
            /\ pc[p] = "waitright" => left_success[p]
            /\ pc[p] = "return" => left_success[p] /\ right_success[p]

\* A process is about to report success, or has.  Then everything below it
\* has succeeded and is gone.
Done(p) ==
    \/ status[p] = "success"
    \/ pc[p] = "return" /\ left_success[p] /\ right_success[p]

DoneInv ==
    \A p, q \in Process :
        Above(p, q) /\ Done(p) /\ Born(q) =>
            pc[q] = "reaped" /\ status[q] = "success"

LeftInv ==
    \A p \in Process :
        /\ pc[p] = "waitright" /\ left_success[p] /\ left_pid[p] = "child"
        => /\ Kid(p, "l") \in Process
           /\ pc[Kid(p, "l")] = "reaped" /\ status[Kid(p, "l")] = "success"

\* A child sorts one of the two parts of its parent's region, all of it.
PartsOfKidsInv ==
    \A p \in Process : \A s \in Sides :
        Kid(p, s) \in Process /\ Born(Kid(p, s)) =>
            /\ start[Kid(p, s)] = IF s = "l" THEN start[p] ELSE mid[p] + 1
            /\ end[Kid(p, s)] = IF s = "l" THEN mid[p] ELSE end[p]

\* No process below p has been killed.
Undamaged(p) == \A q \in Process : Above(p, q) => status[q] # "signal"

SortedInv ==
    Intact => \A p \in Process : Done(p) => Sorted(arr, start[p], end[p])

PartsInv ==
    Intact => \A p \in Process :
        Forking(p) /\ Undamaged(p) =>
            /\ \A i \in start[p]..(mid[p] - 1) : arr[i] < arr[mid[p]]
            /\ \A i \in (mid[p] + 1)..(end[p] - 1) : arr[i] >= arr[mid[p]]

SameElements ==
    \A v \in Value : Cardinality({i \in Index : arr[i] = v})
                     = Cardinality({i \in Index : input[i] = v})

CountInv == (\A p \in Process : ~ Dead(p)) => SameElements

\* A pid is 0 only after the fork it is of, and then there is no success.
ZeroInv ==
    \A p \in Process :
        /\ pc[p] \in {"unborn", "quicksort", "left"} => left_pid[p] = "none"
        /\ pc[p] \in {"unborn", "quicksort", "left", "right"} => right_pid[p] = "none"
        /\ Done(p) => left_pid[p] # "zero" /\ right_pid[p] # "zero"

\* The failure that is noted is somewhere in the tree.
CauseInv ==
    failed => \E p \in Process : \/ status[p] = "signal"
                                 \/ left_pid[p] = "zero" \/ right_pid[p] = "zero"

\* A process that is about to report, or has.
Ended(p) == pc[p] = "return" \/ status[p] \in {"success", "failure"}

Lingers(q) == pc[q] \notin {"unborn", "reaped"}

DiedBetween(p, q) == \E k \in Process : Above(p, k) /\ Above(k, q) /\ Dead(k)

OrphanInv ==
    \A p, q \in Process :
        Above(p, q) /\ Ended(p) /\ Lingers(q) => DiedBetween(p, q)

IInv ==
    /\ TypeOK /\ TreeInv /\ KidsInv /\ StatusInv /\ FailInv
    /\ ZeroInv /\ CauseInv /\ OrphanInv
    /\ DoneInv /\ LeftInv /\ PartsOfKidsInv /\ SortedInv /\ PartsInv
    /\ CountInv

-----------------------------------------------------------------------------
(* The tree of processes                                                   *)

\* A process is a sequence over Sides of at most N of them.
LEMMA ProcessType ==
    /\ First \in Process
    /\ \A p \in Process : /\ p \in Seq(Sides) /\ Len(p) \in 0..N
                          /\ \A i \in 1..Len(p) : p[i] \in Sides
                          /\ p \in [1..Len(p) -> Sides]
  <1>1. First \in [1..0 -> Sides]
    <2>1. First \in Seq(Sides) /\ Len(First) = 0
      BY DEF First
    <2> QED
      BY <2>1
  <1>2. ASSUME NEW p \in Process
        PROVE  /\ p \in Seq(Sides) /\ Len(p) \in 0..N
               /\ \A i \in 1..Len(p) : p[i] \in Sides
               /\ p \in [1..Len(p) -> Sides]
    <2>1. PICK d \in 0..N : p \in [1..d -> Sides]
      BY DEF Process, Sides
    <2>2. p \in Seq(Sides) /\ Len(p) = d
      BY <2>1, ForkSortAssumption
    <2> QED
      BY <2>1, <2>2
  <1>3. First \in Process
    BY <1>1, ForkSortAssumption DEF Process, First, Sides
  <1> QED
    BY <1>2, <1>3

\* A process of fewer than N letters has a child on each side.
LEMMA KidType ==
    ASSUME NEW p \in Process, NEW s \in Sides
    PROVE  /\ Len(Kid(p, s)) = Len(p) + 1
           /\ Kid(p, s)[Len(p) + 1] = s
           /\ \A i \in 1..Len(p) : Kid(p, s)[i] = p[i]
           /\ Len(p) < N => Kid(p, s) \in Process
  <1>1. /\ Len(Kid(p, s)) = Len(p) + 1
        /\ Kid(p, s)[Len(p) + 1] = s
        /\ \A i \in 1..Len(p) : Kid(p, s)[i] = p[i]
        /\ Kid(p, s) \in Seq(Sides)
    BY ProcessType DEF Kid
  <1>2. ASSUME Len(p) < N PROVE Kid(p, s) \in Process
    <2>1. Kid(p, s) \in [1..(Len(p) + 1) -> Sides]
      BY <1>1
    <2>2. Len(p) + 1 \in 0..N
      BY <1>2, ProcessType, ForkSortAssumption
    <2> QED
      BY <2>1, <2>2 DEF Process, Sides
  <1> QED
    BY <1>1, <1>2

\* Two processes with the same letters are the same.
LEMMA SameProcess ==
    ASSUME NEW p \in Process, NEW q \in Process, Len(p) = Len(q),
           \A i \in 1..Len(p) : p[i] = q[i]
    PROVE  p = q
  BY ProcessType

\* Different processes have different children.
LEMMA KidsDiffer ==
    ASSUME NEW p \in Process, NEW q \in Process, NEW s \in Sides,
           NEW t \in Sides, Kid(p, s) = Kid(q, t)
    PROVE  p = q /\ s = t
  <1>1. Len(p) = Len(q) /\ s = t /\ \A i \in 1..Len(p) : p[i] = q[i]
    BY KidType, ProcessType
  <1> QED
    BY <1>1, SameProcess

\* Above is a strict order with the first process at its top.
LEMMA AboveOrder ==
    /\ \A p \in Process : ~ Above(p, p) /\ ~ Above(p, First)
    /\ \A p \in Process : p # First => Above(First, p)
    /\ \A p, q \in Process : Above(p, q) => ~ Above(q, p)
    /\ \A p, q, r \in Process : Above(p, q) /\ Above(q, r) => Above(p, r)
  <1>1. ASSUME NEW p \in Process, p # First PROVE Above(First, p)
    <2>1. Len(p) # 0
      BY <1>1, ProcessType DEF First
    <2> QED
      BY <2>1, ProcessType DEF Above, First
  <1>2. ASSUME NEW p \in Process PROVE ~ Above(p, p) /\ ~ Above(p, First)
    BY ProcessType DEF Above, First
  <1>3. ASSUME NEW p \in Process, NEW q \in Process, Above(p, q)
        PROVE  ~ Above(q, p)
    BY <1>3, ProcessType DEF Above
  <1>4. ASSUME NEW p \in Process, NEW q \in Process, NEW r \in Process,
               Above(p, q), Above(q, r)
        PROVE  Above(p, r)
    BY <1>4, ProcessType DEF Above
  <1> QED
    BY <1>1, <1>2, <1>3, <1>4

\* The ancestors of a child are its parent and the parent's ancestors, and it
\* lies on the same side of those as the parent.
LEMMA AboveKid ==
    ASSUME NEW p \in Process, NEW s \in Sides, Kid(p, s) \in Process,
           NEW w \in Process
    PROVE  /\ Above(w, Kid(p, s)) <=> w = p \/ Above(w, p)
           /\ Side(p, Kid(p, s)) = s
           /\ Above(w, p) => Side(w, Kid(p, s)) = Side(w, p)
  <1> DEFINE k == Kid(p, s)
  <1>1. /\ Len(k) = Len(p) + 1 /\ k[Len(p) + 1] = s
        /\ \A i \in 1..Len(p) : k[i] = p[i]
    BY KidType
  <1>2. Len(p) \in Nat /\ Len(w) \in Nat
    BY ProcessType
  <1> HIDE DEF k
  <1>3. Above(p, k)
    BY <1>1, <1>2 DEF Above
  <1>4. ASSUME Above(w, p) PROVE Above(w, k) /\ Side(w, k) = Side(w, p)
    BY <1>1, <1>2, <1>4 DEF Above, Side
  <1>5. ASSUME Above(w, k), w # p PROVE Above(w, p)
    <2>1. Len(w) <= Len(p) /\ \A i \in 1..Len(w) : p[i] = w[i]
      BY <1>1, <1>2, <1>5 DEF Above
    <2>2. Len(w) # Len(p)
      BY <1>5, <2>1, SameProcess
    <2> QED
      BY <1>2, <2>1, <2>2 DEF Above
  <1> QED
    BY <1>1, <1>3, <1>4, <1>5 DEF Side, k

\* Whoever is below a process is its child on that side, or below it.
LEMMA BelowKid ==
    ASSUME NEW p \in Process, NEW w \in Process, Above(p, w)
    PROVE  /\ Side(p, w) \in Sides /\ Kid(p, Side(p, w)) \in Process
           /\ \A s \in Sides :
                s = Side(p, w) <=> w = Kid(p, s) \/ Above(Kid(p, s), w)
  <1>1. /\ Len(p) \in Nat /\ Len(w) \in Nat /\ Len(p) < Len(w)
        /\ \A i \in 1..Len(p) : w[i] = p[i]
        /\ Len(w) <= N /\ \A i \in 1..Len(w) : w[i] \in Sides
    BY ProcessType DEF Above
  <1>2. Side(p, w) \in Sides
    BY <1>1 DEF Side
  <1>3. Len(p) < N
    BY <1>1, ForkSortAssumption
  <1>4. ASSUME NEW s \in Sides, s = Side(p, w)
        PROVE  w = Kid(p, s) \/ Above(Kid(p, s), w)
    <2>1. /\ Len(Kid(p, s)) = Len(p) + 1 /\ Kid(p, s)[Len(p) + 1] = s
          /\ \A i \in 1..Len(p) : Kid(p, s)[i] = p[i]
          /\ Kid(p, s) \in Process
      BY <1>3, KidType
    <2>2. \A i \in 1..Len(Kid(p, s)) : w[i] = Kid(p, s)[i]
      BY <1>1, <1>4, <2>1 DEF Side
    <2>3. CASE Len(w) = Len(p) + 1
      BY <2>1, <2>2, <2>3, SameProcess
    <2>4. CASE Len(w) # Len(p) + 1
      BY <1>1, <2>1, <2>2, <2>4 DEF Above
    <2> QED
      BY <2>3, <2>4
  <1>5. ASSUME NEW s \in Sides, w = Kid(p, s) \/ Above(Kid(p, s), w)
        PROVE  s = Side(p, w)
    <2>1. Len(Kid(p, s)) = Len(p) + 1 /\ Kid(p, s)[Len(p) + 1] = s
      BY KidType
    <2> QED
      BY <1>1, <1>5, <2>1 DEF Above, Side
  <1> QED
    BY <1>2, <1>3, <1>4, <1>5, KidType

\* Children as the model computes them.
LEMMA ChildrenAreKids ==
    ASSUME NEW p \in Process
    PROVE  Children(p) = {Kid(p, s) : s \in Sides} \cap Process
  <1>1. ASSUME NEW q \in Children(p)
        PROVE  q \in {Kid(p, s) : s \in Sides} \cap Process
    <2>1. q \in Process /\ Len(q) = Len(p) + 1 /\ SubSeq(q, 1, Len(p)) = p
      BY DEF Children
    <2>2. Len(p) \in Nat /\ q \in Seq(Sides)
      BY <2>1, ProcessType
    <2>3. \A i \in 1..Len(p) : q[i] = p[i]
      BY <2>1, <2>2
    <2>4. Above(p, q) /\ Len(q) = Len(p) + 1
      BY <2>1, <2>2, <2>3 DEF Above
    <2>5. Side(p, q) \in Sides /\ ~ Above(Kid(p, Side(p, q)), q)
      <3>1. Side(p, q) \in Sides
        BY <2>1, <2>4, BelowKid
      <3> QED
        BY <2>2, <2>4, <3>1, KidType DEF Above
    <2> QED
      BY <2>1, <2>4, <2>5, BelowKid
  <1>2. ASSUME NEW s \in Sides, Kid(p, s) \in Process
        PROVE  Kid(p, s) \in Children(p)
    <2>1. /\ Len(Kid(p, s)) = Len(p) + 1
          /\ \A i \in 1..Len(p) : Kid(p, s)[i] = p[i]
      BY KidType
    <2>2. Len(p) \in Nat /\ Kid(p, s) \in Seq(Sides) /\ p \in Seq(Sides)
      BY <1>2, ProcessType
    <2>3. SubSeq(Kid(p, s), 1, Len(p)) = p
      BY <2>1, <2>2
    <2> QED
      BY <1>2, <2>1, <2>3 DEF Children
  <1> QED
    BY <1>1, <1>2

-----------------------------------------------------------------------------
(* The steps, by the side they are about                                   *)

FromFork(s) == IF s = "l" THEN "left" ELSE "right"
ToFork(s) == IF s = "l" THEN "right" ELSE "waitleft"
FromWait(s) == IF s = "l" THEN "waitleft" ELSE "waitright"
ToWait(s) == IF s = "l" THEN "waitright" ELSE "return"

Pid(p, s) == IF s = "l" THEN left_pid[p] ELSE right_pid[p]

SetsPid(p, s, pid) ==
    /\ left_pid' = IF s = "l" THEN [left_pid EXCEPT ![p] = pid] ELSE left_pid
    /\ right_pid' = IF s = "l" THEN right_pid ELSE [right_pid EXCEPT ![p] = pid]

SetsSuccess(p, s, ok) ==
    /\ left_success' = IF s = "l" THEN [left_success EXCEPT ![p] = ok]
                                  ELSE left_success
    /\ right_success' = IF s = "l" THEN right_success
                                   ELSE [right_success EXCEPT ![p] = ok]

ForkChild(p, s) ==
    /\ pc[p] = FromFork(s)
    /\ pc' = [pc EXCEPT ![Kid(p, s)] = "quicksort", ![p] = ToFork(s)]
    /\ start' = [start EXCEPT ![Kid(p, s)] =
                    IF s = "l" THEN start[p] ELSE mid[p] + 1]
    /\ end' = [end EXCEPT ![Kid(p, s)] = IF s = "l" THEN mid[p] ELSE end[p]]
    /\ SetsPid(p, s, "child")
    /\ UNCHANGED <<input, arr, mid, left_success, right_success, status, failed>>

ForkRefused(p, s) ==
    /\ pc[p] = FromFork(s)
    /\ pc' = [pc EXCEPT ![p] = ToFork(s)]
    /\ failed' = TRUE
    /\ SetsPid(p, s, "zero")
    /\ UNCHANGED <<input, arr, region, left_success, right_success, status>>

\* The end of a process that is killed or has left the array.
Dies(p) ==
    /\ Running(p)
    /\ pc' = [pc EXCEPT ![p] = "zombie"]
    /\ arr' \in [Index -> Value]
    /\ UNCHANGED <<input, region, results>>
    /\ \/ /\ status' = [status EXCEPT ![p] = "signal"] /\ failed' = TRUE
          /\ \/ arr' = arr
             \/ pc[p] = "quicksort" /\ \A i \in Index \ Region(p) : arr'[i] = arr[i]
       \/ status' = [status EXCEPT ![p] = "segfault"] /\ failed' = failed

\* What waitpid finds, asked for the child on side s: none, or that on side t.
NoneToReap(p, s) ==
    \A t \in Sides : Alive(p, t) => Pid(p, s) # "zero" /\ t # s

CanReap(p, s, t) ==
    /\ Kid(p, t) \in Process /\ pc[Kid(p, t)] = "zombie"
    /\ Pid(p, s) = "zero" \/ t = s

WaitNone(p, s) ==
    /\ pc[p] = FromWait(s) /\ NoneToReap(p, s)
    /\ pc' = [pc EXCEPT ![p] = ToWait(s)]
    /\ SetsSuccess(p, s, FALSE)
    /\ UNCHANGED <<input, arr, region, left_pid, right_pid, status, failed>>

Reap(p, s, t) ==
    /\ pc[p] = FromWait(s) /\ CanReap(p, s, t)
    /\ pc' = [pc EXCEPT ![p] = ToWait(s), ![Kid(p, t)] = "reaped"]
    /\ SetsSuccess(p, s, status[Kid(p, t)] = "success")
    /\ UNCHANGED <<input, arr, region, left_pid, right_pid, status, failed>>

\* Which children waitpid can find.
LEMMA UnreapedKids ==
    ASSUME NEW p \in Process
    PROVE  Unreaped(p) = {Kid(p, t) : t \in {u \in Sides : Alive(p, u)}}
  BY ChildrenAreKids DEF Unreaped, Alive

Eligible(p, s) == IF Pid(p, s) = "zero" THEN Unreaped(p)
                                         ELSE {Kid(p, s)} \cap Unreaped(p)

\* The children waitpid looks at are those on the sides it can find.
LEMMA EligibleKids ==
    ASSUME NEW p \in Process, NEW s \in Sides
    PROVE  /\ Eligible(p, s) = {} => NoneToReap(p, s)
           /\ \A q \in Eligible(p, s) :
                pc[q] = "zombie" => \E t \in Sides : q = Kid(p, t) /\ CanReap(p, s, t)
  <1>1. ASSUME Eligible(p, s) = {}, NEW t \in Sides, Alive(p, t)
        PROVE  Pid(p, s) # "zero" /\ t # s
    <2>1. Kid(p, t) \in Unreaped(p)
      BY <1>1, UnreapedKids
    <2> QED
      BY <1>1, <2>1 DEF Eligible
  <1>2. ASSUME NEW q \in Eligible(p, s), pc[q] = "zombie"
        PROVE  \E t \in Sides : q = Kid(p, t) /\ CanReap(p, s, t)
    <2>1. PICK t \in Sides : q = Kid(p, t) /\ Alive(p, t)
      BY UnreapedKids DEF Eligible
    <2>2. Pid(p, s) = "zero" \/ t = s
      BY <2>1, KidsDiffer DEF Eligible, Alive
    <2> QED
      BY <1>2, <2>1, <2>2 DEF CanReap, Alive
  <1> QED
    BY <1>1, <1>2 DEF NoneToReap

\* Every step is one of these.
LEMMA StepCases ==
    ASSUME TypeOK, [Next]_vars
    PROVE  \/ UNCHANGED vars
           \/ \E p \in Process :
               \/ SortHere(p) \/ Partition(p) \/ Exit(p) \/ Dies(p)
               \/ \E s \in Sides :
                   \/ ForkChild(p, s) \/ ForkRefused(p, s) \/ WaitNone(p, s)
                   \/ \E t \in Sides : Reap(p, s, t)
  <1>1. ASSUME NEW p \in Process, ForkLeft(p)
        PROVE  ForkChild(p, "l") \/ ForkRefused(p, "l")
    BY <1>1 DEF ForkLeft, Forks, ForkFails, ForkChild, ForkRefused, SetsPid,
                FromFork, ToFork, Kid, region
  <1>2. ASSUME NEW p \in Process, ForkRight(p)
        PROVE  ForkChild(p, "r") \/ ForkRefused(p, "r")
    BY <1>2 DEF ForkRight, Forks, ForkFails, ForkChild, ForkRefused, SetsPid,
                FromFork, ToFork, Kid, region
  <1>3. ASSUME NEW p \in Process, WaitLeft(p)
        PROVE  WaitNone(p, "l") \/ \E t \in Sides : Reap(p, "l", t)
    <2>1. PICK ok \in BOOLEAN :
            /\ WaitFor(p, left_pid[p], Append(p, "l"), "waitright", ok)
            /\ left_success' = [left_success EXCEPT ![p] = ok]
      BY <1>3 DEF WaitLeft
    <2>2. \/ /\ Eligible(p, "l") = {} /\ ok = FALSE
             /\ pc' = [pc EXCEPT ![p] = "waitright"]
          \/ \E q \in Eligible(p, "l") :
             /\ pc[q] = "zombie" /\ ok = (status[q] = "success")
             /\ pc' = [pc EXCEPT ![p] = "waitright", ![q] = "reaped"]
      BY <2>1 DEF WaitFor, Eligible, Pid, Kid
    <2>3. "l" \in Sides /\ ToWait("l") = "waitright"
      BY DEF Sides, ToWait
    <2>4. /\ SetsSuccess(p, "l", ok) /\ pc[p] = FromWait("l")
          /\ UNCHANGED <<input, arr, region, left_pid, right_pid, status, failed>>
      BY <1>3, <2>1 DEF WaitLeft, SetsSuccess, FromWait
    <2>5. ASSUME Eligible(p, "l") = {}, ok = FALSE,
                 pc' = [pc EXCEPT ![p] = "waitright"]
          PROVE  WaitNone(p, "l")
      BY <2>3, <2>4, <2>5, EligibleKids DEF WaitNone
    <2>6. ASSUME NEW q \in Eligible(p, "l"), pc[q] = "zombie",
                 ok = (status[q] = "success"),
                 pc' = [pc EXCEPT ![p] = "waitright", ![q] = "reaped"]
          PROVE  \E t \in Sides : Reap(p, "l", t)
      <3>1. PICK t \in Sides : q = Kid(p, t) /\ CanReap(p, "l", t)
        BY <2>3, <2>6, EligibleKids
      <3>2. SetsSuccess(p, "l", status[Kid(p, t)] = "success")
        BY <2>4, <2>6, <3>1
      <3>3. Reap(p, "l", t)
        BY <2>3, <2>4, <2>6, <3>1, <3>2 DEF Reap
      <3> QED
        BY <3>3
    <2> QED
      BY <2>2, <2>5, <2>6
  <1>4. ASSUME NEW p \in Process, WaitRight(p)
        PROVE  WaitNone(p, "r") \/ \E t \in Sides : Reap(p, "r", t)
    <2>1. PICK ok \in BOOLEAN :
            /\ WaitFor(p, right_pid[p], Append(p, "r"), "return", ok)
            /\ right_success' = [right_success EXCEPT ![p] = ok]
      BY <1>4 DEF WaitRight
    <2>2. \/ /\ Eligible(p, "r") = {} /\ ok = FALSE
             /\ pc' = [pc EXCEPT ![p] = "return"]
          \/ \E q \in Eligible(p, "r") :
             /\ pc[q] = "zombie" /\ ok = (status[q] = "success")
             /\ pc' = [pc EXCEPT ![p] = "return", ![q] = "reaped"]
      BY <2>1 DEF WaitFor, Eligible, Pid, Kid
    <2>3. "r" \in Sides /\ ToWait("r") = "return"
      BY DEF Sides, ToWait
    <2>4. /\ SetsSuccess(p, "r", ok) /\ pc[p] = FromWait("r")
          /\ UNCHANGED <<input, arr, region, left_pid, right_pid, status, failed>>
      BY <1>4, <2>1 DEF WaitRight, SetsSuccess, FromWait
    <2>5. ASSUME Eligible(p, "r") = {}, ok = FALSE,
                 pc' = [pc EXCEPT ![p] = "return"]
          PROVE  WaitNone(p, "r")
      BY <2>3, <2>4, <2>5, EligibleKids DEF WaitNone
    <2>6. ASSUME NEW q \in Eligible(p, "r"), pc[q] = "zombie",
                 ok = (status[q] = "success"),
                 pc' = [pc EXCEPT ![p] = "return", ![q] = "reaped"]
          PROVE  \E t \in Sides : Reap(p, "r", t)
      <3>1. PICK t \in Sides : q = Kid(p, t) /\ CanReap(p, "r", t)
        BY <2>3, <2>6, EligibleKids
      <3>2. SetsSuccess(p, "r", status[Kid(p, t)] = "success")
        BY <2>4, <2>6, <3>1
      <3>3. Reap(p, "r", t)
        BY <2>3, <2>4, <2>6, <3>1, <3>2 DEF Reap
      <3> QED
        BY <3>3
    <2> QED
      BY <2>2, <2>5, <2>6
  <1>5. ASSUME NEW p \in Process, Killed(p) PROVE Dies(p)
    BY <1>5 DEF Killed, Dies, TypeOK
  <1>6. ASSUME NEW p \in Process, Strays(p) PROVE Dies(p)
    BY <1>6 DEF Strays, Goto, Running, Dies
  <1> QED
    BY <1>1, <1>2, <1>3, <1>4, <1>5, <1>6 DEF Next, Run, Finished, Sides

\* What the fork of the child on side s changes.
LEMMA ForkFacts ==
    ASSUME TypeOK, TreeInv, KidsInv, NEW p \in Process, NEW s \in Sides,
           ForkChild(p, s)
    PROVE  /\ Kid(p, s) \in Process /\ Kid(p, s) # p
           /\ pc[Kid(p, s)] = "unborn" /\ mid[p] \in Region(p)
           /\ pc[p] \in {"left", "right"} /\ mid' = mid
           /\ pc'[Kid(p, s)] = "quicksort" /\ pc'[p] = ToFork(s)
           /\ \A w \in Process \ {p, Kid(p, s)} : pc'[w] = pc[w]
           /\ start'[Kid(p, s)] = IF s = "l" THEN start[p] ELSE mid[p] + 1
           /\ end'[Kid(p, s)] = IF s = "l" THEN mid[p] ELSE end[p]
           /\ \A w \in Process \ {Kid(p, s)} :
                start'[w] = start[w] /\ end'[w] = end[w]
  <1>1. pc[p] \in {"left", "right"} /\ Born(p) /\ Forking(p)
    BY DEF ForkChild, FromFork, Born, Forking
  <1>2. mid[p] \in Region(p) /\ Len(p) + (end[p] - start[p]) <= N
    BY <1>1 DEF TreeInv, SizeInv
  <1>3. Len(p) < N
    BY <1>2, ProcessType, ForkSortAssumption DEF TypeOK, Region
  <1>4. Kid(p, s) \in Process /\ Kid(p, s) # p
    BY <1>3, KidType, ProcessType
  <1>5. Unborn(p, s)
    BY DEF KidsInv, Kids, ForkChild, FromFork, Sides
  <1>6. pc[Kid(p, s)] = "unborn"
    BY <1>4, <1>5 DEF Unborn
  <1> QED
    BY <1>1, <1>2, <1>4, <1>6 DEF ForkChild, TypeOK

\* What the wait that reaps the child on side t changes.
LEMMA ReapFacts ==
    ASSUME TypeOK, NEW p \in Process, NEW s \in Sides, NEW t \in Sides,
           Reap(p, s, t)
    PROVE  /\ Kid(p, t) \in Process /\ Kid(p, t) # p
           /\ pc[p] \in {"waitleft", "waitright"}
           /\ pc[Kid(p, t)] = "zombie"
           /\ pc'[Kid(p, t)] = "reaped" /\ pc'[p] = ToWait(s)
           /\ \A w \in Process \ {p, Kid(p, t)} : pc'[w] = pc[w]
  <1>1. Kid(p, t) \in Process /\ Kid(p, t) # p
    BY KidType, ProcessType DEF Reap, CanReap
  <1> QED
    BY <1>1 DEF Reap, CanReap, FromWait, TypeOK

-----------------------------------------------------------------------------
(* Every step preserves each conjunct                                      *)

\* Every variable stays in its type.
THEOREM ForkSortTypeStep ==
    TypeOK /\ TreeInv /\ KidsInv /\ [Next]_vars => TypeOK'
  <1> SUFFICES ASSUME TypeOK, TreeInv, KidsInv, [Next]_vars PROVE TypeOK'
    OBVIOUS
  <1>0. CASE UNCHANGED vars
    BY <1>0 DEF TypeOK, vars, region, results
  <1>1. ASSUME NEW p \in Process, SortHere(p) PROVE TypeOK'
    BY <1>1 DEF SortHere, Goto, TypeOK, region
  <1>2. ASSUME NEW p \in Process, Partition(p) PROVE TypeOK'
    <2>1. Region(p) \subseteq 0..N
      BY ForkSortAssumption DEF TypeOK, Region
    <2>2. mid' \in [Process -> 0..N]
      BY <1>2, <2>1 DEF Partition, TypeOK
    <2> QED
      BY <1>2, <2>2 DEF Partition, Goto, TypeOK, results
  <1>3. ASSUME NEW p \in Process, Exit(p) PROVE TypeOK'
    BY <1>3 DEF Exit, Goto, TypeOK, region, results
  <1>4. ASSUME NEW p \in Process, Dies(p) PROVE TypeOK'
    BY <1>4 DEF Dies, TypeOK, region, results
  <1>5. ASSUME NEW p \in Process, NEW s \in Sides, ForkChild(p, s) PROVE TypeOK'
    <2>1. mid[p] \in Region(p)
      BY <1>5, ForkFacts
    <2>2. mid[p] + 1 \in 0..N
      BY <2>1, ForkSortAssumption DEF TypeOK, Region
    <2>3. start' \in [Process -> 0..N] /\ end' \in [Process -> 0..N]
      BY <1>5, <2>2 DEF ForkChild, TypeOK
    <2>4. pc' \in [Process -> {"unborn", "quicksort", "left", "right",
                    "waitleft", "waitright", "return", "zombie", "reaped"}]
      BY <1>5 DEF ForkChild, ToFork, TypeOK
    <2> QED
      BY <1>5, <2>3, <2>4 DEF ForkChild, SetsPid, TypeOK
  <1>6. ASSUME NEW p \in Process, NEW s \in Sides, ForkRefused(p, s)
        PROVE  TypeOK'
    BY <1>6 DEF ForkRefused, SetsPid, ToFork, TypeOK, region
  <1>7. ASSUME NEW p \in Process, NEW s \in Sides, WaitNone(p, s) PROVE TypeOK'
    BY <1>7 DEF WaitNone, SetsSuccess, ToWait, TypeOK, region
  <1>8. ASSUME NEW p \in Process, NEW s \in Sides, NEW t \in Sides, Reap(p, s, t)
        PROVE  TypeOK'
    <2>1. pc' \in [Process -> {"unborn", "quicksort", "left", "right",
                    "waitleft", "waitright", "return", "zombie", "reaped"}]
      BY <1>8 DEF Reap, ToWait, TypeOK
    <2>2. left_success' \in [Process -> BOOLEAN]
          /\ right_success' \in [Process -> BOOLEAN]
      <3>1. PICK ok \in BOOLEAN : ok = (status[Kid(p, t)] = "success")
        OBVIOUS
      <3>2. SetsSuccess(p, s, ok)
        BY <1>8, <3>1 DEF Reap
      <3> QED
        BY <3>2 DEF SetsSuccess, TypeOK
    <2> QED
      BY <1>8, <2>1, <2>2 DEF Reap, TypeOK, region
  <1> QED
    BY <1>0, <1>1, <1>2, <1>3, <1>4, <1>5, <1>6, <1>7, <1>8, StepCases

\* A step that starts no process and moves no region keeps the tree.
LEMMA TreeQuiet ==
    ASSUME TypeOK, TreeInv, UNCHANGED region,
           \A w \in Process :
            /\ pc'[w] = "unborn" <=> pc[w] = "unborn"
            /\ pc'[w] = "quicksort" => pc[w] = "quicksort"
            /\ Forking(w)' => Forking(w)
    PROVE  TreeInv'
  <1>1. SizeInv'
    BY DEF TreeInv, SizeInv, Born, Region, region
  <1>2. FirstInv'
    BY ProcessType DEF TreeInv, FirstInv, Born, region
  <1>3. BelowInv'
    BY DEF TreeInv, BelowInv, Born, Region, region
  <1>4. ApartInv'
    BY DEF TreeInv, ApartInv, Born, region
  <1> QED
    BY <1>1, <1>2, <1>3, <1>4 DEF TreeInv

\* Processes work in the parts that their ancestors have left them, and in
\* regions of their own otherwise.
THEOREM ForkSortTreeStep ==
    TypeOK /\ TreeInv /\ KidsInv /\ [Next]_vars => TreeInv'
  <1> SUFFICES ASSUME TypeOK, TreeInv, KidsInv, [Next]_vars PROVE TreeInv'
    OBVIOUS
  <1>0. CASE UNCHANGED vars
    BY <1>0, TreeQuiet DEF vars, region, Forking
  <1>1. ASSUME NEW p \in Process, SortHere(p) PROVE TreeInv'
    BY <1>1, TreeQuiet DEF SortHere, Goto, Forking, TypeOK
  <1>2. ASSUME NEW p \in Process, Partition(p) PROVE TreeInv'
    <2>1. /\ start' = start /\ end' = end
          /\ pc[p] = "quicksort" /\ pc'[p] = "left"
          /\ \A w \in Process \ {p} : pc'[w] = pc[w] /\ mid'[w] = mid[w]
          /\ mid'[p] \in Region(p)
      BY <1>2, ForkSortAssumption DEF Partition, Goto, TypeOK, Region
    <2>2. SizeInv'
      BY <2>1 DEF TreeInv, SizeInv, Born, Forking, Region
    <2>3. FirstInv'
      BY <2>1, ProcessType DEF TreeInv, FirstInv, Born
    <2>4. \A w \in Process : Born(w)' <=> Born(w)
      BY <2>1 DEF Born
    <2>5. BelowInv'
      <3> SUFFICES ASSUME NEW w \in Process, NEW q \in Process, Above(w, q),
                          Born(q)'
                   PROVE  /\ Born(w)' /\ pc'[w] # "quicksort"
                          /\ mid'[w] \in Region(w)
                          /\ Side(w, q) = "l" =>
                                start'[w] <= start'[q] /\ end'[q] <= mid'[w]
                          /\ Side(w, q) = "r" =>
                                mid'[w] < start'[q] /\ end'[q] <= end'[w]
        BY <2>1 DEF BelowInv, Region
      <3>1. Born(q) /\ w # p
        BY <2>1, <2>4 DEF TreeInv, BelowInv
      <3> QED
        BY <2>1, <2>4, <3>1 DEF TreeInv, BelowInv
    <2>6. ApartInv'
      BY <2>1, <2>4 DEF TreeInv, ApartInv
    <2> QED
      BY <2>2, <2>3, <2>5, <2>6 DEF TreeInv
  <1>3. ASSUME NEW p \in Process, Exit(p) PROVE TreeInv'
    BY <1>3, TreeQuiet DEF Exit, Goto, Forking, TypeOK
  <1>4. ASSUME NEW p \in Process, Dies(p) PROVE TreeInv'
    BY <1>4, TreeQuiet DEF Dies, Running, Forking, TypeOK
  <1>5. ASSUME NEW p \in Process, NEW s \in Sides, ForkChild(p, s)
        PROVE  TreeInv'
    <2> DEFINE k == Kid(p, s)
    <2>1. /\ k \in Process /\ k # p
          /\ pc[k] = "unborn" /\ mid[p] \in Region(p)
          /\ pc[p] \in {"left", "right"} /\ mid' = mid
          /\ pc'[k] = "quicksort" /\ pc'[p] \in {"right", "waitleft"}
          /\ \A w \in Process \ {p, k} : pc'[w] = pc[w]
          /\ start'[k] = IF s = "l" THEN start[p] ELSE mid[p] + 1
          /\ end'[k] = IF s = "l" THEN mid[p] ELSE end[p]
          /\ \A w \in Process \ {k} : start'[w] = start[w] /\ end'[w] = end[w]
      BY <1>5, ForkFacts DEF ToFork
    <2>2. /\ Len(k) = Len(p) + 1 /\ Len(p) \in Nat
          /\ \A w \in Process :
              /\ Above(w, k) <=> w = p \/ Above(w, p)
              /\ Above(w, p) => Side(w, k) = Side(w, p)
          /\ Side(p, k) = s
      BY <2>1, KidType, ProcessType, AboveKid
    <2>3. /\ \A w \in Process : ~ Above(w, w)
          /\ k # First
      BY <2>2, AboveOrder, ProcessType DEF First
    <2>4. \A w \in Process : /\ start[w] \in Nat /\ end[w] \in Nat
                             /\ mid[w] \in Nat
      BY ForkSortAssumption DEF TypeOK
    <2>5. \A w \in Process : Born(w)' <=> Born(w) \/ w = k
      BY <2>1 DEF Born
    <2>6. /\ start[p] <= start'[k] /\ start'[k] <= end'[k] /\ end'[k] <= end[p]
          /\ end'[k] - start'[k] < end[p] - start[p]
      BY <2>1, <2>4 DEF Region
    <2>7. Born(p) /\ s \in {"l", "r"}
      BY <2>1 DEF Born, Sides
    <2>8. \A w \in Process : ~ Above(k, w) \/ ~ Born(w)
      BY <2>1 DEF TreeInv, BelowInv, Born
    <2> HIDE DEF k
    <2>9. SizeInv'
      <3> SUFFICES ASSUME NEW w \in Process
                   PROVE  /\ start'[w] <= end'[w]
                          /\ Born(w)' => Len(w) + (end'[w] - start'[w]) <= N
                          /\ Forking(w)' => mid'[w] \in Region(w)'
        BY DEF SizeInv
      <3>1. CASE w = k
        <4>1. Len(p) + (end[p] - start[p]) <= N
          BY <2>7 DEF TreeInv, SizeInv
        <4>2. start'[k] \in Nat /\ end'[k] \in Nat
          BY <2>1, <2>4
        <4>3. Len(k) + (end'[k] - start'[k]) <= N
          BY <2>2, <2>4, <2>6, <4>1, <4>2, ForkSortAssumption
        <4>4. ~ Forking(k)'
          BY <2>1 DEF Forking
        <4> QED
          BY <2>6, <3>1, <4>3, <4>4
      <3>2. CASE w # k
        <4>1. Forking(w)' => Forking(w)
          BY <2>1, <3>2 DEF Forking
        <4> QED
          BY <2>1, <2>5, <3>2, <4>1 DEF TreeInv, SizeInv, Region
      <3> QED
        BY <3>1, <3>2
    <2>10. FirstInv'
      BY <2>1, <2>3, <2>5, ProcessType DEF TreeInv, FirstInv
    <2>11. BelowInv'
      <3> SUFFICES ASSUME NEW w \in Process, NEW q \in Process, Above(w, q),
                          Born(q)'
                   PROVE  /\ Born(w)' /\ pc'[w] # "quicksort"
                          /\ mid'[w] \in Region(w)'
                          /\ Side(w, q) = "l" =>
                                start'[w] <= start'[q] /\ end'[q] <= mid'[w]
                          /\ Side(w, q) = "r" =>
                                mid'[w] < start'[q] /\ end'[q] <= end'[w]
        BY DEF BelowInv
      <3>1. w # k
        BY <2>3, <2>5, <2>8
      <3>2. Region(w)' = Region(w)
        BY <2>1, <3>1 DEF Region
      <3>3. CASE q = k /\ w = p
        BY <2>1, <2>2, <2>4, <2>5, <2>6, <2>7, <3>1, <3>2, <3>3
      <3>4. CASE q = k /\ w # p
        <4>1. Above(w, p) /\ Side(w, k) = Side(w, p)
          BY <2>2, <3>4
        <4>2. /\ Born(w) /\ pc[w] # "quicksort" /\ mid[w] \in Region(w)
              /\ Side(w, p) = "l" => start[w] <= start[p] /\ end[p] <= mid[w]
              /\ Side(w, p) = "r" => mid[w] < start[p] /\ end[p] <= end[w]
          BY <2>7, <4>1 DEF TreeInv, BelowInv
        <4> QED
          BY <2>1, <2>4, <2>5, <2>6, <3>1, <3>2, <3>4, <4>1, <4>2
      <3>5. CASE q # k
        <4>1. Born(q)
          BY <2>5, <3>5
        <4>2. /\ Born(w) /\ pc[w] # "quicksort" /\ mid[w] \in Region(w)
              /\ Side(w, q) = "l" => start[w] <= start[q] /\ end[q] <= mid[w]
              /\ Side(w, q) = "r" => mid[w] < start[q] /\ end[q] <= end[w]
          BY <4>1 DEF TreeInv, BelowInv
        <4> QED
          BY <2>1, <2>5, <3>1, <3>2, <3>5, <4>2
      <3> QED
        BY <3>3, <3>4, <3>5
    <2>12. \A w \in Process :
             Apart(w, k) /\ Born(w) => end[w] <= start'[k] \/ end'[k] <= start[w]
      <3> SUFFICES ASSUME NEW w \in Process, Apart(w, k), Born(w)
                   PROVE  end[w] <= start'[k] \/ end'[k] <= start[w]
        OBVIOUS
      <3>1. w # k /\ w # p /\ ~ Above(w, p) /\ ~ Above(k, w)
        BY <2>2 DEF Apart
      <3>2. CASE Above(p, w)
        <4>1. Side(p, w) # s /\ Side(p, w) \in {"l", "r"}
          BY <3>1, <3>2, BelowKid DEF k, Sides
        <4>2. /\ Side(p, w) = "l" => end[w] <= mid[p]
              /\ Side(p, w) = "r" => mid[p] < start[w]
          BY <3>2 DEF TreeInv, BelowInv
        <4> QED
          BY <2>1, <2>4, <2>7, <4>1, <4>2
      <3>3. CASE ~ Above(p, w)
        <4>1. end[w] <= start[p] \/ end[p] <= start[w]
          BY <2>7, <3>1, <3>3 DEF TreeInv, ApartInv, Apart
        <4>2. start'[k] \in Nat /\ end'[k] \in Nat
          BY <2>1, <2>4
        <4> QED
          BY <2>4, <2>6, <4>1, <4>2
      <3> QED
        BY <3>2, <3>3
    <2>13. ApartInv'
      <3> SUFFICES ASSUME NEW v \in Process, NEW w \in Process, Apart(v, w),
                          Born(v)', Born(w)'
                   PROVE  end'[v] <= start'[w] \/ end'[w] <= start'[v]
        BY DEF ApartInv
      <3>1. CASE v = k
        <4>1. Apart(w, k) /\ w # k /\ Born(w)
          BY <2>5, <3>1 DEF Apart
        <4> QED
          BY <2>1, <2>12, <3>1, <4>1
      <3>2. CASE w = k
        <4>1. v # k /\ Born(v)
          BY <2>5, <3>2 DEF Apart
        <4> QED
          BY <2>1, <2>12, <3>2, <4>1
      <3>3. CASE v # k /\ w # k
        BY <2>1, <2>5, <3>3 DEF TreeInv, ApartInv
      <3> QED
        BY <3>1, <3>2, <3>3
    <2> QED
      BY <2>9, <2>10, <2>11, <2>13 DEF TreeInv
  <1>6. ASSUME NEW p \in Process, NEW s \in Sides, ForkRefused(p, s)
        PROVE  TreeInv'
    BY <1>6, TreeQuiet DEF ForkRefused, FromFork, ToFork, Forking, TypeOK
  <1>7. ASSUME NEW p \in Process, NEW s \in Sides, WaitNone(p, s)
        PROVE  TreeInv'
    BY <1>7, TreeQuiet DEF WaitNone, FromWait, ToWait, Forking, TypeOK
  <1>8. ASSUME NEW p \in Process, NEW s \in Sides, NEW t \in Sides, Reap(p, s, t)
        PROVE  TreeInv'
    <2>1. UNCHANGED region
      BY <1>8 DEF Reap
    <2> QED
      BY <1>8, <2>1, ReapFacts, TreeQuiet DEF ToWait, Forking
  <1> QED
    BY <1>0, <1>1, <1>2, <1>3, <1>4, <1>5, <1>6, <1>7, <1>8, StepCases

\* A parent notices of its children only that they are started and reaped.
LEMMA KidsQuiet ==
    ASSUME KidsInv, NEW w \in Process, pc'[w] = pc[w],
           left_pid'[w] = left_pid[w], right_pid'[w] = right_pid[w],
           \A t \in Sides : Kid(w, t) \in Process =>
            /\ pc'[Kid(w, t)] = "unborn" <=> pc[Kid(w, t)] = "unborn"
            /\ pc'[Kid(w, t)] = "reaped" <=> pc[Kid(w, t)] = "reaped"
    PROVE  Kids(w)'
  <1>1. /\ Alive(w, "l")' <=> Alive(w, "l")
        /\ Alive(w, "r")' <=> Alive(w, "r")
        /\ Unborn(w, "l")' <=> Unborn(w, "l")
        /\ Unborn(w, "r")' <=> Unborn(w, "r")
    BY DEF Alive, Unborn, Sides
  <1>2. Kids(w)
    BY DEF KidsInv
  <1> QED
    BY <1>1, <1>2 DEF Kids

\* A step of one process that is neither its birth nor its end concerns no
\* other parent.
LEMMA KidsOfOthers ==
    ASSUME TypeOK, KidsInv, NEW p \in Process, pc[p] \notin {"unborn", "reaped"},
           pc'[p] \notin {"unborn", "reaped"},
           \A w \in Process \ {p} :
            /\ left_pid'[w] = left_pid[w] /\ right_pid'[w] = right_pid[w],
           NEW changed,
           \A q \in changed : \E t \in Sides : q = Kid(p, t),
           \A q \in Process \ {p} : q \notin changed => pc'[q] = pc[q],
           \A q \in changed : pc'[q] \in {"quicksort", "reaped"}
    PROVE  \A w \in Process \ {p} : Kids(w)'
  <1> SUFFICES ASSUME NEW w \in Process, w # p PROVE Kids(w)'
    OBVIOUS
  <1>1. CASE w \in changed
    BY <1>1 DEF Kids
  <1>2. CASE w \notin changed
    <2>1. pc'[w] = pc[w]
      BY <1>2
    <2>2. ASSUME NEW t \in Sides, Kid(w, t) \in Process
          PROVE  /\ pc'[Kid(w, t)] = "unborn" <=> pc[Kid(w, t)] = "unborn"
                 /\ pc'[Kid(w, t)] = "reaped" <=> pc[Kid(w, t)] = "reaped"
      <3>1. Kid(w, t) \notin changed
        BY KidsDiffer
      <3>2. CASE Kid(w, t) = p
        BY <3>2
      <3>3. CASE Kid(w, t) # p
        BY <2>2, <3>1, <3>3
      <3> QED
        BY <3>2, <3>3
    <2> QED
      BY <2>1, <2>2, KidsQuiet
  <1> QED
    BY <1>1, <1>2

\* A process that has not gone further than quicksort has no children.
LEMMA NoKidsYet ==
    ASSUME TreeInv, NEW p \in Process, pc[p] = "quicksort"
    PROVE  /\ \A q \in Process : Above(p, q) => pc[q] = "unborn"
           /\ \A t \in Sides : Unborn(p, t) /\ ~ Alive(p, t)
  <1>1. \A q \in Process : Above(p, q) => pc[q] = "unborn"
    BY DEF TreeInv, BelowInv, Born
  <1>2. ASSUME NEW t \in Sides, Kid(p, t) \in Process PROVE Above(p, Kid(p, t))
    BY <1>2, AboveKid
  <1> QED
    BY <1>1, <1>2 DEF Unborn, Alive

\* The pids of a process account for the children it has not waited for.
THEOREM ForkSortKidsStep ==
    TypeOK /\ TreeInv /\ KidsInv /\ [Next]_vars => KidsInv'
  <1> SUFFICES ASSUME TypeOK, TreeInv, KidsInv, [Next]_vars PROVE KidsInv'
    OBVIOUS
  <1>p. \A p \in Process, t \in Sides : Kid(p, t) # p
    BY KidType, ProcessType
  <1>0. CASE UNCHANGED vars
    BY <1>0, KidsQuiet DEF vars, results, KidsInv
  <1>1. ASSUME NEW p \in Process, SortHere(p) PROVE KidsInv'
    <2>1. /\ pc[p] = "quicksort" /\ pc'[p] = "return"
          /\ \A w \in Process \ {p} : pc'[w] = pc[w]
          /\ left_pid' = left_pid /\ right_pid' = right_pid
      BY <1>1 DEF SortHere, Goto, TypeOK
    <2>2. Kids(p)'
      BY <2>1, <1>p, NoKidsYet DEF Kids, Alive, Sides
    <2>3. \A w \in Process \ {p} : Kids(w)'
      <3> DEFINE changed == {}
      <3>1. \A q \in changed : FALSE
        OBVIOUS
      <3> HIDE DEF changed
      <3> QED
        BY <2>1, <3>1, KidsOfOthers
    <2> QED
      BY <2>2, <2>3 DEF KidsInv
  <1>2. ASSUME NEW p \in Process, Partition(p) PROVE KidsInv'
    <2>1. /\ pc[p] = "quicksort" /\ pc'[p] = "left"
          /\ \A w \in Process \ {p} : pc'[w] = pc[w]
          /\ left_pid' = left_pid /\ right_pid' = right_pid
      BY <1>2 DEF Partition, Goto, TypeOK, results
    <2>2. Kids(p)'
      BY <2>1, <1>p, NoKidsYet DEF Kids, Unborn, Sides
    <2>3. \A w \in Process \ {p} : Kids(w)'
      <3> DEFINE changed == {}
      <3>1. \A q \in changed : FALSE
        OBVIOUS
      <3> HIDE DEF changed
      <3> QED
        BY <2>1, <3>1, KidsOfOthers
    <2> QED
      BY <2>2, <2>3 DEF KidsInv
  <1>3. ASSUME NEW p \in Process, Exit(p) \/ Dies(p) PROVE KidsInv'
    <2>1. /\ pc[p] \notin {"unborn", "reaped"} /\ pc'[p] = "zombie"
          /\ \A w \in Process \ {p} : pc'[w] = pc[w]
          /\ left_pid' = left_pid /\ right_pid' = right_pid
      BY <1>3 DEF Exit, Dies, Goto, Running, TypeOK, results
    <2>2. Kids(p)'
      BY <2>1 DEF Kids
    <2>3. \A w \in Process \ {p} : Kids(w)'
      <3> DEFINE changed == {}
      <3>1. \A q \in changed : FALSE
        OBVIOUS
      <3> HIDE DEF changed
      <3> QED
        BY <2>1, <3>1, KidsOfOthers
    <2> QED
      BY <2>2, <2>3 DEF KidsInv
  <1>4. ASSUME NEW p \in Process, NEW s \in Sides, ForkChild(p, s)
        PROVE  KidsInv'
    <2>1. /\ Kid(p, s) \in Process /\ Kid(p, s) # p
          /\ pc[p] = FromFork(s) /\ pc'[p] = ToFork(s)
          /\ pc'[Kid(p, s)] = "quicksort"
          /\ \A w \in Process \ {p, Kid(p, s)} : pc'[w] = pc[w]
          /\ SetsPid(p, s, "child")
      BY <1>4, ForkFacts DEF ForkChild
    <2>2. Alive(p, s)'
      BY <2>1 DEF Alive
    <2>3. ASSUME NEW t \in Sides, t # s
          PROVE  (Alive(p, t)' <=> Alive(p, t)) /\ (Unborn(p, t)' <=> Unborn(p, t))
      BY <2>1, <2>3, <1>p, KidsDiffer DEF Alive, Unborn
    <2>4. Kids(p) /\ s \in {"l", "r"}
      BY DEF KidsInv, Sides
    <2>5. ASSUME s = "l" PROVE Kids(p)'
      <3>1. pc[p] = "left" /\ pc'[p] = "right" /\ left_pid'[p] = "child"
        BY <2>1, <2>5 DEF FromFork, ToFork, SetsPid, TypeOK
      <3>2. Unborn(p, "r")'
        BY <2>3, <2>4, <2>5, <3>1 DEF Kids, Sides
      <3> QED
        BY <2>2, <2>5, <3>1, <3>2 DEF Kids
    <2>6. ASSUME s = "r" PROVE Kids(p)'
      <3>1. /\ pc[p] = "right" /\ pc'[p] = "waitleft" /\ right_pid'[p] = "child"
            /\ left_pid'[p] = left_pid[p]
        BY <2>1, <2>6 DEF FromFork, ToFork, SetsPid, TypeOK
      <3>2. /\ Alive(p, "l")' <=> left_pid'[p] = "child"
            /\ left_pid'[p] \in {"child", "zero"}
        BY <2>3, <2>4, <2>6, <3>1 DEF Kids, Sides
      <3> QED
        BY <2>2, <2>6, <3>1, <3>2 DEF Kids
    <2>7. \A w \in Process \ {p} : Kids(w)'
      <3> DEFINE changed == {Kid(p, s)}
      <3>1. \A q \in changed : q = Kid(p, s)
        OBVIOUS
      <3>2. \A q \in Process : q \notin changed => q # Kid(p, s)
        OBVIOUS
      <3> HIDE DEF changed
      <3>3. /\ pc[p] \notin {"unborn", "reaped"}
            /\ pc'[p] \notin {"unborn", "reaped"}
        BY <2>1 DEF FromFork, ToFork
      <3>4. \A w \in Process \ {p} : left_pid'[w] = left_pid[w]
                                     /\ right_pid'[w] = right_pid[w]
        BY <2>1 DEF SetsPid, TypeOK
      <3> QED
        BY <2>1, <3>1, <3>2, <3>3, <3>4, KidsOfOthers
    <2> QED
      BY <2>4, <2>5, <2>6, <2>7 DEF KidsInv
  <1>5. ASSUME NEW p \in Process, NEW s \in Sides, ForkRefused(p, s)
        PROVE  KidsInv'
    <2>1. /\ pc[p] = FromFork(s) /\ pc'[p] = ToFork(s)
          /\ \A w \in Process \ {p} : pc'[w] = pc[w]
          /\ SetsPid(p, s, "zero")
      BY <1>5 DEF ForkRefused, TypeOK
    <2>2. ASSUME NEW t \in Sides
          PROVE  (Alive(p, t)' <=> Alive(p, t)) /\ (Unborn(p, t)' <=> Unborn(p, t))
      BY <2>1, <1>p DEF Alive, Unborn
    <2>3. Kids(p) /\ s \in {"l", "r"}
      BY DEF KidsInv, Sides
    <2>4. ASSUME s = "l" PROVE Kids(p)'
      <3>1. pc[p] = "left" /\ pc'[p] = "right" /\ left_pid'[p] = "zero"
        BY <2>1, <2>4 DEF FromFork, ToFork, SetsPid, TypeOK
      <3>2. Unborn(p, "r")' /\ ~ Alive(p, "l")'
        BY <2>2, <2>3, <3>1 DEF Kids, Sides, Alive, Unborn
      <3> QED
        BY <3>1, <3>2 DEF Kids
    <2>5. ASSUME s = "r" PROVE Kids(p)'
      <3>1. /\ pc[p] = "right" /\ pc'[p] = "waitleft" /\ right_pid'[p] = "zero"
            /\ left_pid'[p] = left_pid[p]
        BY <2>1, <2>5 DEF FromFork, ToFork, SetsPid, TypeOK
      <3>2. /\ Alive(p, "l")' <=> left_pid'[p] = "child"
            /\ left_pid'[p] \in {"child", "zero"}
        BY <2>2, <2>3, <3>1 DEF Kids, Sides
      <3>3. ~ Alive(p, "r")'
        BY <2>2, <2>3, <3>1 DEF Kids, Sides, Alive, Unborn
      <3> QED
        BY <3>1, <3>2, <3>3 DEF Kids
    <2>6. \A w \in Process \ {p} : Kids(w)'
      <3> DEFINE changed == {}
      <3>1. \A q \in changed : FALSE
        OBVIOUS
      <3> HIDE DEF changed
      <3>2. /\ pc[p] \notin {"unborn", "reaped"}
            /\ pc'[p] \notin {"unborn", "reaped"}
        BY <2>1 DEF FromFork, ToFork
      <3>3. \A w \in Process \ {p} : left_pid'[w] = left_pid[w]
                                     /\ right_pid'[w] = right_pid[w]
        BY <2>1 DEF SetsPid, TypeOK
      <3> QED
        BY <2>1, <3>1, <3>2, <3>3, KidsOfOthers
    <2> QED
      BY <2>3, <2>4, <2>5, <2>6 DEF KidsInv
  <1>6. ASSUME NEW p \in Process, NEW s \in Sides, WaitNone(p, s)
        PROVE  KidsInv'
    <2>1. /\ pc[p] = FromWait(s) /\ pc'[p] = ToWait(s)
          /\ \A w \in Process \ {p} : pc'[w] = pc[w]
          /\ left_pid' = left_pid /\ right_pid' = right_pid
      BY <1>6 DEF WaitNone, TypeOK
    <2>2. ASSUME NEW t \in Sides PROVE Alive(p, t)' <=> Alive(p, t)
      BY <2>1, <1>p DEF Alive
    <2>3. Kids(p) /\ s \in {"l", "r"} /\ NoneToReap(p, s)
      BY <1>6 DEF KidsInv, Sides, WaitNone
    <2>4. ASSUME s = "l" PROVE Kids(p)'
      <3>1. pc[p] = "waitleft" /\ pc'[p] = "waitright" /\ Pid(p, s) = left_pid[p]
        BY <2>1, <2>4 DEF FromWait, ToWait, Pid
      <3>2. ~ Alive(p, "l")
        BY <2>3, <2>4, <3>1 DEF NoneToReap, Sides
      <3>3. left_pid[p] = "zero" /\ ~ Alive(p, "r")
        BY <2>3, <3>1, <3>2 DEF Kids, NoneToReap, Sides
      <3>4. left_pid'[p] = "zero" /\ right_pid'[p] \in {"child", "zero"}
        BY <2>1, <2>3, <3>1, <3>3 DEF Kids
      <3> QED
        BY <2>2, <3>1, <3>2, <3>3, <3>4 DEF Kids, Sides
    <2>5. ASSUME s = "r" PROVE Kids(p)'
      <3>1. pc[p] = "waitright" /\ pc'[p] = "return" /\ Pid(p, s) = right_pid[p]
        BY <2>1, <2>5 DEF FromWait, ToWait, Pid
      <3>2. ~ Alive(p, "r") /\ ~ Alive(p, "l")
        BY <2>3, <2>5, <3>1 DEF NoneToReap, Kids, Sides
      <3> QED
        BY <2>2, <3>1, <3>2 DEF Kids, Sides
    <2>6. \A w \in Process \ {p} : Kids(w)'
      <3> DEFINE changed == {}
      <3>1. \A q \in changed : FALSE
        OBVIOUS
      <3> HIDE DEF changed
      <3>2. /\ pc[p] \notin {"unborn", "reaped"}
            /\ pc'[p] \notin {"unborn", "reaped"}
        BY <2>1 DEF FromWait, ToWait
      <3> QED
        BY <2>1, <3>1, <3>2, KidsOfOthers
    <2> QED
      BY <2>3, <2>4, <2>5, <2>6 DEF KidsInv
  <1>7. ASSUME NEW p \in Process, NEW s \in Sides, NEW t \in Sides, Reap(p, s, t)
        PROVE  KidsInv'
    <2>1. /\ Kid(p, t) \in Process /\ Kid(p, t) # p
          /\ pc[p] = FromWait(s) /\ pc'[p] = ToWait(s)
          /\ pc[Kid(p, t)] = "zombie" /\ pc'[Kid(p, t)] = "reaped"
          /\ \A w \in Process \ {p, Kid(p, t)} : pc'[w] = pc[w]
          /\ left_pid' = left_pid /\ right_pid' = right_pid
      BY <1>7, ReapFacts DEF Reap
    <2>2. Alive(p, t) /\ ~ Alive(p, t)'
      BY <2>1 DEF Alive
    <2>3. ASSUME NEW u \in Sides, u # t PROVE Alive(p, u)' <=> Alive(p, u)
      BY <2>1, <2>3, <1>p, KidsDiffer DEF Alive
    <2>4. /\ Kids(p) /\ s \in {"l", "r"} /\ t \in {"l", "r"}
          /\ Pid(p, s) = "zero" \/ t = s
      BY <1>7 DEF KidsInv, Sides, Reap, CanReap
    <2>5. ASSUME s = "l" PROVE Kids(p)'
      <3>1. pc[p] = "waitleft" /\ pc'[p] = "waitright" /\ Pid(p, s) = left_pid[p]
        BY <2>1, <2>5 DEF FromWait, ToWait, Pid
      <3>2. CASE left_pid[p] = "zero"
        <4>1. t = "r" /\ ~ Alive(p, "l")
          BY <2>2, <2>4, <3>1, <3>2 DEF Kids
        <4>2. ~ Alive(p, "l")' /\ ~ Alive(p, "r")'
          BY <2>2, <2>3, <4>1 DEF Sides
        <4>3. left_pid'[p] = "zero" /\ right_pid'[p] \in {"child", "zero"}
          BY <2>1, <2>4, <3>1, <3>2 DEF Kids
        <4> QED
          BY <3>1, <4>2, <4>3 DEF Kids
      <3>3. CASE left_pid[p] # "zero"
        <4>1. t = "l" /\ left_pid[p] = "child"
          BY <2>4, <2>5, <3>1, <3>3 DEF Kids
        <4>2. ~ Alive(p, "l")' /\ (Alive(p, "r")' <=> right_pid[p] = "child")
          BY <2>2, <2>3, <2>4, <3>1, <4>1 DEF Kids, Sides
        <4>3. left_pid'[p] = "child" /\ right_pid'[p] \in {"child", "zero"}
          BY <2>1, <2>4, <3>1, <4>1 DEF Kids
        <4> QED
          BY <2>1, <3>1, <4>2, <4>3 DEF Kids
      <3> QED
        BY <3>2, <3>3
    <2>6. ASSUME s = "r" PROVE Kids(p)'
      <3>1. pc[p] = "waitright" /\ pc'[p] = "return"
        BY <2>1, <2>6 DEF FromWait, ToWait
      <3>2. t = "r" /\ ~ Alive(p, "l")
        BY <2>2, <2>4, <3>1 DEF Kids
      <3>3. ~ Alive(p, "l")' /\ ~ Alive(p, "r")'
        BY <2>2, <2>3, <3>2 DEF Sides
      <3> QED
        BY <3>1, <3>3 DEF Kids
    <2>7. \A w \in Process \ {p} : Kids(w)'
      <3> DEFINE changed == {Kid(p, t)}
      <3>1. \A q \in changed : q = Kid(p, t)
        OBVIOUS
      <3>2. \A q \in Process : q \notin changed => q # Kid(p, t)
        OBVIOUS
      <3> HIDE DEF changed
      <3>3. /\ pc[p] \notin {"unborn", "reaped"}
            /\ pc'[p] \notin {"unborn", "reaped"}
        BY <2>1 DEF FromWait, ToWait
      <3> QED
        BY <2>1, <3>1, <3>2, <3>3, KidsOfOthers
    <2> QED
      BY <2>4, <2>5, <2>6, <2>7 DEF KidsInv
  <1> QED
    BY <1>0, <1>1, <1>2, <1>3, <1>4, <1>5, <1>6, <1>7, StepCases

\* A process has an exit status from its end on.
THEOREM ForkSortStatusStep ==
    TypeOK /\ TreeInv /\ KidsInv /\ StatusInv /\ [Next]_vars => StatusInv'
  <1> SUFFICES ASSUME TypeOK, TreeInv, KidsInv, StatusInv, [Next]_vars
               PROVE  StatusInv'
    OBVIOUS
  <1>0. CASE UNCHANGED vars
    BY <1>0 DEF vars, StatusInv
  <1>1. ASSUME NEW p \in Process, SortHere(p) PROVE StatusInv'
    BY <1>1 DEF SortHere, Goto, TypeOK, StatusInv
  <1>2. ASSUME NEW p \in Process, Partition(p) PROVE StatusInv'
    BY <1>2 DEF Partition, Goto, TypeOK, StatusInv
  <1>3. ASSUME NEW p \in Process, Exit(p) PROVE StatusInv'
    <2>1. status'[p] # "none"
      BY <1>3 DEF Exit, TypeOK
    <2> QED
      BY <1>3, <2>1 DEF Exit, Goto, TypeOK, StatusInv
  <1>4. ASSUME NEW p \in Process, Dies(p) PROVE StatusInv'
    BY <1>4 DEF Dies, TypeOK, StatusInv
  <1>5. ASSUME NEW p \in Process, NEW s \in Sides, ForkChild(p, s)
        PROVE  StatusInv'
    <2>1. status' = status
      BY <1>5 DEF ForkChild
    <2> QED
      BY <1>5, <2>1, ForkFacts DEF ToFork, StatusInv
  <1>6. ASSUME NEW p \in Process, NEW s \in Sides, ForkRefused(p, s)
        PROVE  StatusInv'
    BY <1>6 DEF ForkRefused, FromFork, ToFork, TypeOK, StatusInv
  <1>7. ASSUME NEW p \in Process, NEW s \in Sides, WaitNone(p, s)
        PROVE  StatusInv'
    BY <1>7 DEF WaitNone, FromWait, ToWait, TypeOK, StatusInv
  <1>8. ASSUME NEW p \in Process, NEW s \in Sides, NEW t \in Sides, Reap(p, s, t)
        PROVE  StatusInv'
    <2>1. status' = status
      BY <1>8 DEF Reap
    <2> QED
      BY <1>8, <2>1, ReapFacts DEF ToWait, StatusInv
  <1> QED
    BY <1>0, <1>1, <1>2, <1>3, <1>4, <1>5, <1>6, <1>7, <1>8, StepCases

\* A process that is reaped stays so; an exit status is for ever.
LEMMA StatusStays ==
    ASSUME TypeOK, TreeInv, KidsInv, StatusInv, [Next]_vars, NEW q \in Process
    PROVE  /\ pc[q] = "reaped" => pc'[q] = "reaped"
           /\ status[q] # "none" => status'[q] = status[q]
           /\ Born(q) => Born(q)'
  <1>0. CASE UNCHANGED vars
    BY <1>0 DEF vars, Born
  <1>1. ASSUME NEW p \in Process, SortHere(p) \/ Partition(p)
        PROVE  pc[p] = "quicksort" /\ pc'[p] \in {"return", "left"}
               /\ (\A w \in Process \ {p} : pc'[w] = pc[w]) /\ status' = status
    BY <1>1 DEF SortHere, Partition, Goto, TypeOK
  <1>2. ASSUME NEW p \in Process, Exit(p) \/ Dies(p)
        PROVE  /\ pc[p] \notin {"unborn", "zombie", "reaped"}
               /\ pc'[p] = "zombie"
               /\ \A w \in Process \ {p} : pc'[w] = pc[w] /\ status'[w] = status[w]
    BY <1>2 DEF Exit, Dies, Running, Goto, TypeOK
  <1>3. ASSUME NEW p \in Process, NEW s \in Sides, ForkChild(p, s)
        PROVE  /\ Kid(p, s) \in Process /\ pc[Kid(p, s)] = "unborn"
               /\ pc[p] \in {"left", "right"}
               /\ pc'[p] \in {"right", "waitleft"}
               /\ pc'[Kid(p, s)] = "quicksort" /\ status' = status
               /\ \A w \in Process \ {p, Kid(p, s)} : pc'[w] = pc[w]
    <2>1. status' = status
      BY <1>3 DEF ForkChild
    <2> QED
      BY <1>3, <2>1, ForkFacts DEF ToFork
  <1>4. ASSUME NEW p \in Process, NEW s \in Sides,
               ForkRefused(p, s) \/ WaitNone(p, s)
        PROVE  /\ pc[p] \in {"left", "right", "waitleft", "waitright"}
               /\ pc'[p] \in {"right", "waitleft", "waitright", "return"}
               /\ (\A w \in Process \ {p} : pc'[w] = pc[w]) /\ status' = status
    BY <1>4 DEF ForkRefused, WaitNone, FromFork, ToFork, FromWait, ToWait, TypeOK
  <1>5. ASSUME NEW p \in Process, NEW s \in Sides, NEW t \in Sides, Reap(p, s, t)
        PROVE  /\ Kid(p, t) \in Process /\ pc[Kid(p, t)] = "zombie"
               /\ pc[p] \in {"waitleft", "waitright"}
               /\ pc'[p] \in {"waitright", "return"}
               /\ pc'[Kid(p, t)] = "reaped" /\ status' = status
               /\ \A w \in Process \ {p, Kid(p, t)} : pc'[w] = pc[w]
    <2>1. status' = status
      BY <1>5 DEF Reap
    <2> QED
      BY <1>5, <2>1, ReapFacts DEF ToWait
  <1> DEFINE Stays == /\ pc[q] = "reaped" => pc'[q] = "reaped"
                      /\ status[q] # "none" => status'[q] = status[q]
                      /\ pc[q] # "unborn" => pc'[q] # "unborn"
  <1>6. ASSUME NEW p \in Process, SortHere(p) \/ Partition(p) PROVE Stays
    BY <1>1, <1>6
  <1>7. ASSUME NEW p \in Process, Exit(p) \/ Dies(p) PROVE Stays
    BY <1>2, <1>7 DEF StatusInv
  <1>8. ASSUME NEW p \in Process, NEW s \in Sides, ForkChild(p, s) PROVE Stays
    BY <1>3, <1>8
  <1>9. ASSUME NEW p \in Process, NEW s \in Sides,
               ForkRefused(p, s) \/ WaitNone(p, s) PROVE Stays
    BY <1>4, <1>9
  <1>10. ASSUME NEW p \in Process, NEW s \in Sides, NEW t \in Sides,
                Reap(p, s, t) PROVE Stays
    BY <1>5, <1>10
  <1> QED
    BY <1>0, <1>6, <1>7, <1>8, <1>9, <1>10, StepCases DEF Born

\* Nothing fails unless a fork has failed, a process was killed or one has left
\* the array.
THEOREM ForkSortFailStep ==
    TypeOK /\ TreeInv /\ KidsInv /\ StatusInv /\ FailInv /\ [Next]_vars
        => FailInv'
  <1> DEFINE Well(w) == /\ left_pid[w] # "zero" /\ right_pid[w] # "zero"
                        /\ status[w] \in {"none", "success"}
                        /\ pc[w] = "waitright" => left_success[w]
                        /\ pc[w] = "return" => left_success[w] /\ right_success[w]
  <1> SUFFICES ASSUME TypeOK, TreeInv, KidsInv, StatusInv, FailInv,
                      [Next]_vars, ~ failed', Intact'
               PROVE  \A w \in Process : Well(w)'
    BY DEF FailInv
  <1>q. Intact
    BY StatusStays DEF Intact
  <1>0. CASE UNCHANGED vars
    BY <1>q, <1>0 DEF vars, results, FailInv
  <1>1. ASSUME NEW p \in Process, SortHere(p) PROVE \A w \in Process : Well(w)'
    BY <1>q, <1>1 DEF SortHere, Goto, TypeOK, FailInv
  <1>2. ASSUME NEW p \in Process, Partition(p) PROVE \A w \in Process : Well(w)'
    BY <1>q, <1>2 DEF Partition, Goto, TypeOK, FailInv, results
  <1>3. ASSUME NEW p \in Process, Exit(p) PROVE \A w \in Process : Well(w)'
    <2>1. ~ failed /\ left_success[p] /\ right_success[p]
      BY <1>q, <1>3 DEF Exit, Goto, FailInv
    <2>2. status'[p] = "success"
      BY <1>3, <2>1 DEF Exit, TypeOK
    <2> QED
      BY <1>q, <1>3, <2>1, <2>2 DEF Exit, Goto, TypeOK, FailInv, results
  <1>4. ASSUME NEW p \in Process, Dies(p) PROVE FALSE
    BY <1>4 DEF Dies, Intact, TypeOK
  <1>5. ASSUME NEW p \in Process, NEW s \in Sides, ForkChild(p, s)
        PROVE  \A w \in Process : Well(w)'
    <2>1. /\ SetsPid(p, s, "child") /\ failed' = failed /\ status' = status
          /\ left_success' = left_success /\ right_success' = right_success
      BY <1>5 DEF ForkChild
    <2>2. \A w \in Process : left_pid'[w] # "zero" /\ right_pid'[w] # "zero"
      BY <1>q, <2>1 DEF FailInv, SetsPid, TypeOK
    <2>3. \A w \in Process : pc'[w] \in {"waitright", "return"} => pc'[w] = pc[w]
      BY <1>5, ForkFacts DEF ToFork
    <2> QED
      BY <1>q, <2>1, <2>2, <2>3 DEF FailInv
  <1>6. ASSUME NEW p \in Process, NEW s \in Sides, ForkRefused(p, s) PROVE FALSE
    BY <1>6 DEF ForkRefused
  <1>7. ASSUME NEW p \in Process, NEW s \in Sides, WaitNone(p, s) PROVE FALSE
    <2>1. ~ failed /\ pc[p] = FromWait(s) /\ NoneToReap(p, s)
      BY <1>7 DEF WaitNone
    <2>2. left_pid[p] = "child" /\ right_pid[p] = "child"
      BY <1>q, <2>1 DEF FailInv, KidsInv, Kids, FromWait
    <2>3. Alive(p, s)
      BY <2>1, <2>2 DEF KidsInv, Kids, FromWait, Sides
    <2> QED
      BY <2>1, <2>3 DEF NoneToReap
  <1>8. ASSUME NEW p \in Process, NEW s \in Sides, NEW t \in Sides, Reap(p, s, t)
        PROVE  \A w \in Process : Well(w)'
    <2>1. /\ ~ failed /\ UNCHANGED <<left_pid, right_pid, status>>
          /\ pc[p] = FromWait(s)
          /\ SetsSuccess(p, s, status[Kid(p, t)] = "success")
      BY <1>8 DEF Reap
    <2>2. /\ Kid(p, t) \in Process /\ pc[Kid(p, t)] = "zombie"
          /\ pc'[p] = ToWait(s) /\ pc'[Kid(p, t)] = "reaped"
          /\ \A w \in Process \ {p, Kid(p, t)} : pc'[w] = pc[w]
      BY <1>8, ReapFacts
    <2>3. status[Kid(p, t)] = "success"
      BY <1>q, <2>1, <2>2 DEF StatusInv, FailInv
    <2>4. SetsSuccess(p, s, TRUE)
      BY <2>1, <2>3, Zenon
    <2>5. pc[p] = "waitright" => left_success[p]
      BY <1>q, <2>1 DEF FailInv
    <2>6. /\ pc'[p] = "waitright" => left_success'[p]
          /\ pc'[p] = "return" => left_success'[p] /\ right_success'[p]
      BY <2>1, <2>2, <2>4, <2>5 DEF SetsSuccess, FromWait, ToWait, TypeOK
    <2>7. \A w \in Process \ {p} : /\ left_success'[w] = left_success[w]
                                   /\ right_success'[w] = right_success[w]
      BY <2>4 DEF SetsSuccess, TypeOK
    <2>8. \A w \in Process \ {p} :
            /\ pc'[w] = "waitright" => left_success'[w]
            /\ pc'[w] = "return" => left_success'[w] /\ right_success'[w]
      BY <1>q, <2>1, <2>2, <2>7 DEF FailInv
    <2> QED
      BY <1>q, <2>1, <2>6, <2>8 DEF FailInv
  <1> QED
    BY <1>0, <1>1, <1>2, <1>3, <1>4, <1>5, <1>6, <1>7, <1>8, StepCases

\* A step that lets nobody else report success and starts nobody.
LEMMA DoneQuiet ==
    ASSUME TypeOK, TreeInv, KidsInv, StatusInv, DoneInv, [Next]_vars,
           \A w \in Process : Done(w)' => Done(w),
           \A w \in Process : Born(w)' => Born(w)
    PROVE  DoneInv'
  <1> SUFFICES ASSUME NEW w \in Process, NEW q \in Process, Above(w, q),
                      Done(w)', Born(q)'
               PROVE  pc'[q] = "reaped" /\ status'[q] = "success"
    BY DEF DoneInv
  <1>1. pc[q] = "reaped" /\ status[q] = "success"
    BY DEF DoneInv
  <1> QED
    BY <1>1, StatusStays

\* What lies below a process that reports success has succeeded and is gone.
THEOREM ForkSortDoneStep ==
    /\ TypeOK /\ TreeInv /\ KidsInv /\ StatusInv /\ DoneInv /\ LeftInv
    /\ [Next]_vars
    => DoneInv'
  <1> SUFFICES ASSUME TypeOK, TreeInv, KidsInv, StatusInv, DoneInv, LeftInv,
                      [Next]_vars
               PROVE  DoneInv'
    OBVIOUS
  <1>0. CASE UNCHANGED vars
    BY <1>0, DoneQuiet DEF vars, results, Done, Born
  <1>1. ASSUME NEW p \in Process, SortHere(p) PROVE DoneInv'
    <2> SUFFICES ASSUME NEW w \in Process, NEW q \in Process, Above(w, q),
                        Done(w)', Born(q)'
                 PROVE  pc'[q] = "reaped" /\ status'[q] = "success"
      BY DEF DoneInv
    <2>1. /\ pc[p] = "quicksort" /\ pc'[p] = "return" /\ status' = status
          /\ \A v \in Process \ {p} :
                /\ pc'[v] = pc[v] /\ left_success'[v] = left_success[v]
                /\ right_success'[v] = right_success[v]
      BY <1>1 DEF SortHere, Goto, TypeOK
    <2>2. Born(q)
      BY <2>1 DEF Born
    <2>3. w # p
      BY <2>1, <2>2, NoKidsYet DEF Born
    <2>4. Done(w)
      BY <2>1, <2>3 DEF Done
    <2>5. pc[q] = "reaped" /\ status[q] = "success"
      BY <2>2, <2>4 DEF DoneInv
    <2> QED
      BY <2>5, StatusStays
  <1>2. ASSUME NEW p \in Process, Partition(p) PROVE DoneInv'
    <2>1. /\ pc[p] = "quicksort" /\ pc'[p] = "left" /\ status' = status
          /\ left_success' = left_success /\ right_success' = right_success
          /\ \A v \in Process \ {p} : pc'[v] = pc[v]
      BY <1>2 DEF Partition, Goto, TypeOK, results
    <2> QED
      BY <2>1, DoneQuiet DEF Done, Born
  <1>3. ASSUME NEW p \in Process, Exit(p) PROVE DoneInv'
    <2>1. /\ pc[p] = "return" /\ pc'[p] = "zombie"
          /\ status'[p] = "success" => left_success[p] /\ right_success[p]
          /\ left_success' = left_success /\ right_success' = right_success
          /\ \A v \in Process \ {p} : pc'[v] = pc[v] /\ status'[v] = status[v]
      BY <1>3 DEF Exit, Goto, TypeOK, results
    <2> QED
      BY <2>1, DoneQuiet DEF Done, Born
  <1>4. ASSUME NEW p \in Process, Dies(p) PROVE DoneInv'
    <2>1. /\ pc[p] # "unborn" /\ pc'[p] = "zombie" /\ status'[p] # "success"
          /\ left_success' = left_success /\ right_success' = right_success
          /\ \A v \in Process \ {p} : pc'[v] = pc[v] /\ status'[v] = status[v]
      BY <1>4 DEF Dies, Running, TypeOK, results
    <2> QED
      BY <2>1, DoneQuiet DEF Done, Born
  <1>5. ASSUME NEW p \in Process, NEW s \in Sides, ForkChild(p, s)
        PROVE  DoneInv'
    <2> SUFFICES ASSUME NEW w \in Process, NEW q \in Process, Above(w, q),
                        Done(w)', Born(q)'
                 PROVE  pc'[q] = "reaped" /\ status'[q] = "success"
      BY DEF DoneInv
    <2>1. /\ status' = status
          /\ left_success' = left_success /\ right_success' = right_success
      BY <1>5 DEF ForkChild
    <2>2. /\ Kid(p, s) \in Process /\ pc[p] \in {"left", "right"}
          /\ pc'[p] # "return" /\ pc'[Kid(p, s)] = "quicksort"
          /\ \A v \in Process \ {p, Kid(p, s)} : pc'[v] = pc[v]
      BY <1>5, ForkFacts DEF ToFork
    <2>3. Done(w)
      BY <2>1, <2>2 DEF Done
    <2>4. ~ Done(p) /\ Born(p) /\ pc[p] # "reaped"
      BY <2>2 DEF Done, StatusInv, Born
    <2>5. q # Kid(p, s)
      <3>1. Above(w, Kid(p, s)) <=> w = p \/ Above(w, p)
        BY <2>2, AboveKid
      <3>2. ~ Above(w, p)
        BY <2>3, <2>4 DEF DoneInv
      <3> QED
        BY <2>3, <2>4, <3>1, <3>2
    <2>6. Born(q)
      BY <2>2, <2>4, <2>5 DEF Born
    <2>7. pc[q] = "reaped" /\ status[q] = "success"
      BY <2>3, <2>6 DEF DoneInv
    <2> QED
      BY <2>7, StatusStays
  <1>6. ASSUME NEW p \in Process, NEW s \in Sides, ForkRefused(p, s)
        PROVE  DoneInv'
    <2>1. /\ status' = status /\ pc'[p] # "return" /\ pc[p] # "unborn"
          /\ left_success' = left_success /\ right_success' = right_success
          /\ \A v \in Process \ {p} : pc'[v] = pc[v]
      BY <1>6 DEF ForkRefused, FromFork, ToFork, TypeOK
    <2> QED
      BY <2>1, DoneQuiet DEF Done, Born
  <1>7. ASSUME NEW p \in Process, NEW s \in Sides, WaitNone(p, s)
        PROVE  DoneInv'
    <2>1. /\ status' = status /\ pc[p] # "unborn"
          /\ pc'[p] = "return" => ~ right_success'[p]
          /\ \A v \in Process \ {p} :
                /\ pc'[v] = pc[v] /\ left_success'[v] = left_success[v]
                /\ right_success'[v] = right_success[v]
      BY <1>7 DEF WaitNone, SetsSuccess, FromWait, ToWait, TypeOK
    <2> QED
      BY <2>1, DoneQuiet DEF Done, Born
  <1>8. ASSUME NEW p \in Process, NEW s \in Sides, NEW t \in Sides, Reap(p, s, t)
        PROVE  DoneInv'
    <2> DEFINE k == Kid(p, t)
    <2> SUFFICES ASSUME NEW w \in Process, NEW q \in Process, Above(w, q),
                        Done(w)', Born(q)'
                 PROVE  pc'[q] = "reaped" /\ status'[q] = "success"
      BY DEF DoneInv
    <2>0. PICK ok \in BOOLEAN : ok = (status[k] = "success")
      OBVIOUS
    <2>1. /\ status' = status /\ pc[p] = FromWait(s)
          /\ SetsSuccess(p, s, ok)
      BY <1>8, <2>0 DEF Reap
    <2>2. /\ k \in Process /\ pc[k] = "zombie"
          /\ pc'[p] = ToWait(s) /\ pc'[k] = "reaped"
          /\ \A v \in Process \ {p, k} : pc'[v] = pc[v]
      BY <1>8, ReapFacts
    <2>3. \A v \in Process \ {p} : /\ left_success'[v] = left_success[v]
                                   /\ right_success'[v] = right_success[v]
      BY <2>1 DEF SetsSuccess, TypeOK
    <2>4. Born(q)
      BY <2>1, <2>2 DEF Born, FromWait
    <2>5. CASE Done(w)
      <3>1. pc[q] = "reaped" /\ status[q] = "success"
        BY <2>4, <2>5 DEF DoneInv
      <3> QED
        BY <3>1, StatusStays
    <2>6. CASE ~ Done(w)
      <3>0. pc'[w] = "return" /\ left_success'[w] /\ right_success'[w]
        BY <2>1, <2>6 DEF Done
      <3>1. w = p /\ s = "r" /\ pc'[p] = "return"
        <4>1. w # k
          BY <2>2, <3>0
        <4>2. w = p
          BY <2>2, <2>3, <2>6, <3>0, <4>1 DEF Done
        <4> QED
          BY <2>2, <3>0, <4>2 DEF ToWait, Sides
      <3>2. pc[p] = "waitright" /\ left_success[p] /\ ok
        BY <2>1, <3>0, <3>1 DEF SetsSuccess, FromWait, TypeOK
      <3>3. t = "r" /\ left_pid[p] = "child"
        <4>1. Alive(p, t)
          BY <2>2 DEF Alive
        <4> QED
          BY <3>2, <4>1 DEF KidsInv, Kids, Sides
      <3>4. /\ Kid(p, "l") \in Process
            /\ pc[Kid(p, "l")] = "reaped" /\ status[Kid(p, "l")] = "success"
        BY <3>2, <3>3 DEF LeftInv
      <3>5. status[Kid(p, "r")] = "success" /\ Kid(p, "r") \in Process
        BY <2>0, <2>2, <3>2, <3>3
      <3>6. /\ Side(p, q) \in {"l", "r"}
            /\ q = Kid(p, Side(p, q)) \/ Above(Kid(p, Side(p, q)), q)
        BY <3>1, BelowKid DEF Sides
      <3>7. CASE q = k
        BY <2>1, <2>2, <3>3, <3>5, <3>7
      <3>8. CASE q = Kid(p, "l")
        BY <3>4, <3>8, StatusStays
      <3>9. CASE Above(Kid(p, "l"), q) \/ Above(Kid(p, "r"), q)
        <4>1. Done(Kid(p, "l")) /\ Done(Kid(p, "r"))
          BY <3>4, <3>5 DEF Done
        <4>2. pc[q] = "reaped" /\ status[q] = "success"
          BY <2>4, <3>4, <3>5, <3>9, <4>1 DEF DoneInv
        <4> QED
          BY <4>2, StatusStays
      <3> QED
        BY <3>3, <3>6, <3>7, <3>8, <3>9
    <2> QED
      BY <2>5, <2>6
  <1> QED
    BY <1>0, <1>1, <1>2, <1>3, <1>4, <1>5, <1>6, <1>7, <1>8, StepCases

\* A left part that was waited for with success has been reaped.
THEOREM ForkSortLeftStep ==
    /\ TypeOK /\ TreeInv /\ KidsInv /\ StatusInv /\ LeftInv /\ [Next]_vars
    => LeftInv'
  <1> SUFFICES ASSUME TypeOK, TreeInv, KidsInv, StatusInv, LeftInv,
                      [Next]_vars
               PROVE  LeftInv'
    OBVIOUS
  <1> DEFINE Waits(w) == pc[w] = "waitright" /\ left_success[w]
                         /\ left_pid[w] = "child"
             Gone(w) == /\ Kid(w, "l") \in Process
                        /\ pc[Kid(w, "l")] = "reaped"
                        /\ status[Kid(w, "l")] = "success"
  <1>q. \A w \in Process : Waits(w) => Gone(w)'
    BY StatusStays DEF LeftInv
  <1>0. CASE UNCHANGED vars
    <2>1. \A w \in Process : Waits(w)' => Waits(w)
      BY <1>0 DEF vars, results
    <2> QED
      BY <1>q, <2>1 DEF LeftInv
  <1>1. ASSUME NEW p \in Process, SortHere(p) PROVE LeftInv'
    <2>1. \A w \in Process : Waits(w)' => Waits(w)
      BY <1>1 DEF SortHere, Goto, TypeOK
    <2> QED
      BY <1>q, <2>1 DEF LeftInv
  <1>2. ASSUME NEW p \in Process, Partition(p) PROVE LeftInv'
    <2>1. \A w \in Process : Waits(w)' => Waits(w)
      BY <1>2 DEF Partition, Goto, TypeOK, results
    <2> QED
      BY <1>q, <2>1 DEF LeftInv
  <1>3. ASSUME NEW p \in Process, Exit(p) \/ Dies(p) PROVE LeftInv'
    <2>1. \A w \in Process : Waits(w)' => Waits(w)
      BY <1>3 DEF Exit, Dies, Goto, TypeOK, results
    <2> QED
      BY <1>q, <2>1 DEF LeftInv
  <1>4. ASSUME NEW p \in Process, NEW s \in Sides, ForkChild(p, s)
        PROVE  LeftInv'
    <2>1. /\ SetsPid(p, s, "child") /\ left_success' = left_success
          /\ pc[p] = FromFork(s)
      BY <1>4 DEF ForkChild
    <2>2. /\ pc'[p] # "waitright" /\ pc'[Kid(p, s)] # "waitright"
          /\ \A w \in Process \ {p, Kid(p, s)} : pc'[w] = pc[w]
      BY <1>4, ForkFacts DEF ToFork
    <2>3. \A w \in Process \ {p} : left_pid'[w] = left_pid[w]
      BY <2>1 DEF SetsPid, TypeOK
    <2>4. \A w \in Process : Waits(w)' => Waits(w)
      BY <2>1, <2>2, <2>3
    <2> QED
      BY <1>q, <2>4 DEF LeftInv
  <1>5. ASSUME NEW p \in Process, NEW s \in Sides, ForkRefused(p, s)
        PROVE  LeftInv'
    <2>1. \A w \in Process : Waits(w)' => Waits(w)
      BY <1>5 DEF ForkRefused, ToFork, SetsPid, TypeOK
    <2> QED
      BY <1>q, <2>1 DEF LeftInv
  <1>6. ASSUME NEW p \in Process, NEW s \in Sides, WaitNone(p, s)
        PROVE  LeftInv'
    <2>1. \A w \in Process : Waits(w)' => Waits(w)
      BY <1>6 DEF WaitNone, FromWait, ToWait, SetsSuccess, TypeOK
    <2> QED
      BY <1>q, <2>1 DEF LeftInv
  <1>7. ASSUME NEW p \in Process, NEW s \in Sides, NEW t \in Sides, Reap(p, s, t)
        PROVE  LeftInv'
    <2> DEFINE k == Kid(p, t)
    <2>0. PICK ok \in BOOLEAN : ok = (status[k] = "success")
      OBVIOUS
    <2>1. /\ status' = status /\ pc[p] = FromWait(s) /\ left_pid' = left_pid
          /\ SetsSuccess(p, s, ok)
          /\ Pid(p, s) = "zero" \/ t = s
      BY <1>7, <2>0 DEF Reap, CanReap
    <2>2. /\ k \in Process /\ pc'[p] = ToWait(s) /\ pc'[k] = "reaped"
          /\ \A v \in Process \ {p, k} : pc'[v] = pc[v]
      BY <1>7, ReapFacts
    <2>3. \A w \in Process \ {p} : Waits(w)' => Waits(w)
      <3>1. \A w \in Process \ {p} : left_success'[w] = left_success[w]
        BY <2>1 DEF SetsSuccess, TypeOK
      <3>2. \A w \in Process \ {p} : pc'[w] = "waitright" => pc[w] = "waitright"
        BY <2>2
      <3> QED
        BY <2>1, <3>1, <3>2
    <2>4. ASSUME Waits(p)' PROVE Gone(p)'
      <3>0. s = "l"
        BY <2>2, <2>4 DEF ToWait, Sides
      <3>3. left_success'[p] = ok
        BY <2>1, <3>0 DEF SetsSuccess, TypeOK
      <3>1. left_pid[p] = "child" /\ ok
        BY <2>1, <2>4, <3>3
      <3>2. t = "l"
        BY <2>1, <3>0, <3>1 DEF Pid
      <3> QED
        BY <2>0, <2>1, <2>2, <3>1, <3>2
    <2> QED
      BY <1>q, <2>3, <2>4 DEF LeftInv
  <1> QED
    BY <1>0, <1>1, <1>2, <1>3, <1>4, <1>5, <1>6, <1>7, StepCases

-----------------------------------------------------------------------------
(* What is written where                                                   *)

\* qsort and partition leave the elements of the region in it.
LEMMA ReordersValues ==
    ASSUME TypeOK, NEW p \in Process, NEW new \in [Index -> Value],
           Reorders(new, p), NEW i \in Region(p)
    PROVE  \E j \in Region(p) : new[i] = arr[j]
  <1> SUFFICES ASSUME \A j \in Region(p) : arr[j] # new[i] PROVE FALSE
    OBVIOUS
  <1> DEFINE S == {k \in Region(p) : new[k] = new[i]}
             T == {k \in Region(p) : arr[k] = new[i]}
  <1>1. Region(p) \subseteq Index /\ start[p] \in Int /\ end[p] - 1 \in Int
    BY ForkSortAssumption DEF TypeOK, Region, Index
  <1>2. IsFiniteSet(S)
    BY <1>1, FS_Interval, FS_Subset DEF Region
  <1>3. Cardinality(S) = Cardinality(T)
    BY <1>1 DEF Reorders
  <1>4. T = {}
    OBVIOUS
  <1>5. Cardinality(S) = 0
    BY <1>3, <1>4, FS_EmptySet
  <1>6. S = {}
    BY <1>2, <1>5, FS_EmptySet
  <1> QED
    BY <1>6

\* The file holds each value as often as before.
LEMMA ReordersCount ==
    ASSUME TypeOK, NEW p \in Process, NEW new \in [Index -> Value],
           Reorders(new, p), NEW v \in Value
    PROVE  Cardinality({i \in Index : new[i] = v})
           = Cardinality({i \in Index : arr[i] = v})
  <1> DEFINE In(a) == {i \in Region(p) : a[i] = v}
             Out(a) == {i \in Index \ Region(p) : a[i] = v}
             All(a) == {i \in Index : a[i] = v}
  <1>1. Region(p) \subseteq Index /\ start[p] \in Int /\ end[p] - 1 \in Int
    BY ForkSortAssumption DEF TypeOK, Region, Index
  <1>2. IsFiniteSet(Index)
    BY FS_Interval, ForkSortAssumption DEF Index
  <1>3. ASSUME NEW a \in [Index -> Value]
        PROVE  Cardinality(All(a)) = Cardinality(In(a)) + Cardinality(Out(a))
    <2>1. IsFiniteSet(In(a)) /\ IsFiniteSet(Out(a))
      BY <1>1, <1>2, FS_Subset
    <2>2. All(a) = In(a) \cup Out(a) /\ In(a) \cap Out(a) = {}
      BY <1>1
    <2>3. Cardinality(In(a)) \in Nat /\ Cardinality(Out(a)) \in Nat
      BY <2>1, FS_CardinalityType
    <2> HIDE DEF In, Out, All
    <2>4. Cardinality(In(a) \cup Out(a))
          = Cardinality(In(a)) + Cardinality(Out(a)) - Cardinality({})
      BY <2>1, <2>2, FS_Union
    <2> QED
      BY <2>2, <2>3, <2>4, FS_EmptySet
  <1>4. Out(new) = Out(arr)
    BY DEF Reorders
  <1>5. Cardinality(In(new)) = Cardinality(In(arr))
    BY DEF Reorders
  <1>6. arr \in [Index -> Value]
    BY DEF TypeOK
  <1> QED
    BY <1>3, <1>4, <1>5, <1>6

\* A process in quicksort writes to its region; if it does not leave the same
\* elements there, it has been killed.
Writes(p) ==
    /\ pc[p] = "quicksort"
    /\ \A i \in Index \ Region(p) : arr'[i] = arr[i]
    /\ Reorders(arr', p) \/ status'[p] = "signal"

\* No step but these writes to the file, as long as no process leaves the array.
LEMMA WriteCases ==
    ASSUME TypeOK, [Next]_vars, Intact'
    PROVE  arr' = arr \/ \E p \in Process : Writes(p)
  <1>1. ASSUME NEW p \in Process, SortHere(p) \/ Partition(p) PROVE Writes(p)
    BY <1>1 DEF SortHere, Partition, Goto, Reorders, Writes
  <1>2. ASSUME NEW p \in Process, Dies(p) PROVE arr' = arr \/ Writes(p)
    <2>1. status' # [status EXCEPT ![p] = "segfault"]
      BY DEF Intact, TypeOK
    <2> QED
      BY <1>2, <2>1 DEF Dies, Writes, TypeOK
  <1>3. ASSUME NEW p \in Process, Exit(p) PROVE arr' = arr
    BY <1>3 DEF Exit
  <1>4. ASSUME NEW p \in Process, NEW s \in Sides,
               \/ ForkChild(p, s) \/ ForkRefused(p, s) \/ WaitNone(p, s)
               \/ \E t \in Sides : Reap(p, s, t)
        PROVE  arr' = arr
    BY <1>4 DEF ForkChild, ForkRefused, WaitNone, Reap
  <1>5. CASE UNCHANGED vars
    BY <1>5 DEF vars
  <1> QED
    BY <1>1, <1>2, <1>3, <1>4, <1>5, StepCases

\* The region of a process does not change, nor do its parts once made; they
\* are made by partition.
LEMMA RegionsStay ==
    ASSUME TypeOK, TreeInv, KidsInv, [Next]_vars, NEW w \in Process
    PROVE  /\ Born(w) => start'[w] = start[w] /\ end'[w] = end[w]
           /\ pc[w] # "quicksort" => mid'[w] = mid[w]
           /\ Forking(w)' => Forking(w) \/ Partition(w)
  <1> DEFINE Stay == /\ Born(w) => start'[w] = start[w] /\ end'[w] = end[w]
                     /\ pc[w] # "quicksort" => mid'[w] = mid[w]
                     /\ Forking(w)' => Forking(w) \/ Partition(w)
  <1>0. CASE UNCHANGED vars
    BY <1>0 DEF vars, region, Forking
  <1>1. ASSUME NEW p \in Process, SortHere(p) PROVE Stay
    BY <1>1 DEF SortHere, Goto, region, Forking, TypeOK
  <1>2. ASSUME NEW p \in Process, Partition(p) PROVE Stay
    <2>1. /\ start' = start /\ end' = end /\ pc[p] = "quicksort"
          /\ \A v \in Process \ {p} : pc'[v] = pc[v] /\ mid'[v] = mid[v]
      BY <1>2 DEF Partition, Goto, TypeOK
    <2> QED
      BY <1>2, <2>1 DEF Forking
  <1>3. ASSUME NEW p \in Process, Exit(p) \/ Dies(p) PROVE Stay
    BY <1>3 DEF Exit, Dies, Goto, region, Forking, TypeOK
  <1>4. ASSUME NEW p \in Process, NEW s \in Sides, ForkChild(p, s) PROVE Stay
    BY <1>4, ForkFacts DEF Born, Forking
  <1>5. ASSUME NEW p \in Process, NEW s \in Sides,
               ForkRefused(p, s) \/ WaitNone(p, s)
        PROVE  Stay
    BY <1>5 DEF ForkRefused, WaitNone, FromFork, FromWait, region, Forking, TypeOK
  <1>6. ASSUME NEW p \in Process, NEW s \in Sides, NEW t \in Sides, Reap(p, s, t)
        PROVE  Stay
    <2>1. UNCHANGED region
      BY <1>6 DEF Reap
    <2> QED
      BY <1>6, <2>1, ReapFacts DEF region, Forking
  <1> QED
    BY <1>0, <1>1, <1>2, <1>3, <1>4, <1>5, <1>6, StepCases

\* A child's region is the part of its parent's that it was started for.
THEOREM ForkSortPartsOfKidsStep ==
    TypeOK /\ TreeInv /\ KidsInv /\ PartsOfKidsInv /\ [Next]_vars
        => PartsOfKidsInv'
  <1> SUFFICES ASSUME TypeOK, TreeInv, KidsInv, PartsOfKidsInv, [Next]_vars,
                      NEW p \in Process, NEW s \in Sides,
                      Kid(p, s) \in Process, Born(Kid(p, s))'
               PROVE  /\ start'[Kid(p, s)] =
                            IF s = "l" THEN start'[p] ELSE mid'[p] + 1
                      /\ end'[Kid(p, s)] = IF s = "l" THEN mid'[p] ELSE end'[p]
    BY DEF PartsOfKidsInv
  <1>1. CASE Born(Kid(p, s))
    <2>1. Above(p, Kid(p, s))
      BY AboveKid
    <2>2. Born(p) /\ pc[p] # "quicksort"
      BY <1>1, <2>1 DEF TreeInv, BelowInv
    <2> QED
      BY <1>1, <2>2, RegionsStay DEF PartsOfKidsInv
  <1>2. CASE ~ Born(Kid(p, s))
    <2>1. PICK q \in Process, t \in Sides : ForkChild(q, t) /\ Kid(p, s) = Kid(q, t)
      <3>1. ASSUME NEW q \in Process,
                   SortHere(q) \/ Partition(q) \/ Exit(q) \/ Dies(q)
            PROVE  FALSE
        BY <1>2, <3>1
           DEF SortHere, Partition, Exit, Dies, Running, Goto, Born, TypeOK
      <3>2. ASSUME NEW q \in Process, NEW t \in Sides,
                   ForkRefused(q, t) \/ WaitNone(q, t)
            PROVE  FALSE
        BY <1>2, <3>2 DEF ForkRefused, WaitNone, FromFork, FromWait, Born, TypeOK
      <3>3. ASSUME NEW q \in Process, NEW t \in Sides, NEW u \in Sides,
                   Reap(q, t, u)
            PROVE  FALSE
        BY <1>2, <3>3, ReapFacts DEF Born
      <3>4. ASSUME NEW q \in Process, NEW t \in Sides, ForkChild(q, t)
            PROVE  Kid(p, s) = Kid(q, t)
        BY <1>2, <3>4, ForkFacts DEF Born
      <3>5. ~ UNCHANGED vars
        BY <1>2 DEF vars, Born
      <3> QED
        BY <3>1, <3>2, <3>3, <3>4, <3>5, StepCases
    <2>2. p = q /\ s = t
      BY <2>1, KidsDiffer
    <2> QED
      BY <2>1, <2>2, ForkFacts
  <1> QED
    BY <1>1, <1>2

\* Who is about to report success does not see its region change.
LEMMA DoneUntouched ==
    ASSUME TypeOK, TreeInv, KidsInv, StatusInv, DoneInv, [Next]_vars, Intact',
           NEW w \in Process, Done(w)
    PROVE  /\ start'[w] = start[w] /\ end'[w] = end[w]
           /\ \A i \in Region(w) : arr'[i] = arr[i]
  <1>1. Born(w) /\ pc[w] # "quicksort"
    BY DEF Done, StatusInv, Born
  <1>2. start'[w] = start[w] /\ end'[w] = end[w]
    BY <1>1, RegionsStay
  <1>3. ASSUME NEW p \in Process, Writes(p)
        PROVE  \A i \in Region(w) : arr'[i] = arr[i]
    <2>1. p # w /\ Born(p) /\ pc[p] # "reaped"
      BY <1>1, <1>3 DEF Writes, Born
    <2>2. ~ Above(w, p)
      BY <2>1 DEF DoneInv
    <2>3. ~ Above(p, w)
      BY <1>1, <1>3 DEF TreeInv, BelowInv, Writes
    <2>4. end[p] <= start[w] \/ end[w] <= start[p]
      BY <1>1, <2>1, <2>2, <2>3 DEF TreeInv, ApartInv, Apart
    <2>5. /\ start[p] \in Int /\ end[p] \in Int
          /\ start[w] \in 0..N /\ end[w] \in 0..N
      BY ForkSortAssumption DEF TypeOK
    <2>6. Region(w) \subseteq Index \ Region(p)
      BY <2>4, <2>5, ForkSortAssumption DEF Region, Index
    <2> QED
      BY <1>3, <2>6 DEF Writes
  <1>4. CASE arr' = arr
    BY <1>2, <1>4
  <1> QED
    BY <1>2, <1>3, <1>4, WriteCases

\* A process comes to report success by sorting its region itself, or by
\* reaping its right part after both parts have succeeded.
LEMMA NewlyDone ==
    ASSUME TypeOK, TreeInv, KidsInv, StatusInv, DoneInv, LeftInv, [Next]_vars,
           NEW w \in Process, Done(w)', ~ Done(w)
    PROVE  \/ SortHere(w)
           \/ /\ pc[w] = "waitright" /\ UNCHANGED <<arr, region, status>>
              /\ left_pid'[w] = "child" /\ right_pid'[w] = "child"
              /\ \A s \in Sides : /\ Kid(w, s) \in Process /\ Born(Kid(w, s))
                                  /\ status[Kid(w, s)] = "success"
  <1> DEFINE Both == \A s \in Sides : /\ Kid(w, s) \in Process /\ Born(Kid(w, s))
                                      /\ status[Kid(w, s)] = "success"
             Goal == \/ SortHere(w)
                     \/ /\ pc[w] = "waitright"
                        /\ left_pid'[w] = "child" /\ right_pid'[w] = "child"
                        /\ UNCHANGED <<arr, region, status>> /\ Both
  <1>0. CASE UNCHANGED vars
    BY <1>0 DEF vars, results, Done
  <1>1. ASSUME NEW p \in Process, SortHere(p) PROVE Goal
    <2>1. CASE p = w
      BY <1>1, <2>1
    <2>2. CASE p # w
      <3>1. Done(w)
        BY <1>1, <2>2 DEF SortHere, Goto, TypeOK, Done
      <3> QED
        BY <3>1
    <2> QED
      BY <2>1, <2>2
  <1>2. ASSUME NEW p \in Process, Partition(p) PROVE FALSE
    BY <1>2 DEF Partition, Goto, TypeOK, results, Done
  <1>3. ASSUME NEW p \in Process, Exit(p) PROVE FALSE
    <2>1. /\ pc[p] = "return" /\ pc'[p] = "zombie"
          /\ status'[p] = "success" => left_success[p] /\ right_success[p]
          /\ left_success' = left_success /\ right_success' = right_success
          /\ \A v \in Process \ {p} : pc'[v] = pc[v] /\ status'[v] = status[v]
      BY <1>3 DEF Exit, Goto, TypeOK, results
    <2> QED
      BY <2>1 DEF Done
  <1>4. ASSUME NEW p \in Process, Dies(p) PROVE FALSE
    BY <1>4 DEF Dies, TypeOK, results, Done
  <1>5. ASSUME NEW p \in Process, NEW s \in Sides, ForkChild(p, s) PROVE FALSE
    <2>1. /\ status' = status
          /\ left_success' = left_success /\ right_success' = right_success
      BY <1>5 DEF ForkChild
    <2> QED
      BY <1>5, <2>1, ForkFacts DEF ToFork, Done
  <1>6. ASSUME NEW p \in Process, NEW s \in Sides, ForkRefused(p, s) PROVE FALSE
    BY <1>6 DEF ForkRefused, ToFork, TypeOK, Done
  <1>7. ASSUME NEW p \in Process, NEW s \in Sides, WaitNone(p, s) PROVE FALSE
    <2>1. /\ status' = status
          /\ pc'[p] = "return" => ~ right_success'[p]
          /\ pc'[p] \in {"waitright", "return"}
          /\ \A v \in Process \ {p} :
                /\ pc'[v] = pc[v] /\ left_success'[v] = left_success[v]
                /\ right_success'[v] = right_success[v]
      BY <1>7 DEF WaitNone, SetsSuccess, ToWait, TypeOK
    <2> QED
      BY <2>1 DEF Done
  <1>8. ASSUME NEW p \in Process, NEW s \in Sides, NEW t \in Sides, Reap(p, s, t)
        PROVE  Goal
    <2> DEFINE k == Kid(p, t)
    <2>0. PICK ok \in BOOLEAN : ok = (status[k] = "success")
      OBVIOUS
    <2>1. /\ UNCHANGED <<arr, region, status, left_pid, right_pid>>
          /\ pc[p] = FromWait(s)
          /\ SetsSuccess(p, s, ok)
      BY <1>8, <2>0 DEF Reap
    <2>2. /\ k \in Process /\ pc[k] = "zombie"
          /\ pc'[p] = ToWait(s) /\ pc'[k] = "reaped"
          /\ \A v \in Process \ {p, k} : pc'[v] = pc[v]
      BY <1>8, ReapFacts
    <2>3. \A v \in Process \ {p} : /\ left_success'[v] = left_success[v]
                                   /\ right_success'[v] = right_success[v]
      BY <2>1 DEF SetsSuccess, TypeOK
    <2>4. pc'[w] = "return" /\ left_success'[w] /\ right_success'[w]
      BY <2>1 DEF Done
    <2>5. w = p /\ s = "r"
      <3>1. w # k
        BY <2>2, <2>4
      <3>2. w = p
        BY <2>2, <2>3, <2>4, <3>1 DEF Done
      <3> QED
        BY <2>2, <2>4, <3>2 DEF ToWait, Sides
    <2>6. pc[p] = "waitright" /\ left_success[p] /\ ok
      BY <2>1, <2>4, <2>5 DEF SetsSuccess, FromWait, TypeOK
    <2>7. t = "r" /\ left_pid[p] = "child" /\ right_pid[p] = "child"
      <3>1. Alive(p, t)
        BY <2>2 DEF Alive
      <3> QED
        BY <2>6, <3>1 DEF KidsInv, Kids, Sides
    <2>8. /\ Kid(p, "l") \in Process
          /\ pc[Kid(p, "l")] = "reaped" /\ status[Kid(p, "l")] = "success"
      BY <2>6, <2>7 DEF LeftInv
    <2>9. Both
      BY <2>0, <2>2, <2>5, <2>6, <2>7, <2>8 DEF Born, Sides
    <2> QED
      BY <2>1, <2>5, <2>6, <2>7, <2>9
  <1> QED
    BY <1>0, <1>1, <1>2, <1>3, <1>4, <1>5, <1>6, <1>7, <1>8, StepCases

\* Whoever is about to report success has its region sorted.
THEOREM ForkSortSortedStep ==
    /\ TypeOK /\ TreeInv /\ KidsInv /\ StatusInv /\ DoneInv /\ LeftInv
    /\ PartsOfKidsInv /\ SortedInv /\ PartsInv /\ [Next]_vars
    => SortedInv'
  <1> SUFFICES ASSUME TypeOK, TreeInv, KidsInv, StatusInv, DoneInv, LeftInv,
                      PartsOfKidsInv, SortedInv, PartsInv, [Next]_vars, Intact',
                      NEW w \in Process, Done(w)'
               PROVE  Sorted(arr', start'[w], end'[w])
    BY DEF SortedInv
  <1>q. Intact
    BY StatusStays DEF Intact
  <1>t. /\ start[w] \in 0..N /\ end[w] \in 0..N /\ mid[w] \in 0..N
        /\ \A i \in Index : arr[i] \in Int
    BY ForkSortAssumption DEF TypeOK
  <1>1. CASE Done(w)
    <2>1. Sorted(arr, start[w], end[w])
      BY <1>1, <1>q DEF SortedInv
    <2>2. /\ start'[w] = start[w] /\ end'[w] = end[w]
          /\ \A i \in Region(w) : arr'[i] = arr[i]
      BY <1>1, DoneUntouched
    <2> QED
      BY <1>t, <2>1, <2>2, ForkSortAssumption DEF Sorted, Region
  <1>2. CASE SortHere(w)
    BY <1>2 DEF SortHere, region
  <1>3. ASSUME pc[w] = "waitright", UNCHANGED <<arr, region, status>>,
               \A s \in Sides : /\ Kid(w, s) \in Process /\ Born(Kid(w, s))
                                /\ status[Kid(w, s)] = "success"
        PROVE  Sorted(arr', start'[w], end'[w])
    <2> DEFINE l == Kid(w, "l")
               r == Kid(w, "r")
    <2>1. l \in Process /\ r \in Process /\ Done(l) /\ Done(r)
      BY <1>3 DEF Sides, Done
    <2>2. /\ start[l] = start[w] /\ end[l] = mid[w]
          /\ start[r] = mid[w] + 1 /\ end[r] = end[w]
      BY <1>3 DEF PartsOfKidsInv, Sides
    <2>3. Sorted(arr, start[w], mid[w]) /\ Sorted(arr, mid[w] + 1, end[w])
      BY <1>q, <2>1, <2>2 DEF SortedInv
    <2>4. mid[w] \in Region(w)
      BY <1>3 DEF TreeInv, SizeInv, Forking
    <2>5. Undamaged(w)
      <3> SUFFICES ASSUME NEW q \in Process, Above(w, q)
                   PROVE  status[q] # "signal"
        BY DEF Undamaged
      <3>1. CASE ~ Born(q)
        BY <3>1 DEF Born, StatusInv
      <3>2. CASE Born(q)
        <4>1. DoneInv' /\ Born(q)'
          BY <3>2, ForkSortDoneStep, StatusStays
        <4>2. status'[q] = "success"
          BY <4>1 DEF DoneInv
        <4> QED
          BY <1>3, <4>2
      <3> QED
        BY <3>1, <3>2
    <2>6. /\ \A i \in start[w]..(mid[w] - 1) : arr[i] < arr[mid[w]]
          /\ \A i \in (mid[w] + 1)..(end[w] - 1) : arr[i] >= arr[mid[w]]
      BY <1>3, <1>q, <2>5 DEF PartsInv, Forking
    <2>7. Sorted(arr, start[w], end[w])
      <3> SUFFICES ASSUME NEW i \in start[w]..(end[w] - 2)
                   PROVE  arr[i] <= arr[i + 1]
        BY DEF Sorted
      <3>1. i \in Index /\ i + 1 \in Index /\ mid[w] \in Index
        BY <1>t, <2>4, ForkSortAssumption DEF Index, Region
      <3>2. arr[i] \in Int /\ arr[i + 1] \in Int /\ arr[mid[w]] \in Int
        BY <1>t, <3>1
      <3>3. CASE i < mid[w] - 1 \/ i > mid[w]
        BY <1>t, <2>3, <3>3 DEF Sorted
      <3>4. CASE i = mid[w] - 1
        BY <1>t, <2>4, <2>6, <3>2, <3>4 DEF Region
      <3>5. CASE i = mid[w]
        BY <1>t, <2>4, <2>6, <3>2, <3>5 DEF Region
      <3> QED
        BY <1>t, <3>3, <3>4, <3>5
    <2> QED
      BY <1>3, <2>7 DEF region
  <1> QED
    BY <1>1, <1>2, <1>3, NewlyDone

\* The parts of a region stay on their sides of the pivot while the processes
\* below sort them, unless one is killed.
THEOREM ForkSortPartsStep ==
    /\ TypeOK /\ TreeInv /\ KidsInv /\ StatusInv /\ PartsInv /\ [Next]_vars
    => PartsInv'
  <1> SUFFICES ASSUME TypeOK, TreeInv, KidsInv, StatusInv, PartsInv,
                      [Next]_vars, Intact',
                      NEW w \in Process, Forking(w)', Undamaged(w)'
               PROVE  /\ \A i \in start'[w]..(mid'[w] - 1) :
                            arr'[i] < arr'[mid'[w]]
                      /\ \A i \in (mid'[w] + 1)..(end'[w] - 1) :
                            arr'[i] >= arr'[mid'[w]]
    BY DEF PartsInv
  <1>q. Intact
    BY StatusStays DEF Intact
  <1>t. /\ start[w] \in 0..N /\ end[w] \in 0..N /\ mid[w] \in 0..N
        /\ \A i \in Index : arr[i] \in Int
    BY ForkSortAssumption DEF TypeOK
  <1>1. CASE Partition(w)
    <2>1. PICK new \in [Index -> Value], m \in Region(w) :
            /\ \A i \in start[w]..(m - 1) : new[i] < new[m]
            /\ \A i \in (m + 1)..(end[w] - 1) : new[i] >= new[m]
            /\ arr' = new
            /\ mid' = [mid EXCEPT ![w] = m]
      BY <1>1 DEF Partition
    <2>2. mid'[w] = m /\ start' = start /\ end' = end
      BY <1>1, <2>1 DEF Partition, TypeOK
    <2> QED
      BY <2>1, <2>2
  <1>2. CASE Forking(w)
    <2>1. Born(w) /\ pc[w] # "quicksort" /\ mid[w] \in Region(w)
      BY <1>2 DEF Forking, Born, TreeInv, SizeInv
    <2>2. start'[w] = start[w] /\ end'[w] = end[w] /\ mid'[w] = mid[w]
      BY <2>1, RegionsStay
    <2>3. Undamaged(w)
      BY StatusStays DEF Undamaged
    <2>4. /\ \A i \in start[w]..(mid[w] - 1) : arr[i] < arr[mid[w]]
          /\ \A i \in (mid[w] + 1)..(end[w] - 1) : arr[i] >= arr[mid[w]]
      BY <1>2, <1>q, <2>3 DEF PartsInv
    <2>5. CASE arr' = arr
      BY <2>2, <2>4, <2>5
    <2>6. ASSUME NEW p \in Process, Writes(p)
          PROVE  /\ \A i \in start[w]..(mid[w] - 1) : arr'[i] < arr'[mid[w]]
                 /\ \A i \in (mid[w] + 1)..(end[w] - 1) : arr'[i] >= arr'[mid[w]]
      <3>1. /\ p # w /\ Born(p) /\ ~ Above(p, w)
            /\ start[p] \in 0..N /\ end[p] \in 0..N
        BY <2>1, <2>6, ForkSortAssumption
           DEF Writes, Born, TreeInv, BelowInv, TypeOK
      <3>2. Region(w) \subseteq Index
        BY <1>t, ForkSortAssumption DEF Region, Index
      <3>3. CASE Above(w, p)
        <4>1. Reorders(arr', p) /\ arr' \in [Index -> Value]
          BY <2>6, <3>3, ForkSortTypeStep DEF Writes, Undamaged, TypeOK
        <4>2. /\ Side(w, p) \in {"l", "r"}
              /\ Side(w, p) = "l" => start[w] <= start[p] /\ end[p] <= mid[w]
              /\ Side(w, p) = "r" => mid[w] < start[p] /\ end[p] <= end[w]
          BY <3>1, <3>3, BelowKid DEF TreeInv, BelowInv, Sides
        <4>3. \A i \in Region(p) : \E j \in Region(p) : arr'[i] = arr[j]
          BY <4>1, ReordersValues
        <4>4. \A i \in Index \ Region(p) : arr'[i] = arr[i]
          BY <2>6 DEF Writes
        <4>5. mid[w] \in Index \ Region(p) /\ arr'[mid[w]] = arr[mid[w]]
          BY <1>t, <2>1, <3>1, <3>2, <4>2, <4>4 DEF Region
        <4>6. CASE Side(w, p) = "l"
          <5>1. Region(p) \subseteq start[w]..(mid[w] - 1)
            BY <1>t, <3>1, <4>2, <4>6 DEF Region
          <5>2. /\ start[w]..(mid[w] - 1) \subseteq Index
                /\ (mid[w] + 1)..(end[w] - 1) \subseteq Index \ Region(p)
            BY <1>t, <2>1, <3>1, <4>2, <4>6, ForkSortAssumption DEF Region, Index
          <5>3. ASSUME NEW i \in start[w]..(mid[w] - 1)
                PROVE  arr'[i] < arr'[mid[w]]
            <6>1. CASE i \in Region(p)
              BY <2>4, <4>3, <4>5, <5>1, <6>1
            <6>2. CASE i \notin Region(p)
              BY <2>4, <4>4, <4>5, <5>2, <6>2
            <6> QED
              BY <6>1, <6>2
          <5>4. ASSUME NEW i \in (mid[w] + 1)..(end[w] - 1)
                PROVE  arr'[i] >= arr'[mid[w]]
            BY <2>4, <4>4, <4>5, <5>2
          <5> QED
            BY <5>3, <5>4
        <4>7. CASE Side(w, p) = "r"
          <5>1. Region(p) \subseteq (mid[w] + 1)..(end[w] - 1)
            BY <1>t, <3>1, <4>2, <4>7 DEF Region
          <5>2. /\ (mid[w] + 1)..(end[w] - 1) \subseteq Index
                /\ start[w]..(mid[w] - 1) \subseteq Index \ Region(p)
            BY <1>t, <2>1, <3>1, <4>2, <4>7, ForkSortAssumption DEF Region, Index
          <5>3. ASSUME NEW i \in (mid[w] + 1)..(end[w] - 1)
                PROVE  arr'[i] >= arr'[mid[w]]
            <6>1. CASE i \in Region(p)
              BY <2>4, <4>3, <4>5, <5>1, <6>1
            <6>2. CASE i \notin Region(p)
              BY <2>4, <4>4, <4>5, <5>2, <6>2
            <6> QED
              BY <6>1, <6>2
          <5>4. ASSUME NEW i \in start[w]..(mid[w] - 1)
                PROVE  arr'[i] < arr'[mid[w]]
            BY <2>4, <4>4, <4>5, <5>2
          <5> QED
            BY <5>3, <5>4
        <4> QED
          BY <4>2, <4>6, <4>7
      <3>4. CASE ~ Above(w, p)
        <4>1. end[p] <= start[w] \/ end[w] <= start[p]
          BY <2>1, <3>1, <3>4 DEF TreeInv, ApartInv, Apart
        <4>2. Region(w) \subseteq Index \ Region(p)
          BY <1>t, <3>1, <3>2, <4>1 DEF Region
        <4>3. \A i \in Region(w) : arr'[i] = arr[i]
          BY <2>6, <4>2 DEF Writes
        <4> QED
          BY <1>t, <2>1, <2>4, <4>3 DEF Region
      <3> QED
        BY <3>3, <3>4
    <2> QED
      BY <2>2, <2>5, <2>6, WriteCases
  <1> QED
    BY <1>1, <1>2, RegionsStay

\* Unless a process dies, the file holds each value as often as at the
\* start.
THEOREM ForkSortCountStep ==
    TypeOK /\ TreeInv /\ KidsInv /\ StatusInv /\ CountInv /\ [Next]_vars
        => CountInv'
  <1> SUFFICES ASSUME TypeOK, TreeInv, KidsInv, StatusInv, CountInv,
                      [Next]_vars,
                      \A p \in Process : ~ Dead(p)'
               PROVE  SameElements'
    BY DEF CountInv
  <1>q. Intact'
    BY DEF Intact, Dead
  <1>1. SameElements
    BY StatusStays DEF CountInv, Dead
  <1>2. input' = input
    BY DEF Next, Run, SortHere, Partition, ForkLeft, ForkRight, WaitLeft,
           WaitRight, Exit, Killed, Strays, Finished, vars
  <1>3. arr' \in [Index -> Value]
    BY ForkSortTypeStep DEF TypeOK
  <1>4. ASSUME NEW p \in Process, Writes(p), NEW v \in Value
        PROVE  Cardinality({i \in Index : arr'[i] = v})
               = Cardinality({i \in Index : arr[i] = v})
    <2>1. Reorders(arr', p)
      BY <1>4 DEF Writes, Dead
    <2> QED
      BY <1>3, <2>1, ReordersCount
  <1>5. CASE arr' = arr
    BY <1>1, <1>2, <1>5 DEF SameElements
  <1> QED
    BY <1>1, <1>2, <1>4, <1>5, <1>q, WriteCases DEF SameElements

-----------------------------------------------------------------------------
(* What has failed, and who is left behind                                 *)

\* A pid is set once, when its fork is tried.
LEMMA PidsStay ==
    ASSUME TypeOK, [Next]_vars, NEW w \in Process
    PROVE  /\ pc[w] # "left" => left_pid'[w] = left_pid[w]
           /\ pc[w] # "right" => right_pid'[w] = right_pid[w]
  <1> DEFINE Stay == /\ pc[w] # "left" => left_pid'[w] = left_pid[w]
                     /\ pc[w] # "right" => right_pid'[w] = right_pid[w]
  <1>1. ASSUME NEW p \in Process, NEW s \in Sides, ForkChild(p, s) PROVE Stay
    BY <1>1 DEF ForkChild, SetsPid, FromFork, Sides, TypeOK
  <1>2. ASSUME NEW p \in Process, NEW s \in Sides, ForkRefused(p, s) PROVE Stay
    BY <1>2 DEF ForkRefused, SetsPid, FromFork, Sides, TypeOK
  <1>3. ASSUME NEW p \in Process,
               \/ SortHere(p) \/ Partition(p) \/ Exit(p) \/ Dies(p)
               \/ \E s \in Sides : WaitNone(p, s) \/ \E t \in Sides : Reap(p, s, t)
        PROVE  Stay
    BY <1>3 DEF SortHere, Partition, Exit, Dies, WaitNone, Reap, results
  <1>4. CASE UNCHANGED vars
    BY <1>4 DEF vars, results
  <1> QED
    BY <1>1, <1>2, <1>3, <1>4, StepCases

\* A process that has not tried a fork has no pid of it.
LEMMA PidsBeforeForks ==
    ASSUME TypeOK, TreeInv, KidsInv, ZeroInv, [Next]_vars, NEW w \in Process
    PROVE  /\ pc'[w] \in {"unborn", "quicksort", "left"} => left_pid'[w] = "none"
           /\ pc'[w] \in {"unborn", "quicksort", "left", "right"}
              => right_pid'[w] = "none"
  <1> DEFINE First3 == {"unborn", "quicksort", "left"}
             Kept == /\ pc'[w] \in First3 => pc[w] \in First3
                     /\ pc'[w] \in First3 \cup {"right"} =>
                            pc[w] \in First3 \cup {"right"}
  <1>1. ASSUME Kept, pc[w] \notin {"left", "right"} \/ UNCHANGED <<left_pid, right_pid>>
        PROVE  /\ pc'[w] \in First3 => left_pid'[w] = "none"
               /\ pc'[w] \in First3 \cup {"right"} => right_pid'[w] = "none"
    BY <1>1, PidsStay DEF ZeroInv
  <1>2. ASSUME NEW p \in Process, SortHere(p) \/ Partition(p)
        PROVE  Kept /\ UNCHANGED <<left_pid, right_pid>>
    BY <1>2 DEF SortHere, Partition, Goto, TypeOK, results
  <1>3. ASSUME NEW p \in Process, Exit(p) \/ Dies(p)
        PROVE  Kept /\ UNCHANGED <<left_pid, right_pid>>
    BY <1>3 DEF Exit, Dies, Goto, TypeOK, results
  <1>4. ASSUME NEW p \in Process, NEW s \in Sides, WaitNone(p, s)
        PROVE  Kept /\ UNCHANGED <<left_pid, right_pid>>
    BY <1>4 DEF WaitNone, ToWait, TypeOK
  <1>5. ASSUME NEW p \in Process, NEW s \in Sides, NEW t \in Sides, Reap(p, s, t)
        PROVE  Kept /\ UNCHANGED <<left_pid, right_pid>>
    <2>1. UNCHANGED <<left_pid, right_pid>>
      BY <1>5 DEF Reap
    <2> QED
      BY <1>5, <2>1, ReapFacts DEF ToWait
  <1>6. CASE UNCHANGED vars
    BY <1>1, <1>6 DEF vars, results
  <1>7. ASSUME NEW p \in Process, NEW s \in Sides,
               ForkChild(p, s) \/ ForkRefused(p, s)
        PROVE  /\ pc'[w] \in First3 => left_pid'[w] = "none"
               /\ pc'[w] \in First3 \cup {"right"} => right_pid'[w] = "none"
    <2>1. /\ pc[p] = FromFork(s) /\ pc'[p] = ToFork(s)
          /\ w # p => pc'[w] = pc[w] \/ pc[w] = "unborn"
      <3>1. CASE ForkChild(p, s)
        <4>1. pc[p] = FromFork(s)
          BY <3>1 DEF ForkChild
        <4> QED
          BY <3>1, <4>1, ForkFacts
      <3>2. CASE ForkRefused(p, s)
        BY <3>2 DEF ForkRefused, TypeOK
      <3> QED
        BY <1>7, <3>1, <3>2
    <2>2. \A v \in Process \ {p} : left_pid'[v] = left_pid[v] /\ right_pid'[v] = right_pid[v]
      BY <1>7 DEF ForkChild, ForkRefused, SetsPid, TypeOK
    <2>3. CASE w = p
      BY <2>1, <2>3, PidsStay DEF FromFork, ToFork, ZeroInv, Sides
    <2>4. CASE w # p
      BY <2>1, <2>2, <2>4 DEF ZeroInv
    <2> QED
      BY <2>3, <2>4
  <1> QED
    BY <1>1, <1>2, <1>3, <1>4, <1>5, <1>6, <1>7, StepCases

\* Whoever reports success has made both of its forks.
THEOREM ForkSortZeroStep ==
    /\ TypeOK /\ TreeInv /\ KidsInv /\ StatusInv /\ DoneInv /\ LeftInv /\ ZeroInv
    /\ [Next]_vars
    => ZeroInv'
  <1> SUFFICES ASSUME TypeOK, TreeInv, KidsInv, StatusInv, DoneInv, LeftInv, ZeroInv,
                      [Next]_vars, NEW w \in Process, Done(w)'
               PROVE  left_pid'[w] # "zero" /\ right_pid'[w] # "zero"
    BY PidsBeforeForks DEF ZeroInv
  <1>1. CASE Done(w)
    <2>1. pc[w] \notin {"left", "right"}
      BY <1>1 DEF Done, StatusInv
    <2> QED
      BY <1>1, <2>1, PidsStay DEF ZeroInv
  <1>2. CASE SortHere(w)
    BY <1>2 DEF SortHere, Goto, ZeroInv
  <1>3. CASE ~ Done(w) /\ ~ SortHere(w)
    BY <1>3, NewlyDone
  <1> QED
    BY <1>1, <1>2, <1>3

\* What has failed does not vanish from the tree.
THEOREM ForkSortCauseStep ==
    TypeOK /\ TreeInv /\ KidsInv /\ StatusInv /\ ZeroInv /\ CauseInv /\ [Next]_vars
        => CauseInv'
  <1> SUFFICES ASSUME TypeOK, TreeInv, KidsInv, StatusInv, ZeroInv, CauseInv,
                      [Next]_vars, failed'
               PROVE  \E p \in Process : \/ status'[p] = "signal"
                                         \/ left_pid'[p] = "zero"
                                         \/ right_pid'[p] = "zero"
    BY DEF CauseInv
  <1>1. CASE failed
    <2>1. PICK p \in Process : \/ status[p] = "signal"
                              \/ left_pid[p] = "zero" \/ right_pid[p] = "zero"
      BY <1>1 DEF CauseInv
    <2>2. /\ left_pid[p] = "zero" => pc[p] # "left"
          /\ right_pid[p] = "zero" => pc[p] # "right"
      BY DEF ZeroInv
    <2> QED
      BY <2>1, <2>2, PidsStay, StatusStays
  <1>2. CASE ~ failed
    <2>1. ASSUME NEW p \in Process, Dies(p) PROVE status'[p] = "signal"
      BY <1>2, <2>1 DEF Dies, TypeOK
    <2>2. ASSUME NEW p \in Process, NEW s \in Sides, ForkRefused(p, s)
          PROVE  left_pid'[p] = "zero" \/ right_pid'[p] = "zero"
      BY <2>2 DEF ForkRefused, SetsPid, TypeOK
    <2>3. ASSUME NEW p \in Process,
                 \/ SortHere(p) \/ Partition(p) \/ Exit(p)
                 \/ \E s \in Sides : \/ ForkChild(p, s) \/ WaitNone(p, s)
                                     \/ \E t \in Sides : Reap(p, s, t)
          PROVE  FALSE
      BY <1>2, <2>3 DEF SortHere, Partition, Exit, ForkChild, WaitNone, Reap
    <2>4. CASE UNCHANGED vars
      BY <1>2, <2>4 DEF vars
    <2> QED
      BY <2>1, <2>2, <2>3, <2>4, StepCases
  <1> QED
    BY <1>1, <1>2

\* Whoever is there after a step was there before, or was forked by it.
LEMMA NewlyThere ==
    ASSUME TypeOK, TreeInv, KidsInv, [Next]_vars, NEW q \in Process,
           Lingers(q)', ~ Lingers(q)
    PROVE  \E w \in Process, t \in Sides :
             /\ q = Kid(w, t) /\ pc[w] \in {"left", "right"}
  <1>1. ASSUME NEW p \in Process,
               SortHere(p) \/ Partition(p) \/ Exit(p) \/ Dies(p)
        PROVE  FALSE
    BY <1>1 DEF SortHere, Partition, Exit, Dies, Running, Goto, Lingers, TypeOK
  <1>2. ASSUME NEW p \in Process, NEW s \in Sides,
               ForkRefused(p, s) \/ WaitNone(p, s)
        PROVE  FALSE
    BY <1>2 DEF ForkRefused, WaitNone, FromFork, FromWait, Lingers, TypeOK
  <1>3. ASSUME NEW p \in Process, NEW s \in Sides, NEW t \in Sides, Reap(p, s, t)
        PROVE  FALSE
    BY <1>3, ReapFacts DEF Lingers
  <1>4. ASSUME NEW p \in Process, NEW s \in Sides, ForkChild(p, s)
        PROVE  q = Kid(p, s) /\ pc[p] \in {"left", "right"}
    BY <1>4, ForkFacts DEF Lingers
  <1>5. ~ UNCHANGED vars
    BY DEF vars, Lingers
  <1> QED
    BY <1>1, <1>2, <1>3, <1>4, <1>5, StepCases

\* The step after which a process is about to report changes no status and
\* starts no process.
LEMMA NewlyEnded ==
    ASSUME TypeOK, TreeInv, KidsInv, StatusInv, [Next]_vars, NEW w \in Process,
           Ended(w)', ~ Ended(w)
    PROVE  /\ pc'[w] = "return" /\ status' = status
           /\ \A q \in Process : Lingers(q)' => Lingers(q)
  <1> DEFINE Quiet == status' = status /\ \A q \in Process : Lingers(q)' => Lingers(q)
  <1>1. ASSUME NEW p \in Process, SortHere(p) \/ Partition(p) PROVE Quiet
    BY <1>1 DEF SortHere, Partition, Goto, Lingers, TypeOK
  <1>2. ASSUME NEW p \in Process, Exit(p) PROVE FALSE
    BY <1>2 DEF Exit, Goto, Ended, TypeOK
  <1>3. ASSUME NEW p \in Process, Dies(p) PROVE FALSE
    <2>1. /\ pc'[p] = "zombie" /\ status'[p] \notin {"success", "failure"}
          /\ \A v \in Process \ {p} : pc'[v] = pc[v] /\ status'[v] = status[v]
      BY <1>3 DEF Dies, TypeOK
    <2> QED
      BY <2>1 DEF Ended
  <1>4. ASSUME NEW p \in Process, NEW s \in Sides, ForkChild(p, s) PROVE FALSE
    <2>1. status' = status
      BY <1>4 DEF ForkChild
    <2> QED
      BY <1>4, <2>1, ForkFacts DEF ToFork, Ended
  <1>5. ASSUME NEW p \in Process, NEW s \in Sides,
               ForkRefused(p, s) \/ WaitNone(p, s)
        PROVE  Quiet
    BY <1>5 DEF ForkRefused, WaitNone, FromFork, FromWait, Lingers, TypeOK
  <1>6. ASSUME NEW p \in Process, NEW s \in Sides, NEW t \in Sides, Reap(p, s, t)
        PROVE  Quiet
    <2>1. status' = status
      BY <1>6 DEF Reap
    <2> QED
      BY <1>6, <2>1, ReapFacts DEF Lingers
  <1>7. ~ UNCHANGED vars
    BY DEF vars, Ended
  <1>8. Quiet
    BY <1>1, <1>2, <1>3, <1>4, <1>5, <1>6, <1>7, StepCases
  <1> QED
    BY <1>8 DEF Ended

\* Nobody is left below a process that reports but below one that died.
THEOREM ForkSortOrphanStep ==
    TypeOK /\ TreeInv /\ KidsInv /\ StatusInv /\ OrphanInv /\ [Next]_vars
        => OrphanInv'
  <1> SUFFICES ASSUME TypeOK, TreeInv, KidsInv, StatusInv, OrphanInv, [Next]_vars,
                      NEW p \in Process, NEW q \in Process,
                      Above(p, q), Ended(p)', Lingers(q)'
               PROVE  DiedBetween(p, q)'
    BY DEF OrphanInv
  <1>1. DiedBetween(p, q) => DiedBetween(p, q)'
    <2>1. \A k \in Process : Dead(k) => Dead(k)'
      BY StatusStays DEF Dead
    <2> QED
      BY <2>1 DEF DiedBetween
  <1>2. CASE Ended(p) /\ Lingers(q)
    BY <1>1, <1>2 DEF OrphanInv
  <1>3. CASE Ended(p) /\ ~ Lingers(q)
    <2>1. PICK w \in Process, t \in Sides : q = Kid(w, t) /\ pc[w] \in {"left", "right"}
      BY <1>3, NewlyThere
    <2>2. p # w /\ Lingers(w)
      BY <1>3, <2>1 DEF Ended, StatusInv, Lingers
    <2>3. Above(p, w)
      BY <2>1, <2>2, AboveKid
    <2>4. PICK k \in Process : Above(p, k) /\ Above(k, w) /\ Dead(k)
      BY <1>3, <2>2, <2>3 DEF OrphanInv, DiedBetween
    <2>5. Above(k, q)
      BY <2>1, <2>4, AboveKid
    <2> QED
      BY <1>1, <2>4, <2>5 DEF DiedBetween
  <1>4. CASE ~ Ended(p)
    <2>1. /\ pc'[p] = "return" /\ status' = status /\ Lingers(q)
      BY <1>4, NewlyEnded
    <2>2. TypeOK' /\ TreeInv' /\ KidsInv' /\ StatusInv'
      BY ForkSortTypeStep, ForkSortTreeStep, ForkSortKidsStep, ForkSortStatusStep
    <2>3. PICK s \in Sides : /\ s = Side(p, q) /\ Kid(p, s) \in Process
                             /\ q = Kid(p, s) \/ Above(Kid(p, s), q)
      BY BelowKid
    <2>4. PICK c \in Process : c = Kid(p, s)
      BY <2>3
    <2>5. pc'[c] \in {"unborn", "reaped"}
      BY <2>1, <2>2, <2>3, <2>4 DEF KidsInv, Kids, Alive, Sides
    <2>6. Above(c, q)
      BY <2>3, <2>4, <2>5 DEF Lingers
    <2>7. pc'[c] = "reaped"
      BY <2>2, <2>5, <2>6 DEF TreeInv, BelowInv, Born, Lingers
    <2>8. status'[c] \in {"success", "failure", "signal", "segfault"}
      BY <2>2, <2>7 DEF StatusInv, TypeOK
    <2>9. Above(p, c)
      BY <2>3, <2>4, AboveKid
    <2>10. CASE Dead(c)'
      BY <2>6, <2>9, <2>10 DEF DiedBetween
    <2>11. CASE ~ Dead(c)'
      <3>1. Ended(c)
        BY <2>1, <2>8, <2>11 DEF Dead, Ended
      <3>2. PICK k \in Process : Above(c, k) /\ Above(k, q) /\ Dead(k)
        BY <2>1, <2>6, <3>1 DEF OrphanInv, DiedBetween
      <3>3. Above(p, k)
        BY <2>9, <3>2, AboveOrder
      <3> QED
        BY <1>1, <3>2, <3>3 DEF DiedBetween
    <2> QED
      BY <2>10, <2>11
  <1> QED
    BY <1>2, <1>3, <1>4

-----------------------------------------------------------------------------
(* The invariant                                                           *)

\* The invariant holds when parsort has mapped the file.
THEOREM ForkSortInit == Init => IInv
  <1> SUFFICES ASSUME Init PROVE IInv
    OBVIOUS
  <1>a. 0 \in 0..N /\ N \in 0..N
    BY ForkSortAssumption
  <1>b. /\ start \in [Process -> 0..N] /\ mid \in [Process -> 0..N]
        /\ end \in [Process -> 0..N]
    BY <1>a DEF Init
  <1>c. pc \in [Process -> {"unborn", "quicksort", "left", "right", "waitleft",
                            "waitright", "return", "zombie", "reaped"}]
    BY DEF Init
  <1>1. TypeOK
    BY <1>b, <1>c, Zenon DEF Init, TypeOK
  <1>2. /\ \A p \in Process : pc[p] = IF p = First THEN "quicksort" ELSE "unborn"
        /\ \A p \in Process : start[p] = 0
        /\ \A p \in Process : end[p] = IF p = First THEN N ELSE 0
        /\ \A p \in Process : status[p] = "none" /\ left_pid[p] = "none"
                              /\ right_pid[p] = "none"
        /\ First \in Process /\ Len(First) = 0
    BY ProcessType DEF Init, First
  <1>3. TreeInv
    <2>1. SizeInv
      BY <1>2, ForkSortAssumption DEF SizeInv, Born, Forking
    <2>2. FirstInv
      BY <1>2 DEF FirstInv, Born
    <2>3. BelowInv
      BY <1>2, AboveOrder DEF BelowInv, Born
    <2>4. ApartInv
      BY <1>2 DEF ApartInv, Apart, Born
    <2> QED
      BY <2>1, <2>2, <2>3, <2>4 DEF TreeInv
  <1>4. KidsInv
    BY <1>2 DEF KidsInv, Kids
  <1>5. StatusInv /\ FailInv
    BY <1>2 DEF StatusInv, FailInv
  <1>6. \A p \in Process : ~ Done(p)
    BY <1>2 DEF Done
  <1>7. DoneInv /\ LeftInv /\ SortedInv /\ PartsInv
    BY <1>2, <1>6 DEF DoneInv, LeftInv, SortedInv, PartsInv, Forking
  <1>8. PartsOfKidsInv
    <2>1. \A p \in Process, s \in Sides : Kid(p, s) # First
      BY KidType, ProcessType DEF First
    <2> QED
      BY <1>2, <2>1 DEF PartsOfKidsInv, Born
  <1>9. CountInv
    BY DEF CountInv, SameElements, Init
  <1>10. ZeroInv /\ CauseInv /\ OrphanInv
    <2>1. ~ failed
      BY DEF Init
    <2> QED
      BY <1>2, <1>6, <2>1 DEF ZeroInv, CauseInv, OrphanInv, Ended
  <1> QED
    BY <1>1, <1>3, <1>4, <1>5, <1>7, <1>8, <1>9, <1>10 DEF IInv

\* Every reachable state satisfies the inductive invariant.
THEOREM ForkSortInvariant == Spec => []IInv
  <1>1. IInv /\ [Next]_vars => IInv'
    BY ForkSortTypeStep, ForkSortTreeStep, ForkSortKidsStep, ForkSortStatusStep,
       ForkSortFailStep, ForkSortDoneStep, ForkSortLeftStep,
       ForkSortPartsOfKidsStep, ForkSortSortedStep, ForkSortPartsStep,
       ForkSortCountStep, ForkSortZeroStep, ForkSortCauseStep,
       ForkSortOrphanStep DEF IInv
  <1> QED
    BY <1>1, ForkSortInit, PTL DEF Spec

-----------------------------------------------------------------------------
(* What parsort promises                                                   *)

\* Every variable stays in its type.
THEOREM ForkSortTyped == Spec => []TypeOK
  <1>1. IInv => TypeOK
    BY DEF IInv
  <1> QED
    BY <1>1, ForkSortInvariant, PTL

\* No two processes write to the same element of the shared file.
THEOREM ForkSortWriters == Spec => []WritersAreDisjoint
  <1>1. IInv => WritersAreDisjoint
    <2> SUFFICES ASSUME IInv, NEW p \in Process, NEW q \in Process, p # q,
                        Writing(p), Writing(q)
                 PROVE  Region(p) \cap Region(q) = {}
      BY DEF WritersAreDisjoint
    <2>1. Born(p) /\ Born(q) /\ Apart(p, q)
      BY DEF IInv, TreeInv, BelowInv, Writing, Born, Apart
    <2>2. end[p] <= start[q] \/ end[q] <= start[p]
      BY <2>1 DEF IInv, TreeInv, ApartInv
    <2>3. /\ start[p] \in 0..N /\ end[p] \in 0..N
          /\ start[q] \in 0..N /\ end[q] \in 0..N
      BY DEF IInv, TypeOK
    <2> QED
      BY <2>2, <2>3, ForkSortAssumption DEF Region
  <1> QED
    BY <1>1, ForkSortInvariant, PTL

\* Below a process that has reported nobody is left but the orphans of one that
\* died, and then the report is failure.
THEOREM ForkSortReaps == Spec => []OnlyOrphansWorkOn
  <1>1. IInv => OnlyOrphansWorkOn
    <2> SUFFICES ASSUME IInv, NEW p \in Process, NEW q \in Process,
                        Descends(q, p), status[p] \in {"success", "failure"},
                        pc[q] \notin {"unborn", "reaped"}
                 PROVE  /\ status[p] = "failure"
                        /\ \E k \in Process :
                             Descends(k, p) /\ Descends(q, k) /\ Dead(k)
      BY DEF OnlyOrphansWorkOn
    <2>1. \A a, b \in Process : Above(a, b) <=> Descends(b, a)
      BY DEF Above, Descends
    <2>2. Above(p, q) /\ Ended(p) /\ Lingers(q) /\ Born(q)
      BY <2>1 DEF Ended, Lingers, Born
    <2>3. DiedBetween(p, q)
      BY <2>2 DEF IInv, OrphanInv
    <2>4. status[p] # "success"
      BY <2>2 DEF IInv, DoneInv, Done
    <2> QED
      BY <2>1, <2>3, <2>4 DEF DiedBetween
  <1> QED
    BY <1>1, ForkSortInvariant, PTL

\* parsort fails exactly if a fork has failed, a process was killed, or one has
\* left the array.
THEOREM ForkSortFails == Spec => []FailsForAReason
  <1>1. IInv => FailsForAReason
    <2> SUFFICES ASSUME IInv, status[First] # "none"
                 PROVE  status[First] # "success" <=> failed \/ ~ Intact
      BY DEF FailsForAReason, Intact
    <2>1. First \in Process
      BY ProcessType
    <2>2. CASE status[First] # "success"
      BY <2>1, <2>2 DEF IInv, FailInv
    <2>3. CASE status[First] = "success"
      <3>1. ASSUME NEW q \in Process, Born(q) PROVE status[q] = "success"
        <4>1. q = First \/ Above(First, q)
          BY AboveOrder
        <4> QED
          BY <2>1, <2>3, <3>1, <4>1 DEF IInv, DoneInv, Done
      <3>2. \A q \in Process : status[q] # "none" => Born(q)
        BY DEF IInv, StatusInv, Born
      <3>3. Intact
        BY <3>1, <3>2 DEF Intact
      <3>4. ~ failed
        <4> SUFFICES ASSUME failed PROVE FALSE
          OBVIOUS
        <4>1. PICK q \in Process : \/ status[q] = "signal"
                                  \/ left_pid[q] = "zero" \/ right_pid[q] = "zero"
          BY DEF IInv, CauseInv
        <4>2. Born(q)
          BY <3>2, <4>1 DEF IInv, ZeroInv, Born
        <4> QED
          BY <3>1, <4>1, <4>2 DEF IInv, ZeroInv, Done
      <3> QED
        BY <2>3, <3>3, <3>4
    <2> QED
      BY <2>2, <2>3
  <1> QED
    BY <1>1, ForkSortInvariant, PTL

\* When parsort reports success the file is sorted and holds each value as
\* often as at the start.
THEOREM ForkSortSorts == Spec => []SuccessMeansSorted
  <1>1. IInv => SuccessMeansSorted
    <2> SUFFICES ASSUME IInv, status[First] = "success"
                 PROVE  Sorted(arr, 0, N) /\ SameElements
      BY DEF SuccessMeansSorted, SameElements
    <2>1. First \in Process /\ Done(First)
      BY ProcessType DEF Done
    <2>2. ASSUME NEW q \in Process PROVE ~ Dead(q)
      <3>1. CASE q = First
        BY <3>1 DEF Dead
      <3>2. CASE q # First /\ Born(q)
        BY <2>1, <3>2, AboveOrder DEF IInv, DoneInv, Dead
      <3>3. CASE ~ Born(q)
        BY <3>3 DEF IInv, StatusInv, Born, Dead
      <3> QED
        BY <3>1, <3>2, <3>3
    <2>3. Sorted(arr, 0, N)
      BY <2>1, <2>2 DEF IInv, SortedInv, TreeInv, FirstInv, Intact, Dead
    <2> QED
      BY <2>2, <2>3 DEF IInv, CountInv
  <1> QED
    BY <1>1, ForkSortInvariant, PTL

-----------------------------------------------------------------------------
(* partition: the inductive invariant                                      *)

Inside == start..(end - 1)

\* f says where each element of arr came from: the input has been permuted,
\* and nothing has moved outside the region.
Traces(f) ==
    /\ \A i, j \in Index : f[i] = f[j] => i = j
    /\ \A i \in Index : arr[i] = input[f[i]]
    /\ \A i \in Index : i \notin Inside => f[i] = i

Permuted == \E f \in [Index -> Index] : Traces(f)

\* Every element the region had is still somewhere in it.
NothingLost == \A i \in Inside : \E j \in Inside : input[i] = arr[j]

\* right_index has gone from 0 to the greatest word.  Nothing in the region is
\* less than the pivot, so left_index has not moved.
Wrapped ==
    /\ start = 0 /\ left_index = 0 /\ right_index = Word - 1
    /\ \A i \in Inside : arr[i] >= pivot_val

\* The scanned ends of the region, with the pivot stashed behind them.
Between ==
    /\ right_index < end - 1 /\ left_index <= right_index + 1
    /\ \A i \in start..(left_index - 1) : arr[i] < pivot_val
    /\ \A i \in (right_index + 1)..(end - 1) : arr[i] >= pivot_val

LoopInv ==
    pc = "loop" =>
        /\ left_index \in Inside /\ arr[end - 1] = pivot_val
        /\ Between \/ Wrapped

\* What is left of the region when the index is returned.
Placed ==
    /\ left_index \in Inside /\ arr[left_index] = pivot_val
    /\ \A i \in start..(left_index - 1) : arr[i] < pivot_val
    /\ \A i \in (left_index + 1)..(end - 1) : arr[i] >= pivot_val

CallInv ==
    /\ CallTypeOK /\ Permuted /\ NothingLost /\ LoopInv
    /\ pc = "returned" => Placed
    /\ pc = "fault" => Wrapped

-----------------------------------------------------------------------------
(* partition: lemmas                                                       *)

\* What swap returns: the elements i and j are exchanged, the others stay.
LEMMA SwapValues ==
    ASSUME NEW a \in [Index -> Value], NEW i \in Index, NEW j \in Index
    PROVE  /\ swap(a, i, j) \in [Index -> Value]
           /\ swap(a, i, j)[i] = a[j] /\ swap(a, i, j)[j] = a[i]
           /\ \A k \in Index \ {i, j} : swap(a, i, j)[k] = a[k]
  BY DEF swap

\* The region lies in the array, and it is not empty.
LEMMA RegionInArray ==
    CallTypeOK => /\ Inside \subseteq Index /\ end - 1 \in Inside
              /\ start + ((end - start) \div 2) \in Inside
  <1> SUFFICES ASSUME CallTypeOK
               PROVE  /\ Inside \subseteq Index /\ end - 1 \in Inside
                      /\ start + ((end - start) \div 2) \in Inside
    OBVIOUS
  <1>1. Inside \subseteq Index /\ end - 1 \in Inside
    BY PartitionAssumption DEF CallTypeOK, Inside, Index
  <1>2. start + ((end - start) \div 2) \in Inside
    <2> DEFINE half == (end - start) \div 2
    <2>1. half \in Nat /\ half < end - start
      BY DEF CallTypeOK
    <2> QED
      BY <2>1 DEF CallTypeOK, Inside
  <1> QED
    BY <1>1, <1>2

\* Two elements of the region are exchanged: the array is still a permutation
\* of the input that leaves the rest of it alone.
LEMMA SwapPermutes ==
    ASSUME CallTypeOK, Permuted, NEW i \in Inside, NEW j \in Inside,
           arr' = swap(arr, i, j), UNCHANGED args
    PROVE  Permuted'
  <1>1. PICK f \in [Index -> Index] : Traces(f)
    BY DEF Permuted
  <1> DEFINE g == [f EXCEPT ![i] = f[j], ![j] = f[i]]
  <1>2. i \in Index /\ j \in Index
    BY RegionInArray
  <1>3. g \in [Index -> Index]
    BY <1>2
  <1>4. /\ g[i] = f[j] /\ g[j] = f[i]
        /\ \A k \in Index \ {i, j} : g[k] = f[k]
    BY <1>2
  <1>5. /\ arr'[i] = arr[j] /\ arr'[j] = arr[i]
        /\ \A k \in Index \ {i, j} : arr'[k] = arr[k]
    BY <1>2, SwapValues DEF CallTypeOK
  <1>6. \A k, l \in Index : g[k] = g[l] => k = l
    <2> HIDE DEF g
    <2> QED
      BY <1>1, <1>2, <1>4 DEF Traces
  <1>7. \A k \in Index : arr'[k] = input[g[k]]
    <2> HIDE DEF g
    <2> QED
      BY <1>1, <1>2, <1>4, <1>5 DEF Traces
  <1>8. \A k \in Index : k \notin Inside => g[k] = k
    <2> HIDE DEF g
    <2> QED
      BY <1>1, <1>2, <1>4 DEF Traces
  <1>9. Inside' = Inside /\ input' = input
    BY DEF args, Inside
  <1>10. Traces(g)'
    <2> HIDE DEF g
    <2> QED
      BY <1>3, <1>6, <1>7, <1>8, <1>9 DEF Traces
  <1> QED
    BY <1>3, <1>10 DEF Permuted

\* Nor does the exchange lose an element of the region.
LEMMA SwapLosesNothing ==
    ASSUME CallTypeOK, NothingLost, NEW i \in Inside, NEW j \in Inside,
           arr' = swap(arr, i, j), UNCHANGED args
    PROVE  NothingLost'
  <1>1. i \in Index /\ j \in Index /\ Inside \subseteq Index
    BY RegionInArray
  <1>2. /\ arr'[i] = arr[j] /\ arr'[j] = arr[i]
        /\ \A k \in Index \ {i, j} : arr'[k] = arr[k]
    BY <1>1, SwapValues DEF CallTypeOK
  <1>3. Inside' = Inside /\ input' = input
    BY DEF args, Inside
  <1> SUFFICES ASSUME NEW k \in Inside
               PROVE  \E m \in Inside : input[k] = arr'[m]
    BY <1>3 DEF NothingLost
  <1>4. PICK m \in Inside : input[k] = arr[m]
    BY DEF NothingLost
  <1>5. CASE m = i
    BY <1>2, <1>4, <1>5
  <1>6. CASE m = j
    BY <1>2, <1>4, <1>6
  <1>7. CASE m \notin {i, j}
    BY <1>1, <1>2, <1>4, <1>7
  <1> QED
    BY <1>5, <1>6, <1>7

-----------------------------------------------------------------------------
(* partition: initial states and steps                                     *)

\* The invariant holds at the call.
THEOREM PartitionInit == CallInit => CallInv
  <1> SUFFICES ASSUME CallInit PROVE CallInv
    OBVIOUS
  <1>1. CallTypeOK
    BY PartitionAssumption DEF CallInit, CallTypeOK
  <1>2. Permuted
    <2> DEFINE f == [i \in Index |-> i]
    <2>1. f \in [Index -> Index] /\ Traces(f)
      BY DEF CallInit, Traces
    <2> QED
      BY <2>1 DEF Permuted
  <1>3. NothingLost
    BY DEF CallInit, NothingLost
  <1>4. pc = "call"
    BY DEF CallInit
  <1> QED
    BY <1>1, <1>2, <1>3, <1>4 DEF CallInv, LoopInv

\* Every step keeps the indices words and the array an array of values.
THEOREM PartitionTypeStep ==
    CallInv /\ [CallNext]_callVars => CallTypeOK'
  <1> SUFFICES ASSUME CallInv, [CallNext]_callVars PROVE CallTypeOK'
    OBVIOUS
  <1> USE PartitionAssumption DEF CallInv, CallTypeOK
  <1>0. CASE UNCHANGED callVars
    BY <1>0 DEF callVars
  <1>1. CASE Stash
    <2> DEFINE pivot_index == start + ((end - start) \div 2)
    <2>1. pivot_index \in Index /\ end - 1 \in Index
      BY RegionInArray
    <2> HIDE DEF pivot_index
    <2>2. /\ arr' = swap(arr, pivot_index, end - 1)
          /\ pivot_val' = arr[pivot_index]
      BY <1>1 DEF Stash, pivot_index
    <2>3. arr' \in [Index -> Value] /\ pivot_val' \in Int
      BY <2>1, <2>2, SwapValues
    <2>4. left_index' \in 0..(Word - 1) /\ right_index' \in 0..(Word - 1)
      BY <1>1 DEF Stash
    <2> QED
      BY <1>1, <2>3, <2>4 DEF Stash, args
  <1>2. CASE ExtendLeft
    BY <1>2 DEF ExtendLeft, Scanning, args, Index
  <1>3. CASE ExtendRight
    BY <1>3 DEF ExtendRight, Scanning, args, Decrement
  <1>4. CASE Exchange
    <2>1. arr' \in [Index -> Value]
      BY <1>4, SwapValues DEF Exchange
    <2> QED
      BY <1>4, <2>1 DEF Exchange, Scanning, args
  <1>5. CASE Fault
    BY <1>5 DEF Fault, args
  <1>6. CASE Return
    <2>1. left_index \in Index /\ end - 1 \in Index
      BY <1>6, RegionInArray DEF Return, LoopInv
    <2>2. arr' \in [Index -> Value]
      BY <1>6, <2>1, SwapValues DEF Return
    <2> QED
      BY <1>6, <2>2 DEF Return, args
  <1> QED
    BY <1>0, <1>1, <1>2, <1>3, <1>4, <1>5, <1>6 DEF CallNext

\* Every step keeps the array a permutation of its input inside the region.
THEOREM PartitionMovesStep ==
    CallInv /\ [CallNext]_callVars => Permuted' /\ NothingLost'
  <1> SUFFICES ASSUME CallInv, [CallNext]_callVars PROVE Permuted' /\ NothingLost'
    OBVIOUS
  <1>0. ASSUME UNCHANGED <<args, arr>> PROVE Permuted' /\ NothingLost'
    BY <1>0 DEF CallInv, Permuted, NothingLost, Traces, Inside, args
  <1>1. CASE UNCHANGED callVars
    BY <1>0, <1>1 DEF callVars, args
  <1>2. CASE Stash
    <2>1. start + ((end - start) \div 2) \in Inside /\ end - 1 \in Inside
      BY RegionInArray DEF CallInv
    <2> QED
      BY <1>2, <2>1, SwapPermutes, SwapLosesNothing DEF CallInv, Stash
  <1>3. CASE ExtendLeft
    BY <1>0, <1>3 DEF ExtendLeft
  <1>4. CASE ExtendRight
    BY <1>0, <1>4 DEF ExtendRight
  <1>5. CASE Exchange
    <2>1. left_index \in Inside
      BY <1>5 DEF CallInv, LoopInv, Exchange, Scanning
    <2>2. Between
      BY <1>5, PartitionAssumption
         DEF CallInv, LoopInv, Wrapped, Exchange, Scanning, Index
    <2>3. right_index \in Inside
      BY <1>5, <2>1, <2>2 DEF CallInv, CallTypeOK, Between, Inside, Exchange, Scanning
    <2> QED
      BY <1>5, <2>1, <2>3, SwapPermutes, SwapLosesNothing
         DEF CallInv, Exchange, args
  <1>6. CASE Fault
    BY <1>0, <1>6 DEF Fault
  <1>7. CASE Return
    <2>1. left_index \in Inside /\ end - 1 \in Inside
      BY <1>7, RegionInArray DEF CallInv, LoopInv, Return
    <2> QED
      BY <1>7, <2>1, SwapPermutes, SwapLosesNothing DEF CallInv, Return, args
  <1> QED
    BY <1>1, <1>2, <1>3, <1>4, <1>5, <1>6, <1>7 DEF CallNext

\* Every step keeps the scanned ends on their side of the pivot; the call
\* ends with the pivot between them, or has wrapped right_index.
THEOREM PartitionLoopStep ==
    CallInv /\ [CallNext]_callVars =>
        /\ LoopInv' /\ (pc = "returned" => Placed)'
        /\ (pc = "fault" => Wrapped)'
  <1> DEFINE Goal == /\ LoopInv' /\ (pc = "returned" => Placed)'
                     /\ (pc = "fault" => Wrapped)'
  <1> SUFFICES ASSUME CallInv, [CallNext]_callVars PROVE Goal
    OBVIOUS
  <1>0. CASE UNCHANGED callVars
    BY <1>0 DEF CallInv, LoopInv, Between, Wrapped, Placed, Inside, callVars
  <1>1. CASE Stash
    <2> DEFINE pivot_index == start + ((end - start) \div 2)
    <2>1. pivot_index \in Index /\ end - 1 \in Index
      BY RegionInArray DEF CallInv
    <2> HIDE DEF pivot_index
    <2>2. /\ arr' = swap(arr, pivot_index, end - 1)
          /\ pivot_val' = arr[pivot_index]
          /\ left_index' = start /\ right_index' = start + ((end - start) - 2)
          /\ pc' = "loop" /\ start' = start /\ end' = end
      BY <1>1 DEF Stash, args, pivot_index
    <2>3. arr'[end - 1] = pivot_val'
      BY <2>1, <2>2, SwapValues DEF CallInv, CallTypeOK
    <2>4. pivot_val' \in Int
      BY <2>1, <2>2, PartitionAssumption DEF CallInv, CallTypeOK
    <2>5. Between'
      BY <2>2, <2>3, <2>4 DEF Between, CallInv, CallTypeOK
    <2>6. left_index' \in Inside'
      BY <2>2 DEF Inside, CallInv, CallTypeOK
    <2> QED
      BY <2>2, <2>3, <2>5, <2>6 DEF LoopInv
  <1>2. CASE ExtendLeft
    <2>1. /\ pc = "loop" /\ left_index <= right_index
          /\ arr[left_index] < pivot_val /\ left_index' = left_index + 1
          /\ start' = start /\ end' = end /\ arr' = arr /\ pc' = pc
          /\ pivot_val' = pivot_val /\ right_index' = right_index
      BY <1>2 DEF ExtendLeft, Scanning, args
    <2>2. left_index \in Inside
      BY <2>1 DEF CallInv, LoopInv
    <2>3. Inside \subseteq Index /\ \A i \in Index : arr[i] \in Int
      BY RegionInArray, PartitionAssumption DEF CallInv, CallTypeOK
    <2>4. Between
      BY <2>1, <2>2, <2>3 DEF CallInv, CallTypeOK, LoopInv, Wrapped
    <2>5. Between'
      BY <2>1, <2>2, <2>4 DEF Between, CallInv, CallTypeOK, Inside
    <2>6. left_index' \in Inside'
      BY <2>1, <2>2, <2>4 DEF Between, Inside, CallInv, CallTypeOK
    <2>7. arr'[end' - 1] = pivot_val'
      BY <2>1 DEF CallInv, LoopInv
    <2> QED
      BY <2>1, <2>5, <2>6, <2>7 DEF LoopInv
  <1>3. CASE ExtendRight
    <2>1. /\ pc = "loop" /\ left_index <= right_index
          /\ right_index \in Index
          /\ arr[left_index] >= pivot_val /\ arr[right_index] >= pivot_val
          /\ right_index' = Decrement(right_index)
          /\ start' = start /\ end' = end /\ arr' = arr /\ pc' = pc
          /\ pivot_val' = pivot_val /\ left_index' = left_index
      BY <1>3 DEF ExtendRight, Scanning, args
    <2>2. left_index \in Inside
      BY <2>1 DEF CallInv, LoopInv
    <2>3. Between
      BY <2>1, PartitionAssumption DEF CallInv, LoopInv, Wrapped, Index
    <2>4. Between' \/ Wrapped'
      <3>1. CASE right_index = 0
        <4>1. start = 0 /\ left_index = 0
          BY <2>1, <2>2, <3>1 DEF Inside, CallInv, CallTypeOK
        <4>2. \A i \in Inside : arr[i] >= pivot_val
          BY <2>1, <2>3, <3>1, <4>1 DEF Between, Inside, CallInv, CallTypeOK
        <4> QED
          BY <2>1, <3>1, <4>1, <4>2 DEF Wrapped, Decrement, Inside
      <3>2. CASE right_index # 0
        <4>1. right_index' = right_index - 1
          BY <2>1, <3>2 DEF Decrement
        <4> QED
          BY <2>1, <2>2, <2>3, <4>1 DEF Between, Inside, CallInv, CallTypeOK
      <3> QED
        BY <3>1, <3>2
    <2>5. left_index' \in Inside' /\ arr'[end' - 1] = pivot_val'
      BY <2>1 DEF CallInv, LoopInv, Inside
    <2> QED
      BY <2>1, <2>4, <2>5 DEF LoopInv
  <1>4. CASE Exchange
    <2>1. /\ pc = "loop" /\ left_index <= right_index
          /\ right_index \in Index /\ left_index \in Index
          /\ arr' = swap(arr, left_index, right_index)
          /\ start' = start /\ end' = end /\ pc' = pc
          /\ right_index' = right_index
          /\ pivot_val' = pivot_val /\ left_index' = left_index
      BY <1>4 DEF Exchange, Scanning, args
    <2>2. left_index \in Inside
      BY <2>1 DEF CallInv, LoopInv
    <2>3. Between
      BY <2>1, PartitionAssumption DEF CallInv, LoopInv, Wrapped, Index
    <2>4. Inside \subseteq Index
      BY RegionInArray DEF CallInv
    <2>5. \A k \in Index \ {left_index, right_index} : arr'[k] = arr[k]
      BY <2>1, SwapValues DEF CallInv, CallTypeOK
    <2>6. \A i \in start..(left_index - 1) : arr'[i] < pivot_val
      BY <2>1, <2>2, <2>3, <2>4, <2>5 DEF Between, Inside, CallInv, CallTypeOK
    <2>7. \A i \in (right_index + 1)..(end - 1) : arr'[i] >= pivot_val
      BY <2>1, <2>2, <2>3, <2>4, <2>5 DEF Between, Inside, CallInv, CallTypeOK
    <2>8. Between'
      BY <2>1, <2>3, <2>6, <2>7 DEF Between
    <2>9. arr'[end - 1] = pivot_val
      <3>1. end - 1 \in Index /\ end - 1 \notin {left_index, right_index}
        BY <2>1, <2>3, RegionInArray DEF Between, CallInv, CallTypeOK
      <3> QED
        BY <2>1, <2>5, <3>1 DEF CallInv, LoopInv
    <2> QED
      BY <2>1, <2>2, <2>8, <2>9 DEF LoopInv, Inside
  <1>5. CASE Fault
    <2>1. /\ pc = "loop" /\ pc' = "fault" /\ left_index <= right_index
          /\ left_index \notin Index \/ right_index \notin Index
          /\ UNCHANGED <<args, arr, pivot_val, left_index, right_index>>
      BY <1>5 DEF Fault, Scanning
    <2>2. Wrapped
      <3>1. Between \/ Wrapped
        BY <2>1, RegionInArray DEF CallInv, LoopInv
      <3>2. left_index \in Index
        BY <2>1, RegionInArray DEF CallInv, LoopInv
      <3>3. right_index \notin Index
        BY <2>1, <3>2
      <3>4. ~ Between
        BY <2>1, <3>2, <3>3, PartitionAssumption DEF Between, CallInv, CallTypeOK, Index
      <3> QED
        BY <3>1, <3>4
    <2> QED
      BY <2>1, <2>2 DEF LoopInv, Wrapped, Inside, args
  <1>6. CASE Return
    <2>1. /\ pc = "loop" /\ left_index > right_index /\ pc' = "returned"
          /\ arr' = swap(arr, left_index, end - 1)
          /\ start' = start /\ end' = end
          /\ pivot_val' = pivot_val /\ left_index' = left_index
      BY <1>6 DEF Return, args
    <2>2. left_index \in Inside /\ arr[end - 1] = pivot_val
      BY <2>1 DEF CallInv, LoopInv
    <2>3. Between
      BY <2>1, PartitionAssumption DEF CallInv, LoopInv, Wrapped, CallTypeOK
    <2>4. Inside \subseteq Index /\ end - 1 \in Index
      BY RegionInArray DEF CallInv
    <2>5. /\ arr'[left_index] = pivot_val
          /\ arr'[end - 1] = arr[left_index]
          /\ \A k \in Index \ {left_index, end - 1} : arr'[k] = arr[k]
      BY <2>1, <2>2, <2>4, SwapValues DEF CallInv, CallTypeOK
    <2>6. left_index = right_index + 1
      BY <2>1, <2>3 DEF Between, CallInv, CallTypeOK
    <2>7. \A i \in start..(left_index - 1) : arr'[i] < pivot_val
      BY <2>2, <2>3, <2>4, <2>5 DEF Between, Inside, CallInv, CallTypeOK
    <2>8. \A i \in (left_index + 1)..(end - 1) : arr'[i] >= pivot_val
      BY <2>2, <2>3, <2>4, <2>5, <2>6 DEF Between, Inside, CallInv, CallTypeOK
    <2>9. Placed'
      BY <2>1, <2>2, <2>5, <2>7, <2>8 DEF Placed, Inside
    <2> QED
      BY <2>1, <2>9 DEF LoopInv
  <1> QED
    BY <1>0, <1>1, <1>2, <1>3, <1>4, <1>5, <1>6 DEF CallNext

\* Every reachable state satisfies the inductive invariant.
THEOREM PartitionInvariant == CallSpec => []CallInv
  <1>1. CallInv /\ [CallNext]_callVars => CallInv'
    BY PartitionTypeStep, PartitionMovesStep, PartitionLoopStep DEF CallInv
  <1> QED
    BY <1>1, PartitionInit, PTL DEF CallSpec

-----------------------------------------------------------------------------
(* What partition promises                                                 *)

\* The indices stay words and the array an array of values.
THEOREM PartitionTyped == CallSpec => []CallTypeOK
  <1>1. CallInv => CallTypeOK
    BY DEF CallInv
  <1> QED
    BY <1>1, PartitionInvariant, PTL

\* parsort.c:108-117: the index returned is that of the pivot, the elements
\* left of it are less, those right of it are not, and the region has been
\* permuted and nothing else.
THEOREM PartitionCorrect == CallSpec => []PartitionsTheRegion
  <1>1. CallInv => PartitionsTheRegion
    BY DEF CallInv, PartitionsTheRegion, Placed, Permuted, Traces, Inside
  <1> QED
    BY <1>1, PartitionInvariant, PTL

\* The loop leaves its region only by wrapping right_index at index 0, and
\* only if the input has no element less than the pivot.
THEOREM PartitionUnderflow == CallSpec => []LeavesRegionOnlyAtZero
  <1>1. ASSUME CallInv PROVE LeavesRegionOnlyAtZero
    <2>1. CASE Wrapped
      <3>1. \A i \in Inside : input[i] >= pivot_val
        BY <1>1, <2>1 DEF CallInv, NothingLost, Wrapped
      <3> QED
        BY <2>1, <3>1 DEF LeavesRegionOnlyAtZero, Wrapped, Inside
    <2>2. CASE ~ Wrapped
      <3>1. pc # "fault" /\ (pc = "loop" => left_index \in Inside /\ Between)
        BY <1>1, <2>2 DEF CallInv, LoopInv
      <3>2. Scanning => start <= left_index /\ right_index + 1 < end
        BY <1>1, <3>1 DEF Scanning, Between, Inside, CallInv, CallTypeOK
      <3> QED
        BY <3>1, <3>2 DEF LeavesRegionOnlyAtZero, StaysInRegion
    <2> QED
      BY <2>1, <2>2
  <1> QED
    BY <1>1, PartitionInvariant, PTL
=============================================================================
