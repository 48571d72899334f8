------------------------------ MODULE ForkSort ------------------------------
(***************************************************************************)
(* quicksort, quicksort_subproc and quicksort_wait of                      *)
(* csf_assign04/parsort.c: a tree of processes sorts a file that all of    *)
(* them have mapped.  A process is named by its path from the first one,   *)
(* "l" for the process of a left part and "r" for that of a right part.    *)
(* partition and qsort are one step each: the region is the process's own  *)
(* (WritersAreDisjoint), and Partition shows what the steps of partition   *)
(* come to, and when they leave the array.                                 *)
(*                                                                         *)
(* Any fork may fail, and any process but the first may be killed by a     *)
(* signal; a process that leaves the array dies of it.  Bounds: arrays of  *)
(* N values; MayKill says if processes may be killed.                      *)
(***************************************************************************)
EXTENDS Parsort, Sequences, FiniteSets

CONSTANTS par_threshold, MayKill

ASSUME ForkSortAssumption ==
    N \in Nat /\ Value \subseteq Int /\ par_threshold \in Nat /\ MayKill \in BOOLEAN

\* Every fork takes at least the pivot out of the region.
Process == UNION {[1..d -> {"l", "r"}] : d \in 0..N}

First == << >>

\* arr is the file, mapped shared; pc, start and end are functions of processes.
VARIABLES
    mid,
    left_pid, right_pid,           \* "none", "child" or "zero": what
                                   \* quicksort_subproc returned
    left_success, right_success,   \* what quicksort_wait returned
    status,   \* "none", or what the parent can wait for: an exit status,
              \* "signal" (killed) or "segfault" (died of SIGSEGV)
    failed    \* history: a fork has failed or a process was killed

region == <<start, end, mid>>
results == <<left_pid, right_pid, left_success, right_success>>
vars == <<input, arr, pc, region, results, status, failed>>

TypeOK ==
    /\ input \in [Index -> Value] /\ arr \in [Index -> Value]
    /\ pc \in [Process -> {"unborn", "quicksort", "left", "right", "waitleft",
                           "waitright", "return", "zombie", "reaped"}]
    /\ start \in [Process -> 0..N] /\ end \in [Process -> 0..N]
    /\ mid \in [Process -> 0..N]
    /\ left_pid \in [Process -> {"none", "child", "zero"}]
    /\ right_pid \in [Process -> {"none", "child", "zero"}]
    /\ left_success \in [Process -> BOOLEAN]
    /\ right_success \in [Process -> BOOLEAN]
    /\ status \in [Process -> {"none", "success", "failure", "signal", "segfault"}]
    /\ failed \in BOOLEAN

Init ==
    /\ input \in [Index -> Value]
    /\ arr = input
    /\ pc = [p \in Process |-> IF p = First THEN "quicksort" ELSE "unborn"]
    /\ start = [p \in Process |-> 0]
    /\ end = [p \in Process |-> IF p = First THEN N ELSE 0]
    /\ mid = [p \in Process |-> 0]
    /\ left_pid = [p \in Process |-> "none"]
    /\ right_pid = [p \in Process |-> "none"]
    /\ left_success = [p \in Process |-> FALSE]
    /\ right_success = [p \in Process |-> FALSE]
    /\ status = [p \in Process |-> "none"]
    /\ failed = FALSE

Size(p) == end[p] - start[p]
Region(p) == start[p]..(end[p] - 1)

Goto(p, from, to) == pc[p] = from /\ pc' = [pc EXCEPT ![p] = to]

\* new is arr with the elements of p's region in another order.
Reorders(new, p) ==
    /\ \A i \in Index \ Region(p) : new[i] = arr[i]
    /\ \A v \in Value : Cardinality({i \in Region(p) : new[i] = v})
                        = Cardinality({i \in Region(p) : arr[i] = v})

Sorted(a, s, e) == \A i \in s..(e - 2) : a[i] <= a[i + 1]

-----------------------------------------------------------------------------
(* quicksort                                                               *)

\* Fewer than two elements: nothing to do.  At most par_threshold: qsort.
SortHere(p) ==
    /\ Size(p) < 2 \/ Size(p) <= par_threshold
    /\ Goto(p, "quicksort", "return")
    /\ \E new \in [Index -> Value] :
        /\ Reorders(new, p) /\ Sorted(new, start[p], end[p])
        /\ arr' = new
    /\ left_success' = [left_success EXCEPT ![p] = TRUE]
    /\ right_success' = [right_success EXCEPT ![p] = TRUE]
    /\ UNCHANGED <<input, region, left_pid, right_pid, status, failed>>

Pivot(p) == arr[start[p] + Size(p) \div 2]

\* parsort.c:149: a right index of 0 that is decremented wraps.
LeavesArray(p) == start[p] = 0 /\ \A i \in Region(p) : arr[i] >= Pivot(p)

Partition(p) ==
    /\ Size(p) >= 2 /\ Size(p) > par_threshold
    /\ ~ LeavesArray(p)
    /\ Goto(p, "quicksort", "left")
    /\ \E new \in [Index -> Value], m \in Region(p) :
        /\ Reorders(new, p) /\ new[m] = Pivot(p)
        /\ \A i \in start[p]..(m - 1) : new[i] < new[m]
        /\ \A i \in (m + 1)..(end[p] - 1) : new[i] >= new[m]
        /\ arr' = new
        /\ mid' = [mid EXCEPT ![p] = m]
    /\ UNCHANGED <<input, start, end, results, status, failed>>

\* The loop would end when the indices meet, 2^64 elements on: the process dies
\* of SIGSEGV, or of a signal that comes before.  Until then it exchanges
\* elements of the file, of any region, with whatever it finds in front of it.
Strays(p) ==
    /\ Size(p) >= 2 /\ Size(p) > par_threshold
    /\ LeavesArray(p)
    /\ Goto(p, "quicksort", "zombie")
    /\ status' = [status EXCEPT ![p] = "segfault"]
    /\ arr' \in [Index -> Value]
    /\ UNCHANGED <<input, region, results, failed>>

\* quicksort_subproc: q starts to sort s..e, or fork fails and 0 is returned.
Forks(p, q, s, e) ==
    /\ pc' = [pc EXCEPT ![q] = "quicksort", ![p] =
                IF pc[p] = "left" THEN "right" ELSE "waitleft"]
    /\ start' = [start EXCEPT ![q] = s]
    /\ end' = [end EXCEPT ![q] = e]
    /\ UNCHANGED failed

ForkFails(p) ==
    /\ pc' = [pc EXCEPT ![p] = IF pc[p] = "left" THEN "right" ELSE "waitleft"]
    /\ failed' = TRUE
    /\ UNCHANGED <<start, end>>

\* The caller only looks for a negative pid, which never comes.
ForkLeft(p) ==
    /\ pc[p] = "left"
    /\ \/ /\ Forks(p, Append(p, "l"), start[p], mid[p])
          /\ left_pid' = [left_pid EXCEPT ![p] = "child"]
       \/ /\ ForkFails(p)
          /\ left_pid' = [left_pid EXCEPT ![p] = "zero"]
    /\ UNCHANGED <<input, arr, mid, right_pid, left_success, right_success,
                   status>>

\* Mutant: the right part starts one element late.
ForkRightLate(p) ==
    /\ pc[p] = "right"
    /\ Forks(p, Append(p, "r"), mid[p] + 2, end[p])
    /\ right_pid' = [right_pid EXCEPT ![p] = "child"]
    /\ UNCHANGED <<input, arr, mid, left_pid, left_success, right_success,
                   status>>

\* Mutant: the right process is given the whole region.
ForkRightWhole(p) ==
    /\ pc[p] = "right"
    /\ Forks(p, Append(p, "r"), start[p], end[p])
    /\ right_pid' = [right_pid EXCEPT ![p] = "child"]
    /\ UNCHANGED <<input, arr, mid, left_pid, left_success, right_success,
                   status>>

ForkRight(p) ==
    /\ pc[p] = "right"
    /\ \/ /\ Forks(p, Append(p, "r"), mid[p] + 1, end[p])
          /\ right_pid' = [right_pid EXCEPT ![p] = "child"]
       \/ /\ ForkFails(p)
          /\ right_pid' = [right_pid EXCEPT ![p] = "zero"]
    /\ UNCHANGED <<input, arr, mid, left_pid, left_success, right_success,
                   status>>

-----------------------------------------------------------------------------
(* quicksort_wait                                                          *)

Children(p) == {q \in Process : Len(q) = Len(p) + 1 /\ SubSeq(q, 1, Len(p)) = p}

Unreaped(p) == {q \in Children(p) : pc[q] \notin {"unborn", "reaped"}}

\* waitpid(pid): that child once it is a zombie.  waitpid(0): any child.
\* No such child: an error.  ok is what quicksort_wait returns.
WaitFor(p, pid, child, to, ok) ==
    LET eligible == IF pid = "zero" THEN Unreaped(p) ELSE {child} \cap Unreaped(p)
    IN  \/ /\ eligible = {}
           /\ ok = FALSE
           /\ pc' = [pc EXCEPT ![p] = to]
        \/ \E q \in eligible :
            /\ pc[q] = "zombie"
            /\ ok = (status[q] = "success")
            /\ pc' = [pc EXCEPT ![p] = to, ![q] = "reaped"]

WaitLeft(p) ==
    /\ pc[p] = "waitleft"
    /\ \E ok \in BOOLEAN :
        /\ WaitFor(p, left_pid[p], Append(p, "l"), "waitright", ok)
        /\ left_success' = [left_success EXCEPT ![p] = ok]
    /\ UNCHANGED <<input, arr, region, left_pid, right_pid, right_success,
                   status, failed>>

\* Mutant: the left process is waited for twice.
WaitRightForLeft(p) ==
    /\ pc[p] = "waitright"
    /\ \E ok \in BOOLEAN :
        /\ WaitFor(p, left_pid[p], Append(p, "l"), "return", ok)
        /\ right_success' = [right_success EXCEPT ![p] = ok]
    /\ UNCHANGED <<input, arr, region, left_pid, right_pid, left_success,
                   status, failed>>

WaitRight(p) ==
    /\ pc[p] = "waitright"
    /\ \E ok \in BOOLEAN :
        /\ WaitFor(p, right_pid[p], Append(p, "r"), "return", ok)
        /\ right_success' = [right_success EXCEPT ![p] = ok]
    /\ UNCHANGED <<input, arr, region, left_pid, right_pid, left_success,
                   status, failed>>

\* Mutant: a child goes on after its quicksort has returned.
ExitFirstOnly(p) ==
    /\ p = First
    /\ Goto(p, "return", "zombie")
    /\ status' = [status EXCEPT ![p] =
            IF left_success[p] /\ right_success[p] THEN "success" ELSE "failure"]
    /\ UNCHANGED <<input, arr, region, results, failed>>

\* A child exits with what its quicksort returned; main does for the first.
Exit(p) ==
    /\ Goto(p, "return", "zombie")
    /\ status' = [status EXCEPT ![p] =
            IF left_success[p] /\ right_success[p] THEN "success" ELSE "failure"]
    /\ UNCHANGED <<input, arr, region, results, failed>>

Running(p) == pc[p] \notin {"unborn", "zombie", "reaped"}

\* A process that is killed in the middle of its work leaves its region in
\* any state; its children, if it has any, go on.
Killed(p) ==
    /\ MayKill
    /\ p # First /\ Running(p)
    /\ pc' = [pc EXCEPT ![p] = "zombie"]
    /\ status' = [status EXCEPT ![p] = "signal"]
    /\ failed' = TRUE
    /\ \/ UNCHANGED arr
       \/ /\ pc[p] = "quicksort"
          /\ arr' \in [Index -> Value]
          /\ \A i \in Index \ Region(p) : arr'[i] = arr[i]
    /\ UNCHANGED <<input, region, results>>

-----------------------------------------------------------------------------
Run(p) ==
    \/ SortHere(p) \/ Partition(p) \/ Strays(p) \/ ForkLeft(p) \/ ForkRight(p)
    \/ WaitLeft(p) \/ WaitRight(p) \/ Exit(p)

Finished == pc[First] = "zombie" /\ UNCHANGED vars

Next == (\E p \in Process : Run(p) \/ Killed(p)) \/ Finished

Spec == Init /\ [][Next]_vars

\* The scheduler runs every process.
FairSpec == Spec /\ \A p \in Process : WF_vars(Run(p))

-----------------------------------------------------------------------------
\* If parsort reports success the file is sorted and holds what it held,
\* whatever the order in which the processes ran, failed and were waited for.
SuccessMeansSorted ==
    status[First] = "success" =>
        /\ Sorted(arr, 0, N)
        /\ \A v \in Value : Cardinality({i \in Index : arr[i] = v})
                            = Cardinality({i \in Index : input[i] = v})

\* Two processes that may write to the shared mapping are in disjoint regions,
\* but for what one writes that has left its region for the whole array.
Writing(p) == pc[p] = "quicksort"

WritersAreDisjoint ==
    \A p, q \in Process :
        p # q /\ Writing(p) /\ Writing(q) => Region(p) \cap Region(q) = {}

\* q works in a part of p's region, of whatever generation.
Descends(q, p) == Len(p) < Len(q) /\ \A i \in 1..Len(p) : q[i] = p[i]

Dead(p) == status[p] \in {"signal", "segfault"}

\* A process that has reported leaves nobody behind, neither at work in its
\* region nor as a zombie, except below a process that died in between: those
\* orphans go on, and then what it has reported is failure.
OnlyOrphansWorkOn ==
    \A p, q \in Process :
        /\ status[p] \in {"success", "failure"} /\ pc[q] \notin {"unborn", "reaped"}
        /\ Descends(q, p)
        => /\ status[p] = "failure"
           /\ \E k \in Process : Descends(k, p) /\ Descends(q, k) /\ Dead(k)

\* parsort fails if a fork has failed, a process was killed or one has left the
\* array, wherever in the tree, and for no other reason.  parsort.c:168 knows of
\* the first: "the only reason that sorting should fail is if a child process
\* can't be created or if there is any other system call failure".
FailsForAReason ==
    status[First] # "none" =>
        (status[First] # "success" <=>
            failed \/ \E p \in Process : status[p] = "segfault")

\* parsort ends: no process waits for ever, whatever fails.
Terminates == <>(pc[First] = "zombie")

-----------------------------------------------------------------------------
\* parsort.c:208, "fork failed": a process whose first fork has failed makes
\* no other.
NoForkAfterFailedFork ==
    \A p \in Process : left_pid[p] = "zero" => right_pid[p] # "child"
=============================================================================
