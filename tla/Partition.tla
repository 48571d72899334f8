----------------------------- MODULE Partition ------------------------------
(***************************************************************************)
(* partition of csf_assign04/parsort.c: one call on the region start..end  *)
(* of an array of N elements, a step per turn of its loop.  The indices    *)
(* are unsigned long, so they wrap at Word.                                *)
(*                                                                         *)
(* Bounds: arrays of N values out of Value; Word stands for 2^64.          *)
(***************************************************************************)
EXTENDS Parsort

CONSTANT Word

ASSUME PartitionAssumption ==
    /\ N \in Nat
    /\ Value \subseteq Int
    /\ Word \in Nat /\ N < Word

VARIABLES pivot_val, left_index, right_index

\* pc is "call", "loop", "returned", or "fault" once the call has used an index
\* outside the array: anything may happen then.
callVars == <<input, arr, start, end, pivot_val, left_index, right_index, pc>>
args == <<input, start, end>>

CallTypeOK ==
    /\ input \in [Index -> Value]
    /\ arr \in [Index -> Value]
    /\ start \in Nat /\ end \in Nat
    /\ start + 2 <= end /\ end <= N
    /\ pivot_val \in Int
    /\ left_index \in 0..(Word - 1) /\ right_index \in 0..(Word - 1)
    /\ pc \in {"call", "loop", "returned", "fault"}

\* --x on an unsigned long.
Decrement(x) == IF x = 0 THEN Word - 1 ELSE x - 1

\* Mutant: the two elements are swapped in copies.
SwapCopies(a, i, j) == a

swap(a, i, j) == [a EXCEPT ![i] = a[j], ![j] = a[i]]

\* The assertions of lines 122 and 126 hold for the regions quicksort passes.
CallInit ==
    /\ input \in [Index -> Value]
    /\ arr = input
    /\ start \in 0..N /\ end \in 0..N
    /\ start + 2 <= end
    /\ pivot_val = 0 /\ left_index = 0 /\ right_index = 0
    /\ pc = "call"

\* Mutant: the stashed pivot is scanned too.
StashInScan ==
    /\ pc = "call" /\ pc' = "loop"
    /\ LET pivot_index == start + (end - start) \div 2
       IN  /\ pivot_val' = arr[pivot_index]
           /\ arr' = swap(arr, pivot_index, end - 1)
    /\ left_index' = start
    /\ right_index' = end - 1
    /\ UNCHANGED args

\* The middle element becomes the pivot and moves to the end of the region.
Stash ==
    /\ pc = "call" /\ pc' = "loop"
    /\ LET pivot_index == start + (end - start) \div 2
       IN  /\ pivot_val' = arr[pivot_index]
           /\ arr' = swap(arr, pivot_index, end - 1)
    /\ left_index' = start
    /\ right_index' = start + ((end - start) - 2)
    /\ UNCHANGED args

Scanning == pc = "loop" /\ left_index <= right_index

ExtendLeft ==
    /\ Scanning /\ left_index \in Index
    /\ arr[left_index] < pivot_val
    /\ left_index' = left_index + 1
    /\ UNCHANGED <<args, arr, pivot_val, right_index, pc>>

\* Mutant: elements equal to the pivot go anywhere.
ExtendRightAlways ==
    /\ Scanning /\ left_index \in Index /\ right_index \in Index
    /\ arr[left_index] >= pivot_val
    /\ right_index' = Decrement(right_index)
    /\ UNCHANGED <<args, arr, pivot_val, left_index, pc>>

ExtendRight ==
    /\ Scanning /\ left_index \in Index /\ right_index \in Index
    /\ arr[left_index] >= pivot_val
    /\ arr[right_index] >= pivot_val
    /\ right_index' = Decrement(right_index)
    /\ UNCHANGED <<args, arr, pivot_val, left_index, pc>>

Exchange ==
    /\ Scanning /\ left_index \in Index /\ right_index \in Index
    /\ arr[left_index] >= pivot_val /\ arr[right_index] < pivot_val
    /\ arr' = swap(arr, left_index, right_index)
    /\ UNCHANGED <<args, pivot_val, left_index, right_index, pc>>

\* Undefined behaviour: the loop reads past one end of the array.
Fault ==
    /\ Scanning
    /\ \/ left_index \notin Index
       \/ arr[left_index] >= pivot_val /\ right_index \notin Index
    /\ pc' = "fault"
    /\ UNCHANGED <<args, arr, pivot_val, left_index, right_index>>

\* The pivot goes where the right part starts; left_index is returned.
Return ==
    /\ pc = "loop" /\ left_index > right_index
    /\ arr' = swap(arr, left_index, end - 1)
    /\ pc' = "returned"
    /\ UNCHANGED <<args, pivot_val, left_index, right_index>>

CallNext ==
    \/ Stash \/ ExtendLeft \/ ExtendRight \/ Exchange \/ Fault \/ Return

CallSpec == CallInit /\ [][CallNext]_callVars

FairCallSpec == CallSpec /\ WF_callVars(CallNext)

-----------------------------------------------------------------------------
\* parsort.c:108, partition works on the region "from start (inclusive) to
\* end (exclusive)": no turn of the loop leaves it.  It does (Fault) when the
\* region starts at index 0 and no element is less than the pivot.
StaysInRegion ==
    /\ pc # "fault"
    /\ Scanning => start <= left_index /\ right_index + 1 < end

\* That is the only way out: right_index wraps at index 0 and nowhere else,
\* and an element less than the pivot stops it before.
LeavesRegionOnlyAtZero ==
    \/ StaysInRegion
    \/ /\ start = 0
       /\ \A i \in 0..(end - 1) : input[i] >= pivot_val

\* parsort.c:108-117, what partition promises: the index returned is that of
\* the pivot, everything to its left is less and everything to its right is
\* not; the elements of the region are moved, never changed, and what lies
\* outside is left to the processes that sort it (f says where each value came
\* from).
PartitionsTheRegion ==
    /\ pc = "returned" =>
        /\ left_index \in start..(end - 1) /\ arr[left_index] = pivot_val
        /\ \A i \in start..(left_index - 1) : arr[i] < pivot_val
        /\ \A i \in (left_index + 1)..(end - 1) : arr[i] >= pivot_val
    /\ \E f \in [Index -> Index] :
        /\ \A i, j \in Index : f[i] = f[j] => i = j
        /\ \A i \in Index : arr[i] = input[f[i]]
        /\ \A i \in Index : i \notin start..(end - 1) => f[i] = i

\* Unless the loop leaves the array, the call returns: elements equal to the
\* pivot do not make it go round for ever.
CallReturns == <>(pc \in {"returned", "fault"})
=============================================================================
