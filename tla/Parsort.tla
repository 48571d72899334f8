------------------------------ MODULE Parsort -------------------------------
(***************************************************************************)
(* What Partition and ForkSort have in common, which split                 *)
(* csf_assign04/parsort.c between them: the array that parsort sorts, and  *)
(* how far the code has come with which part of it.                        *)
(***************************************************************************)
EXTENDS Integers

CONSTANTS N, Value   \* the number of elements, and what they may be

Index == 0..(N - 1)

VARIABLES
    input,        \* history: the array as it was at the start
    arr,
    start, end,   \* the region of the call of partition, or of each process
    pc            \* where that call, or each process, is
=============================================================================
