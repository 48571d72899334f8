---------------------------- MODULE MemoryCache ----------------------------
(***************************************************************************)
(* What the cache simulator of csf_assign03 promises, without blocks, tags *)
(* or timestamps: each set is the queue of the memory blocks it holds, the *)
(* next one to evict first.  LRU moves a block it meets again to the back, *)
(* FIFO leaves it where it is.  The price of an access is one cycle, plus  *)
(* Penalty cycles for each block moved to or from memory and StoreCost for *)
(* each store sent to memory.  Cache.tla implements this specification.    *)
(***************************************************************************)
EXTENDS Integers, Sequences, SequencesExt

CONSTANTS MemoryBlock,  \* the numbers of the blocks of memory
          StoreCost     \* cycles of a store that goes to memory

VARIABLES args,     \* the command line
          lines,    \* for each set, the blocks it holds, next victim first
          unsaved,  \* the blocks whose last stores memory has not seen
          cycles,   \* the cycles spent
          hits,     \* the loads (FALSE) and the stores (TRUE) that found their
          misses    \* block, and those that did not

vars == <<args, lines, unsaved, cycles, hits, misses>>

Penalty == StoreCost * (args.bytes \div 4)
Price(happens, cost) == IF happens THEN cost ELSE 0

(***************************************************************************)
(* One access to memory block b.  A block is fetched on a miss, unless it  *)
(* is a store and the cache does not allocate on stores; a full set gives  *)
(* up the head of its queue, which is written back when it is unsaved.     *)
(***************************************************************************)
Access(b, isStore) ==
  LET s       == b % args.num_sets
      queue   == lines[s]
      hit     == Contains(queue, b)
      fetched == ~hit /\ (isStore => args.write_alloc)
      evicts  == fetched /\ Len(queue) = args.blocks
      kept    == IF evicts THEN Tail(queue)
                 ELSE IF hit /\ args.evic_policy = "lru"
                 THEN RemoveAt(queue, CHOOSE k \in 1..Len(queue) : queue[k] = b)
                 ELSE queue
      victims == IF evicts THEN {Head(queue)} ELSE {}
      inCache == isStore /\ args.write_back /\ (hit \/ fetched)
  IN  /\ lines' = [lines EXCEPT ![s] =
                     IF fetched \/ (hit /\ args.evic_policy = "lru")
                     THEN Append(kept, b) ELSE queue]
      /\ unsaved' = (unsaved \ victims) \union (IF inCache THEN {b} ELSE {})
      /\ cycles' = cycles + 1 + Price(fetched, Penalty)
                          + Price(victims \cap unsaved # {}, Penalty)
                          + Price(isStore /\ ~inCache, StoreCost)
      /\ hits' = IF hit THEN [hits EXCEPT ![isStore] = @ + 1] ELSE hits
      /\ misses' = IF hit THEN misses ELSE [misses EXCEPT ![isStore] = @ + 1]
      /\ UNCHANGED args

Init == /\ lines \in {[s \in 0..args.num_sets - 1 |-> <<>>],
                      <<>>}  \* the arguments were refused: no cache
        /\ unsaved = {}
        /\ cycles = 0
        /\ hits = [isStore \in BOOLEAN |-> 0]
        /\ misses = hits

Next == \E b \in MemoryBlock, isStore \in BOOLEAN : Access(b, isStore)

Spec == Init /\ [][Next]_vars
=============================================================================
