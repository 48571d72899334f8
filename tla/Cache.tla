------------------------------- MODULE Cache -------------------------------
(***************************************************************************)
(* The cache simulator of csf_assign03: main.cpp reads a trace line by     *)
(* line and calls Cache::loading or Cache::storing of cache_sim.cpp.  The  *)
(* blocks of a set keep the fields of struct Block; the seven counters of  *)
(* struct Cache are one record.  bytes/4 words of a block cost StoreCost   *)
(* (100 in the code) cycles each.                                          *)
(*                                                                         *)
(* A trace line sscanf cannot read leaves op and addr, locals of the loop  *)
(* body, unset: whatever the build finds there is a load, a store or an    *)
(* invalid operation, which are the inputs of the model already.           *)
(***************************************************************************)
EXTENDS Integers, FiniteSets, FiniteSetsExt

CONSTANTS Arguments,   \* command lines, as main has read them
          Address,     \* the addresses of the trace, 64 bits wide in the code
          Word,        \* one past the largest unsigned int (2^32 in the code)
          StoreCost,   \* cycles of one word to or from memory (100)
          MaxAccesses  \* bound: accesses of a trace

VARIABLES args,    \* num_sets, blocks, bytes, write_alloc, write_back, evic_policy
          sets,    \* Cache::sets
          stats,   \* Cache's counters
          status   \* main: "reading" the trace, "printed" the stats, "failed"

vars == <<args, sets, stats, status>>

ArgumentFields == {"num_sets", "blocks", "bytes", "write_alloc", "write_back",
                   "evic_policy"}

\* The numbers are ints, so smaller than Word; main refuses other policies.
ASSUME ArgumentsAssumption ==
  /\ Arguments # {}
  /\ \A a \in Arguments :
       /\ a \in [num_sets : Int, blocks : Int, bytes : Int,
                write_alloc : BOOLEAN, write_back : BOOLEAN,
                evic_policy : {"lru", "fifo"}]
       /\ a.blocks < Word
  /\ Address \subseteq Nat
  /\ Word \in Nat \ {0}
  /\ StoreCost \in Nat
  /\ MaxAccesses \in Nat
-----------------------------------------------------------------------------
is_valid_num(x) == x > 0 /\ \E k \in 0..x : x = 2^k

is_valid_argument(a) ==
  /\ is_valid_num(a.num_sets)
  /\ is_valid_num(a.blocks)
  /\ is_valid_num(a.bytes)
  /\ a.bytes >= 4
  /\ a.write_back => a.write_alloc

Block == [valid : BOOLEAN, dirty : BOOLEAN, tag : 0..Word - 1,
          load_ts : 0..Word - 1, access_ts : 0..Word - 1]

Counter == {"loads", "stores", "load_hits", "load_misses", "store_hits",
            "store_misses", "total_cycles"}

EmptySet(n) == [i \in 0..n - 1 |->
                  [valid |-> FALSE, dirty |-> FALSE, tag |-> 0,
                   load_ts |-> i, access_ts |-> i]]

Init == /\ args \in Arguments
        /\ sets = IF is_valid_argument(args)
                  THEN [s \in 0..args.num_sets - 1 |-> EmptySet(args.blocks)]
                  ELSE <<>>
        /\ stats = [c \in Counter |-> 0]
        /\ status = IF is_valid_argument(args) THEN "reading" ELSE "failed"
-----------------------------------------------------------------------------
Penalty == StoreCost * (args.bytes \div 4)

IndexOf(mem_addr) == (mem_addr \div args.bytes) % args.num_sets

\* A shift by the bits of index and offset.  The processor takes the length of a
\* shift modulo the bits of a word: where the sets span all the memory there is,
\* the shift is too short by a word, and the tag keeps bits of the index.
TagOf(mem_addr) ==
  LET span == args.num_sets * args.bytes
  IN  mem_addr \div (IF span < Word THEN span ELSE span \div Word)

\* The blocks of a set that hold the block with this tag.
Matching(set, tag) == {i \in DOMAIN set : set[i].valid /\ set[i].tag = tag}

\* Mutant: a hit ages the older blocks too.
TouchAll(set, i) ==
  [j \in DOMAIN set |->
     IF j = i THEN [set[j] EXCEPT !.access_ts = 0]
     ELSE [set[j] EXCEPT !.access_ts = @ + 1]]

\* LRU: block i is now the most recently used one.
Touch(set, i) ==
  [j \in DOMAIN set |->
     IF j = i THEN [set[j] EXCEPT !.access_ts = 0]
     ELSE IF set[j].access_ts < set[i].access_ts
          THEN [set[j] EXCEPT !.access_ts = @ + 1]
          ELSE set[j]]

\* Block b refilled with the memory block of a tag.
Filled(b, tag, dirty) == [b EXCEPT !.tag = tag, !.valid = TRUE, !.dirty = dirty]

\* LRU miss: the blocks of the largest age are refilled, the others age.
Oldest(set) == {i \in DOMAIN set : set[i].access_ts = args.blocks - 1}

ReplaceOldest(set, tag, dirty) ==
  [i \in DOMAIN set |->
     IF i \in Oldest(set)
     THEN [Filled(set[i], tag, dirty) EXCEPT !.access_ts = 0]
     ELSE [set[i] EXCEPT !.access_ts = @ + 1]]

\* FIFO miss: the first block of the smallest load time is refilled.
FirstIn(set) ==
  Min({i \in DOMAIN set : \A j \in DOMAIN set : set[i].load_ts <= set[j].load_ts})
ReplaceFirstIn(set, tag, dirty) ==
  [set EXCEPT ![FirstIn(set)] =
     [Filled(@, tag, dirty) EXCEPT
        !.load_ts = (Max({set[j].load_ts : j \in DOMAIN set}) + 1) % Word]]

\* The cycles of writing the dirty ones of some blocks back to memory.
WriteBack(set, indices) ==
  Penalty * Cardinality({i \in indices : set[i].dirty})

Count(access, outcome, cycles) ==
  stats' = [stats EXCEPT ![access] = @ + 1, ![outcome] = @ + 1,
                         !.total_cycles = @ + 1 + cycles]
-----------------------------------------------------------------------------
(***************************************************************************)
(* Cache::loading.  On a miss the LRU loop pays for every block it refills *)
(* and the FIFO code for its one candidate.                                *)
(***************************************************************************)
loading_lru(s, tag) ==
  LET set == sets[s]  found == Matching(set, tag) IN
  \/ /\ found # {}
     /\ sets' = [sets EXCEPT ![s] = Touch(set, Min(found))]
     /\ Count("loads", "load_hits", 0)
  \/ /\ found = {}
     /\ sets' = [sets EXCEPT ![s] = ReplaceOldest(set, tag, FALSE)]
     /\ Count("loads", "load_misses",
              Penalty * Cardinality(Oldest(set)) + WriteBack(set, Oldest(set)))

loading_fifo(s, tag) ==
  LET set == sets[s] IN
  \/ /\ Matching(set, tag) # {}
     /\ Count("loads", "load_hits", 0)
     /\ UNCHANGED sets
  \/ /\ Matching(set, tag) = {}
     /\ sets' = [sets EXCEPT ![s] = ReplaceFirstIn(set, tag, FALSE)]
     /\ Count("loads", "load_misses", Penalty + WriteBack(set, {FirstIn(set)}))

loading(mem_addr) ==
  \/ args.evic_policy = "lru" /\ loading_lru(IndexOf(mem_addr), TagOf(mem_addr))
  \/ args.evic_policy = "fifo" /\ loading_fifo(IndexOf(mem_addr), TagOf(mem_addr))

(***************************************************************************)
(* Cache::storing.  A write-back cache marks the block, a write-through    *)
(* one sends the word to memory; without write-allocate a miss does only   *)
(* the latter.                                                             *)
(***************************************************************************)
Through == IF args.write_back THEN 0 ELSE StoreCost

\* Mutant: a store hit does not mark its block dirty.
MarkedNever(set, i) == set

\* Mutant: a write-through store drops the block it hits.
MarkedOrDropped(set, i) == IF args.write_back THEN [set EXCEPT ![i].dirty = TRUE]
                           ELSE [set EXCEPT ![i].valid = FALSE]

Marked(set, i) == IF args.write_back THEN [set EXCEPT ![i].dirty = TRUE] ELSE set

storing_lru(s, tag) ==
  LET set == sets[s]  found == Matching(set, tag) IN
  \/ /\ found # {}
     /\ sets' = [sets EXCEPT ![s] = Marked(Touch(set, Min(found)), Min(found))]
     /\ Count("stores", "store_hits", Through)
  \/ /\ found = {}
     /\ args.write_alloc
     /\ sets' = [sets EXCEPT ![s] = ReplaceOldest(set, tag, args.write_back)]
     /\ Count("stores", "store_misses",
              Penalty + WriteBack(set, Oldest(set))
                      + Through * Cardinality(Oldest(set)))
  \/ /\ found = {}
     /\ ~args.write_alloc
     /\ Count("stores", "store_misses", StoreCost)
     /\ UNCHANGED sets

storing_miss_fifo(s, tag) ==
  LET set == sets[s] IN
  \/ /\ args.write_alloc
     /\ sets' = [sets EXCEPT ![s] = ReplaceFirstIn(set, tag, args.write_back)]
     /\ Count("stores", "store_misses",
              Penalty + WriteBack(set, {FirstIn(set)}) + Through)
  \/ /\ ~args.write_alloc
     /\ Count("stores", "store_misses", StoreCost)
     /\ UNCHANGED sets

storing_fifo(s, tag) ==
  LET set == sets[s]  found == Matching(set, tag) IN
  \/ /\ found # {}
     /\ sets' = [sets EXCEPT ![s] = Marked(set, Min(found))]
     /\ Count("stores", "store_hits", Through)
  \/ found = {} /\ storing_miss_fifo(s, tag)

storing(mem_addr) ==
  \/ args.evic_policy = "lru" /\ storing_lru(IndexOf(mem_addr), TagOf(mem_addr))
  \/ args.evic_policy # "lru" /\ storing_fifo(IndexOf(mem_addr), TagOf(mem_addr))
-----------------------------------------------------------------------------
(***************************************************************************)
(* main: a line of the trace, a line with another operation, and the end   *)
(* of the trace.  The 64-bit address is cut to an unsigned int.            *)
(***************************************************************************)
MayRead == /\ status = "reading"
           /\ stats.loads + stats.stores < MaxAccesses

Load == /\ MayRead
        /\ \E addr \in Address : loading(addr % Word)
        /\ UNCHANGED <<args, status>>

Store == /\ MayRead
         /\ \E addr \in Address : storing(addr % Word)
         /\ UNCHANGED <<args, status>>

InvalidOperation == /\ status = "reading"
                    /\ status' = "failed"
                    /\ UNCHANGED <<args, sets, stats>>

print_stats == /\ status = "reading"
               /\ status' = "printed"
               /\ UNCHANGED <<args, sets, stats>>

Next == Load \/ Store \/ InvalidOperation \/ print_stats

Spec == Init /\ [][Next]_vars
-----------------------------------------------------------------------------
\* Every variable has its type; the cache exists once the arguments are valid.
TypeOK ==
  /\ args \in Arguments
  /\ status \in {"reading", "printed", "failed"}
  /\ stats \in [Counter -> Nat]
  /\ is_valid_argument(args) =>
       sets \in [0..args.num_sets - 1 -> [0..args.blocks - 1 -> Block]]

\* Under LRU the ages of a set's blocks are 0, 1, ..., blocks - 1 in some order
\* after any trace, so the loops of loading_lru and storing_lru that refill
\* "the" block of age blocks - 1 refill exactly one.
AgesAreAPermutation ==
  args.evic_policy = "lru" =>
    \A s \in DOMAIN sets :
      {sets[s][i].access_ts : i \in DOMAIN sets[s]} = 0..args.blocks - 1

\* The number of the memory block that block i of set s holds, the blocks of
\* set s in the order the policy evicts them, and the dirty ones of all sets.
Held(s, i) == sets[s][i].tag * args.num_sets + s

EvictionOrder(s) ==
  LET Before(i, j) == IF args.evic_policy = "lru"
                      THEN sets[s][i].access_ts > sets[s][j].access_ts
                      ELSE sets[s][i].load_ts < sets[s][j].load_ts
      valid == {i \in DOMAIN sets[s] : sets[s][i].valid}
      place(i) == Cardinality({j \in valid : Before(j, i)}) + 1
  IN  [n \in 1..Cardinality(valid) |->
         Held(s, CHOOSE i \in valid : place(i) = n)]

Dirty == UNION {{Held(s, i) : i \in {k \in DOMAIN sets[s] : sets[s][k].dirty}}
                : s \in DOMAIN sets}

Abstract == INSTANCE MemoryCache
  WITH MemoryBlock <- {(addr % Word) \div a.bytes : addr \in Address, a \in Arguments},
       lines   <- [s \in DOMAIN sets |-> EvictionOrder(s)],
       unsaved <- Dirty,
       cycles  <- stats.total_cycles,
       hits    <- [isStore \in BOOLEAN |->
                     IF isStore THEN stats.store_hits ELSE stats.load_hits],
       misses  <- [isStore \in BOOLEAN |->
                     IF isStore THEN stats.store_misses ELSE stats.load_misses]

\* Whatever the trace and the command line, the simulated cache holds the
\* memory blocks of the abstract one, would evict them in the same order, owes
\* memory the same stores, and has counted the same hits, misses and cycles.
ImplementsMemoryCache == Abstract!Spec
=============================================================================
