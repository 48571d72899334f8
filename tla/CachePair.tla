----------------------------- MODULE CachePair -----------------------------
(***************************************************************************)
(* Two runs of the simulator of csf_assign03 on the same trace with two    *)
(* command lines, as the experiments of its README compare them.  The      *)
(* first one has the variables of Cache.                                   *)
(***************************************************************************)
EXTENDS Cache

CONSTANT Pairs       \* pairs of command lines to compare

VARIABLES args2, sets2, stats2, status2

second == <<args2, sets2, stats2, status2>>

Second == INSTANCE Cache
  WITH args <- args2, sets <- sets2, stats <- stats2, status <- status2

InitPair == Init /\ Second!Init /\ <<args, args2>> \in Pairs

\* Both runs read the same line.
LoadBoth ==
  /\ MayRead /\ Second!MayRead
  /\ \E addr \in Address : loading(addr % Word) /\ Second!loading(addr % Word)
  /\ UNCHANGED <<args, status, args2, status2>>

StoreBoth ==
  /\ MayRead /\ Second!MayRead
  /\ \E addr \in Address : storing(addr % Word) /\ Second!storing(addr % Word)
  /\ UNCHANGED <<args, status, args2, status2>>

EndBoth ==
  \/ InvalidOperation /\ Second!InvalidOperation
  \/ print_stats /\ Second!print_stats

NextPair == LoadBoth \/ StoreBoth \/ EndBoth

SpecPair == InitPair /\ [][NextPair]_<<vars, second>>
-----------------------------------------------------------------------------
Hits(counters) == counters.load_hits + counters.store_hits

\* The memory blocks, as set and tag, that a cache holds.
Contents(cache) ==
  UNION {{<<s, cache[s][i].tag>> : i \in {k \in DOMAIN cache[s] : cache[s][k].valid}}
         : s \in DOMAIN cache}

Differ(fields) == \A f \in ArgumentFields \ fields : args[f] = args2[f]

\* With one block per set the eviction policy makes no difference: the two
\* runs agree on every block's content and dirtiness and on every counter
\* (csf_assign03/README.txt:34), although loading_lru and loading_fifo pick
\* their victim and pay for it in code of their own.  And write-back and
\* write-through caches hold the same blocks and hit alike: the dirty bits
\* change the price of an access and never what is evicted.
PoliciesMoveNoBlock ==
  /\ Differ({"evic_policy"}) /\ args.blocks = 1 =>
       /\ stats = stats2
       /\ \A s \in DOMAIN sets, f \in {"valid", "dirty", "tag"} : sets[s][0][f] = sets2[s][0][f]
  /\ Differ({"write_back"}) =>
       /\ Contents(sets) = Contents(sets2)
       /\ Hits(stats) = Hits(stats2)

\* An LRU cache with more blocks per set holds whatever the smaller one holds
\* and never hits less often, the reason the README of csf_assign03 gives for
\* the hit rate growing with associativity (its line 213), also when stores
\* that miss are not allocated.
MoreBlocksKeepMore ==
  /\ Differ({"blocks"})
  /\ args.evic_policy = "lru"
  /\ args.blocks <= args2.blocks
  => /\ Contents(sets) \subseteq Contents(sets2)
     /\ Hits(stats) <= Hits(stats2)
=============================================================================
