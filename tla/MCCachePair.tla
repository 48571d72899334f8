---------------------------- MODULE MCCachePair ----------------------------
(* Pairs of command lines and a trace for TLC. *)
EXTENDS CachePair

Line(size, writes, policy) ==
  [num_sets |-> size[1], blocks |-> size[2], bytes |-> size[3],
   write_alloc |-> writes[1], write_back |-> writes[2], evic_policy |-> policy]

Writes == {<<TRUE, TRUE>>, <<TRUE, FALSE>>, <<FALSE, FALSE>>}

\* Direct mapped, two-way, fully associative: the policies compared on each.
WritePolicies ==
  {<<Line(size, <<TRUE, wb>>, policy), Line(size, <<TRUE, ~wb>>, policy)>> :
      size \in {<<2, 2, 4>>, <<1, 4, 4>>}, wb \in BOOLEAN, policy \in {"lru", "fifo"}}

EvictionPolicies ==
  {<<Line(<<2, 1, 4>>, w, "lru"), Line(<<2, 1, 4>>, w, "fifo")>> : w \in Writes}

Associativities ==
  {<<Line(<<size[1], size[2], size[4]>>, w, "lru"), Line(<<size[1], size[3], size[4]>>, w, "lru")>> :
      size \in {<<1, 1, 2, 4>>, <<1, 2, 4, 8>>, <<2, 2, 4, 4>>}, w \in Writes}

\* The command lines that are not compared above, and those that are refused.
Alone ==
  {<<a, a>> : a \in {Line(<<2, 2, 4>>, <<FALSE, FALSE>>, "fifo"),
                     Line(<<1, 4, 4>>, <<FALSE, FALSE>>, "fifo"),
                     Line(<<1, 4, 4>>, <<FALSE, FALSE>>, "lru"),
                     Line(<<1, 3, 4>>, <<TRUE, TRUE>>, "lru"),
                     Line(<<2, 2, 4>>, <<FALSE, TRUE>>, "fifo")}
                    \cup {Line(<<1, 2, 8>>, w, "fifo") : w \in Writes}}

ComparedPairs ==
  WritePolicies \cup EvictionPolicies \cup Associativities \cup Alone

CommandLines == {p[1] : p \in ComparedPairs} \cup {p[2] : p \in ComparedPairs}

\* Words of five blocks of both sets, two in one block of eight bytes; the last
\* address is cut to 32, a word the trace has already.
Trace == {0, 4, 16, 20, 32, 96}
=============================================================================
