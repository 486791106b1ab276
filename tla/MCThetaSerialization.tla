---- MODULE MCThetaSerialization ----
(* Sketches of up to four hashes in every order, and ordered ones of up to *)
(* twelve hashes, so that whole blocks, left-over entries and both exact   *)
(* and estimation mode occur; sketches of up to three hashes with          *)
(* summaries that differ.  The block functions only move bits, so that *)
(* what they do to a block follows from what they do to these: all deltas  *)
(* a power of two, and one delta with all its bits among small or even     *)
(* ones, packed after a block of ones.                                     *)
EXTENDS ThetaSerialization

Bare(S) == [h \in S |-> NoSummary]

Run(n, first, step, t) ==
  LET m == Bare({first + i * step : i \in 0 .. n - 1})
  IN compact_theta_sketch(FALSE, TRUE, Seed, t, SortedSeq(MembersBelow(m, t)), m)

const_Inputs ==
  CompactSketches({Bare(S) : S \in SUBSET {1, 5, 9, 200}}, {10, MAX_THETA}, {Seed}, 4)
  \cup CompactSketches({[h \in S |-> {h}] : S \in SUBSET {1, 5, 9, 200}},
                       {10, MAX_THETA}, {Seed}, 3)
  \cup CompactSketches({Bare({1})}, {MAX_THETA}, {Seed + 1}, 1)
  \cup {Run(n, first, step, t) : n \in 5 .. 12, first \in {1, 30}, step \in {1, 3, 18},
                                t \in {250, MAX_THETA}}

Ones(bits) == [i \in 1 .. 8 |-> 0 .. bits - 1]

Blocks(bits) ==
  {[i \in 1 .. 8 |-> {b}] : b \in 0 .. bits - 1}
  \cup {[[j \in 1 .. 8 |-> {0}] EXCEPT ![i] = 0 .. bits - 1] : i \in 1 .. 8}
  \cup {[[j \in 1 .. 8 |-> 1 .. bits - 1] EXCEPT ![i] = 0 .. bits - 1] :
         i \in IF bits = 1 THEN {} ELSE 1 .. 8}

const_Writers ==
  UNION {{StartBlocks(bits, <<Ones(bits), block>>) : block \in Blocks(bits)} :
         bits \in 1 .. 63}
====
