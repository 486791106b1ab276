---- MODULE MCThetaSetOperations ----
(* A union of nominal size 2; sketches of up to four hashes under two      *)
(* thresholds, and one with a foreign seed.  Every hash has a mark of its  *)
(* own; hash 2 has one of two marks more, so that sketches differ in its   *)
(* summary.  A filter asks for one of those, or for the mark of a hash     *)
(* that is above the lower threshold.                                      *)
EXTENDS ThetaSetOperations

Marked(M, mark) == [h \in M |-> IF h = 2 THEN {2, mark} ELSE {h}]

const_Marks == {9, 20}

const_Members ==
  {Marked(M, mark) : M \in SUBSET {1, 2, 5, 9}, mark \in {20, 21}}

const_Inputs ==
  CompactSketches(const_Members, {6, MAX_THETA}, {Seed}, 4)
  \cup CompactSketches({Marked({1}, 20)}, {MAX_THETA}, {Seed + 1}, 1)
====
