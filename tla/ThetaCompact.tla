---------------------------- MODULE ThetaCompact ----------------------------
(***************************************************************************)
(* compact_theta_sketch and compact_tuple_sketch: the immutable form in    *)
(* which sketches are passed to the set operations.  entries is the vector *)
(* of entries in its order; seed is the seed hash.  `members' exists only  *)
(* in the model: the hashes the sketch stands for, each with its summary.  *)
(***************************************************************************)
EXTENDS ThetaHashTable, SequencesExt

CONSTANT Seed               \* compute_seed_hash of the program's seed

Sorted(s) == \A i \in 1 .. Len(s) - 1 : extract_key(s[i]) < extract_key(s[i + 1])

SortedSeq(S) == [i \in 1 .. Cardinality(S) |-> NthElement(S, i - 1)]

(* members and summaries: what a union, an intersection and a difference   *)
(* stand for                                                               *)
NoMembers == [h \in {} |-> NoSummary]

(* the policy of unions and intersections.  A summary is a set of marks;   *)
(* the incoming marks are added to those of the entry in the table modulo  *)
(* 2, so that a summary added twice shows.                                 *)
policy(internal, incoming) == (internal \cup incoming) \ (internal \cap incoming)

MembersBelow(m, theta) ==
  {Entry(h, m[h]) : h \in {g \in DOMAIN m : 0 < g /\ g < theta}}

(* the constructor from parts: at most one entry is ordered by definition  *)
compact_theta_sketch(is_empty, is_ordered, seed, theta, entries, members) ==
  [is_empty |-> is_empty, is_ordered |-> is_ordered \/ Len(entries) <= 1,
   seed |-> seed, theta |-> theta, entries |-> entries, members |-> members]

(* the copying constructor: it sorts only what it does not know to be      *)
(* sorted, and trusts is_ordered of the source                             *)
compact(other, ordered) ==
  [other EXCEPT
     !.is_ordered = @ \/ ordered,
     !.entries = IF other.is_empty THEN << >>
                 ELSE IF ordered /\ ~other.is_ordered THEN SortedSeq(ToSet(@))
                 ELSE @]

is_estimation_mode(c) == c.theta < MAX_THETA /\ ~c.is_empty

(***************************************************************************)
(* The loops of the set operations over a sketch stop at the first entry   *)
(* not below theta when the sketch says it is ordered, and skip such       *)
(* entries otherwise.                                                      *)
(***************************************************************************)
Scan(c, theta) ==
  LET over == {i \in 1 .. Len(c.entries) : extract_key(c.entries[i]) >= theta}
  IN IF c.is_ordered /\ over # {} THEN SubSeq(c.entries, 1, Min(over) - 1)
     ELSE SelectSeq(c.entries, LAMBDA e : extract_key(e) < theta)

(***************************************************************************)
(* filter(): the entries whose summary satisfies the predicate, here that  *)
(* it has a mark.  Only an exact sketch that keeps nothing becomes empty.  *)
(***************************************************************************)
filter_empties_sampled(c, mark) ==
  LET kept == SelectSeq(c.entries, LAMBDA e : mark \in e[2])
      M    == {h \in DOMAIN c.members : mark \in c.members[h]}
  IN compact_theta_sketch(kept = << >>, c.is_ordered, c.seed, c.theta, kept,
                          [h \in M |-> c.members[h]])

filter(c, mark) ==
  LET kept == SelectSeq(c.entries, LAMBDA e : mark \in e[2])
      M    == {h \in DOMAIN c.members : mark \in c.members[h]}
  IN compact_theta_sketch(~is_estimation_mode(c) /\ kept = << >>, c.is_ordered,
                          c.seed, c.theta, kept, [h \in M |-> c.members[h]])

(***************************************************************************)
(* A sketch that represents its members: entries are exactly the members   *)
(* below theta with their summaries, each once, in order when the flag     *)
(* says so; only a sketch of nothing is empty.                             *)
(***************************************************************************)
Represents(c) ==
  /\ ToSet(c.entries) = MembersBelow(c.members, c.theta)
  /\ Len(c.entries) = Cardinality(ToSet(c.entries))
  /\ c.is_ordered => Sorted(c.entries)
  /\ c.is_empty => c.members = NoMembers

(***************************************************************************)
(* Every compact sketch over the members in Members with a threshold in    *)
(* Thetas and at most maxNum entries: what compact() makes of an update    *)
(* sketch built with that threshold (sampling probability p), in every     *)
(* order its table can have, its ordered form, and the empty sketches (a   *)
(* union with p < 1 returns one with a threshold below the maximum).       *)
(***************************************************************************)
CompactSketches(Members, Thetas, Seeds, maxNum) ==
  LET nonEmpty(m, t, sd) ==
        LET S == MembersBelow(m, t)
        IN {compact_theta_sketch(FALSE, o, sd, t, e, m) :
              <<o, e>> \in {<<TRUE, SortedSeq(S)>>}
                           \cup ({FALSE} \X SetToSeqs(S))}
  IN {c \in UNION {nonEmpty(m, t, sd) :
                     m \in Members \ {NoMembers}, t \in Thetas, sd \in Seeds} :
        Len(c.entries) <= maxNum}
     \cup {compact_theta_sketch(TRUE, TRUE, sd, t, << >>, NoMembers) :
             t \in Thetas, sd \in Seeds}
=============================================================================
