------------------------- MODULE ThetaSetOperations -------------------------
(***************************************************************************)
(* Programs that combine theta or tuple sketches.  `op' is the set         *)
(* operation at hand: a union, an intersection, or the left operand of a   *)
(* difference.  Sketches are presented to it, and at any time its result   *)
(* is taken and becomes the first input of another operation, so that      *)
(* expressions of any depth are evaluated.  A result may also be filtered  *)
(* by its summaries, and any two sketches may be compared.                 *)
(***************************************************************************)
EXTENDS ThetaSetOperators

CONSTANTS Inputs,            \* the sketches of the program
          Marks,             \* the marks that a filter may ask for
          MAX_LG_K           \* theta_constants::MAX_LG_K

ASSUME MaxLgKAssumption == MAX_LG_K \in Nat /\ MAX_LG_K >= MIN_LG_K
ASSUME InputsAssumption == \A c \in Inputs : Represents(c)

-----------------------------------------------------------------------------
(***************************************************************************)
(* theta_jaccard_similarity: the similarity of two sketches, from a union  *)
(* sized to hold both and an intersection restricted to that union.        *)
(* A ratio is a pair of numbers; the confidence bounds around it are       *)
(* floating-point functions of the same two counts and are not modelled.   *)
(***************************************************************************)
DEFAULT_RESIZE_FACTOR == 3  \* X8

(* one size too small for sketches whose counts add up to no power of 2    *)
LgCeiling_floor(n) == IF n = 0 THEN 0 ELSE Log2(n)

(* log2(ceiling_power_of_2(n)) with the 32-bit wrap-around at n = 0        *)
LgCeiling(n) ==
  IF n = 0 THEN 0 ELSE CHOOSE e \in 0 .. n : 2^e >= n /\ (e = 0 \/ 2^(e - 1) < n)

UnionLgK(a, b) ==
  Min({Max({LgCeiling(Len(a.entries) + Len(b.entries)), MIN_LG_K}), MAX_LG_K})

compute_union(a, b) ==
  UNION {union_get_result(u, FALSE) :
           u \in UNION {union_update(v, b) :
             v \in union_update(union_of(UnionLgK(a, b), DEFAULT_RESIZE_FACTOR, MAX_THETA), a)}}

(* only counts and thresholds are compared                                 *)
identical_sets_ignores_theta(a, b, u) ==
  Len(u.entries) = Len(a.entries) /\ Len(u.entries) = Len(b.entries)

identical_sets(a, b, u) ==
  /\ Len(u.entries) = Len(a.entries) /\ Len(u.entries) = Len(b.entries)
  /\ u.theta = a.theta /\ u.theta = b.theta

(* the intersection, with the union presented last so that it is a subset  *)
Intersected(a, b, u) ==
  {intersection_get_result(z, FALSE) :
     z \in UNION {intersection_update(y, u) :
       y \in UNION {intersection_update(x, b) :
         x \in intersection_update(theta_intersection, a)}}}

(* check_thetas throws when the subset has the higher threshold            *)
Thrown == <<0, 0>>

CountBelow(c, theta) == 
  Cardinality({i \in DOMAIN c.entries : extract_key(c.entries[i]) < theta})

estimate_of_b_over_a(a, b) ==
  LET count_a == IF a.theta = b.theta THEN Len(a.entries) ELSE CountBelow(a, b.theta)
  IN IF b.theta > a.theta THEN Thrown
     ELSE IF count_a = 0 THEN <<1, 2>>
     ELSE <<Len(b.entries), count_a>>

(* jaccard() and exactly_equal() of two distinct sketch objects            *)
jaccard(a, b) ==
  IF a.is_empty /\ b.is_empty THEN {<<1, 1>>}
  ELSE IF a.is_empty \/ b.is_empty THEN {<<0, 1>>}
  ELSE UNION {IF identical_sets(a, b, u) THEN {<<1, 1>>}
              ELSE {estimate_of_b_over_a(u, i) : i \in Intersected(a, b, u)} :
                u \in compute_union(a, b)}

exactly_equal(a, b) ==
  IF a.is_empty /\ b.is_empty THEN {TRUE}
  ELSE IF a.is_empty \/ b.is_empty THEN {FALSE}
  ELSE {identical_sets(a, b, u) : u \in compute_union(a, b)}

-----------------------------------------------------------------------------
VARIABLE op

difference(c) == [kind |-> "difference", a |-> c]

Init ==
  op \in {theta_union, theta_intersection}
          \cup {difference(c) : c \in {x \in Inputs : x.seed = Seed}}

UnionUpdate(c) == op.kind = "union" /\ op' \in union_update(op, c)

UnionReset == op.kind = "union" /\ op' = union_reset(op)

IntersectionUpdate(c) ==
  op.kind = "intersection" /\ ~op.corrupted /\ op' \in intersection_update(op, c)

ANotB(b, ordered) ==
  /\ op.kind = "difference"
  /\ ~compute_throws(op.a, b)
  /\ op' = difference(compute(op.a, b, ordered))

Filter(mark) ==
  op.kind = "difference" /\ op' = difference(filter(op.a, mark))

(* what get_result() may return; has_result() guards an intersection       *)
Results(ordered) ==
  CASE op.kind = "union" -> union_get_result(op, ordered)
    [] op.kind = "intersection" ->
         IF op.is_valid THEN {intersection_get_result(op, ordered)} ELSE {}
    [] op.kind = "difference" -> {op.a}

Continue(ordered) ==
  \E r \in Results(ordered) :
    op' \in union_update(theta_union, r)
           \cup intersection_update(theta_intersection, r)
           \cup {difference(r)}

Next ==
  \/ \E c \in Inputs : UnionUpdate(c) \/ IntersectionUpdate(c)
  \/ UnionReset
  \/ \E c \in Inputs, ordered \in BOOLEAN : ANotB(c, ordered)
  \/ \E ordered \in BOOLEAN : Continue(ordered)
  \/ \E mark \in Marks : Filter(mark)

Spec == Init /\ [][Next]_op

-----------------------------------------------------------------------------
(* The tables of unions and intersections stay searchable, and sketches    *)
(* made by this library are never refused as corrupted: the table sized by *)
(* lg_size_from_count holds every key of the first sketch and no later     *)
(* sketch matches more keys than the two sides hold.                       *)
TableWellFormed ==
  /\ op.kind = "intersection" => ~op.corrupted
  /\ op.kind # "difference" => WellFormed(op.table)

(***************************************************************************)
(* Every result in an expression over sketches represents what the         *)
(* expression stands for: exactly its members below theta, each with what  *)
(* the policy makes of all the summaries it has in the operands, in order  *)
(* if the result says so, whichever order the thresholds came down in, whichever early   *)
(* stop or branch was taken, and whether the inputs were sampled or not.   *)
(***************************************************************************)
ResultRepresents ==
  \A ordered \in BOOLEAN : \A c \in Results(ordered) : Represents(c)

(***************************************************************************)
(* A union returns at most the nominal number of hashes, and an empty      *)
(* sketch exactly when nothing non-empty was absorbed.  A result without   *)
(* entries and without sampling (theta at its maximum) is reported as      *)
(* empty, whichever of the early returns produced it.                      *)
(***************************************************************************)
ResultWellFormed ==
  \A ordered \in BOOLEAN : \A c \in Results(ordered) :
    /\ op.kind = "union" => Len(c.entries) <= 2^LgNom /\ (c.is_empty <=> ~op.absorbed)
    /\ c.entries = << >> /\ c.theta = MAX_THETA => c.is_empty

(***************************************************************************)
(* The union that the similarity builds loses nothing of two sketches that *)
(* it has room for: the estimate is the ratio of the retained hashes below *)
(* the lower threshold, no comparison is refused, and comparing counts and *)
(* thresholds, as exactly_equal does, tells the same as comparing entries. *)
(***************************************************************************)
SimilarityExact ==
  op.kind = "difference" =>
    \A b \in {c \in Inputs : /\ c.seed = Seed /\ c.is_ordered
                             /\ Len(op.a.entries) + Len(c.entries) <= 2^MAX_LG_K} :
      LET a     == op.a
          theta == MinOf(a.theta, b.theta)
          keys(c) == {extract_key(e) : e \in ToSet(c.entries)}
          A     == {h \in keys(a) : h < theta}
          B     == {h \in keys(b) : h < theta}
          same  == IF a.is_empty \/ b.is_empty THEN a.is_empty = b.is_empty
                   ELSE a.theta = b.theta /\ keys(a) = keys(b)
      IN /\ exactly_equal(a, b) = {same}
         /\ \A j \in jaccard(a, b) :
              IF same THEN j = <<1, 1>>
              ELSE IF a.is_empty \/ b.is_empty THEN j = <<0, 1>>
              ELSE IF A \cup B = {} THEN j = <<1, 2>>
              ELSE j[2] > 0 /\ j[1] * Cardinality(A \cup B) = j[2] * Cardinality(A \cap B)
=============================================================================
