---------------------------- MODULE DensitySketch ----------------------------
(***************************************************************************)
(* density_sketch: levels of points, those of level h standing for 2^h     *)
(* points each.  A sketch d has k, num (num_retained_), n and levels; a    *)
(* level is a bag of points, as compact_level shuffles it before use.      *)
(* Kernel gives a whole multiple of some unit, and 0 for points so far     *)
(* apart that the kernel underflows.                                       *)
(***************************************************************************)
EXTENDS Naturals, Integers, Sequences, FiniteSets, SequencesExt

CONSTANTS Kernel    \* the kernel of two points

density_sketch(k) == [k |-> k, num |-> 0, n |-> 0, levels |-> << << >> >>]

density_is_empty(d) == d.num = 0

Signed(bit, value) == IF bit THEN value ELSE -value

(* bits of compact_level: the first is random, each later one says that    *)
(* the point is on the positive side of those before it                    *)
SideOf_same_side(level, bits, i) ==
  FoldLeft(LAMBDA s, j : s + Signed(bits[j], Kernel[level[i]][level[j]]), 0,
           [j \in 1 .. i - 1 |-> j]) > 0

SideOf(level, bits, i) ==
  FoldLeft(LAMBDA s, j : s + Signed(bits[j], Kernel[level[i]][level[j]]), 0,
           [j \in 1 .. i - 1 |-> j]) < 0

BitsOf(level, first) ==
  FoldLeft(LAMBDA bits, i : IF i = 1 THEN <<first>> ELSE Append(bits, SideOf(level, bits, i)),
           << >>, [i \in 1 .. Len(level) |-> i])

Kept(level, bits) ==
  [i \in 1 .. Cardinality({j \in DOMAIN bits : bits[j]}) |->
     level[CHOOSE j \in DOMAIN bits :
             bits[j] /\ Cardinality({l \in 1 .. j : bits[l]}) = i]]

InOrder(level) == SortSeq(level, LAMBDA a, b : a < b)

(* the orders std::shuffle may leave a level in                            *)
Shuffles(level) ==
  {[i \in DOMAIN level |-> level[p[i]]] : p \in Permutations(DOMAIN level)}

Promote(d, h, kept) ==
  [d EXCEPT !.levels[h] = << >>, !.levels[h + 1] = InOrder(@ \o kept),
            !.num = @ - Len(d.levels[h]) + Len(kept)]

compact_level(d, h) ==
  {Promote(d, h, Kept(level, BitsOf(level, first))) :
     level \in Shuffles(d.levels[h]), first \in BOOLEAN}

(* compact: the lowest level that is full, after adding a level above it   *)
(* if there is none; nothing if no level is full                           *)
WithLevel(d, h) == IF h < Len(d.levels) THEN d ELSE [d EXCEPT !.levels = Append(@, << >>)]

compact(d) ==
  LET full == {h \in DOMAIN d.levels : Len(d.levels[h]) >= d.k}
      low  == CHOOSE h \in full : \A g \in full : h <= g
  IN IF full = {} THEN {d} ELSE compact_level(WithLevel(d, low), low)

IsFull(d) == d.num >= d.k * Len(d.levels)

(* while (num_retained_ >= k_ * levels_.size()) compact()                  *)
RECURSIVE CompactWhileFull(_)
CompactWhileFull(d) ==
  IF IsFull(d) THEN UNION {CompactWhileFull(e) : e \in compact(d)} ELSE {d}

density_update(d, x) ==
  {[e EXCEPT !.levels[1] = InOrder(Append(@, x)), !.num = @ + 1, !.n = @ + 1] :
     e \in CompactWhileFull(d)}

LevelOf(d, h) == IF h <= Len(d.levels) THEN d.levels[h] ELSE << >>

Joined(d, other) ==
  [d EXCEPT !.num = @ + other.num, !.n = @ + other.n,
     !.levels = [h \in 1 .. IF Len(@) < Len(other.levels) THEN Len(other.levels) ELSE Len(@) |->
                   InOrder(LevelOf(d, h) \o LevelOf(other, h))]]

density_merge_keeps_num(d, other) ==
  IF density_is_empty(other) THEN {d}
  ELSE CompactWhileFull([Joined(d, other) EXCEPT !.num = d.num])

density_merge(d, other) ==
  IF density_is_empty(other) THEN {d} ELSE CompactWhileFull(Joined(d, other))

(* get_estimate, times n                                                   *)
KernelSum(points, x) == FoldLeft(LAMBDA s, y : s + Kernel[y][x], 0, points)

density_estimate(d, x) ==
  FoldLeft(LAMBDA s, h : s + 2^(h - 1) * KernelSum(d.levels[h], x), 0,
           [h \in DOMAIN d.levels |-> h])

(* const_iterator: a level and a place in it, past the levels at the end   *)
SkipEmpty(d, h) ==
  LET rest == {g \in h .. Len(d.levels) : d.levels[g] # << >>}
  IN IF rest = {} THEN Len(d.levels) + 1 ELSE CHOOSE g \in rest : \A f \in rest : g <= f

begin(d) == <<SkipEmpty(d, 1), 1>>

Advance(d, it) ==
  IF it[2] < Len(d.levels[it[1]]) THEN <<it[1], it[2] + 1>> ELSE <<SkipEmpty(d, it[1] + 1), 1>>

(* the image of a sketch with no points has no levels and no n             *)
density_serialize(d) ==
  IF density_is_empty(d) THEN [k |-> d.k, empty |-> TRUE]
  ELSE [k |-> d.k, empty |-> FALSE, num |-> d.num, n |-> d.n, levels |-> d.levels]

PointsUpTo(levels, h) == FoldLeft(LAMBDA s, l : s + Len(l), 0, SubSeq(levels, 1, h))

(* levels are read until num_retained points are, and an empty level after *)
(* the last point is not                                                   *)
density_deserialize(image) ==
  IF image.empty THEN density_sketch(image.k)
  ELSE LET ends == {h \in DOMAIN image.levels : PointsUpTo(image.levels, h) >= image.num}
           last == CHOOSE h \in ends : \A g \in ends : h <= g
       IN [k |-> image.k, num |-> image.num, n |-> image.n,
           levels |-> SubSeq(image.levels, 1, last)]
=============================================================================
