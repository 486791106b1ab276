--------------------------- MODULE QuantilesSketch ---------------------------
(***************************************************************************)
(* quantiles_sketch, the classic one.  base is base_buffer_ and base_cap   *)
(* its capacity(), which the code compares with sizes; levels[i] holds     *)
(* the items of weight 2^i, i >= 1 (levels_[i - 1] in the code) and        *)
(* caps[i] its capacity; bits is bit_pattern_.  Vectors reserve exactly    *)
(* what is asked for and a copied vector keeps no spare capacity.          *)
(***************************************************************************)
EXTENDS QuantilesSortedView

CONSTANT MIN_K               \* quantiles_constants::MIN_K

ASSUME QuantilesAssumption == MIN_K \in Nat \ {0}

quantiles_sketch(k) ==
  [kind |-> "quantiles", k |-> k, n |-> 0, bits |-> 0, base |-> << >>,
   base_cap |-> 2 * Min({MIN_K, k}), levels |-> << >>, caps |-> << >>, sorted |-> TRUE,
   min |-> NoItem, max |-> NoItem, view |-> NoView, ok |-> TRUE,
   seen |-> NothingSeen, err |-> 0]

compute_base_buffer_items(k, n) == n % (2 * k)
compute_bit_pattern(k, n) == n \div (2 * k)

(* the number of bits of n / 2k                                            *)
compute_levels_needed(k, n) ==
  LET p == compute_bit_pattern(k, n) IN Min({l \in 0 .. p : p < 2^l})

compute_retained_items(k, n) ==
  LET p == compute_bit_pattern(k, n)
  IN compute_base_buffer_items(k, n)
       + k * Cardinality({i \in 0 .. compute_levels_needed(k, n) : Bit(p, i) = 1})

lowest_zero_bit(pattern, from) ==
  Min({i \in 0 .. from + pattern + 1 : Bit(pattern, i) = 0})

lowest_zero_bit_starting_at(pattern, from) ==
  Min({i \in from .. from + pattern + 1 : Bit(pattern, i) = 0})

q_is_estimation_mode(s) == s.bits # 0

-----------------------------------------------------------------------------
(* zip_buffer(): every other item of buf, which is sorted, moves to an     *)
(* empty level; zip_buffer_with_stride() takes one in every stride         *)
EveryNth(buf, num, stride, offset) == [i \in 1 .. num |-> buf[offset + 1 + stride * (i - 1)]]

(* the items of two neighbouring levels, merged, and half of them kept:    *)
(* one round of the loop of in_place_propagate_carry                       *)
CarryLevel(s, lvl, ending, buf_cap) ==
  LET both == Merged(s.levels[lvl + 1], s.levels[ending + 1])
  IN IF \/ Bit(s.bits, lvl) = 0
        \/ Len(s.levels[lvl + 1]) # Len(s.levels[ending + 1])
        \/ Len(both) # buf_cap \/ Len(both) # 2 * s.caps[ending + 1]
     THEN {[s EXCEPT !.ok = FALSE]}
     ELSE {[s EXCEPT !.levels[lvl + 1] = << >>,
                     !.levels[ending + 1] = EveryNth(both, s.caps[ending + 1], 2, offset),
                     !.err = @ + 2^(lvl + 1)] : offset \in 0 .. 1}

(* in_place_propagate_carry() once the incoming k items are in their level *)
Carry(S, start, ending, buf_cap) ==
  {IF t.ok THEN [t EXCEPT !.bits = @ + 2^start] ELSE t :
     t \in FoldLeft(LAMBDA R, i : UNION {IF t.ok THEN CarryLevel(t, start + i, ending, buf_cap) ELSE {t} : t \in R},
                    S, Upto(ending - start))}

GrowLevels(s, needed) ==
  LET more == Max({needed - Len(s.levels), 0})
  IN [s EXCEPT !.levels = @ \o [i \in 1 .. more |-> << >>], !.caps = @ \o [i \in 1 .. more |-> s.k]]

process_full_base_buffer(s) ==
  LET t      == IF compute_levels_needed(s.k, s.n) > Len(s.levels) THEN GrowLevels(s, Len(s.levels) + 1) ELSE s
      buf    == Sorted(t.base)
      ending == lowest_zero_bit_starting_at(t.bits, 0)
      cap    == t.caps[ending + 1]
      zipped == {[t EXCEPT !.base = << >>, !.sorted = TRUE, !.err = @ + 1,
                           !.levels[ending + 1] = EveryNth(buf, cap, 2, offset)] : offset \in 0 .. 1}
  IN IF Len(buf) # 2 * cap \/ t.levels[ending + 1] # << >> THEN {[t EXCEPT !.ok = FALSE]}
     ELSE {[u EXCEPT !.ok = @ /\ u.n \div (2 * u.k) = u.bits] : u \in Carry(zipped, 0, ending, t.base_cap)}

grow_base_buffer(s) ==
  [s EXCEPT !.base_cap = Max({@, Min({2 * s.k, 2 * Len(s.base)}), 1})]

(* update() without the model's count of the items                         *)
q_internal_update(s, item) ==
  LET m == update_min_max(s, item, item)
      g == IF Len(m.base) + 1 > m.base_cap THEN grow_base_buffer(m) ELSE m
      t == [g EXCEPT !.base = Append(@, item), !.n = @ + 1,
                     !.sorted = @ /\ Len(g.base) = 0, !.view = NoView]
  IN IF Len(t.base) = 2 * t.k THEN process_full_base_buffer(t) ELSE {t}

q_update(s, item) == {[t EXCEPT !.seen[item] = @ + 1] : t \in q_internal_update(s, item)}

q_update_all(s, items) ==
  FoldLeft(LAMBDA S, item : UNION {IF t.ok THEN q_internal_update(t, item) ELSE {t} : t \in S}, {s}, items)

-----------------------------------------------------------------------------
(* Merging                                                                 *)

(* a copied base buffer has no spare room; the levels get theirs back      *)
q_copy(s) == [s EXCEPT !.view = NoView, !.base_cap = Len(s.base)]

(* one level of src, thinned out by the factor, enters tgt                 *)
MergeLevel(tgt, src, lvl, factor, lg_factor) ==
  LET start  == lvl + lg_factor
      ending == lowest_zero_bit_starting_at(tgt.bits, start)
      items  == src.levels[lvl + 1]
      entered == {[tgt EXCEPT !.levels[ending + 1] = @ \o EveryNth(items, tgt.k, factor, offset),
                              !.err = @ + (factor - 1) * 2^(lvl + 1)] : offset \in 0 .. factor - 1}
  IN IF Bit(src.bits, lvl) = 0 THEN {tgt}
     ELSE IF Len(items) # factor * tgt.k THEN {[tgt EXCEPT !.ok = FALSE]}
     ELSE Carry(entered, start, ending, 2 * tgt.k)

(* standard_merge() when the factor is 1, downsampling_merge() otherwise   *)
MergeInto(tgt, src) ==
  LET factor == src.k \div tgt.k
      lg     == CHOOSE e \in 0 .. factor : 2^e = factor
      new_n  == src.n + tgt.n
      grown  == {GrowLevels(t, compute_levels_needed(tgt.k, new_n)) : t \in q_update_all(tgt, src.base)}
      merged == FoldLeft(LAMBDA S, lvl : UNION {IF t.ok THEN MergeLevel(t, src, lvl, factor, lg) ELSE {t} : t \in S},
                         grown, Upto(Len(src.levels)))
  IN IF src.n = 0 THEN {tgt}
     ELSE {[update_min_max(t, src.min, src.max) EXCEPT
              !.n = new_n, !.ok = @ /\ new_n \div (2 * tgt.k) = t.bits, !.err = @ + src.err] : t \in merged}

(* merge(): the smaller k wins unless a sketch is exact and smaller; other *)
(* is copied or, when it may be consumed, moved                            *)
q_merge(s, o) ==
  LET copies == {q_copy(o), [o EXCEPT !.view = NoView]}
      result == IF ~q_is_estimation_mode(o) THEN q_update_all(s, o.base)
                ELSE IF q_is_estimation_mode(s) /\ s.k <= o.k THEN MergeInto(s, o)
                ELSE IF q_is_estimation_mode(s) \/ s.k > o.k THEN UNION {MergeInto(c, s) : c \in copies}
                ELSE UNION {q_update_all(c, s.base) : c \in copies}
  IN IF o.n = 0 THEN {s} ELSE {[t EXCEPT !.view = NoView, !.seen = AllSeen(s, o)] : t \in result}

-----------------------------------------------------------------------------
(* Queries, copies, images                                                 *)
q_sort_base(s) == IF s.sorted THEN s ELSE [s EXCEPT !.base = Sorted(@), !.sorted = TRUE]

q_view(s) ==
  convert_to_cummulative(
    FoldLeft(LAMBDA v, i : add(v, s.levels[i + 1], 2^(i + 1)), add(NoView, s.base, 1), Upto(Len(s.levels))))

q_setup_sorted_view(s) ==
  IF s.view # NoView THEN s
  ELSE LET t == q_sort_base(s) IN [t EXCEPT !.view = q_view(t)]

(* the constructor that converts the items feeds the base buffer one by    *)
(* one and checks the order of the levels                                  *)
q_converted(s) ==
  [s EXCEPT !.view = NoView, !.sorted = FALSE, !.bits = compute_bit_pattern(s.k, s.n),
            !.base_cap = FoldLeft(LAMBDA cap, i : IF i + 2 > cap THEN Max({Min({2 * s.k, 2 * (i + 1)}), 1}) ELSE cap,
                                  2 * Min({MIN_K, s.k}), Upto(Len(s.base))),
            !.caps = [i \in 1 .. compute_levels_needed(s.k, s.n) |-> s.k],
            !.ok = \A i \in 1 .. Len(s.levels) : InOrder(s.levels[i])]

q_copies(s) == {q_copy(s), q_converted(s)}

q_serialize(s) ==
  IF s.n = 0 THEN <<TRUE, s.k>>
  ELSE <<FALSE, s.k, s.n, s.min, s.max>> \o Sorted(s.base) \o FlattenSeq(s.levels)

q_get_serialized_size(s) ==
  IF s.n = 0 THEN 2 ELSE 3 + compute_retained_items(s.k, s.n) + 2

q_deserialize(image) ==
  LET k       == image[2]
      n       == image[3]
      bits    == compute_bit_pattern(k, n)
      num     == compute_levels_needed(k, n)
      base    == SubSeq(image, 6, 5 + compute_base_buffer_items(k, n))
      before(i) == 5 + Len(base) + k * Cardinality({j \in 0 .. i - 2 : Bit(bits, j) = 1})
      levels  == [i \in 1 .. num |-> IF Bit(bits, i - 1) = 1
                                     THEN SubSeq(image, before(i) + 1, before(i) + k) ELSE << >>]
  IN IF image[1] THEN quantiles_sketch(k)
     ELSE [quantiles_sketch(k) EXCEPT
             !.n = n, !.bits = bits, !.base = base, !.base_cap = 2 * k,
             !.levels = levels, !.caps = [i \in 1 .. num |-> k],
             !.min = image[4], !.max = image[5],
             !.ok = Len(base) + Len(FlattenSeq(levels)) = compute_retained_items(k, n)]
=============================================================================
