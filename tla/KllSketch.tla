----------------------------- MODULE KllSketch -----------------------------
(***************************************************************************)
(* kll_sketch and kll_helper.  items is the buffer items_, indexed as in   *)
(* the code: levels[h] .. levels[h + 1] - 1 is level h, whose items stand  *)
(* for 2^h items each, and what is below levels[0] is free.  A slot holds  *)
(* an item, an object that was moved from, or no object at all.            *)
(* Operations that toss a coin yield the set of their outcomes.            *)
(***************************************************************************)
EXTENDS QuantilesSortedView

CONSTANT DEFAULT_M           \* kll_constants::DEFAULT_M

ASSUME KllAssumption == DEFAULT_M \in Nat \ {0, 1}

Raw == 0                     \* storage without an object
Moved == -1                  \* an object that was moved from

Slice(buf, beg, lim) == [i \in 1 .. lim - beg |-> buf[beg + i - 1]]

kll_sketch(k) ==
  [kind |-> "kll", k |-> k, min_k |-> k, n |-> 0, num_levels |-> 1,
   levels |-> [l \in 0 .. 1 |-> k], items |-> [i \in 0 .. k - 1 |-> Raw],
   sorted |-> FALSE, min |-> NoItem, max |-> NoItem, view |-> NoView, ok |-> TRUE,
   seen |-> NothingSeen, err |-> 0]

items_size(s) == Cardinality(DOMAIN s.items)
get_num_retained(s) == s.levels[s.num_levels] - s.levels[0]
Level(s, h) == Slice(s.items, s.levels[h], s.levels[h + 1])
safe_level(s, h) == IF h >= s.num_levels THEN << >> ELSE Level(s, h)

-----------------------------------------------------------------------------
(* Capacities (kll_helper).  The two-step power for depths above 30 is     *)
(* left out: it is out of reach of streams below 2^30 items.               *)
int_cap_aux(k, depth) == (((2 * k * 2^depth) \div 3^depth) + 1) \div 2

level_capacity(k, numLevels, height) ==
  Max({DEFAULT_M, int_cap_aux(k, numLevels - height - 1)})

compute_total_capacity(k, num_levels) ==
  MapThenSumSet(LAMBDA h : level_capacity(k, num_levels, h), 0 .. num_levels - 1)

ub_on_num_levels(n) ==
  IF n = 0 THEN 1 ELSE 1 + CHOOSE e \in 0 .. n : 2^e <= n /\ n < 2^(e + 1)

sum_the_sample_weights(num_levels, levels) ==
  MapThenSumSet(LAMBDA h : 2^h * (levels[h + 1] - levels[h]), 0 .. num_levels - 1)

-----------------------------------------------------------------------------
(* Moving objects within a buffer                                          *)
MoveTo(buf, from, to) ==
  IF from = to THEN buf ELSE [buf EXCEPT ![to] = buf[from], ![from] = Moved]

SortRange(buf, beg, num) ==
  LET sorted == Sorted(Slice(buf, beg, beg + num))
  IN [i \in DOMAIN buf |-> IF i \in beg .. beg + num - 1 THEN sorted[i - beg + 1] ELSE buf[i]]

randomly_halve_down(buf, start, length, offset) ==
  FoldLeft(LAMBDA b, i : MoveTo(b, start + offset + 2 * i, start + i),
           buf, Upto(length \div 2))

randomly_halve_up(buf, start, length, offset) ==
  FoldLeft(LAMBDA b, i : MoveTo(b, start + length - 1 - offset - 2 * i, start + length - 1 - i),
           buf, Upto(length \div 2))

merge_sorted_arrays(buf, start_a, len_a, start_b, len_b, start_c) ==
  FoldLeft(LAMBDA st, i :
             IF \/ st.b = start_b + len_b
                \/ st.a # start_a + len_a /\ st.buf[st.a] < st.buf[st.b]
               THEN [st EXCEPT !.buf = MoveTo(@, st.a, start_c + i), !.a = @ + 1]
               ELSE [st EXCEPT !.buf = MoveTo(@, st.b, start_c + i), !.b = @ + 1],
           [buf |-> buf, a |-> start_a, b |-> start_b], Upto(len_a + len_b)).buf

Compact_unsorted(buf, beg, pop, pop_above, must_sort, offset) ==
  LET half == pop \div 2
  IN IF pop_above = 0 THEN randomly_halve_up(buf, beg, pop, offset)
     ELSE merge_sorted_arrays(randomly_halve_down(buf, beg, pop, offset),
                              beg, half, beg + pop, pop_above, beg + half)

(* Half of the pop items at beg join the pop_above items that follow them; *)
(* the halving keeps every other item, starting where the coin says.       *)
Compact(buf, beg, pop, pop_above, must_sort, offset) ==
  LET sorted == IF must_sort THEN SortRange(buf, beg, pop) ELSE buf
      half   == pop \div 2
  IN IF pop_above = 0 THEN randomly_halve_up(sorted, beg, pop, offset)
     ELSE merge_sorted_arrays(randomly_halve_down(sorted, beg, pop, offset),
                              beg, half, beg + pop, pop_above, beg + half)

-----------------------------------------------------------------------------
(* Updates                                                                 *)
find_level_to_compact(s) ==
  LET full == {h \in 0 .. s.num_levels - 1 :
                 s.levels[h + 1] - s.levels[h] >= level_capacity(s.k, s.num_levels, h)}
  IN IF full = {} THEN s.num_levels ELSE Min(full)

add_empty_top_level_to_completely_full_sketch(s) ==
  LET cur   == s.levels[s.num_levels]
      delta == level_capacity(s.k, s.num_levels + 1, 0)
  IN [s EXCEPT !.ok = @ /\ s.levels[0] = 0 /\ items_size(s) = cur,
               !.num_levels = @ + 1,
               !.levels = [h \in 0 .. s.num_levels + 1 |->
                             IF h <= s.num_levels THEN s.levels[h] + delta ELSE cur + delta],
               !.items = [i \in 0 .. cur + delta - 1 |->
                            IF i < delta THEN Raw ELSE s.items[i - delta]]]

CompactLevel(s, level, offset) ==
  LET raw_beg == s.levels[level]
      raw_lim == s.levels[level + 1]
      odd     == (raw_lim - raw_beg) % 2
      pop     == (raw_lim - raw_beg) - odd
      half    == pop \div 2
      joined  == Compact(s.items, raw_beg + odd, pop, s.levels[level + 2] - raw_lim,
                         level = 0 /\ ~s.sorted, offset)
      new_beg == raw_lim - half - odd
      kept    == IF odd = 1 THEN MoveTo(joined, raw_beg, new_beg) ELSE joined
      below   == raw_beg - s.levels[0]
      shifted == FoldLeft(LAMBDA b, i : MoveTo(b, raw_beg - 1 - i, raw_beg - 1 - i + half),
                          kept, Upto(below))
  IN [s EXCEPT !.ok = @ /\ new_beg = raw_beg + half,
               !.levels = [h \in DOMAIN s.levels |->
                             CASE h < level      -> s.levels[h] + half
                               [] h = level      -> new_beg
                               [] h = level + 1  -> raw_lim - half
                               [] OTHER          -> s.levels[h]],
               !.items = [i \in DOMAIN shifted |->
                            IF i - s.levels[0] \in 0 .. half - 1 THEN Raw ELSE shifted[i]],
               !.err = @ + 2^level]

compress_while_updating(s) ==
  LET level == find_level_to_compact(s)
      t     == IF level = s.num_levels - 1
               THEN add_empty_top_level_to_completely_full_sketch(s) ELSE s
  IN IF level = s.num_levels \/ ~t.ok THEN {[s EXCEPT !.ok = FALSE]}
     ELSE {CompactLevel(t, level, offset) : offset \in 0 .. 1}

(* internal_update() and the construction of the item in the slot it freed *)
internal_update(s, item) ==
  {IF t.ok THEN [t EXCEPT !.n = @ + 1, !.sorted = FALSE, !.levels[0] = @ - 1,
                          !.items[t.levels[0] - 1] = item]
           ELSE t :
     t \in IF s.levels[0] = 0 THEN compress_while_updating(s) ELSE {s}}

kll_update_keeps_view(s, item) ==
  {[t EXCEPT !.seen[item] = @ + 1] :
     t \in internal_update(update_min_max(s, item, item), item)}

kll_update(s, item) ==
  {[t EXCEPT !.view = NoView, !.seen[item] = @ + 1] :
     t \in internal_update(update_min_max(s, item, item), item)}

-----------------------------------------------------------------------------
(* Merging                                                                 *)

(* populate_work_arrays(): level zero of this, which already holds that of *)
(* other, then the higher levels of both merged pairwise                   *)
populate_work_arrays(s, o, ub) ==
  LET num    == Max({s.num_levels, o.num_levels})
      level  == [h \in 0 .. num - 1 |->
                   IF h = 0 THEN Level(s, 0) ELSE Merged(safe_level(s, h), safe_level(o, h))]
      all    == FlattenSeq([i \in 1 .. num |-> level[i - 1]])
      beg(h) == MapThenSumSet(LAMBDA g : Len(level[g]), 0 .. h - 1)
  IN [num_levels |-> num,
      buf |-> [i \in 0 .. Len(all) - 1 |-> all[i + 1]],
      in |-> [h \in 0 .. ub + 1 |-> IF h <= num THEN beg(h) ELSE 0]]

(* one round of the loop of general_compress                               *)
CompressLevel(k, sorted, st) ==
  LET l       == st.level
      in      == IF l = st.num_levels - 1 THEN [st.in EXCEPT ![l + 2] = st.in[l + 1]] ELSE st.in
      raw_beg == in[l]
      raw_pop == in[l + 1] - raw_beg
      odd     == raw_pop % 2
      pop     == raw_pop - odd
      half    == pop \div 2
      num     == IF l = st.num_levels - 1 THEN st.num_levels + 1 ELSE st.num_levels
      moved(n) == FoldLeft(LAMBDA b, i : MoveTo(b, raw_beg + i, st.out[l] + i), st.buf, Upto(n))
      next(t) == [t EXCEPT !.done = l = t.num_levels - 1, !.level = l + 1]
  IN IF st.count < st.target \/ raw_pop < level_capacity(k, st.num_levels, l)
     THEN {next([st EXCEPT !.in = in, !.buf = moved(raw_pop),
                           !.out[l + 1] = st.out[l] + raw_pop,
                           !.ok = @ /\ raw_beg >= st.out[l]])}
     ELSE {next([st EXCEPT !.in = [in EXCEPT ![l + 1] = @ - half],
                           !.buf = Compact(moved(odd), raw_beg + odd, pop,
                                           in[l + 2] - in[l + 1], l = 0 /\ ~sorted, offset),
                           !.out[l + 1] = st.out[l] + odd,
                           !.count = @ - half,
                           !.num_levels = num,
                           !.target = @ + (IF num > st.num_levels
                                           THEN level_capacity(k, num, 0) ELSE 0),
                           !.err = @ + 2^l]) : offset \in 0 .. 1}

general_compress(k, work, ub, sorted) ==
  LET count == Cardinality(DOMAIN work.buf)
      start == [buf |-> work.buf, in |-> work.in, out |-> [h \in 0 .. ub + 1 |-> 0],
                num_levels |-> work.num_levels, count |-> count, level |-> 0,
                target |-> compute_total_capacity(k, work.num_levels),
                done |-> FALSE, ok |-> TRUE, err |-> 0]
      step(S) == UNION {IF st.done \/ ~st.ok THEN {st} ELSE CompressLevel(k, sorted, st) : st \in S}
  IN {[st EXCEPT !.ok = @ /\ st.done /\ st.out[st.num_levels] = st.count,
                 !.buf = [i \in DOMAIN @ |-> IF i < st.count THEN @[i] ELSE Raw]] :
        st \in FoldLeft(LAMBDA S, i : step(S), {start}, Upto(ub))}

merge_higher_levels(s, o, final_n) ==
  LET ub == ub_on_num_levels(final_n)
  IN {LET free == r.target - r.count
      IN IF ~r.ok THEN [s EXCEPT !.ok = FALSE]
         ELSE [s EXCEPT !.num_levels = r.num_levels,
                        !.levels = [h \in 0 .. r.num_levels |-> r.out[h] + free],
                        !.items = [i \in 0 .. r.target - 1 |->
                                     IF i < free THEN Raw ELSE r.buf[i - free]],
                        !.err = @ + r.err] :
        r \in general_compress(s.k, populate_work_arrays(s, o, ub), ub, s.sorted)}

is_estimation_mode(s) == s.num_levels > 1

kll_merge(s, o) ==
  LET final_n  == s.n + o.n
      zero     == FoldLeft(LAMBDA S, item : UNION {IF t.ok THEN internal_update(t, item) ELSE {t} : t \in S},
                           {update_min_max(s, o.min, o.max)}, Level(o, 0))
      all      == IF o.num_levels < 2 THEN zero
                  ELSE UNION {IF t.ok THEN merge_higher_levels(t, o, final_n) ELSE {t} : t \in zero}
  IN IF o.n = 0 THEN {s}
     ELSE {[t EXCEPT !.n = final_n,
                     !.min_k = IF is_estimation_mode(o) THEN Min({@, o.min_k}) ELSE @,
                     !.ok = @ /\ sum_the_sample_weights(t.num_levels, t.levels) = final_n,
                     !.view = NoView,
                     !.seen = AllSeen(s, o),
                     !.err = @ + o.err] : t \in all}

-----------------------------------------------------------------------------
(* Queries, copies                                                         *)
sort_level_zero(s) ==
  IF s.sorted THEN s
  ELSE [s EXCEPT !.items = SortRange(@, s.levels[0], s.levels[1] - s.levels[0]), !.sorted = TRUE]

(* the view that get_sorted_view() returns once level zero is sorted       *)
kll_view(s) ==
  convert_to_cummulative(
    FoldLeft(LAMBDA v, h : add(v, Level(s, h), 2^h), NoView, Upto(s.num_levels)))

kll_setup_sorted_view(s) ==
  IF s.view # NoView THEN s
  ELSE LET t == sort_level_zero(s) IN [t EXCEPT !.view = kll_view(t)]

check_sorting(s) == \A h \in 1 .. s.num_levels - 1 : InOrder(Level(s, h))

(* a copy has no cached view; the one that converts the items checks them  *)
kll_copies(s) ==
  {[s EXCEPT !.view = NoView], [s EXCEPT !.view = NoView, !.ok = check_sorting(s)]}

-----------------------------------------------------------------------------
kll_serialize_k_twice(s) ==
  LET preamble == <<s.n = 0, s.sorted, s.n = 1, s.k>>
      retained == Slice(s.items, s.levels[0], s.levels[s.num_levels])
  IN IF s.n = 0 THEN preamble
     ELSE IF s.n = 1 THEN preamble \o retained
     ELSE preamble \o <<s.n, s.k, s.num_levels>> \o Slice(s.levels, 0, s.num_levels)
            \o <<s.min, s.max>> \o retained

(* Images.  An image holds the fields in the order they are written; the   *)
(* empty and the single-item one hold only a part of them.                 *)
kll_serialize(s) ==
  LET preamble == <<s.n = 0, s.sorted, s.n = 1, s.k>>
      retained == Slice(s.items, s.levels[0], s.levels[s.num_levels])
  IN IF s.n = 0 THEN preamble
     ELSE IF s.n = 1 THEN preamble \o retained
     ELSE preamble \o <<s.n, s.min_k, s.num_levels>> \o Slice(s.levels, 0, s.num_levels)
            \o <<s.min, s.max>> \o retained

kll_get_serialized_size(s) ==
  IF s.n = 0 THEN 4
  ELSE IF s.num_levels = 1 /\ get_num_retained(s) = 1 THEN 5
  ELSE 4 + 3 + s.num_levels + get_num_retained(s) + 2

kll_get_max_serialized_size(k, n) ==
  LET num_levels == ub_on_num_levels(n)
  IN 4 + 3 + num_levels + compute_total_capacity(k, num_levels) + 2

(* what deserialize() makes of an image; seen and err are not part of it   *)
kll_deserialize(image) ==
  LET k          == image[4]
      single     == image[3]
      num_levels == IF single THEN 1 ELSE image[7]
      capacity   == compute_total_capacity(k, num_levels)
      levels     == [h \in 0 .. num_levels |->
                       IF h = num_levels THEN capacity
                       ELSE IF single THEN capacity - 1 ELSE image[8 + h]]
      data       == IF single THEN 5 ELSE 8 + num_levels + 2
  IN IF image[1] THEN kll_sketch(k)
     ELSE [kll_sketch(k) EXCEPT
             !.n = IF single THEN 1 ELSE image[5],
             !.min_k = IF single THEN k ELSE image[6],
             !.num_levels = num_levels, !.levels = levels, !.sorted = image[2],
             !.items = [i \in 0 .. capacity - 1 |->
                          IF i < levels[0] THEN Raw ELSE image[data + i - levels[0]]],
             !.min = IF single THEN image[5] ELSE image[data - 2],
             !.max = IF single THEN image[5] ELSE image[data - 1],
             !.ok = Len(image) = data - 1 + capacity - levels[0]]
=============================================================================
