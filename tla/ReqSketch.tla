------------------------------ MODULE ReqSketch ------------------------------
(***************************************************************************)
(* req_sketch and req_compactor.  A compactor holds its items from begin() *)
(* to end(), without the place of the gap in its buffer of cap slots; the  *)
(* sketch's flag hra says at which end items are added and which end is    *)
(* compacted.  section_size_raw_ is raw_k / sqrt(2)^halved.  least_k is    *)
(* the smallest k of the estimating sketches merged in; it exists only in  *)
(* the model.                                                              *)
(***************************************************************************)
EXTENDS QuantilesSortedView

CONSTANTS REQ_MIN_K,         \* req_constants::MIN_K
          INIT_NUM_SECTIONS  \* req_constants::INIT_NUM_SECTIONS

ASSUME ReqAssumption == REQ_MIN_K \in Nat \ {0} /\ INIT_NUM_SECTIONS \in Nat \ {0}

get_nom_capacity(c) == 2 * c.num_sections * c.section

(* the constructor's capacity is twice the nominal one of its sections     *)
req_compactor(lg_weight, k) ==
  [lg_weight |-> lg_weight, coin |-> FALSE, sorted |-> TRUE, raw_k |-> k, halved |-> 0,
   section |-> k, num_sections |-> INIT_NUM_SECTIONS, state |-> 0,
   cap |-> 4 * INIT_NUM_SECTIONS * k, items |-> << >>]

(* 2 * round(k / sqrt(2)^halved / 2), in integers                          *)
nearest_even(k, halved) ==
  2 * Max({0} \cup {m \in 1 .. k : (2 * m - 1)^2 * 2^halved <= k^2})

ensure_enough_sections(c) ==
  LET even == nearest_even(c.raw_k, c.halved + 1)
      nom  == 2 * (2 * c.num_sections) * even
  IN IF c.state < 2^(c.num_sections - 1) \/ even < REQ_MIN_K THEN c
     ELSE [c EXCEPT !.halved = @ + 1, !.section = even, !.num_sections = 2 * @,
                    !.cap = Max({@, 2 * nom})]

ensure_space(c, num) ==
  IF Len(c.items) + num > c.cap
  THEN [c EXCEPT !.cap = Len(c.items) + num + get_nom_capacity(c)] ELSE c

append(c, hra, item) ==
  [c EXCEPT !.cap = IF Len(c.items) = @ THEN @ + get_nom_capacity(c) ELSE @,
            !.items = IF hra THEN <<item>> \o @ ELSE Append(@, item),
            !.sorted = @ /\ Len(c.items) = 0]

sort(c) == IF c.sorted THEN c ELSE [c EXCEPT !.items = Sorted(@), !.sorted = TRUE]

(* state_ |= other.state_                                                  *)
BitwiseOr(a, b) ==
  MapThenSumSet(LAMBDA i : 2^i * Max({Bit(a, i), Bit(b, i)}), {i \in 0 .. a + b : 2^i <= a + b})

merge_compactors(c, o) ==
  LET joined == [c EXCEPT !.state = BitwiseOr(@, o.state)]
      enough == FoldLeft(LAMBDA d, i : ensure_enough_sections(d), joined, Upto(c.raw_k))
      roomy  == sort(ensure_space(enough, Len(o.items)))
  IN [roomy EXCEPT !.items = Merged(@, sort(o).items)]

(* compact(): the sections to compact follow the trailing ones of state_;  *)
(* of an even number of items next to the gap every other one is promoted. *)
(* The outcome is the pair of compactors and the number of promoted items. *)
compact_lower_end(c, next, hra) ==
  LET ones   == CHOOSE e \in 0 .. c.state + 1 : Bit(c.state, e) = 0 /\ \A i \in 0 .. e - 1 : Bit(c.state, i) = 1
      secs   == Min({ones + 1, c.num_sections})
      floor  == (get_nom_capacity(c) \div 2) + (c.num_sections - secs) * c.section
      keep   == floor + ((Len(c.items) - floor) % 2)
      num    == (Len(c.items) - keep) \div 2
      range  == SubSeq(c.items, 1, 2 * num)
      rest   == SubSeq(c.items, 2 * num + 1, Len(c.items))
      promoted(odds) == [i \in 1 .. num |-> range[IF odds THEN 2 * i ELSE 2 * i - 1]]
      coins  == IF c.state % 2 = 1 THEN {~c.coin} ELSE BOOLEAN
  IN {[this |-> ensure_enough_sections([c EXCEPT !.items = rest, !.coin = coin, !.state = @ + 1]),
       next |-> [ensure_space(next, num) EXCEPT !.items = Merged(@, promoted(coin))],
       num |-> num] : coin \in coins}

compact(c, next, hra) ==
  LET ones   == CHOOSE e \in 0 .. c.state + 1 : Bit(c.state, e) = 0 /\ \A i \in 0 .. e - 1 : Bit(c.state, i) = 1
      secs   == Min({ones + 1, c.num_sections})
      floor  == (get_nom_capacity(c) \div 2) + (c.num_sections - secs) * c.section
      keep   == floor + ((Len(c.items) - floor) % 2)
      num    == (Len(c.items) - keep) \div 2
      range  == IF hra THEN SubSeq(c.items, 1, 2 * num) ELSE SubSeq(c.items, keep + 1, Len(c.items))
      rest   == IF hra THEN SubSeq(c.items, 2 * num + 1, Len(c.items)) ELSE SubSeq(c.items, 1, keep)
      promoted(odds) == [i \in 1 .. num |-> range[IF odds THEN 2 * i ELSE 2 * i - 1]]
      coins  == IF c.state % 2 = 1 THEN {~c.coin} ELSE BOOLEAN
  IN {[this |-> ensure_enough_sections([c EXCEPT !.items = rest, !.coin = coin, !.state = @ + 1]),
       next |-> [ensure_space(next, num) EXCEPT !.items = Merged(@, promoted(coin))],
       num |-> num] : coin \in coins}

-----------------------------------------------------------------------------
(* The sketch                                                              *)
update_max_nom_size(s) ==
  [s EXCEPT !.max_nom_size =
     MapThenSumSet(LAMBDA h : get_nom_capacity(s.compactors[h]), 1 .. Len(s.compactors))]

update_num_retained(s) ==
  [s EXCEPT !.num_retained =
     MapThenSumSet(LAMBDA h : Len(s.compactors[h].items), 1 .. Len(s.compactors))]

grow(s) ==
  update_max_nom_size([s EXCEPT !.compactors = Append(@, req_compactor(Len(@), s.k))])

(* k is made even and narrowed to eight bits                               *)
req_sketch(k, hra) ==
  LET k_ == Max({(k - (k % 2)) % 256, REQ_MIN_K})
  IN grow([kind |-> "req", k |-> k_, hra |-> hra, max_nom_size |-> 0, num_retained |-> 0,
           n |-> 0, compactors |-> << >>, min |-> NoItem, max |-> NoItem, view |-> NoView,
           ok |-> TRUE, seen |-> NothingSeen, err |-> 0, least_k |-> k_])

(* one round of compress(): level h, when it is full, into the next one    *)
CompressAt_size_as_before(s, h) ==
  LET c      == IF h = 1 THEN sort(s.compactors[h]) ELSE s.compactors[h]
      t      == IF h = Len(s.compactors) THEN grow(s) ELSE s
      result(r) ==
        [t EXCEPT !.compactors[h] = r.this, !.compactors[h + 1] = r.next,
                  !.num_retained = @ - r.num,
                  !.ok = @ /\ r.num >= 1,
                  !.err = @ + 2^c.lg_weight]
  IN IF h > Len(s.compactors) \/ Len(c.items) < get_nom_capacity(c) THEN {s}
     ELSE {result(r) : r \in compact(c, t.compactors[h + 1], s.hra)}

CompressAt(s, h) ==
  LET c      == IF h = 1 THEN sort(s.compactors[h]) ELSE s.compactors[h]
      t      == IF h = Len(s.compactors) THEN grow(s) ELSE s
      result(r) ==
        [t EXCEPT !.compactors[h] = r.this, !.compactors[h + 1] = r.next,
                  !.num_retained = @ - r.num,
                  !.max_nom_size = @ + get_nom_capacity(r.this) - get_nom_capacity(c),
                  !.ok = @ /\ r.num >= 1,
                  !.err = @ + 2^c.lg_weight]
  IN IF h > Len(s.compactors) \/ Len(c.items) < get_nom_capacity(c) THEN {s}
     ELSE {result(r) : r \in compact(c, t.compactors[h + 1], s.hra)}

(* there are fewer levels than items, since the top one is not empty       *)
compress(s) ==
  FoldLeft(LAMBDA S, i : UNION {IF t.ok THEN CompressAt(t, i + 1) ELSE {t} : t \in S}, {s}, Upto(s.n))

req_update(s, item) ==
  LET t == [update_min_max(s, item, item) EXCEPT
              !.compactors[1] = append(@, s.hra, item), !.num_retained = @ + 1, !.n = @ + 1,
              !.view = NoView, !.seen[item] = @ + 1]
  IN IF t.num_retained = t.max_nom_size THEN compress(t) ELSE {t}

req_merge(s, o) ==
  LET tall   == FoldLeft(LAMBDA t, i : IF Len(t.compactors) < Len(o.compactors) THEN grow(t) ELSE t,
                         update_min_max(s, o.min, o.max), Upto(Len(o.compactors)))
      joined == [tall EXCEPT
                   !.compactors = [h \in 1 .. Len(@) |->
                     IF h <= Len(o.compactors) THEN merge_compactors(@[h], o.compactors[h]) ELSE @[h]],
                   !.n = @ + o.n, !.view = NoView, !.seen = AllSeen(s, o), !.err = @ + o.err,
                   !.least_k = IF Len(o.compactors) > 1 THEN Min({@, o.least_k}) ELSE @]
      t      == update_num_retained(update_max_nom_size(joined))
  IN IF s.hra # o.hra \/ o.n = 0 THEN {s}
     ELSE IF t.num_retained >= t.max_nom_size THEN compress(t) ELSE {t}

-----------------------------------------------------------------------------
(* Queries, copies, images                                                 *)
req_sort_level_zero(s) == [s EXCEPT !.compactors[1] = sort(@)]

req_view(s) ==
  convert_to_cummulative(
    FoldLeft(LAMBDA v, c : add(v, c.items, 2^c.lg_weight), NoView, s.compactors))

req_setup_sorted_view(s) ==
  IF s.view # NoView THEN s
  ELSE LET t == req_sort_level_zero(s) IN [t EXCEPT !.view = req_view(t)]

(* get_rank() does without the view: compute_weight() of each compactor    *)
req_get_rank(s, item, inclusive) ==
  MapThenSumSet(LAMBDA h : LET c == sort(s.compactors[h])
                           IN 2^c.lg_weight * Cardinality({i \in 1 .. Len(c.items) :
                                c.items[i] < item \/ (inclusive /\ c.items[i] = item)}),
                1 .. Len(s.compactors))

req_copies(s) ==
  {[s EXCEPT !.view = NoView],
   [s EXCEPT !.view = NoView, !.ok = \A h \in 1 .. Len(s.compactors) :
                                s.compactors[h].sorted => InOrder(s.compactors[h].items)]}

(* An image: the preamble, n and the extremes when there are levels, and   *)
(* either the few raw items or the compactors                              *)
CompactorImage(c) ==
  <<c.state, c.raw_k, c.halved, c.lg_weight, c.num_sections, Len(c.items)>> \o c.items

req_serialize(s) ==
  LET estimating == Len(s.compactors) > 1
      raw_items  == s.n <= REQ_MIN_K
  IN [empty |-> s.n = 0, hra |-> s.hra, raw_items |-> raw_items,
      sorted |-> s.compactors[1].sorted, k |-> s.k,
      num_levels |-> IF s.n = 0 THEN 0 ELSE Len(s.compactors),
      num_raw_items |-> IF raw_items THEN s.n ELSE 0,
      data |-> IF s.n = 0 THEN << >>
               ELSE (IF estimating THEN <<s.n, s.min, s.max>> ELSE << >>)
                    \o (IF raw_items THEN SubSeq(s.compactors[1].items, 1, s.n)
                        ELSE FlattenSeq([h \in 1 .. Len(s.compactors) |-> CompactorImage(s.compactors[h])]))]

(* without the preamble                                                    *)
req_get_serialized_size(s) ==
  IF s.n = 0 THEN 0
  ELSE (IF Len(s.compactors) > 1 THEN 3 ELSE 0)
       + (IF s.n = 1 THEN 1
          ELSE MapThenSumSet(LAMBDA h : 6 + Len(s.compactors[h].items), 1 .. Len(s.compactors)))

LoadedCompactor(lg_weight, sorted, raw_k, halved, num_sections, state, items) ==
  [lg_weight |-> lg_weight, coin |-> FALSE, sorted |-> sorted, raw_k |-> raw_k, halved |-> halved,
   section |-> nearest_even(raw_k, halved), num_sections |-> num_sections, state |-> state,
   cap |-> Len(items), items |-> items]

(* the coins of the loaded compactors are random                           *)
req_deserialize(image) ==
  LET d    == image.data
      many == image.num_levels > 1
      next(st, h) ==
        LET at == st.at
        IN [at |-> at + 6 + d[at + 5],
            cs |-> Append(st.cs, LoadedCompactor(d[at + 3], h > 0 \/ image.sorted, d[at + 1], d[at + 2],
                                                 d[at + 4], d[at], SubSeq(d, at + 6, at + 5 + d[at + 5])))]
      compactors ==
        IF image.raw_items
        THEN <<LoadedCompactor(0, image.sorted, image.k, 0, INIT_NUM_SECTIONS, 0,
                               SubSeq(d, Len(d) - image.num_raw_items + 1, Len(d)))>>
        ELSE FoldLeft(next, [at |-> IF many THEN 4 ELSE 1, cs |-> << >>], Upto(image.num_levels)).cs
      only   == Range(compactors[1].items)
      loaded == [req_sketch(image.k, image.hra) EXCEPT
                   !.k = image.k, !.compactors = compactors,
                   !.n = IF many THEN d[1] ELSE Len(compactors[1].items),
                   !.min = IF many THEN d[2] ELSE Min(only),
                   !.max = IF many THEN d[3] ELSE Max(only)]
      sized  == update_num_retained(update_max_nom_size(loaded))
  IN IF image.empty THEN {req_sketch(image.k, image.hra)}
     ELSE {[sized EXCEPT !.compactors = [h \in 1 .. Len(@) |-> [@[h] EXCEPT !.coin = coins[h]]]] :
             coins \in [1 .. Len(compactors) -> BOOLEAN]}
=============================================================================
