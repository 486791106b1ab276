---------------------------- MODULE VarOptSketch ----------------------------
(***************************************************************************)
(* var_opt_sketch: a sample of at most k weighted items.  Slots 0..h-1     *)
(* (region H) hold heavy items with their weights as a min-heap, slots     *)
(* h+1..h+r (region R) light ones that share total_wt_r, and the slot      *)
(* between is a gap; during an update region M lies between H and R.       *)
(* A sketch is a record with the fields of the class: tot is total_wt_r_,  *)
(* alloc is curr_items_alloc_, mk is marks_, kept when gadget holds.  data *)
(* is an array of items, Raw where no object lives and Moved where an      *)
(* object was moved from; touched says that an operation assigned to,      *)
(* swapped or moved a Raw slot, threw that it threw std::logic_error or    *)
(* left its arrays.  Weights are integers; a random draw is an integer     *)
(* part of wt_cands * next_double_exclude_zero(), so that an operation     *)
(* that draws yields the set of its outcomes.                              *)
(***************************************************************************)
EXTENDS Integers, Sequences, FiniteSets, SequencesExt

CONSTANTS MIN_LG_ARR_ITEMS,  \* lg of the smallest array of a new sketch
          Raw, Moved         \* what is in a slot that holds no item

(* what is in slots of weights_ that nothing was written to                *)
Unset == -2
(* the weight the code writes to slots that have none                      *)
NoWeight == -1

ceiling_lg(n) == CHOOSE e \in 0 .. n : n <= 2^e /\ (e > 0 => 2^(e - 1) < n)

starting_sub_multiple(lg_target, lg_rf, lg_min) ==
  IF lg_target <= lg_min THEN lg_min
  ELSE IF lg_rf = 0 THEN lg_target
  ELSE ((lg_target - lg_min) % lg_rf) + lg_min

(* get_adjusted_size, and the slot for the gap of a full-size array        *)
ArraySize(k, target) == IF k < 2 * target THEN k + 1 ELSE target

InitialSize(k, rf, lg_min) ==
  ArraySize(k, 2^starting_sub_multiple(ceiling_lg(k), rf, lg_min))

Blank(size, v) == [i \in 0 .. size - 1 |-> v]

new_sketch(k, rf, gadget) ==
  LET size == InitialSize(k, rf, MIN_LG_ARR_ITEMS)
  IN [k |-> k, h |-> 0, m |-> 0, r |-> 0, n |-> 0, tot |-> 0, rf |-> rf,
      alloc |-> size, filled |-> FALSE, data |-> Blank(size, Raw),
      wt |-> Blank(size, Unset), gadget |-> gadget, mk |-> Blank(size, Raw),
      nmarks |-> 0, touched |-> FALSE, threw |-> FALSE]

Throw(s) == [s EXCEPT !.threw = TRUE]

HSlots(s) == 0 .. s.h - 1
RSlots(s) == s.h + 1 .. s.h + s.r
Samples(s) == HSlots(s) \cup RSlots(s)

(* the copy constructors: the gap and anything past R stays raw            *)
copy_sketch(s, as_sketch, n) ==
  [s EXCEPT !.n = n, !.filled = FALSE, !.gadget = @ /\ ~as_sketch,
            !.mk = IF as_sketch THEN [i \in DOMAIN @ |-> Raw] ELSE @,
            !.data = [i \in DOMAIN s.data |-> IF i \in Samples(s) THEN s.data[i] ELSE Raw],
            !.threw = @ \/ s.alloc # Cardinality(DOMAIN s.data)]

(* with the arrays kept unless the new size is smaller                     *)
reset(s) ==
  LET size  == InitialSize(s.k, s.rf, MIN_LG_ARR_ITEMS)
      fresh == new_sketch(s.k, s.rf, s.gadget)
  IN IF size < s.alloc THEN fresh
     ELSE [fresh EXCEPT !.data = Blank(Cardinality(DOMAIN s.data), Raw),
                        !.wt = s.wt, !.mk = s.mk]

-----------------------------------------------------------------------------
(* The heap of region H.                                                   *)
swap_values(s, a, b) ==
  [s EXCEPT !.data[a] = s.data[b], !.data[b] = s.data[a],
            !.wt[a] = s.wt[b], !.wt[b] = s.wt[a],
            !.mk[a] = s.mk[b], !.mk[b] = s.mk[a],
            !.touched = @ \/ Raw \in {s.data[a], s.data[b]}]

RECURSIVE restore_towards_leaves(_, _)
restore_towards_leaves(s, slot) ==
  LET child == 2 * slot + 1
      least == IF child + 1 < s.h /\ s.wt[child + 1] < s.wt[child] THEN child + 1 ELSE child
  IN IF child >= s.h THEN s
     ELSE IF s.wt[slot] <= s.wt[least] THEN s
     ELSE restore_towards_leaves(swap_values(s, slot, least), least)

RECURSIVE restore_towards_root(_, _)
restore_towards_root(s, slot) ==
  LET parent == (slot + 1) \div 2 - 1
  IN IF slot = 0 THEN s
     ELSE IF s.wt[slot] >= s.wt[parent] THEN s
     ELSE restore_towards_root(swap_values(s, slot, parent), parent)

convert_to_heap(s) ==
  LET half == s.h \div 2
  IN FoldLeft(restore_towards_leaves, s, [i \in 1 .. half |-> half - i])

(* assignment to a slot that holds an object, or construction in place     *)
PutItem(s, slot, item, weight, mark) ==
  [s EXCEPT !.data[slot] = item, !.wt[slot] = weight,
            !.mk[slot] = IF s.gadget THEN mark ELSE @,
            !.touched = @ \/ (s.filled /\ s.data[slot] = Raw)]

push(s, item, weight, mark) ==
  LET t == [PutItem(s, s.h, item, weight, mark) EXCEPT
              !.filled = TRUE, !.h = @ + 1,
              !.nmarks = @ + (IF s.gadget /\ mark THEN 1 ELSE 0)]
  IN restore_towards_root(t, s.h)

is_marked(s, slot) == IF s.gadget THEN s.mk[slot] ELSE FALSE

PopRoot(s) ==
  IF s.h = 1 THEN [s EXCEPT !.m = @ + 1, !.h = 0]
  ELSE restore_towards_leaves([swap_values(s, 0, s.h - 1) EXCEPT !.m = @ + 1, !.h = @ - 1], 0)

Unmark(s) == [s EXCEPT !.nmarks = @ - (IF is_marked(s, s.h) THEN 1 ELSE 0)]

pop_min_keeps_mark(s) ==
  IF s.h = 0 \/ s.h + s.m + s.r # s.k + 1 THEN Throw(s) ELSE PopRoot(s)

pop_min_to_m_region(s) ==
  IF s.h = 0 \/ s.h + s.m + s.r # s.k + 1 THEN Throw(s) ELSE Unmark(PopRoot(s))
-----------------------------------------------------------------------------
(* The sampling step.  grow_candidate_set moves light items from H to M    *)
(* and downsample_candidate_set drops one of the candidates M and R.       *)
RECURSIVE Grow(_, _, _)
Grow(s, wt_cands, num_cands) ==
  IF s.h > 0 /\ s.wt[0] * num_cands < wt_cands + s.wt[0]
  THEN Grow(pop_min_to_m_region(s), wt_cands + s.wt[0], num_cands + 1)
  ELSE [s |-> s, wt |-> wt_cands, num |-> num_cands]

(* the first candidate of M whose share of the draw is reached; the slot   *)
(* after M stands for one of R                                             *)
choose_weighted_keeps_all(s, wt_cands, num_cands, draw) ==
  LET share(i) == wt_cands * (i - s.h + 1)
                    - num_cands * FoldLeft(LAMBDA acc, j : acc + s.wt[j], 0,
                                           [j \in 1 .. i - s.h + 1 |-> s.h + j - 1])
      hit == {i \in s.h .. s.h + s.m - 1 : draw < share(i)}
  IN IF hit = {} THEN s.h + s.m ELSE Min(hit)

choose_weighted_delete_slot(s, wt_cands, num_cands, draw) ==
  LET share(i) == wt_cands * (i - s.h + 1)
                    - (num_cands - 1) * FoldLeft(LAMBDA acc, j : acc + s.wt[j], 0,
                                                 [j \in 1 .. i - s.h + 1 |-> s.h + j - 1])
      hit == {i \in s.h .. s.h + s.m - 1 : draw < share(i)}
  IN IF hit = {} THEN s.h + s.m ELSE Min(hit)

(* which of the items of M is dropped, or the slot after M for one of R    *)
choose_delete_slot(s, wt_cands, num_cands, draw) ==
  IF s.m = 0 THEN s.h
  ELSE IF s.m = 1
  THEN IF draw < (num_cands - 1) * s.wt[s.h] THEN s.h + 1 ELSE s.h
  ELSE choose_weighted_delete_slot(s, wt_cands, num_cands, draw)

pick_random_slot_in_r(s) == s.h + s.m .. s.h + s.m + s.r - 1

DeleteSlots(c) ==
  UNION {LET d == choose_delete_slot(c.s, c.wt, c.num, draw)
         IN IF d = c.s.h + c.s.m THEN pick_random_slot_in_r(c.s) ELSE {d} :
           draw \in 0 .. c.wt - 1}

DropCandidate(c, d) ==
  [c.s EXCEPT !.wt = [i \in DOMAIN c.s.wt |->
                        IF i \in c.s.h .. c.s.h + c.s.m - 1 THEN NoWeight ELSE c.s.wt[i]],
              !.data = [c.s.data EXCEPT ![d] = c.s.data[c.s.h], ![c.s.h] = Moved],
              !.touched = @ \/ Raw \in {c.s.data[d], c.s.data[c.s.h]},
              !.m = 0, !.r = c.num - 1, !.tot = c.wt]

downsample_candidate_set(c) ==
  IF c.s.threw \/ c.s.r = 0 \/ c.num < 2 \/ c.s.h + c.num # c.s.k + 1 THEN {Throw(c.s)}
  ELSE {DropCandidate(c, d) : d \in DeleteSlots(c)}

(* the candidates from which one is dropped                                *)
grow_candidate_set(s, wt_cands, num_cands) ==
  IF \/ s.threw \/ s.h + s.m + s.r # s.k + 1 \/ num_cands < 1
     \/ num_cands # s.m + s.r \/ s.m >= 2
  THEN [s |-> Throw(s), wt |-> wt_cands, num |-> num_cands]
  ELSE Grow(s, wt_cands, num_cands)

transition_from_warmup(s) ==
  LET u == pop_min_to_m_region(pop_min_to_m_region(convert_to_heap(s)))
      t == [u EXCEPT !.m = @ - 1, !.r = @ + 1, !.tot = u.wt[u.k], !.wt[u.k] = NoWeight]
  IN IF u.threw \/ t.h # t.k - 1 \/ t.m # 1 \/ t.r # 1
     THEN [s |-> Throw(u), wt |-> 0, num |-> 0]
     ELSE grow_candidate_set(t, t.wt[t.k - 1] + t.tot, 2)
-----------------------------------------------------------------------------
(* Updates.  Each yields the candidates of the sampling step, or a sketch  *)
(* that is still exact.                                                    *)
Regrown(f, size, v) == [i \in 0 .. size - 1 |-> IF i \in DOMAIN f THEN f[i] ELSE v]

grow_data_arrays(s) ==
  LET size == ArraySize(s.k, s.alloc * 2^s.rf)
  IN IF size <= s.alloc THEN [s EXCEPT !.alloc = size]
     ELSE [s EXCEPT !.alloc = size, !.filled = FALSE, !.data = Regrown(@, size, Raw),
                    !.wt = Regrown(@, size, Unset), !.mk = Regrown(@, size, Raw)]

RoomForOne(s) == IF s.h >= s.alloc THEN grow_data_arrays(s) ELSE s

Append1(s, item, weight, mark) ==
  [PutItem([s EXCEPT !.filled = FALSE], s.h, item, weight, mark) EXCEPT
     !.filled = s.filled, !.h = @ + 1, !.nmarks = @ + (IF mark THEN 1 ELSE 0)]

Warm(s, item, weight, mark) ==
  IF s.threw \/ s.m # 0 \/ s.h > s.k \/ s.h \notin DOMAIN s.data THEN Throw(s)
  ELSE Append1(s, item, weight, mark)

WarmedUp(s) ==
  IF s.threw \/ s.h <= s.k THEN {s}
  ELSE downsample_candidate_set(transition_from_warmup([s EXCEPT !.filled = TRUE]))

update_warmup_phase(s, item, weight, mark) ==
  WarmedUp(Warm(RoomForOne(s), item, weight, mark))

update_light_forgets_weight(s, item, weight, mark) ==
  IF s.r + s.h # s.k THEN [s |-> Throw(s), wt |-> 0, num |-> 0]
  ELSE grow_candidate_set([PutItem(s, s.h, item, weight, mark) EXCEPT !.filled = TRUE, !.m = @ + 1],
                          s.tot, s.r + 1)

update_light(s, item, weight, mark) ==
  IF s.r + s.h # s.k THEN [s |-> Throw(s), wt |-> 0, num |-> 0]
  ELSE grow_candidate_set([PutItem(s, s.h, item, weight, mark) EXCEPT !.filled = TRUE, !.m = @ + 1],
                          s.tot + weight, s.r + 1)

update_heavy_general(s, item, weight, mark) ==
  IF s.m # 0 \/ s.r + s.h # s.k THEN [s |-> Throw(s), wt |-> 0, num |-> 0]
  ELSE grow_candidate_set(push(s, item, weight, mark), s.tot, s.r)

WithLightest(s) == grow_candidate_set(s, s.wt[s.k - 1] + s.tot, 2)

update_heavy_r_eq1(s, item, weight, mark) ==
  IF s.m # 0 \/ s.r + s.h # s.k THEN [s |-> Throw(s), wt |-> 0, num |-> 0]
  ELSE WithLightest(pop_min_to_m_region(push(s, item, weight, mark)))

IsLight(s, weight) ==
  (s.h = 0 \/ weight <= s.wt[0]) /\ weight * s.r < weight + s.tot

(* the sampling step of an update in estimation mode                       *)
Candidates(s, item, weight, mark) ==
  IF s.h # 0 /\ s.wt[0] * s.r < s.tot THEN [s |-> Throw(s), wt |-> 0, num |-> 0]
  ELSE IF IsLight(s, weight) THEN update_light(s, item, weight, mark)
  ELSE IF s.r = 1 THEN update_heavy_r_eq1(s, item, weight, mark)
  ELSE update_heavy_general(s, item, weight, mark)

Sampled(s, item, weight, mark) ==
  IF s.r = 0 THEN update_warmup_phase(s, item, weight, mark)
  ELSE downsample_candidate_set(Candidates(s, item, weight, mark))

update(s, item, weight, mark) ==
  IF weight = 0 \/ s.threw THEN {s} ELSE Sampled([s EXCEPT !.n = @ + 1], item, weight, mark)

-----------------------------------------------------------------------------
(* decrease_k_by_1, for the result of a union.  With H and R both in use   *)
(* the last item of R moves to the gap and the last item of H is offered   *)
(* again to the smaller sketch.                                            *)
PullLast(s) ==
  LET t == swap_values(s, s.h + s.r, s.h)
  IN [t EXCEPT !.filled = TRUE, !.wt[s.h - 1] = NoWeight,
               !.nmarks = @ - (IF t.mk[s.h - 1] THEN 1 ELSE 0),
               !.h = @ - 1, !.k = @ - 1, !.n = @ - 1]

DropFromR(s, at) ==
  [swap_values(s, at, s.r) EXCEPT !.wt[s.r] = NoWeight, !.k = @ - 1, !.r = @ - 1]

Shrunk(s) == [s EXCEPT !.k = @ - 1]

decrease_k_by_1(s) ==
  IF s.threw \/ s.k <= 1 THEN {Throw(s)}
  ELSE IF s.r = 0
  THEN IF s.h > s.k - 1 THEN downsample_candidate_set(transition_from_warmup(Shrunk(s)))
       ELSE {Shrunk(s)}
  ELSE IF s.h > 0
  THEN IF s.h + s.r # s.k THEN {Throw(s)}
       ELSE update(PullLast(s), s.data[s.h - 1], s.wt[s.h - 1], s.mk[s.h - 1])
  ELSE IF s.r < 2 THEN {Throw(s)}
  ELSE {DropFromR(s, at) : at \in 1 .. s.r}

(* estimate_subset_sum for the items chosen: the weight of those in H and  *)
(* the share of those in R, whose slots the code takes to end at k_.  It   *)
(* throws unless r_ / (n_ - h_) is a rate.  numer / denom is the estimate; *)
(* the bounds around it are left out.                                      *)
estimate_subset_sum(s, chosen) ==
  LET h_true == FoldFunctionOnSet(+, 0, s.wt, {i \in HSlots(s) : s.data[i] \in chosen})
      r_true == Cardinality({i \in s.h + 1 .. s.k : s.data[i] \in chosen})
      total  == FoldFunctionOnSet(+, 0, s.wt, HSlots(s)) + s.tot
  IN IF s.r = 0 THEN [threw |-> FALSE, numer |-> h_true, denom |-> 1, total |-> h_true]
     ELSE [threw |-> s.n - s.h < s.r, numer |-> h_true * s.r + s.tot * r_true,
           denom |-> s.r, total |-> total]
-----------------------------------------------------------------------------
(* serialize: the fields of the image.  Marks are stored for a gadget.     *)
serialize_with_gap(s) ==
  [empty |-> s.h = 0 /\ s.r = 0, gadget |-> s.gadget, rf |-> s.rf, k |-> s.k, n |-> s.n,
   pre |-> IF s.h = 0 /\ s.r = 0 THEN 1 ELSE IF s.r = 0 THEN 3 ELSE 4,
   h |-> s.h, r |-> s.r, tot |-> s.tot,
   wt |-> [i \in HSlots(s) |-> s.wt[i]],
   mk |-> [i \in IF s.gadget THEN HSlots(s) ELSE {} |-> s.mk[i]],
   items |-> [i \in 0 .. s.h + s.r - 1 |-> s.data[i]]]

serialize(s) ==
  [empty |-> s.h = 0 /\ s.r = 0, gadget |-> s.gadget, rf |-> s.rf, k |-> s.k, n |-> s.n,
   pre |-> IF s.h = 0 /\ s.r = 0 THEN 1 ELSE IF s.r = 0 THEN 3 ELSE 4,
   h |-> s.h, r |-> s.r, tot |-> s.tot,
   wt |-> [i \in HSlots(s) |-> s.wt[i]],
   mk |-> [i \in IF s.gadget THEN HSlots(s) ELSE {} |-> s.mk[i]],
   items |-> [i \in 0 .. s.h + s.r - 1 |-> s.data[IF i < s.h THEN i ELSE i + 1]]]

(* validate_and_get_target_size; 0 stands for std::invalid_argument        *)
validate_and_get_target_size(im) ==
  IF im.n <= im.k
  THEN IF im.pre = 3 /\ im.n = im.h /\ im.r = 0
       THEN InitialSize(im.k, im.rf, ceiling_lg(im.h)) ELSE 0
  ELSE IF im.pre = 4 /\ im.h + im.r = im.k THEN im.k + 1 ELSE 0

(* a loaded sketch has m_ = 1 when R is not empty                          *)
Loaded(im, size) ==
  [k |-> im.k, h |-> im.h, m |-> IF im.r > 0 THEN 1 ELSE 0, r |-> im.r, n |-> im.n,
   tot |-> IF im.pre = 4 THEN im.tot ELSE 0, rf |-> im.rf, alloc |-> size, filled |-> FALSE,
   data |-> [i \in 0 .. size - 1 |-> IF i < im.h THEN im.items[i]
                                     ELSE IF i \in im.h + 1 .. im.h + im.r THEN im.items[i - 1]
                                     ELSE Raw],
   wt |-> [i \in 0 .. size - 1 |-> IF i < im.h THEN im.wt[i] ELSE NoWeight],
   gadget |-> im.gadget,
   mk |-> [i \in 0 .. size - 1 |-> IF i \in DOMAIN im.mk THEN im.mk[i] ELSE Raw],
   nmarks |-> Cardinality({i \in DOMAIN im.mk : im.mk[i]}),
   touched |-> FALSE, threw |-> FALSE]

deserialize(im) ==
  LET size == validate_and_get_target_size(im)
  IN IF im.empty THEN new_sketch(im.k, im.rf, im.gadget)
     ELSE IF size = 0 \/ (im.pre = 4 /\ (im.r = 0 \/ im.tot <= 0))
     THEN Throw(new_sketch(im.k, im.rf, im.gadget))
     ELSE Loaded(im, size)

-----------------------------------------------------------------------------
(***************************************************************************)
(* var_opt_union: a gadget sketch that takes the items of other sketches,  *)
(* those of their regions R marked and with weight tau, and the largest    *)
(* tau met so far as a fraction numer / denom.  get_result turns a copy of *)
(* the gadget into a sketch without marks; coerced tells the results that  *)
(* mark_moving_gadget_coercer made.                                        *)
(***************************************************************************)
new_union(max_k, rf) ==
  [n |-> 0, numer |-> 0, denom |-> 0, max_k |-> max_k, gadget |-> new_sketch(max_k, rf, TRUE)]

reset_union(u) == [u EXCEPT !.n = 0, !.numer = 0, !.denom = 0, !.gadget = reset(@)]

(* R in the order of the iterator; its items all have weight tau, the last *)
(* one what is left of total_wt_r_                                         *)
MarkedR(s) ==
  [i \in 1 .. s.r |->
     [item |-> s.data[s.h + i], mark |-> TRUE,
      wt |-> IF i = s.r THEN s.tot - (s.r - 1) * (s.tot \div s.r) ELSE s.tot \div s.r]]

Contribution(s) ==
  [i \in 1 .. s.h |-> [item |-> s.data[i - 1], wt |-> s.wt[i - 1], mark |-> FALSE]] \o MarkedR(s)

merge_items(u, s) ==
  FoldLeft(LAMBDA gs, e : UNION {update(g, e.item, e.wt, e.mark) : g \in gs},
           {u.gadget}, Contribution(s))

resolve_tau_ignores_ties(u, s) ==
  IF s.r > 0 /\ (u.denom = 0 \/ s.tot * u.denom > u.numer * s.r)
  THEN [u EXCEPT !.numer = s.tot, !.denom = s.r]
  ELSE u

resolve_tau(u, s) ==
  IF s.r = 0 THEN u
  ELSE IF u.denom = 0 \/ s.tot * u.denom > u.numer * s.r
  THEN [u EXCEPT !.numer = s.tot, !.denom = s.r]
  ELSE IF s.tot * u.denom = u.numer * s.r
  THEN [u EXCEPT !.numer = @ + s.tot, !.denom = @ + s.r]
  ELSE u

update_union(u, s) ==
  {resolve_tau([u EXCEPT !.n = @ + s.n, !.gadget = g], s) : g \in merge_items(u, s)}

-----------------------------------------------------------------------------
(* the marked items of H in the order the coercer meets them, that is      *)
(* from the back of the result to its gap                                  *)
MarkedOf(g) == SelectSeq([i \in 1 .. g.h |-> i - 1], LAMBDA i : g.mk[i])
UnmarkedOf(g) == SelectSeq([i \in 1 .. g.h |-> i - 1], LAMBDA i : ~g.mk[i])

Transferred(g) == FoldLeft(LAMBDA acc, i : acc + g.wt[i], 0, MarkedOf(g))

Moving(u, g, unmarked, marked) ==
  LET h == Len(unmarked)
      k == g.h
  IN [new_sketch(k, g.rf, FALSE) EXCEPT
        !.n = u.n, !.h = h, !.r = Len(marked), !.tot = Transferred(g),
        !.alloc = k + 1, !.filled = FALSE,
        !.data = [i \in 0 .. k |-> IF i < h THEN g.data[unmarked[i + 1]]
                                   ELSE IF i = h THEN Raw ELSE g.data[marked[k - i + 1]]],
        !.wt = [i \in 0 .. k |-> IF i < h THEN g.wt[unmarked[i + 1]] ELSE NoWeight],
        !.mk = Blank(k + 1, Raw),
        !.threw = Transferred(g) # u.numer]

mark_moving_gadget_coercer(u) == Moving(u, u.gadget, UnmarkedOf(u.gadget), MarkedOf(u.gadget))

(* get_tau() of an exact gadget is not a number, so that no item is        *)
(* lighter and condition 4 never fails                                     *)
IsPseudoExact(u) ==
  u.gadget.r = 0 /\ u.gadget.nmarks > 0 /\ u.gadget.nmarks = u.denom

RECURSIVE ShrinkWhileMarked(_)
ShrinkWhileMarked(gs) ==
  LET marked == {g \in gs : g.nmarks > 0 /\ ~g.threw}
  IN IF marked = {} THEN gs
     ELSE ShrinkWhileMarked((gs \ marked) \cup UNION {decrease_k_by_1(g) : g \in marked})

StripMarks(g) == [g EXCEPT !.nmarks = 0, !.gadget = FALSE, !.mk = [i \in DOMAIN @ |-> Raw]]

migrate_marked_items_by_decreasing_k(g) ==
  LET full == IF g.r = 0 /\ g.h < g.k THEN [g EXCEPT !.k = g.h] ELSE g
  IN IF g.r # 0 /\ g.h + g.r # g.k THEN {Throw(g)}
     ELSE {StripMarks(t) : t \in ShrinkWhileMarked(decrease_k_by_1(full))}

get_result(u) ==
  IF u.gadget.nmarks = 0 THEN {copy_sketch(u.gadget, TRUE, u.n)}
  ELSE IF IsPseudoExact(u) THEN {mark_moving_gadget_coercer(u)}
  ELSE migrate_marked_items_by_decreasing_k(copy_sketch(u.gadget, FALSE, u.n))

-----------------------------------------------------------------------------
(* An empty union stores its max_k only and is rebuilt with the default    *)
(* resize factor; a loaded one holds a copy of the loaded gadget.          *)
serialize_union(u) ==
  [empty |-> u.n = 0, max_k |-> u.max_k, n |-> u.n, numer |-> u.numer, denom |-> u.denom,
   gadget |-> serialize(u.gadget)]

LoadedGadget(g) == copy_sketch(g, FALSE, g.n)

deserialize_union(im, default_rf) ==
  IF im.empty THEN new_union(im.max_k, default_rf)
  ELSE [n |-> im.n, numer |-> im.numer, denom |-> im.denom, max_k |-> im.max_k,
        gadget |-> LoadedGadget(deserialize(im.gadget))]
=============================================================================
