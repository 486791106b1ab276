-------------------------- MODULE QuantileSketches --------------------------
(***************************************************************************)
(* The life of a quantile sketch of any of the three kinds: items and      *)
(* other sketches of its kind are fed to it, queries cache a sorted view   *)
(* in it, it is copied, stored and loaded.                                 *)
(***************************************************************************)
EXTENDS KllSketch, QuantilesSketch, ReqSketch

CONSTANTS NewSketches,       \* the sketches a behaviour may start with
          Sources,           \* the sketches to merge
          MaxUpdated,        \* bound on n for updates
          MaxMerged          \* bound on n after merges

VARIABLE sk

update(s, item) ==
  CASE s.kind = "kll"       -> kll_update(s, item)
    [] s.kind = "quantiles" -> q_update(s, item)
    [] s.kind = "req"       -> req_update(s, item)

merge(s, o) ==
  CASE s.kind = "kll"       -> kll_merge(s, o)
    [] s.kind = "quantiles" -> q_merge(s, o)
    [] s.kind = "req"       -> req_merge(s, o)

setup_sorted_view(s) ==
  CASE s.kind = "kll"       -> kll_setup_sorted_view(s)
    [] s.kind = "quantiles" -> q_setup_sorted_view(s)
    [] s.kind = "req"       -> req_setup_sorted_view(s)

sort_lowest_level(s) ==
  CASE s.kind = "kll"       -> sort_level_zero(s)
    [] s.kind = "quantiles" -> q_sort_base(s)
    [] s.kind = "req"       -> req_sort_level_zero(s)

copies(s) ==
  CASE s.kind = "kll"       -> kll_copies(s)
    [] s.kind = "quantiles" -> q_copies(s)
    [] s.kind = "req"       -> req_copies(s)

store_and_load(s) ==
  CASE s.kind = "kll"       -> {kll_deserialize(kll_serialize(s))}
    [] s.kind = "quantiles" -> {q_deserialize(q_serialize(s))}
    [] s.kind = "req"       -> req_deserialize(req_serialize(s))

(* what the model remembers of a sketch is not in its image                *)
Loaded(s) ==
  {IF s.kind = "req" THEN [t EXCEPT !.seen = s.seen, !.err = s.err, !.least_k = s.least_k]
                     ELSE [t EXCEPT !.seen = s.seen, !.err = s.err] : t \in store_and_load(s)}

(* the sketches a stream of items can lead to from s                       *)
Fed(s, stream) ==
  FoldLeft(LAMBDA S, item : UNION {update(t, item) : t \in S}, {s}, stream)

-----------------------------------------------------------------------------
Init == sk \in NewSketches

Update(item) ==
  /\ sk.ok /\ sk.n < MaxUpdated
  /\ sk' \in update(sk, item)

Merge(other) ==
  /\ sk.ok /\ other.kind = sk.kind /\ sk.n + other.n <= MaxMerged
  /\ sk' \in merge(sk, other)

(* get_quantile, get_CDF, get_PMF, get_rank: not for an empty sketch       *)
Query ==
  /\ sk.ok /\ sk.n > 0
  /\ sk' = setup_sorted_view(sk)

(* get_sorted_view(), get_rank() of a REQ sketch, and serialize() of a     *)
(* classic one: they sort the lowest level and cache nothing               *)
SortLowestLevel ==
  /\ sk.ok
  /\ sk' = sort_lowest_level(sk)

Copy ==
  /\ sk.ok
  /\ sk' \in copies(sk)

StoreAndLoad ==
  /\ sk.ok
  /\ sk' \in Loaded(sk)

Next ==
  \/ \E item \in Items : Update(item)
  \/ \E other \in Sources : Merge(other)
  \/ Query
  \/ SortLowestLevel
  \/ Copy
  \/ StoreAndLoad

Spec == Init /\ [][Next]_sk

-----------------------------------------------------------------------------
(* The retained items <<level, place, item>>; one of level h counts 2^h    *)
Retained(s) ==
  CASE s.kind = "kll" ->
         UNION {{<<h, i, s.items[i]>> : i \in s.levels[h] .. s.levels[h + 1] - 1} : h \in 0 .. s.num_levels - 1}
    [] s.kind = "quantiles" ->
         {<<0, i, s.base[i]>> : i \in 1 .. Len(s.base)}
           \cup UNION {{<<h, i, s.levels[h][i]>> : i \in 1 .. Len(s.levels[h])} : h \in 1 .. Len(s.levels)}
    [] s.kind = "req" ->
         UNION {{<<c.lg_weight, i, c.items[i]>> : i \in 1 .. Len(c.items)} : c \in Range(s.compactors)}

WeightOf(R) == MapThenSumSet(LAMBDA e : 2^e[1], R)

UpTo(x, inclusive, y) == y < x \/ (inclusive /\ y = x)

Estimated(s, x, inclusive) == WeightOf({e \in Retained(s) : UpTo(x, inclusive, e[3])})

Presented(s, x, inclusive) ==
  MapThenSumSet(LAMBDA y : s.seen[y], {y \in Items : UpTo(x, inclusive, y)})

ImageFits(s) ==
  CASE s.kind = "kll" ->
         /\ Len(kll_serialize(s)) = kll_get_serialized_size(s)
         /\ kll_get_serialized_size(s) <= kll_get_max_serialized_size(s.k, s.n)
    [] s.kind = "quantiles" -> Len(q_serialize(s)) = q_get_serialized_size(s)
    [] s.kind = "req" -> Len(req_serialize(s).data) <= req_get_serialized_size(s)

(* None of the consistency checks in the code fires, whatever was updated  *)
(* and merged.  KLL: a level is full when the buffer is, merging ends      *)
(* within ub_on_num_levels(n) levels, never moves a level upwards, and the *)
(* weights add up to n.  Classic: the capacities of the vectors are what   *)
(* zip_buffer and merge_two_size_k_buffers demand, the bit pattern is      *)
(* n / 2k.  REQ: there is a range to compact.  An image fits in the space  *)
(* that get_serialized_size_bytes() announces.                             *)
(*                                                                         *)
(* The structure that the next operation relies on: every retained item    *)
(* stands for 2^level, in all for n, and what is flagged as sorted is.     *)
(* KLL: live objects exactly from levels_[0] up, none moved from, in a     *)
(* buffer of the size that deserialize() derives.  Classic: a level is     *)
(* empty or holds k items as the bits of n / 2k say.  REQ: counts are      *)
(* exact and below the size at which update() compresses, which tests for  *)
(* equality only.                                                          *)
StructureExact ==
    /\ sk.ok
    /\ ImageFits(sk)
    /\ WeightOf(Retained(sk)) = sk.n
    /\ sk.kind = "kll" =>
         /\ items_size(sk) = compute_total_capacity(sk.k, sk.num_levels)
         /\ sk.levels[sk.num_levels] = items_size(sk)
         /\ \A h \in 0 .. sk.num_levels - 1 : 0 <= sk.levels[h] /\ sk.levels[h] <= sk.levels[h + 1]
         /\ \A i \in DOMAIN sk.items :
              IF i < sk.levels[0] THEN sk.items[i] = Raw ELSE sk.items[i] \in Items
         /\ \A h \in 0 .. sk.num_levels - 1 : h > 0 \/ sk.sorted => InOrder(Level(sk, h))
    /\ sk.kind = "quantiles" =>
         /\ Len(sk.base) = compute_base_buffer_items(sk.k, sk.n)
         /\ Len(sk.levels) = compute_levels_needed(sk.k, sk.n)
         /\ \A i \in 1 .. Len(sk.levels) :
              /\ Len(sk.levels[i]) = sk.k * Bit(compute_bit_pattern(sk.k, sk.n), i - 1)
              /\ InOrder(sk.levels[i])
         /\ sk.sorted => InOrder(sk.base)
    /\ sk.kind = "req" =>
         /\ sk = update_num_retained(update_max_nom_size(sk))
         /\ sk.num_retained < sk.max_nom_size
         /\ \A c \in Range(sk.compactors) :
              Len(c.items) <= c.cap /\ (c.sorted \/ c.lg_weight > 0 => InOrder(c.items))

AtAccurateEnd(s, rank) ==
  /\ s.kind = "req"
  /\ (IF s.hra THEN s.n - rank ELSE rank) < s.least_k * INIT_NUM_SECTIONS

(* However the coins fall, the rank of every item is off by at most the    *)
(* weight of the compactions made, each of which halves a sorted run and   *)
(* doubles its weights, and the extremes are exact.  A REQ sketch is exact *)
(* at its accurate end: compactions spare the k * INIT_NUM_SECTIONS items  *)
(* next to it, so that a rank within them is the true one.  k is the least *)
(* of the sketches that were merged, and the rank of the last of them is   *)
(* not included; is_exact_rank() takes the k of the sketch and includes it.*)
RankErrorBounded ==
  sk.ok =>
    /\ \A x \in Items, inclusive \in BOOLEAN :
         LET rank == Estimated(sk, x, inclusive)
             off  == rank - Presented(sk, x, inclusive)
         IN /\ -sk.err <= off /\ off <= sk.err
            /\ AtAccurateEnd(sk, rank) => off = 0
    /\ sk.n > 0 =>
         LET present == {x \in Items : sk.seen[x] > 0}
         IN sk.min = Min(present) /\ sk.max = Max(present)

(* What queries answer from the cached view is right for the items that    *)
(* are retained now: every operation that changes them drops the view.     *)
(* get_quantile() is the smallest retained item whose rank is large enough.*)
QueriesExact ==
  sk.ok /\ sk.view # NoView =>
    /\ total_weight(sk.view) = sk.n
    /\ \A inclusive \in BOOLEAN :
         /\ \A x \in Items :
              /\ get_rank(sk.view, x, inclusive) = Estimated(sk, x, inclusive)
              /\ sk.kind = "req" => req_get_rank(sk, x, inclusive) = Estimated(sk, x, inclusive)
         /\ \A w \in 0 .. 2 * sk.n :
              LET held  == {e[3] : e \in Retained(sk)}
                  above == {x \in held : LET r == 2 * Estimated(sk, x, TRUE)
                                         IN IF inclusive THEN r >= w ELSE r > w}
              IN get_quantile(sk.view, <<w, 2 * sk.n>>, inclusive)
                   = IF above = {} THEN Max(held) ELSE Min(above)

(* What an image must preserve: all but the cached view, spare capacities, *)
(* the order of a base buffer and coins.                                   *)
Content(s) ==
  CASE s.kind = "kll" -> [s EXCEPT !.view = NoView, !.sorted = @ /\ s.n > 0]
    [] s.kind = "quantiles" -> [s EXCEPT !.view = NoView, !.base = Sorted(@), !.sorted = TRUE, !.base_cap = 0]
    [] s.kind = "req" -> [s EXCEPT !.view = NoView, !.compactors = [h \in 1 .. Len(@) |->
                            [@[h] EXCEPT !.coin = FALSE, !.cap = 0, !.sorted = @ /\ s.n > 0]]]

(* Storing and loading a sketch gives back its content.                    *)
RoundTrip ==
  sk.ok => \A t \in Loaded(sk) : Content(t) = Content(sk)
=============================================================================
