------------------------- MODULE StandaloneSketches -------------------------
(***************************************************************************)
(* The sketches that share no code with the others: Bloom filters, count-  *)
(* min, density and EBPPS sketches and t-digests.  A behaviour is about    *)
(* one kind, chosen at the start: a client with two objects of it, sk,     *)
(* updates, merges, stores and loads them.  hist is what really happened   *)
(* to each object, been the uncommon things that did, ops the number of    *)
(* calls.                                                                  *)
(***************************************************************************)
EXTENDS BloomFilter, CountMinSketch, DensitySketch, EbppsSketch, TDigest

CONSTANTS Kinds,          \* a subset of {"bloom", "count_min", "density", "ebpps", "tdigest"}
          FilterSizes,    \* sizes of the first filter, in bits
          NewSizes,       \* sizes of the filters created later
          BloomItems,     \* items given to filters
          Objects,        \* items given to count-min sketches; queries of both
          CmWeights,      \* weights given to a count-min sketch
          Points,         \* points given to a density sketch
          DensityKs, EbppsKs,
          EbppsWeights,   \* weights given to an EBPPS sketch
          Thetas,         \* rates at which EBPPS samples are tried
          TdValues,       \* values given to a t-digest
          TdStreams,      \* values a t-digest may hold at the start
          MaxOps          \* bound on the calls of a behaviour, by kind

VARIABLES kind, sk, hist, been, ops

vars == <<kind, sk, hist, been, ops>>

Two == 1 .. 2

(* hist of a filter and of the block: the items it must find, and whether  *)
(* its count no longer follows its bits                                    *)
NoItems == [ins |-> {}, late |-> FALSE]

(* a new filter, and its image in the block                                *)
NewWorld(longs) ==
  [mem |-> BloomImage(longs, TRUE, 0, {}), f |-> <<bloom_filter(longs), NoFilter>>]

InitKind ==
  \/ /\ kind = "bloom"
     /\ \E num_bits \in FilterSizes : sk = NewWorld(LongsFor(num_bits))
     /\ hist = [mem |-> NoItems, f |-> <<NoItems, NoItems>>]
  \/ /\ kind = "count_min"
     /\ sk = <<count_min_sketch, count_min_sketch>>
     /\ hist = [i \in Two |-> [sum |-> [x \in Objects |-> 0], abs |-> 0]]
  \/ /\ kind = "density"
     /\ sk \in {<<density_sketch(k), density_sketch(l)>> : k, l \in DensityKs}
     /\ hist = [i \in Two |-> << >>]
  \/ /\ kind = "ebpps"
     /\ sk \in {<<ebpps_sketch(k), ebpps_sketch(l)>> : k, l \in EbppsKs}
     /\ hist = [i \in Two |-> [total |-> 0, items |-> {}]]
  \/ /\ kind = "tdigest"
     /\ \E s \in TdStreams :
          /\ sk = <<tdigest, FoldLeft(LAMBDA d, v : td_update(d, <<v, 1>>), tdigest, s)>>
          /\ hist = << << >>, InOrder(s) >>

Init == InitKind /\ kind \in Kinds /\ been = {} /\ ops = 0

Call(k) == kind = k /\ ops < MaxOps[k] /\ ops' = ops + 1 /\ UNCHANGED kind

-----------------------------------------------------------------------------
(* Bloom filters.                                                          *)

(* a filter on the block that was wrapped with less than its capacity has  *)
(* nothing to find there                                                   *)
HasWholeBlock(w, i) == w.f[i].longs = w.mem.longs

InsOf(i) ==
  IF ~OnMemory(sk, i) THEN hist.f[i].ins
  ELSE IF HasWholeBlock(sk, i) THEN hist.mem.ins ELSE {}

(* hist after an operation of filter i that leads to world w: the items it *)
(* must find, and whether its count and the one in the block are late.     *)
(* Other filters on the block do not see the change.                       *)
Followed(w, i, ins, late, mem_late) ==
  [mem |-> IF ~OnMemory(w, i) THEN hist.mem
           ELSE IF HasWholeBlock(w, i) THEN [ins |-> ins, late |-> mem_late]
           ELSE IF w.mem = sk.mem THEN hist.mem ELSE [ins |-> {}, late |-> TRUE],
   f   |-> [j \in Two |->
              IF j = i THEN [ins |-> IF OnMemory(w, i) THEN {} ELSE ins, late |-> late]
              ELSE IF OnMemory(w, i) /\ OnMemory(w, j) /\ w.mem.set # sk.mem.set
              THEN [hist.f[j] EXCEPT !.late = TRUE] ELSE hist.f[j]]]

BloomStep(w, i, ins, late, mem_late) ==
  Call("bloom") /\ sk' = w /\ hist' = Followed(w, i, ins, late, mem_late) /\ UNCHANGED been

(* the remainder of a hash by a capacity of 0 ends the program             *)
BloomUpdate(i, x) ==
  /\ kind = "bloom" /\ Writable(sk, i) /\ sk.f[i].longs > 0
  /\ BloomStep(internal_update(sk, i, x), i, InsOf(i) \cup {x}, FALSE, TRUE)

BloomQueryAndUpdate(i, x) ==
  /\ kind = "bloom" /\ Writable(sk, i) /\ sk.f[i].longs > 0
  /\ LET late == hist.f[i].late \/ sk.f[i].dirty
     IN BloomStep(internal_query_and_update(sk, i, x), i, InsOf(i) \cup {x}, late, late)

BloomBitsUsed(i) ==
  /\ kind = "bloom" /\ sk.f[i].on # "none" /\ sk.f[i].dirty
  /\ BloomStep(get_bits_used(sk, i), i, InsOf(i), FALSE, hist.mem.late)

BloomReset(i) ==
  /\ kind = "bloom" /\ Writable(sk, i)
  /\ BloomStep(reset(sk, i), i, {}, FALSE, FALSE)

(* union_with, intersect and invert count the bits, and write the count to *)
(* the block unless the filter is read-only                                *)
BloomCounted(w, i, ins) ==
  BloomStep(w, i, ins, FALSE,
            IF sk.f[i].ro THEN hist.mem.late \/ w.mem.set # sk.mem.set ELSE FALSE)

BloomUnion(i, j) ==
  /\ kind = "bloom" /\ sk.f[i].on # "none" /\ sk.f[j].on # "none" /\ is_compatible(sk, i, j)
  /\ BloomCounted(union_with(sk, i, j), i, InsOf(i) \cup InsOf(j))

BloomIntersect(i, j) ==
  /\ kind = "bloom" /\ sk.f[i].on # "none" /\ sk.f[j].on # "none" /\ is_compatible(sk, i, j)
  /\ BloomCounted(intersect(sk, i, j), i, InsOf(i) \cap InsOf(j))

BloomInvert(i) ==
  /\ kind = "bloom" /\ sk.f[i].on # "none"
  /\ BloomCounted(invert(sk, i), i, {})

BlockFree(i) == \A j \in Two \ {i} : ~OnMemory(sk, j)

BloomCreate(i, num_bits) ==
  /\ Call("bloom") /\ Accepted(num_bits)
  /\ sk' = create_by_size(sk, i, num_bits)
  /\ hist' = [hist EXCEPT !.f[i] = NoItems]
  /\ UNCHANGED been

(* a filter on a fresh block of memory                                     *)
BloomInitialize(i, num_bits) ==
  /\ Call("bloom") /\ Accepted(num_bits) /\ BlockFree(i)
  /\ sk' = initialize_by_size(sk, i, num_bits)
  /\ hist' = [hist EXCEPT !.mem = NoItems, !.f[i] = NoItems]
  /\ UNCHANGED been

BloomCopy(i, j) ==
  /\ Call("bloom") /\ i # j /\ sk.f[i].on # "none"
  /\ sk' = copy(sk, i, j)
  /\ hist' = [hist EXCEPT !.f[j] = hist.f[i]]
  /\ UNCHANGED been

BloomMove(i, j) ==
  /\ Call("bloom") /\ i # j
  /\ sk' = move(sk, i, j)
  /\ hist' = [hist EXCEPT !.f[i] = hist.f[j], !.f[j] = hist.f[i]]
  /\ UNCHANGED been

(* filter i is stored in the block; an image that says empty has no items  *)
BloomStore(i) ==
  /\ Call("bloom") /\ sk.f[i].on = "heap" /\ BlockFree(i)
  /\ sk' = [sk EXCEPT !.mem = serialize(sk, i)]
  /\ hist' = [hist EXCEPT !.mem = [ins  |-> IF is_empty(sk, i) THEN {} ELSE InsOf(i),
                                   late |-> ~sk.f[i].dirty /\ hist.f[i].late]]
  /\ UNCHANGED been

(* What a filter read from the block has to find.  One whose capacity lost *)
(* bits finds nothing of the block, and has the count of the whole block.  *)
LoadedItems(f) ==
  IF f.longs = sk.mem.longs
  THEN [late |-> hist.mem.late, ins |-> IF f.on = "memory" THEN {} ELSE hist.mem.ins]
  ELSE [late |-> hist.mem.late \/ ~f.dirty, ins |-> {}]

(* filter i is read from the block, as deserialize, wrap or writable_wrap  *)
BloomLoad(i) ==
  /\ Call("bloom")
  /\ \E f \in {deserialize(sk.mem), wrap(sk.mem), writable_wrap(sk.mem)} :
       /\ f # NoFilter
       /\ sk' = [sk EXCEPT !.f[i] = f]
       /\ hist' = [hist EXCEPT !.f[i] = LoadedItems(f)]
  /\ UNCHANGED been

-----------------------------------------------------------------------------
(* Count-min sketches.                                                     *)

CountMinUpdate(i, x, weight) ==
  /\ Call("count_min")
  /\ sk' = [sk EXCEPT ![i] = cm_update(@, x, weight)]
  /\ hist' = [hist EXCEPT ![i].sum[x] = @ + weight, ![i].abs = @ + AbsOf(weight)]
  /\ UNCHANGED been

CountMinMerge(i, j) ==
  /\ Call("count_min") /\ i # j
  /\ sk' = [sk EXCEPT ![i] = cm_merge(@, sk[j])]
  /\ hist' = [hist EXCEPT ![i] = [sum |-> [x \in Objects |-> @.sum[x] + hist[j].sum[x]],
                                  abs |-> @.abs + hist[j].abs]]
  /\ UNCHANGED been

CountMinStoreAndLoad(i) ==
  /\ Call("count_min")
  /\ sk' = [sk EXCEPT ![i] = cm_deserialize(cm_serialize(@))]
  /\ UNCHANGED <<hist, been>>

-----------------------------------------------------------------------------
(* Density sketches: hist[i] holds the points given to sketch i.           *)

DensityUpdate(i, x) ==
  /\ Call("density")
  /\ \E d \in density_update(sk[i], x) : sk' = [sk EXCEPT ![i] = d]
  /\ hist' = [hist EXCEPT ![i] = InOrder(Append(@, x))]
  /\ UNCHANGED been

(* sketch j is merged into i and replaced by a new one                     *)
DensityMerge(i, j) ==
  /\ Call("density") /\ i # j
  /\ \E d \in density_merge(sk[i], sk[j]) :
       sk' = [sk EXCEPT ![i] = d, ![j] = density_sketch(@.k)]
  /\ hist' = [hist EXCEPT ![i] = IF density_is_empty(sk[j]) THEN @ ELSE InOrder(@ \o hist[j]),
                          ![j] = << >>]
  /\ UNCHANGED been

(* a sketch that has lost all its points is stored as an empty one         *)
DensityStoreAndLoad(i) ==
  /\ Call("density")
  /\ sk' = [sk EXCEPT ![i] = density_deserialize(density_serialize(@))]
  /\ hist' = [hist EXCEPT ![i] = IF density_is_empty(sk[i]) THEN << >> ELSE @]
  /\ been' = been \cup {"loaded"}

-----------------------------------------------------------------------------
(* EBPPS sketches: hist[i] holds the total weight and the items given.     *)

EbppsUpdate(i, weight) ==
  /\ Call("ebpps")
  /\ \E e \in ebpps_update(sk[i], ops, <<weight, 1>>) : sk' = [sk EXCEPT ![i] = e]
  /\ hist' = [hist EXCEPT ![i] = IF weight = 0 THEN @
                                 ELSE [total |-> @.total + weight, items |-> @.items \cup {ops}]]
  /\ UNCHANGED been

(* sketch j is merged into i and replaced by a new one.  "lighter": the    *)
(* maximum weight is that of the sketch with the lesser cumulative weight, *)
(* which wt_max_ does not take; "narrowed": k_ falls and nothing is drawn  *)
EbppsMerge(i, j) ==
  /\ Call("ebpps") /\ i # j
  /\ \E e \in ebpps_merge(sk[i], sk[j]) :
       /\ sk' = [sk EXCEPT ![i] = e, ![j] = ebpps_sketch(@.k)]
       /\ been' = been
            \cup (IF Less(e.wt_max, Greater(sk[i].wt_max, sk[j].wt_max)) THEN {"lighter"} ELSE {})
            \cup (IF sk[i].cum = Zero /\ e.k < sk[j].k THEN {"narrowed"} ELSE {})
  /\ hist' = [hist EXCEPT ![i] = [total |-> @.total + hist[j].total,
                                  items |-> @.items \cup hist[j].items],
                          ![j] = [total |-> 0, items |-> {}]]

EbppsReset(i) ==
  /\ Call("ebpps")
  /\ sk' = [sk EXCEPT ![i] = ebpps_reset(@)]
  /\ hist' = [hist EXCEPT ![i] = [total |-> 0, items |-> {}]]
  /\ UNCHANGED been

EbppsStoreAndLoad(i) ==
  /\ Call("ebpps") /\ Readable(ebpps_serialize(sk[i]))
  /\ sk' = [sk EXCEPT ![i] = ebpps_deserialize(ebpps_serialize(@))]
  /\ UNCHANGED <<hist, been>>

-----------------------------------------------------------------------------
(* t-digests: hist[i] holds the values given, in ascending order.          *)

TdUpdate(i, v) ==
  /\ Call("tdigest")
  /\ sk' = [sk EXCEPT ![i] = td_update(@, <<v, 1>>)]
  /\ hist' = [hist EXCEPT ![i] = InOrder(Append(@, v))]
  /\ UNCHANGED been

(* compress(), which the queries call too                                  *)
TdCompress(i) ==
  /\ Call("tdigest")
  /\ sk' = [sk EXCEPT ![i] = compress(@)]
  /\ UNCHANGED <<hist, been>>

TdMerge(i, j) ==
  /\ Call("tdigest") /\ i # j
  /\ sk' = [sk EXCEPT ![i] = td_merge(@, sk[j])]
  /\ hist' = [hist EXCEPT ![i] = InOrder(@ \o hist[j])]
  /\ UNCHANGED been

TdStoreAndLoad(i, with_buffer) ==
  /\ Call("tdigest")
  /\ sk' = [sk EXCEPT ![i] = td_deserialize(td_serialize(@, with_buffer))]
  /\ UNCHANGED <<hist, been>>

TdLoadCompat(i) ==
  /\ Call("tdigest") /\ ~td_is_empty(sk[i])
  /\ sk' = [sk EXCEPT ![i] = td_deserialize_compat(asBytes(@))]
  /\ UNCHANGED <<hist, been>>

Next ==
  \/ \E i \in Two, x \in BloomItems : BloomUpdate(i, x) \/ BloomQueryAndUpdate(i, x)
  \/ \E i \in Two : \/ BloomBitsUsed(i) \/ BloomReset(i) \/ BloomInvert(i)
                    \/ BloomStore(i) \/ BloomLoad(i)
  \/ \E i \in Two, num_bits \in NewSizes : BloomCreate(i, num_bits) \/ BloomInitialize(i, num_bits)
  \/ \E i, j \in Two : BloomUnion(i, j) \/ BloomIntersect(i, j)
                       \/ BloomCopy(i, j) \/ BloomMove(i, j)
  \/ \E i \in Two, x \in Objects, weight \in CmWeights : CountMinUpdate(i, x, weight)
  \/ \E i \in Two : CountMinStoreAndLoad(i) \/ DensityStoreAndLoad(i)
  \/ \E i, j \in Two : CountMinMerge(i, j) \/ DensityMerge(i, j) \/ EbppsMerge(i, j)
  \/ \E i \in Two, x \in Points : DensityUpdate(i, x)
  \/ \E i \in Two : EbppsStoreAndLoad(i) \/ EbppsReset(i)
  \/ \E i \in Two, weight \in EbppsWeights : EbppsUpdate(i, weight)
  \/ \E i \in Two, with_buffer \in BOOLEAN : TdStoreAndLoad(i, with_buffer)
  \/ \E i \in Two : TdLoadCompat(i) \/ TdCompress(i)
  \/ \E i, j \in Two : TdMerge(i, j)
  \/ \E i \in Two, v \in TdValues : TdUpdate(i, v)

Spec == Init /\ [][Next]_vars
-----------------------------------------------------------------------------
BitsUsed(w, i) == get_bits_used(w, i).f[i].num

BloomCountExact ==
  /\ \A i \in Two : (sk.f[i].on # "none" /\ ~hist.f[i].late) =>
       sk.f[i].dirty \/ sk.f[i].num = Cardinality(Bits(sk, i))
  /\ (~hist.mem.late /\ ~sk.mem.empty) =>
       sk.mem.num \in {DIRTY_BITS_VALUE, Cardinality(sk.mem.set)}

Retained(d) == PointsUpTo(d.levels, Len(d.levels))

DensityExact(d, given) ==
  /\ d.num = Retained(d)
  /\ d.n = Len(given)
  /\ ("loaded" \notin been) => d.num <= d.k * Len(d.levels)
  /\ \A h \in DOMAIN d.levels : \A x \in ToSet(d.levels[h]) : x \in ToSet(given)
  /\ (Len(d.levels) = 1 /\ "loaded" \notin been) => d.levels[1] = given

EbppsExact(e, given) ==
  /\ Cardinality(e.sample.data) = Floor(e.sample.c)
  /\ (e.sample.partial # None) = (Part(e.sample.c) # Zero)
  /\ e.sample.partial \notin e.sample.data
  /\ e.sample.data \cup ({e.sample.partial} \ {None}) \subseteq given.items
  /\ e.n > 0 => ~Less(e.sample.c, One)
  /\ e.cum = <<given.total, 1>> /\ e.n = Cardinality(given.items)

SumOf(cs) == FoldLeft(LAMBDA sum, c : Plus(sum, Times(c.mean, Whole(c.w))), Zero, cs)

(* the first and the last centroid are single values, the extremes         *)
CentroidsExact(cs, given) ==
  /\ SumOf(cs) = Whole(FoldLeft(LAMBDA sum, v : sum + v, 0, given))
  /\ cs[1] = centroid(<<given[1], 1>>, 1)
  /\ cs[Len(cs)] = centroid(<<given[Len(given)], 1>>, 1)

TdExact(d, given) ==
  /\ Len(d.buf) <= BUFFER_CAPACITY
  /\ d.cw = WeightBefore(d.cents, Len(d.cents) + 1) /\ get_total_weight(d) = Len(given)
  /\ \A i \in 2 .. Len(d.cents) : ~Less(d.cents[i].mean, d.cents[i - 1].mean)
  /\ given # << >> =>
       /\ d.min = <<given[1], 1>> /\ d.max = <<given[Len(given)], 1>>
       /\ CentroidsExact(compress(d).cents, given)

(* What each sketch says of its own size is so, whatever calls, merges and *)
(* images it went through: num_bits_set_ of a filter and of the block is   *)
(* the number of bits or is marked dirty, unless query_and_update counted  *)
(* from a dirty value or another filter wrote the block; num_retained_ of  *)
(* a density sketch is the number of points, within k per level, and n_    *)
(* the number given; an EBPPS sample has floor(c) full items, and a        *)
(* partial one exactly when c has a fraction, all given and none twice;    *)
(* a t-digest has the weight and the sum of what was given, ordered means, *)
(* and ends in the least and the greatest value, each on its own, although *)
(* merge() takes neither min_ nor max_ from the other digest.              *)
StructureExact ==
  CASE kind = "bloom" -> BloomCountExact
    [] kind = "count_min" -> \A i \in Two : sk[i].total = hist[i].abs
    [] kind = "density" -> \A i \in Two : DensityExact(sk[i], hist[i])
    [] kind = "ebpps" -> \A i \in Two : EbppsExact(sk[i], hist[i])
    [] kind = "tdigest" -> \A i \in Two : TdExact(sk[i], hist[i])

BloomFinds(i) ==
  \A x \in InsOf(i) : /\ HashBits(sk, i, x) \subseteq Bits(sk, i)
                      /\ ~hist.f[i].late => internal_query(sk, i, x)

RowSum(sum, x, row) ==
  MapThenSumSet(LAMBDA y : sum[y],
    {y \in Objects : RowHash[y][row] % NUM_BUCKETS = RowHash[x][row] % NUM_BUCKETS})

(* an item that no call has given                                          *)
NewItem == MaxOps["ebpps"]

(* how likely an item is in the result of get_sample                       *)
Inclusion(s, x) ==
  FoldSet(LAMBDA o, sum : IF x \in o.s THEN Plus(sum, o.p) ELSE sum, Zero, get_sample(s))

Expected(outcomes, x) ==
  FoldSet(LAMBDA o, sum : Plus(sum, Times(o.p, Inclusion(o.s, x))), Zero, outcomes)

FairAt(s, items, theta, down, merged) ==
  /\ \A x \in items :
       /\ Expected(down, x) = Times(theta, Inclusion(s, x))
       /\ Expected(merged, x) = Inclusion(s, x)
  /\ Expected(merged, NewItem) = theta

SampleFair(s, items) ==
  \A theta \in Thetas :
    FairAt(s, items, theta, downsample(s, theta), sample_merge(s, replace_content(NewItem, theta)))

(* the signs that compact_level gives, summed over all pairs of points of  *)
(* a level, against the sum over the points alone                          *)
SignedPairs(level, bits) ==
  MapThenSumSet(LAMBDA ij : Signed(bits[ij[1]] = bits[ij[2]], Kernel[level[ij[1]]][level[ij[2]]]),
                (DOMAIN level) \X (DOMAIN level))

Balanced(level) ==
  \A order \in Shuffles(level), first \in BOOLEAN :
    SignedPairs(order, BitsOf(order, first)) <=
      MapThenSumSet(LAMBDA i : Kernel[level[i]][level[i]], DOMAIN level)

(* what an iterator gives, num steps from the start, and where it is then  *)
Walk(d, x) ==
  FoldLeft(LAMBDA w, i : [it  |-> Advance(d, w.it),
                          sum |-> w.sum + 2^(w.it[1] - 1) * Kernel[d.levels[w.it[1]][w.it[2]]][x]],
           [it |-> begin(d), sum |-> 0], [i \in 1 .. d.num |-> i])

DensityAnswers(d, given) ==
  /\ \A x \in Points :
       Walk(d, x) = [it |-> <<Len(d.levels) + 1, 1>>, sum |-> density_estimate(d, x)]
  /\ \A h \in DOMAIN d.levels : Balanced(d.levels[h])
  /\ (Len(d.levels) = 1 /\ "loaded" \notin been) =>
       \A x \in Points : density_estimate(d, x) = KernelSum(given, x)

(* how many of the given values are below v, and half of those equal to it *)
TrueRank(given, v) ==
  Plus(Whole(Cardinality({i \in DOMAIN given : given[i] < v})),
       Half(Cardinality({i \in DOMAIN given : given[i] = v})))

Apart(p, q) == IF Less(p, q) THEN Minus(q, p) ELSE Minus(p, q)

(* the values asked for, beyond those given on both sides                  *)
Probed == 0 .. Max(TdValues) + 1

RankExact(given, rank, next, single, v) ==
  /\ ~Less(next, rank)
  /\ single => Less(Apart(Times(rank, Whole(Len(given))), TrueRank(given, v)), Half(1))

RanksExact(d, given, single) ==
  \A v \in Probed : RankExact(given, get_rank(d, <<v, 1>>), get_rank(d, <<v + 1, 1>>), single, v)

(* the quantile of a rank is one of the centroids around it or between the *)
(* two; it is the exact one while all centroids are single values          *)
QuantileExact(d, given, cs, single, weight) ==
  LET q == get_quantile(d, Over(weight, Whole(Len(given))))
  IN /\ \E i, j \in DOMAIN cs :
          /\ j \in {i, i + 1}
          /\ i = 1 \/ ~Less(weight, Middle(cs, i))
          /\ j = Len(cs) \/ ~Less(Middle(cs, j), weight)
          /\ ~Less(q, cs[i].mean) /\ ~Less(cs[j].mean, q)
     /\ single => q = <<given[Min({Floor(weight) + 1, Len(given)})], 1>>

TdAnswers(d, given) ==
  LET single == \A i \in DOMAIN d.cents : d.cents[i].w = 1
  IN /\ RanksExact(d, given, single)
     /\ \A n \in 0 .. 2 * Len(given) : QuantileExact(d, given, d.cents, single, Half(n))

(* What each sketch answers is what it should, against the calls that were *)
(* made: a filter finds every item inserted, and the items of the image it *)
(* was read from with all of its capacity, unless its count is late; a     *)
(* count-min estimate is the least, over the rows, of the weight of the    *)
(* items in the same bucket, and its upper bound is one while no item has  *)
(* a negative total; the iterator of a density sketch passes every point   *)
(* once with the weight the estimate gives it, compacting a level errs,    *)
(* summed over pairs, by no more than the points alone, and the estimate   *)
(* is exact before the first compaction; every draw of an EBPPS sample     *)
(* keeps each item with the probability the rate asks for, an iterator     *)
(* visits what get_result may return, c is rho times the cumulative weight *)
(* and at most k, unless a merge left wt_max_ or c behind; the rank of a   *)
(* t-digest never falls as the value rises, a quantile lies between the    *)
(* centroids around its rank, and while every centroid is a single value   *)
(* ranks are right to within half a value and quantiles are exact.         *)
AnswersExact ==
  CASE kind = "bloom" -> \A i \in Two : sk.f[i].on # "none" => BloomFinds(i)
    [] kind = "count_min" -> \A i \in Two, x \in Objects :
         /\ get_estimate(sk[i], x) = Min({RowSum(hist[i].sum, x, row) : row \in 1 .. NUM_ROWS})
         /\ (\A y \in Objects : hist[i].sum[y] >= 0) =>
              hist[i].sum[x] <= get_upper_bound(sk[i], x)
    [] kind = "density" -> \A i \in Two : DensityAnswers(sk[i], hist[i])
    [] kind = "ebpps" -> \A i \in Two :
         /\ SampleFair(sk[i].sample, hist[i].items)
         /\ const_iterator(sk[i].sample) = get_sample(sk[i].sample)
         /\ "lighter" \notin been =>
              (sk[i].sample.c = Times(sk[i].rho, sk[i].cum) \/ sk[i].n = 0)
         /\ "narrowed" \notin been => ~Less(<<sk[i].k, 1>>, sk[i].sample.c)
    [] kind = "tdigest" -> \A i \in Two :
         hist[i] # << >> => TdAnswers(compress(sk[i]), hist[i])

BloomSame(f, i) ==
  LET w == [sk EXCEPT !.f[i] = f, !.mem = serialize(sk, i)]
  IN /\ f.longs = sk.f[i].longs
     /\ BitsUsed(w, i) = BitsUsed(sk, i)
     /\ \A x \in Objects : internal_query(w, i, x) = internal_query(sk, i, x)

DropEmpty(levels) ==
  SubSeq(levels, 1, Max({h \in DOMAIN levels : levels[h] # << >>} \cup {0}))

DensitySame(d, e) ==
  [e EXCEPT !.levels = DropEmpty(@)] = [d EXCEPT !.levels = DropEmpty(@), !.n = IF d.num = 0 THEN 0 ELSE @]

(* The image of a sketch reads back as the same sketch: a filter has the   *)
(* same capacity, answers every query the same and counts the same bits,   *)
(* deserialized or wrapped, unless its count is late or its capacity does  *)
(* not fit the uint32_t in which it is read (such a filter comes back with *)
(* the low bits of its capacity, or not at all); a density sketch comes    *)
(* back without the empty levels after its last point; the image of an     *)
(* EBPPS sketch passes the consistency check of the partial item; a        *)
(* t-digest is compressed before it is stored, and comes back as it was    *)
(* stored.                                                                 *)
RoundTrip ==
  CASE kind = "bloom" -> \A i \in Two :
         (sk.f[i].on # "none" /\ ~hist.f[i].late /\ sk.f[i].longs \in 1 .. 2^LENGTH_BITS - 1) =>
           /\ BloomSame(deserialize(serialize(sk, i)), i)
           /\ BloomSame(wrap(serialize(sk, i)), i)
    [] kind = "count_min" -> \A i \in Two : cm_deserialize(cm_serialize(sk[i])) = sk[i]
    [] kind = "density" -> \A i \in Two :
         DensitySame(sk[i], density_deserialize(density_serialize(sk[i])))
    [] kind = "ebpps" -> \A i \in Two :
         LET image == ebpps_serialize(sk[i])
         IN Readable(image) /\ ebpps_deserialize(image) = sk[i]
    [] kind = "tdigest" -> \A i \in Two :
         /\ td_deserialize(td_serialize(sk[i], FALSE)) = compress(sk[i])
         /\ ~is_single_value(sk[i]) => td_deserialize(td_serialize(sk[i], TRUE)) = sk[i]

(* "When querying an item that has already been inserted to the filter,    *)
(* the filter will always indicate that the item is present" (comment of   *)
(* the class bloom_filter_alloc), here of filters that own their bits.     *)
NoFalseNegatives ==
  kind = "bloom" => \A i \in Two : \A x \in InsOf(i) :
    sk.f[i].on = "heap" => internal_query(sk, i, x)
=============================================================================
