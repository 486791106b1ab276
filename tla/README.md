# TLA+ models of the DataSketches C++ library

The library is a set of header-only stochastic sketches. Each sketch is a
sequential object: it owns its memory, has no threads, no callbacks and no
files. What is hard about it is elsewhere: open-addressing tables that must
never fill up, compactions that move items inside one buffer, values cached
beside the state they are computed from, results that depend on the modes and
sizes of both operands, images that leave out what the reader has to recompute,
and long sequences of legal calls that reach states nobody wrote a test for.
The models are about these. There is consequently no interleaving and no crash
in them; all nondeterminism is that of the client (which operation, with which
argument), of coins and random draws, and of `std::nth_element`.

## Parts of the system

| part | directory | modules | state in the code |
|---|---|---|---|
| theta and tuple update sketches | `theta`, `tuple` | `ThetaSample`, `ThetaSampleProofs`, `ThetaHashTable`, `ThetaUpdateSketch`, proofs in `Arithmetic`, `ThetaHashTableProofs`, `ThetaTableProofs`, `ThetaUpdateSketchProofs` | open-addressing table of hashes, each with a summary, theta, emptiness |
| theta and tuple set operations, filter, Jaccard similarity | `theta`, `tuple` | `ThetaCompact`, `ThetaSetOperators`, `ThetaSetOperations` | table plus a second theta; validity flags |
| theta, tuple and array tuple images | `theta`, `tuple` | `BitPacking`, `ThetaSerialization` | preamble, words, summaries, packed deltas |
| frequent items | `fi` | `FrequentCounters`, `FrequentCountersProofs`, `ReversePurgeHashMap`, `FrequentItemsSketch` | linear-probing map, offset, total weight |
| HLL sketch, union, images | `hll` | `HllSketchImpl`, `HllSketch`, `HllUnion` | list, set or packed array; curMin, exceptions; lazily rebuilt estimator inputs |
| KLL, classic quantiles, REQ | `kll`, `quantiles`, `req`, `common` | `QuantilesSortedView`, `KllSketch`, `QuantilesSketch`, `ReqSketch`, `QuantileSketches` | levels of items, cached sorted view |
| CPC sketch, union, images | `cpc` | `CpcSketch`, `CpcCompressor`, `CpcSerialization`, `CpcSketches` | surprise table, sliding window, HIP register |
| VarOpt sketch and union | `sampling` | `VarOptSketch`, `VarOptSketches` | heap of heavy items, reservoir, gap, marks, outer tau |
| EBPPS sketch | `sampling` | `EbppsSketch`, `Fractions` | sample with a partial item, rho, c |
| Bloom filter, count-min, density, t-digest | `filters`, `count`, `density`, `tdigest` | `BloomFilter`, `CountMinSketch`, `DensitySketch`, `TDigest`, `StandaloneSketches` | bits and a cached count; counters; levels; centroids and buffer |
| estimators, hashes, item serialization | all | none | stateless |

The parts interact through sketches as values: set operations and unions take
sketches and return sketches, images are read back by any of several readers.
The composing modules (`ThetaSetOperations`, `QuantileSketches`, `CpcSketches`,
`VarOptSketches`, `StandaloneSketches`) model a client that chains them, so
that a result or a loaded sketch is used like any other.

## How a module is built

A sketch is a record whose fields are those of the class (suffix `_` dropped,
long names shortened as the header of each module says). An operation is an
operator with the name of the C++ function from a record to a record or, where
the code tosses a coin or leaves an order open, to the set of possible records.
An action of a composing module is one call of the public interface with all
it does. Exceptions the code throws are kept: `ok`, `threw`, `thrown` or a
special value records them, and a property says that no legal client meets
one. Variables that exist only in the model (`total`, `seen`, `truth`,
`offered`, `gathered`, `members`, `hist`) hold what really happened; the
properties compare the sketch with them.

Numbers are exact: `kxq0`, `kxq1` and `kxp` are counted in units of their
smallest power of two, the doubles of EBPPS and t-digests are fractions, the
weights of VarOpt are integers. Rounding is outside the models. Integers wrap
at a constant width where a legal size reaches it: `num_bits_set_` of a Bloom
filter (`COUNT_BITS`), the capacity read from its image (`LENGTH_BITS`) and the
products of the CPC pseudo phase (`PRODUCT_BITS`).

| module | abstractions worth knowing |
|---|---|
| `ThetaSample` | what an update sketch promises: entries are the hashes below theta with the summary of all that was presented. When a rebuild happens is left open |
| `ThetaHashTable` | capacities, strides, resize factors and the order of re-insertion are the code's. `rebuild` yields one table per order `nth_element` may leave. An entry is a key with a summary: tuple sketches are the theta code instantiated with pairs, and a theta sketch is the case in which every summary is `NoSummary`. Summaries are sets of marks; the policies of update, union and intersection are union, so that a value lost, counted for the wrong key or dropped in a move shows |
| `ThetaCompact` | `members` are the hashes, with summaries, a sketch stands for, known to the model only |
| `BitPacking` | first part: the layout that the unrolled functions share, with bytes of W bits, for images. Second part: each of the 126 functions `pack_bits_N` and `unpack_bits_N` as the table of its operands, at 8 and 64 bits; a word is the set of its one bits |
| `ThetaSerialization` | serial versions 3 and 4 written, 1 to 4 read from stream, memory, and by the wrapped iterator; tuple images (key and summary in turn) and array tuple images (all keys, then all arrays). The tuple reader from memory does not compare the size before it reads a key: for an image cut inside a key the outcome is `Unspecified`. Of versions 1, 2 and 4 the stream and the memory reader are one operator, since they take the same fields in the same order: that the two agree is a result for version 3, tuple and array images; version 4 is compared with the wrapped iterator, versions 1 and 2 only with the sketch that was stored |
| `FrequentCounters` | what frequent items sketches promise: one counter per item, updates, purges that at least half of the counters looked at can pay, merges. The sum of counters is the number of the units they count |
| `HllSketchImpl` | registers at byte level in 4-, 6- and 8-bit arrays. The HIP accumulator is left out |
| `KllSketch` | the buffer with its slots (item, moved-from, no object) and absolute level offsets |
| `QuantilesSketch` | vector capacities, which the code compares with sizes |
| `ReqSketch` | the place of the gap in a compactor is left out |
| `CpcCompressor` | the 22 Huffman tables, the unary table and the 16 column permutations as in the code, decoding tables, the 64-bit buffer emptied into 32-bit words, padding, buffer sizes. `ok` turns false where bits would be lost or a read go past the end |
| `CpcSerialization` | which pairs each flavour writes, pseudo phases from products modulo `2^PRODUCT_BITS`, what `compress` throws for (`CanStore`), the fields of the image in their order |
| `VarOptSketch` | slots are items, moved-from or raw memory; a draw is an integer part of the weight |
| `BloomFilter` | filters of any number of longs, on the heap and on a shared block of memory. An image holds the number of longs, of which the reader keeps the low `LENGTH_BITS`; a filter reads and writes a block up to its own capacity |
| `EbppsSketch` | every operation yields its outcomes with their probabilities; a draw of exactly 0 is left out |
| `TDigest` | the scale function's normalizer is a table |

## Runs

All constants of the code that are sizes (`MIN_LG_K`, list sizes, columns,
buffer capacities, key bits) are CONSTANTs; the instances make them small
enough that every threshold is crossed several times within the bound.

| run | instance | what it shows |
|---|---|---|
| `theta_sample` | seven hashes with two values each, nominal size 2 | the properties that `ThetaSampleProofs` proves in general |
| `theta_update` | nominal size 4, table of up to 8 slots, nine hashes with shared home slots, one of them with two values | `TableWellFormed`: counts are right, each key is found where it is, a probe always ends, also after resizes and rebuilds. `ImplementsSample`: the table implements `ThetaSample` under the refinement mapping "entries of the array, theta, emptiness", summaries included |
| `theta_set_operations` | nominal size 2, all sketches of up to four hashes under two thresholds, with summaries that differ for one of them; one foreign seed | `ResultRepresents`: the result of any expression of unions, intersections, differences and filters is the sample of what it stands for, with the summaries the policies give. `ResultWellFormed`: size and emptiness. `SimilarityExact`: sizes of the union and comparison by counts lose nothing |
| `theta_images` | up to 12 hashes, bytes of 3 bits; sketches of up to three hashes with summaries; all block functions at full width | `RoundTrip`, and `ReadersAgree`: all readers see the same entries and refuse cut images, `BlocksExact`: each block function puts every bit where it belongs and reads it back |
| `theta_stream_blocks` | the block functions of the above | the counterexample described below |
| `frequent_items` | maps of 8 and 16 cells, eight items, total weight up to 45 | `MapWellFormed`; `ImplementsCounters`: the sketches on their maps implement `FrequentCounters` (a purge takes the cut from each counter once, although deletions move cells while it walks); `BoundsHold` (true weights lie within the bounds over merges and images), `ErrorBounded` |
| `hll` | sketches of 4, 8 and 16 registers, all types, values up to 18; a union of 8 registers, sources of 4, 8 and 16 in all modes | `ContentExact` (registers are the maxima of what was presented), `RegistersExact` (the estimator inputs, curMin and the exceptions follow the registers), `NeverThrows`, `RoundTrip`, `UnionExact`, `ResultExact` |
| `quantile_sketches` | KLL k = 2, 4; classic k = 1, 2; REQ k = 2 in both modes; three items, 5 updates, total weight up to 12 by merges | `StructureExact` (weights add up, levels sorted, sizes as announced, no check fires), `RankErrorBounded`, `QueriesExact` (cached views are not stale), `RoundTrip` |
| `cpc_sketches` | 2 and 4 rows, 8 columns, window of 2; the compressor at 64 columns and lg_k up to 26 | `ContentExact`, `StructureExact`, `UnionExact`, `RoundTrip`, and `CodecExact`: every byte in every table, lists of up to 30 pairs and every column permutation survive compression, no bit is lost in the buffer, no read goes past the last word, and the decoding tables pass their validation |
| `var_opt` | k from 1 to 4, weights 1, 2, 7, six sources, three merges | `StructureExact`, `WeightConserved`, `ChoiceUnbiased` (the odds of every drop), `OuterTauExact`, `RoundTrip` |
| `standalone_sketches` | two objects of one kind, 4 to 6 calls | `StructureExact`, `AnswersExact`, `RoundTrip` |
| `bloom_false_negative` | the Bloom filters of the above | the counterexample described below |

The thresholds of CPC in the instance are 3/4, 1 and 20/8 coupons per row in
place of 3/32, 1/2 and 27/8, so that all five flavours occur on four rows.
`MIN_LG_ARR_ITEMS` of VarOpt is 1 in place of 3, so that arrays grow.
A long of a Bloom filter has 2 bits in place of 64, `COUNT_BITS` is 4 in place of
64 and `LENGTH_BITS` 2 in place of 26, so that of filters of 3, 8 and 10 bits the
second is read from its image with capacity 0 and the third with capacity 2.
`PRODUCT_BITS` of CPC is 14 in place of 32: four rows and 17 coupons stand for
2^20 rows and 4294968 coupons, where `1000 * c` wraps and `2375 * k` does not.
The block functions and
the compressor run at the sizes of the code, in behaviours of their own: a block
function only moves bits, so that all deltas a power of two, and one delta of
ones among others, packed after a block of ones, show every misplaced, lost and
leftover bit.

`var_opt`, `standalone_sketches` and `bloom_false_negative` count calls, and a
behaviour ends when its budget is used up: they do not check for deadlock. In
the others some operation is always possible, and deadlock is checked.

No property is a liveness property and no fairness is assumed: every operation
of the library runs to completion in the caller's thread, and nothing obliges a
client to call the next one. That loops inside an operation end is part of the
safety properties (`find` returns, a purge frees a cell, a compaction makes
room).

### Exceptions to the properties

Some properties hold only outside a case that the code gets wrong or does not
claim. The case is a named variable or a set of marks, so that the property
stays sharp everywhere else: `dropped` (frequent items), `lost` (HLL union),
`revived` and `PhaseWraps` (CPC), "loaded", "short", "result" and "coerced" (VarOpt), `late`
and a capacity of 2^32 bits or more (Bloom), "loaded" (density), "lighter" and
"narrowed" (EBPPS). Where the excepted case is itself a hazard of the code, the
property says nothing of it beyond what the section below tells.

## What the models found

* **Bloom filter, false negative** (run `bloom_false_negative`).
  `query_and_update` adds to `num_bits_set_` although `is_dirty_` says it is out
  of date, and clears the mark (`filters/include/bloom_filter_impl.hpp:731`).
  After `update(x); query_and_update(x)` the filter says it is empty and does not
  find `x`, contrary to `filters/include/bloom_filter.hpp:43`. Also: a filter
  wrapped from memory may see a stale count (line 634), and `union_with`,
  `intersect` and `invert` do not look at `is_read_only_`.
* **Bloom filter, images of large filters.** The builder accepts filters of up to
  about 2^34 bits, and the readers compute `num_longs << 6` in a `uint32_t`
  (`bloom_filter_impl.hpp:298`, `314`, `374`, `400`). A filter of 2^32 bits or more
  is read with its capacity modulo 2^32 (theorem `ImageShrinks`): its items hash
  to other positions. With a capacity of 0 an update divides by 0, and an empty
  image throws. The compiled header gives capacity 0 for a filter of 2^32 bits,
  64 for one of 2^32 + 64, which then finds nothing it held, and the right one
  for 2^32 - 64.
* **Theta, compressed stream images** (run `theta_stream_blocks`). `pack_bits_19`
  ors `values[4] >> 7` into a byte that nothing of the block has assigned
  (`theta/include/bit_packing.hpp:564`), where all its siblings assign. The stream
  form of `serialize_version_4` reuses one buffer for all blocks
  (`theta_sketch_impl.hpp:487`): with 19-bit deltas, the second block carries
  bits of the first, and the image reads back as other hashes. Packing two
  blocks into one buffer with the compiled header shows the same at 19 bits and
  at no other width. Deltas that narrow need some 2^45 distinct items.
* **Tuple images.** The reader of tuple images from memory checks once that the
  keys alone would fit and then leaves the checks to the reader of summaries; of
  an image cut inside a key the outcome is not defined by the code, which is what
  `Unspecified` stands for. The readers from a stream and of array tuple sketches
  refuse every cut image.
* **Frequent items.** A sketch whose counters were all purged counts as empty:
  `merge` and `serialize` drop its total weight and offset
  (`fi/include/frequent_items_sketch_impl.hpp:69`), after which an upper bound is
  below the real frequency, which `frequent_items_sketch.hpp:145` excludes.
* **HLL.** `reset` of a sketch built with `start_full_size` stays an array
  (`HllSketchImplFactory.hpp:125`). Readers of updatable images of an empty list
  and of a 4-bit array without exceptions leave bytes in the stream
  (`CouponList-internal.hpp:157`, `HllArray-internal.hpp:313`). A union gadget
  downsampled from a larger sketch reports empty until its estimator inputs are
  rebuilt (`HllArray-internal.hpp:467`), and the next update replaces it
  (`HllUnion-internal.hpp:213`).
* **REQ.** The k asked for is narrowed to eight bits first, so 256 becomes 4.
  `RankErrorBounded` asks for exact ranks below `k * INIT_NUM_SECTIONS` from the
  accurate end, with the least k among the sketches merged (`least_k`, known to
  the model only). `is_exact_rank` (`req_sketch_impl.hpp:319`) takes the k of the
  sketch itself and includes the rank at that distance, for which an estimate can
  be off.
* **CPC.** A sketch loaded from the image of an empty one has `kxp` 0, and its
  first update adds infinity to the HIP estimate (`cpc_sketch_impl.hpp:535`).
  The products of `determine_pseudo_phase` are 32-bit
  (`cpc_compressor_impl.hpp:449`): at 4294968 coupons `1000 * c` wraps, the phase
  is a mid-range one, and `serialize` of a sliding sketch throws "unexpected
  pseudo phase for sliding flavor" (line 310). Up to 2^16 rows there are not so
  many coupons; from 2^17 rows on the code throws for some ranges of the number
  of coupons and not for those between (lg_k 20: from 4294968 to 6680477, then
  from 8589935 on). Sketches of lg_k 19, 20 and 21 made with the compiled header
  throw at 4309125, 4341681 and 8681588 coupons, that of lg_k 19 after 124
  million items. `RoundTrip` says that a sketch can be stored unless a product
  wraps, and then comes back as it was.
* **VarOpt.** A full sketch that was loaded has `m_` 1 and throws at its next
  update (`var_opt_sketch_impl.hpp:553`, `638`); `reset` after loading a sketch
  that is not full keeps short arrays (652); `decrease_k_by_1` swaps a slot
  without an object (929); condition 4 of the pseudo-exact case compares with a
  tau that is not a number (`var_opt_union_impl.hpp:490`).
* **Density.** A sketch that lost all its points in a compaction is stored as
  empty; a header makes `serialize` throw (`density_sketch_impl.hpp:229`).
* **EBPPS.** `internal_merge` never stores the larger `wt_max_`
  (`ebpps_sketch_impl.hpp:221`); merging into an empty sketch of smaller k gives
  a sample larger than k.
* **t-digest.** Between two heavy centroids the weights of the average are
  exchanged, and `get_quantile` falls as the rank rises (`tdigest_impl.hpp:190`).

## Proofs

Seven modules hold theorems. All are checked by TLAPS to the last leaf.

### The theta and tuple sample (`ThetaSampleProofs`)

About `ThetaSample`, for every set of hashes and values, every policy of
summaries, every starting theta and every nominal size:

| theorem | statement |
|---|---|
| `TypeCorrect` | `Spec => []TypeOK` |
| `SampleCorrect` | the retained hashes are exactly the presented, non-zero ones below theta, each with the summary of all the values presented with it; `is_empty_` holds exactly while nothing was presented |
| `NominalCorrect` | once theta has moved, at least the nominal number of hashes is retained |
| `ThetaMonotone` | theta does not rise except by `reset` |

Assumptions: hashes and the starting theta are natural numbers, the nominal
size is a positive one; nothing is assumed of values and policy. `IInv` is the
conjunction of the three state invariants. None is inductive alone: `SampleInv`
compares hashes with theta and needs the types of both; `NominalInv` counts, and
a count means something only while the retained set is finite, which is in
`TypeOK`; and the rebuild is shown to keep the sample by way of `SampleInv`. The
argument: a hash that is screened out leaves what is retained as it was, one that
is not is retained exactly if it was presented before, so that its summary
starts and grows together with the total (`BelowAdd`, `NotedRetained`); a rebuild
cuts both at the same pivot (`CutKeepsSample`, `RebuildKeepsSample`).
`ThetaMonotone` comes from the same lemmas. The hash table is connected to this
module by `ImplementsSample`, which is proved next.

### The theta hash table (`ThetaUpdateSketchProofs` and the modules below it)

About `ThetaUpdateSketch`, for every set of hashes below `MAX_THETA`, every
nominal size, resize factor and starting theta the builder accepts:

| theorem | statement |
|---|---|
| `TableCorrect` | `Spec => []TableWellFormed`: through all inserts, resizes, rebuilds, trims and resets `num_entries_` counts the keys, `find` reaches each key in its own slot, no key is stored twice, a slot is free and `find` never throws |
| `ImplementsSampleCorrect` | `Spec => ImplementsSample`: every step on the table is a step of `ThetaSample`, or a stutter |
| `PromisesKept` | what `ThetaSampleProofs` proves of the abstract sample holds of the table, carried over by the refinement |

Assumed are the domains that `ThetaHashTable` and `ThetaUpdateSketch` state:
`MAX_THETA` and `MIN_LG_K` are positive, hashes are below `MAX_THETA`, and
`MIN_LG_K` is at most one more than the lg of the nominal size, as the builder
checks. `TableWellFormed` is not inductive. It says that a slot is free, but not
that one is after the next insert, and not that a table about to be rebuilt holds
more than the nominal number of keys, without which there would be no pivot.
`IInv` adds what does: the count is within `get_capacity`, the size is at most
twice the nominal one, and it is exactly that with resize factor X1, under which
a full table is never resized (`Sound`). It also keeps the builder's settings.

The argument, by module:

* `Arithmetic`: powers of two, remainders, ranks in finite sets of numbers. The
  prover has no induction scheme to offer, so facts about all naturals are shown
  by their least counterexample (`LeastNat`), and that a recursive function
  satisfies its equation by extending one that does by one argument.
* `ThetaHashTableProofs`: the array. The stride is odd, hence the probe sequence
  meets every slot (`OddFactor`), hence a search in an array with a free slot ends
  (`SearchEnds`). A search passes only over used slots before its end, and filling
  a slot frees none: a key put where its search ended is found there, and those
  stored before are still found where they are (`FillKeepsSearchable`), also when
  all entries are placed one by one in a fresh array (`RehashSearchable`). Also
  here: what capacities leave free (`CapacityFits`, `CapacityGrows`) and that a
  pivot of the wanted rank exists (`PivotExists`).
* `ThetaTableProofs`: each operation takes a sound table to a sound one and is
  described by the set of entries it leaves: all of them (`ResizeSound`), those
  below the pivot (`RebuildSound`), the new one as well (`InsertSound`).
* `ThetaUpdateSketchProofs`: one lemma per action and the theorems.

### The counters of frequent items (`FrequentCountersProofs`)

About `FrequentCounters`, for every finite set of items, any sketches, any
weights and any number of counters a purge looks at:

| theorem | statement |
|---|---|
| `BoundsCorrect` | lower and upper bounds enclose the weight of every item, and the total is the weight of the streams, over updates with purges, merges (of a sketch with itself too) and images, except in sketches marked `dropped` |
| `ErrorCorrect` | `half` times the maximum error is at most the total weight |
| `ReducedComposes` | cuts followed by additions and further cuts are reductions by the sum of the cuts |

The only assumption is that the items are finitely many. `ErrorBounded` is not
inductive: it does not say that a purge can be paid for. `Paid` does: what is
still in the counters, plus `half` times the offset, is at most the total. A
purge by `cut` takes `cut` from each of at least `half` counters
(`LowerReduces`), so that it moves weight from the first term to the second. A
merge adds two such inequalities (`TakeIn`). `BoundsHold` needs `Paid` in no case
but needs the types, and for a source without counters that a stream of weight
zero has no items (`WeightZero`). Sums are cardinalities of sets of units
(`WeightAdd`, `WeightOnly`), so that no induction over the items is needed.
`merge` in the code presents the counters one by one, each with a purge of its
own; `ReducedComposes` is why the abstract `Merge` may do it in one step. That
the sketch on its hash map does implement these steps is `ImplementsCounters`,
model-checked; `BoundsHold` and `ErrorBounded` of `FrequentItemsSketch` are those
of `FrequentCounters` under the same mapping.

### Bloom filters (`BloomFilter`)

For every number of hashes and hash function, and any number of filters, each of
its own capacity, on the heap and on a block of memory. `Finds(w, i, S)` says that
the bits of the items of S, at their positions for the capacity of filter i, are
set and that its count follows its bits or is marked dirty.

| theorem | statement |
|---|---|
| `QueryFinds` | `Finds` is enough: `query` is true of every item of S |
| `OperationsFind` | `update`, `union_with`, `intersect`, `invert`, `reset`, `get_bits_used` lead from `Finds` to `Finds` (an update of a capacity above 0, the two set operations of compatible filters) |
| `OthersFind` | what one filter does takes nothing from another that does not share its memory |
| `GetAndSetCounts` | one hash of `query_and_update` keeps an exact count exact, if the filter is not dirty |
| `ImageFinds` | `deserialize` and `wrap` of the image of a filter of less than 2^32 bits have its capacity and find what it found |
| `ImageShrinks` | of a filter of 2^32 bits or more they have a smaller capacity |

Assumed: at least one hash, and a largest size that the count can hold, from
which `CreatedFits` gets that the constructors make filters of the type the
theorems speak of. What the theorems leave open is `query_and_update` of a dirty
filter, which is the false negative of `bloom_false_negative`, filters that share
a block, and images of 2^32 bits and more. That `query_and_update` as a whole keeps the count is one step per hash,
composed by a fold; the composition is left to the run.

### Only model-checked

What is proved of the theta table took, for one array with a probe sequence,
every induction by hand. The tables of unions, intersections and differences are
the same operators in other hands, but their results (`ResultRepresents`,
`ResultWellFormed`, `SimilarityExact`) come out of folds with `SequencesExt` over
sorted sequences, for which the library has no fact that the provers can use. The
same holds of `MapWellFormed` and `ImplementsCounters` (deletions that move cells
while a purge walks over them, the median of a sorted sequence), of heaps,
compactions and images; the HLL, CPC and bit packing models use bitwise operators
or RECURSIVE definitions as well, which a module with theorems cannot reach.
There is no liveness to prove.

## What is not modelled

* Estimators, confidence bounds, CDF/PMF: stateless floating-point functions of
  the modelled state. For the Jaccard similarity the estimate and
  `exactly_equal` are modelled, its bounds and threshold tests are not.
* Hash functions: the models take hashes from sets chosen to collide.
* Bytes of items (`serde.hpp`), header sizes, allocators.
* Array tuple sketches with more than one value per array, and the arithmetic of
  their default policies.
* Serial versions 1 and 2 of the classic quantiles image; the sizes the
  builder of Bloom filters suggests for an accuracy; the HIP accumulator of HLL.

## Plan

1. Split `StandaloneSketches` where that allows longer sequences of calls.
2. Abstract specifications for the other families (a map of maxima for HLL, a
   set of coupons for CPC) with their implementations as refinements.
3. Proofs: the theta union over abstract samples; no underestimate of a
   count-min sketch while weights are positive; set-level lemmas about HLL
   registers under downsampling.
