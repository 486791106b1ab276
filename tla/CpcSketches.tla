---------------------------- MODULE CpcSketches ----------------------------
(***************************************************************************)
(* A CPC sketch that is updated, stored and loaded, and a CPC union that   *)
(* is fed sketches of other sizes and flavours and whose result is then    *)
(* used as a sketch.  offered and gathered are the row_col values that     *)
(* were offered to the sketch and to the union; revived says that the      *)
(* sketch was loaded from the image of an empty one.                       *)
(*                                                                         *)
(* These behaviours are for a small matrix.  In the others, the sketch and *)
(* the union stay idle and coder is one compression at the code's own      *)
(* sizes: of a list of pairs, of a window or of the columns of a sliding   *)
(* sketch.  input is what is compressed, words what was written, read what *)
(* was read back.                                                          *)
(***************************************************************************)
EXTENDS CpcSerialization

CONSTANTS LgKs,              \* lg_k of new sketches
          UnionLgK,          \* lg_k of the union
          Hashes,            \* the two hashes of an item, as <<hash0, zeros>>
          LaterHashes,       \* the items offered to a result of the union
          EarlierStreams,          \* the streams a sketch may have seen before
          Sources,           \* the sketches offered to the union: <<lg_k, stream>>
          MaxMerges,         \* the number of merges
          PairLists,         \* lists of pairs to compress: <<lg_k, pairs>>
          Windows            \* windows to compress, as sequences of bytes

VARIABLES sketch, offered, revived, union, gathered, merges, coder

vars == <<sketch, offered, revived, union, gathered, merges, coder>>

RowCols(lg_k, stream) ==
  [i \in DOMAIN stream |-> row_col_from_two_hashes(stream[i][1], stream[i][2], lg_k)]

SketchOf(lg_k, stream) == FoldLeft(row_col_update, cpc_sketch(lg_k), RowCols(lg_k, stream))

SourceSketch == [src \in Sources |-> SketchOf(src[1], src[2])]

NoCoder == [kind |-> "none", stage |-> "idle", input |-> << >>]

Coder(kind, param, input) ==
  [kind |-> kind, param |-> param, stage |-> "input", input |-> input,
   words |-> << >>, read |-> << >>, ok |-> TRUE]

(* the columns outside a window of 8 columns at this offset                *)
Outside(offset) == [i \in 1 .. 56 |-> IF i <= offset THEN i - 1 ELSE i + 7]

CoderInit ==
  \/ \E list \in PairLists : coder = Coder("pairs", list[1], list[2])
  \/ \E bytes \in Windows, phase \in 0 .. 21 : coder = Coder("window", phase, bytes)
  \/ \E offset \in 0 .. 56, phase \in 0 .. 15 :
       coder = Coder("columns", <<phase, offset>>, Outside(offset))

Idle == coder.kind = "none"

SketchInit ==
  /\ \E lg_k \in LgKs, prefix \in EarlierStreams :
       /\ sketch = SketchOf(lg_k, prefix)
       /\ offered = Range(RowCols(lg_k, prefix))
  /\ coder = NoCoder

Init ==
  /\ union = cpc_union(UnionLgK)
  /\ gathered = {}
  /\ merges = 0
  /\ revived = FALSE
  /\ \/ SketchInit
     \/ CoderInit /\ sketch = cpc_sketch(UnionLgK) /\ offered = {}

UpdateWith(rc) ==
  /\ sketch' = row_col_update(sketch, rc)
  /\ offered' = offered \cup {rc}
  /\ UNCHANGED <<revived, union, gathered, merges, coder>>

Update ==
  \E h \in IF merges = 0 THEN Hashes ELSE LaterHashes :
    /\ merges > 0 => offered # {}
    /\ UpdateWith(row_col_from_two_hashes(h[1], h[2], sketch.lg_k))

StoreAndLoad ==
  /\ CanStore(sketch)
  /\ sketch' = deserialize(serialize(sketch))
  /\ revived' = (revived \/ sketch.num = 0)
  /\ UNCHANGED <<offered, union, gathered, merges, coder>>

(* the union is fed while the sketch is still new                          *)
Merge ==
  /\ offered = {} /\ ~revived /\ sketch.lg_k = UnionLgK
  /\ merges < MaxMerges
  /\ \E src \in Sources :
       /\ union' = internal_update(union, SourceSketch[src])
       /\ gathered' = gathered \cup Range(RowCols(src[1], src[2]))
  /\ merges' = merges + 1
  /\ UNCHANGED <<sketch, offered, revived, coder>>

GetResult ==
  /\ merges > 0 /\ offered = {}
  /\ sketch' = get_result(union)
  /\ offered' = gathered
  /\ UNCHANGED <<revived, union, gathered, merges, coder>>

Written(c) ==
  CASE c.kind = "pairs"   -> compress_surprising_values(c.input, c.param)
    [] c.kind = "window"  -> compress_sliding_window(c.input, c.param)
    [] c.kind = "columns" ->
         [words |-> [i \in DOMAIN c.input |->
                       SlidCol(c.input[i], c.param[2],
                               column_permutations_for_encoding[c.param[1] + 1], 64)],
          ok |-> TRUE]

ReadBack(c) ==
  CASE c.kind = "pairs"   -> uncompress_surprising_values(c.words, Len(c.input), c.param)
    [] c.kind = "window"  -> uncompress_sliding_window(c.words, Len(c.input), c.param)
    [] c.kind = "columns" ->
         [read |-> [i \in DOMAIN c.words |->
                      UnslidCol(c.words[i], c.param[2],
                                column_permutations_for_decoding[c.param[1] + 1], 64)],
          ok |-> TRUE]

Compress ==
  /\ coder.stage = "input"
  /\ \E w \in {Written(coder)} :
       coder' = [coder EXCEPT !.words = w.words, !.ok = w.ok, !.stage = "written"]
  /\ UNCHANGED <<sketch, offered, revived, union, gathered, merges>>

Uncompress ==
  /\ coder.stage = "written"
  /\ \E r \in {ReadBack(coder)} :
       coder' = [coder EXCEPT !.read = r.read, !.ok = coder.ok /\ r.ok, !.stage = "read"]
  /\ UNCHANGED <<sketch, offered, revived, union, gathered, merges>>

(* the process is done with a compression                                  *)
Drop ==
  /\ coder.stage = "read"
  /\ coder' = NoCoder
  /\ UNCHANGED <<sketch, offered, revived, union, gathered, merges>>

Next ==
  \/ Idle /\ (Update \/ StoreAndLoad \/ Merge \/ GetResult)
  \/ Compress \/ Uncompress \/ Drop

Spec == Init /\ [][Next]_vars

-----------------------------------------------------------------------------
Coupons(S, lg_k) == {Downsampled(rc, lg_k) : rc \in S}

(* In every flavour, whatever was skipped as uninteresting, promoted,      *)
(* moved out of the window or loaded from an image, the bit matrix of the  *)
(* sketch is exactly the set of coupons that it was offered, and           *)
(* num_coupons is their number (what validate() computes).  The HIP        *)
(* register kxp of a sketch that was never merged is the probability,      *)
(* times k, that the next coupon is new: the weight of the absent bits     *)
(* (with the weight beyond the last column until the register is           *)
(* refreshed), and so every increment of the estimate is finite.  A sketch *)
(* that was loaded while empty is excepted: its kxp starts from 0.         *)
ContentExact ==
  /\ MatrixPairs(build_bit_matrix(sketch)) = Coupons(offered, sketch.lg_k)
  /\ sketch.num = Cardinality(Coupons(offered, sketch.lg_k))
  /\ ~sketch.merged /\ ~revived =>
       /\ sketch.finite
       /\ sketch.kxp = refresh_kxp(build_bit_matrix(sketch))
                       + (IF sketch.offset < WINDOW THEN 2^sketch.lg_k ELSE 0)

(* No operation throws, and flavour, window offset, surprise table and     *)
(* first interesting column of the sketch fit its coupons: the table can   *)
(* be searched, holds nothing from inside the window, and an update skips  *)
(* a column only when every row has it.                                    *)
StructureExact == SketchWellFormed(sketch)

(* The union holds, at the smallest k it has met, the coupons of all the   *)
(* sketches it was fed, folded onto its rows, in an accumulator that is    *)
(* still SPARSE or in a bit matrix, and get_result() returns a well-formed *)
(* sketch with exactly these coupons.                                      *)
UnionExact ==
  /\ union.ok
  /\ union.sparse => union.acc.ok /\ ~Graduated(union.acc)
  /\ \A result \in {get_result(union)} :
        /\ SketchWellFormed(result)
        /\ result.num = Cardinality(Coupons(gathered, result.lg_k))
        /\ MatrixPairs(build_bit_matrix(result)) = Coupons(gathered, result.lg_k)

(* The compressor accepts every sketch, with one exception, and storing    *)
(* and loading it gives back every field, the order of the surprise table  *)
(* aside.  The HIP register of an empty or a merged sketch is not stored.  *)
(* The exception is a SLIDING sketch with surprises and so many coupons    *)
(* that the product of determine_pseudo_phase() wraps: the phase may then  *)
(* be one of the mid range, for which compress_sliding_flavor() throws.    *)
PhaseWraps(s) ==
  /\ determine_flavor(s.lg_k, s.num) = "SLIDING" /\ s.table.num > 0
  /\ STEADY_START[2] * s.num >= 2^PRODUCT_BITS

RoundTrip ==
  /\ CanStore(sketch) \/ PhaseWraps(sketch)
  /\ CanStore(sketch) => \A data \in {Compressed(sketch)} :
    /\ data.ok
    /\ \A loaded \in {deserialize(Stored(sketch, data))} :
         /\ ItemsOf(loaded.table) = ItemsOf(sketch.table)
         /\ loaded.table.ok /\ loaded.table.num = sketch.table.num
         /\ ~sketch.merged /\ sketch.num > 0 =>
              loaded.kxp = sketch.kxp /\ loaded.finite = sketch.finite
         /\ [loaded EXCEPT !.table = 0, !.kxp = 0, !.finite = TRUE]
              = [sketch EXCEPT !.table = 0, !.kxp = 0, !.finite = TRUE]

(* What the compressor wrote it reads back, for every byte in every table  *)
(* of codes, for row and column distances of every size and for all column *)
(* permutations at every window offset.  The buffers that were allocated   *)
(* for the words hold them, the 64-bit buffer never loses a bit, the       *)
(* 12-bit peek and the 8-bit peek of the reader never reach behind the     *)
(* last word, and every decoding table passes its validation.              *)
CodecExact ==
  coder.kind # "none" =>
    /\ coder.ok
    /\ coder.stage = "read" => coder.read = coder.input
    /\ coder.kind = "window" => coder.param \in Validated
    /\ coder.kind = "pairs" => 65 \in Validated
=============================================================================
