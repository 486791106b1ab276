-------------------------- MODULE CpcSerialization --------------------------
(***************************************************************************)
(* The images of a CPC sketch: which pairs each flavour writes and what    *)
(* the reader makes of them, and the writer and reader of the image.  An   *)
(* image is the fixed part of the preamble and body, the sequence of the   *)
(* fields behind it in the order written, the words of the compressor      *)
(* included.                                                               *)
(***************************************************************************)
EXTENDS CpcSketch, CpcCompressor

CONSTANT PRODUCT_BITS    \* the width of the products of the pseudo phase, 32 in the code

ASSUME CompressorConstants == PRODUCT_BITS \in Nat

(***************************************************************************)
(* The limits of the pseudo phases on C/K, with the code's factors:        *)
(* 2375/1000 is 27/8 - 1.  The comparisons are of uint32_t products, which *)
(* wrap.                                                                   *)
(***************************************************************************)
STEADY_START ==
  <<(1000 * (SLIDING_START[1] - SLIDING_START[2])) \div SLIDING_START[2], 1000>>
MID_RANGE == << <<3, 4>>, <<11, 10>>, <<132, 100>>, <<5, 3>>, <<1965, 1000>>, <<2275, 1000>> >>

Product(a, b) == (a * b) % 2^PRODUCT_BITS
ProductBelow(c, lg_k, limit) == Product(limit[2], c) < Product(limit[1], 2^lg_k)

MidRangePhase(zones) == IF zones = {} THEN 6 ELSE 15 + Min(zones)

determine_pseudo_phase(lg_k, c) ==
  IF ProductBelow(c, lg_k, STEADY_START)
  THEN MidRangePhase({i \in DOMAIN MID_RANGE : ProductBelow(c, lg_k, MID_RANGE[i])})
  ELSE ((16 * c) \div 2^lg_k) % 16

(* A permutation of the columns outside the window for each phase: the     *)
(* code's own are for 56 columns.                                          *)
ColPermutations ==
  [phase \in 0 .. 15 |-> [i \in 1 .. MaxOffset |-> (i - 1 + phase) % MaxOffset]]
InverseColPermutations == [phase \in 0 .. 15 |-> make_inverse_permutation(ColPermutations[phase])]

(* row_col values as <<row, column>> and back                              *)
Split(row_cols) == [i \in DOMAIN row_cols |-> <<RowOf(row_cols[i]), ColOf(row_cols[i])>>]
Joined(pairs) == [i \in DOMAIN pairs |-> RowCol(pairs[i][1], pairs[i][2])]

(* a row of the window, a set of bits, as a byte                           *)
ByteOf(bits) == ValueOf([i \in 1 .. WINDOW |-> IF i - 1 \in bits THEN 1 ELSE 0])
BitsIn(byte) == {b \in 0 .. WINDOW - 1 : (byte \div 2^b) % 2 = 1}

(* tricky_get_pairs_from_window()                                          *)
PairsFromWindow(s) == {RowCol(row, col) : <<row, col>> \in
                        {rc \in Rows(s.lg_k) \X (0 .. WINDOW - 1) : rc[2] \in s.window[rc[1]]}}

(***************************************************************************)
(* The four flavours.  PairsToWrite is the list of pairs in writing order, *)
(* PairsRead undoes it.  The columns of a PINNED sketch are shifted left   *)
(* by the window, those of a SLIDING one rotated so that the window comes  *)
(* last and then permuted.                                                 *)
(***************************************************************************)
PairsToWrite(s, flavor, phase) ==
  CASE flavor = "EMPTY"   -> << >>
    [] flavor = "SPARSE"  -> Ascending(ItemsOf(s.table))
    [] flavor = "HYBRID"  -> Ascending(ItemsOf(s.table) \cup PairsFromWindow(s))
    [] flavor = "PINNED"  -> Ascending({rc - WINDOW : rc \in ItemsOf(s.table)})
    [] flavor = "SLIDING" -> Ascending({RowCol(RowOf(rc), SlidCol(ColOf(rc), s.offset, ColPermutations[phase], NumColumns)) :
                                          rc \in ItemsOf(s.table)})

(* what compress() checks before it writes                                 *)
CompressorAccepts(s, flavor, phase) ==
  CASE flavor = "HYBRID"  -> /\ s.offset = 0
                             /\ s.num = s.table.num + Cardinality(PairsFromWindow(s))
    [] flavor = "PINNED"  -> \A rc \in ItemsOf(s.table) : ColOf(rc) >= WINDOW
    [] flavor = "SLIDING" -> \A rc \in ItemsOf(s.table) :
                               /\ phase < 16
                               /\ Rotated(ColOf(rc), s.offset, ColPermutations[0], NumColumns) < MaxOffset
    [] OTHER              -> TRUE

(* the words of the table and of the window                                *)
Nothing == [words |-> << >>, ok |-> TRUE]
CompressedTable(pairs, lg_k) ==
  IF pairs = << >> THEN Nothing ELSE compress_surprising_values(pairs, lg_k)
CompressedWindow(s, flavor, phase) ==
  IF flavor \notin {"PINNED", "SLIDING"} THEN Nothing
  ELSE compress_sliding_window([i \in 1 .. 2^s.lg_k |-> ByteOf(s.window[i - 1])], phase)

DataOf(table, window, entries) ==
  [table |-> table.words, entries |-> entries, window |-> window.words,
   ok |-> table.ok /\ window.ok]

compress(s, flavor, phase) ==
  LET pairs == Split(PairsToWrite(s, flavor, phase))
  IN DataOf(CompressedTable(pairs, s.lg_k), CompressedWindow(s, flavor, phase), Len(pairs))

(* serialize() throws for the sketches that compress() does not accept     *)
CanStore(s) ==
  CompressorAccepts(s, determine_flavor(s.lg_k, s.num), determine_pseudo_phase(s.lg_k, s.num))

Compressed(s) ==
  compress(s, determine_flavor(s.lg_k, s.num), determine_pseudo_phase(s.lg_k, s.num))

get_preamble_ints(c, has_hip, has_table, has_window) ==
  LET one(b) == IF b THEN 1 ELSE 0
  IN 2 + (IF c = 0 THEN 0
          ELSE 1 + 4 * one(has_hip) + one(has_table) + one(has_table /\ has_window) + one(has_window))

(***************************************************************************)
(* serialize(): HIP values sit before the data lengths when there is both  *)
(* a table and a window, and after them otherwise.                         *)
(***************************************************************************)
When(b, fields) == IF b THEN fields ELSE << >>

Body(s, data, hip, both) ==
  <<s.num>> \o When(both, <<data.entries>> \o hip)
  \o When(data.table # << >>, <<Len(data.table)>>)
  \o When(data.window # << >>, <<Len(data.window)>>)
  \o When(~both, hip) \o data.window \o data.table

ImageOf(s, data, has_table, has_window) ==
  [preamble_ints |-> get_preamble_ints(s.num, ~s.merged, has_table, has_window),
   lg_k |-> s.lg_k, fic |-> s.fic, has_hip |-> ~s.merged,
   has_table |-> has_table, has_window |-> has_window,
   body |-> When(s.num > 0, Body(s, data, When(~s.merged, <<s.kxp, s.finite>>),
                                 has_table /\ has_window))]

Stored(s, data) == ImageOf(s, data, data.table # << >>, data.window # << >>)

serialize(s) == Stored(s, Compressed(s))

(***************************************************************************)
(* deserialize(): the optional fields are found from the flags.  The HIP   *)
(* values of an image without table and window are not read: kxp and       *)
(* hip_est_accum start from 0.                                             *)
(***************************************************************************)
One(b) == IF b THEN 1 ELSE 0

FieldsAt(image, both, lengths, hip) ==
  LET data == lengths + One(image.has_table) + One(image.has_window) + (IF both THEN 0 ELSE hip)
      tw   == IF image.has_table THEN image.body[lengths] ELSE 0
      ww   == IF image.has_window THEN image.body[lengths + One(image.has_table)] ELSE 0
  IN [num |-> image.body[1],
      entries |-> IF both THEN image.body[2] ELSE IF image.has_window THEN 0 ELSE image.body[1],
      kxp |-> IF hip = 0 THEN 0 ELSE image.body[IF both THEN 3 ELSE data - hip],
      finite |-> IF hip = 0 THEN TRUE ELSE image.body[IF both THEN 4 ELSE data - hip + 1],
      window |-> SubSeq(image.body, data, data + ww - 1),
      table |-> SubSeq(image.body, data + ww, data + ww + tw - 1),
      whole |-> Len(image.body) = data + ww + tw - 1]

FieldsOf(image) ==
  IF image.has_table \/ image.has_window
  THEN LET both == image.has_table /\ image.has_window
           hip  == IF image.has_hip THEN 2 ELSE 0
       IN FieldsAt(image, both, IF both THEN 3 + hip ELSE 2, hip)
  ELSE [num |-> 0, entries |-> 0, kxp |-> 0, finite |-> TRUE, window |-> << >>,
        table |-> << >>, whole |-> image.body = << >>]

PairsRead(pairs, flavor, offset, phase) ==
  CASE flavor = "PINNED"  -> [i \in DOMAIN pairs |-> pairs[i] + WINDOW]
    [] flavor = "SLIDING" -> [i \in DOMAIN pairs |->
                                RowCol(RowOf(pairs[i]), UnslidCol(ColOf(pairs[i]), offset,
                                                                   InverseColPermutations[phase], NumColumns))]
    [] OTHER              -> pairs

(* the pairs of a HYBRID image that belong to the window                   *)
WindowFromPairs(pairs, lg_k) ==
  [row \in Rows(lg_k) |->
     {col \in 0 .. WINDOW - 1 : \E i \in DOMAIN pairs : pairs[i] = RowCol(row, col)}]

WindowRead(bytes, pairs, flavor, lg_k) ==
  CASE flavor \in {"EMPTY", "SPARSE"} -> << >>
    [] flavor = "HYBRID"              -> WindowFromPairs(pairs, lg_k)
    [] OTHER                          -> [row \in Rows(lg_k) |-> BitsIn(bytes[row + 1])]

TruePairs(pairs, flavor) ==
  IF flavor = "HYBRID" THEN SelectSeq(pairs, LAMBDA rc : ColOf(rc) >= WINDOW) ELSE pairs

Loaded(image, fields, pairs, window, flavor, offset) ==
  [ok |-> /\ fields.whole /\ window.ok
          /\ image.preamble_ints = get_preamble_ints(fields.num, image.has_hip,
                                                     image.has_table, image.has_window)
          /\ image.has_table <=> pairs # << >>
          /\ image.has_window <=> flavor \in {"PINNED", "SLIDING"},
   lg_k |-> image.lg_k, merged |-> ~image.has_hip, num |-> fields.num,
   table |-> make_from_pairs(TruePairs(pairs, flavor), COL_BITS + image.lg_k),
   window |-> WindowRead(window.read, pairs, flavor, image.lg_k), offset |-> offset,
   fic |-> image.fic, kxp |-> fields.kxp, finite |-> fields.finite]

LoadedWith(image, fields, table, window, flavor, offset, phase) ==
  Loaded(image, fields, PairsRead(Joined(table.read), flavor, offset, phase),
         [window EXCEPT !.ok = window.ok /\ table.ok], flavor, offset)

(* uncompress(): nothing is read where nothing was written                 *)
uncompress(image, fields, flavor, offset, phase) ==
  LET nothing == [read |-> << >>, ok |-> TRUE]
  IN LoadedWith(image, fields,
       IF fields.entries = 0 THEN nothing
       ELSE uncompress_surprising_values(fields.table, fields.entries, image.lg_k),
       IF flavor \notin {"PINNED", "SLIDING"} THEN nothing
       ELSE uncompress_sliding_window(fields.window, 2^image.lg_k, phase),
       flavor, offset, phase)

LoadedFrom(image, fields) ==
  uncompress(image, fields, determine_flavor(image.lg_k, fields.num),
             determine_correct_offset(image.lg_k, fields.num),
             determine_pseudo_phase(image.lg_k, fields.num))

deserialize(image) == LoadedFrom(image, FieldsOf(image))
=============================================================================
