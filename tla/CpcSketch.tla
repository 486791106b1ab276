----------------------------- MODULE CpcSketch -----------------------------
(***************************************************************************)
(* cpc_sketch: a k by 64 bit matrix of coupons, kept as a table of         *)
(* surprising bits (SPARSE) and later as a sliding window of 8 columns     *)
(* with a table of what differs from "all ones before the window, all      *)
(* zeros after it".  A sketch is a record: num is num_coupons, fic         *)
(* first_interesting_column, merged was_merged; window is << >> until the  *)
(* sketch is promoted and then maps each row to the set of its bits; kxp   *)
(* is counted in units of 2^-NumColumns; finite says that every increment  *)
(* of hip_est_accum was a finite positive number.  ok turns false where    *)
(* the code throws.                                                        *)
(*                                                                         *)
(* The thresholds are constants, as <<numerator, denominator>> of C/K: the *)
(* code has 64 columns, a window of 8 and 3/32, 1/2 and 27/8.              *)
(***************************************************************************)
EXTENDS Integers, Sequences, FiniteSets, SequencesExt, FiniteSetsExt

(***************************************************************************)
(* u32_table: the linear-probing set of row_col values in which a CPC      *)
(* sketch keeps its surprising values.  A table is a record: lg is         *)
(* lg_size, bits num_valid_bits, num num_items, and slots the array, in    *)
(* which Empty marks a free slot.  The home slot of an item is its leading *)
(* lg bits.  ok turns false where the code throws.                         *)
(***************************************************************************)

CONSTANTS COL_BITS,          \* the bits of a column number, 6 in the code
          MAX_LG_K           \* cpc_constants::MAX_LG_K

ASSUME TableConstants == COL_BITS \in Nat \ {0} /\ MAX_LG_K \in Nat \ {0}

UPSIZE == <<3, 4>>
DOWNSIZE == <<1, 4>>

Empty == 2^(COL_BITS + MAX_LG_K) - 1         \* UINT32_MAX

u32_table(lg, bits) ==
  [ok |-> lg >= 2, lg |-> lg, bits |-> bits, num |-> 0,
   slots |-> [i \in 0 .. 2^lg - 1 |-> Empty]]

clear(t) == [t EXCEPT !.num = 0, !.slots = [i \in DOMAIN @ |-> Empty]]

ItemsOf(t) == {t.slots[i] : i \in DOMAIN t.slots} \ {Empty}

(* the items in the order of the array                                     *)
InSlotOrder(t) ==
  SelectSeq([i \in 1 .. 2^t.lg |-> t.slots[i - 1]], LAMBDA x : x # Empty)

(***************************************************************************)
(* lookup(): the first slot from the home slot on that holds the item or   *)
(* is free.  A table always has a free slot, or the loop would not end.    *)
(***************************************************************************)
Probe(t, item, i) == ((item \div 2^(t.bits - t.lg)) + i) % 2^t.lg

lookup(t, item) ==
  Probe(t, item, CHOOSE i \in 0 .. 2^t.lg - 1 :
                   /\ t.slots[Probe(t, item, i)] \in {item, Empty}
                   /\ \A j \in 0 .. i - 1 : t.slots[Probe(t, item, j)] \notin {item, Empty})

PutAt(t, at, item) ==
  [t EXCEPT !.ok = @ /\ t.slots[at] = Empty, !.slots[at] = item]

must_insert(t, item) == PutAt(t, lookup(t, item), item)

rebuild(t, lg) ==
  [FoldLeft(must_insert, u32_table(lg, t.bits), InSlotOrder(t))
     EXCEPT !.num = t.num, !.ok = @ /\ t.ok /\ 2^lg > t.num]

GrownIfNeeded(t) ==
  IF UPSIZE[2] * t.num > UPSIZE[1] * 2^t.lg THEN rebuild(t, t.lg + 1) ELSE t

(* maybe_insert() of an item that Holds() denies; it returns false and  *)
(* changes nothing when the item is there                                  *)
Holds(t, item) == t.slots[lookup(t, item)] = item

maybe_insert(t, item) ==
  IF Holds(t, item) THEN t
  ELSE GrownIfNeeded([must_insert(t, item) EXCEPT !.num = @ + 1])

(***************************************************************************)
(* maybe_delete(): frees the slot and re-inserts the items from there to   *)
(* the next free slot, so that none is cut off from its home slot.         *)
(***************************************************************************)
Reinserted(t, at) ==
  FoldLeft(LAMBDA st, i :
             LET probe == (at + i) % 2^t.lg
                 item  == st.t.slots[probe]
             IN IF st.done \/ item = Empty THEN [st EXCEPT !.done = TRUE]
                ELSE [st EXCEPT !.t = must_insert([st.t EXCEPT !.slots[probe] = Empty], item)],
           [t |-> t, done |-> FALSE], [i \in 1 .. 2^t.lg - 1 |-> i]).t

ShrunkIfNeeded(t) ==
  IF DOWNSIZE[2] * t.num < DOWNSIZE[1] * 2^t.lg /\ t.lg > 2 THEN rebuild(t, t.lg - 1) ELSE t

maybe_delete_leaves_gap(t, item) ==
  IF ~Holds(t, item) THEN t
  ELSE ShrunkIfNeeded([t EXCEPT !.slots[lookup(t, item)] = Empty, !.num = @ - 1])

maybe_delete(t, item) ==
  IF ~Holds(t, item) THEN t
  ELSE ShrunkIfNeeded(Reinserted([t EXCEPT !.slots[lookup(t, item)] = Empty,
                                           !.num = @ - 1], lookup(t, item)))

(* make_from_pairs(): a table of the final size filled from distinct items *)
TableFor(num, bits) ==
  u32_table(CHOOSE lg \in 2 .. num + 2 :
              /\ UPSIZE[2] * num <= UPSIZE[1] * 2^lg
              /\ lg > 2 => UPSIZE[2] * num > UPSIZE[1] * 2^(lg - 1), bits)

make_from_pairs(pairs, bits) ==
  [FoldLeft(must_insert, TableFor(Len(pairs), bits), pairs) EXCEPT !.num = Len(pairs)]

(* the count is right, every item is found where it is, and a probe for an *)
(* absent item ends                                                        *)
TableWellFormed(t) ==
  /\ t.ok
  /\ t.num = Cardinality({i \in DOMAIN t.slots : t.slots[i] # Empty})
  /\ \A i \in DOMAIN t.slots : t.slots[i] # Empty => lookup(t, t.slots[i]) = i
  /\ \E i \in DOMAIN t.slots : t.slots[i] = Empty

-----------------------------------------------------------------------------
CONSTANTS MIN_LG_K,          \* cpc_constants::MIN_LG_K
          WINDOW,            \* the width of the window
          SPARSE_END,        \* C/K below which the sketch is SPARSE
          HYBRID_END,        \* C/K below which it is HYBRID
          SLIDING_START      \* C/K from which it is SLIDING

ASSUME SketchConstants ==
  /\ MIN_LG_K \in 1 .. MAX_LG_K
  /\ WINDOW \in 1 .. 2^COL_BITS - 1
  /\ SLIDING_START[1] > SLIDING_START[2]

NumColumns == 2^COL_BITS
MaxOffset == NumColumns - WINDOW             \* 56
Rows(lg_k) == 0 .. 2^lg_k - 1
RowCol(row, col) == row * NumColumns + col
RowOf(rc) == rc \div NumColumns
ColOf(rc) == rc % NumColumns
Below(c, lg_k, limit) == limit[2] * c < limit[1] * 2^lg_k

(* the members of a set of row_col values in ascending order               *)
Ascending(S) == SelectSeq([i \in 1 .. Empty |-> i - 1], LAMBDA rc : rc \in S)

determine_flavor(lg_k, c) ==
  CASE c = 0                        -> "EMPTY"
    [] Below(c, lg_k, SPARSE_END)    -> "SPARSE"
    [] Below(c, lg_k, HYBRID_END)    -> "HYBRID"
    [] Below(c, lg_k, SLIDING_START) -> "PINNED"
    [] OTHER                        -> "SLIDING"

(* (C - (27/8 - 1) K) / K, rounded down, and 0 when negative               *)
determine_correct_offset(lg_k, c) ==
  LET tmp == SLIDING_START[2] * c - (SLIDING_START[1] - SLIDING_START[2]) * 2^lg_k
  IN IF tmp < 0 THEN 0 ELSE tmp \div (SLIDING_START[2] * 2^lg_k)

(* whether C has reached SLIDING_START plus the offset                     *)
PastWindow(c, lg_k, offset) ==
  ~Below(c, lg_k, <<SLIDING_START[1] + SLIDING_START[2] * offset, SLIDING_START[2]>>)

cpc_sketch(lg_k) ==
  [ok |-> TRUE, lg_k |-> lg_k, merged |-> FALSE, num |-> 0,
   table |-> u32_table(2, COL_BITS + lg_k), window |-> << >>, offset |-> 0,
   fic |-> 0, kxp |-> 2^(lg_k + NumColumns), finite |-> TRUE]

Windowed(s) == DOMAIN s.window # {}

(* row_col_from_two_hashes(): the row is the low bits of one hash, the     *)
(* column the clipped number of leading zeros of the other; the pair that  *)
(* looks like the free-slot marker goes to another row                     *)
row_col_from_two_hashes(hash0, zeros, lg_k) ==
  LET col == IF zeros > NumColumns - 1 THEN NumColumns - 1 ELSE zeros
      row == hash0 % 2^lg_k
  IN IF RowCol(row, col) = Empty THEN RowCol(row - 1, col) ELSE RowCol(row, col)

build_bit_matrix(s) ==
  [row \in Rows(s.lg_k) |->
     SymDiff(0 .. s.offset - 1
               \cup (IF Windowed(s) THEN {s.offset + bit : bit \in s.window[row]} ELSE {}),
             {ColOf(rc) : rc \in {x \in ItemsOf(s.table) : RowOf(x) = row}})]

(* update_hip(), and the count that every caller increments before it      *)
update_hip_off_by_one(s, rc) ==
  [s EXCEPT !.num = @ + 1, !.finite = @ /\ s.kxp > 0,
            !.kxp = @ - 2^(NumColumns - ColOf(rc))]

update_hip(s, rc) ==
  [s EXCEPT !.num = @ + 1, !.finite = @ /\ s.kxp > 0,
            !.kxp = @ - 2^(NumColumns - ColOf(rc) - 1)]

promote_sparse_to_windowed(s) ==
  [s EXCEPT
     !.ok = @ /\ \/ SPARSE_END[2] * s.num = SPARSE_END[1] * 2^s.lg_k
                 \/ s.lg_k = MIN_LG_K,
     !.window = [row \in Rows(s.lg_k) |->
                   {col \in 0 .. WINDOW - 1 : RowCol(row, col) \in ItemsOf(s.table)}],
     !.table = FoldLeft(maybe_insert, u32_table(2, COL_BITS + s.lg_k),
                        SelectSeq(InSlotOrder(s.table), LAMBDA rc : ColOf(rc) >= WINDOW))]

update_sparse(s, rc, table) ==
  LET u == [update_hip(s, rc) EXCEPT !.table = table,
                                     !.ok = @ /\ Below(s.num, s.lg_k, SPARSE_END)]
  IN IF table = s.table THEN s
     ELSE IF Below(u.num, u.lg_k, SPARSE_END) THEN u
     ELSE promote_sparse_to_windowed(u)

(***************************************************************************)
(* The bits of a matrix that a window at the offset does not show and that *)
(* are not what is expected outside it.  The loops of move_window() and    *)
(* get_result_from_bit_matrix() put these into a table.                    *)
(***************************************************************************)
Surprises(matrix, offset) ==
  {rc \in {RowCol(row, col) : row \in DOMAIN matrix, col \in 0 .. NumColumns - 1} :
     IF ColOf(rc) < offset THEN ColOf(rc) \notin matrix[RowOf(rc)]
     ELSE ColOf(rc) >= offset + WINDOW /\ ColOf(rc) \in matrix[RowOf(rc)]}

WindowOf(matrix, offset) ==
  [row \in DOMAIN matrix |-> {bit \in 0 .. WINDOW - 1 : offset + bit \in matrix[row]}]

InterestingColumn_uncapped(offset, surprises) ==
  Min({NumColumns} \cup {ColOf(rc) : rc \in surprises})

InterestingColumn(offset, surprises) ==
  Min({offset} \cup {ColOf(rc) : rc \in surprises})

WithWindowAt(s, matrix, offset, table, surprises) ==
  [s EXCEPT !.window = WindowOf(matrix, offset), !.offset = offset,
            !.table = FoldLeft(maybe_insert, table, Ascending(surprises)),
            !.fic = InterestingColumn(offset, surprises)]

refresh_kxp(matrix) ==
  MapThenSumSet(LAMBDA rc : 2^(NumColumns - ColOf(rc) - 1),
                {rc \in {RowCol(row, col) : row \in DOMAIN matrix, col \in 0 .. NumColumns - 1} :
                   ColOf(rc) \notin matrix[RowOf(rc)]})

move_window(s, offset, matrix) ==
  WithWindowAt([s EXCEPT !.ok = @ /\ offset <= MaxOffset
                                  /\ offset = determine_correct_offset(s.lg_k, s.num)
                                  /\ ~PastWindow(s.num, s.lg_k, offset),
                         !.kxp = IF offset % WINDOW = 0 THEN refresh_kxp(matrix) ELSE @],
               matrix, offset, clear(s.table), Surprises(matrix, offset))

(* the novelty test of update_windowed(), by the zone of the column        *)
MarkedInWindow(s, rc) ==
  [s EXCEPT !.window[RowOf(rc)] = @ \cup {ColOf(rc) - s.offset}]

Marked(s, rc) ==
  IF ColOf(rc) < s.offset THEN [s EXCEPT !.table = maybe_delete(@, rc)]
  ELSE IF ColOf(rc) < s.offset + WINDOW THEN MarkedInWindow(s, rc)
  ELSE [s EXCEPT !.table = maybe_insert(@, rc)]

update_windowed(s, rc, marked) ==
  LET u == [update_hip(marked, rc) EXCEPT
              !.ok = @ /\ ~Below(s.num, s.lg_k, SPARSE_END)
                       /\ ~PastWindow(s.num, s.lg_k, s.offset)]
  IN IF marked = s THEN s
     ELSE IF PastWindow(u.num, u.lg_k, u.offset)
     THEN move_window(u, u.offset + 1, build_bit_matrix(u))
     ELSE u

row_col_update(s, rc) ==
  IF ColOf(rc) < s.fic THEN s
  ELSE IF Windowed(s) THEN update_windowed(s, rc, Marked(s, rc))
  ELSE update_sparse(s, rc, maybe_insert(s.table, rc))

-----------------------------------------------------------------------------
MatrixPairs(matrix) ==
  {rc \in {RowCol(row, col) : row \in DOMAIN matrix, col \in 0 .. NumColumns - 1} :
     ColOf(rc) \in matrix[RowOf(rc)]}

(* the parts of a sketch agree: its flavour with its coupon count, the     *)
(* window's place with it, the table's items with the window, and the      *)
(* columns that updates may skip with the columns that are full            *)
SketchWellFormed(s) ==
  /\ s.ok
  /\ TableWellFormed(s.table)
  /\ s.offset = determine_correct_offset(s.lg_k, s.num)
  /\ Windowed(s) <=> determine_flavor(s.lg_k, s.num) \notin {"EMPTY", "SPARSE"}
  /\ Windowed(s) => \A rc \in ItemsOf(s.table) :
                      ColOf(rc) \notin s.offset .. s.offset + WINDOW - 1
  /\ \A row \in Rows(s.lg_k) : 0 .. s.fic - 1 \subseteq build_bit_matrix(s)[row]

-----------------------------------------------------------------------------
(***************************************************************************)
(* cpc_union: an accumulator sketch as long as the union is EMPTY or       *)
(* SPARSE, a bit matrix afterwards.  A union is a record: sparse says that *)
(* the accumulator exists; matrix is << >> as long as it does.  k can only *)
(* go down: a source with a smaller k downsamples what the union holds.    *)
(***************************************************************************)
cpc_union(lg_k) ==
  [ok |-> TRUE, lg_k |-> lg_k, sparse |-> TRUE, acc |-> cpc_sketch(lg_k), matrix |-> << >>]

Graduated(s) == determine_flavor(s.lg_k, s.num) \notin {"EMPTY", "SPARSE"}

switch_to_bit_matrix(u) ==
  [u EXCEPT !.sparse = FALSE, !.matrix = build_bit_matrix(u.acc),
            !.ok = @ /\ u.acc.ok, !.acc = cpc_sketch(u.acc.lg_k)]

SwitchedIfGraduated(u) == IF Graduated(u.acc) THEN switch_to_bit_matrix(u) ELSE u

(* the rows of a source, folded onto the rows of the union                 *)
Downsampled(rc, lg_k) == RowCol(RowOf(rc) % 2^lg_k, ColOf(rc))

(***************************************************************************)
(* walk_table_updating_sketch(): the slots in golden-ratio strides.        *)
(***************************************************************************)
StrideFor(num_slots) ==
  LET stride == (618 * num_slots) \div 1000
  IN IF stride % 2 = 0 THEN stride + 1 ELSE stride

walk_table_updating_sketch(acc, table, stride) ==
  FoldLeft(LAMBDA a, i :
             LET rc == table.slots[(i * stride) % 2^table.lg]
             IN IF rc = Empty THEN a ELSE row_col_update(a, Downsampled(rc, acc.lg_k)),
           [acc EXCEPT !.ok = @ /\ stride >= 3 /\ stride < 2^table.lg],
           [i \in 1 .. 2^table.lg |-> i - 1])

(* The matrix of an accumulator that was empty when k went down has more   *)
(* rows than k; the extra ones stay empty and are not part of the result.  *)
OrInto(matrix, pairs, lg_k) ==
  [row \in Rows(lg_k) \cup DOMAIN matrix |->
     (IF row \in DOMAIN matrix THEN matrix[row] ELSE {})
       \cup {ColOf(rc) : rc \in {x \in pairs : RowOf(x) % 2^lg_k = row}}]

or_table_into_matrix(u, table) ==
  [u EXCEPT !.matrix = OrInto(@, ItemsOf(table), u.lg_k)]

or_window_into_matrix(u, window, offset) ==
  [u EXCEPT !.matrix =
     OrInto(@, UNION {{RowCol(row, offset + bit) : bit \in window[row]} : row \in DOMAIN window},
            u.lg_k)]

or_matrix_into_matrix(u, matrix) ==
  [u EXCEPT !.matrix = OrInto(@, MatrixPairs(matrix), u.lg_k)]

reduce_k_keeps_rows(u, lg_k) ==
  IF ~u.sparse
  THEN [u EXCEPT !.lg_k = lg_k, !.matrix = [row \in Rows(lg_k) |-> @[row]]]
  ELSE IF u.acc.num = 0 THEN [u EXCEPT !.lg_k = lg_k]
  ELSE SwitchedIfGraduated(
         [u EXCEPT !.lg_k = lg_k,
                   !.acc = walk_table_updating_sketch(cpc_sketch(lg_k), u.acc.table,
                                                      StrideFor(2^u.acc.table.lg))])

(* reduce_k(): an empty accumulator keeps its own, larger k                *)
reduce_k(u, lg_k) ==
  IF ~u.sparse
  THEN or_matrix_into_matrix([u EXCEPT !.lg_k = lg_k, !.matrix = << >>], u.matrix)
  ELSE IF u.acc.num = 0 THEN [u EXCEPT !.lg_k = lg_k]
  ELSE SwitchedIfGraduated(
         [u EXCEPT !.lg_k = lg_k,
                   !.acc = walk_table_updating_sketch(cpc_sketch(lg_k), u.acc.table,
                                                      StrideFor(2^u.acc.table.lg))])

ReducedFor(u, s) == IF s.lg_k < u.lg_k THEN reduce_k(u, s.lg_k) ELSE u

(* a source past SPARSE needs a matrix                                     *)
MatrixOf(u) == IF u.sparse THEN switch_to_bit_matrix(u) ELSE u

AddedToAccumulator(u, s) ==
  IF u.acc.num = 0 /\ u.lg_k = s.lg_k THEN [u EXCEPT !.acc = s]
  ELSE SwitchedIfGraduated(
         [u EXCEPT !.acc = walk_table_updating_sketch(@, s.table, StrideFor(2^s.table.lg))])

Added(u, s, flavor) ==
  CASE flavor = "EMPTY"                -> u
    [] flavor = "SPARSE" /\ u.sparse   -> AddedToAccumulator(u, s)
    [] flavor = "SPARSE" /\ ~u.sparse  -> or_table_into_matrix(u, s.table)
    [] flavor \in {"HYBRID", "PINNED"} ->
         or_table_into_matrix(or_window_into_matrix(MatrixOf(u), s.window, s.offset), s.table)
    [] flavor = "SLIDING"              -> or_matrix_into_matrix(MatrixOf(u), build_bit_matrix(s))

internal_update(u, s) ==
  IF s.num = 0 THEN u ELSE Added(ReducedFor(u, s), s, determine_flavor(s.lg_k, s.num))

(***************************************************************************)
(* get_result()                                                            *)
(***************************************************************************)
get_result_from_accumulator(u) ==
  IF u.acc.num = 0 THEN [cpc_sketch(u.lg_k) EXCEPT !.ok = u.lg_k = u.acc.lg_k]
  ELSE [u.acc EXCEPT !.merged = TRUE,
                     !.ok = @ /\ ~Graduated(u.acc) /\ u.lg_k = u.acc.lg_k]

ResultWith(lg_k, c, matrix, offset) ==
  WithWindowAt([cpc_sketch(lg_k) EXCEPT !.num = c, !.merged = TRUE, !.kxp = 0,
                  !.ok = determine_flavor(lg_k, c) \in {"HYBRID", "PINNED", "SLIDING"}],
               matrix, offset,
               u32_table(IF lg_k - 4 < 2 THEN 2 ELSE lg_k - 4, COL_BITS + lg_k),
               Surprises(matrix, offset))

get_result_from_bit_matrix(lg_k, matrix, c) ==
  ResultWith(lg_k, c, matrix, determine_correct_offset(lg_k, c))

CountedResult(lg_k, matrix) ==
  get_result_from_bit_matrix(lg_k, matrix, Cardinality(MatrixPairs(matrix)))

get_result(u) ==
  IF u.sparse THEN get_result_from_accumulator(u)
  ELSE CountedResult(u.lg_k, [row \in Rows(u.lg_k) |-> u.matrix[row]])
=============================================================================
