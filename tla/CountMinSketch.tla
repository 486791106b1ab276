--------------------------- MODULE CountMinSketch ---------------------------
(***************************************************************************)
(* count_min_sketch: num_hashes rows of num_buckets counters in one array, *)
(* to which every update adds its weight once per row.  A sketch c has     *)
(* array (_sketch_array) and total (_total_weight), a sum of absolute      *)
(* values.  W is a signed type; sums stay within it.                       *)
(***************************************************************************)
EXTENDS Integers, Sequences, FiniteSets, SequencesExt, FiniteSetsExt

CONSTANTS NUM_ROWS,      \* _num_hashes
          NUM_BUCKETS,   \* _num_buckets, at least 3
          RELATIVE_ERROR,  \* get_relative_error(), in hundredths
          RowHash        \* the hash of an item for each row

Slots == 0 .. NUM_ROWS * NUM_BUCKETS - 1

count_min_sketch == [total |-> 0, array |-> [h \in Slots |-> 0]]

(* hash_seed_index * _num_buckets + hash % _num_buckets                    *)
get_hashes_same_row(x) == {RowHash[x][row] % NUM_BUCKETS : row \in 1 .. NUM_ROWS}

get_hashes(x) ==
  {(row - 1) * NUM_BUCKETS + (RowHash[x][row] % NUM_BUCKETS) : row \in 1 .. NUM_ROWS}

AbsOf(weight) == IF weight >= 0 THEN weight ELSE -weight

cm_update(c, x, weight) ==
  [total |-> c.total + AbsOf(weight),
   array |-> [h \in Slots |-> c.array[h] + (IF h \in get_hashes(x) THEN weight ELSE 0)]]

get_estimate(c, x) == Min({c.array[h] : h \in get_hashes(x)})

(* the conversion to W cuts off the fraction                               *)
get_upper_bound(c, x) == (100 * get_estimate(c, x) + RELATIVE_ERROR * c.total) \div 100

cm_merge(c, other) ==
  [total |-> c.total + other.total,
   array |-> [h \in Slots |-> c.array[h] + other.array[h]]]

cm_is_empty(c) == c.total = 0

(* the image: a header, then the total and the array unless empty          *)
cm_serialize(c) == IF cm_is_empty(c) THEN << >> ELSE <<c.total, c.array>>

cm_deserialize(image) ==
  IF image = << >> THEN count_min_sketch
  ELSE [total |-> count_min_sketch.total + image[1], array |-> image[2]]
=============================================================================
