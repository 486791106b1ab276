------------------------ MODULE ReversePurgeHashMap ------------------------
(***************************************************************************)
(* reverse_purge_hash_map: a linear-probing map from items to counters.    *)
(* state[i] is 0 for a free cell and otherwise one more than the distance  *)
(* of the cell from the home of its key, which is what lets a deletion     *)
(* close the gap behind it.  When the map at its largest size is too full, *)
(* purge() subtracts a median from all counters and deletes those that     *)
(* are used up.  Operators on a record with the code's fields.             *)
(***************************************************************************)
EXTENDS Naturals, Sequences, FiniteSets, SequencesExt

CONSTANTS Items,             \* the keys
          Hash,              \* fmix64(H()(key)), a function from Items to Nat
          NoKey,             \* what is in a free cell
          MAX_SAMPLE_SIZE    \* how many counters purge() looks at

ASSUME HashOfItems == Hash \in [Items -> Nat]
ASSUME FreeCell == NoKey \notin Items
ASSUME SampleSize == MAX_SAMPLE_SIZE \in Nat \ {0}

Size(m) == 2^m.lg_cur

reverse_purge_hash_map(lg_cur, lg_max) ==
  [lg_cur |-> lg_cur, lg_max |-> lg_max, num |-> 0,
   key   |-> [i \in 0 .. 2^lg_cur - 1 |-> NoKey],
   val   |-> [i \in 0 .. 2^lg_cur - 1 |-> 0],
   state |-> [i \in 0 .. 2^lg_cur - 1 |-> 0]]

get_capacity(m) == (3 * Size(m)) \div 4

is_active(m, i) == m.state[i] > 0

(* the first cell from the home of the key that is free or holds the key;  *)
(* the map always has a free cell                                          *)
Distance(m, key) ==
  LET at(d) == (Hash[key] + d) % Size(m)
      probe[d \in 0 .. Size(m) - 1] ==
        IF ~is_active(m, at(d)) \/ m.key[at(d)] = key THEN d ELSE probe[d + 1]
  IN probe[0]

get(m, key) ==
  LET i == (Hash[key] + Distance(m, key)) % Size(m)
  IN IF is_active(m, i) THEN m.val[i] ELSE 0

internal_adjust_or_insert(m, key, value) ==
  LET d == Distance(m, key)
      i == (Hash[key] + d) % Size(m)
  IN IF is_active(m, i) THEN [m EXCEPT !.val[i] = @ + value]
     ELSE [m EXCEPT !.key[i] = key, !.val[i] = value, !.state[i] = d + 1,
                    !.num = @ + 1]

-----------------------------------------------------------------------------
(***************************************************************************)
(* hash_delete: frees a cell and walks to the end of the cluster; a key    *)
(* that is further from home than from the hole moves into it and leaves   *)
(* the next hole.  The key and counter of a free cell are never read; they *)
(* are NoKey and 0 here.                                                   *)
(***************************************************************************)
Free(m, i) == [m EXCEPT !.state[i] = 0, !.key[i] = NoKey, !.val[i] = 0]

hash_delete_leaves_hole(m, d) == Free(m, d)

hash_delete(m, d) ==
  LET step(st, j) ==
        LET p == (d + j) % Size(m)
            moved == [Free(st.m, p) EXCEPT !.key[st.hole] = st.m.key[p],
                                           !.val[st.hole] = st.m.val[p],
                                           !.state[st.hole] = st.m.state[p] - st.drift]
        IN IF st.done \/ ~is_active(st.m, p) THEN [st EXCEPT !.done = TRUE]
           ELSE IF st.m.state[p] > st.drift
             THEN [m |-> moved, hole |-> p, drift |-> 1, done |-> FALSE]
           ELSE [st EXCEPT !.drift = @ + 1]
  IN FoldLeft(step,
       [m |-> Free(m, d), hole |-> d, drift |-> 1, done |-> FALSE],
       [j \in 1 .. Size(m) - 1 |-> j]).m

(***************************************************************************)
(* subtract_and_keep_positive_only: cells are visited downwards from the   *)
(* last free one, so that what a deletion moves has been visited, and the  *)
(* cluster that wraps around the end comes last.                           *)
(***************************************************************************)
Subtract_keeps_zero(m, i, amount) ==
  IF ~is_active(m, i) THEN m
  ELSE IF m.val[i] < amount THEN [hash_delete(m, i) EXCEPT !.num = @ - 1]
  ELSE [m EXCEPT !.val[i] = @ - amount]

Subtract(m, i, amount) ==
  IF ~is_active(m, i) THEN m
  ELSE IF m.val[i] <= amount THEN [hash_delete(m, i) EXCEPT !.num = @ - 1]
  ELSE [m EXCEPT !.val[i] = @ - amount]

subtract_front_to_back(m, amount) ==
  FoldLeft(LAMBDA n, i : Subtract(n, i, amount), m, [j \in 1 .. Size(m) |-> j - 1])

subtract_and_keep_positive_only(m, amount) ==
  LET free  == {i \in 0 .. Size(m) - 1 : ~is_active(m, i)}
      first == CHOOSE i \in free : \A j \in free : j <= i
      order == [j \in 1 .. first |-> first - j]
               \o [j \in 1 .. Size(m) - first |-> Size(m) - j]
  IN FoldLeft(LAMBDA n, i : Subtract(n, i, amount), m, order)

(* the element of index n \div 2 of n samples in order                     *)
Median_is_largest(samples) ==
  SortSeq(samples, LAMBDA a, b : a < b)[Len(samples)]

Median(samples) ==
  SortSeq(samples, LAMBDA a, b : a < b)[Len(samples) \div 2 + 1]

(* the counters of the first active cells, at most MAX_SAMPLE_SIZE of them *)
Samples(m) ==
  LET all == SelectSeq([i \in 1 .. Size(m) |-> IF is_active(m, i - 1) THEN m.val[i - 1] ELSE 0],
                       LAMBDA v : v > 0)
  IN SubSeq(all, 1, IF Len(all) < MAX_SAMPLE_SIZE THEN Len(all) ELSE MAX_SAMPLE_SIZE)

resize_copies_cells(m, lg_new) ==
  LET fresh == reverse_purge_hash_map(lg_new, m.lg_max)
      copied(old, new) == [i \in DOMAIN new |-> IF i \in DOMAIN old THEN old[i] ELSE new[i]]
  IN [fresh EXCEPT !.num = m.num, !.key = copied(m.key, @),
                   !.val = copied(m.val, @), !.state = copied(m.state, @)]

resize(m, lg_new) ==
  FoldLeft(LAMBDA n, i : IF is_active(m, i)
                           THEN internal_adjust_or_insert(n, m.key[i], m.val[i])
                           ELSE n,
           reverse_purge_hash_map(lg_new, m.lg_max), [j \in 1 .. Size(m) |-> j - 1])

(***************************************************************************)
(* adjust_or_insert: the map and the offset it returns, the median that a  *)
(* purge subtracted.  threw stands for the logic_error of a purge after    *)
(* which the map is still too full.                                        *)
(***************************************************************************)
resize_or_purge_if_needed(m) ==
  LET median == Median(Samples(m))
      purged == subtract_and_keep_positive_only(m, median)
  IN IF m.num <= get_capacity(m) THEN [m |-> m, offset |-> 0, threw |-> FALSE]
     ELSE IF m.lg_cur < m.lg_max
       THEN [m |-> resize(m, m.lg_cur + 1), offset |-> 0, threw |-> FALSE]
     ELSE [m |-> purged, offset |-> median, threw |-> purged.num > get_capacity(m)]

adjust_or_insert(m, key, value) ==
  LET n == internal_adjust_or_insert(m, key, value)
  IN IF n.num > m.num THEN resize_or_purge_if_needed(n)
     ELSE [m |-> n, offset |-> 0, threw |-> FALSE]

(* the iterator strides through the cells by about 0.618 of the size, made *)
(* odd, from the first active one                                          *)
Stride(m) == LET s == (618 * Size(m)) \div 1000 IN IF s % 2 = 0 THEN s + 1 ELSE s

Iterate(m) ==
  LET active == {i \in 0 .. Size(m) - 1 : is_active(m, i)}
      start  == CHOOSE i \in active : \A j \in active : i <= j
      at     == [k \in 1 .. Size(m) |-> (start + (k - 1) * Stride(m)) % Size(m)]
  IN IF active = {} THEN << >> ELSE SelectSeq(at, LAMBDA i : i \in active)

-----------------------------------------------------------------------------
(* Well-formedness of a map: the count is right, every active key is where *)
(* its probe sequence finds it, with the recorded distance, and a cell is  *)
(* free.                                                                   *)
WellFormed(m) ==
  /\ m.num = Cardinality({i \in DOMAIN m.state : is_active(m, i)})
  /\ \A i \in DOMAIN m.state : is_active(m, i) =>
       /\ m.key[i] \in Items /\ m.val[i] > 0
       /\ m.state[i] = Distance(m, m.key[i]) + 1
       /\ (Hash[m.key[i]] + m.state[i] - 1) % Size(m) = i
  /\ \E i \in DOMAIN m.state : ~is_active(m, i)
=============================================================================
