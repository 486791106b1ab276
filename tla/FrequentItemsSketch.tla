------------------------ MODULE FrequentItemsSketch ------------------------
(***************************************************************************)
(* frequent_items_sketch: updates, merges and serialization of several     *)
(* sketches.  `truth' is the real weight of every item in the streams a    *)
(* sketch stands for; `dropped' marks a sketch that took part in merging   *)
(* or storing a sketch whose counters had all been purged, which the code  *)
(* treats as empty.                                                        *)
(***************************************************************************)
EXTENDS ReversePurgeHashMap

CONSTANTS LG_MIN_MAP_SIZE,
          Programs           \* the programs to run

(***************************************************************************)
(* A program has sketches built with lg_start and lg_max.  Each is first   *)
(* presented one of `streams'; then the sketches in `updated' see further  *)
(* items with these weights.  No sketch comes to stand for a weight above  *)
(* max.                                                                    *)
(***************************************************************************)
ASSUME ProgramsAssumption ==
  /\ LG_MIN_MAP_SIZE \in Nat \ {0, 1, 2}   \* a purge needs a free cell
  /\ \A p \in Programs :
       /\ p.lg_start \in Nat /\ p.lg_max \in Nat /\ p.lg_start <= p.lg_max
       /\ p.updated \subseteq p.sketches /\ p.weights \subseteq Nat /\ p.max \in Nat
       /\ \A stream \in p.streams : \A i \in DOMAIN stream : stream[i] \in Items \X Nat

VARIABLES program, todo, sk, truth, dropped, threw

vars == <<program, todo, sk, truth, dropped, threw>>

Sketches == program.sketches

MaxOf(a, b) == IF a > b THEN a ELSE b

TotalOf(t) == FoldFunction(LAMBDA a, b : a + b, 0, t)

frequent_items_sketch(lg_max, lg_start) ==
  [total |-> 0, offset |-> 0,
   map |-> reverse_purge_hash_map(MaxOf(lg_start, LG_MIN_MAP_SIZE),
                                  MaxOf(lg_max, LG_MIN_MAP_SIZE))]

is_empty(s) == s.map.num = 0

(* update(): the offset grows by what a purge subtracted                   *)
update_forgets_offset(s, item, weight) ==
  LET r == adjust_or_insert(s.map, item, weight)
  IN IF weight = 0 THEN [s |-> s, threw |-> FALSE]
     ELSE [s |-> [s EXCEPT !.total = @ + weight, !.map = r.m], threw |-> r.threw]

update(s, item, weight) ==
  LET r == adjust_or_insert(s.map, item, weight)
  IN IF weight = 0 THEN [s |-> s, threw |-> FALSE]
     ELSE [s |-> [total |-> s.total + weight, offset |-> s.offset + r.offset,
                  map |-> r.m],
           threw |-> r.threw]

Init ==
  \E p \in Programs :
    /\ program = p
    /\ todo \in [p.sketches -> p.streams]
    /\ sk = [s \in p.sketches |-> frequent_items_sketch(p.lg_max, p.lg_start)]
    /\ truth = [s \in p.sketches |-> [k \in Items |-> 0]]
    /\ dropped = [s \in p.sketches |-> FALSE]
    /\ threw = FALSE

(***************************************************************************)
(* merge(): the counters of the other sketch are presented as updates;     *)
(* the total is corrected at the end, as it includes what the other sketch *)
(* no longer counts.                                                       *)
(***************************************************************************)
UpdateAll(s, m) ==
  FoldLeft(LAMBDA st, i : LET u == update(st.s, m.key[i], m.val[i])
                          IN [s |-> u.s, threw |-> st.threw \/ u.threw],
           [s |-> s, threw |-> FALSE], Iterate(m))

merge_keeps_offset(s, other) ==
  LET u == UpdateAll(s, other.map)
  IN IF is_empty(other) THEN [s |-> s, threw |-> FALSE]
     ELSE [u EXCEPT !.s.total = s.total + other.total]

merge_adds_counters_only(s, other) ==
  LET u == UpdateAll(s, other.map)
  IN IF is_empty(other) THEN [s |-> s, threw |-> FALSE]
     ELSE [u EXCEPT !.s.offset = @ + other.offset]

merge(s, other) ==
  LET u == UpdateAll(s, other.map)
  IN IF is_empty(other) THEN [s |-> s, threw |-> FALSE]
     ELSE [u EXCEPT !.s.offset = @ + other.offset,
                    !.s.total = s.total + other.total]

-----------------------------------------------------------------------------
(***************************************************************************)
(* serialize() and deserialize(): an empty sketch is stored as its sizes   *)
(* alone; otherwise the counters are presented as updates to a map of the  *)
(* stored size, after which total and offset are restored.                 *)
(***************************************************************************)
serialize(s) ==
  [is_empty |-> is_empty(s), lg_max |-> s.map.lg_max, lg_cur |-> s.map.lg_cur,
   total |-> s.total, offset |-> s.offset,
   weights |-> [j \in 1 .. s.map.num |-> s.map.val[Iterate(s.map)[j]]],
   items   |-> [j \in 1 .. s.map.num |-> s.map.key[Iterate(s.map)[j]]]]

check_size(lg_cur, lg_max) == lg_cur <= lg_max /\ lg_cur >= LG_MIN_MAP_SIZE

deserialize(img) ==
  LET fresh == frequent_items_sketch(img.lg_max, img.lg_cur)
      u == FoldLeft(LAMBDA st, j : LET r == update(st.s, img.items[j], img.weights[j])
                                   IN [s |-> r.s, threw |-> st.threw \/ r.threw],
                    [s |-> fresh, threw |-> FALSE],
                    [j \in 1 .. Len(img.items) |-> j])
  IN IF ~check_size(img.lg_cur, img.lg_max) THEN [s |-> fresh, threw |-> TRUE]
     ELSE IF img.is_empty THEN [s |-> fresh, threw |-> FALSE]
     ELSE [u EXCEPT !.s.total = img.total, !.s.offset = img.offset]

-----------------------------------------------------------------------------
(* counters all purged, although the stream was not empty                  *)
PurgedEmpty(s) == is_empty(s) /\ s.total > 0

Update(s, item, weight) ==
  LET u == update(sk[s], item, weight)
  IN /\ TotalOf(truth[s]) + weight <= program.max
     /\ sk' = [sk EXCEPT ![s] = u.s]
     /\ truth' = [truth EXCEPT ![s][item] = @ + weight]
     /\ threw' = (threw \/ u.threw)
     /\ UNCHANGED <<dropped, program>>

(* the streams of a program are presented one after the other              *)
Pending == {s \in Sketches : todo[s] # << >>}

Present ==
  /\ Pending # {}
  /\ LET s == CHOOSE x \in Pending : TRUE
     IN /\ Update(s, Head(todo[s])[1], Head(todo[s])[2])
        /\ todo' = [todo EXCEPT ![s] = Tail(@)]

Merge(s, t) ==
  LET u == merge(sk[s], sk[t])
  IN /\ TotalOf(truth[s]) + TotalOf(truth[t]) <= program.max
     /\ sk' = [sk EXCEPT ![s] = u.s]
     /\ truth' = [truth EXCEPT ![s] = [k \in Items |-> @[k] + truth[t][k]]]
     /\ threw' = (threw \/ u.threw)
     /\ dropped' = [dropped EXCEPT ![s] = @ \/ dropped[t] \/ PurgedEmpty(sk[t])]
     /\ UNCHANGED <<program, todo>>

StoreAndLoad(s) ==
  LET u == deserialize(serialize(sk[s]))
  IN /\ sk' = [sk EXCEPT ![s] = u.s]
     /\ threw' = (threw \/ u.threw)
     /\ dropped' = [dropped EXCEPT ![s] = @ \/ PurgedEmpty(sk[s])]
     /\ UNCHANGED <<truth, program, todo>>

Next ==
  \/ Present
  \/ Pending = {} /\ \E s \in program.updated, item \in Items, weight \in program.weights :
       Update(s, item, weight) /\ UNCHANGED todo
  \/ Pending = {} /\ \E s, t \in Sketches : Merge(s, t)
  \/ Pending = {} /\ \E s \in Sketches : StoreAndLoad(s)

Spec == Init /\ [][Next]_vars

get_lower_bound(s, item) == get(s.map, item)

get_upper_bound(s, item) == get(s.map, item) + s.offset

-----------------------------------------------------------------------------
(* The map stays searchable through resizes and the deletions of a purge,  *)
(* and neither an update nor a merge nor a load ends in the logic_error    *)
(* "purge did not reduce number of active items".                          *)
MapWellFormed == ~threw /\ \A s \in Sketches : WellFormed(sk[s].map)

(***************************************************************************)
(* The sketches implement the counters of FrequentCounters: an update and  *)
(* a purge after it change just what they should, wherever clusters wrap   *)
(* and whatever the deletions move, a purge with the median of its samples *)
(* is paid in full by half as many counters, merging loses no more weight  *)
(* than the purges on the way account for, and an image keeps everything   *)
(* but the total and the offset of a sketch without counters.              *)
(***************************************************************************)
(* how many counters pay the median of the samples of a map too full       *)
Half(lg_max) ==
  LET full == (3 * 2^lg_max) \div 4 + 1
      n    == IF full < MAX_SAMPLE_SIZE THEN full ELSE MAX_SAMPLE_SIZE
  IN n - n \div 2

Counters == INSTANCE FrequentCounters WITH
  counter <- [s \in Sketches |-> [k \in Items |-> get_lower_bound(sk[s], k)]],
  offset  <- [s \in Sketches |-> sk[s].offset],
  total   <- [s \in Sketches |-> sk[s].total],
  half    <- Half(MaxOf(program.lg_max, LG_MIN_MAP_SIZE))

ImplementsCounters == Counters!Spec

(***************************************************************************)
(* The bounds of the sketch enclose the real weight of every item, and the *)
(* total weight is that of all streams although purged counters are gone,  *)
(* unless a purged-empty sketch was merged in or stored.                   *)
(***************************************************************************)
BoundsHold == Counters!BoundsHold

(***************************************************************************)
(* get_maximum_error() stays within a share of the total weight: a purge   *)
(* takes the median of its samples from at least half as many counters.    *)
(* When the samples are all the counters of a full map, this is within     *)
(* get_epsilon(), which promises 3.5 / 2^lg_max of the total.              *)
(***************************************************************************)
ErrorBounded == Counters!ErrorBounded
=============================================================================
