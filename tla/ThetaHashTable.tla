--------------------------- MODULE ThetaHashTable ---------------------------
(***************************************************************************)
(* theta_update_sketch_base: the open-addressing hash table behind update  *)
(* sketches, unions, intersections and differences, as operators on a      *)
(* table record.  ent is entries_, an array of entries, a key with its     *)
(* summary, in which key 0 marks a free slot; num, theta, is_empty,        *)
(* lg_cur, lg_nom and rf are the fields of the same names with the         *)
(* suffixes dropped.  The entries of a tuple sketch are pairs in the code, *)
(* those of a theta sketch bare keys, here with NoSummary.  The capacity   *)
(* thresholds, probe sequence and the order of re-insertion are the        *)
(* code's.  An operation that calls std::nth_element yields the set of     *)
(* tables its unspecified order allows.                                    *)
(***************************************************************************)
EXTENDS Naturals, Sequences, FiniteSets, Functions

CONSTANTS MAX_THETA,      \* theta_constants::MAX_THETA
          MIN_LG_K        \* theta_constants::MIN_LG_K

ASSUME MaxThetaAssumption == MAX_THETA \in Nat \ {0}
ASSUME MinLgKAssumption == MIN_LG_K \in Nat \ {0}

RESIZE_FACTORS == 0 .. 3          \* X1, X2, X4, X8
STRIDE_HASH_BITS == 7

MinOf(a, b) == IF a < b THEN a ELSE b

NoSummary == {}

Entry(key, summary) == <<key, summary>>

extract_key(e) == e[1]

NoEntries(lg) == [i \in 0 .. 2^lg - 1 |-> Entry(0, NoSummary)]

(* a table built with lg_cur = 0 has no array (entries_ == nullptr)        *)
hash_table(lg_cur, lg_nom, rf, theta, is_empty) ==
  [lg_cur |-> lg_cur, lg_nom |-> lg_nom, rf |-> rf, theta |-> theta,
   is_empty |-> is_empty, num |-> 0,
   ent |-> IF lg_cur > 0 THEN NoEntries(lg_cur) ELSE << >>]

starting_sub_multiple(lg_tgt, lg_min, lg_rf) ==
  IF lg_tgt <= lg_min THEN lg_min
  ELSE IF lg_rf = 0 THEN lg_tgt
  ELSE ((lg_tgt - lg_min) % lg_rf) + lg_min

(* floor(0.5 * size) while the table may still grow, floor(15/16 * size)   *)
(* once it is at its final size                                            *)
get_capacity_no_slack(lg_cur, lg_nom) ==
  IF lg_cur <= lg_nom THEN 2^lg_cur \div 2 ELSE 2^lg_cur

get_capacity(lg_cur, lg_nom) ==
  IF lg_cur <= lg_nom THEN 2^lg_cur \div 2 ELSE (15 * 2^lg_cur) \div 16

get_stride(key, lg) == 2 * ((key \div 2^lg) % 2^STRIDE_HASH_BITS) + 1

(***************************************************************************)
(* find(): the first slot of the probe sequence that is free or holds the  *)
(* key.  The code throws std::logic_error when the sequence comes back to  *)
(* its start; at = NoSlot stands for that.                                 *)
(***************************************************************************)
NoSlot(lg) == 2^lg

Probe(key, lg, i) == (key + i * get_stride(key, lg)) % 2^lg

StopsAt(ent, lg, key, i) == extract_key(ent[Probe(key, lg, i)]) \in {0, key}

SlotFor(ent, lg, key) ==
  IF \E i \in 0 .. 2^lg - 1 : StopsAt(ent, lg, key, i)
  THEN Probe(key, lg, CHOOSE i \in 0 .. 2^lg - 1 :
                        /\ StopsAt(ent, lg, key, i)
                        /\ \A j \in 0 .. i - 1 : ~StopsAt(ent, lg, key, j))
  ELSE NoSlot(lg)

Result(ent, lg, key, at) ==
  [at |-> at, found |-> at # NoSlot(lg) /\ extract_key(ent[at]) = key]

find(ent, lg, key) == Result(ent, lg, key, SlotFor(ent, lg, key))

Used(ent) == {i \in DOMAIN ent : extract_key(ent[i]) # 0}

Entries(t) == {t.ent[i] : i \in Used(t.ent)}

(* the element of S with n smaller ones                                    *)
OfRank(S, n) == CHOOSE i \in S : Cardinality({j \in S : j < i}) = n

(* the entries in the order the const_iterator visits them                 *)
InOrder(ent, slots) == [n \in 1 .. Cardinality(slots) |-> ent[OfRank(slots, n - 1)]]

Iterate(t) == InOrder(t.ent, Used(t.ent))

Place_leaves_summary(ent, lg, e) ==
  LET at == find(ent, lg, extract_key(e)).at
  IN IF at = NoSlot(lg) THEN ent ELSE [ent EXCEPT ![at][1] = extract_key(e)]

Place(ent, lg, e) ==
  LET at == find(ent, lg, extract_key(e)).at
  IN IF at = NoSlot(lg) THEN ent ELSE [ent EXCEPT ![at] = e]

(* the loops of resize() and rebuild() that insert one entry after another *)
Rehash(entries, lg) ==
  LET placed[n \in 0 .. Len(entries)] ==
        IF n = 0 THEN NoEntries(lg) ELSE Place(placed[n - 1], lg, entries[n])
  IN placed[Len(entries)]

resize_without_rehash(t) ==
  LET lg_new == MinOf(t.lg_cur + t.rf, t.lg_nom + 1)
  IN [t EXCEPT !.lg_cur = lg_new,
               !.ent = [i \in 0 .. 2^lg_new - 1 |->
                          IF i \in DOMAIN t.ent THEN t.ent[i]
                          ELSE Entry(0, NoSummary)]]

resize(t) ==
  LET lg_new == MinOf(t.lg_cur + t.rf, t.lg_nom + 1)
  IN [t EXCEPT !.lg_cur = lg_new, !.ent = Rehash(Iterate(t), lg_new)]

(* consolidate_non_empty(): the entries move to the front of the array in  *)
(* their order; what follows the first num of them is not looked at        *)
consolidate_non_empty(t) == Range(SubSeq(Iterate(t), 1, t.num))

(***************************************************************************)
(* rebuild(): consolidate, nth_element at nominal_size, re-insert the      *)
(* nominal_size entries with smaller keys into a cleared array of the same *)
(* size.                                                                   *)
(***************************************************************************)
Smaller(entries, e) == {d \in entries : extract_key(d) < extract_key(e)}

(* nth_element(.., n, ..): the entry that has n smaller ones               *)
NthElement(entries, n) == CHOOSE e \in entries : Cardinality(Smaller(entries, e)) = n

rebuild_off_by_one(t) ==
  LET nominal == 2^t.lg_nom
      old     == consolidate_non_empty(t)
      pivot   == NthElement(old, nominal - 1)
      kept    == Smaller(old, pivot) \cup {pivot}
  IN {[t EXCEPT !.theta = extract_key(pivot), !.num = nominal,
                !.ent = Rehash(s, t.lg_cur)] : s \in Bijection(1 .. Cardinality(kept), kept)}

rebuild(t) ==
  LET nominal == 2^t.lg_nom
      old     == consolidate_non_empty(t)
      pivot   == NthElement(old, nominal)
      kept    == Smaller(old, pivot)
  IN {[t EXCEPT !.theta = extract_key(pivot), !.num = nominal,
                !.ent = Rehash(s, t.lg_cur)] : s \in Bijection(1 .. Cardinality(kept), kept)}

(* insert(it, entry) at the slot that find returned                        *)
insert(t, at, e) ==
  LET u == [t EXCEPT !.ent[at] = e, !.num = @ + 1]
  IN IF u.num <= get_capacity(u.lg_cur, u.lg_nom) THEN {u}
     ELSE IF u.lg_cur <= u.lg_nom THEN {resize(u)}
     ELSE rebuild(u)

trim(t) == IF t.num > 2^t.lg_nom THEN rebuild(t) ELSE {t}

reset(t, starting_theta) ==
  hash_table(starting_sub_multiple(t.lg_nom + 1, MIN_LG_K, t.rf),
             t.lg_nom, t.rf, starting_theta, TRUE)

(***************************************************************************)
(* lg_size_from_count (common_defs.hpp): the size of the tables that       *)
(* intersections and differences build for n keys.                         *)
(***************************************************************************)
Log2(n) == CHOOSE e \in 0 .. n : 2^e <= n /\ n < 2^(e + 1)

lg_size_from_count(n) ==
  Log2(n) + (IF n > (15 * 2^(Log2(n) + 1)) \div 16 THEN 2 ELSE 1)

-----------------------------------------------------------------------------
(* Well-formedness of a table: the key count is right, every key is found  *)
(* where it is, no key is stored twice and a probe for an absent key ends. *)
(* Shared by the invariants of the modules that own a table.               *)
WellFormed(t) ==
  t.lg_cur > 0 =>
    /\ t.num = Cardinality(Used(t.ent))
    /\ \A i \in Used(t.ent) :
         find(t.ent, t.lg_cur, extract_key(t.ent[i])) = [at |-> i, found |-> TRUE]
    /\ Used(t.ent) # DOMAIN t.ent
=============================================================================
