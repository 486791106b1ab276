------------------------------ MODULE HllUnion ------------------------------
(***************************************************************************)
(* hll_union: the gadget, an HLL_8 sketch, under updates with sketches     *)
(* (by reference and by move) and with single items, estimates and resets. *)
(* `given' is the set of coupons the union stands for; `lost' records that *)
(* an update replaced a gadget that looked empty but held data.            *)
(*                                                                         *)
(* A behaviour of HllSpec is that of a sketch, HllSketch, or of a union.   *)
(***************************************************************************)
EXTENDS HllSketch

CONSTANTS LgMaxK,              \* lg_max_k
          Inputs,              \* the input sketches: constructor arguments and coupons
          Data                 \* the coupons of single items

ASSUME UnionConstants ==
  /\ LgMaxK \in Nat
  /\ \A i \in Inputs : i.lgK \in Nat /\ i.tgt \in HLL_TYPES /\ i.full \in BOOLEAN

VARIABLES gadget, given, lost

union_vars == <<gadget, given, lost>>

NoUnion == [mode |-> "NONE"]

hll_union(lg_max_k) == hll_sketch(lg_max_k, "HLL_8", FALSE)

UnionInit == gadget = hll_union(LgMaxK) /\ given = {} /\ lost = FALSE

couponUpdates(s, coupons) == FoldLeft(couponUpdate, s, coupons)

copy_or_downsample(src, tgt_lg_k) ==
  IF src.lgK <= tgt_lg_k THEN copyAs(src, "HLL_8")
  ELSE [mergeHll(newHll(tgt_lg_k, "HLL_8", FALSE), src) EXCEPT !.ooo = src.ooo]

(***************************************************************************)
(* union_impl(): what the gadget becomes.  Coupons go into whatever the    *)
(* gadget is; an array replaces an empty gadget, takes in the coupons of a *)
(* list or a set, or is merged at the smaller lgK of the two.              *)
(***************************************************************************)
union_impl_drops_list(dst, src, lg_max_k) ==
  IF src.mode \in {"LIST", "SET"}
  THEN IF src.lgK = dst.lgK /\ dst.mode = "LIST" THEN copyAs(src, "HLL_8")
       ELSE couponUpdates(dst, Coupons(src))
  ELSE IF isEmpty(dst) THEN copy_or_downsample(src, lg_max_k)
  ELSE IF dst.mode \in {"LIST", "SET"}
  THEN internalCouponUpdates(copy_or_downsample(src, lg_max_k), Coupons(dst))
  ELSE LET g == IF src.lgK < dst.lgK THEN copy_or_downsample(dst, src.lgK) ELSE dst
       IN [mergeHll(g, src) EXCEPT !.ooo = TRUE]

union_impl(dst, src, lg_max_k) ==
  IF src.mode \in {"LIST", "SET"}
  THEN IF isEmpty(dst) /\ src.lgK = dst.lgK THEN copyAs(src, "HLL_8")
       ELSE couponUpdates(dst, Coupons(src))
  ELSE IF isEmpty(dst) THEN copy_or_downsample(src, lg_max_k)
  ELSE IF dst.mode \in {"LIST", "SET"}
  THEN internalCouponUpdates(copy_or_downsample(src, lg_max_k), Coupons(dst))
  ELSE LET g == IF src.lgK < dst.lgK THEN copy_or_downsample(dst, src.lgK) ELSE dst
       IN [mergeHll(g, src) EXCEPT !.ooo = TRUE]

HoldsData(s) == s.mode = "HLL" /\ \E i \in Slots(s) : value(s, i) # 0

(* union_impl() takes a branch that replaces the gadget                    *)
Replaces(dst, src) == isEmpty(dst) /\ (src.mode = "HLL" \/ src.lgK = dst.lgK)

(* the move overload may first swap the sketch with an empty gadget        *)
Swaps(g, src) ==
  /\ isEmpty(g) /\ src.tgt = "HLL_8" /\ src.lgK <= LgMaxK
  /\ src.mode = "HLL" \/ src.lgK = LgMaxK

update(g, src, swap) ==
  IF isEmpty(src) THEN g
  ELSE union_impl(IF swap THEN src ELSE g, IF swap THEN g ELSE src, LgMaxK)

-----------------------------------------------------------------------------
(* the input sketches a program can present, with what they stand for      *)
SketchOf(i) == couponUpdates(hll_sketch(i.lgK, i.tgt, i.full), i.stream)

Sources == {[sketch |-> SketchOf(i), coupons |-> ToSet(i.stream)] : i \in Inputs}

UnionUpdate(src, moved) ==
  LET swap == moved /\ Swaps(gadget, src.sketch)
  IN /\ gadget' = update(gadget, src.sketch, swap)
     /\ given' = given \cup src.coupons
     /\ lost' = (lost \/ ( /\ ~isEmpty(src.sketch) /\ HoldsData(gadget)
                           /\ ~swap /\ Replaces(gadget, src.sketch)))

UnionUpdateDatum(c) ==
  /\ gadget' = couponUpdate(gadget, c)
  /\ given' = given \cup {c}
  /\ UNCHANGED lost

(* get_estimate(), get_composite_estimate() and the bounds                 *)
Estimate ==
  /\ gadget.mode = "HLL"
  /\ gadget' = check_rebuild_kxq_cur_min(gadget)
  /\ UNCHANGED <<given, lost>>

UnionReset ==
  /\ gadget' = resetImpl(gadget)
  /\ given' = {}
  /\ lost' = FALSE

get_result(tgt) == copyAs(gadget, tgt)

UnionNext ==
  \/ \E src \in Sources, moved \in BOOLEAN : UnionUpdate(src, moved)
  \/ \E c \in Data : UnionUpdateDatum(c)
  \/ Estimate
  \/ UnionReset

HllInit ==
  \/ Init /\ gadget = NoUnion /\ given = {} /\ lost = FALSE
  \/ UnionInit /\ sk = gadget /\ seen = {}

HllNext ==
  \/ gadget = NoUnion /\ Next /\ UNCHANGED union_vars
  \/ gadget # NoUnion /\ UnionNext /\ UNCHANGED vars

HllSpec == HllInit /\ [][HllNext]_<<vars, union_vars>>

-----------------------------------------------------------------------------
(***************************************************************************)
(* However sketches of different sizes, types and modes were mixed with    *)
(* single items, the gadget stands for everything presented, unless it     *)
(* looked empty when it was not, and its estimators' inputs are exact      *)
(* unless it is marked for rebuilding.                                     *)
(***************************************************************************)
UnionExact == gadget # NoUnion =>
  /\ ~lost => StandsFor(gadget, given)
  /\ gadget.mode = "HLL" /\ ~gadget.rebuild => EstimatorExact(gadget)

(***************************************************************************)
(* get_result() replays a gadget marked for rebuilding: whatever the       *)
(* target type, the result has the gadget's registers or coupons, exact    *)
(* estimator inputs and exceptions, and knows whether it is empty.         *)
(***************************************************************************)
ResultExact == gadget # NoUnion =>
  \A tgt \in HLL_TYPES :
    LET r == get_result(tgt)
    IN /\ r # Threw /\ r.tgt = tgt
       /\ ~lost => StandsFor(r, given) /\ (isEmpty(r) <=> given = {})
       /\ r.mode = "HLL" => ~r.rebuild /\ EstimatorExact(r)
       /\ (r.mode = "HLL" /\ tgt = "HLL_4") => AuxExact(r)
=============================================================================
