----------------------------- MODULE HllSketch -----------------------------
(***************************************************************************)
(* hll_sketch: one sketch under updates, resets and copies to another      *)
(* target type, stored and loaded between any two of them.  `seen' is the  *)
(* set of coupons presented since the last reset.                          *)
(*                                                                         *)
(* An image is a sequence of units: the eight header bytes as one record,  *)
(* then counters, registers and coupons.                                   *)
(***************************************************************************)
EXTENDS HllSketchImpl

CONSTANTS LgKs,            \* lg_config_k
          Types, Full,     \* target types and start_full_size flags
          InputCoupons     \* the coupons that updates hash to, by lg_config_k

ASSUME SketchConstants ==
  /\ Types \subseteq HLL_TYPES /\ Full \subseteq BOOLEAN
  /\ \A lgK \in LgKs : \A c \in InputCoupons[lgK] : getValue(c) \in 1 .. MAX_VALUE

LIST_PREINTS == 2
HASH_SET_PREINTS == 3
HLL_PREINTS == 10

(* the flags and the mode byte                                             *)
Header(s, preInts, lgArr, compact, byte6) ==
  [preInts |-> preInts, lgK |-> s.lgK, lgArr |-> lgArr, empty |-> isEmpty(s),
   compact |-> compact, ooo |-> s.ooo, full |-> s.full, byte6 |-> byte6,
   mode |-> s.mode, tgt |-> s.tgt]

Cells(cells, lg) == [i \in 1 .. 2^lg |-> cells[i - 1]]

SerializeCoupons(l, compact) ==
  LET list == l.mode = "LIST"
      hdr  == Header(l, IF list THEN LIST_PREINTS ELSE HASH_SET_PREINTS, l.lgArr,
                     compact, IF list THEN l.count ELSE 0)
  IN <<hdr>> \o (IF list THEN << >> ELSE <<l.count>>)
       \o (IF compact THEN Coupons(l) ELSE Cells(l.coupons, l.lgArr))

(* an updatable HLL_4 image has room for exceptions even when there are    *)
(* none, "so the binary can be wrapped"                                    *)
SerializeAux(h, compact) ==
  IF h.tgt # "HLL_4" THEN << >>
  ELSE IF compact THEN AuxPairs(h.aux)
  ELSE IF h.aux = NullAux THEN [i \in 1 .. 2^LG_AUX |-> EMPTY]
  ELSE Cells(h.aux.entries, h.aux.lg)

SerializeHll(h, compact) ==
  <<Header(h, HLL_PREINTS, h.aux.lg, compact, h.curMin),
    [kxq0 |-> h.kxq0, kxq1 |-> h.kxq1, numAtCurMin |-> h.numAtCurMin,
     auxCount |-> h.aux.count]>>
  \o [i \in 1 .. ArrBytes(h.tgt, h.lgK) |-> h.bytes[i - 1]]
  \o SerializeAux(h, compact)

serialize(s, compact) ==
  IF s.mode = "HLL" THEN SerializeHll(s, compact) ELSE SerializeCoupons(s, compact)

(* images of early versions do not have the table size in the header       *)
EarlyImage(img) == [img EXCEPT ![1].lgArr = 0]

-----------------------------------------------------------------------------
Log2(n) == CHOOSE e \in 0 .. n : 2^e >= n /\ (e = 0 \/ 2^(e - 1) < n)

computeLgArrInts_exact_fit(lgInit, count) ==
  Max({lgInit, Log2(Max({1, count}))})

(* computeLgArrInts(): room for count at a load of at most 3/4             *)
computeLgArrInts(lgInit, count) ==
  LET lg == Log2(Max({1, count}))
  IN Max({lgInit, IF 4 * count > 3 * 2^lg THEN lg + 1 ELSE lg})

Drop(in, n) == SubSeq(in, n + 1, Len(in))

Rejected == [s |-> Threw, rest |-> << >>]

(* newList(): a stream reader takes no coupons of an empty sketch; the     *)
(* reader from memory takes the valid coupons only                         *)
newList(in, stream) ==
  LET hdr   == in[1]
      room  == IF hdr.compact THEN hdr.byte6 ELSE 2^LG_INIT_LIST_SIZE
      taken == IF hdr.empty THEN 0 ELSE IF stream THEN room ELSE hdr.byte6
      blank == CouponList(hdr.lgK, hdr.tgt, "LIST")
  IN IF Len(in) < 1 + (IF stream THEN taken ELSE room) THEN Rejected
     ELSE [s |-> [blank EXCEPT !.count = hdr.byte6, !.ooo = hdr.ooo,
                    !.coupons = [i \in DOMAIN @ |-> IF i < taken THEN in[i + 2] ELSE EMPTY]],
           rest |-> Drop(in, 1 + taken)]

(* newSet(): a compact image is replayed, another one loaded as it is      *)
newSet_stops_at_end(in) ==
  LET hdr   == in[1]
      room  == IF hdr.compact THEN in[2] ELSE 2^hdr.lgArr
      units == SubSeq(in, 3, Min({Len(in), 2 + room}))
      blank == CouponList(hdr.lgK, hdr.tgt, "SET")
  IN IF Len(in) < 2 \/ ~hdr.compact THEN Rejected
     ELSE [s |-> FoldLeft(SetCouponUpdate, blank, units), rest |-> << >>]

newSet(in) ==
  LET hdr   == in[1]
      lg    == IF hdr.lgArr < LG_INIT_SET_SIZE THEN computeLgArrInts(LG_INIT_SET_SIZE, in[2])
               ELSE hdr.lgArr
      room  == IF hdr.compact THEN in[2] ELSE 2^lg
      units == SubSeq(in, 3, 2 + room)
      blank == CouponList(hdr.lgK, hdr.tgt, "SET")
  IN IF Len(in) < 2 \/ hdr.lgK < LG_MIN_SET_K THEN Rejected
     ELSE IF Len(in) < 2 + room THEN Rejected
     ELSE [s |-> IF hdr.compact THEN FoldLeft(SetCouponUpdate, blank, units)
                 ELSE [blank EXCEPT !.lgArr = lg, !.count = in[2],
                         !.coupons = [i \in 0 .. 2^lg - 1 |-> units[i + 1]]],
           rest |-> Drop(in, 2 + room)]

(* AuxHashMap::deserialize()                                               *)
deserializeAux(units, hdr, auxCount) ==
  LET lg  == IF hdr.compact THEN computeLgArrInts(LG_AUX, auxCount) ELSE hdr.lgArr
      aux == FoldLeft(LAMBDA a, p : mustAdd(a, getLow26(p) % 2^hdr.lgK, getValue(p)),
                      newAuxHashMap(lg, hdr.lgK),
                      SelectSeq(units, LAMBDA p : p # EMPTY))
  IN IF aux.count = auxCount THEN aux ELSE [aux EXCEPT !.ok = FALSE]

HllArrayOf(hdr, est, bytes, aux) ==
  IF ~aux.ok THEN Threw
  ELSE [newHll(hdr.lgK, hdr.tgt, hdr.full) EXCEPT
          !.curMin = hdr.byte6, !.ooo = hdr.ooo, !.kxq0 = est.kxq0, !.kxq1 = est.kxq1,
          !.numAtCurMin = est.numAtCurMin, !.aux = aux, !.bytes = bytes]

newHll_from(in) ==
  LET hdr == in[1]
      est == in[2]
      n   == ArrBytes(hdr.tgt, hdr.lgK)
      a   == IF est.auxCount = 0 THEN 0 ELSE IF hdr.compact THEN est.auxCount ELSE 2^hdr.lgArr
      aux == IF a = 0 THEN NullAux
             ELSE deserializeAux(SubSeq(in, n + 3, n + 2 + a), hdr, est.auxCount)
  IN IF Len(in) < 2 THEN Rejected
     ELSE IF Len(in) < 2 + n + a THEN Rejected
     ELSE [s |-> HllArrayOf(hdr, est, [i \in 0 .. n - 1 |-> in[i + 3]], aux),
           rest |-> Drop(in, 2 + n + a)]

deserialize(in, stream) ==
  CASE in[1].preInts = HLL_PREINTS -> newHll_from(in)
    [] in[1].preInts = HASH_SET_PREINTS -> newSet(in)
    [] in[1].preInts = LIST_PREINTS -> newList(in, stream)

-----------------------------------------------------------------------------
VARIABLES sk, seen

vars == <<sk, seen>>

Init ==
  /\ \E lgK \in LgKs, tgt \in Types, full \in Full : sk = hll_sketch(lgK, tgt, full)
  /\ seen = {}

(* update(): the coupon of the hash of the datum                           *)
Update(c) ==
  /\ sk # Threw
  /\ c \in InputCoupons[sk.lgK]
  /\ sk' = couponUpdate(sk, c)
  /\ seen' = seen \cup {c}

Reset ==
  /\ sk # Threw
  /\ sk' = resetImpl(sk)
  /\ seen' = {}

CopyAs(tgt) ==
  /\ sk # Threw
  /\ sk' = copyAs(sk, tgt)
  /\ UNCHANGED seen

StoreAndLoad(compact, stream) ==
  /\ sk # Threw
  /\ sk' = deserialize(serialize(sk, compact), stream).s
  /\ UNCHANGED seen

Next ==
  \/ \E c \in UNION {InputCoupons[lgK] : lgK \in LgKs} : Update(c)
  \/ Reset
  \/ \E tgt \in Types : CopyAs(tgt)
  \/ \E compact, stream \in BOOLEAN : StoreAndLoad(compact, stream)

Spec == Init /\ [][Next]_vars

-----------------------------------------------------------------------------
(* Through every promotion and conversion the sketch stands for all the    *)
(* coupons presented: the registers are their maxima, whatever the type,   *)
(* and is_empty() says whether there were any since the last reset.        *)
ContentExact == sk # Threw => StandsFor(sk, seen) /\ (isEmpty(sk) <=> seen = {})

(* No update meets a full list, a full set, a duplicate that should not be *)
(* there, or one of the inconsistencies shiftToBiggerCurMin() checks for;  *)
(* the hash set finds its coupons where it put them, and has a free cell.  *)
NeverThrows ==
  /\ sk # Threw
  /\ sk.mode = "SET" =>
       /\ \A c \in ToSet(Coupons(sk)) : SetFind(sk.coupons, sk.lgArr, c).found
       /\ \E i \in DOMAIN sk.coupons : sk.coupons[i] = EMPTY

(* The estimators' inputs agree with the registers after any mix of        *)
(* updates, shifts of curMin, conversions and loads, and an HLL_4 array    *)
(* keeps exactly its out-of-range registers in the auxiliary map.          *)
RegistersExact ==
  sk.mode = "HLL" => EstimatorExact(sk) /\ (sk.tgt = "HLL_4" => AuxExact(sk))

(* Two sketches that differ at most in the layout of their hash tables     *)
Equivalent(s, t) ==
  /\ s # Threw
  /\ <<s.mode, s.tgt, s.lgK, s.full, s.ooo>> = <<t.mode, t.tgt, t.lgK, t.full, t.ooo>>
  /\ IF t.mode = "HLL"
     THEN /\ <<s.bytes, s.curMin, s.numAtCurMin, s.kxq0, s.kxq1>> =
             <<t.bytes, t.curMin, t.numAtCurMin, t.kxq0, t.kxq1>>
          /\ ToSet(AuxPairs(s.aux)) = ToSet(AuxPairs(t.aux))
          /\ s.aux.lg = t.aux.lg
     ELSE /\ ToSet(Coupons(s)) = ToSet(Coupons(t))
          /\ s.count = t.count /\ s.lgArr = t.lgArr

ReadBack(got, whole) == Equivalent(got.s, sk) /\ (whole => got.rest = << >>)

(***************************************************************************)
(* Every image, also one without the table size in its header, is read     *)
(* back from a stream and from memory as an equivalent sketch, with hash   *)
(* tables of the same size; a compact image is read to its end, and cut    *)
(* short anywhere it is refused by the reader from memory.                 *)
(***************************************************************************)
RoundTrip ==
  \A compact, stream \in BOOLEAN :
    LET img == serialize(sk, compact)
        images == IF compact \/ sk.mode # "HLL" THEN {img, EarlyImage(img)} ELSE {img}
    IN /\ \A in \in images : ReadBack(deserialize(in, stream), compact /\ stream)
       /\ compact /\ ~stream =>
            \A n \in 1 .. Len(img) - 1 : deserialize(SubSeq(img, 1, n), FALSE) = Rejected
=============================================================================
