--------------------------- MODULE HllSketchImpl ---------------------------
(***************************************************************************)
(* HllSketchImpl and its subclasses as operators on one record:            *)
(* CouponList and CouponHashSet (mode LIST, SET) hold coupons, Hll4Array,  *)
(* Hll6Array and Hll8Array (mode HLL) hold 2^lgK registers packed in bytes *)
(* of four, six or eight bits.  A sketch starts as a list and is promoted  *)
(* as coupons arrive.  The HIP accumulator, a real number read by the      *)
(* estimators alone, is left out; kxq0 and kxq1 are kept in units of       *)
(* 2^-MAX_VALUE.  Threw stands for an exception out of an operation.       *)
(***************************************************************************)
EXTENDS Integers, Sequences, FiniteSets, SequencesExt, FiniteSetsExt

(***************************************************************************)
(* AuxHashMap: the exceptions of an HLL_4 array, an open-addressing table  *)
(* of pairs (slot, value) probed by slot alone.  A pair is one integer, as *)
(* in the code, and 0 is a free cell.  ok = FALSE stands for an exception  *)
(* thrown by the operation; NullAux for the null pointer.                  *)
(***************************************************************************)

CONSTANTS KEY_BITS,      \* KEY_BITS_26, the bits of a coupon's address
          LG_AUX         \* LG_AUX_ARR_INTS[lgConfigK]

ASSUME AuxConstants == KEY_BITS \in Nat \ {0} /\ LG_AUX \in Nat \ {0}

EMPTY == 0

pair(slotNo, value) == value * 2^KEY_BITS + (slotNo % 2^KEY_BITS)

getLow26(coupon) == coupon % 2^KEY_BITS

getValue(coupon) == coupon \div 2^KEY_BITS

newAuxHashMap(lg, lgK) ==
  [lg |-> lg, lgK |-> lgK, count |-> 0, ok |-> TRUE,
   entries |-> [i \in 0 .. 2^lg - 1 |-> EMPTY]]

NullAux == [lg |-> 0, lgK |-> 0, count |-> 0, ok |-> TRUE, entries |-> << >>]

(* the pairs in the order of the coupon_iterator                           *)
NonEmpty(cells, n) ==
  SelectSeq([i \in 1 .. n |-> cells[i - 1]], LAMBDA c : c # EMPTY)

AuxPairs(aux) == IF aux = NullAux THEN << >> ELSE NonEmpty(aux.entries, 2^aux.lg)

(***************************************************************************)
(* find(): the first probed cell that is free or holds the slot; at = -1   *)
(* when the probe sequence returns to its start.                           *)
(***************************************************************************)
FirstOf(cells, probe, stops) ==
  LET at == probe[Min(stops)]
  IN IF stops = {} THEN [at |-> -1, found |-> FALSE]
     ELSE [at |-> at, found |-> cells[at] # EMPTY]

AuxProbe(lg, slotNo, i) ==
  LET q == slotNo \div 2^lg
      stride == IF q % 2 = 0 THEN q + 1 ELSE q
  IN (slotNo + i * stride) % 2^lg

AuxFind(entries, lg, lgK, slotNo) ==
  LET probe == [i \in 0 .. 2^lg - 1 |-> AuxProbe(lg, slotNo, i)]
      Stops(e) == e = EMPTY \/ e % 2^lgK = slotNo
  IN FirstOf(entries, probe, {i \in 0 .. 2^lg - 1 : Stops(entries[probe[i]])})

growAuxSpace(aux) ==
  LET lg == aux.lg + 1
      Move(cells, e) ==
        [cells EXCEPT ![AuxFind(cells, lg, aux.lgK, e % 2^aux.lgK).at] = e]
  IN [aux EXCEPT !.lg = lg,
        !.entries = FoldLeft(Move, newAuxHashMap(lg, aux.lgK).entries, AuxPairs(aux))]

checkGrow(aux) ==
  IF 4 * aux.count > 3 * 2^aux.lg THEN growAuxSpace(aux) ELSE aux

mustAdd(aux, slotNo, value) ==
  LET f == AuxFind(aux.entries, aux.lg, aux.lgK, slotNo)
  IN IF f.found \/ f.at = -1 THEN [aux EXCEPT !.ok = FALSE]
     ELSE checkGrow([aux EXCEPT !.entries[f.at] = pair(slotNo, value),
                                !.count = @ + 1])

mustReplace_keeps_larger(aux, slotNo, value) ==
  LET f == AuxFind(aux.entries, aux.lg, aux.lgK, slotNo)
  IN IF ~f.found THEN [aux EXCEPT !.ok = FALSE] ELSE aux

mustReplace(aux, slotNo, value) ==
  LET f == AuxFind(aux.entries, aux.lg, aux.lgK, slotNo)
  IN IF ~f.found THEN [aux EXCEPT !.ok = FALSE]
     ELSE [aux EXCEPT !.entries[f.at] = pair(slotNo, value)]

(* mustFindValueFor(), NotFound when it throws                             *)
NotFound == -1

mustFindValueFor(aux, slotNo) ==
  LET f == AuxFind(aux.entries, aux.lg, aux.lgK, slotNo)
  IN IF aux # NullAux /\ f.found THEN getValue(aux.entries[f.at]) ELSE NotFound

-----------------------------------------------------------------------------
CONSTANTS LG_INIT_LIST_SIZE, LG_INIT_SET_SIZE,
          LG_MIN_SET_K,     \* a list with a smaller lgConfigK (8) skips SET
          LG_SET_GAP,       \* a set of 2^(lgConfigK - 3) cells is the largest
          KXQ_SPLIT,        \* kxq1 holds the registers from 32 on
          MAX_VALUE         \* the largest value of a coupon (63)

ASSUME HllConstants ==
  /\ LG_INIT_LIST_SIZE \in Nat /\ LG_INIT_SET_SIZE \in Nat
  /\ LG_INIT_SET_SIZE = LG_MIN_SET_K - LG_SET_GAP
  /\ KXQ_SPLIT \in Nat /\ MAX_VALUE \in 1 .. 63

AUX_TOKEN == 15
HLL_TYPES == {"HLL_4", "HLL_6", "HLL_8"}

Threw == [mode |-> "THREW"]

K(h) == 2^h.lgK
Slots(h) == 0 .. K(h) - 1

CouponArray(lg) == [i \in 0 .. 2^lg - 1 |-> EMPTY]

CouponList(lgK, tgt, mode) ==
  LET lg == IF mode = "LIST" THEN LG_INIT_LIST_SIZE ELSE LG_INIT_SET_SIZE
  IN [mode |-> mode, lgK |-> lgK, tgt |-> tgt, full |-> FALSE,
      lgArr |-> lg, count |-> 0, ooo |-> FALSE, coupons |-> CouponArray(lg)]

(* the coupons of a list or a set in the order of the coupon_iterator      *)
Coupons(l) == NonEmpty(l.coupons, 2^l.lgArr)

-----------------------------------------------------------------------------
(* Registers.  A byte holds two nibbles, or parts of two 6-bit fields.     *)
ArrBytes(tgt, lgK) ==
  CASE tgt = "HLL_4" -> 2^lgK \div 2
    [] tgt = "HLL_6" -> (3 * 2^lgK) \div 4 + 1
    [] tgt = "HLL_8" -> 2^lgK

newHll(lgK, tgt, full) ==
  [mode |-> "HLL", lgK |-> lgK, tgt |-> tgt, full |-> full,
   bytes |-> [i \in 0 .. ArrBytes(tgt, lgK) - 1 |-> 0], curMin |-> 0,
   numAtCurMin |-> 2^lgK, kxq0 |-> 2^(lgK + MAX_VALUE), kxq1 |-> 0,
   ooo |-> FALSE, rebuild |-> FALSE, aux |-> NullAux]

getSlot6(bytes, slot) ==
  LET bit == slot * 6
      two == bytes[bit \div 8 + 1] * 256 + bytes[bit \div 8]
  IN (two \div 2^(bit % 8)) % 64

getSlot(h, slot) ==
  CASE h.tgt = "HLL_4" -> IF slot % 2 = 1 THEN h.bytes[slot \div 2] \div 16
                          ELSE h.bytes[slot \div 2] % 16
    [] h.tgt = "HLL_6" -> getSlot6(h.bytes, slot)
    [] h.tgt = "HLL_8" -> h.bytes[slot]

putSlot4(bytes, slot, v) ==
  [bytes EXCEPT ![slot \div 2] = IF slot % 2 = 0 THEN (@ - (@ % 16)) + (v % 16)
                                 ELSE (@ % 16) + 16 * (v % 16)]

putSlot6(bytes, slot, v) ==
  LET bit == slot * 6
      b   == bit \div 8
      two == bytes[b + 1] * 256 + bytes[b]
      at  == 2^(bit % 8)
      new == two - ((two \div at) % 64) * at + (v % 64) * at
  IN [bytes EXCEPT ![b] = new % 256, ![b + 1] = new \div 256]

(* the register a const_iterator or adjustRawValue() sees                  *)
value(h, slot) ==
  IF h.tgt # "HLL_4" THEN getSlot(h, slot)
  ELSE IF getSlot(h, slot) = AUX_TOKEN THEN mustFindValueFor(h.aux, slot)
  ELSE getSlot(h, slot) + h.curMin

(* the pairs of the non-zero registers, in slot order                      *)
Pairs(h) ==
  SelectSeq([i \in 1 .. K(h) |-> pair(i - 1, value(h, i - 1))],
            LAMBDA c : getValue(c) # 0)

InversePower(v) == 2^(MAX_VALUE - v)

hipAndKxQIncrementalUpdate(h, old, new) ==
  LET In(v, split) == IF (v >= KXQ_SPLIT) = split THEN InversePower(v) ELSE 0
  IN [h EXCEPT !.kxq0 = @ - In(old, FALSE) + In(new, FALSE),
               !.kxq1 = @ - In(old, TRUE) + In(new, TRUE)]

-----------------------------------------------------------------------------
(***************************************************************************)
(* shiftToBiggerCurMin(): every stored nibble is lowered by one, and the   *)
(* exceptions that fit a nibble again leave the auxiliary map.             *)
(***************************************************************************)
StoredAs(h, v) == {i \in Slots(h) : getSlot(h, i) = v}

LowerNibbles(bytes) ==
  LET Dec(n) == IF n \in 1 .. AUX_TOKEN - 1 THEN n - 1 ELSE n
  IN [b \in DOMAIN bytes |-> Dec(bytes[b] % 16) + 16 * Dec(bytes[b] \div 16)]

MoveException_keeps_all(st, p, newCurMin) ==
  LET aux == IF st.aux = NullAux THEN newAuxHashMap(LG_AUX, st.lgK) ELSE st.aux
  IN [st EXCEPT !.aux = mustAdd(aux, getLow26(p) % 2^st.lgK, getValue(p))]

MoveException(st, p, newCurMin) ==
  LET slot    == getLow26(p) % 2^st.lgK
      shifted == getValue(p) - newCurMin
      aux     == IF st.aux = NullAux THEN newAuxHashMap(LG_AUX, st.lgK) ELSE st.aux
  IN IF shifted >= AUX_TOKEN
     THEN [st EXCEPT !.aux = mustAdd(aux, slot, getValue(p)),
                     !.ok = @ /\ getSlot(st, slot) = AUX_TOKEN]
     ELSE [st EXCEPT !.bytes = putSlot4(@, slot, shifted), !.tokens = @ - 1,
                     !.ok = @ /\ getSlot(st, slot) = AUX_TOKEN
                              /\ shifted = AUX_TOKEN - 1]

MoveExceptions(h) ==
  FoldLeft(LAMBDA st, p : MoveException(st, p, h.curMin + 1),
           [bytes |-> LowerNibbles(h.bytes), tgt |-> h.tgt, aux |-> NullAux,
            tokens |-> Cardinality(StoredAs(h, AUX_TOKEN)), lgK |-> h.lgK, ok |-> TRUE],
           AuxPairs(h.aux))

Shifted(h, moved) ==
  IF \/ StoredAs(h, 0) # {}
     \/ h.aux = NullAux /\ StoredAs(h, AUX_TOKEN) # {}
     \/ ~moved.ok \/ ~moved.aux.ok
     \/ moved.aux # NullAux /\ moved.aux.count # moved.tokens
  THEN Threw
  ELSE [h EXCEPT !.bytes = moved.bytes, !.aux = moved.aux, !.curMin = @ + 1,
                 !.numAtCurMin = Cardinality(StoredAs(h, 1))]

shiftToBiggerCurMin(h) == Shifted(h, MoveExceptions(h))

(* while (numAtCurMin_ == 0) shiftToBiggerCurMin(); a register never       *)
(* exceeds MAX_VALUE, which bounds the loop                                *)
ShiftWhileNoneAtCurMin(h) ==
  FoldLeft(LAMBDA g, i : IF g # Threw /\ g.numAtCurMin = 0 THEN shiftToBiggerCurMin(g)
                         ELSE g,
           h, [i \in 1 .. MAX_VALUE |-> i])

(* the new value as a nibble, or as an exception                           *)
StoreValue4(h, slot, new) ==
  LET wasToken == getSlot(h, slot) = AUX_TOKEN
      aux == IF h.aux = NullAux THEN newAuxHashMap(LG_AUX, h.lgK) ELSE h.aux
  IN IF new - h.curMin < AUX_TOKEN
     THEN IF wasToken THEN h
          ELSE [h EXCEPT !.bytes = putSlot4(@, slot, new - h.curMin)]
     ELSE IF wasToken THEN [h EXCEPT !.aux = mustReplace(@, slot, new)]
     ELSE [h EXCEPT !.bytes = putSlot4(@, slot, AUX_TOKEN),
                    !.aux = mustAdd(aux, slot, new)]

internalHll4Update_no_shift(h, slot, new) ==
  LET old    == value(h, slot)
      stored == StoreValue4(hipAndKxQIncrementalUpdate(h, old, new), slot, new)
  IN IF old >= new THEN h
     ELSE IF old = h.curMin THEN [stored EXCEPT !.numAtCurMin = @ - 1]
     ELSE stored

CountAtCurMin(h, old) ==
  IF ~h.aux.ok THEN Threw
  ELSE IF old # h.curMin THEN h
  ELSE ShiftWhileNoneAtCurMin([h EXCEPT !.numAtCurMin = @ - 1])

RaiseValue4(h, slot, old, new) ==
  IF old = NotFound THEN Threw
  ELSE IF new <= old THEN h
  ELSE CountAtCurMin(StoreValue4(hipAndKxQIncrementalUpdate(h, old, new), slot, new), old)

internalHll4Update(h, slot, new) ==
  IF new <= getSlot(h, slot) + h.curMin THEN h
  ELSE RaiseValue4(h, slot, value(h, slot), new)

(* Hll6Array and Hll8Array: numAtCurMin counts the zeros                   *)
PutValue(h, slot, new) ==
  LET old == getSlot(h, slot)
      put == [h EXCEPT !.bytes = IF h.tgt = "HLL_6" THEN putSlot6(@, slot, new)
                                 ELSE [@ EXCEPT ![slot] = new],
                       !.numAtCurMin = IF old = 0 THEN @ - 1 ELSE @]
  IN IF new <= old THEN h ELSE hipAndKxQIncrementalUpdate(put, old, new)

internalCouponUpdate(h, coupon) ==
  LET slot == getLow26(coupon) % K(h)
      new  == getValue(coupon)
  IN IF h = Threw THEN Threw
     ELSE IF h.tgt # "HLL_4" THEN PutValue(h, slot, new)
     ELSE IF new <= h.curMin THEN h
     ELSE internalHll4Update(h, slot, new)

internalCouponUpdates(h, coupons) == FoldLeft(internalCouponUpdate, h, coupons)

-----------------------------------------------------------------------------
(***************************************************************************)
(* convertToHll4/6/8: the registers are replayed into a new array.  The    *)
(* 6- and 8-bit arrays then overwrite numAtCurMin with their own count.    *)
(***************************************************************************)
Replayed(h, tgt) ==
  internalCouponUpdates([newHll(h.lgK, tgt, h.full) EXCEPT !.ooo = h.ooo], Pairs(h))

OverwriteCount(g, zeros) ==
  IF g = Threw THEN g ELSE IF g.tgt = "HLL_4" THEN g ELSE [g EXCEPT !.numAtCurMin = zeros]

ConvertTo_copies_count(h, tgt) ==
  OverwriteCount(Replayed(h, tgt), h.numAtCurMin)

ConvertTo(h, tgt) ==
  OverwriteCount(Replayed(h, tgt), K(h) - Len(Pairs(h)))

copyAs_ignores_rebuild(s, tgt) ==
  IF s.mode # "HLL" THEN [s EXCEPT !.tgt = tgt]
  ELSE IF tgt = s.tgt THEN s
  ELSE ConvertTo(s, tgt)

copyAs(s, tgt) ==
  IF s.mode # "HLL" THEN [s EXCEPT !.tgt = tgt]
  ELSE IF tgt = s.tgt /\ ~s.rebuild THEN s
  ELSE ConvertTo(s, tgt)

promoteListOrSetToHll(l) == internalCouponUpdates(newHll(l.lgK, l.tgt, FALSE), Coupons(l))

-----------------------------------------------------------------------------
(* CouponHashSet: find() probes with an odd stride from the upper bits     *)
SetProbe(lg, coupon, i) ==
  LET q == getLow26(coupon) \div 2^lg
      stride == IF q % 2 = 0 THEN q + 1 ELSE q
  IN (coupon + i * stride) % 2^lg

SetFind(cells, lg, coupon) ==
  LET probe == [i \in 0 .. 2^lg - 1 |-> SetProbe(lg, coupon, i)]
  IN FirstOf(cells, probe, {i \in 0 .. 2^lg - 1 : cells[probe[i]] \in {EMPTY, coupon}})

growHashSet_keeps_cells(s, lg) ==
  [s EXCEPT !.lgArr = lg,
            !.coupons = [i \in 0 .. 2^lg - 1 |-> IF i < 2^s.lgArr THEN s.coupons[i] ELSE EMPTY]]

growHashSet(s, lg) ==
  LET Move(cells, c) == [cells EXCEPT ![SetFind(cells, lg, c).at] = c]
  IN [s EXCEPT !.lgArr = lg, !.coupons = FoldLeft(Move, CouponArray(lg), Coupons(s))]

checkGrowOrPromote(s) ==
  IF 4 * s.count <= 3 * 2^s.lgArr THEN s
  ELSE IF s.lgArr = s.lgK - LG_SET_GAP THEN promoteListOrSetToHll(s)
  ELSE growHashSet(s, s.lgArr + 1)

SetCouponUpdate(s, coupon) ==
  LET f == SetFind(s.coupons, s.lgArr, coupon)
  IN IF s = Threw \/ f.at = -1 THEN Threw
     ELSE IF f.found THEN s
     ELSE checkGrowOrPromote([s EXCEPT !.coupons[f.at] = coupon, !.count = @ + 1])

promoteListToSet(l) ==
  FoldLeft(SetCouponUpdate, CouponList(l.lgK, l.tgt, "SET"), Coupons(l))

(* CouponList: the first free cell, unless the coupon stands before it     *)
ListCouponUpdate(l, coupon) ==
  LET stops == {i \in 0 .. 2^l.lgArr - 1 : l.coupons[i] \in {EMPTY, coupon}}
      at    == Min(stops)
      added == [l EXCEPT !.coupons[at] = coupon, !.count = @ + 1]
  IN IF stops = {} THEN Threw
     ELSE IF l.coupons[at] = coupon THEN l
     ELSE IF l.count + 1 < 2^l.lgArr THEN added
     ELSE IF l.lgK < LG_MIN_SET_K THEN promoteListOrSetToHll(added)
     ELSE promoteListToSet(added)

couponUpdate(s, coupon) ==
  CASE s.mode = "THREW" -> Threw
    [] s.mode = "LIST"  -> ListCouponUpdate(s, coupon)
    [] s.mode = "SET"   -> SetCouponUpdate(s, coupon)
    [] s.mode = "HLL"   -> internalCouponUpdate(s, coupon)

hll_sketch(lgK, tgt, full) ==
  IF full THEN newHll(lgK, tgt, TRUE) ELSE CouponList(lgK, tgt, "LIST")

(* HllSketchImplFactory::reset()                                           *)
resetImpl(s) == hll_sketch(s.lgK, s.tgt, s.full)

isEmpty(s) ==
  IF s.mode = "HLL" THEN s.curMin = 0 /\ s.numAtCurMin = K(s) ELSE s.count = 0

-----------------------------------------------------------------------------
(***************************************************************************)
(* mergeHll() of Hll8Array, which leaves curMin, numAtCurMin, kxq0 and     *)
(* kxq1 to be rebuilt later.  The four fields of three bytes of a 6-bit    *)
(* source are unpacked in turn.                                            *)
(***************************************************************************)
unpack6(bytes, i) ==
  LET b == 3 * (i \div 4)
  IN CASE i % 4 = 0 -> bytes[b] % 64
       [] i % 4 = 1 -> bytes[b] \div 64 + 4 * (bytes[b + 1] % 16)
       [] i % 4 = 2 -> bytes[b + 1] \div 16 + 16 * (bytes[b + 2] % 4)
       [] i % 4 = 3 -> bytes[b + 2] \div 4

SourceValue(src, i) == IF src.tgt = "HLL_6" THEN unpack6(src.bytes, i) ELSE value(src, i)

mergeHll_no_flag(h, src) ==
  [h EXCEPT !.bytes = [j \in Slots(h) |->
      Max({h.bytes[j]} \cup {SourceValue(src, i) : i \in {i \in Slots(src) : i % K(h) = j}})]]

mergeHll(h, src) ==
  [h EXCEPT !.rebuild = TRUE,
            !.bytes = [j \in Slots(h) |->
      Max({h.bytes[j]} \cup {SourceValue(src, i) : i \in {i \in Slots(src) : i % K(h) = j}})]]

(* check_rebuild_kxq_cur_min()                                             *)
check_rebuild_kxq_cur_min(h) ==
  LET v      == [i \in Slots(h) |-> value(h, i)]
      least  == Min({v[i] : i \in Slots(h)})
      Change(S) == FoldSet(LAMBDA i, sum : sum + InversePower(v[i]) - InversePower(0), 0, S)
  IN IF ~h.rebuild THEN h
     ELSE [h EXCEPT !.rebuild = FALSE, !.curMin = least,
             !.numAtCurMin = Cardinality({i \in Slots(h) : v[i] = least}),
             !.kxq0 = InversePower(0) * K(h)
                        + Change({i \in Slots(h) : v[i] > 0 /\ v[i] < KXQ_SPLIT}),
             !.kxq1 = Change({i \in Slots(h) : v[i] >= KXQ_SPLIT})]

-----------------------------------------------------------------------------
(* what the registers of a sketch with 2^lgK slots must hold               *)
MaxIn(coupons, lgK, slot) ==
  Max({0} \cup {getValue(c) : c \in {c \in coupons : getLow26(c) % 2^lgK = slot}})

(* Shared by the modules that own a sketch: it stands for these coupons.   *)
StandsFor(s, coupons) ==
  IF s.mode = "HLL"
  THEN \A i \in Slots(s) : value(s, i) = MaxIn(coupons, s.lgK, i)
  ELSE /\ ToSet(Coupons(s)) = coupons
       /\ Len(Coupons(s)) = Cardinality(coupons)
       /\ s.count = Cardinality(coupons)

(* The estimators' inputs agree with the registers: kxq0 + kxq1 is the sum *)
(* of 2^-value, and numAtCurMin the number of registers at curMin, which   *)
(* is their minimum (HLL_4) or 0 while there are zeros (HLL_6, HLL_8).     *)
EstimatorExact(h) ==
  LET v == [i \in Slots(h) |-> value(h, i)]
      AtCurMin == Cardinality({i \in Slots(h) : v[i] = h.curMin})
  IN /\ h.kxq0 + h.kxq1 = FoldSet(LAMBDA i, sum : sum + InversePower(v[i]), 0, Slots(h))
     /\ \A i \in Slots(h) : v[i] >= h.curMin
     /\ h.tgt = "HLL_4" => h.numAtCurMin = AtCurMin /\ AtCurMin > 0
     /\ h.curMin = 0 => h.numAtCurMin = AtCurMin

(* The auxiliary map holds exactly the registers that do not fit a nibble. *)
AuxExact(h) ==
  /\ ToSet(AuxPairs(h.aux)) =
       {pair(i, value(h, i)) : i \in {i \in Slots(h) : value(h, i) - h.curMin >= AUX_TOKEN}}
  /\ h.aux.count = Len(AuxPairs(h.aux))
  /\ \A i \in StoredAs(h, AUX_TOKEN) : mustFindValueFor(h.aux, i) # NotFound
=============================================================================
