------------------------ MODULE ThetaHashTableProofs ------------------------
(***************************************************************************)
(* What the operators of ThetaHashTable do to an array of entries, for     *)
(* every size of the array and every set of summaries.  The search comes   *)
(* first: the probe sequence of a key meets every slot, so that a search   *)
(* ends where the key is or, if a slot is free, at a free one.  An array   *)
(* is searchable if every key is found where it is; filling the slot at    *)
(* which a search ended keeps it so, and with it the loops of resize() and *)
(* rebuild().  Then the iterator, the capacities and nth_element.          *)
(***************************************************************************)
EXTENDS ThetaHashTable, Arithmetic

Slots(lg) == 0 .. 2^lg - 1

Arrays(lg, S) == [Slots(lg) -> Nat \X S]

(* the entries of an array                                                 *)
Held(ent) == {ent[i] : i \in Used(ent)}

(* every key is found in its own slot                                      *)
Searchable(ent, lg) == \A i \in Used(ent) : SlotFor(ent, lg, extract_key(ent[i])) = i

-----------------------------------------------------------------------------
(* The probe sequence of a key stays in the table and, its stride being    *)
(* odd and the table a power of two, meets every slot.                     *)
LEMMA ProbeType ==
  ASSUME NEW lg \in Nat, NEW key \in Nat, NEW i \in Nat
  PROVE  Probe(key, lg, i) \in Slots(lg)
<1>1. 2^lg \in Nat \ {0} /\ 2^STRIDE_HASH_BITS \in Nat \ {0}
  BY PowerType DEF STRIDE_HASH_BITS
<1>2. get_stride(key, lg) \in Nat
  <2>1. PICK m \in Nat \ {0} : m = 2^STRIDE_HASH_BITS
    BY <1>1
  <2>2. PICK p \in Nat \ {0} : p = 2^lg
    BY <1>1
  <2>3. PICK x \in Nat : x = key \div p
    OBVIOUS
  <2>4. x % m \in Nat
    BY DivMod
  <2>. QED
    BY <2>1, <2>2, <2>3, <2>4 DEF get_stride
<1>3. key + i * get_stride(key, lg) \in Nat
  BY <1>2
<1>. QED
  BY <1>1, <1>3, DivMod DEF Probe, Slots

(* get_stride() returns an odd stride.                                     *)
LEMMA StrideOdd ==
  ASSUME NEW lg \in Nat, NEW key \in Nat
  PROVE  \E r \in Nat : get_stride(key, lg) = 2 * r + 1
<1>1. PICK m \in Nat \ {0} : m = 2^STRIDE_HASH_BITS
  BY PowerType DEF STRIDE_HASH_BITS
<1>2. PICK p \in Nat \ {0} : p = 2^lg
  BY PowerType
<1>3. PICK x \in Nat : x = key \div p
  OBVIOUS
<1>4. x % m \in Nat
  BY DivMod
<1>5. get_stride(key, lg) = 2 * (x % m) + 1
  BY <1>1, <1>2, <1>3 DEF get_stride
<1>. QED
  BY <1>4, <1>5

(* A probe sequence does not come back to a slot before it has made as     *)
(* many steps as there are slots.                                          *)
LEMMA ProbesDiffer ==
  ASSUME NEW lg \in Nat, NEW key \in Nat, NEW i \in Slots(lg), NEW j \in Slots(lg), i < j
  PROVE  Probe(key, lg, i) # Probe(key, lg, j)
<1>. SUFFICES ASSUME Probe(key, lg, i) = Probe(key, lg, j) PROVE FALSE
  OBVIOUS
<1>1. PICK r \in Nat : get_stride(key, lg) = 2 * r + 1
  BY StrideOdd
<1>2. PICK s \in Nat : s = 2 * r + 1
  OBVIOUS
<1>3. 2^lg \in Nat \ {0} /\ i \in Nat /\ j \in Nat /\ j < 2^lg
  BY PowerType DEF Slots
<1>4. PICK x \in Nat : x = key + i * s
  BY <1>3
<1>5. PICK y \in Nat : y = key + j * s
  BY <1>3
<1>6. PICK d \in Nat : d = j - i
  BY <1>3
<1>7. y - x = s * d
  BY <1>3, <1>4, <1>5, <1>6
<1>8. x <= y
  <2>1. s * d \in Nat
    OBVIOUS
  <2>. QED
    BY <1>7, <2>1
<1>9. x % 2^lg = y % 2^lg
  BY <1>1, <1>2, <1>4, <1>5 DEF Probe
<1>10. PICK q \in Nat : y - x = q * 2^lg
  BY <1>3, <1>8, <1>9, SameRemainder
<1>11. 0 < d /\ d < 2^lg
  BY <1>3, <1>6
<1>12. (2 * r + 1) * d = q * 2^lg
  BY <1>2, <1>7, <1>10
<1>. QED
  BY <1>11, <1>12, OddFactor

(* A probe sequence meets every slot of the table.                         *)
LEMMA ProbesMeetAll ==
  ASSUME NEW lg \in Nat, NEW key \in Nat, NEW slot \in Slots(lg)
  PROVE  \E i \in Slots(lg) : Probe(key, lg, i) = slot
<1>. DEFINE f == [i \in Slots(lg) |-> Probe(key, lg, i)]
<1>1. Slots(lg) \subseteq Nat
  BY DEF Slots
<1>2. f \in [Slots(lg) -> Slots(lg)]
  BY <1>1, ProbeType
<1>3. \A i, j \in Slots(lg) : f[i] = f[j] => i = j
  <2>. SUFFICES ASSUME NEW i \in Slots(lg), NEW j \in Slots(lg), i # j
                PROVE  Probe(key, lg, i) # Probe(key, lg, j)
    OBVIOUS
  <2>1. i < j \/ j < i
    BY <1>1
  <2>2. CASE i < j
    BY <2>2, ProbesDiffer
  <2>3. CASE j < i
    BY <2>3, ProbesDiffer
  <2>. QED
    BY <2>1, <2>2, <2>3
<1>4. IsFiniteSet(Slots(lg))
  BY PowerType, FS_Interval DEF Slots
<1>5. f \in Injection(Slots(lg), Slots(lg))
  BY <1>2, <1>3 DEF Injection, IsInjective
<1>. HIDE DEF f
<1>6. f \in Surjection(Slots(lg), Slots(lg))
  BY <1>4, <1>5, FS_Injection
<1>7. PICK i \in Slots(lg) : f[i] = slot
  BY <1>6 DEF Surjection
<1>. QED
  BY <1>7 DEF f

-----------------------------------------------------------------------------
(* i is where find() stops.                                                *)
FirstStop(ent, lg, key, i) ==
  /\ i \in Slots(lg) /\ StopsAt(ent, lg, key, i)
  /\ \A j \in 0 .. i - 1 : ~StopsAt(ent, lg, key, j)

(* SlotFor is the slot at which a probe sequence first stops.              *)
LEMMA FirstStopFound ==
  ASSUME NEW ent, NEW lg \in Nat, NEW key \in Nat, NEW i, FirstStop(ent, lg, key, i)
  PROVE  SlotFor(ent, lg, key) = Probe(key, lg, i)
<1>1. \A j \in Slots(lg) : FirstStop(ent, lg, key, j) => i = j
  <2>. SUFFICES ASSUME NEW j \in Slots(lg), FirstStop(ent, lg, key, j), i # j PROVE FALSE
    OBVIOUS
  <2>1. i \in Nat /\ j \in Nat
    BY DEF FirstStop, Slots
  <2>2. i < j \/ j < i
    BY <2>1
  <2>. QED
    BY <2>1, <2>2 DEF FirstStop
<1>2. (CHOOSE j \in 0 .. 2^lg - 1 :
         /\ StopsAt(ent, lg, key, j)
         /\ \A k \in 0 .. j - 1 : ~StopsAt(ent, lg, key, k)) = i
  BY <1>1 DEF FirstStop, Slots
<1>3. \E j \in 0 .. 2^lg - 1 : StopsAt(ent, lg, key, j)
  BY DEF FirstStop, Slots
<1>. QED
  BY <1>2, <1>3 DEF SlotFor

(* A probe sequence that stops somewhere has a first stop.                 *)
LEMMA FirstStopExists ==
  ASSUME NEW ent, NEW lg \in Nat, NEW key \in Nat, NEW k \in Slots(lg),
         StopsAt(ent, lg, key, k)
  PROVE  \E i \in Slots(lg) : FirstStop(ent, lg, key, i)
<1>. DEFINE T == {j \in Slots(lg) : StopsAt(ent, lg, key, j)}
<1>1. T \in SUBSET Nat /\ T # {}
  BY DEF Slots
<1>2. PICK i \in T : \A j \in T : i <= j
  BY <1>1, LeastNat
<1>3. i \in Slots(lg) /\ StopsAt(ent, lg, key, i)
  OBVIOUS
<1>4. ASSUME NEW j \in 0 .. i - 1 PROVE ~StopsAt(ent, lg, key, j)
  <2>1. 2^lg \in Nat /\ i \in Nat /\ i < 2^lg
    BY <1>3, PowerType DEF Slots
  <2>2. j \in Slots(lg) /\ j < i
    BY <2>1 DEF Slots
  <2>. QED
    BY <1>2, <2>1, <2>2
<1>. QED
  BY <1>3, <1>4 DEF FirstStop

-----------------------------------------------------------------------------
(* The used slots of an array, and when one is free.                       *)
LEMMA UsedSlots ==
  ASSUME NEW lg \in Nat, NEW S, NEW ent \in Arrays(lg, S)
  PROVE  /\ DOMAIN ent = Slots(lg) /\ Used(ent) \in SUBSET Slots(lg)
         /\ \A i \in Slots(lg) : /\ extract_key(ent[i]) \in Nat
                                 /\ i \in Used(ent) <=> extract_key(ent[i]) # 0
         /\ IsFiniteSet(Used(ent)) /\ Cardinality(Used(ent)) \in Nat
         /\ Cardinality(Used(ent)) <= 2^lg
         /\ Cardinality(Used(ent)) < 2^lg <=> Used(ent) # Slots(lg)
<1>1. DOMAIN ent = Slots(lg) /\ Used(ent) \in SUBSET Slots(lg)
  BY DEF Arrays, Used
<1>2. \A i \in Slots(lg) : /\ extract_key(ent[i]) \in Nat
                           /\ i \in Used(ent) <=> extract_key(ent[i]) # 0
  BY DEF Arrays, Used, extract_key
<1>3. IsFiniteSet(Slots(lg)) /\ Cardinality(Slots(lg)) = 2^lg
  <2>1. 2^lg \in Nat \ {0}
    BY PowerType
  <2>2. 2^lg - 1 \in Int /\ ~(0 > 2^lg - 1) /\ (2^lg - 1) - 0 + 1 = 2^lg
    BY <2>1
  <2>. QED
    BY <2>2, FS_Interval DEF Slots
<1>4. /\ IsFiniteSet(Used(ent)) /\ Cardinality(Used(ent)) \in Nat
      /\ Cardinality(Used(ent)) <= 2^lg
      /\ Cardinality(Used(ent)) = 2^lg <=> Used(ent) = Slots(lg)
  BY <1>1, <1>3, FS_Subset, FS_CardinalityType
<1>. QED
  BY <1>1, <1>2, <1>4, PowerType

(* find() ends at a slot as long as there is a free one, and then at the   *)
(* key or at a free slot.                                                  *)
LEMMA SearchEnds ==
  ASSUME NEW lg \in Nat, NEW S, NEW ent \in Arrays(lg, S), NEW key \in Nat
  PROVE  /\ Used(ent) # Slots(lg) => SlotFor(ent, lg, key) \in Slots(lg)
         /\ SlotFor(ent, lg, key) \in Slots(lg) <=> SlotFor(ent, lg, key) # NoSlot(lg)
         /\ SlotFor(ent, lg, key) \in Slots(lg) =>
              extract_key(ent[SlotFor(ent, lg, key)]) \in {0, key}
<1>0. NoSlot(lg) \notin Slots(lg)
  BY PowerType DEF NoSlot, Slots
<1>1. CASE \E k \in Slots(lg) : StopsAt(ent, lg, key, k)
  <2>1. PICK i \in Slots(lg) : FirstStop(ent, lg, key, i)
    BY <1>1, FirstStopExists
  <2>2. SlotFor(ent, lg, key) = Probe(key, lg, i)
    BY <2>1, FirstStopFound
  <2>3. Probe(key, lg, i) \in Slots(lg)
    <3>1. i \in Nat
      BY DEF Slots
    <3>. QED
      BY <3>1, ProbeType
  <2>4. extract_key(ent[Probe(key, lg, i)]) \in {0, key}
    BY <2>1 DEF FirstStop, StopsAt
  <2>. QED
    BY <1>0, <2>2, <2>3, <2>4
<1>2. CASE ~\E k \in Slots(lg) : StopsAt(ent, lg, key, k)
  <2>1. SlotFor(ent, lg, key) = NoSlot(lg)
    BY <1>2 DEF SlotFor, Slots
  <2>2. ASSUME NEW slot \in Slots(lg) PROVE slot \in Used(ent)
    <3>1. PICK i \in Slots(lg) : Probe(key, lg, i) = slot
      BY ProbesMeetAll
    <3>2. extract_key(ent[slot]) # 0
      BY <1>2, <3>1 DEF StopsAt
    <3>. QED
      BY <3>2, UsedSlots
  <2>3. Used(ent) = Slots(lg)
    BY <2>2, UsedSlots
  <2>. QED
    BY <1>0, <2>1, <2>3
<1>. QED
  BY <1>1, <1>2

(* In a searchable array find() ends at the key when it is there, and      *)
(* keys are not repeated.                                                  *)
LEMMA SearchFinds ==
  ASSUME NEW lg \in Nat, NEW S, NEW ent \in Arrays(lg, S), NEW key \in Nat \ {0},
         Searchable(ent, lg)
  PROVE  /\ \A i \in Used(ent) : extract_key(ent[i]) = key => SlotFor(ent, lg, key) = i
         /\ (/\ SlotFor(ent, lg, key) \in Slots(lg)
             /\ \A i \in Used(ent) : extract_key(ent[i]) # key)
              => SlotFor(ent, lg, key) \in Slots(lg) \ Used(ent)
<1>1. \A i \in Used(ent) : extract_key(ent[i]) = key => SlotFor(ent, lg, key) = i
  BY DEF Searchable
<1>2. ASSUME SlotFor(ent, lg, key) \in Slots(lg),
             \A i \in Used(ent) : extract_key(ent[i]) # key
      PROVE  SlotFor(ent, lg, key) \notin Used(ent)
  <2>1. extract_key(ent[SlotFor(ent, lg, key)]) \in {0, key}
    BY <1>2, SearchEnds
  <2>. QED
    BY <1>2, <2>1, UsedSlots
<1>. QED
  BY <1>1, <1>2

(***************************************************************************)
(* Filling the free slot at which the search for a key ends keeps every    *)
(* other key where its search ends: no probe sequence passed that slot.    *)
(***************************************************************************)
LEMMA FillKeepsSearchable ==
  ASSUME NEW lg \in Nat, NEW S, NEW ent \in Arrays(lg, S), Searchable(ent, lg),
         NEW e \in Nat \X S, extract_key(e) # 0,
         NEW at \in Slots(lg) \ Used(ent), at = SlotFor(ent, lg, extract_key(e)),
         NEW new \in Arrays(lg, S), new[at] = e,
         \A i \in Slots(lg) : i # at => new[i] = ent[i]
  PROVE  /\ Searchable(new, lg)
         /\ Used(new) = Used(ent) \cup {at}
         /\ Held(new) = Held(ent) \cup {e}
<1>. DEFINE key == extract_key(e)
<1>1. key \in Nat /\ key # 0
  BY DEF extract_key
<1>2. at \in Slots(lg) /\ at \notin Used(ent)
  OBVIOUS
<1>3. new[at] = e /\ \A i \in Slots(lg) : i # at => new[i] = ent[i]
  OBVIOUS
<1>4. Used(new) = Used(ent) \cup {at}
  <2>1. /\ Used(new) \subseteq Slots(lg) /\ Used(ent) \subseteq Slots(lg)
        /\ \A i \in Slots(lg) : i \in Used(ent) <=> extract_key(ent[i]) # 0
        /\ \A i \in Slots(lg) : i \in Used(new) <=> extract_key(new[i]) # 0
    BY <1>3, UsedSlots
  <2>. QED
    BY <1>1, <1>2, <1>3, <2>1
<1>5. \A i \in Used(ent) : i \in Slots(lg) /\ i # at /\ new[i] = ent[i]
  BY <1>2, <1>3, UsedSlots
<1>6. Held(new) = Held(ent) \cup {e}
  BY <1>3, <1>4, <1>5 DEF Held
<1>7. SlotFor(new, lg, key) = at
  <2>1. \E k \in Slots(lg) : StopsAt(ent, lg, key, k)
    BY <1>2, PowerType DEF SlotFor, Slots, NoSlot
  <2>2. PICK i \in Slots(lg) : FirstStop(ent, lg, key, i)
    BY <1>1, <2>1, FirstStopExists
  <2>3. at = Probe(key, lg, i)
    BY <1>1, <2>2, FirstStopFound
  <2>4. i \in Nat
    BY DEF Slots
  <2>5. ASSUME NEW j \in 0 .. i - 1 PROVE ~StopsAt(new, lg, key, j)
    <3>1. Probe(key, lg, j) # at
      <4>1. j \in Slots(lg) /\ j < i
        BY <2>4, PowerType DEF Slots
      <4>. QED
        BY <1>1, <2>3, <4>1, ProbesDiffer
    <3>2. Probe(key, lg, j) \in Slots(lg)
      BY <1>1, <2>4, ProbeType
    <3>3. ~StopsAt(ent, lg, key, j)
      BY <2>2 DEF FirstStop
    <3>. QED
      BY <1>3, <3>1, <3>2, <3>3 DEF StopsAt
  <2>6. StopsAt(new, lg, key, i)
    BY <1>3, <2>3 DEF StopsAt
  <2>7. FirstStop(new, lg, key, i)
    BY <2>5, <2>6 DEF FirstStop
  <2>. QED
    BY <1>1, <2>3, <2>7, FirstStopFound
<1>8. ASSUME NEW i \in Used(ent) PROVE SlotFor(new, lg, extract_key(ent[i])) = i
  <2>. DEFINE k == extract_key(ent[i])
  <2>1. k \in Nat /\ i \in Slots(lg) /\ k # 0
    BY UsedSlots
  <2>2. SlotFor(ent, lg, k) = i
    BY DEF Searchable
  <2>. HIDE DEF k
  <2>3. \E m \in Slots(lg) : StopsAt(ent, lg, k, m)
    BY <2>1, <2>2, PowerType DEF SlotFor, Slots, NoSlot
  <2>4. PICK m \in Slots(lg) : FirstStop(ent, lg, k, m)
    BY <2>1, <2>3, FirstStopExists
  <2>5. i = Probe(k, lg, m)
    BY <2>1, <2>2, <2>4, FirstStopFound
  <2>6. m \in Nat
    BY DEF Slots
  <2>7. StopsAt(new, lg, k, m)
    BY <1>5, <2>4, <2>5 DEF FirstStop, StopsAt
  <2>8. k # key
    <3>1. ASSUME k = key PROVE FALSE
      BY <1>2, <2>2, <3>1
    <3>. QED
      BY <3>1
  <2>9. ASSUME NEW j \in 0 .. m - 1 PROVE ~StopsAt(new, lg, k, j)
    <3>1. Probe(k, lg, j) \in Slots(lg)
      BY <2>1, <2>6, ProbeType
    <3>2. ~StopsAt(ent, lg, k, j)
      BY <2>4 DEF FirstStop
    <3>3. CASE Probe(k, lg, j) = at
      BY <1>1, <1>3, <2>8, <3>3 DEF StopsAt
    <3>4. CASE Probe(k, lg, j) # at
      BY <1>3, <3>1, <3>2, <3>4 DEF StopsAt
    <3>. QED
      BY <3>3, <3>4
  <2>10. FirstStop(new, lg, k, m)
    BY <2>7, <2>9 DEF FirstStop
  <2>11. SlotFor(new, lg, k) = i
    BY <2>1, <2>5, <2>10, FirstStopFound
  <2>. QED
    BY <2>11 DEF k
<1>9. Searchable(new, lg)
  BY <1>3, <1>4, <1>5, <1>7, <1>8 DEF Searchable
<1>. QED
  BY <1>3, <1>4, <1>6, <1>9

(* What find() returns depends on the keys of the array only.              *)
LEMMA SameKeysSearchable ==
  ASSUME NEW lg \in Nat, NEW S, NEW ent \in Arrays(lg, S), NEW new \in Arrays(lg, S),
         \A i \in Slots(lg) : extract_key(new[i]) = extract_key(ent[i]), Searchable(ent, lg)
  PROVE  Used(new) = Used(ent) /\ Searchable(new, lg)
<1>1. Used(new) = Used(ent)
  BY DEF Used, Arrays
<1>2. ASSUME NEW key \in Nat, NEW i, FirstStop(ent, lg, key, i)
      PROVE  FirstStop(new, lg, key, i)
  <2>1. i \in Nat /\ \A j \in 0 .. i : j \in Nat
    BY <1>2 DEF FirstStop, Slots
  <2>2. \A j \in 0 .. i : StopsAt(new, lg, key, j) <=> StopsAt(ent, lg, key, j)
    BY <2>1, ProbeType DEF StopsAt
  <2>. QED
    BY <1>2, <2>1, <2>2 DEF FirstStop
<1>3. ASSUME NEW i \in Used(new) PROVE SlotFor(new, lg, extract_key(new[i])) = i
  <2>1. PICK key \in Nat : key = extract_key(ent[i]) /\ i \in Slots(lg)
    BY <1>1, UsedSlots
  <2>2. SlotFor(ent, lg, key) = i
    BY <1>1, <2>1 DEF Searchable
  <2>3. \E m \in Slots(lg) : StopsAt(ent, lg, key, m)
    BY <2>1, <2>2, PowerType DEF SlotFor, Slots, NoSlot
  <2>4. PICK m \in Slots(lg) : FirstStop(ent, lg, key, m)
    BY <2>3, FirstStopExists
  <2>5. SlotFor(new, lg, key) = Probe(key, lg, m)
    BY <1>2, <2>4, FirstStopFound
  <2>6. i = Probe(key, lg, m)
    BY <2>2, <2>4, FirstStopFound
  <2>. QED
    BY <2>1, <2>5, <2>6
<1>. QED
  BY <1>1, <1>3 DEF Searchable

-----------------------------------------------------------------------------
(* The loops of resize() and rebuild(), one entry at a time: f[n] is the   *)
(* array after n of them.                                                  *)
Replays(f, entries, lg) ==
  /\ f[0] = NoEntries(lg)
  /\ \A n \in 1 .. Len(entries) : f[n] = Place(f[n - 1], lg, entries[n])

(***************************************************************************)
(* The recursive function in Rehash exists and satisfies its recursion     *)
(* equation. A larger and larger part of it is built by the least          *)
(* counterexample.                                                         *)
(***************************************************************************)
LEMMA RehashUnfolds ==
  ASSUME NEW lg, NEW entries, Len(entries) \in Nat
  PROVE  \E f : Replays(f, entries, lg) /\ Rehash(entries, lg) = f[Len(entries)]
<1>. DEFINE Step(f, n) == IF n = 0 THEN NoEntries(lg) ELSE Place(f[n - 1], lg, entries[n])
            Bad == {m \in Nat : ~\E f : f = [n \in 0 .. m |-> Step(f, n)]}
<1>1. Bad = {}
  <2>. SUFFICES ASSUME Bad # {} PROVE FALSE
    OBVIOUS
  <2>1. PICK m \in Bad : \A j \in Bad : m <= j
    BY LeastNat
  <2>2. m \in Nat
    OBVIOUS
  <2>3. CASE m = 0
    <3>. DEFINE f == [n \in 0 .. 0 |-> NoEntries(lg)]
    <3>1. f = [n \in 0 .. 0 |-> Step(f, n)]
      OBVIOUS
    <3>. QED
      BY <2>3, <3>1
  <2>4. CASE m # 0
    <3>1. m - 1 \in Nat /\ m - 1 \notin Bad
      <4>1. m - 1 \in Nat /\ ~(m <= m - 1)
        BY <2>2, <2>4
      <4>. QED
        BY <2>1, <4>1
    <3>2. PICK f : f = [n \in 0 .. m - 1 |-> Step(f, n)]
      BY <3>1
    <3>. DEFINE g == [n \in 0 .. m |->
                        IF n = m THEN Place(f[m - 1], lg, entries[m]) ELSE f[n]]
    <3>3. ASSUME NEW n \in 0 .. m PROVE g[n] = Step(g, n)
      <4>1. CASE n = 0
        BY <2>2, <2>4, <3>2, <4>1
      <4>2. CASE n # 0
        <5>1. n - 1 \in 0 .. m - 1 /\ n - 1 \in 0 .. m /\ n - 1 # m
          BY <2>2, <4>2
        <5>2. g[n - 1] = f[n - 1]
          BY <5>1
        <5>3. Step(g, n) = Place(f[n - 1], lg, entries[n])
          BY <4>2, <5>2
        <5>4. CASE n = m
          BY <5>3, <5>4
        <5>5. CASE n # m
          <6>1. n \in 0 .. m - 1
            BY <2>2, <5>5
          <6>2. f[n] = Place(f[n - 1], lg, entries[n])
            BY <3>2, <4>2, <6>1
          <6>. QED
            BY <5>3, <5>5, <6>2
        <5>. QED
          BY <5>4, <5>5
      <4>. QED
        BY <4>1, <4>2
    <3>4. g = [n \in 0 .. m |-> Step(g, n)]
      BY <3>3
    <3>. QED
      BY <2>2, <3>4
  <2>. QED
    BY <2>3, <2>4
<1>2. \E f : f = [n \in 0 .. Len(entries) |-> Step(f, n)]
  BY <1>1
<1>. DEFINE f == CHOOSE f : f = [n \in 0 .. Len(entries) |-> Step(f, n)]
<1>3. f = [n \in 0 .. Len(entries) |-> Step(f, n)]
  BY <1>2
<1>4. Rehash(entries, lg) = f[Len(entries)]
  BY DEF Rehash
<1>. HIDE DEF f
<1>5. f[0] = NoEntries(lg)
  BY <1>3
<1>6. ASSUME NEW n \in 1 .. Len(entries) PROVE f[n] = Place(f[n - 1], lg, entries[n])
  BY <1>3
<1>. QED
  BY <1>4, <1>5, <1>6 DEF Replays

(* A cleared array is searchable.                                          *)
LEMMA NoEntriesSearchable ==
  ASSUME NEW lg \in Nat, NEW S, NoSummary \in S
  PROVE  /\ NoEntries(lg) \in Arrays(lg, S) /\ Used(NoEntries(lg)) = {}
         /\ Searchable(NoEntries(lg), lg)
<1>1. NoEntries(lg) \in Arrays(lg, S)
  BY DEF NoEntries, Arrays, Slots, Entry
<1>2. Used(NoEntries(lg)) = {}
  BY DEF Used, NoEntries, Entry, extract_key
<1>. QED
  BY <1>1, <1>2 DEF Searchable

(* an entry goes into the free slot at which the search for its key ends   *)
LEMMA PlaceSearchable ==
  ASSUME NEW lg \in Nat, NEW S, NEW ent \in Arrays(lg, S), Searchable(ent, lg),
         Used(ent) # Slots(lg), NEW e \in (Nat \ {0}) \X S,
         \A i \in Used(ent) : extract_key(ent[i]) # extract_key(e)
  PROVE  /\ Place(ent, lg, e) \in Arrays(lg, S) /\ Searchable(Place(ent, lg, e), lg)
         /\ Cardinality(Used(Place(ent, lg, e))) = Cardinality(Used(ent)) + 1
         /\ Held(Place(ent, lg, e)) = Held(ent) \cup {e}
<1>1. extract_key(e) \in Nat \ {0} /\ e \in Nat \X S
  BY DEF extract_key
<1>2. PICK at \in Slots(lg) : at = SlotFor(ent, lg, extract_key(e))
  BY <1>1, SearchEnds
<1>3. at \in Slots(lg) \ Used(ent) /\ at # NoSlot(lg)
  BY <1>1, <1>2, SearchFinds, SearchEnds
<1>4. PICK new : new = [ent EXCEPT ![at] = e]
  OBVIOUS
<1>5. Place(ent, lg, e) = new
  BY <1>2, <1>3, <1>4 DEF Place, find, Result
<1>6. /\ new \in Arrays(lg, S) /\ new[at] = e
      /\ \A i \in Slots(lg) : i # at => new[i] = ent[i]
  BY <1>1, <1>4 DEF Arrays
<1>8. /\ Searchable(new, lg)
      /\ Used(new) = Used(ent) \cup {at}
      /\ Held(new) = Held(ent) \cup {e}
  BY <1>1, <1>2, <1>3, <1>6, FillKeepsSearchable
<1>7. Cardinality(Used(ent) \cup {at}) = Cardinality(Used(ent)) + 1
  BY <1>3, UsedSlots, FS_AddElement
<1>. QED
  BY <1>5, <1>6, <1>7, <1>8

(***************************************************************************)
(* Re-inserting entries with different keys, no more than there are slots, *)
(* gives an array in which each of them is found.                          *)
(***************************************************************************)
Listed(entries, n) == {entries[i] : i \in 1 .. n}

(* A sequence without repeated keys.                                       *)
IsList(entries, n, S) ==
  /\ n \in Nat /\ Len(entries) = n
  /\ \A i \in 1 .. n : entries[i] \in (Nat \ {0}) \X S
  /\ \A i, j \in 1 .. n : extract_key(entries[i]) = extract_key(entries[j]) => i = j

(***************************************************************************)
(* The loops of resize() and rebuild(): entries with different keys, not   *)
(* more than there are slots, all find a slot, and the array they make is  *)
(* searchable and holds just these entries. By induction on the entries    *)
(* placed so far.                                                          *)
(***************************************************************************)
LEMMA RehashSearchable ==
  ASSUME NEW lg \in Nat, NEW S, NoSummary \in S, NEW entries, NEW n \in Nat,
         IsList(entries, n, S), n <= 2^lg
  PROVE  /\ Rehash(entries, lg) \in Arrays(lg, S) /\ Searchable(Rehash(entries, lg), lg)
         /\ Cardinality(Used(Rehash(entries, lg))) = n
         /\ Held(Rehash(entries, lg)) = Listed(entries, n)
<1>0. /\ Len(entries) = n
      /\ \A i \in 1 .. n : entries[i] \in (Nat \ {0}) \X S
      /\ \A i, j \in 1 .. n : extract_key(entries[i]) = extract_key(entries[j]) => i = j
  BY DEF IsList
<1>1. PICK f : Replays(f, entries, lg) /\ Rehash(entries, lg) = f[n]
  BY <1>0, RehashUnfolds
<1>. DEFINE Good(k) == /\ f[k] \in Arrays(lg, S) /\ Searchable(f[k], lg)
                       /\ Cardinality(Used(f[k])) = k
                       /\ Held(f[k]) = Listed(entries, k)
            Bad == {k \in 0 .. n : ~Good(k)}
<1>2. Good(0)
  <2>1. f[0] = NoEntries(lg)
    BY <1>1 DEF Replays
  <2>2. Listed(entries, 0) = {}
    BY DEF Listed
  <2>3. Held(NoEntries(lg)) = {}
    BY NoEntriesSearchable DEF Held
  <2>4. /\ NoEntries(lg) \in Arrays(lg, S) /\ Searchable(NoEntries(lg), lg)
        /\ Cardinality(Used(NoEntries(lg))) = 0
    BY NoEntriesSearchable, FS_EmptySet
  <2>. QED
    BY <2>1, <2>2, <2>3, <2>4
<1>3. ASSUME NEW k \in 0 .. n, k < n, Good(k)
      PROVE  Good(k + 1)
  <2>1. k + 1 \in 1 .. n /\ k + 1 # 0 /\ (k + 1) - 1 = k
    BY <1>3
  <2>2. PICK e \in (Nat \ {0}) \X S : e = entries[k + 1]
    BY <1>0, <2>1
  <2>3. f[k + 1] = Place(f[k], lg, e)
    BY <1>0, <1>1, <2>1, <2>2 DEF Replays
  <2>4. Used(f[k]) # Slots(lg)
    <3>1. 2^lg \in Nat /\ k < 2^lg
      BY <1>3, PowerType
    <3>. QED
      BY <1>3, <3>1, UsedSlots
  <2>5. ASSUME NEW i \in Used(f[k]) PROVE extract_key(f[k][i]) # extract_key(e)
    <3>1. f[k][i] \in Listed(entries, k)
      BY <1>3 DEF Held
    <3>2. PICK j \in 1 .. k : f[k][i] = entries[j]
      BY <3>1 DEF Listed
    <3>3. j \in 1 .. n /\ j # k + 1
      BY <1>3
    <3>. QED
      BY <1>0, <2>1, <2>2, <3>2, <3>3
  <2>6. Listed(entries, k + 1) = Listed(entries, k) \cup {e}
    <3>1. 1 .. k + 1 = (1 .. k) \cup {k + 1}
      OBVIOUS
    <3>. QED
      BY <2>2, <3>1 DEF Listed
  <2>7. /\ Place(f[k], lg, e) \in Arrays(lg, S) /\ Searchable(Place(f[k], lg, e), lg)
        /\ Cardinality(Used(Place(f[k], lg, e))) = Cardinality(Used(f[k])) + 1
        /\ Held(Place(f[k], lg, e)) = Held(f[k]) \cup {e}
    BY <1>3, <2>4, <2>5, PlaceSearchable
  <2>. QED
    BY <1>3, <2>3, <2>6, <2>7
<1>4. Bad = {}
  <2>. SUFFICES ASSUME Bad # {} PROVE FALSE
    OBVIOUS
  <2>1. Bad \in SUBSET Nat
    OBVIOUS
  <2>2. PICK m \in Bad : \A j \in Bad : m <= j
    BY <2>1, LeastNat
  <2>3. m \in 0 .. n /\ ~Good(m)
    OBVIOUS
  <2>. HIDE DEF Good
  <2>4. m # 0
    BY <1>2, <2>3
  <2>5. m - 1 \in 0 .. n /\ m - 1 < n /\ m - 1 \notin Bad /\ (m - 1) + 1 = m
    BY <2>2, <2>3, <2>4
  <2>6. Good(m - 1)
    BY <2>5
  <2>. QED
    BY <1>3, <2>3, <2>5, <2>6
<1>5. Good(n)
  <2>. HIDE DEF Good
  <2>1. n \in 0 .. n
    OBVIOUS
  <2>. QED
    BY <1>4, <2>1
<1>. QED
  BY <1>1, <1>5
-----------------------------------------------------------------------------
(* In a searchable array no key occurs twice.                              *)
LEMMA KeysDiffer ==
  ASSUME NEW lg \in Nat, NEW S, NEW ent \in Arrays(lg, S), Searchable(ent, lg),
         NEW i \in Used(ent), NEW j \in Used(ent), extract_key(ent[i]) = extract_key(ent[j])
  PROVE  i = j
<1>1. SlotFor(ent, lg, extract_key(ent[i])) = i /\ SlotFor(ent, lg, extract_key(ent[j])) = j
  BY DEF Searchable
<1>. QED
  BY <1>1

(* OfRank is the element of its rank.                                      *)
LEMMA OfRankSpec ==
  ASSUME NEW U \in SUBSET Nat, IsFiniteSet(U), NEW n \in Nat, n < Cardinality(U)
  PROVE  OfRank(U, n) \in U /\ Cardinality(LessIn(U, OfRank(U, n))) = n
<1>1. \E e \in U : Cardinality({j \in U : j < e}) = n
  BY RankExists DEF LessIn
<1>. QED
  BY <1>1 DEF OfRank, LessIn

(* The iterator visits every entry once.                                   *)
LEMMA InOrderLists ==
  ASSUME NEW lg \in Nat, NEW S, NEW ent \in Arrays(lg, S), Searchable(ent, lg),
         NEW n \in Nat, n = Cardinality(Used(ent))
  PROVE  /\ IsList(InOrder(ent, Used(ent)), n, S)
         /\ Listed(InOrder(ent, Used(ent)), n) = Held(ent)
         /\ InOrder(ent, Used(ent)) \in [1 .. n -> Nat \X S]
<1>. DEFINE U == Used(ent)
            Slot(k) == OfRank(U, k - 1)
            s == [k \in 1 .. n |-> ent[Slot(k)]]
<1>0. InOrder(ent, U) = s
  BY DEF InOrder
<1>1. /\ U \in SUBSET Slots(lg) /\ IsFiniteSet(U)
      /\ \A i \in U : extract_key(ent[i]) # 0
  BY UsedSlots
<1>2. U \in SUBSET Nat /\ \A i \in U : ent[i] \in Nat \X S
  BY <1>1 DEF Slots, Arrays
<1>3. ASSUME NEW k \in 1 .. n
      PROVE  Slot(k) \in U /\ Cardinality(LessIn(U, Slot(k))) = k - 1
  <2>1. k - 1 \in Nat /\ k - 1 < n
    OBVIOUS
  <2>. HIDE DEF U
  <2>. QED
    BY <1>1, <1>2, <2>1, OfRankSpec DEF U
<1>4. ASSUME NEW i \in U
      PROVE  \E k \in 1 .. n : Slot(k) = i
  <2>. DEFINE q == Cardinality(LessIn(U, i))
  <2>. HIDE DEF U
  <2>1. q \in Nat /\ q < Cardinality(U)
    BY <1>1, <1>2, RankBelow
  <2>2. OfRank(U, q) \in U /\ Cardinality(LessIn(U, OfRank(U, q))) = q
    BY <1>1, <1>2, <2>1, OfRankSpec
  <2>3. OfRank(U, q) = i
    BY <1>1, <1>2, <2>2, RankUnique
  <2>4. q + 1 \in 1 .. n /\ (q + 1) - 1 = q
    BY <2>1 DEF U
  <2>. HIDE DEF q
  <2>. QED
    BY <2>3, <2>4
<1>. HIDE DEF U, Slot
<1>5. s \in [1 .. n -> Nat \X S] /\ \A k \in 1 .. n : s[k] = ent[Slot(k)]
  BY <1>2, <1>3
<1>6. \A k \in 1 .. n : s[k] \in (Nat \ {0}) \X S
  <2>. TAKE k \in 1 .. n
  <2>1. s[k] = ent[Slot(k)] /\ ent[Slot(k)] \in Nat \X S /\ extract_key(ent[Slot(k)]) # 0
    BY <1>1, <1>2, <1>3
  <2>. QED
    BY <2>1 DEF extract_key
<1>7. ASSUME NEW i \in 1 .. n, NEW j \in 1 .. n, extract_key(s[i]) = extract_key(s[j])
      PROVE  i = j
  <2>1. Slot(i) = Slot(j)
    BY <1>3, <1>5, <1>7, KeysDiffer DEF U
  <2>2. i - 1 = j - 1
    BY <1>3, <2>1
  <2>. QED
    BY <2>2
<1>8. Len(s) = n
  OBVIOUS
<1>9. Listed(s, n) = Held(ent)
  <2>1. ASSUME NEW e \in Listed(s, n) PROVE e \in Held(ent)
    <3>1. PICK k \in 1 .. n : e = s[k]
      BY DEF Listed
    <3>. QED
      BY <1>3, <1>5, <3>1 DEF Held, U
  <2>2. ASSUME NEW e \in Held(ent) PROVE e \in Listed(s, n)
    <3>1. PICK i \in U : e = ent[i]
      BY DEF Held, U
    <3>2. PICK k \in 1 .. n : Slot(k) = i
      BY <1>4
    <3>. QED
      BY <1>5, <3>1, <3>2 DEF Listed
  <2>. QED
    BY <2>1, <2>2
<1>. QED
  BY <1>0, <1>5, <1>6, <1>7, <1>8, <1>9 DEF IsList, U

(***************************************************************************)
(* A table filled to its capacity has a free slot. At its final size the   *)
(* capacity is at least nominal_size, so that rebuild() has its pivot, and *)
(* below it the capacity is less, so that trim() finds nothing to do.      *)
(***************************************************************************)
LEMMA CapacityFits ==
  ASSUME NEW nom \in Nat, NEW lg \in 1 .. nom + 1
  PROVE  /\ get_capacity(lg, nom) \in Nat /\ get_capacity(lg, nom) < 2^lg
         /\ lg = nom + 1 => 2^lg = 2 * 2^nom /\ 2^nom <= get_capacity(lg, nom)
         /\ lg <= nom => get_capacity(lg, nom) < 2^nom
<1>1. lg \in Nat /\ lg - 1 \in Nat /\ (lg - 1) + 1 = lg
  OBVIOUS
<1>2. PICK p \in Nat \ {0} : p = 2^(lg - 1)
  BY <1>1, PowerType
<1>3. PICK q \in Nat \ {0} : q = 2^lg
  BY <1>1, PowerType
<1>4. q = 2 * p
  BY <1>1, <1>2, <1>3, PowerNext
<1>5. q \div 2 = p
  BY <1>4
<1>6. (15 * q) \div 16 \in Nat /\ (15 * q) \div 16 < q /\ p <= (15 * q) \div 16
  BY <1>4
<1>7. CASE lg <= nom
  <2>1. get_capacity(lg, nom) = p
    BY <1>3, <1>5, <1>7 DEF get_capacity
  <2>2. 2^lg <= 2^nom /\ 2^nom \in Nat
    BY <1>1, <1>7, PowerGrows, PowerType
  <2>. QED
    BY <1>3, <1>4, <1>7, <2>1, <2>2
<1>8. CASE lg = nom + 1
  <2>1. get_capacity(lg, nom) = (15 * q) \div 16
    BY <1>3, <1>8 DEF get_capacity
  <2>2. p = 2^nom
    BY <1>2, <1>8
  <2>. QED
    BY <1>3, <1>4, <1>6, <1>8, <2>1, <2>2
<1>. QED
  BY <1>7, <1>8

(* A larger table has room for the entry that made it necessary.           *)
LEMMA CapacityGrows ==
  ASSUME NEW nom \in Nat, NEW lg \in 1 .. nom, NEW new \in lg + 1 .. nom + 1
  PROVE  get_capacity(lg, nom) + 1 <= get_capacity(new, nom)
<1>1. /\ lg \in Nat /\ new \in Nat /\ lg - 1 \in Nat /\ (lg - 1) + 1 = lg
      /\ lg + 1 \in Nat /\ lg + 1 <= new
  OBVIOUS
<1>2. PICK p \in Nat \ {0} : p = 2^(lg - 1)
  BY <1>1, PowerType
<1>3. 2^lg = 2 * p
  BY <1>1, <1>2, PowerNext
<1>4. 2^(lg + 1) = 4 * p
  BY <1>1, <1>3, PowerNext
<1>5. PICK q \in Nat \ {0} : q = 2^new
  BY <1>1, PowerType
<1>6. 4 * p <= q
  BY <1>1, <1>4, <1>5, PowerGrows
<1>7. get_capacity(lg, nom) = p
  <2>1. (2 * p) \div 2 = p
    OBVIOUS
  <2>. QED
    BY <1>3, <2>1 DEF get_capacity
<1>8. q \div 2 >= p + 1 /\ (15 * q) \div 16 >= p + 1
  BY <1>6
<1>. QED
  BY <1>5, <1>7, <1>8 DEF get_capacity

(* A finite set of entries without repeated keys.                          *)
IsMap(E, S) ==
  /\ E \in SUBSET ((Nat \ {0}) \X S) /\ IsFiniteSet(E)
  /\ \A d, e \in E : extract_key(d) = extract_key(e) => d = e

KeysOf(E) == {extract_key(e) : e \in E}

(* The entries of a searchable array have different keys, and there are as *)
(* many of them as used slots.                                             *)
LEMMA HeldIsMap ==
  ASSUME NEW lg \in Nat, NEW S, NEW ent \in Arrays(lg, S), Searchable(ent, lg)
  PROVE  IsMap(Held(ent), S) /\ Cardinality(Held(ent)) = Cardinality(Used(ent))
<1>1. /\ Used(ent) \in SUBSET Slots(lg) /\ IsFiniteSet(Used(ent))
      /\ \A i \in Used(ent) : extract_key(ent[i]) # 0
  BY UsedSlots
<1>2. \A i \in Used(ent) : ent[i] \in Nat \X S
  BY <1>1 DEF Arrays
<1>. DEFINE f == [i \in Used(ent) |-> ent[i]]
<1>3. f \in Bijection(Used(ent), Held(ent))
  <2>1. f \in [Used(ent) -> Held(ent)]
    BY DEF Held
  <2>2. \A i, j \in Used(ent) : f[i] = f[j] => i = j
    BY KeysDiffer
  <2>3. \A e \in Held(ent) : \E i \in Used(ent) : f[i] = e
    BY DEF Held
  <2>. HIDE DEF f
  <2>. QED
    BY <2>1, <2>2, <2>3, Zenon DEF Bijection, Injection, Surjection, IsInjective
<1>4. IsFiniteSet(Held(ent)) /\ Cardinality(Held(ent)) = Cardinality(Used(ent))
  <2>. HIDE DEF f
  <2>. QED
    BY <1>1, <1>3, FS_Bijection DEF ExistsBijection
<1>5. Held(ent) \in SUBSET ((Nat \ {0}) \X S)
  <2>. SUFFICES ASSUME NEW i \in Used(ent) PROVE ent[i] \in (Nat \ {0}) \X S
    BY DEF Held
  <2>. QED
    BY <1>1, <1>2 DEF extract_key
<1>6. \A d, e \in Held(ent) : extract_key(d) = extract_key(e) => d = e
  BY KeysDiffer DEF Held
<1>. QED
  BY <1>4, <1>5, <1>6 DEF IsMap

(* Entries with different keys are as many as their keys.                  *)
LEMMA KeysBijection ==
  ASSUME NEW S, NEW E, IsMap(E, S)
  PROVE  /\ KeysOf(E) \in SUBSET Nat /\ 0 \notin KeysOf(E)
         /\ IsFiniteSet(KeysOf(E)) /\ Cardinality(KeysOf(E)) = Cardinality(E)
<1>1. \A e \in E : extract_key(e) \in Nat \ {0}
  BY DEF IsMap, extract_key
<1>. DEFINE f == [e \in E |-> extract_key(e)]
<1>2. f \in Bijection(E, KeysOf(E))
  <2>1. f \in [E -> KeysOf(E)]
    BY DEF KeysOf
  <2>2. \A d, e \in E : f[d] = f[e] => d = e
    BY DEF IsMap
  <2>3. \A k \in KeysOf(E) : \E e \in E : f[e] = k
    BY DEF KeysOf
  <2>. HIDE DEF f
  <2>. QED
    BY <2>1, <2>2, <2>3, Zenon DEF Bijection, Injection, Surjection, IsInjective
<1>3. IsFiniteSet(KeysOf(E)) /\ Cardinality(KeysOf(E)) = Cardinality(E)
  <2>. HIDE DEF f
  <2>. QED
    BY <1>2, FS_Bijection DEF ExistsBijection, IsMap
<1>. QED
  BY <1>1, <1>3 DEF KeysOf

(* The entries with smaller keys are those of the smaller keys.            *)
LEMMA SmallerIsMap ==
  ASSUME NEW S, NEW E, IsMap(E, S), NEW e \in E
  PROVE  /\ IsMap(Smaller(E, e), S)
         /\ KeysOf(Smaller(E, e)) = LessIn(KeysOf(E), extract_key(e))
         /\ Cardinality(Smaller(E, e)) = Cardinality(LessIn(KeysOf(E), extract_key(e)))
<1>1. Smaller(E, e) \in SUBSET E
  BY DEF Smaller
<1>2. IsMap(Smaller(E, e), S)
  BY <1>1, FS_Subset DEF IsMap
<1>3. KeysOf(Smaller(E, e)) = LessIn(KeysOf(E), extract_key(e))
  BY DEF KeysOf, Smaller, LessIn
<1>. QED
  BY <1>2, <1>3, KeysBijection

(* nth_element finds its entry.                                            *)
LEMMA PivotExists ==
  ASSUME NEW S, NEW E, IsMap(E, S), NEW n \in Nat, n < Cardinality(E)
  PROVE  NthElement(E, n) \in E /\ Cardinality(Smaller(E, NthElement(E, n))) = n
<1>1. PICK k \in KeysOf(E) : Cardinality(LessIn(KeysOf(E), k)) = n
  BY KeysBijection, RankExists
<1>2. PICK e \in E : extract_key(e) = k
  BY DEF KeysOf
<1>3. \E d \in E : Cardinality(Smaller(E, d)) = n
  BY <1>1, <1>2, SmallerIsMap
<1>. QED
  BY <1>3 DEF NthElement

(* Any order of a set of entries is a list.                                *)
LEMMA OrderIsList ==
  ASSUME NEW S, NEW E, IsMap(E, S), NEW n \in Nat, Cardinality(E) = n,
         NEW s \in Bijection(1 .. n, E)
  PROVE  IsList(s, n, S) /\ Listed(s, n) = E
<1>1. /\ s \in [1 .. n -> E] /\ \A i, j \in 1 .. n : s[i] = s[j] => i = j
      /\ \A e \in E : \E i \in 1 .. n : s[i] = e
  BY DEF Bijection, Injection, Surjection, IsInjective
<1>2. Len(s) = n
  BY <1>1
<1>3. \A i \in 1 .. n : s[i] \in (Nat \ {0}) \X S
  BY <1>1 DEF IsMap
<1>4. \A i, j \in 1 .. n : extract_key(s[i]) = extract_key(s[j]) => i = j
  BY <1>1 DEF IsMap
<1>5. Listed(s, n) = E
  BY <1>1 DEF Listed
<1>. QED
  BY <1>2, <1>3, <1>4, <1>5 DEF IsList
=============================================================================
