-------------------------- MODULE ThetaTableProofs --------------------------
(***************************************************************************)
(* What the operations of ThetaHashTable do to a whole table, in terms of  *)
(* the entries it holds, and what the entries say as a function from keys  *)
(* to summaries.  A table is sound if its count is right and within the    *)
(* capacity, its size between the starting and the final one, and its      *)
(* array searchable; each operation of an update sketch takes a sound      *)
(* table to a sound one.                                                   *)
(***************************************************************************)
EXTENDS ThetaHashTableProofs

(* the arrays of all sizes                                                 *)
AnyArray(S) == UNION {Arrays(lg, S) : lg \in Nat}

Tables(S) ==
  [lg_cur : Nat, lg_nom : Nat, rf : Nat, theta : Nat, is_empty : BOOLEAN, num : Nat,
   ent : AnyArray(S)]

(* num_entries_ counts the keys and each is found in its own slot          *)
Counted(t, S) ==
  /\ t \in Tables(S)
  /\ t.lg_cur \in 1 .. t.lg_nom + 1
  /\ t.rf = 0 => t.lg_cur = t.lg_nom + 1
  /\ t.ent \in Arrays(t.lg_cur, S)
  /\ Searchable(t.ent, t.lg_cur)
  /\ t.num = Cardinality(Used(t.ent))

(* between two operations the count is within the capacity as well         *)
Sound(t, S) == Counted(t, S) /\ t.num <= get_capacity(t.lg_cur, t.lg_nom)

SameBuild(t, u) == u.lg_nom = t.lg_nom /\ u.rf = t.rf /\ u.is_empty = t.is_empty

(* An array of one size is an array.                                       *)
LEMMA ArrayTypes ==
  ASSUME NEW S, NEW lg \in Nat
  PROVE  Arrays(lg, S) \subseteq AnyArray(S)
BY DEF AnyArray

(* A sound table is well formed.                                           *)
LEMMA SoundWellFormed ==
  ASSUME NEW S, NEW t, Sound(t, S)
  PROVE  WellFormed(t) /\ Used(t.ent) # Slots(t.lg_cur)
<1>1. /\ t.lg_cur \in Nat /\ t.lg_nom \in Nat /\ t.lg_cur \in 1 .. t.lg_nom + 1
      /\ t.ent \in Arrays(t.lg_cur, S) /\ Searchable(t.ent, t.lg_cur)
      /\ t.num = Cardinality(Used(t.ent)) /\ t.num <= get_capacity(t.lg_cur, t.lg_nom)
  BY DEF Sound, Counted, Tables
<1>2. Cardinality(Used(t.ent)) < 2^t.lg_cur
  <2>1. /\ get_capacity(t.lg_cur, t.lg_nom) \in Nat
        /\ get_capacity(t.lg_cur, t.lg_nom) < 2^t.lg_cur
    BY <1>1, CapacityFits
  <2>2. Cardinality(Used(t.ent)) \in Nat /\ 2^t.lg_cur \in Nat
    BY <1>1, UsedSlots, PowerType
  <2>. QED
    BY <1>1, <2>1, <2>2
<1>3. Used(t.ent) # Slots(t.lg_cur) /\ DOMAIN t.ent = Slots(t.lg_cur)
  BY <1>1, <1>2, UsedSlots
<1>4. ASSUME NEW i \in Used(t.ent)
      PROVE  find(t.ent, t.lg_cur, extract_key(t.ent[i])) = [at |-> i, found |-> TRUE]
  <2>1. SlotFor(t.ent, t.lg_cur, extract_key(t.ent[i])) = i
    BY <1>1 DEF Searchable
  <2>2. i # NoSlot(t.lg_cur)
    BY <1>1, UsedSlots, PowerType DEF NoSlot, Slots
  <2>. QED
    BY <2>1, <2>2 DEF find, Result
<1>. QED
  BY <1>1, <1>3, <1>4 DEF WellFormed

(* resize(), of a table one entry over its capacity: the larger table is   *)
(* sound and holds the same entries.                                       *)
LEMMA ResizeSound ==
  ASSUME NEW S, NoSummary \in S, NEW t, Counted(t, S), t.lg_cur <= t.lg_nom,
         t.num = get_capacity(t.lg_cur, t.lg_nom) + 1
  PROVE  /\ Sound(resize(t), S) /\ SameBuild(t, resize(t)) /\ resize(t).theta = t.theta
         /\ Held(resize(t).ent) = Held(t.ent)
<1>1. /\ t \in Tables(S) /\ t.lg_cur \in Nat /\ t.lg_nom \in Nat /\ t.rf \in Nat /\ t.num \in Nat
      /\ t.lg_cur \in 1 .. t.lg_nom /\ t.rf # 0
      /\ t.ent \in Arrays(t.lg_cur, S) /\ Searchable(t.ent, t.lg_cur)
      /\ t.num = Cardinality(Used(t.ent))
  BY DEF Counted, Tables
<1>2. PICK new \in Nat : new = MinOf(t.lg_cur + t.rf, t.lg_nom + 1)
  BY <1>1 DEF MinOf
<1>3. new \in t.lg_cur + 1 .. t.lg_nom + 1
  BY <1>1, <1>2 DEF MinOf
<1>4. PICK n \in Nat : n = t.num
  BY <1>1
<1>5. /\ get_capacity(new, t.lg_nom) \in Nat /\ n <= get_capacity(new, t.lg_nom)
      /\ n <= 2^new
  <2>1. get_capacity(t.lg_cur, t.lg_nom) + 1 <= get_capacity(new, t.lg_nom)
    BY <1>1, <1>3, CapacityGrows
  <2>2. new \in 1 .. t.lg_nom + 1
    BY <1>1, <1>3
  <2>3. get_capacity(new, t.lg_nom) \in Nat /\ get_capacity(new, t.lg_nom) < 2^new
    BY <1>1, <2>2, CapacityFits
  <2>. QED
    BY <1>4, <2>1, <2>3, PowerType
<1>6. PICK s : s = Iterate(t)
  OBVIOUS
<1>7. IsList(s, n, S) /\ Listed(s, n) = Held(t.ent)
  BY <1>1, <1>4, <1>6, InOrderLists DEF Iterate
<1>8. PICK a : a = Rehash(s, new)
  OBVIOUS
<1>9. /\ a \in Arrays(new, S) /\ Searchable(a, new) /\ Cardinality(Used(a)) = n
      /\ Held(a) = Held(t.ent)
  BY <1>5, <1>7, <1>8, RehashSearchable
<1>10. a \in AnyArray(S)
  BY <1>9, ArrayTypes
<1>11. resize(t) = [t EXCEPT !.lg_cur = new, !.ent = a]
  BY <1>2, <1>6, <1>8 DEF resize
<1>12. PICK u : u = resize(t)
  OBVIOUS
<1>13. /\ u \in Tables(S) /\ u.lg_cur = new /\ u.ent = a /\ u.lg_nom = t.lg_nom /\ u.rf = t.rf
       /\ u.num = n /\ u.theta = t.theta /\ u.is_empty = t.is_empty
  BY <1>1, <1>4, <1>10, <1>11, <1>12 DEF Tables
<1>14. Counted(u, S)
  <2>1. u.lg_cur \in 1 .. u.lg_nom + 1
    BY <1>1, <1>3, <1>13
  <2>. QED
    BY <1>1, <1>9, <1>13, <2>1 DEF Counted
<1>. QED
  BY <1>5, <1>9, <1>12, <1>13, <1>14 DEF Sound, SameBuild

(* consolidate_non_empty() finds all the entries: as many as num_entries_  *)
(* says.                                                                   *)
LEMMA ConsolidateHeld ==
  ASSUME NEW S, NEW t, Counted(t, S)
  PROVE  consolidate_non_empty(t) = Held(t.ent)
<1>1. /\ t.lg_cur \in Nat /\ t.num \in Nat
      /\ t.ent \in Arrays(t.lg_cur, S) /\ Searchable(t.ent, t.lg_cur)
      /\ t.num = Cardinality(Used(t.ent))
  BY DEF Counted, Tables
<1>2. PICK n \in Nat : n = t.num
  BY <1>1
<1>3. PICK s : s = Iterate(t)
  OBVIOUS
<1>4. s \in [1 .. n -> Nat \X S] /\ Listed(s, n) = Held(t.ent)
  BY <1>1, <1>2, <1>3, InOrderLists DEF Iterate
<1>5. SubSeq(s, 1, n) = s
  BY <1>4
<1>6. Range(s) = Listed(s, n)
  BY <1>4 DEF Range, Listed
<1>. QED
  BY <1>2, <1>3, <1>4, <1>5, <1>6 DEF consolidate_non_empty

(* what rebuild() leaves of a set of entries                               *)
CutAt(E, n, kept, key) ==
  \E e \in E : /\ Cardinality(Smaller(E, e)) = n
               /\ kept = Smaller(E, e) /\ key = extract_key(e)

(***************************************************************************)
(* rebuild(), of a table of the final size with more than nominal_size     *)
(* entries, whatever order nth_element leaves: the table is sound, it      *)
(* holds the nominal_size entries with the smallest keys, and theta_ is    *)
(* the next key.                                                           *)
(***************************************************************************)
LEMMA RebuildSound ==
  ASSUME NEW S, NoSummary \in S, NEW t, Counted(t, S), t.lg_cur = t.lg_nom + 1,
         2^t.lg_nom < t.num, NEW u \in rebuild(t)
  PROVE  /\ Sound(u, S) /\ SameBuild(t, u)
         /\ CutAt(Held(t.ent), 2^t.lg_nom, Held(u.ent), u.theta)
<1>1. /\ t \in Tables(S) /\ t.lg_cur \in Nat /\ t.lg_nom \in Nat
      /\ t.ent \in Arrays(t.lg_cur, S) /\ Searchable(t.ent, t.lg_cur)
      /\ t.lg_cur \in 1 .. t.lg_nom + 1 /\ t.num = Cardinality(Used(t.ent))
  BY DEF Counted, Tables
<1>2. PICK n \in Nat : n = 2^t.lg_nom
  BY <1>1, PowerType
<1>3. PICK E : E = Held(t.ent)
  OBVIOUS
<1>4. IsMap(E, S) /\ n < Cardinality(E)
  BY <1>1, <1>2, <1>3, HeldIsMap
<1>5. PICK e \in E : e = NthElement(E, n) /\ Cardinality(Smaller(E, e)) = n
  BY <1>4, PivotExists
<1>6. PICK K : K = Smaller(E, e)
  OBVIOUS
<1>7. IsMap(K, S) /\ Cardinality(K) = n
  BY <1>4, <1>5, <1>6, SmallerIsMap
<1>8. PICK s \in Bijection(1 .. n, K) :
        u = [t EXCEPT !.theta = extract_key(e), !.num = n, !.ent = Rehash(s, t.lg_cur)]
  BY <1>2, <1>3, <1>5, <1>6, <1>7, ConsolidateHeld DEF rebuild
<1>9. IsList(s, n, S) /\ Listed(s, n) = K
  BY <1>7, OrderIsList
<1>10. PICK a : a = Rehash(s, t.lg_cur)
  OBVIOUS
<1>11. n <= get_capacity(t.lg_cur, t.lg_nom) /\ n <= 2^t.lg_cur
  <2>1. /\ get_capacity(t.lg_cur, t.lg_nom) \in Nat
        /\ get_capacity(t.lg_cur, t.lg_nom) < 2^t.lg_cur
        /\ 2^t.lg_nom <= get_capacity(t.lg_cur, t.lg_nom)
    BY <1>1, CapacityFits
  <2>2. 2^t.lg_cur \in Nat
    BY <1>1, PowerType
  <2>. QED
    BY <1>2, <2>1, <2>2
<1>12. /\ a \in Arrays(t.lg_cur, S) /\ Searchable(a, t.lg_cur)
       /\ Cardinality(Used(a)) = n /\ Held(a) = K
  BY <1>1, <1>9, <1>10, <1>11, RehashSearchable
<1>13. a \in AnyArray(S) /\ extract_key(e) \in Nat
  BY <1>1, <1>4, <1>12, ArrayTypes DEF IsMap, extract_key
<1>14. /\ u \in Tables(S) /\ u.lg_cur = t.lg_cur /\ u.ent = a /\ u.lg_nom = t.lg_nom
       /\ u.rf = t.rf /\ u.num = n /\ u.theta = extract_key(e) /\ u.is_empty = t.is_empty
  BY <1>1, <1>8, <1>10, <1>13 DEF Tables
<1>15. Counted(u, S)
  BY <1>1, <1>12, <1>14 DEF Counted
<1>16. CutAt(E, n, K, extract_key(e))
  BY <1>5, <1>6 DEF CutAt
<1>. QED
  BY <1>2, <1>3, <1>11, <1>12, <1>14, <1>15, <1>16 DEF Sound, SameBuild

(***************************************************************************)
(* insert() of a new key at the slot find() returned: the table is left    *)
(* alone, resized or rebuilt, and is sound again. Without a rebuild there  *)
(* are fewer than 2 * nominal_size entries, with one there were more than  *)
(* nominal_size.                                                           *)
(***************************************************************************)
LEMMA InsertSound ==
  ASSUME NEW S, NoSummary \in S, NEW t, Sound(t, S), NEW e \in (Nat \ {0}) \X S,
         extract_key(e) \notin KeysOf(Held(t.ent)),
         NEW at, at = SlotFor(t.ent, t.lg_cur, extract_key(e)), NEW u \in insert(t, at, e)
  PROVE  /\ Sound(u, S) /\ SameBuild(t, u)
         /\ \/ /\ t.num + 1 < 2 * 2^t.lg_nom
               /\ u.theta = t.theta /\ Held(u.ent) = Held(t.ent) \cup {e}
            \/ /\ 2^t.lg_nom < t.num + 1
               /\ CutAt(Held(t.ent) \cup {e}, 2^t.lg_nom, Held(u.ent), u.theta)
<1>1. /\ t \in Tables(S) /\ t.lg_cur \in Nat /\ t.lg_nom \in Nat /\ t.num \in Nat
      /\ t.lg_cur \in 1 .. t.lg_nom + 1
      /\ t.ent \in Arrays(t.lg_cur, S) /\ Searchable(t.ent, t.lg_cur)
      /\ t.num = Cardinality(Used(t.ent)) /\ t.num <= get_capacity(t.lg_cur, t.lg_nom)
      /\ t.rf = 0 => t.lg_cur = t.lg_nom + 1
  BY DEF Sound, Counted, Tables
<1>2. PICK lg \in Nat : lg = t.lg_cur
  BY <1>1
<1>3. PICK ent \in Arrays(lg, S) : ent = t.ent
  BY <1>1, <1>2
<1>4. /\ Searchable(ent, lg) /\ e \in Nat \X S /\ extract_key(e) \in Nat \ {0}
      /\ Used(ent) # Slots(lg) /\ at = SlotFor(ent, lg, extract_key(e))
  BY <1>1, <1>2, <1>3, SoundWellFormed DEF extract_key
<1>5. \A i \in Used(ent) : extract_key(ent[i]) # extract_key(e)
  BY <1>3 DEF KeysOf, Held
<1>6. at \in Slots(lg)
  BY <1>4, SearchEnds
<1>7. at \in Slots(lg) \ Used(ent)
  BY <1>4, <1>5, <1>6, SearchFinds
<1>8. PICK new : new = [ent EXCEPT ![at] = e]
  OBVIOUS
<1>9. /\ new \in Arrays(lg, S) /\ new[at] = e
      /\ \A i \in Slots(lg) : i # at => new[i] = ent[i]
  BY <1>4, <1>6, <1>8 DEF Arrays
<1>10. /\ Searchable(new, lg) /\ Used(new) = Used(ent) \cup {at}
       /\ Held(new) = Held(ent) \cup {e}
  BY <1>4, <1>7, <1>9, FillKeepsSearchable
<1>11. Cardinality(Used(new)) = t.num + 1
  <2>1. IsFiniteSet(Used(ent)) /\ at \notin Used(ent)
    BY <1>7, UsedSlots
  <2>2. Cardinality(Used(ent) \cup {at}) = Cardinality(Used(ent)) + 1
    BY <2>1, FS_AddElement
  <2>. QED
    BY <1>1, <1>3, <1>10, <2>2
<1>12. PICK w : w = [t EXCEPT !.ent = new, !.num = t.num + 1]
  OBVIOUS
<1>13. new \in AnyArray(S)
  BY <1>9, ArrayTypes
<1>14. /\ w \in Tables(S) /\ w.lg_cur = lg /\ w.ent = new /\ w.lg_nom = t.lg_nom
       /\ w.rf = t.rf /\ w.num = t.num + 1 /\ w.theta = t.theta /\ w.is_empty = t.is_empty
  <2>1. t \in Tables(S) /\ t.num + 1 \in Nat
    BY <1>1
  <2>. QED
    BY <1>2, <1>12, <1>13, <2>1 DEF Tables
<1>15. Counted(w, S)
  <2>1. w.lg_cur \in 1 .. w.lg_nom + 1 /\ (w.rf = 0 => w.lg_cur = w.lg_nom + 1)
    BY <1>1, <1>2, <1>14
  <2>2. /\ w.ent \in Arrays(w.lg_cur, S) /\ Searchable(w.ent, w.lg_cur)
        /\ w.num = Cardinality(Used(w.ent))
    BY <1>9, <1>10, <1>11, <1>14
  <2>. QED
    BY <1>14, <2>1, <2>2 DEF Counted
<1>16. w = [t EXCEPT !.ent[at] = e, !.num = @ + 1]
  <2>1. t \in Tables(S)
    BY <1>1
  <2>. QED
    BY <1>3, <1>8, <1>12, <2>1 DEF Tables
<1>17. u \in (IF w.num <= get_capacity(w.lg_cur, w.lg_nom) THEN {w}
              ELSE IF w.lg_cur <= w.lg_nom THEN {resize(w)} ELSE rebuild(w))
  BY <1>16 DEF insert
<1>18. PICK n \in Nat \ {0} : n = 2^t.lg_nom
  BY <1>1, PowerType
<1>19. PICK c \in Nat : c = get_capacity(lg, t.lg_nom)
  BY <1>1, <1>2, CapacityFits
<1>20. /\ t.num <= c /\ (lg = t.lg_nom + 1 => n <= c /\ c < 2 * n)
       /\ (lg <= t.lg_nom => c < n)
  BY <1>1, <1>2, <1>18, <1>19, CapacityFits
<1>21. CASE w.num <= c
  <2>1. u = w
    BY <1>14, <1>17, <1>19, <1>21
  <2>2. Sound(u, S)
    BY <1>14, <1>15, <1>19, <1>21, <2>1 DEF Sound
  <2>3. t.num + 1 < 2 * n
    BY <1>1, <1>2, <1>14, <1>20, <1>21
  <2>. QED
    BY <1>3, <1>10, <1>14, <1>18, <2>1, <2>2, <2>3 DEF SameBuild
<1>22. CASE w.num > c /\ lg <= t.lg_nom
  <2>1. u = resize(w)
    BY <1>1, <1>14, <1>17, <1>19, <1>22
  <2>2. w.num = get_capacity(w.lg_cur, w.lg_nom) + 1
    BY <1>1, <1>14, <1>19, <1>20, <1>22
  <2>3. Sound(u, S) /\ SameBuild(w, u) /\ u.theta = w.theta /\ Held(u.ent) = Held(w.ent)
    BY <1>14, <1>15, <1>22, <2>1, <2>2, ResizeSound
  <2>4. t.num + 1 < 2 * n
    BY <1>1, <1>20, <1>22
  <2>. QED
    BY <1>3, <1>10, <1>14, <1>18, <2>3, <2>4 DEF SameBuild
<1>23. CASE w.num > c /\ lg = t.lg_nom + 1
  <2>1. u \in rebuild(w)
    BY <1>1, <1>14, <1>17, <1>19, <1>23
  <2>2. n < t.num + 1
    BY <1>1, <1>14, <1>20, <1>23
  <2>3. 2^w.lg_nom < w.num /\ w.lg_cur = w.lg_nom + 1
    BY <1>14, <1>18, <1>23, <2>2
  <2>4. Sound(u, S) /\ SameBuild(w, u) /\ CutAt(Held(w.ent), 2^w.lg_nom, Held(u.ent), u.theta)
    BY <1>15, <2>1, <2>3, RebuildSound
  <2>. QED
    BY <1>3, <1>10, <1>14, <1>18, <2>2, <2>4 DEF SameBuild
<1>. QED
  BY <1>1, <1>2, <1>14, <1>21, <1>22, <1>23

(* trim() rebuilds just when there are more than nominal_size entries.     *)
LEMMA TrimSound ==
  ASSUME NEW S, NoSummary \in S, NEW t, Sound(t, S), NEW u \in trim(t)
  PROVE  /\ Sound(u, S) /\ SameBuild(t, u)
         /\ IF 2^t.lg_nom < t.num
              THEN CutAt(Held(t.ent), 2^t.lg_nom, Held(u.ent), u.theta)
              ELSE u = t
<1>1. /\ t.lg_cur \in Nat /\ t.lg_nom \in Nat /\ t.num \in Nat
      /\ t.lg_cur \in 1 .. t.lg_nom + 1 /\ t.num <= get_capacity(t.lg_cur, t.lg_nom)
      /\ Counted(t, S)
  BY DEF Sound, Counted, Tables
<1>2. PICK n \in Nat : n = 2^t.lg_nom
  BY <1>1, PowerType
<1>3. CASE n < t.num
  <2>1. u \in rebuild(t)
    BY <1>1, <1>2, <1>3 DEF trim
  <2>2. t.lg_cur = t.lg_nom + 1
    <3>1. /\ get_capacity(t.lg_cur, t.lg_nom) \in Nat
          /\ t.lg_cur <= t.lg_nom => get_capacity(t.lg_cur, t.lg_nom) < n
      BY <1>1, <1>2, CapacityFits
    <3>. QED
      BY <1>1, <1>3, <3>1
  <2>. QED
    BY <1>1, <1>2, <1>3, <2>1, <2>2, RebuildSound
<1>4. CASE ~(n < t.num)
  BY <1>1, <1>2, <1>4 DEF trim, SameBuild
<1>. QED
  BY <1>3, <1>4

(* The starting size lies between MIN_LG_K and the final size, and is the  *)
(* final size when the table may not be resized.                           *)
LEMMA StartingSize ==
  ASSUME NEW nom \in Nat, NEW rf \in RESIZE_FACTORS, MIN_LG_K <= nom + 1,
         NEW lg, lg = starting_sub_multiple(nom + 1, MIN_LG_K, rf)
  PROVE  lg \in 1 .. nom + 1 /\ (rf = 0 => lg = nom + 1)
<1>1. PICK m \in Nat \ {0} : m = MIN_LG_K
  BY MinLgKAssumption
<1>2. rf \in Nat
  BY DEF RESIZE_FACTORS
<1>3. CASE nom + 1 <= m \/ rf = 0
  BY <1>1, <1>3 DEF starting_sub_multiple
<1>4. CASE ~(nom + 1 <= m) /\ rf # 0
  <2>1. PICK d \in Nat : d = (nom + 1) - m
    BY <1>4
  <2>2. PICK x \in Nat : x = d % rf /\ x <= d
    <3>1. /\ (d % rf) \in 0 .. rf - 1
          /\ \E q \in Nat : d = q * rf + (d % rf)
      BY <1>2, <1>4, DivMod
    <3>2. PICK q \in Nat : d = q * rf + (d % rf)
      BY <3>1
    <3>3. PICK z \in Nat : z = q * rf
      BY <1>2
    <3>. QED
      BY <3>1, <3>2, <3>3
  <2>3. lg = x + m
    BY <1>1, <1>4, <2>1, <2>2 DEF starting_sub_multiple
  <2>. QED
    BY <1>1, <1>4, <2>1, <2>2, <2>3
<1>. QED
  BY <1>3, <1>4

(* a table as its constructor leaves it                                    *)
IsNew(t, lg, nom, rf, th) == t = hash_table(lg, nom, rf, th, TRUE)

(* The table of the constructor is sound and empty.                        *)
LEMMA EmptySound ==
  ASSUME NEW S, NoSummary \in S, NEW nom \in Nat, NEW rf \in Nat, NEW th \in Nat,
         NEW lg \in 1 .. nom + 1, rf = 0 => lg = nom + 1,
         NEW t, IsNew(t, lg, nom, rf, th)
  PROVE  /\ Sound(t, S) /\ Held(t.ent) = {}
         /\ t.lg_nom = nom /\ t.rf = rf /\ t.theta = th /\ t.is_empty = TRUE
<1>1. lg \in Nat /\ lg > 0
  OBVIOUS
<1>2. PICK a : a = NoEntries(lg)
  OBVIOUS
<1>3. a \in Arrays(lg, S) /\ Used(a) = {} /\ Searchable(a, lg) /\ Cardinality(Used(a)) = 0
  BY <1>1, <1>2, NoEntriesSearchable, FS_EmptySet
<1>4. a \in AnyArray(S)
  BY <1>1, <1>3, ArrayTypes
<1>5. /\ t \in Tables(S) /\ t.lg_cur = lg /\ t.ent = a /\ t.lg_nom = nom /\ t.rf = rf
      /\ t.num = 0 /\ t.theta = th /\ t.is_empty = TRUE
  BY <1>1, <1>2, <1>4 DEF IsNew, hash_table, Tables
<1>6. Counted(t, S)
  BY <1>3, <1>5 DEF Counted
<1>7. get_capacity(lg, nom) \in Nat
  BY CapacityFits
<1>8. Held(a) = {}
  BY <1>3 DEF Held
<1>9. Sound(t, S)
  BY <1>5, <1>6, <1>7 DEF Sound
<1>. QED
  BY <1>5, <1>8, <1>9

(* A found summary is changed in place.                                    *)
Noting(t, at, x) == [t EXCEPT !.ent[at][2] = x]

(* update() of a key that is there changes its summary and nothing else.   *)
LEMMA SummarySound ==
  ASSUME NEW S, NEW t, Sound(t, S), NEW at \in Used(t.ent), NEW x \in S,
         NEW u, u = Noting(t, at, x)
  PROVE  /\ Sound(u, S) /\ SameBuild(t, u) /\ u.theta = t.theta
         /\ Held(u.ent) = (Held(t.ent) \ {t.ent[at]})
                            \cup {Entry(extract_key(t.ent[at]), x)}
<1>1. /\ t \in Tables(S) /\ t.lg_cur \in Nat /\ t.lg_nom \in Nat
      /\ t.lg_cur \in 1 .. t.lg_nom + 1
      /\ t.ent \in Arrays(t.lg_cur, S) /\ Searchable(t.ent, t.lg_cur)
      /\ t.num = Cardinality(Used(t.ent)) /\ t.num <= get_capacity(t.lg_cur, t.lg_nom)
      /\ t.rf = 0 => t.lg_cur = t.lg_nom + 1
  BY DEF Sound, Counted, Tables
<1>2. PICK lg \in Nat : lg = t.lg_cur
  BY <1>1
<1>3. PICK ent \in Arrays(lg, S) : ent = t.ent
  BY <1>1, <1>2
<1>4. at \in Slots(lg) /\ Used(ent) \in SUBSET Slots(lg)
  BY <1>3, UsedSlots
<1>5. PICK d \in Nat \X S : d = ent[at]
  BY <1>4 DEF Arrays
<1>6. PICK e : e = [d EXCEPT ![2] = x]
  OBVIOUS
<1>7. e \in Nat \X S /\ extract_key(e) = extract_key(d) /\ e = Entry(extract_key(d), x)
  BY <1>6 DEF extract_key, Entry
<1>8. PICK new : new = [ent EXCEPT ![at] = e]
  OBVIOUS
<1>9. /\ new \in Arrays(lg, S) /\ new[at] = e
      /\ \A i \in Slots(lg) : i # at => new[i] = ent[i]
  BY <1>4, <1>7, <1>8 DEF Arrays
<1>10. Used(new) = Used(ent) /\ Searchable(new, lg)
  <2>1. \A i \in Slots(lg) : extract_key(new[i]) = extract_key(ent[i])
    BY <1>5, <1>7, <1>9
  <2>. QED
    BY <1>1, <1>2, <1>3, <1>9, <2>1, SameKeysSearchable
<1>11. Held(new) = (Held(ent) \ {d}) \cup {e}
  <2>1. ASSUME NEW i \in Used(ent), i # at PROVE ent[i] # d
    BY <1>1, <1>2, <1>3, <1>5, <2>1, KeysDiffer
  <2>2. ASSUME NEW f \in Held(new) PROVE f \in (Held(ent) \ {d}) \cup {e}
    <3>1. PICK i \in Used(ent) : f = new[i]
      BY <1>10 DEF Held
    <3>2. i \in Slots(lg)
      BY <1>4
    <3>. QED
      BY <1>9, <2>1, <3>1, <3>2 DEF Held
  <2>3. ASSUME NEW f \in Held(ent), f # d PROVE f \in Held(new)
    <3>1. PICK i \in Used(ent) : f = ent[i]
      BY DEF Held
    <3>2. i # at /\ i \in Slots(lg)
      BY <1>4, <1>5, <2>3, <3>1
    <3>. QED
      BY <1>9, <1>10, <3>1, <3>2 DEF Held
  <2>4. e \in Held(new)
    BY <1>3, <1>9, <1>10 DEF Held
  <2>. QED
    BY <2>2, <2>3, <2>4
<1>12. new \in AnyArray(S)
  BY <1>9, ArrayTypes
<1>13. u = [t EXCEPT !.ent = new]
  <2>1. t \in Tables(S) /\ at \in DOMAIN t.ent /\ 2 \in DOMAIN t.ent[at]
    BY <1>1, <1>3, <1>4, <1>5 DEF Arrays
  <2>. QED
    BY <1>3, <1>5, <1>6, <1>8, <2>1 DEF Tables, Noting
<1>14. /\ u \in Tables(S) /\ u.lg_cur = lg /\ u.ent = new /\ u.lg_nom = t.lg_nom
       /\ u.rf = t.rf /\ u.num = t.num /\ u.theta = t.theta /\ u.is_empty = t.is_empty
  <2>1. t \in Tables(S)
    BY <1>1
  <2>. QED
    BY <1>2, <1>12, <1>13, <2>1 DEF Tables
<1>15. Counted(u, S)
  <2>1. u.lg_cur \in 1 .. u.lg_nom + 1 /\ (u.rf = 0 => u.lg_cur = u.lg_nom + 1)
    BY <1>1, <1>2, <1>14
  <2>2. /\ u.ent \in Arrays(u.lg_cur, S) /\ Searchable(u.ent, u.lg_cur)
        /\ u.num = Cardinality(Used(u.ent))
    BY <1>1, <1>3, <1>9, <1>10, <1>14
  <2>. QED
    BY <1>14, <2>1, <2>2 DEF Counted
<1>. QED
  BY <1>1, <1>2, <1>3, <1>5, <1>7, <1>11, <1>14, <1>15 DEF Sound, SameBuild

(* the flag hash_and_screen clears is no part of the array                 *)
Cleared(t) == [t EXCEPT !.is_empty = FALSE]

(* hash_and_screen() clears is_empty_ and leaves the rest alone.           *)
LEMMA FlagSound ==
  ASSUME NEW S, NEW t, Sound(t, S), NEW u, u = Cleared(t)
  PROVE  /\ Sound(u, S) /\ u.lg_cur = t.lg_cur /\ u.lg_nom = t.lg_nom /\ u.rf = t.rf
         /\ u.theta = t.theta /\ u.ent = t.ent /\ u.num = t.num
<1>1. /\ u \in Tables(S) /\ u.lg_cur = t.lg_cur /\ u.lg_nom = t.lg_nom /\ u.rf = t.rf
      /\ u.theta = t.theta /\ u.ent = t.ent /\ u.num = t.num /\ u.is_empty = FALSE
  BY DEF Sound, Counted, Tables, Cleared
<1>. QED
  BY <1>1 DEF Sound, Counted

-----------------------------------------------------------------------------
(* the summaries of a set of entries by their keys                         *)
SummaryOf(E) == [h \in KeysOf(E) |-> (CHOOSE e \in E : extract_key(e) = h)[2]]

(* SummaryOf gives each key the summary that is stored with it.            *)
LEMMA SummaryFound ==
  ASSUME NEW S, NEW E, IsMap(E, S)
  PROVE  /\ DOMAIN SummaryOf(E) = KeysOf(E)
         /\ \A e \in E : extract_key(e) \in KeysOf(E) /\ SummaryOf(E)[extract_key(e)] = e[2]
<1>1. ASSUME NEW e \in E
      PROVE  extract_key(e) \in KeysOf(E) /\ SummaryOf(E)[extract_key(e)] = e[2]
  <2>1. extract_key(e) \in KeysOf(E)
    BY DEF KeysOf
  <2>2. (CHOOSE d \in E : extract_key(d) = extract_key(e)) = e
    BY DEF IsMap
  <2>. QED
    BY <2>1, <2>2 DEF SummaryOf
<1>. QED
  BY <1>1 DEF SummaryOf

(* Cutting the entries at a pivot restricts their summaries to the smaller *)
(* keys.                                                                   *)
LEMMA SummaryCut ==
  ASSUME NEW S, NEW E, IsMap(E, S), NEW n, NEW kept, NEW key, CutAt(E, n, kept, key)
  PROVE  /\ key \in KeysOf(E) /\ Cardinality({k \in KeysOf(E) : k < key}) = n
         /\ SummaryOf(kept) = [h \in {k \in KeysOf(E) : k < key} |-> SummaryOf(E)[h]]
<1>1. PICK e \in E : /\ Cardinality(Smaller(E, e)) = n
                     /\ kept = Smaller(E, e) /\ key = extract_key(e)
  BY DEF CutAt
<1>2. IsMap(kept, S) /\ KeysOf(kept) = {k \in KeysOf(E) : k < key} /\ kept \in SUBSET E
  <2>1. kept \in SUBSET E
    BY <1>1 DEF Smaller
  <2>2. IsMap(kept, S) /\ KeysOf(kept) = LessIn(KeysOf(E), key)
    BY <1>1, SmallerIsMap
  <2>. QED
    BY <2>1, <2>2 DEF LessIn
<1>3. Cardinality({k \in KeysOf(E) : k < key}) = n
  BY <1>1, SmallerIsMap DEF LessIn
<1>4. key \in KeysOf(E)
  BY <1>1 DEF KeysOf
<1>5. ASSUME NEW h \in KeysOf(kept) PROVE SummaryOf(kept)[h] = SummaryOf(E)[h]
  <2>1. PICK d \in kept : h = extract_key(d)
    BY DEF KeysOf
  <2>2. d \in E
    BY <1>2
  <2>. QED
    BY <1>2, <2>1, <2>2, SummaryFound
<1>6. SummaryOf(kept) = [h \in KeysOf(kept) |-> SummaryOf(kept)[h]]
  BY DEF SummaryOf
<1>. QED
  BY <1>2, <1>3, <1>4, <1>5, <1>6

(* the summaries of a set of entries with that of one key set to x         *)
With(E, key, x) ==
  [g \in KeysOf(E) \cup {key} |-> IF g = key THEN x ELSE SummaryOf(E)[g]]

(* An entry with a new key extends the summaries by its own.               *)
LEMMA SummaryAdded ==
  ASSUME NEW S, NEW E, IsMap(E, S), NEW e \in (Nat \ {0}) \X S,
         extract_key(e) \notin KeysOf(E)
  PROVE  /\ IsMap(E \cup {e}, S)
         /\ SummaryOf(E \cup {e}) = With(E, extract_key(e), e[2])
<1>1. PICK G : G = E \cup {e}
  OBVIOUS
<1>2. IsMap(G, S)
  <2>1. IsFiniteSet(G) /\ G \in SUBSET ((Nat \ {0}) \X S)
    BY <1>1, FS_AddElement DEF IsMap
  <2>2. \A d \in E : extract_key(d) # extract_key(e)
    BY DEF KeysOf
  <2>3. \A c, d \in G : extract_key(c) = extract_key(d) => c = d
    BY <1>1, <2>2 DEF IsMap
  <2>. QED
    BY <2>1, <2>3 DEF IsMap
<1>3. KeysOf(G) = KeysOf(E) \cup {extract_key(e)}
  BY <1>1 DEF KeysOf
<1>4. SummaryOf(G)[extract_key(e)] = e[2]
  BY <1>1, <1>2, SummaryFound
<1>5. ASSUME NEW g \in KeysOf(E) PROVE SummaryOf(G)[g] = SummaryOf(E)[g]
  <2>1. PICK d \in E : g = extract_key(d)
    BY DEF KeysOf
  <2>2. d \in G
    BY <1>1
  <2>. QED
    BY <1>2, <2>1, <2>2, SummaryFound
<1>6. SummaryOf(G) = [g \in KeysOf(G) |-> SummaryOf(G)[g]]
  BY DEF SummaryOf
<1>7. SummaryOf(G) = [g \in KeysOf(E) \cup {extract_key(e)} |->
                        IF g = extract_key(e) THEN e[2] ELSE SummaryOf(E)[g]]
  BY <1>3, <1>4, <1>5, <1>6
<1>. QED
  BY <1>1, <1>2, <1>7 DEF With

(* A replaced summary changes at its key only.                             *)
LEMMA SummaryReplaced ==
  ASSUME NEW S, NEW E, IsMap(E, S), NEW d \in E, NEW x \in S,
         NEW G, IsMap(G, S), G = (E \ {d}) \cup {Entry(extract_key(d), x)}
  PROVE  SummaryOf(G) = With(E, extract_key(d), x)
<1>1. PICK e : e = Entry(extract_key(d), x)
  OBVIOUS
<1>2. e \in G /\ extract_key(e) = extract_key(d) /\ e[2] = x
  BY <1>1 DEF Entry, extract_key
<1>3. KeysOf(G) = KeysOf(E)
  <2>1. ASSUME NEW g \in KeysOf(G) PROVE g \in KeysOf(E)
    <3>1. PICK c \in G : g = extract_key(c)
      BY DEF KeysOf
    <3>. QED
      BY <1>1, <1>2, <3>1 DEF KeysOf
  <2>2. ASSUME NEW g \in KeysOf(E) PROVE g \in KeysOf(G)
    <3>1. PICK c \in E : g = extract_key(c)
      BY DEF KeysOf
    <3>2. c \in G \/ c = d
      OBVIOUS
    <3>. QED
      BY <1>2, <3>1, <3>2 DEF KeysOf
  <2>. QED
    BY <2>1, <2>2
<1>4. SummaryOf(G)[extract_key(d)] = x
  BY <1>2, SummaryFound
<1>5. ASSUME NEW g \in KeysOf(E), g # extract_key(d)
      PROVE  SummaryOf(G)[g] = SummaryOf(E)[g]
  <2>1. PICK c \in E : g = extract_key(c)
    BY DEF KeysOf
  <2>2. c \in G
    BY <1>5, <2>1
  <2>. QED
    BY <2>1, <2>2, SummaryFound
<1>6. SummaryOf(G) = [g \in KeysOf(G) |-> SummaryOf(G)[g]]
  BY DEF SummaryOf
<1>7. SummaryOf(G) = [g \in KeysOf(E) |->
                        IF g = extract_key(d) THEN x ELSE SummaryOf(E)[g]]
  BY <1>3, <1>4, <1>5, <1>6
<1>8. KeysOf(E) \cup {extract_key(d)} = KeysOf(E)
  BY DEF KeysOf
<1>. QED
  BY <1>7, <1>8 DEF With

(* the answer of find() in a sound table                                   *)
Answers(r, t, key) ==
  /\ r.at = SlotFor(t.ent, t.lg_cur, key) /\ r.at # NoSlot(t.lg_cur)
  /\ r.found => r.at \in Used(t.ent) /\ extract_key(t.ent[r.at]) = key
  /\ ~r.found => key \notin KeysOf(Held(t.ent))

(* find() always answers, and says found exactly of the keys in the table. *)
LEMMA FindSound ==
  ASSUME NEW S, NEW t, Sound(t, S), NEW key \in Nat \ {0},
         NEW r, r = find(t.ent, t.lg_cur, key)
  PROVE  Answers(r, t, key)
<1>1. /\ t.lg_cur \in Nat /\ t.ent \in Arrays(t.lg_cur, S) /\ Searchable(t.ent, t.lg_cur)
      /\ Used(t.ent) # Slots(t.lg_cur)
  BY SoundWellFormed DEF Sound, Counted, Tables
<1>2. PICK lg \in Nat : lg = t.lg_cur
  BY <1>1
<1>3. PICK ent \in Arrays(lg, S) : ent = t.ent
  BY <1>1, <1>2
<1>4. PICK at \in Slots(lg) : at = SlotFor(ent, lg, key) /\ at # NoSlot(lg)
  BY <1>1, <1>2, <1>3, SearchEnds
<1>5. r.at = at /\ (r.found <=> extract_key(ent[at]) = key)
  BY <1>2, <1>3, <1>4 DEF find, Result
<1>6. extract_key(ent[at]) = key => at \in Used(ent)
  BY UsedSlots
<1>7. ASSUME extract_key(ent[at]) # key PROVE key \notin KeysOf(Held(ent))
  <2>. SUFFICES ASSUME NEW i \in Used(ent), extract_key(ent[i]) = key PROVE FALSE
    BY DEF KeysOf, Held
  <2>1. SlotFor(ent, lg, key) = i
    BY <1>1, <1>2, <1>3, SearchFinds
  <2>. QED
    BY <1>4, <1>7, <2>1
<1>. QED
  BY <1>2, <1>3, <1>4, <1>5, <1>6, <1>7 DEF Answers
=============================================================================
