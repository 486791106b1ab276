------------------------- MODULE ThetaSampleProofs -------------------------
(***************************************************************************)
(* Proofs about ThetaSample, for every set of hashes, starting threshold   *)
(* and nominal size, every set of values and every policy of summaries.    *)
(* IInv is the inductive invariant; the finiteness of the retained keys in *)
(* TypeOK is what makes their number meaningful.                           *)
(***************************************************************************)
EXTENDS ThetaSample, FiniteSetTheorems, TLAPS

IInv == TypeOK /\ SampleInv /\ NominalInv

(* The new and the reset sketch satisfy the inductive invariant.           *)
LEMMA InitIInv == Init => IInv
<1>. SUFFICES ASSUME Init PROVE IInv
  OBVIOUS
<1>1. DOMAIN Nothing = {} /\ Below({}, StartTheta) = {}
  BY DEF Nothing, Below
<1>2. Nothing = Restricted(Nothing, {})
  BY DEF Nothing, Restricted
<1>. QED
  BY <1>1, <1>2, FS_EmptySet, StartThetaAssumption
     DEF Init, IInv, TypeOK, Retained, SampleInv, NominalInv

(***************************************************************************)
(* Cutting the keys of T below th at one of them, t, leaves exactly the    *)
(* keys of T below t: the set fact behind rebuild().                       *)
(***************************************************************************)
LEMMA CutKeepsSample ==
  ASSUME NEW T \in SUBSET Hashes, NEW th \in Nat, NEW t \in Below(T, th)
  PROVE  /\ t \in Nat /\ t < th
         /\ {e \in Below(T, th) : e < t} = Below(T, t)
<1>1. t \in Nat /\ t < th
  BY HashesAssumption DEF Below
<1>2. ASSUME NEW e \in T
      PROVE  (e \in Below(T, th) /\ e < t) <=> e \in Below(T, t)
  BY <1>1, HashesAssumption DEF Below
<1>3. \A e : e \in Below(T, th) \/ e \in Below(T, t) => e \in T
  BY DEF Below
<1>. QED
  BY <1>1, <1>2, <1>3

(* Presenting a hash adds it to the hashes below the threshold, unless it  *)
(* is screened out.                                                        *)
LEMMA BelowAdd ==
  ASSUME NEW T \in SUBSET Hashes, NEW th \in Nat, NEW h \in Hashes
  PROVE  Below(T \cup {h}, th) =
           IF 0 < h /\ h < th THEN Below(T, th) \cup {h} ELSE Below(T, th)
BY HashesAssumption DEF Below

(***************************************************************************)
(* A value presented with an unscreened hash reaches the retained summary  *)
(* just as it reaches the total, and one presented with a screened hash    *)
(* concerns no retained summary.  The unscreened hash is retained exactly  *)
(* if it was presented before, so that create() starts both or neither.    *)
(***************************************************************************)
LEMMA NotedRetained ==
  ASSUME NEW f, NEW th \in Nat, NEW h \in Hashes, NEW v,
         DOMAIN f \in SUBSET Hashes
  PROVE  Retained(Noted(f, h, v), th) =
           IF 0 < h /\ h < th THEN Noted(Retained(f, th), h, v) ELSE Retained(f, th)
<1>. DEFINE F == Noted(f, h, v)
            B == Below(DOMAIN f, th)
            new == policy_update(IF h \in DOMAIN f THEN f[h] ELSE create, v)
<1>1. /\ DOMAIN F = DOMAIN f \cup {h}
      /\ F[h] = new
      /\ \A g \in DOMAIN f \ {h} : F[g] = f[g]
  BY DEF Noted
<1>2. Below(DOMAIN F, th) = IF 0 < h /\ h < th THEN B \cup {h} ELSE B
  BY <1>1, BelowAdd
<1>3. B \subseteq DOMAIN f /\ \A g \in B : 0 < g /\ g < th
  BY DEF Below
<1>4. Retained(F, th) = [g \in Below(DOMAIN F, th) |-> F[g]]
  BY DEF Retained, Restricted
<1>5. Retained(f, th) = [g \in B |-> f[g]]
  BY DEF Retained, Restricted
<1>6. CASE 0 < h /\ h < th
  <2>1. h \in B <=> h \in DOMAIN f
    BY <1>6 DEF Below
  <2>2. Noted(Retained(f, th), h, v) =
          [g \in B \cup {h} |->
             IF g = h THEN policy_update(IF h \in B THEN Retained(f, th)[h]
                                                   ELSE create, v)
                      ELSE Retained(f, th)[g]]
    BY <1>5 DEF Noted
  <2>3. h \in B => Retained(f, th)[h] = f[h]
    BY <1>5
  <2>4. policy_update(IF h \in B THEN Retained(f, th)[h] ELSE create, v) = new
    BY <2>1, <2>3
  <2>5. \A g \in B \ {h} : Retained(f, th)[g] = F[g]
    BY <1>1, <1>3, <1>5
  <2>6. Retained(F, th) = [g \in B \cup {h} |-> F[g]]
    BY <1>2, <1>4, <1>6
  <2>. HIDE DEF F, B, new
  <2>7. ASSUME NEW g \in B \cup {h}
        PROVE  F[g] = IF g = h THEN policy_update(IF h \in B THEN Retained(f, th)[h]
                                                             ELSE create, v)
                               ELSE Retained(f, th)[g]
    BY <1>1, <2>4, <2>5
  <2>8. Retained(F, th) = Noted(Retained(f, th), h, v)
    BY <2>2, <2>6, <2>7
  <2>. QED
    BY <1>6, <2>8 DEF F
<1>7. CASE ~(0 < h /\ h < th)
  <2>1. Below(DOMAIN F, th) = B /\ h \notin B
    BY <1>2, <1>3, <1>7
  <2>2. \A g \in B : F[g] = f[g]
    BY <1>1, <1>3, <2>1
  <2>. HIDE DEF F, B
  <2>3. Retained(F, th) = Retained(f, th)
    BY <1>4, <1>5, <2>1, <2>2
  <2>. QED
    BY <1>7, <2>3 DEF F
<1>. QED
  BY <1>6, <1>7

(***************************************************************************)
(* A rebuild over the finitely many entries that T retains below theta     *)
(* keeps what T retains below the new, smaller theta, and Nominal of them. *)
(***************************************************************************)
LEMMA RebuildKeepsSample ==
  ASSUME NEW T, DOMAIN T \in SUBSET Hashes, theta \in Nat,
         IsFiniteSet(Below(DOMAIN T, theta)),
         Rebuild(Retained(T, theta))
  PROVE  /\ theta' \in Nat /\ theta' <= theta
         /\ entries' = Retained(T, theta')
         /\ DOMAIN entries' \subseteq Hashes \ {0}
         /\ IsFiniteSet(DOMAIN entries')
         /\ Cardinality(DOMAIN entries') = Nominal
<1>. DEFINE f == Retained(T, theta)
            B == Below(DOMAIN T, theta)
<1>1. f = [h \in B |-> T[h]] /\ DOMAIN f = B
  BY DEF Retained, Restricted
<1>2. PICK t \in B :
        /\ Cardinality({e \in B : e < t}) = Nominal
        /\ theta' = t
        /\ entries' = Restricted(f, {e \in B : e < t})
  BY <1>1 DEF Rebuild
<1>3. /\ t \in Nat /\ t < theta
      /\ {e \in B : e < t} = Below(DOMAIN T, t)
  BY CutKeepsSample
<1>4. entries' = Restricted(f, Below(DOMAIN T, t))
  BY <1>2, <1>3
<1>5. Below(DOMAIN T, t) \subseteq B
  BY <1>3
<1>6. \A h \in Below(DOMAIN T, t) : f[h] = T[h]
  BY <1>1, <1>5
<1>7. entries' = Restricted(T, Below(DOMAIN T, t)) /\ DOMAIN entries' = Below(DOMAIN T, t)
  BY <1>4, <1>6 DEF Restricted
<1>8. IsFiniteSet(DOMAIN entries')
  BY <1>5, <1>7, FS_Subset
<1>9. DOMAIN entries' \subseteq Hashes \ {0}
  BY <1>7, HashesAssumption DEF Below
<1>. QED
  BY <1>2, <1>3, <1>7, <1>8, <1>9 DEF Retained

(* update() preserves the inductive invariant and never raises theta_.     *)
LEMMA UpdateIInv ==
  ASSUME IInv, NEW h \in Hashes, NEW v \in Values(h), Update(h, v)
  PROVE  IInv' /\ theta' <= theta
<1>. USE DEF IInv
<1>1. /\ is_empty' = FALSE /\ total' = Noted(total, h, v)
      /\ h \in Nat /\ theta \in Nat
      /\ DOMAIN total \in SUBSET Hashes
      /\ entries = Retained(total, theta)
      /\ IsFiniteSet(DOMAIN entries) /\ DOMAIN entries \subseteq Hashes \ {0}
  BY HashesAssumption DEF Update, TypeOK, SampleInv
<1>2. DOMAIN total' = DOMAIN total \cup {h}
  BY <1>1 DEF Noted
<1>3. Retained(total', theta) =
        IF 0 < h /\ h < theta THEN Noted(entries, h, v) ELSE entries
  BY <1>1, NotedRetained
<1>4. DOMAIN Noted(entries, h, v) = DOMAIN entries \cup {h}
  BY DEF Noted
<1>5. CASE Screened(h) /\ UNCHANGED <<theta, entries>>
  <2>1. Retained(total', theta') = entries
    BY <1>1, <1>3, <1>5 DEF Screened
  <2>2. theta' <= theta
    BY <1>1, <1>5
  <2>3. TypeOK' /\ SampleInv' /\ NominalInv'
    BY <1>1, <1>2, <1>5, <2>1 DEF TypeOK, SampleInv, NominalInv
  <2>. QED
    BY <2>2, <2>3
<1>6. CASE ~Screened(h) /\ entries' = Noted(entries, h, v) /\ UNCHANGED theta
  <2>1. Retained(total', theta') = entries'
    BY <1>1, <1>3, <1>6 DEF Screened
  <2>2. /\ IsFiniteSet(DOMAIN entries')
        /\ Cardinality(DOMAIN entries') \in
             {Cardinality(DOMAIN entries), Cardinality(DOMAIN entries) + 1}
    BY <1>1, <1>4, <1>6, FS_AddElement
  <2>3. Cardinality(DOMAIN entries) \in Nat
    BY <1>1, FS_CardinalityType
  <2>4. NominalInv'
    BY <1>6, <2>2, <2>3, NominalAssumption DEF NominalInv
  <2>5. theta' <= theta
    BY <1>1, <1>6
  <2>6. DOMAIN entries' \subseteq Hashes \ {0}
    BY <1>1, <1>4, <1>6 DEF Screened
  <2>7. TypeOK' /\ SampleInv'
    BY <1>1, <1>2, <1>6, <2>1, <2>2, <2>6 DEF TypeOK, SampleInv
  <2>. QED
    BY <2>4, <2>5, <2>7
<1>7. CASE ~Screened(h) /\ Rebuild(Noted(entries, h, v))
  <2>1. Noted(entries, h, v) = Retained(total', theta)
    BY <1>1, <1>3, <1>7 DEF Screened
  <2>2. IsFiniteSet(DOMAIN entries \cup {h})
    BY <1>1, FS_AddElement
  <2>3. DOMAIN Retained(total', theta) = Below(DOMAIN total', theta)
    BY DEF Retained, Restricted
  <2>4. IsFiniteSet(Below(DOMAIN total', theta))
    BY <1>4, <2>1, <2>2, <2>3
  <2>5. /\ theta' \in Nat /\ theta' <= theta
        /\ entries' = Retained(total', theta')
        /\ DOMAIN entries' \subseteq Hashes \ {0}
        /\ IsFiniteSet(DOMAIN entries')
        /\ Cardinality(DOMAIN entries') = Nominal
    <3>1. DOMAIN total' \in SUBSET Hashes
      BY <1>1, <1>2
    <3>. QED
      BY <1>1, <1>7, <2>1, <2>4, <3>1, RebuildKeepsSample
  <2>6. NominalInv'
    BY <2>5, NominalAssumption DEF NominalInv
  <2>. QED
    BY <1>1, <1>2, <2>5, <2>6 DEF TypeOK, SampleInv
<1>. QED
  BY <1>5, <1>6, <1>7 DEF Update

(* trim() preserves the inductive invariant and never raises theta_.       *)
LEMMA TrimIInv ==
  ASSUME IInv, Trim
  PROVE  IInv' /\ theta' <= theta
<1>. USE DEF IInv
<1>1. CASE Rebuild(entries)
  <2>1. DOMAIN entries = Below(DOMAIN total, theta)
    BY DEF SampleInv, Retained, Restricted
  <2>2. /\ theta' \in Nat /\ theta' <= theta
        /\ entries' = Retained(total, theta')
        /\ DOMAIN entries' \subseteq Hashes \ {0}
        /\ IsFiniteSet(DOMAIN entries')
        /\ Cardinality(DOMAIN entries') = Nominal
    BY <1>1, <2>1, RebuildKeepsSample DEF TypeOK, SampleInv
  <2>3. NominalInv'
    BY <2>2, NominalAssumption DEF NominalInv
  <2>. QED
    BY <2>2, <2>3 DEF Trim, TypeOK, SampleInv
<1>2. CASE UNCHANGED <<theta, entries>>
  BY <1>2 DEF Trim, TypeOK, SampleInv, NominalInv
<1>. QED
  BY <1>1, <1>2 DEF Trim

(* Every step of the sketch preserves the inductive invariant.             *)
LEMMA NextIInv == IInv /\ [Next]_vars => IInv'
<1>. SUFFICES ASSUME IInv, [Next]_vars PROVE IInv'
  OBVIOUS
<1>1. CASE \E h \in Hashes : \E v \in Values(h) : Update(h, v)
  BY <1>1, UpdateIInv
<1>2. CASE Trim
  BY <1>2, TrimIInv
<1>3. CASE Reset
  <2>1. DOMAIN Nothing = {} /\ Below({}, StartTheta) = {}
    BY DEF Nothing, Below
  <2>2. Nothing = Restricted(Nothing, {})
    BY DEF Nothing, Restricted
  <2>. QED
    BY <1>3, <2>1, <2>2, FS_EmptySet, StartThetaAssumption
       DEF Reset, IInv, TypeOK, Retained, SampleInv, NominalInv
<1>4. CASE UNCHANGED vars
  BY <1>4 DEF vars, IInv, TypeOK, SampleInv, NominalInv
<1>. QED
  BY <1>1, <1>2, <1>3, <1>4 DEF Next

(***************************************************************************)
(* The state of an update sketch keeps its type: theta_ a hash bound, the  *)
(* retained keys a finite set of hashes.                                   *)
(***************************************************************************)
THEOREM TypeCorrect == Spec => []TypeOK
<1>1. IInv => TypeOK
  BY DEF IInv
<1>. QED
  BY InitIInv, NextIInv, <1>1, PTL DEF Spec

(***************************************************************************)
(* Whatever the order of updates, rebuilds, trims and resets and whatever  *)
(* the policy, the retained hashes are exactly the stream's hashes below   *)
(* theta_, their summaries hold every value presented with them, and       *)
(* is_empty_ is set exactly while nothing was presented.                   *)
(***************************************************************************)
THEOREM SampleCorrect == Spec => []SampleInv
<1>1. IInv => SampleInv
  BY DEF IInv
<1>. QED
  BY InitIInv, NextIInv, <1>1, PTL DEF Spec

(* An estimating sketch holds at least its nominal number of hashes.       *)
THEOREM NominalCorrect == Spec => []NominalInv
<1>1. IInv => NominalInv
  BY DEF IInv
<1>. QED
  BY InitIInv, NextIInv, <1>1, PTL DEF Spec

(***************************************************************************)
(* No update, rebuild or trim moves theta_ up: a screened-out hash stays   *)
(* out until reset().                                                      *)
(***************************************************************************)
THEOREM ThetaMonotone == Spec => ThetaNeverRises
<1>1. ASSUME IInv, [Next]_vars
      PROVE  [theta' <= theta \/ DOMAIN total' = {}]_vars
  <2>1. CASE \E h \in Hashes : \E v \in Values(h) : Update(h, v)
    BY <1>1, <2>1, UpdateIInv
  <2>2. CASE Trim
    BY <1>1, <2>2, TrimIInv
  <2>3. CASE Reset
    BY <2>3 DEF Reset, Nothing
  <2>. QED
    BY <1>1, <2>1, <2>2, <2>3 DEF Next
<1>. QED
  BY InitIInv, NextIInv, <1>1, PTL DEF Spec, ThetaNeverRises
=============================================================================
