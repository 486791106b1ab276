----------------------- MODULE FrequentCountersProofs -----------------------
(***************************************************************************)
(* Proofs about FrequentCounters, for any finite set of items, any number  *)
(* of sketches, any weights and any size of the maps.                      *)
(***************************************************************************)
EXTENDS FrequentCounters, FiniteSetTheorems, FunctionTheorems, TLAPS

Tallies == [Items -> Nat]

(***************************************************************************)
(* Units of counters: what they are, and that there are finitely many.     *)
(***************************************************************************)
LEMMA InUnits ==
  ASSUME NEW c \in Tallies, NEW k, NEW u
  PROVE  <<k, u>> \in Units(c) <=> k \in Items /\ u \in 1 .. c[k]
BY DEF Units

LEMMA UnitsPairs ==
  ASSUME NEW c \in Tallies, NEW x \in Units(c)
  PROVE  \E k, u : k \in Items /\ u \in 1 .. c[k] /\ x = <<k, u>>
BY DEF Units

LEMMA UnitsFinite ==
  ASSUME IsFiniteSet(Items), NEW c \in Tallies
  PROVE  IsFiniteSet(Units(c)) /\ Weight(c) \in Nat
<1>. DEFINE rows == {{k} \X (1 .. c[k]) : k \in Items}
            f == [k \in Items |-> {k} \X (1 .. c[k])]
<1>1. f \in Surjection(Items, rows)
  BY DEF Surjection
<1>2. IsFiniteSet(rows)
  BY <1>1, FS_Surjection
<1>3. ASSUME NEW k \in Items
      PROVE  IsFiniteSet({k} \X (1 .. c[k]))
  <2>1. c[k] \in Int /\ 1 \in Int
    BY DEF Tallies
  <2>. QED
    BY <2>1, FS_Interval, FS_Singleton, FS_Product
<1>4. IsFiniteSet(UNION rows)
  BY <1>2, <1>3, FS_UNION
<1>. QED
  BY <1>4, FS_CardinalityType DEF Units, Weight

(***************************************************************************)
(* Weights add up: the units of c + d are those of c and, above them, as   *)
(* many as d has.                                                          *)
(***************************************************************************)
LEMMA AddType ==
  ASSUME NEW c \in Tallies, NEW d \in Tallies
  PROVE  /\ Add(c, d) \in Tallies
         /\ \A k \in Items : Add(c, d)[k] = c[k] + d[k]
BY DEF Tallies, Add

LEMMA WeightAdd ==
  ASSUME IsFiniteSet(Items), NEW c \in Tallies, NEW d \in Tallies
  PROVE  Weight(Add(c, d)) = Weight(c) + Weight(d)
<1>. DEFINE both == Units(Add(c, d))
            above == both \ Units(c)
            f == [x \in Units(d) |-> <<x[1], c[x[1]] + x[2]>>]
<1>1. \A k \in Items : c[k] \in Nat /\ d[k] \in Nat
  BY DEF Tallies
<1>2. ASSUME NEW k, NEW u
      PROVE  <<k, u>> \in above <=> k \in Items /\ u \in c[k] + 1 .. c[k] + d[k]
  BY <1>1, AddType, InUnits
<1>3. ASSUME NEW x \in above
      PROVE  \E k, u : k \in Items /\ u \in c[k] + 1 .. c[k] + d[k] /\ x = <<k, u>>
  BY <1>2, AddType, UnitsPairs
<1>4. ASSUME NEW x \in Units(d)
      PROVE  f[x] \in above /\ x = <<x[1], x[2]>> /\ x[1] \in Items /\ x[2] \in 1 .. d[x[1]]
             /\ f[x][1] = x[1] /\ f[x][2] = c[x[1]] + x[2]
  <2>1. PICK k, u : k \in Items /\ u \in 1 .. d[k] /\ x = <<k, u>>
    BY UnitsPairs
  <2>2. c[k] + u \in c[k] + 1 .. c[k] + d[k]
    BY <1>1, <2>1
  <2>. QED
    BY <2>1, <2>2, <1>2
<1>5. ASSUME NEW x \in Units(d), NEW y \in Units(d), f[x] = f[y]
      PROVE  x = y
  <2>1. x[1] = y[1] /\ c[x[1]] + x[2] = c[x[1]] + y[2]
    BY <1>4, <1>5
  <2>2. x[2] \in Nat /\ y[2] \in Nat /\ c[x[1]] \in Nat
    <3>1. /\ x[1] \in Items /\ x[2] \in 1 .. d[x[1]]
          /\ y[1] \in Items /\ y[2] \in 1 .. d[y[1]]
      BY <1>4
    <3>. QED
      BY <3>1, <1>1
  <2>3. x[2] = y[2]
    BY <2>1, <2>2
  <2>. QED
    BY <1>4, <2>1, <2>3
<1>6. ASSUME NEW y \in above
      PROVE  \E x \in Units(d) : f[x] = y
  <2>1. PICK k, u : k \in Items /\ u \in c[k] + 1 .. c[k] + d[k] /\ y = <<k, u>>
    BY <1>3
  <2>2. u - c[k] \in 1 .. d[k] /\ c[k] + (u - c[k]) = u
    BY <1>1, <2>1
  <2>3. <<k, u - c[k]>> \in Units(d)
    BY <2>1, <2>2, InUnits
  <2>. QED
    BY <2>1, <2>2, <2>3
<1>7. f \in Bijection(Units(d), above)
  BY <1>4, <1>5, <1>6 DEF Bijection, Injection, Surjection, IsInjective
<1>8. Cardinality(above) = Weight(d) /\ IsFiniteSet(above)
  BY <1>7, UnitsFinite, FS_Bijection DEF ExistsBijection, Weight
<1>9. Units(c) \subseteq both
  <2>. SUFFICES ASSUME NEW x \in Units(c) PROVE x \in both
    OBVIOUS
  <2>1. PICK k, u : k \in Items /\ u \in 1 .. c[k] /\ x = <<k, u>>
    BY UnitsPairs
  <2>2. u \in 1 .. c[k] + d[k]
    BY <1>1, <2>1
  <2>. QED
    BY <2>1, <2>2, AddType, InUnits
<1>10. both \cap Units(c) = Units(c)
  BY <1>9
<1>11. IsFiniteSet(both)
  BY AddType, UnitsFinite
<1>12. Cardinality(above) = Cardinality(both) - Cardinality(both \cap Units(c))
  BY <1>11, FS_Difference
<1>13. Weight(d) = Weight(Add(c, d)) - Weight(c)
  BY <1>8, <1>10, <1>12 DEF Weight
<1>14. Weight(c) \in Nat /\ Weight(d) \in Nat /\ Weight(Add(c, d)) \in Nat
  BY AddType, UnitsFinite
<1>. QED
  BY <1>13, <1>14

LEMMA WeightNone == None \in Tallies /\ Weight(None) = 0
<1>1. None \in Tallies /\ \A k \in Items : None[k] = 0
  BY DEF Tallies, None
<1>2. ASSUME NEW x \in Units(None) PROVE FALSE
  <2>1. PICK k, u : k \in Items /\ u \in 1 .. None[k] /\ x = <<k, u>>
    BY <1>1, UnitsPairs
  <2>. QED
    BY <1>1, <2>1
<1>3. Units(None) = {}
  BY <1>2
<1>. QED
  BY <1>1, <1>3, FS_EmptySet DEF Weight

LEMMA WeightZero ==
  ASSUME IsFiniteSet(Items), NEW c \in Tallies, Weight(c) = 0
  PROVE  c = None /\ \A k \in Items : c[k] = 0
<1>1. Units(c) = {}
  BY UnitsFinite, FS_EmptySet DEF Weight
<1>2. ASSUME NEW k \in Items PROVE c[k] = 0
  <2>1. <<k, 1>> \notin Units(c)
    BY <1>1
  <2>2. c[k] \in Nat /\ 1 \notin 1 .. c[k]
    BY <2>1, InUnits DEF Tallies
  <2>. QED
    BY <2>2
<1>. QED
  BY <1>2 DEF None, Tallies

LEMMA WeightOnly ==
  ASSUME NEW item \in Items, NEW w \in Nat
  PROVE  /\ Only(item, w) \in Tallies
         /\ Weight(Only(item, w)) = w
<1>. DEFINE o == Only(item, w)
<1>1. o \in Tallies /\ \A k \in Items : o[k] = IF k = item THEN w ELSE 0
  BY DEF Only, Tallies
<1>2. \A x : x \in Units(o) => x \in {item} \X (1 .. w)
  <2>. SUFFICES ASSUME NEW x \in Units(o) PROVE x \in {item} \X (1 .. w)
    OBVIOUS
  <2>1. PICK k, u : k \in Items /\ u \in 1 .. o[k] /\ x = <<k, u>>
    BY <1>1, UnitsPairs
  <2>2. k = item
    BY <1>1, <2>1
  <2>. QED
    BY <1>1, <2>1, <2>2
<1>3. \A u \in 1 .. w : <<item, u>> \in Units(o)
  BY <1>1, InUnits
<1>4. Units(o) = {item} \X (1 .. w)
  BY <1>2, <1>3
<1>5. IsFiniteSet(1 .. w) /\ Cardinality(1 .. w) = w
  BY FS_Interval
<1>6. IsFiniteSet({item}) /\ Cardinality({item}) = 1
  BY FS_Singleton
<1>7. Cardinality({item} \X (1 .. w)) = 1 * w
  BY <1>5, <1>6, FS_Product
<1>. QED
  BY <1>1, <1>4, <1>7 DEF Weight

-----------------------------------------------------------------------------
(* Products of naturals.                                                   *)
LEMMA Distribute ==
  ASSUME NEW m \in Nat, NEW a \in Nat, NEW b \in Nat
  PROVE  m * (a + b) = m * a + m * b /\ m * a \in Nat /\ m * b \in Nat
OBVIOUS

LEMMA ProductGrows ==
  ASSUME NEW a \in Nat, NEW b \in Nat, NEW m \in Nat, a <= b
  PROVE  a * m <= b * m
OBVIOUS

(***************************************************************************)
(* A purge takes at most its cut from every counter and, since its payers  *)
(* pay in full, at least half * cut together.                              *)
(***************************************************************************)
LEMMA LowerReduces ==
  ASSUME IsFiniteSet(Items), half \in Nat, NEW c \in Tallies, NEW cut \in Nat,
         cut = 0 \/ half <= Cardinality(Payers(c, cut))
  PROVE  Lower(c, cut) \in Tallies /\ Reduced(c, Lower(c, cut), cut)
<1>. DEFINE low == Lower(c, cut)
            paid == [k \in Items |-> IF c[k] > cut THEN cut ELSE c[k]]
            units == Payers(c, cut) \X (1 .. cut)
<1>1. \A k \in Items : c[k] \in Nat
  BY DEF Tallies
<1>2. /\ low \in Tallies
      /\ \A k \in Items : low[k] = IF c[k] > cut THEN c[k] - cut ELSE 0
  BY <1>1 DEF Lower, Tallies
<1>3. paid \in Tallies /\ \A k \in Items : paid[k] = IF c[k] > cut THEN cut ELSE c[k]
  BY <1>1 DEF Tallies
<1>4. \A k \in Items : low[k] + paid[k] = c[k]
  BY <1>1, <1>2, <1>3
<1>5. c = Add(low, paid)
  BY <1>4 DEF Add, Tallies
<1>6. Weight(c) = Weight(low) + Weight(paid)
  BY <1>2, <1>3, <1>5, WeightAdd
<1>7. units \subseteq Units(paid)
  <2>. SUFFICES ASSUME NEW k \in Payers(c, cut), NEW u \in 1 .. cut
                PROVE  <<k, u>> \in Units(paid)
    OBVIOUS
  <2>1. k \in Items /\ c[k] >= cut
    BY DEF Payers
  <2>2. paid[k] = cut
    BY <1>1, <1>3, <2>1
  <2>. QED
    BY <1>3, <2>1, <2>2, InUnits
<1>8. IsFiniteSet(Payers(c, cut)) /\ Cardinality(Payers(c, cut)) \in Nat
  BY FS_Subset, FS_CardinalityType DEF Payers
<1>9. IsFiniteSet(1 .. cut) /\ Cardinality(1 .. cut) = cut
  BY FS_Interval
<1>10. Cardinality(units) = Cardinality(Payers(c, cut)) * cut
  BY <1>8, <1>9, FS_Product
<1>11. Cardinality(units) <= Weight(paid)
  BY <1>3, <1>7, UnitsFinite, FS_Subset DEF Weight
<1>12. half * cut <= Weight(paid)
  <2>0. Weight(paid) \in Nat
    BY <1>3, UnitsFinite
  <2>1. CASE cut = 0
    BY <2>0, <2>1
  <2>2. CASE half <= Cardinality(Payers(c, cut))
    <3>1. half * cut <= Cardinality(Payers(c, cut)) * cut
      BY <2>2, <1>8, ProductGrows
    <3>2. half * cut \in Nat /\ Cardinality(Payers(c, cut)) * cut \in Nat
      BY <1>8
    <3>. QED
      BY <3>1, <3>2, <2>0, <1>10, <1>11
  <2>. QED
    BY <2>1, <2>2
<1>13. Weight(low) + half * cut <= Weight(c)
  <2>1. half * cut \in Nat /\ Weight(low) \in Nat /\ Weight(paid) \in Nat
    BY <1>2, <1>3, UnitsFinite
  <2>. QED
    BY <2>1, <1>6, <1>12
<1>14. \A k \in Items : low[k] <= c[k] /\ c[k] <= low[k] + cut
  BY <1>1, <1>2
<1>. QED
  BY <1>2, <1>13, <1>14 DEF Reduced

(***************************************************************************)
(* The loop of merge(): if b comes from a by cuts of x together, and e     *)
(* from b with d added by cuts of y, then e comes from a with d added by   *)
(* cuts of x + y.  Each update of the loop extends what was reduced so far *)
(* by one counter, which is why Merge may ask for Reduced in one step.     *)
(***************************************************************************)
THEOREM ReducedComposes ==
  ASSUME IsFiniteSet(Items), half \in Nat,
         NEW a \in Tallies, NEW b \in Tallies, NEW d \in Tallies, NEW e \in Tallies,
         NEW x \in Nat, NEW y \in Nat,
         Reduced(a, b, x), Reduced(Add(b, d), e, y)
  PROVE  Reduced(Add(a, d), e, x + y)
<1>1. /\ Weight(b) + half * x <= Weight(a)
      /\ Weight(e) + half * y <= Weight(Add(b, d))
  BY DEF Reduced
<1>2. /\ Weight(Add(b, d)) = Weight(b) + Weight(d)
      /\ Weight(Add(a, d)) = Weight(a) + Weight(d)
  BY WeightAdd
<1>3. /\ Weight(a) \in Nat /\ Weight(b) \in Nat
      /\ Weight(d) \in Nat /\ Weight(e) \in Nat
  BY UnitsFinite
<1>4. Weight(e) + half * (x + y) <= Weight(Add(a, d))
  <2>1. half * (x + y) = half * x + half * y /\ half * x \in Nat /\ half * y \in Nat
    BY Distribute
  <2>. QED
    BY <1>1, <1>2, <1>3, <2>1
<1>5. ASSUME NEW k \in Items
      PROVE  e[k] <= Add(a, d)[k] /\ Add(a, d)[k] <= e[k] + (x + y)
  <2>1. a[k] \in Nat /\ b[k] \in Nat /\ d[k] \in Nat /\ e[k] \in Nat
    BY DEF Tallies
  <2>2. Add(a, d)[k] = a[k] + d[k] /\ Add(b, d)[k] = b[k] + d[k]
    BY AddType
  <2>3. /\ b[k] <= a[k] /\ a[k] <= b[k] + x
        /\ e[k] <= Add(b, d)[k] /\ Add(b, d)[k] <= e[k] + y
    BY DEF Reduced
  <2>. QED
    BY <2>1, <2>2, <2>3
<1>. QED
  BY <1>4, <1>5 DEF Reduced

-----------------------------------------------------------------------------
(***************************************************************************)
(* BoundsHold is inductive with the types; ErrorBounded is not: a sketch   *)
(* that holds nothing but its bound could not pay for the next purge.  The *)
(* strengthening counts the weight still in the counters as well.          *)
(***************************************************************************)
Paid == \A s \in Sketches : Weight(counter[s]) + half * offset[s] <= total[s]

IInv == TypeOK /\ BoundsHold /\ Paid

(* New sketches have nothing and owe nothing.                              *)
LEMMA InitIInv == IsFiniteSet(Items) /\ Init => IInv
<1>. SUFFICES ASSUME IsFiniteSet(Items), Init PROVE IInv
  OBVIOUS
<1>1. TypeOK
  BY WeightNone DEF Init, TypeOK, Tallies
<1>2. \A s \in Sketches : /\ counter[s] = None /\ truth[s] = None
                          /\ offset[s] = 0 /\ total[s] = 0
  BY DEF Init
<1>3. \A k \in Items : None[k] = 0
  BY DEF None
<1>4. BoundsHold
  BY <1>2, <1>3, WeightNone DEF BoundsHold
<1>5. Paid
  BY <1>1, <1>2, WeightNone DEF Paid, TypeOK
<1>. QED
  BY <1>1, <1>4, <1>5 DEF IInv

(***************************************************************************)
(* One sketch takes in tallies d of real weight t, with o owed on them:    *)
(* what updates and merges have in common.                                 *)
(***************************************************************************)
LEMMA TakeIn ==
  ASSUME IsFiniteSet(Items), half \in Nat,
         NEW c \in Tallies, NEW d \in Tallies, NEW e \in Tallies,
         NEW o \in Nat, NEW p \in Nat, NEW cut \in Nat,
         NEW m \in Nat, NEW n \in Nat,
         Weight(c) + half * o <= m, Weight(d) + half * p <= n,
         Reduced(Add(c, d), e, cut)
  PROVE  Weight(e) + half * (o + p + cut) <= m + n
<1>1. Weight(e) + half * cut <= Weight(c) + Weight(d)
  BY WeightAdd DEF Reduced
<1>2. Weight(c) \in Nat /\ Weight(d) \in Nat /\ Weight(e) \in Nat
  BY UnitsFinite
<1>3. half * (o + p + cut) = half * (o + p) + half * cut
  BY Distribute
<1>4. half * (o + p) = half * o + half * p
  BY Distribute
<1>5. half * o \in Nat /\ half * p \in Nat /\ half * cut \in Nat
  BY Distribute
<1>. QED
  BY <1>1, <1>2, <1>3, <1>4, <1>5

(* the estimates c of the true counts f, too low by at most o               *)
Within(c, f, o) == \A k \in Items : c[k] <= f[k] /\ f[k] <= c[k] + o

LEMMA BoundsAdd ==
  ASSUME NEW c \in Tallies, NEW d \in Tallies, NEW e \in Tallies,
         NEW f \in Tallies, NEW g \in Tallies,
         NEW o \in Nat, NEW p \in Nat, NEW cut \in Nat,
         Within(c, f, o), Within(d, g, p), Reduced(Add(c, d), e, cut)
  PROVE  Within(e, Add(f, g), o + p + cut)
<1>. SUFFICES ASSUME NEW k \in Items
              PROVE  /\ e[k] <= Add(f, g)[k]
                     /\ Add(f, g)[k] <= e[k] + (o + p + cut)
  BY DEF Within
<1>. USE DEF Within
<1>1. /\ c[k] \in Nat /\ d[k] \in Nat /\ e[k] \in Nat
      /\ f[k] \in Nat /\ g[k] \in Nat
  BY DEF Tallies
<1>2. Add(c, d)[k] = c[k] + d[k] /\ Add(f, g)[k] = f[k] + g[k]
  BY AddType
<1>3. e[k] <= Add(c, d)[k] /\ Add(c, d)[k] <= e[k] + cut
  BY DEF Reduced
<1>. QED
  BY <1>1, <1>2, <1>3

-----------------------------------------------------------------------------
(* An update and the purge after it keep the invariant.                    *)
LEMMA UpdateIInv ==
  ASSUME IsFiniteSet(Items), IInv, NEW s \in Sketches, NEW item \in Items,
         NEW w \in Nat, Update(s, item, w)
  PROVE  IInv'
<1>. DEFINE c == counter[s]
            d == Only(item, w)
            fed == Add(c, d)
<1>1. /\ c \in Tallies /\ truth[s] \in Tallies
      /\ offset[s] \in Nat /\ total[s] \in Nat /\ half \in Nat
  BY DEF IInv, TypeOK, Tallies
<1>2. d \in Tallies /\ Weight(d) = w
  BY WeightOnly
<1>3. fed \in Tallies /\ Add(truth[s], d) \in Tallies
  BY <1>1, <1>2, AddType
<1>4. PICK cut \in {0} \cup {fed[k] : k \in Items} :
        /\ cut = 0 \/ half <= Cardinality(Payers(fed, cut))
        /\ offset' = [offset EXCEPT ![s] = @ + cut]
        /\ counter' = [counter EXCEPT ![s] = Lower(fed, cut)]
  BY DEF Update
<1>5. cut \in Nat
  BY <1>3 DEF Tallies
<1>6. Lower(fed, cut) \in Tallies /\ Reduced(fed, Lower(fed, cut), cut)
  BY <1>1, <1>3, <1>4, <1>5, LowerReduces
<1>7. /\ total' = [total EXCEPT ![s] = @ + w]
      /\ truth' = [truth EXCEPT ![s] = Add(@, d)]
      /\ dropped' = dropped /\ half' = half
  BY DEF Update
<1>8. Sketches' = Sketches
  BY <1>4 DEF Sketches
<1>9. TypeOK'
  <2>1. counter' \in [Sketches -> [Items -> Nat]]
    BY <1>4, <1>6 DEF IInv, TypeOK, Tallies
  <2>2. truth' \in [Sketches -> [Items -> Nat]]
    BY <1>3, <1>7 DEF IInv, TypeOK, Tallies
  <2>3. offset' \in [Sketches -> Nat] /\ total' \in [Sketches -> Nat]
    BY <1>4, <1>5, <1>7 DEF IInv, TypeOK
  <2>. QED
    BY <1>7, <1>8, <2>1, <2>2, <2>3 DEF IInv, TypeOK
<1>10. /\ counter'[s] = Lower(fed, cut) /\ offset'[s] = offset[s] + cut
       /\ total'[s] = total[s] + w /\ truth'[s] = Add(truth[s], d)
  BY <1>4, <1>7 DEF IInv, TypeOK
<1>11. \A r \in Sketches : r # s =>
         /\ counter'[r] = counter[r] /\ offset'[r] = offset[r]
         /\ total'[r] = total[r] /\ truth'[r] = truth[r]
  BY <1>4, <1>7 DEF IInv, TypeOK
<1>12. offset[s] + 0 + cut = offset[s] + cut /\ half * 0 = 0 /\ w + 0 = w
  BY <1>1, <1>5
<1>13. Paid'
  <2>1. Weight(c) + half * offset[s] <= total[s]
    BY DEF IInv, Paid
  <2>2. Weight(d) + half * 0 <= w
    BY <1>2, <1>12
  <2>3. Weight(Lower(fed, cut)) + half * (offset[s] + 0 + cut) <= total[s] + w
    BY <1>1, <1>2, <1>5, <1>6, <2>1, <2>2, TakeIn
  <2>4. Weight(counter'[s]) + half * offset'[s] <= total'[s]
    BY <1>10, <1>12, <2>3
  <2>. QED
    BY <1>7, <1>8, <1>11, <2>4 DEF IInv, Paid, Weight
<1>14. BoundsHold'
  <2>1. ASSUME ~dropped[s]
        PROVE  /\ total'[s] = Weight(truth'[s])
               /\ \A k \in Items : /\ counter'[s][k] <= truth'[s][k]
                                   /\ truth'[s][k] <= counter'[s][k] + offset'[s]
    <3>1. /\ total[s] = Weight(truth[s])
          /\ \A k \in Items : c[k] <= truth[s][k] /\ truth[s][k] <= c[k] + offset[s]
      BY <2>1 DEF IInv, BoundsHold
    <3>2. Weight(Add(truth[s], d)) = total[s] + w
      BY <1>1, <1>2, <3>1, WeightAdd
    <3>3. Within(d, d, 0) /\ Within(c, truth[s], offset[s])
      BY <1>2, <3>1 DEF Tallies, Within
    <3>4. Within(Lower(fed, cut), Add(truth[s], d), offset[s] + 0 + cut)
      BY <1>1, <1>2, <1>5, <1>6, <3>3, BoundsAdd
    <3>. QED
      BY <1>10, <1>12, <3>2, <3>4 DEF Within
  <2>. QED
    BY <1>7, <1>8, <1>11, <2>1 DEF IInv, BoundsHold, Weight
<1>. QED
  BY <1>9, <1>13, <1>14 DEF IInv

(***************************************************************************)
(* Merging keeps the invariant.  A source without counters adds nothing;   *)
(* it stands for an empty stream or its target is marked.                  *)
(***************************************************************************)
LEMMA MergeIInv ==
  ASSUME IsFiniteSet(Items), IInv, NEW s \in Sketches, NEW t \in Sketches, Merge(s, t)
  PROVE  IInv'
<1>. DEFINE c == counter[s]
            d == counter[t]
<1>1. /\ c \in Tallies /\ truth[s] \in Tallies /\ d \in Tallies /\ truth[t] \in Tallies
      /\ offset[s] \in Nat /\ total[s] \in Nat /\ half \in Nat
      /\ offset[t] \in Nat /\ total[t] \in Nat
  BY DEF IInv, TypeOK, Tallies
<1>2. /\ truth' = [truth EXCEPT ![s] = Add(@, truth[t])]
      /\ dropped' = [dropped EXCEPT ![s] = @ \/ dropped[t] \/ PurgedEmpty(t)]
      /\ half' = half
  BY DEF Merge
<1>3. Add(truth[s], truth[t]) \in Tallies
  BY <1>1, AddType
<1>4. truth' \in [Sketches -> [Items -> Nat]] /\ dropped' \in [Sketches -> BOOLEAN]
  BY <1>2, <1>3 DEF IInv, TypeOK, Tallies
<1>5. /\ truth'[s] = Add(truth[s], truth[t])
      /\ \A r \in Sketches : r # s => truth'[r] = truth[r] /\ dropped'[r] = dropped[r]
  BY <1>2 DEF IInv, TypeOK
<1>6. ASSUME ~dropped'[s]
      PROVE  ~dropped[s] /\ ~dropped[t] /\ ~PurgedEmpty(t)
  BY <1>2, <1>6 DEF IInv, TypeOK
<1>7. CASE Empty(t)
  <2>1. counter' = counter /\ offset' = offset /\ total' = total
    BY <1>7 DEF Merge
  <2>2. Sketches' = Sketches
    BY <2>1 DEF Sketches
  <2>3. TypeOK'
    BY <1>2, <1>4, <2>1, <2>2 DEF IInv, TypeOK
  <2>4. Paid'
    BY <1>2, <2>1, <2>2 DEF IInv, Paid, Weight
  <2>5. ASSUME ~dropped'[s]
        PROVE  /\ total[s] = Weight(truth'[s])
               /\ \A k \in Items : /\ c[k] <= truth'[s][k]
                                   /\ truth'[s][k] <= c[k] + offset[s]
    <3>1. /\ total[s] = Weight(truth[s]) /\ total[t] = Weight(truth[t])
          /\ \A k \in Items : c[k] <= truth[s][k] /\ truth[s][k] <= c[k] + offset[s]
      BY <1>6, <2>5 DEF IInv, BoundsHold
    <3>2. total[t] = 0
      BY <1>1, <1>6, <1>7, <2>5 DEF PurgedEmpty
    <3>3. \A k \in Items : truth[t][k] = 0
      BY <1>1, <3>1, <3>2, WeightZero
    <3>4. Weight(Add(truth[s], truth[t])) = total[s]
      <4>1. Weight(Add(truth[s], truth[t])) = Weight(truth[s]) + Weight(truth[t])
        BY <1>1, WeightAdd
      <4>2. total[s] + 0 = total[s]
        BY <1>1
      <4>. QED
        BY <3>1, <3>2, <4>1, <4>2
    <3>5. \A k \in Items : Add(truth[s], truth[t])[k] = truth[s][k]
      BY <1>1, <3>3, AddType DEF Tallies
    <3>. QED
      BY <1>5, <3>1, <3>4, <3>5
  <2>6. BoundsHold'
    BY <1>5, <2>1, <2>2, <2>5 DEF IInv, BoundsHold, Weight
  <2>. QED
    BY <2>3, <2>4, <2>6 DEF IInv
<1>8. CASE ~Empty(t)
  <2>. DEFINE e == counter'[s]
  <2>1. total' = [total EXCEPT ![s] = @ + total[t]]
    BY <1>8 DEF Merge
  <2>2. PICK cut \in 0 .. offset'[s] :
          /\ offset' = [offset EXCEPT ![s] = @ + offset[t] + cut]
          /\ e \in Tallies
          /\ counter' = [counter EXCEPT ![s] = e]
          /\ Reduced(Add(c, d), e, cut)
    BY <1>8 DEF Merge, Tallies
  <2>3. cut \in Nat
    BY <2>2
  <2>4. Sketches' = Sketches
    BY <2>2 DEF Sketches
  <2>5. TypeOK'
    <3>1. counter' \in [Sketches -> [Items -> Nat]]
      BY <2>2 DEF IInv, TypeOK, Tallies
    <3>2. offset' \in [Sketches -> Nat] /\ total' \in [Sketches -> Nat]
      BY <1>1, <2>1, <2>2, <2>3 DEF IInv, TypeOK
    <3>. QED
      BY <1>2, <1>4, <2>4, <3>1, <3>2 DEF IInv, TypeOK
  <2>6. offset'[s] = offset[s] + offset[t] + cut /\ total'[s] = total[s] + total[t]
    BY <2>1, <2>2 DEF IInv, TypeOK
  <2>7. \A r \in Sketches : r # s =>
          counter'[r] = counter[r] /\ offset'[r] = offset[r] /\ total'[r] = total[r]
    BY <2>1, <2>2 DEF IInv, TypeOK
  <2>8. Paid'
    <3>1. /\ Weight(c) + half * offset[s] <= total[s]
          /\ Weight(d) + half * offset[t] <= total[t]
      BY DEF IInv, Paid
    <3>2. e \in Tallies /\ Reduced(Add(c, d), e, cut)
      BY <2>2
    <3>3. Weight(e) + half * (offset[s] + offset[t] + cut) <= total[s] + total[t]
      <4>. HIDE DEF c, d, e
      <4>. QED
        BY <1>1, <2>3, <3>1, <3>2, TakeIn
    <3>4. Weight(e) + half * offset'[s] <= total'[s]
      BY <2>6, <3>3
    <3>. QED
      BY <1>2, <2>4, <2>7, <3>4 DEF IInv, Paid, Weight
  <2>9. ASSUME ~dropped'[s]
        PROVE  /\ total'[s] = Weight(truth'[s])
               /\ \A k \in Items : /\ e[k] <= truth'[s][k]
                                   /\ truth'[s][k] <= e[k] + offset'[s]
    <3>1. /\ total[s] = Weight(truth[s]) /\ total[t] = Weight(truth[t])
          /\ \A k \in Items : c[k] <= truth[s][k] /\ truth[s][k] <= c[k] + offset[s]
          /\ \A k \in Items : d[k] <= truth[t][k] /\ truth[t][k] <= d[k] + offset[t]
      BY <1>6, <2>9 DEF IInv, BoundsHold
    <3>2. Weight(Add(truth[s], truth[t])) = total[s] + total[t]
      BY <1>1, <3>1, WeightAdd
    <3>3. Within(c, truth[s], offset[s]) /\ Within(d, truth[t], offset[t])
      BY <3>1 DEF Within
    <3>4. Within(e, Add(truth[s], truth[t]), offset[s] + offset[t] + cut)
      BY <1>1, <2>2, <2>3, <3>3, BoundsAdd
    <3>. QED
      BY <1>5, <2>6, <3>2, <3>4 DEF Within
  <2>10. BoundsHold'
    BY <1>5, <2>4, <2>7, <2>9 DEF IInv, BoundsHold, Weight
  <2>. QED
    BY <2>5, <2>8, <2>10 DEF IInv
<1>. QED
  BY <1>7, <1>8

(* Storing and loading keeps the invariant: a sketch with counters is read *)
(* back whole, and one without counters stands for an empty stream or is   *)
(* marked.                                                                 *)
LEMMA StoreAndLoadIInv ==
  ASSUME IsFiniteSet(Items), IInv, NEW s \in Sketches, StoreAndLoad(s)
  PROVE  IInv'
<1>1. /\ counter' = counter /\ truth' = truth /\ half' = half
      /\ dropped' = [dropped EXCEPT ![s] = @ \/ PurgedEmpty(s)]
      /\ total' = [total EXCEPT ![s] = IF Empty(s) THEN 0 ELSE @]
      /\ offset' = [offset EXCEPT ![s] = IF Empty(s) THEN 0 ELSE @]
  BY DEF StoreAndLoad
<1>2. Sketches' = Sketches
  BY <1>1 DEF Sketches
<1>3. dropped' \in [Sketches -> BOOLEAN]
  BY <1>1 DEF IInv, TypeOK
<1>4. total' \in [Sketches -> Nat] /\ offset' \in [Sketches -> Nat]
  BY <1>1 DEF IInv, TypeOK
<1>5. TypeOK'
  BY <1>1, <1>2, <1>3, <1>4 DEF IInv, TypeOK
<1>6. \A r \in Sketches : r # s =>
        dropped'[r] = dropped[r] /\ total'[r] = total[r] /\ offset'[r] = offset[r]
  BY <1>1 DEF IInv, TypeOK
<1>7. ASSUME ~dropped'[s]
      PROVE  ~dropped[s] /\ ~PurgedEmpty(s)
  BY <1>1, <1>7 DEF IInv, TypeOK
<1>8. CASE Empty(s)
  <2>1. total'[s] = 0 /\ offset'[s] = 0 /\ half * 0 = 0 /\ half \in Nat
    BY <1>1, <1>8 DEF IInv, TypeOK
  <2>2. counter[s] = None
    BY <1>8 DEF Empty, None, IInv, TypeOK
  <2>3. Weight(counter[s]) = 0
    BY <2>2, WeightNone
  <2>4. Paid'
    <3>1. Weight(counter[s]) + half * offset'[s] <= total'[s]
      BY <2>1, <2>3
    <3>. QED
      BY <1>1, <1>2, <1>6, <3>1 DEF IInv, Paid, Weight
  <2>5. ASSUME ~dropped'[s]
        PROVE  /\ total'[s] = Weight(truth[s])
               /\ \A k \in Items : /\ counter[s][k] <= truth[s][k]
                                   /\ truth[s][k] <= counter[s][k] + offset'[s]
    <3>1. total[s] = Weight(truth[s])
      BY <1>7, <2>5 DEF IInv, BoundsHold
    <3>2. total[s] = 0
      BY <1>7, <1>8, <2>5 DEF PurgedEmpty, IInv, TypeOK
    <3>3. truth[s] \in Tallies
      BY DEF IInv, TypeOK, Tallies
    <3>4. \A k \in Items : truth[s][k] = 0
      BY <3>1, <3>2, <3>3, WeightZero
    <3>5. \A k \in Items : counter[s][k] = 0
      BY <2>2 DEF None
    <3>. QED
      BY <2>1, <3>1, <3>2, <3>4, <3>5
  <2>6. BoundsHold'
    BY <1>1, <1>2, <1>6, <2>5 DEF IInv, BoundsHold, Weight
  <2>. QED
    BY <1>5, <2>4, <2>6 DEF IInv
<1>9. CASE ~Empty(s)
  <2>1. total'[s] = total[s] /\ offset'[s] = offset[s]
    BY <1>1, <1>9 DEF IInv, TypeOK
  <2>2. Paid'
    BY <1>1, <1>2, <1>6, <2>1 DEF IInv, Paid, Weight
  <2>3. BoundsHold'
    <3>1. \A r \in Sketches : /\ dropped'[r] \/ ~dropped[r]
                              /\ total'[r] = total[r] /\ offset'[r] = offset[r]
      BY <1>6, <1>7, <2>1
    <3>. QED
      BY <1>1, <1>2, <3>1 DEF IInv, BoundsHold, Weight
  <2>. QED
    BY <1>5, <2>2, <2>3 DEF IInv
<1>. QED
  BY <1>8, <1>9

(* Every step keeps the invariant.                                         *)
LEMMA NextIInv ==
  ASSUME IsFiniteSet(Items), IInv, [Next]_vars
  PROVE  IInv'
<1>1. CASE Next
  <2>1. ASSUME NEW s \in Sketches, NEW item \in Items, NEW w \in 1 .. total'[s],
               Update(s, item, w)
        PROVE  IInv'
    <3>1. w \in Nat
      OBVIOUS
    <3>. QED
      BY <2>1, <3>1, UpdateIInv
  <2>2. ASSUME NEW s \in Sketches, NEW t \in Sketches, Merge(s, t)
        PROVE  IInv'
    BY <2>2, MergeIInv
  <2>3. ASSUME NEW s \in Sketches, StoreAndLoad(s)
        PROVE  IInv'
    BY <2>3, StoreAndLoadIInv
  <2>. QED
    BY <1>1, <2>1, <2>2, <2>3 DEF Next
<1>2. CASE UNCHANGED vars
  BY <1>2 DEF vars, IInv, TypeOK, BoundsHold, Paid, Sketches, Weight
<1>. QED
  BY <1>1, <1>2

(***************************************************************************)
(* For any finite set of items, any number of sketches and any weights:    *)
(* get_lower_bound() and get_upper_bound() enclose the weight of every     *)
(* item after any sequence of updates with purges, merges and round trips  *)
(* through an image, and get_total_weight() is the weight of the streams.  *)
(***************************************************************************)
THEOREM BoundsCorrect == IsFiniteSet(Items) /\ Spec => []BoundsHold
<1>. SUFFICES ASSUME IsFiniteSet(Items)
              PROVE  Spec => []BoundsHold
  OBVIOUS
<1>1. Init => IInv
  BY InitIInv
<1>2. IInv /\ [Next]_vars => IInv'
  BY NextIInv
<1>3. IInv => BoundsHold
  BY DEF IInv
<1>. QED
  BY <1>1, <1>2, <1>3, PTL DEF Spec

(***************************************************************************)
(* get_maximum_error() times half the counters a purge looks at never      *)
(* exceeds the total weight: what the purges take away was paid for.       *)
(***************************************************************************)
THEOREM ErrorCorrect == IsFiniteSet(Items) /\ Spec => []ErrorBounded
<1>. SUFFICES ASSUME IsFiniteSet(Items)
              PROVE  Spec => []ErrorBounded
  OBVIOUS
<1>1. Init => IInv
  BY InitIInv
<1>2. IInv /\ [Next]_vars => IInv'
  BY NextIInv
<1>3. IInv => ErrorBounded
  <2>. SUFFICES ASSUME IInv, NEW s \in Sketches
                PROVE  half * offset[s] <= total[s]
    BY DEF ErrorBounded
  <2>1. /\ counter[s] \in Tallies /\ offset[s] \in Nat
        /\ total[s] \in Nat /\ half \in Nat
    BY DEF IInv, TypeOK, Tallies
  <2>2. Weight(counter[s]) \in Nat
    BY <2>1, UnitsFinite
  <2>3. half * offset[s] \in Nat
    BY <2>1, Distribute
  <2>4. Weight(counter[s]) + half * offset[s] <= total[s]
    BY DEF IInv, Paid
  <2>. QED
    BY <2>1, <2>2, <2>3, <2>4
<1>. QED
  BY <1>1, <1>2, <1>3, PTL DEF Spec
=============================================================================
