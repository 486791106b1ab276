----------------------------- MODULE Arithmetic -----------------------------
(***************************************************************************)
(* Facts about naturals, powers of two and finite sets of naturals that    *)
(* the proofs about hash tables rest on.  Induction is done on the least   *)
(* counterexample, which is a set and not a predicate.                     *)
(***************************************************************************)
EXTENDS Integers, FiniteSets, FiniteSetTheorems, WellFoundedInduction, TLAPS

(* A set of naturals that is not empty has a least element: what takes the *)
(* place of induction below.                                               *)
LEMMA LeastNat ==
  ASSUME NEW T \in SUBSET Nat, T # {}
  PROVE  \E m \in T : \A k \in T : m <= k
<1>. DEFINE R == {ss \in Nat \X Nat : ss[1] < ss[2]}
<1>1. IsWellFoundedOn(R, Nat)
  BY NatLessThanWellFounded DEF OpToRel
<1>2. \A k, m \in Nat : k < m => <<k, m>> \in R
  OBVIOUS
<1>. HIDE DEF R
<1>3. PICK m \in T : \A k \in T : ~(<<k, m>> \in R)
  BY <1>1, WFMin
<1>4. \A k \in T : m <= k
  <2>. SUFFICES ASSUME NEW k \in T PROVE ~(k < m)
    OBVIOUS
  <2>. QED
    BY <1>2, <1>3
<1>. QED
  BY <1>4

(* Table sizes are positive: 2^n is the number of subsets of n elements.   *)
LEMMA PowerType ==
  ASSUME NEW n \in Nat
  PROVE  2^n \in Nat \ {0}
<1>1. IsFiniteSet(1 .. n) /\ Cardinality(1 .. n) = n
  BY FS_Interval
<1>2. IsFiniteSet(SUBSET (1 .. n)) /\ Cardinality(SUBSET (1 .. n)) = 2^n
  BY <1>1, FS_SUBSET
<1>3. SUBSET (1 .. n) # {}
  OBVIOUS
<1>. QED
  BY <1>2, <1>3, FS_CardinalityType, FS_EmptySet

(* The table of size 2^0.                                                  *)
LEMMA PowerZero == 2^0 = 1
<1>1. IsFiniteSet({}) /\ Cardinality({}) = 0
  BY FS_EmptySet
<1>2. Cardinality(SUBSET {}) = 2^0
  BY <1>1, FS_SUBSET
<1>3. SUBSET {} = {{}}
  OBVIOUS
<1>. QED
  BY <1>2, <1>3, FS_Singleton

(* A subset of n + 1 elements has the last one or has it not, so that a    *)
(* table one step larger is twice as large.                                *)
LEMMA PowerNext ==
  ASSUME NEW n \in Nat
  PROVE  2^(n + 1) = 2 * 2^n
<1>. DEFINE A == SUBSET (1 .. n)
            B == {s \cup {n + 1} : s \in A}
<1>1. IsFiniteSet(1 .. n) /\ Cardinality(1 .. n) = n
  BY FS_Interval
<1>2. IsFiniteSet(1 .. n + 1) /\ Cardinality(1 .. n + 1) = n + 1
  BY FS_Interval
<1>3. IsFiniteSet(A) /\ Cardinality(A) = 2^n
  BY <1>1, FS_SUBSET
<1>4. Cardinality(SUBSET (1 .. n + 1)) = 2^(n + 1)
  BY <1>2, FS_SUBSET
<1>5. 1 .. n + 1 = (1 .. n) \cup {n + 1} /\ n + 1 \notin 1 .. n
  OBVIOUS
<1>6. SUBSET (1 .. n + 1) = A \cup B
  <2>1. ASSUME NEW s \in SUBSET (1 .. n + 1) PROVE s \in A \cup B
    <3>1. CASE n + 1 \in s
      <4>1. s \ {n + 1} \in A /\ s = (s \ {n + 1}) \cup {n + 1}
        BY <1>5, <3>1
      <4>. QED BY <4>1
    <3>2. CASE n + 1 \notin s
      BY <1>5, <3>2
    <3>. QED BY <3>1, <3>2
  <2>2. ASSUME NEW s \in A
        PROVE  s \in SUBSET (1 .. n + 1) /\ s \cup {n + 1} \in SUBSET (1 .. n + 1)
    <3>1. \A x : x \in 1 .. n \/ x = n + 1 => x \in 1 .. n + 1
      OBVIOUS
    <3>. QED
      BY <3>1, Zenon
  <2>3. ASSUME NEW s \in B PROVE s \in SUBSET (1 .. n + 1)
    <3>1. PICK r \in A : s = r \cup {n + 1}
      OBVIOUS
    <3>. HIDE DEF A, B
    <3>. QED
      BY <2>2, <3>1
  <2>. HIDE DEF B
  <2>. QED BY <2>1, <2>2, <2>3
<1>7. A \cap B = {}
  BY <1>5
<1>8. ExistsBijection(A, B)
  <2>. DEFINE f == [s \in A |-> s \cup {n + 1}]
  <2>1. f \in [A -> B]
    OBVIOUS
  <2>2. \A s, r \in A : f[s] = f[r] => s = r
    <3>. SUFFICES ASSUME NEW s \in A, NEW r \in A, s \cup {n + 1} = r \cup {n + 1}
                 PROVE  s = r
      OBVIOUS
    <3>1. n + 1 \notin s /\ n + 1 \notin r
      BY <1>5
    <3>. QED BY <3>1
  <2>3. \A b \in B : \E s \in A : f[s] = b
    OBVIOUS
  <2>4. f \in Bijection(A, B)
    BY <2>1, <2>2, <2>3 DEF Bijection, Injection, Surjection, IsInjective
  <2>. QED BY <2>4 DEF ExistsBijection
<1>9. IsFiniteSet(B) /\ Cardinality(B) = 2^n
  BY <1>3, <1>8, FS_Bijection
<1>. HIDE DEF A, B
<1>10. Cardinality(A \cap B) = 0
  BY <1>7, FS_EmptySet
<1>11. PICK p \in Nat : p = 2^n
  BY PowerType
<1>12. Cardinality(A \cup B) = p + p - 0
  BY <1>3, <1>9, <1>10, <1>11, FS_Union
<1>13. Cardinality(A \cup B) = 2 * p
  BY <1>12
<1>. QED
  BY <1>4, <1>6, <1>11, <1>13
(* x = q * m + r with r < m.                                               *)
LEMMA DivMod ==
  ASSUME NEW x \in Nat, NEW m \in Nat \ {0}
  PROVE  /\ x % m \in 0 .. m - 1
         /\ \E q \in Nat : x = q * m + (x % m)
<1>1. /\ x % m \in 0 .. m - 1 /\ x \div m \in Nat
      /\ x = m * (x \div m) + (x % m)
  OBVIOUS
<1>2. PICK q \in Nat : q = x \div m
  BY <1>1
<1>3. PICK r \in Nat : r = x % m
  BY <1>1
<1>4. x = q * m + r
  BY <1>1, <1>2, <1>3
<1>. QED
  BY <1>1, <1>3, <1>4

(* Two numbers with one remainder differ by a multiple of the modulus.     *)
LEMMA SameRemainder ==
  ASSUME NEW x \in Nat, NEW y \in Nat, NEW m \in Nat \ {0}, x <= y, x % m = y % m
  PROVE  \E q \in Nat : y - x = q * m
<1>1. PICK a \in Nat : x = a * m + (x % m)
  BY DivMod
<1>2. PICK b \in Nat : y = b * m + (y % m)
  BY DivMod
<1>3. PICK r \in Nat : r = x % m
  BY DivMod
<1>4. x = a * m + r /\ y = b * m + r
  BY <1>1, <1>2, <1>3
<1>5. y - x = (b - a) * m
  BY <1>4
<1>6. b - a >= 0
  BY <1>5
<1>. QED
  BY <1>5, <1>6

(* A larger lg size is no smaller table.                                   *)
LEMMA PowerGrows ==
  ASSUME NEW m \in Nat, NEW n \in Nat, m <= n
  PROVE  2^m <= 2^n
<1>. DEFINE Bad == {k \in Nat : m <= k /\ ~(2^m <= 2^k)}
<1>. SUFFICES ASSUME Bad # {} PROVE FALSE
  OBVIOUS
<1>1. PICK k \in Bad : \A j \in Bad : k <= j
  BY LeastNat
<1>2. k \in Nat /\ m <= k /\ ~(2^m <= 2^k)
  OBVIOUS
<1>. HIDE DEF Bad
<1>3. 2^m \in Nat
  BY PowerType
<1>4. k # m
  BY <1>2, <1>3
<1>5. k - 1 \in Nat /\ m <= k - 1 /\ k = (k - 1) + 1
  BY <1>2, <1>4
<1>6. k - 1 \notin Bad
  BY <1>1, <1>2
<1>7. 2^m <= 2^(k - 1)
  BY <1>5, <1>6 DEF Bad
<1>8. PICK p \in Nat : p = 2^(k - 1)
  BY <1>5, PowerType
<1>9. 2^k = 2 * p
  BY <1>5, <1>8, PowerNext
<1>. QED
  BY <1>2, <1>3, <1>7, <1>8, <1>9

(* An odd number does not divide a power of two: the multiples of an odd   *)
(* stride come back to a slot only after a whole round of the table.       *)
LEMMA OddFactor ==
  ASSUME NEW r \in Nat
  PROVE  \A n \in Nat : ~\E d, q \in Nat : /\ 0 < d /\ d < 2^n
                                           /\ (2 * r + 1) * d = q * 2^n
<1>. DEFINE Bad == {n \in Nat : \E d, q \in Nat : /\ 0 < d /\ d < 2^n
                                                  /\ (2 * r + 1) * d = q * 2^n}
<1>. SUFFICES ASSUME Bad # {} PROVE FALSE
  OBVIOUS
<1>1. PICK n \in Bad : \A k \in Bad : n <= k
  BY LeastNat
<1>2. PICK d \in Nat, q \in Nat : 0 < d /\ d < 2^n /\ (2 * r + 1) * d = q * 2^n
  BY <1>1
<1>0. n \in Nat
  OBVIOUS
<1>. HIDE DEF Bad
<1>3. ASSUME n = 0 PROVE FALSE
  <2>1. d < 1
    BY <1>2, <1>3, PowerZero
  <2>. QED
    BY <1>2, <2>1
<1>4. PICK k \in Nat : n = k + 1
  <2>1. n - 1 \in Nat /\ n = (n - 1) + 1
    BY <1>0, <1>3
  <2>. QED
    BY <2>1
<1>5. PICK p \in Nat : p = 2^k
  BY PowerType
<1>6. 2^n = 2 * p
  BY <1>4, <1>5, PowerNext
<1>7. PICK e \in Nat : d = 2 * e
  <2>1. PICK rd \in Nat : rd = r * d
    OBVIOUS
  <2>2. PICK qp \in Nat : qp = q * p
    OBVIOUS
  <2>3. (2 * r + 1) * d = 2 * rd + d
    BY <2>1
  <2>4. q * (2 * p) = 2 * qp
    BY <2>2
  <2>5. d = 2 * (qp - rd)
    BY <1>2, <1>6, <2>3, <2>4
  <2>6. qp - rd \in Nat
    BY <1>2, <2>5
  <2>. QED
    BY <2>5, <2>6
<1>8. 0 < e /\ e < p
  BY <1>2, <1>6, <1>7
<1>9. (2 * r + 1) * e = q * p
  <2>1. PICK a \in Nat : a = (2 * r + 1) * e
    OBVIOUS
  <2>2. PICK b \in Nat : b = q * p
    OBVIOUS
  <2>3. (2 * r + 1) * d = 2 * a
    BY <1>7, <2>1
  <2>4. q * (2 * p) = 2 * b
    BY <2>2
  <2>. QED
    BY <1>2, <1>6, <2>1, <2>2, <2>3, <2>4
<1>10. k \in Bad
  BY <1>5, <1>8, <1>9 DEF Bad
<1>. QED
  <2>1. k + 1 <= k
    BY <1>1, <1>4, <1>10
  <2>. QED BY <2>1
-----------------------------------------------------------------------------
(* The elements of a finite set of naturals by their rank.                 *)
LessIn(S, e) == {d \in S : d < e}

(* The larger of two elements has the higher rank.                         *)
LEMMA RankGrows ==
  ASSUME NEW S \in SUBSET Nat, IsFiniteSet(S), NEW d \in S, NEW e \in S, d < e
  PROVE  /\ Cardinality(LessIn(S, d)) \in Nat /\ Cardinality(LessIn(S, e)) \in Nat
         /\ Cardinality(LessIn(S, d)) < Cardinality(LessIn(S, e))
<1>1. LessIn(S, d) \cup {d} \in SUBSET LessIn(S, e) /\ d \notin LessIn(S, d)
  <2>1. d \in LessIn(S, e) /\ d \notin LessIn(S, d)
    BY DEF LessIn
  <2>2. ASSUME NEW x \in LessIn(S, d) PROVE x \in LessIn(S, e)
    <3>1. x \in Nat /\ d \in Nat /\ e \in Nat /\ x \in S /\ x < d
      BY DEF LessIn
    <3>. QED
      BY <3>1 DEF LessIn
  <2>. QED
    BY <2>1, <2>2
<1>2. IsFiniteSet(LessIn(S, d)) /\ IsFiniteSet(LessIn(S, e))
  BY FS_Subset DEF LessIn
<1>3. Cardinality(LessIn(S, d) \cup {d}) = Cardinality(LessIn(S, d)) + 1
  BY <1>1, <1>2, FS_AddElement
<1>4. Cardinality(LessIn(S, d) \cup {d}) <= Cardinality(LessIn(S, e))
  BY <1>1, <1>2, FS_Subset
<1>5. Cardinality(LessIn(S, d)) \in Nat /\ Cardinality(LessIn(S, e)) \in Nat
  BY <1>2, FS_CardinalityType
<1>. QED
  BY <1>3, <1>4, <1>5

(* Ranks are below the number of elements.                                 *)
LEMMA RankBelow ==
  ASSUME NEW S \in SUBSET Nat, IsFiniteSet(S), NEW e \in S
  PROVE  /\ Cardinality(LessIn(S, e)) \in Nat
         /\ Cardinality(LessIn(S, e)) < Cardinality(S)
<1>1. LessIn(S, e) \in SUBSET S /\ LessIn(S, e) # S
  BY DEF LessIn
<1>. QED
  BY <1>1, FS_Subset, FS_CardinalityType

(* No two elements have one rank.                                          *)
LEMMA RankUnique ==
  ASSUME NEW S \in SUBSET Nat, IsFiniteSet(S), NEW d \in S, NEW e \in S,
         Cardinality(LessIn(S, d)) = Cardinality(LessIn(S, e))
  PROVE  d = e
<1>1. d \in Nat /\ e \in Nat
  OBVIOUS
<1>2. ~(d < e)
  BY RankGrows
<1>3. ~(e < d)
  BY RankGrows
<1>. QED
  BY <1>1, <1>2, <1>3

(* Every rank below the size of the set is taken.                          *)
LEMMA RankExists ==
  ASSUME NEW S \in SUBSET Nat, IsFiniteSet(S), NEW n \in Nat, n < Cardinality(S)
  PROVE  \E e \in S : Cardinality(LessIn(S, e)) = n
<1>. DEFINE Bad == {k \in Nat :
                    k < Cardinality(S) /\ \A e \in S : Cardinality(LessIn(S, e)) # k}
<1>. SUFFICES ASSUME Bad # {} PROVE FALSE
  OBVIOUS
<1>1. PICK k \in Bad : \A j \in Bad : k <= j
  BY LeastNat
<1>2. k \in Nat /\ k < Cardinality(S) /\ \A e \in S : Cardinality(LessIn(S, e)) # k
  OBVIOUS
<1>. HIDE DEF Bad
<1>3. Cardinality(S) \in Nat
  BY FS_CardinalityType
<1>4. CASE k = 0
  <2>1. S # {}
    BY <1>2, <1>4, FS_EmptySet
  <2>2. PICK e \in S : \A d \in S : e <= d
    BY <2>1, LeastNat
  <2>3. LessIn(S, e) = {}
    <3>1. ASSUME NEW x \in LessIn(S, e) PROVE FALSE
      <4>1. x \in Nat /\ e \in Nat /\ x \in S /\ x < e
        BY DEF LessIn
      <4>. QED
        BY <2>2, <4>1
    <3>. QED
      BY <3>1
  <2>. QED
    BY <1>2, <1>4, <2>3, FS_EmptySet
<1>5. CASE k # 0
  <2>1. k - 1 \in Nat /\ k - 1 < Cardinality(S) /\ k - 1 \notin Bad
    BY <1>1, <1>2, <1>3, <1>5
  <2>2. PICK d \in S : Cardinality(LessIn(S, d)) = k - 1
    BY <2>1 DEF Bad
  <2>. DEFINE T == LessIn(S, d) \cup {d}
              R == S \ T
  <2>3. IsFiniteSet(LessIn(S, d)) /\ d \notin LessIn(S, d)
    BY FS_Subset DEF LessIn
  <2>4. IsFiniteSet(T) /\ Cardinality(T) = k
    <3>1. IsFiniteSet(T) /\ Cardinality(T) = Cardinality(LessIn(S, d)) + 1
      BY <2>3, FS_AddElement
    <3>. QED
      BY <1>2, <2>2, <3>1
  <2>5. R # {}
    <3>1. T \subseteq S
      BY DEF LessIn
    <3>. HIDE DEF T
    <3>2. ASSUME R = {} PROVE FALSE
      <4>1. S = T
        BY <3>1, <3>2
      <4>. QED
        BY <1>2, <1>3, <2>4, <4>1
    <3>. QED
      BY <3>2
  <2>6. PICK e \in R : \A c \in R : e <= c
    BY <2>5, LeastNat
  <2>7. \A c \in S : c < e <=> c \in T
    <3>. SUFFICES ASSUME NEW c \in S PROVE c < e <=> c \in T
      OBVIOUS
    <3>1. c \in Nat /\ d \in Nat /\ e \in Nat /\ e \in S
      OBVIOUS
    <3>2. \A x \in S : x \in T <=> x <= d
      BY DEF LessIn
    <3>3. e > d
      BY <2>6, <3>1, <3>2
    <3>4. c \notin T => e <= c
      BY <2>6
    <3>. HIDE DEF T
    <3>. QED
      BY <3>1, <3>2, <3>3, <3>4
  <2>8. T \subseteq S
    BY DEF LessIn
  <2>. HIDE DEF T
  <2>9. LessIn(S, e) = T
    BY <2>7, <2>8 DEF LessIn
  <2>. QED
    BY <1>2, <2>4, <2>9
<1>. QED
  BY <1>4, <1>5
=============================================================================
