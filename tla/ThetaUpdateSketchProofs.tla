---------------------- MODULE ThetaUpdateSketchProofs ----------------------
(***************************************************************************)
(* Proofs about ThetaUpdateSketch, for every set of hashes, nominal size,  *)
(* resize factor and starting threshold: the table is well formed and      *)
(* implements the sample of ThetaSample.  IInv is the inductive invariant. *)
(* TableWellFormed alone is not inductive: that a slot is free after the   *)
(* next insert rests on the capacity, and that a rebuild finds its pivot   *)
(* on the size of a full table.                                            *)
(***************************************************************************)
EXTENDS ThetaUpdateSketch, ThetaTableProofs

Summaries == SUBSET (Hashes \cup {0})

(* what the builder set stays, and the table is sound                      *)
IInv ==
  /\ ~thrown
  /\ Sound(table, Summaries)
  /\ table.lg_nom = LgNom /\ table.rf = RF

(* The policy makes summaries of summaries.                                *)
LEMMA PolicyType ==
  /\ NoSummary \in Summaries /\ create = NoSummary
  /\ \A s \in Summaries : \A h \in Hashes : \A v \in Values(h) :
       policy_update(s, v) \in Summaries
<1>1. NoSummary \in Summaries /\ create = NoSummary
  BY DEF NoSummary, Summaries, create
<1>2. ASSUME NEW s \in Summaries, NEW h \in Hashes, NEW v \in Values(h)
      PROVE  policy_update(s, v) \in Summaries
  <2>1. v \in Hashes \cup {0}
    BY DEF Values
  <2>. QED
    BY <2>1 DEF policy_update, Summaries
<1>. QED
  BY <1>1, <1>2

(* The refinement counts as this module does.                              *)
LEMMA SameCardinality ==
  ASSUME NEW A
  PROVE  Sample!Cardinality(A) = Cardinality(A)
BY DEF Sample!Cardinality, Cardinality

(* What the builder guarantees.                                            *)
LEMMA BuilderFacts ==
  /\ LgNom \in Nat /\ RF \in Nat /\ RF \in RESIZE_FACTORS /\ StartTheta \in Nat
  /\ MIN_LG_K <= LgNom + 1
BY BuilderDomain, MaxThetaAssumption DEF RESIZE_FACTORS

(* What a table stands for, in the terms of its array.                     *)
LEMMA RetainedHeld ==
  /\ Retained = SummaryOf(Held(table.ent))
  /\ Retained' = SummaryOf(Held(table'.ent))
BY DEF Retained, SummaryOf, KeysOf, Held, Entries

(* A sound table stands for as many hashes as num_entries_ says.           *)
LEMMA RetainedSize ==
  ASSUME NEW t, Sound(t, Summaries)
  PROVE  /\ IsMap(Held(t.ent), Summaries) /\ t.num \in Nat
         /\ Cardinality(DOMAIN SummaryOf(Held(t.ent))) = t.num
<1>1. /\ t.lg_cur \in Nat /\ t.ent \in Arrays(t.lg_cur, Summaries)
      /\ Searchable(t.ent, t.lg_cur) /\ t.num = Cardinality(Used(t.ent)) /\ t.num \in Nat
  BY DEF Sound, Counted, Tables
<1>2. IsMap(Held(t.ent), Summaries) /\ Cardinality(Held(t.ent)) = t.num
  BY <1>1, HeldIsMap
<1>. QED
  BY <1>1, <1>2, KeysBijection, SummaryFound

(* The table of build() and reset().                                       *)
Fresh(t) == IsNew(t, starting_sub_multiple(LgNom + 1, MIN_LG_K, RF), LgNom, RF, StartTheta)

(* build() and reset() leave a sound table that stands for no hashes.      *)
LEMMA FreshSound ==
  ASSUME NEW t, Fresh(t)
  PROVE  /\ Sound(t, Summaries) /\ SummaryOf(Held(t.ent)) = Sample!Nothing
         /\ t.lg_nom = LgNom /\ t.rf = RF /\ t.theta = StartTheta /\ t.is_empty = TRUE
<1>1. PICK lg : lg = starting_sub_multiple(LgNom + 1, MIN_LG_K, RF)
  OBVIOUS
<1>2. lg \in 1 .. LgNom + 1 /\ (RF = 0 => lg = LgNom + 1)
  BY <1>1, BuilderFacts, StartingSize
<1>3. /\ Sound(t, Summaries) /\ Held(t.ent) = {}
      /\ t.lg_nom = LgNom /\ t.rf = RF /\ t.theta = StartTheta /\ t.is_empty = TRUE
  <2>1. NoSummary \in Summaries
    BY PolicyType
  <2>2. IsNew(t, lg, LgNom, RF, StartTheta)
    BY <1>1 DEF Fresh
  <2>3. LgNom \in Nat /\ RF \in Nat /\ StartTheta \in Nat
    BY BuilderFacts
  <2>. QED
    BY <1>2, <2>1, <2>2, <2>3, EmptySound
<1>4. SummaryOf({}) = Sample!Nothing
  BY DEF SummaryOf, KeysOf, Sample!Nothing
<1>. QED
  BY <1>3, <1>4

(* The built sketch is a new sample.                                       *)
LEMMA InitStep == Init => IInv /\ Sample!Init
<1>. SUFFICES ASSUME Init PROVE IInv /\ Sample!Init
  OBVIOUS
<1>1. /\ Sound(table, Summaries) /\ SummaryOf(Held(table.ent)) = Sample!Nothing
      /\ table.lg_nom = LgNom /\ table.rf = RF /\ table.theta = StartTheta
      /\ table.is_empty = TRUE
  <2>1. Fresh(table)
    BY Zenon DEF Init, Fresh, IsNew
  <2>. QED
    BY <2>1, FreshSound
<1>2. IInv
  BY <1>1 DEF IInv, Init
<1>3. Sample!Init
  BY <1>1, RetainedHeld DEF Init, Sample!Init
<1>. QED
  BY <1>2, <1>3

(* reset() is the Reset of the sample.                                     *)
LEMMA ResetStep == IInv /\ Reset => IInv' /\ Sample!Reset
<1>. SUFFICES ASSUME IInv, Reset PROVE IInv' /\ Sample!Reset
  OBVIOUS
<1>1. Fresh(table')
  BY Zenon DEF IInv, Reset, reset, Fresh, IsNew
<1>2. /\ Sound(table', Summaries) /\ SummaryOf(Held(table'.ent)) = Sample!Nothing
      /\ table'.lg_nom = LgNom /\ table'.rf = RF /\ table'.theta = StartTheta
      /\ table'.is_empty = TRUE
  BY <1>1, FreshSound
<1>3. IInv'
  BY <1>2 DEF IInv, Reset, Summaries
<1>4. Sample!Reset
  BY <1>2, RetainedHeld DEF Reset, Sample!Reset
<1>. QED
  BY <1>3, <1>4

(* A cut of the entries is the abstract rebuild.                           *)
LEMMA CutIsRebuild ==
  ASSUME NEW E, IsMap(E, Summaries),
         CutAt(E, 2^LgNom, Held(table'.ent), table'.theta)
  PROVE  Sample!Rebuild(SummaryOf(E))
<1>1. PICK key : key = table'.theta
  OBVIOUS
<1>2. PICK n : n = 2^LgNom
  OBVIOUS
<1>3. PICK kept : kept = Held(table'.ent)
  OBVIOUS
<1>4. /\ key \in KeysOf(E) /\ Cardinality({k \in KeysOf(E) : k < key}) = n
      /\ SummaryOf(kept) = [h \in {k \in KeysOf(E) : k < key} |-> SummaryOf(E)[h]]
  <2>1. CutAt(E, n, kept, key)
    BY <1>1, <1>2, <1>3
  <2>. QED
    BY <2>1, SummaryCut
<1>5. PICK f : f = SummaryOf(E)
  OBVIOUS
<1>6. DOMAIN f = KeysOf(E)
  BY <1>5, SummaryFound
<1>7. Retained' = Sample!Restricted(f, {k \in DOMAIN f : k < key})
  BY <1>3, <1>4, <1>5, <1>6, RetainedHeld DEF Sample!Restricted
<1>8. key \in DOMAIN f /\ Sample!Cardinality({k \in DOMAIN f : k < key}) = 2^LgNom
  BY <1>2, <1>4, <1>6, SameCardinality
<1>9. Sample!Rebuild(f)
  BY <1>1, <1>7, <1>8 DEF Sample!Rebuild
<1>. QED
  BY <1>5, <1>9

(* trim() is the Trim of the sample.                                       *)
LEMMA TrimStep == IInv /\ Trim => IInv' /\ Sample!Trim
<1>. SUFFICES ASSUME IInv, Trim PROVE IInv' /\ Sample!Trim
  OBVIOUS
<1>1. Sound(table, Summaries) /\ table.lg_nom = LgNom /\ table.rf = RF
  BY DEF IInv
<1>2. /\ Sound(table', Summaries) /\ SameBuild(table, table')
      /\ IF 2^table.lg_nom < table.num
           THEN CutAt(Held(table.ent), 2^table.lg_nom, Held(table'.ent), table'.theta)
           ELSE table' = table
  BY <1>1, PolicyType, TrimSound DEF Trim
<1>3. IInv'
  BY <1>1, <1>2 DEF IInv, Trim, SameBuild, Summaries
<1>4. /\ IsMap(Held(table.ent), Summaries) /\ table.num \in Nat
      /\ Cardinality(DOMAIN Retained) = table.num
  BY <1>1, RetainedSize, RetainedHeld
<1>5. CASE 2^LgNom < table.num
  <2>1. Sample!Rebuild(Retained)
    BY <1>1, <1>2, <1>4, <1>5, CutIsRebuild, RetainedHeld
  <2>2. Sample!Cardinality(DOMAIN Retained) > 2^LgNom
    BY <1>4, <1>5, BuilderFacts, PowerType, SameCardinality
  <2>. QED
    BY <1>2, <1>3, <2>1, <2>2 DEF Sample!Trim, Trim, SameBuild
<1>6. CASE ~(2^LgNom < table.num)
  <2>1. table' = table
    BY <1>1, <1>2, <1>6
  <2>2. ~(Sample!Cardinality(DOMAIN Retained) > 2^LgNom)
    BY <1>4, <1>6, BuilderFacts, PowerType, SameCardinality
  <2>. QED
    BY <1>3, <2>1, <2>2, RetainedHeld DEF Sample!Trim, Trim
<1>. QED
  BY <1>5, <1>6

(***************************************************************************)
(* update(): a screened hash only clears is_empty_; a found key has its    *)
(* summary updated in place; a new key goes into the free slot that find() *)
(* returned, and the table is then left, resized or rebuilt.               *)
(***************************************************************************)
LEMMA ScreenedStep ==
  ASSUME IInv, NEW h \in Hashes, NEW v \in Values(h), Update(h, v),
         h = 0 \/ h >= table.theta
  PROVE  IInv' /\ Sample!Update(h, v)
<1>1. PICK t : t = Cleared(table)
  OBVIOUS
<1>2. /\ Sound(t, Summaries) /\ t.lg_nom = LgNom /\ t.rf = RF
      /\ t.theta = table.theta /\ t.ent = table.ent /\ t.is_empty = FALSE
  <2>1. Sound(table, Summaries) /\ table.lg_nom = LgNom /\ table.rf = RF
    BY DEF IInv
  <2>2. t.is_empty = FALSE
    BY <1>1, <2>1 DEF Sound, Counted, Tables, Cleared
  <2>. QED
    BY <1>1, <2>1, <2>2, FlagSound
<1>3. h \in Nat /\ table.theta \in Nat
  BY HashDomain DEF IInv, Sound, Counted, Tables
<1>4. /\ table' = t /\ thrown' = thrown /\ total' = Sample!Noted(total, h, v)
  BY <1>1, <1>2, <1>3 DEF Update, Cleared
<1>5. IInv'
  BY <1>2, <1>4 DEF IInv, Summaries
<1>6. Retained' = Retained
  BY <1>2, <1>4, RetainedHeld
<1>7. Sample!Screened(h)
  BY DEF Sample!Screened
<1>8. table.is_empty' = FALSE /\ table.theta' = table.theta
  BY <1>2, <1>4
<1>. QED
  BY <1>4, <1>5, <1>6, <1>7, <1>8 DEF Sample!Update

(* update() of a key that find() found.                                    *)
LEMMA FoundStep ==
  ASSUME IInv, NEW h \in Hashes, NEW v \in Values(h), h \in Nat \ {0}, h < table.theta,
         NEW t, Sound(t, Summaries), t.lg_nom = LgNom, t.rf = RF,
         t.theta = table.theta, t.ent = table.ent, t.is_empty = FALSE,
         NEW at \in Used(t.ent), extract_key(t.ent[at]) = h,
         table' = [t EXCEPT !.ent[at][2] = policy_update(@, v)],
         ~thrown', total' = Sample!Noted(total, h, v)
  PROVE  IInv' /\ Sample!Update(h, v)
<1>1. PICK E : E = Held(t.ent)
  OBVIOUS
<1>2. IsMap(E, Summaries) /\ Retained = SummaryOf(E)
  BY <1>1, RetainedSize, RetainedHeld
<1>3. PICK d \in E : d = t.ent[at]
  BY <1>1 DEF Held
<1>4. PICK x \in Summaries : x = policy_update(d[2], v)
  BY <1>2, PolicyType DEF IsMap
<1>5. table' = Noting(t, at, x)
  BY <1>3, <1>4 DEF Noting
<1>6. /\ Sound(table', Summaries) /\ SameBuild(t, table') /\ table'.theta = t.theta
      /\ Held(table'.ent) = (E \ {d}) \cup {Entry(extract_key(d), x)}
  <2>1. PICK u : u = table'
    OBVIOUS
  <2>2. u = Noting(t, at, x)
    BY <1>5, <2>1
  <2>3. /\ Sound(u, Summaries) /\ SameBuild(t, u) /\ u.theta = t.theta
        /\ Held(u.ent) = (E \ {d}) \cup {Entry(extract_key(d), x)}
    BY <1>1, <1>3, <2>2, SummarySound
  <2>. QED
    BY <2>1, <2>3
<1>7. PICK G : G = Held(table'.ent)
  OBVIOUS
<1>8. IsMap(G, Summaries)
  BY <1>6, <1>7, RetainedSize
<1>9. SummaryOf(G) = With(E, extract_key(d), x)
  <2>1. G = (E \ {d}) \cup {Entry(extract_key(d), x)}
    BY <1>6, <1>7
  <2>2. IsMap(E, Summaries) /\ d \in E
    BY <1>2
  <2>. QED
    BY <1>8, <2>1, <2>2, SummaryReplaced
<1>10. /\ DOMAIN Retained = KeysOf(E) /\ extract_key(d) = h
       /\ h \in KeysOf(E) /\ Retained[h] = d[2]
  BY <1>2, <1>3, SummaryFound
<1>11. Retained' = Sample!Noted(Retained, h, v)
  <2>1. KeysOf(E) \cup {h} = KeysOf(E)
    BY <1>10
  <2>2. Retained' = [g \in KeysOf(E) |-> IF g = h THEN x ELSE Retained[g]]
    BY <1>2, <1>7, <1>9, <1>10, <2>1, RetainedHeld DEF With
  <2>. QED
    BY <1>4, <1>10, <2>1, <2>2 DEF Sample!Noted
<1>12. IInv'
  BY <1>6 DEF IInv, SameBuild, Summaries
<1>13. ~Sample!Screened(h)
  BY DEF Sample!Screened, IInv, Sound, Counted, Tables
<1>14. table.is_empty' = FALSE /\ table.theta' = table.theta
  BY <1>6 DEF SameBuild
<1>. QED
  BY <1>10, <1>11, <1>12, <1>13, <1>14 DEF Sample!Update

(* update() of a key that find() did not find.                             *)
LEMMA NewKeyStep ==
  ASSUME IInv, NEW h \in Hashes, NEW v \in Values(h), h \in Nat \ {0}, h < table.theta,
         NEW t, Sound(t, Summaries), t.lg_nom = LgNom, t.rf = RF,
         t.theta = table.theta, t.ent = table.ent, t.is_empty = FALSE, t.num = table.num,
         NEW at, at = SlotFor(t.ent, t.lg_cur, h), h \notin KeysOf(Held(t.ent)),
         table' \in insert(t, at, Entry(h, policy_update(create, v))),
         ~thrown', total' = Sample!Noted(total, h, v)
  PROVE  IInv' /\ Sample!Update(h, v)
<1>1. PICK E : E = Held(t.ent)
  OBVIOUS
<1>2. /\ IsMap(E, Summaries) /\ Retained = SummaryOf(E) /\ t.num \in Nat
      /\ Cardinality(DOMAIN Retained) = t.num
  BY <1>1, RetainedSize, RetainedHeld
<1>3. PICK x \in Summaries : x = policy_update(create, v)
  BY PolicyType
<1>4. PICK e \in (Nat \ {0}) \X Summaries : e = Entry(h, x)
  BY DEF Entry
<1>5. extract_key(e) = h /\ e[2] = x
  BY <1>4 DEF Entry, extract_key
<1>6. PICK n \in Nat : n = 2^LgNom
  BY BuilderFacts, PowerType
<1>7. /\ Sound(table', Summaries) /\ SameBuild(t, table')
      /\ \/ /\ t.num + 1 < 2 * n
            /\ table'.theta = t.theta /\ Held(table'.ent) = E \cup {e}
         \/ /\ n < t.num + 1
            /\ CutAt(E \cup {e}, n, Held(table'.ent), table'.theta)
  <2>1. table' \in insert(t, at, e)
    BY <1>3, <1>4
  <2>2. /\ at = SlotFor(t.ent, t.lg_cur, extract_key(e))
        /\ extract_key(e) \notin KeysOf(Held(t.ent))
    BY <1>5
  <2>3. NoSummary \in Summaries
    BY PolicyType
  <2>4. PICK u : u = table'
    OBVIOUS
  <2>5. u \in insert(t, at, e)
    BY <2>1, <2>4
  <2>6. /\ Sound(u, Summaries) /\ SameBuild(t, u)
        /\ \/ /\ t.num + 1 < 2 * 2^t.lg_nom
              /\ u.theta = t.theta /\ Held(u.ent) = Held(t.ent) \cup {e}
           \/ /\ 2^t.lg_nom < t.num + 1
              /\ CutAt(Held(t.ent) \cup {e}, 2^t.lg_nom, Held(u.ent), u.theta)
    BY <2>2, <2>3, <2>5, InsertSound
  <2>. QED
    BY <1>1, <1>6, <2>4, <2>6
<1>8. PICK G : G = E \cup {e}
  OBVIOUS
<1>9. /\ IsMap(G, Summaries)
      /\ SummaryOf(G) = With(E, h, x)
  <2>1. extract_key(e) \notin KeysOf(E)
    BY <1>1, <1>5
  <2>2. IsMap(G, Summaries) /\ SummaryOf(G) = With(E, extract_key(e), e[2])
    BY <1>2, <1>8, <2>1, SummaryAdded
  <2>. QED
    BY <1>5, <2>2
<1>10. DOMAIN Retained = KeysOf(E) /\ h \notin DOMAIN Retained
  BY <1>1, <1>2, SummaryFound
<1>11. SummaryOf(G) = Sample!Noted(Retained, h, v)
  BY <1>2, <1>3, <1>9, <1>10 DEF Sample!Noted, With
<1>12. IInv'
  BY <1>7 DEF IInv, SameBuild, Summaries
<1>13. ~Sample!Screened(h)
  BY DEF Sample!Screened, IInv, Sound, Counted, Tables
<1>14. table.is_empty' = FALSE
  BY <1>7 DEF SameBuild
<1>15. Sample!Cardinality(DOMAIN Retained) = t.num
  BY <1>2, SameCardinality
<1>16. CASE t.num + 1 < 2 * n /\ table'.theta = t.theta /\ Held(table'.ent) = G
  <2>1. Retained' = Sample!Noted(Retained, h, v)
    BY <1>11, <1>16, RetainedHeld
  <2>2. Sample!Cardinality(DOMAIN Retained) + 1 < 2 * 2^LgNom
    BY <1>6, <1>15, <1>16
  <2>3. table.theta' = table.theta
    BY <1>16
  <2>. QED
    BY <1>12, <1>13, <1>14, <2>1, <2>2, <2>3 DEF Sample!Update
<1>17. CASE n < t.num + 1 /\ CutAt(G, n, Held(table'.ent), table'.theta)
  <2>1. Sample!Rebuild(SummaryOf(G))
    BY <1>6, <1>9, <1>17, CutIsRebuild
  <2>2. Sample!Rebuild(Sample!Noted(Retained, h, v))
    BY <1>11, <2>1
  <2>3. Sample!Cardinality(DOMAIN Retained) + 1 > 2^LgNom
    BY <1>2, <1>6, <1>15, <1>17
  <2>. QED
    BY <1>10, <1>12, <1>13, <1>14, <2>2, <2>3 DEF Sample!Update
<1>. QED
  BY <1>7, <1>8, <1>16, <1>17

(* update() is the Update of the sample, and does not throw.               *)
LEMMA UpdateStep ==
  ASSUME IInv, NEW h \in Hashes, NEW v \in Values(h), Update(h, v)
  PROVE  IInv' /\ Sample!Update(h, v)
<1>1. PICK t : t = Cleared(table)
  OBVIOUS
<1>2. /\ Sound(t, Summaries) /\ t.lg_nom = LgNom /\ t.rf = RF /\ t.num = table.num
      /\ t.theta = table.theta /\ t.ent = table.ent /\ t.is_empty = FALSE
  <2>1. Sound(table, Summaries) /\ table.lg_nom = LgNom /\ table.rf = RF
    BY DEF IInv
  <2>2. t.is_empty = FALSE
    BY <1>1, <2>1 DEF Sound, Counted, Tables, Cleared
  <2>. QED
    BY <1>1, <2>1, <2>2, FlagSound
<1>3. h \in Nat /\ table.theta \in Nat
  BY HashDomain DEF IInv, Sound, Counted, Tables
<1>4. PICK r : r = find(t.ent, t.lg_cur, h)
  OBVIOUS
<1>5. CASE h = 0 \/ h >= table.theta
  BY <1>5, ScreenedStep
<1>6. CASE h \in Nat \ {0} /\ h < table.theta
  <2>1. /\ r.at = SlotFor(t.ent, t.lg_cur, h) /\ r.at # NoSlot(t.lg_cur)
        /\ r.found => r.at \in Used(t.ent) /\ extract_key(t.ent[r.at]) = h
        /\ ~r.found => h \notin KeysOf(Held(t.ent))
    <3>1. Answers(r, t, h)
      BY <1>2, <1>4, <1>6, FindSound
    <3>. QED
      BY <3>1 DEF Answers
  <2>2. /\ total' = Sample!Noted(total, h, v)
        /\ table' \in Record(t, r, h, v) /\ thrown' = thrown
    BY <1>1, <1>2, <1>3, <1>4, <1>6, <2>1 DEF Update, Cleared
  <2>3. ~thrown'
    BY <2>2 DEF IInv
  <2>4. CASE r.found
    <3>1. table' = [t EXCEPT !.ent[r.at][2] = policy_update(@, v)]
      BY <2>2, <2>4 DEF Record
    <3>. QED
      BY <1>2, <1>6, <2>1, <2>2, <2>3, <2>4, <3>1, FoundStep
  <2>5. CASE ~r.found
    <3>1. table' \in insert(t, r.at, Entry(h, policy_update(create, v)))
      BY <2>2, <2>5 DEF Record
    <3>. QED
      BY <1>2, <1>6, <2>1, <2>2, <2>3, <2>5, <3>1, NewKeyStep
  <2>. QED
    BY <2>4, <2>5
<1>. QED
  BY <1>3, <1>5, <1>6

(* Every step keeps the inductive invariant and is a step of the sample.   *)
LEMMA NextStep == IInv /\ [Next]_vars => IInv' /\ [Sample!Next]_(Sample!vars)
<1>. SUFFICES ASSUME IInv, [Next]_vars PROVE IInv' /\ [Sample!Next]_(Sample!vars)
  OBVIOUS
<1>1. ASSUME NEW h \in Hashes, NEW v \in Values(h), Update(h, v)
      PROVE  IInv' /\ [Sample!Next]_(Sample!vars)
  BY <1>1, UpdateStep DEF Sample!Next
<1>2. CASE Trim
  BY <1>2, TrimStep DEF Sample!Next
<1>3. CASE Reset
  BY <1>3, ResetStep DEF Sample!Next
<1>4. CASE UNCHANGED vars
  <2>1. table' = table /\ total' = total /\ thrown' = thrown
    BY <1>4 DEF vars
  <2>2. Retained' = Retained
    BY <2>1, RetainedHeld
  <2>. QED
    BY <2>1, <2>2 DEF IInv, Summaries, Sample!vars
<1>. QED
  BY <1>1, <1>2, <1>3, <1>4 DEF Next

(***************************************************************************)
(* TableWellFormed for every instance: after every sequence of updates,    *)
(* resizes, rebuilds, trims and resets num_entries_ counts the keys, find()*)
(* returns each in its own slot, and it never throws for want of a free    *)
(* slot.                                                                   *)
(***************************************************************************)
THEOREM TableCorrect == Spec => []TableWellFormed
<1>1. Init => IInv
  BY InitStep
<1>2. IInv /\ [Next]_vars => IInv'
  BY NextStep
<1>3. IInv => TableWellFormed
  BY SoundWellFormed DEF IInv, TableWellFormed
<1>. QED
  BY <1>1, <1>2, <1>3, PTL DEF Spec

(***************************************************************************)
(* The hash table implements the sample: with the refinement mapping of    *)
(* ThetaUpdateSketch every operation of the sketch, whatever resizes and   *)
(* rebuilds it makes, is the operation of the same name of ThetaSample.    *)
(***************************************************************************)
THEOREM ImplementsSampleCorrect == Spec => ImplementsSample
<1>1. Init => IInv /\ Sample!Init
  BY InitStep
<1>2. IInv /\ [Next]_vars => IInv' /\ [Sample!Next]_(Sample!vars)
  BY NextStep
<1>. QED
  BY <1>1, <1>2, PTL DEF Spec, ImplementsSample, Sample!Spec

-----------------------------------------------------------------------------
(***************************************************************************)
(* The theorems about ThetaSample, for the sample a table stands for.      *)
(***************************************************************************)
Promise == INSTANCE ThetaSampleProofs WITH
  Nominal  <- 2^LgNom,
  is_empty <- table.is_empty,
  theta    <- table.theta,
  entries  <- Retained

(* The two instances of ThetaSample, the one of the refinement and the one *)
(* the theorems come with, are one specification.                          *)
LEMMA SamePromise ==
  /\ Promise!Init <=> Sample!Init
  /\ [Promise!Next]_(Promise!vars) <=> [Sample!Next]_(Sample!vars)
  /\ Promise!SampleInv <=> Sample!SampleInv
  /\ Promise!NominalInv <=> Sample!NominalInv
  /\ [table.theta' <= table.theta \/ DOMAIN total' = {}]_(Promise!vars)
       => [table.theta' <= table.theta \/ DOMAIN total' = {}]_(Sample!vars)
<1>1. Promise!Init <=> Sample!Init
  BY DEF Promise!Init, Promise!Nothing, Sample!Init, Sample!Nothing
<1>2. Promise!Next <=> Sample!Next
  BY DEF Promise!Next, Promise!Update, Promise!Trim, Promise!Reset, Promise!Rebuild,
         Promise!Restricted, Promise!Noted, Promise!Nothing, Promise!Screened,
         Promise!Cardinality,
         Sample!Next, Sample!Update, Sample!Trim, Sample!Reset, Sample!Rebuild,
         Sample!Restricted, Sample!Noted, Sample!Nothing, Sample!Screened,
         Sample!Cardinality
<1>3. Promise!vars = Sample!vars
  BY DEF Promise!vars, Sample!vars
<1>4. Promise!SampleInv <=> Sample!SampleInv
  BY DEF Promise!SampleInv, Promise!Retained, Promise!Restricted, Promise!Below,
         Sample!SampleInv, Sample!Retained, Sample!Restricted, Sample!Below
<1>5. Promise!NominalInv <=> Sample!NominalInv
  BY DEF Promise!NominalInv, Promise!Cardinality, Sample!NominalInv, Sample!Cardinality
<1>. QED
  BY <1>1, <1>2, <1>3, <1>4, <1>5 DEF Promise!vars, Sample!vars

(***************************************************************************)
(* What ThetaSample promises holds of the hash table. The table holds      *)
(* exactly the hashes presented since the last reset that lie below        *)
(* theta_, each with the summary of all its values. theta_ has left its    *)
(* starting value only if nominal_size hashes are retained. Between resets *)
(* it never rises.                                                         *)
(***************************************************************************)
THEOREM PromisesKept ==
  Spec => [](Sample!SampleInv /\ Sample!NominalInv) /\ Sample!ThetaNeverRises
<1>1. Hashes \subseteq Nat /\ StartTheta \in Nat /\ 2^LgNom \in Nat \ {0}
  BY HashDomain, BuilderFacts, PowerType
<1>2. Promise!Spec => []Promise!SampleInv
  BY <1>1, Promise!SampleCorrect
<1>3. Promise!Spec => []Promise!NominalInv
  BY <1>1, Promise!NominalCorrect
<1>4. Promise!Spec => Promise!ThetaNeverRises
  BY <1>1, Promise!ThetaMonotone
<1>5. Sample!Spec => Promise!Spec
  BY SamePromise, PTL DEF Promise!Spec, Sample!Spec
<1>6. Promise!ThetaNeverRises => Sample!ThetaNeverRises
  BY SamePromise, PTL DEF Promise!ThetaNeverRises, Sample!ThetaNeverRises
<1>. QED 
  BY <1>2, <1>3, <1>4, <1>5, <1>6, SamePromise, ImplementsSampleCorrect, PTL
     DEF ImplementsSample
=============================================================================
