---------------------------- MODULE ThetaSample ----------------------------
(***************************************************************************)
(* What an updatable theta or tuple sketch promises, without its hash      *)
(* table: the retained hashes are exactly the hashes of the input stream   *)
(* below the threshold theta_, each with the summary of everything that    *)
(* was presented with it, the threshold only moves down, and it moves down *)
(* only to a value that leaves at least 2^lg_nom_size_ hashes.  `entries'  *)
(* maps the non-zero keys of the table to their summaries; `total' maps    *)
(* the hashes presented since construction or the last reset to what a     *)
(* summary kept from the first presentation on would be, and exists only   *)
(* in the model.  A theta sketch is the case of one value that changes     *)
(* nothing.  When exactly the table rebuilds is left open here (any count  *)
(* above nominal); ThetaUpdateSketch has the code's rule and implements    *)
(* this module.                                                            *)
(***************************************************************************)
EXTENDS Naturals, FiniteSets

CONSTANTS Hashes,               \* the values compute_hash can return
          Values(_),            \* what update() is given with a key
          create,               \* policy_.create()
          policy_update(_, _),  \* policy_.update(summary, value)
          StartTheta,           \* starting_theta_from_p(p_)
          Nominal               \* 1 << lg_nom_size_

ASSUME HashesAssumption == Hashes \subseteq Nat
ASSUME StartThetaAssumption == StartTheta \in Nat
ASSUME NominalAssumption == Nominal \in Nat \ {0}

(* the values and the policy of the checked instance: a summary is the set *)
(* of the values presented                                                 *)
TwoValues(h) == {1, 2}

SetOfValues(summary, value) == summary \cup {value}

VARIABLES is_empty, theta, entries, total

vars == <<is_empty, theta, entries, total>>

Nothing == [h \in {} |-> create]

Init ==
  /\ is_empty = TRUE
  /\ theta = StartTheta
  /\ entries = Nothing
  /\ total = Nothing

Restricted(f, S) == [h \in S |-> f[h]]

(***************************************************************************)
(* rebuild(): theta_ becomes the key of rank nominal_size (nth_element),   *)
(* the nominal_size smaller entries stay.                                  *)
(***************************************************************************)
Rebuild_keeps_pivot(f) ==
  \E t \in DOMAIN f :
    /\ Cardinality({e \in DOMAIN f : e < t}) = Nominal
    /\ theta' = t
    /\ entries' = Restricted(f, {e \in DOMAIN f : e <= t})

Rebuild_rank_too_low(f) ==
  \E t \in DOMAIN f :
    /\ Cardinality({e \in DOMAIN f : e < t}) = Nominal - 1
    /\ theta' = t
    /\ entries' = Restricted(f, {e \in DOMAIN f : e < t})

Rebuild(f) ==
  \E t \in DOMAIN f :
    /\ Cardinality({e \in DOMAIN f : e < t}) = Nominal
    /\ theta' = t
    /\ entries' = Restricted(f, {e \in DOMAIN f : e < t})

(* the value goes into the summary of h, a created one if h is new         *)
Noted(f, h, v) ==
  [g \in DOMAIN f \cup {h} |->
     IF g = h THEN policy_update(IF h \in DOMAIN f THEN f[h] ELSE create, v)
              ELSE f[g]]

(***************************************************************************)
(* update(): hash_and_screen clears is_empty_ before it screens the hash.  *)
(* A hash of 0 is dropped because 0 marks a free slot.                     *)
(***************************************************************************)
Screened_keeps_zero(h) == h >= theta

Screened(h) == h = 0 \/ h >= theta

Update(h, v) ==
  /\ is_empty' = FALSE
  /\ total' = Noted(total, h, v)
  /\ \/ /\ Screened(h)
        /\ UNCHANGED <<theta, entries>>
     \/ /\ ~Screened(h)
        /\ h \in DOMAIN entries \/ Cardinality(DOMAIN entries) + 1 < 2 * Nominal
        /\ entries' = Noted(entries, h, v)
        /\ UNCHANGED theta
     \/ /\ ~Screened(h) /\ h \notin DOMAIN entries
        /\ Cardinality(DOMAIN entries) + 1 > Nominal
        /\ Rebuild(Noted(entries, h, v))

Trim_restarts_theta ==
  /\ theta' = StartTheta
  /\ UNCHANGED <<entries, is_empty, total>>

Trim ==
  /\ IF Cardinality(DOMAIN entries) > Nominal
       THEN Rebuild(entries)
       ELSE UNCHANGED <<theta, entries>>
  /\ UNCHANGED <<is_empty, total>>

Reset_keeps_flag ==
  /\ theta' = StartTheta
  /\ entries' = Nothing
  /\ total' = Nothing
  /\ UNCHANGED is_empty

Reset ==
  /\ is_empty' = TRUE
  /\ theta' = StartTheta
  /\ entries' = Nothing
  /\ total' = Nothing

Next == (\E h \in Hashes : \E v \in Values(h) : Update(h, v)) \/ Trim \/ Reset

Spec == Init /\ [][Next]_vars

-----------------------------------------------------------------------------
TypeOK ==
  /\ is_empty \in BOOLEAN
  /\ theta \in Nat
  /\ DOMAIN entries \subseteq Hashes \ {0}
  /\ DOMAIN total \subseteq Hashes
  /\ IsFiniteSet(DOMAIN entries)

(* the hashes of T that a sketch with threshold t can retain               *)
Below(T, t) == {h \in T : 0 < h /\ h < t}

Retained(f, t) == Restricted(f, Below(DOMAIN f, t))

(***************************************************************************)
(* The retained hashes are those of the stream below theta, each with the  *)
(* summary of all that was presented with it: no update, rebuild or trim   *)
(* loses one, keeps one too many, or lets a hash screened out earlier come *)
(* back with a part of its summary.  is_empty_ is set exactly when nothing *)
(* was presented, retained or not.  Every estimate and set operation rests *)
(* on this.                                                                *)
(***************************************************************************)
SampleInv ==
  /\ entries = Retained(total, theta)
  /\ is_empty <=> DOMAIN total = {}

(***************************************************************************)
(* theta_ leaves its starting value only when nominal_size keys lie below  *)
(* it, so an estimating sketch always has its nominal sample.              *)
(***************************************************************************)
NominalInv == theta # StartTheta => Cardinality(DOMAIN entries) >= Nominal

(***************************************************************************)
(* Between resets the threshold never moves up, which is what keeps a      *)
(* screened-out hash out.                                                  *)
(***************************************************************************)
ThetaNeverRises == [][theta' <= theta \/ DOMAIN total' = {}]_vars
=============================================================================
