-------------------------- MODULE ThetaUpdateSketch --------------------------
(***************************************************************************)
(* update_theta_sketch and update_tuple_sketch: the updatable sketches     *)
(* over their hash table.  One action per public operation that changes    *)
(* the sketch.  `total' maps the hashes presented so far to what a summary *)
(* of all their values would be; `thrown' records a std::logic_error from  *)
(* find().  The theta sketch is the tuple sketch with one value and a      *)
(* policy that does nothing: on a key it has, its update() changes nothing *)
(* either.                                                                 *)
(***************************************************************************)
EXTENDS ThetaHashTable

CONSTANTS Hashes,         \* the values compute_hash can return
          Twice,          \* the hashes presented with a second value
          LgNom, RF,      \* builder: set_lg_k, set_resize_factor
          StartTheta      \* starting_theta_from_p(p_)

ASSUME HashDomain == Hashes \subseteq Nat /\ \A h \in Hashes : h < MAX_THETA
ASSUME BuilderDomain ==
  /\ LgNom \in Nat /\ RF \in RESIZE_FACTORS
  /\ MIN_LG_K <= LgNom + 1 /\ StartTheta \in 1 .. MAX_THETA

VARIABLES table, total, thrown

vars == <<table, total, thrown>>

(* every hash comes with a value of its own, so that no two summaries are  *)
(* alike; those of Twice also with the value 0                             *)
Values(h) == {h} \cup (IF h \in Twice THEN {0} ELSE {})

(* the policy of the instance: a summary is the set of the values it got,  *)
(* of which 0 is counted modulo 2, so that one noted twice shows           *)
create == NoSummary

policy_update(summary, value) ==
  IF value = 0 /\ 0 \in summary THEN summary \ {0} ELSE summary \cup {value}

(* the state of ThetaSample that a table stands for                        *)
Retained == [h \in {extract_key(e) : e \in Entries(table)} |->
               (CHOOSE e \in Entries(table) : extract_key(e) = h)[2]]

Sample == INSTANCE ThetaSample WITH
  Nominal  <- 2^LgNom,
  is_empty <- table.is_empty,
  theta    <- table.theta,
  entries  <- Retained

-----------------------------------------------------------------------------
(* builder::build()                                                        *)
Init ==
  /\ table = hash_table(starting_sub_multiple(LgNom + 1, MIN_LG_K, RF),
                        LgNom, RF, StartTheta, TRUE)
  /\ total = Sample!Nothing
  /\ thrown = FALSE

(* the branches of update() after find(): a created summary is updated and *)
(* inserted with its key, a found one is updated in place                  *)
Record_first_value(t, r, h, v) ==
  IF r.found THEN {t} ELSE insert(t, r.at, Entry(h, policy_update(create, v)))

Record(t, r, h, v) ==
  IF r.found THEN {[t EXCEPT !.ent[r.at][2] = policy_update(@, v)]}
  ELSE insert(t, r.at, Entry(h, policy_update(create, v)))

(* hash_and_screen clears is_empty_ first, then screens                    *)
Update(h, v) ==
  LET t == [table EXCEPT !.is_empty = FALSE]
      r == find(t.ent, t.lg_cur, h)
  IN /\ total' = Sample!Noted(total, h, v)
     /\ \/ /\ h = 0 \/ h >= t.theta
           /\ table' = t
           /\ UNCHANGED thrown
        \/ /\ 0 < h /\ h < t.theta
           /\ IF r.at = NoSlot(t.lg_cur)
                THEN table' = t /\ thrown' = TRUE
                ELSE table' \in Record(t, r, h, v) /\ UNCHANGED thrown

Trim ==
  /\ table' \in trim(table)
  /\ UNCHANGED <<total, thrown>>

Reset ==
  /\ table' = reset(table, StartTheta)
  /\ total' = Sample!Nothing
  /\ UNCHANGED thrown

Next == (\E h \in Hashes : \E v \in Values(h) : Update(h, v)) \/ Trim \/ Reset

Spec == Init /\ [][Next]_vars

-----------------------------------------------------------------------------
(***************************************************************************)
(* After every sequence of inserts, resizes, rebuilds and trims the table  *)
(* is searchable: num_entries_ counts the keys, each key is found in its   *)
(* own slot, none is stored twice, and find() never meets a table without  *)
(* a free slot ("key not found and no empty slots!").                      *)
(***************************************************************************)
TableWellFormed == ~thrown /\ WellFormed(table)

(***************************************************************************)
(* The hash table implements the sample that ThetaSample specifies: every  *)
(* summary stays with its key through probing, resizes and rebuilds and    *)
(* holds all the values that were presented with the key.                  *)
(***************************************************************************)
ImplementsSample == Sample!Spec
=============================================================================
