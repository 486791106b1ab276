-------------------------- MODULE FrequentCounters --------------------------
(***************************************************************************)
(* What frequent items sketches promise, whatever holds their counters.    *)
(* An update adds to one counter.  A purge may follow it, which lowers all *)
(* counters by the value of one of them, the cut, and which at least half  *)
(* of the counters it looked at can pay in full: half is their number.     *)
(* The offset is the sum of all cuts.  truth is the real weight of every   *)
(* item; dropped marks a sketch that stands for one whose counters had all *)
(* been purged when it was merged in or stored.                            *)
(***************************************************************************)
EXTENDS Naturals, FiniteSets

CONSTANT Items

VARIABLES counter, offset, total, truth, dropped,   \* functions of the sketch
          half

vars == <<counter, offset, total, truth, dropped, half>>

Sketches == DOMAIN counter

None == [k \in Items |-> 0]
Only(item, w) == [k \in Items |-> IF k = item THEN w ELSE 0]
Add(c, d) == [k \in Items |-> c[k] + d[k]]
Lower(c, cut) == [k \in Items |-> IF c[k] > cut THEN c[k] - cut ELSE 0]

(* the sum of counters, as the number of the units they count              *)
Units(c) == UNION {{k} \X (1 .. c[k]) : k \in Items}
Weight(c) == Cardinality(Units(c))

Payers(c, cut) == {k \in Items : c[k] >= cut}

(* Counters d come from c by purges that cut this much together, with more *)
(* counters possibly added in between.                                     *)
Reduced(c, d, cut) ==
  /\ \A k \in Items : d[k] <= c[k] /\ c[k] <= d[k] + cut
  /\ Weight(d) + half * cut <= Weight(c)

Empty(s) == \A k \in Items : counter[s][k] = 0

PurgedEmpty(s) == Empty(s) /\ total[s] > 0

-----------------------------------------------------------------------------
Init ==
  /\ half \in Nat
  /\ counter = [s \in Sketches |-> None]
  /\ offset = [s \in Sketches |-> 0]
  /\ total = [s \in Sketches |-> 0]
  /\ truth = [s \in Sketches |-> None]
  /\ dropped = [s \in Sketches |-> FALSE]

Update(s, item, w) ==
  LET fed == Add(counter[s], Only(item, w))
  IN /\ total' = [total EXCEPT ![s] = @ + w]
     /\ truth' = [truth EXCEPT ![s] = Add(@, Only(item, w))]
     /\ \E cut \in {0} \cup {fed[k] : k \in Items} :
          /\ cut = 0 \/ half <= Cardinality(Payers(fed, cut))
          /\ offset' = [offset EXCEPT ![s] = @ + cut]
          /\ counter' = [counter EXCEPT ![s] = Lower(fed, cut)]
     /\ UNCHANGED <<dropped, half>>

(* merging presents the counters of t to s one after the other             *)
Merge(s, t) ==
  /\ truth' = [truth EXCEPT ![s] = Add(@, truth[t])]
  /\ dropped' = [dropped EXCEPT ![s] = @ \/ dropped[t] \/ PurgedEmpty(t)]
  /\ IF Empty(t) THEN UNCHANGED <<counter, offset, total>>
     ELSE /\ total' = [total EXCEPT ![s] = @ + total[t]]
          /\ \E cut \in 0 .. offset'[s] :
               /\ offset' = [offset EXCEPT ![s] = @ + offset[t] + cut]
               /\ counter'[s] \in [Items -> Nat]
               /\ counter' = [counter EXCEPT ![s] = counter'[s]]
               /\ Reduced(Add(counter[s], counter[t]), counter'[s], cut)
  /\ UNCHANGED half

(* an image has no total and no offset if there are no counters            *)
StoreAndLoad(s) ==
  /\ dropped' = [dropped EXCEPT ![s] = @ \/ PurgedEmpty(s)]
  /\ total' = [total EXCEPT ![s] = IF Empty(s) THEN 0 ELSE @]
  /\ offset' = [offset EXCEPT ![s] = IF Empty(s) THEN 0 ELSE @]
  /\ UNCHANGED <<counter, truth, half>>

Next ==
  \E s \in Sketches :
    \/ \E item \in Items, w \in 1 .. total'[s] : Update(s, item, w)
    \/ \E t \in Sketches : Merge(s, t)
    \/ StoreAndLoad(s)

Spec == Init /\ [][Next]_vars

-----------------------------------------------------------------------------
TypeOK ==
  /\ counter \in [Sketches -> [Items -> Nat]]
  /\ truth \in [Sketches -> [Items -> Nat]]
  /\ offset \in [Sketches -> Nat]
  /\ total \in [Sketches -> Nat]
  /\ dropped \in [Sketches -> BOOLEAN]
  /\ half \in Nat

(***************************************************************************)
(* get_lower_bound() and get_upper_bound() enclose the real weight of      *)
(* every item, and get_total_weight() is the weight of all streams         *)
(* although purged counters are gone, unless a sketch with all its         *)
(* counters purged was merged in or stored.                                *)
(***************************************************************************)
BoundsHold ==
  \A s \in Sketches : ~dropped[s] =>
    /\ total[s] = Weight(truth[s])
    /\ \A k \in Items : /\ counter[s][k] <= truth[s][k]
                        /\ truth[s][k] <= counter[s][k] + offset[s]

(***************************************************************************)
(* get_maximum_error() stays within a share of the total weight: every cut *)
(* was paid by half as many counters as a purge looks at, and no unit of   *)
(* weight pays twice.                                                      *)
(***************************************************************************)
ErrorBounded == \A s \in Sketches : half * offset[s] <= total[s]
=============================================================================
