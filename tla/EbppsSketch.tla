---------------------------- MODULE EbppsSketch ----------------------------
(***************************************************************************)
(* ebpps_sketch and ebpps_sample: sampling with probability proportional   *)
(* to size, in exact fractions.  A sample s has c, data and partial (None  *)
(* for no partial item); data is a set, as every choice from it is uniform *)
(* and items have names of their own.  A sketch e has k, n, cum, wt_max,   *)
(* rho and sample.  An operation that draws random numbers yields a set of *)
(* outcomes [p, via, s]: the probability, the draws and the sample.        *)
(* Outcomes of probability 0 are left out.                                 *)
(***************************************************************************)
EXTENDS Naturals, Sequences, FiniteSets, FiniteSetsExt, Combinatorics, Fractions

CONSTANT None

NoSample == [c |-> Zero, data |-> {}, partial |-> None]

replace_content(item, theta) ==
  [c |-> theta, data |-> IF theta = One THEN {item} ELSE {},
   partial |-> IF theta = One THEN None ELSE item]

Outcome(p, via, s) == [p |-> p, via |-> via, s |-> s]

Possible(outcomes) == {o \in outcomes : o.p # Zero}

Coin(p, yes, no) == Possible({Outcome(p, <<TRUE>>, yes), Outcome(Minus(One, p), <<FALSE>>, no)})

Then(o, p, via, s) == Outcome(Times(o.p, p), o.via \o via, s)

(* subsample(num_samples)                                                  *)
subsample(s, num) ==
  {Outcome(<<1, choose(Cardinality(s.data), num)>>, <<kept>>, [s EXCEPT !.data = kept]) :
     kept \in kSubset(num, s.data)}

move_one_to_partial(s) ==
  {Outcome(<<1, Cardinality(s.data)>>, <<e>>, [s EXCEPT !.data = @ \ {e}, !.partial = e]) :
     e \in s.data}

swap_with_partial(s) ==
  IF s.partial = None THEN move_one_to_partial(s)
  ELSE {Outcome(<<1, Cardinality(s.data)>>, <<e>>,
                [s EXCEPT !.data = (@ \ {e}) \cup {s.partial}, !.partial = e]) : e \in s.data}

SwapAll(outcomes) == UNION {{Then(o, q.p, q.via, q.s) : q \in swap_with_partial(o.s)} : o \in outcomes}

MoveAll(outcomes) == UNION {{Then(o, q.p, q.via, q.s) : q \in move_one_to_partial(o.s)} : o \in outcomes}

Cleared(outcomes) == {[o EXCEPT !.s.data = {}] : o \in outcomes}

Weighed(p, via, outcomes) ==
  IF p = Zero THEN {} ELSE {Outcome(Times(p, o.p), <<via>> \o o.via, o.s) : o \in outcomes}

(* the branches of downsample: no full item is left, none is deleted, some *)
(* are; keep is the probability of the branch that does not swap           *)
NoFullItems(s, keep) ==
  Weighed(keep, FALSE, Cleared({Outcome(One, << >>, s)}))
    \cup (IF keep = One THEN {} ELSE Weighed(Minus(One, keep), TRUE, Cleared(swap_with_partial(s))))

NoItemsDeleted(s, keep) ==
  Weighed(keep, FALSE, {Outcome(One, << >>, s)})
    \cup (IF keep = One THEN {} ELSE Weighed(Minus(One, keep), TRUE, swap_with_partial(s)))

SomeItemsDeleted(s, swap, num) ==
  (IF swap = Zero THEN {} ELSE Weighed(swap, TRUE, SwapAll(subsample(s, num))))
    \cup Weighed(Minus(One, swap), FALSE, MoveAll(subsample(s, num + 1)))

Branches(s, theta, new_c) ==
  IF Floor(new_c) = 0 THEN NoFullItems(s, Over(Part(s.c), s.c))
  ELSE IF Floor(new_c) = Floor(s.c)
  THEN NoItemsDeleted(s, Over(Minus(One, Times(theta, Part(s.c))), Minus(One, Part(new_c))))
  ELSE SomeItemsDeleted(s, Times(theta, Part(s.c)), Floor(new_c))

Settled(s, new_c) ==
  [s EXCEPT !.c = new_c, !.partial = IF Part(new_c) = Zero THEN None ELSE @]

downsample_always_keeps(s, theta) ==
  {Outcome(One, << >>, [Settled(s, Times(theta, s.c)) EXCEPT
     !.data = IF Floor(Times(theta, s.c)) = 0 THEN {} ELSE @])}

downsample(s, theta) ==
  IF ~Less(theta, One) THEN {Outcome(One, << >>, s)}
  ELSE {[o EXCEPT !.s = Settled(o.s, Times(theta, s.c))] : o \in Branches(s, theta, Times(theta, s.c))}

(* sample_.merge(other), after the items of other.data are appended        *)
Appended(s, other) == [s EXCEPT !.c = Plus(s.c, other.c), !.data = @ \cup other.data]

WithFull(s, item) == IF item = None THEN s ELSE [s EXCEPT !.data = @ \cup {item}]

MergeParts(s, t, mine, theirs) ==
  IF mine = Zero /\ theirs = Zero THEN {Outcome(One, << >>, [s EXCEPT !.partial = None])}
  ELSE IF Part(s.c) = Zero
  THEN Coin(mine, [WithFull(s, s.partial) EXCEPT !.partial = None],
                  [WithFull(s, t) EXCEPT !.partial = None])
  ELSE IF Less(Plus(mine, theirs), One)
  THEN Coin(Over(mine, Plus(mine, theirs)), s, [s EXCEPT !.partial = t])
  ELSE Coin(Over(Minus(One, mine), Plus(Minus(One, mine), Minus(One, theirs))),
            WithFull(s, t), [WithFull(s, s.partial) EXCEPT !.partial = t])

sample_merge(s, other) ==
  MergeParts(Appended(s, other), other.partial, Part(s.c), Part(other.c))

(* get_sample: the items of the result                                     *)
get_sample(s) == Coin(Part(s.c), s.data \cup {s.partial}, s.data)

(* the items that a const_iterator visits, once it has drawn whether to    *)
(* use the partial item; None for data_[0] when data_ is empty             *)
Visited(s, use_partial) ==
  IF s.c = Zero \/ (s.data = {} /\ s.partial = None) THEN {}
  ELSE IF s.data = {} THEN IF use_partial THEN {s.partial} ELSE {None}
  ELSE s.data \cup (IF use_partial THEN {s.partial} ELSE {})

const_iterator(s) == Coin(Part(s.c), Visited(s, TRUE), Visited(s, FALSE))

-----------------------------------------------------------------------------
ebpps_sketch(k) ==
  [k |-> k, n |-> 0, cum |-> Zero, wt_max |-> Zero, rho |-> One, sample |-> NoSample]

(* new_rho, from the new maximum and the new cumulative weight             *)
NewRho(k, wt_max, cum) == Lesser(Over(One, wt_max), Over(<<k, 1>>, cum))

(* what internal_update and internal_merge do for one item                 *)
Downsampled(e, rho) ==
  IF e.cum = Zero THEN {e.sample} ELSE {o.s : o \in downsample(e.sample, Over(rho, e.rho))}

Taken(e, item, weight, cum, rho) ==
  {[e EXCEPT !.cum = cum, !.rho = rho, !.sample = o.s] :
     o \in UNION {sample_merge(s, replace_content(item, Times(rho, weight))) :
                    s \in Downsampled(e, rho)}}

Take(e, item, weight, wt_max) ==
  Taken(e, item, weight, Plus(e.cum, weight), NewRho(e.k, wt_max, Plus(e.cum, weight)))

ebpps_update(e, item, weight) ==
  IF weight = Zero THEN {e}
  ELSE {[u EXCEPT !.wt_max = Greater(e.wt_max, weight), !.n = @ + 1] :
          u \in Take(e, item, weight, Greater(e.wt_max, weight))}

(* the full items of sk, in one order: they are alike up to their names    *)
RECURSIVE TakeAll(_, _, _, _)
TakeAll(es, items, weight, wt_max) ==
  IF items = {} THEN es
  ELSE LET x == CHOOSE i \in items : TRUE
       IN TakeAll(UNION {Take(e, x, weight, wt_max) : e \in es}, items \ {x}, weight, wt_max)

TakePartial(es, s, avg_wt, wt_max) ==
  IF s.partial = None THEN es
  ELSE UNION {Take(e, s.partial, Times(Part(s.c), avg_wt), wt_max) : e \in es}

MergedItems(e, sk, wt_max) ==
  IF sk.sample = NoSample THEN {e}
  ELSE TakePartial(TakeAll({e}, sk.sample.data, Over(sk.cum, sk.sample.c), wt_max),
                   sk.sample, Over(sk.cum, sk.sample.c), wt_max)

internal_merge(e, sk) ==
  {[u EXCEPT !.cum = Plus(e.cum, sk.cum), !.n = e.n + sk.n] :
     u \in MergedItems([e EXCEPT !.k = IF sk.k < @ THEN sk.k ELSE @], sk,
                       Greater(e.wt_max, sk.wt_max))}

ebpps_merge(e, sk) ==
  IF sk.cum = Zero THEN {e}
  ELSE IF Less(e.cum, sk.cum) THEN internal_merge(sk, e) ELSE internal_merge(e, sk)

ebpps_reset(e) == ebpps_sketch(e.k)

(* the image of a sketch with items: HAS_PARTIAL_ITEM_MASK, the fields, c, *)
(* the full items and the partial item; data is written as it stands, and  *)
(* floor(c) items are read                                                 *)
ebpps_serialize(e) ==
  IF e.n = 0 THEN [k |-> e.k, empty |-> TRUE]
  ELSE [k |-> e.k, empty |-> FALSE, flag |-> e.sample.partial # None, n |-> e.n,
        cum |-> e.cum, wt_max |-> e.wt_max, rho |-> e.rho, c |-> e.sample.c,
        data |-> e.sample.data, partial |-> e.sample.partial]

(* throws when the flag does not agree with c; the bytes are those of      *)
(* another item when c does not agree with the number of items             *)
Readable(image) ==
  IF image.empty THEN TRUE
  ELSE /\ Cardinality(image.data) = Floor(image.c)
       /\ (Part(image.c) # Zero) = image.flag

ebpps_deserialize(image) ==
  IF image.empty THEN ebpps_sketch(image.k)
  ELSE [k |-> image.k, n |-> image.n, cum |-> image.cum, wt_max |-> image.wt_max,
        rho |-> image.rho,
        sample |-> [c |-> image.c, data |-> image.data, partial |-> image.partial]]
=============================================================================
