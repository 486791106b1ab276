--------------------------- MODULE VarOptSketches ---------------------------
(***************************************************************************)
(* A VarOpt sketch that is updated, copied, stored and loaded and reset,   *)
(* and a union that takes other sketches and whose result lives on as the  *)
(* sketch.  An item is a record: id tells items apart and w is the weight  *)
(* it was offered with.  offered tells the total weight and the number of  *)
(* the items offered to the sketch and what the sketch has been through:   *)
(* "loaded" from the image of a full sketch, "short" from that of one not  *)
(* yet full, "result" of a union, "coerced" by mark_moving_gadget_coercer. *)
(* gathered tells the same of the gadget; taus are the                     *)
(* <<total_wt_r_, r_>> of the sketches merged.  budget counts down to the  *)
(* bounds: items the sketch may still be offered, and times an object may  *)
(* still be copied, stored and loaded, or reset.                           *)
(***************************************************************************)
EXTENDS VarOptSketch

CONSTANTS Configs,           \* <<k, rf>> of the sketch and of the union
          Weights,           \* weights of items
          Sources,           \* the sketches merged: <<k, rf, weights>>
          MaxOffered,        \* items offered to a new sketch
          MaxLater,          \* items offered to a result
          MaxRenewals,       \* copies, loads and resets
          MaxMerges          \* sketches merged into the union

VARIABLES sketch, offered, budget, union, gathered, merges, taus

vars == <<sketch, offered, budget, union, gathered, merges, taus>>

Nothing == [wt |-> 0, n |-> 0, been |-> {}]

(* The names of items and the weights of those in R tell nothing: between  *)
(* the operations an item is named after the first slot that holds it.     *)
Named(s) ==
  LET is(i) == i \in Samples(s) /\ s.data[i] \notin {Raw, Moved}
      first(i) == Min({j \in DOMAIN s.data : is(j) /\ s.data[j].id = s.data[i].id})
  IN [s EXCEPT !.data = [i \in DOMAIN @ |->
        IF is(i) THEN [id |-> first(i), w |-> IF i < s.h THEN @[i].w ELSE 0]
        ELSE IF @[i] = Raw THEN Raw ELSE Moved]]

FreshId == 100

(* what a sketch can be after the weights were offered to it, up to which  *)
(* of equal items were kept                                                *)
SketchesOf(src) ==
  FoldLeft(LAMBDA ss, i : UNION {update(s, [id |-> i, w |-> src[3][i]], src[3][i], FALSE) : s \in ss},
           {new_sketch(src[1], src[2], FALSE)}, [i \in 1 .. Len(src[3]) |-> i])

SourceSketch == [src \in Sources |-> CHOOSE s \in SketchesOf(src) : TRUE]

(* with names that no item of the union has                                *)
Renamed(s) ==
  [s EXCEPT !.data = [i \in DOMAIN @ |-> IF i \in Samples(s) THEN [@[i] EXCEPT !.id = @ + FreshId]
                                         ELSE @[i]]]

Init ==
  /\ \E c \in Configs : /\ sketch = new_sketch(c[1][1], c[1][2], FALSE)
                         /\ union = new_union(c[2][1], c[2][2])
  /\ offered = Nothing /\ gathered = Nothing
  /\ merges = 0 /\ budget = [items |-> MaxOffered, renewals |-> MaxRenewals]
  /\ taus = << >>

Plus(o, wt, n) == [o EXCEPT !.wt = @ + wt, !.n = @ + n]
Through(o, tags) == [o EXCEPT !.been = @ \cup tags]

(* sketch and union share nothing: while the union is fed the sketch waits *)
UnionIdle == union.n = 0 /\ gathered = Nothing
SketchIdle == offered = Nothing /\ budget.items = MaxOffered

Renewed == budget.renewals > 0 /\ budget' = [budget EXCEPT !.renewals = @ - 1]

Update ==
  /\ ~sketch.threw /\ UnionIdle
  /\ budget.items > 0 /\ budget' = [budget EXCEPT !.items = @ - 1]
  /\ \E w \in Weights :
       /\ sketch' \in {Named(s) : s \in update(sketch, [id |-> FreshId, w |-> w], w, FALSE)}
       /\ offered' = Plus(offered, w, 1)
  /\ UNCHANGED <<union, gathered, merges, taus>>

LoadTag(s) == IF s.r > 0 THEN {"loaded"} ELSE IF s.h > 0 THEN {"short"} ELSE {}

StoreAndLoad ==
  /\ ~sketch.threw /\ UnionIdle /\ Renewed
  /\ sketch' = deserialize(serialize(sketch))
  /\ offered' = Through(offered, LoadTag(sketch))
  /\ UNCHANGED <<union, gathered, merges, taus>>

Copy ==
  /\ ~sketch.threw /\ UnionIdle /\ Renewed
  /\ sketch' = copy_sketch(sketch, FALSE, sketch.n)
  /\ UNCHANGED <<offered, union, gathered, merges, taus>>

Forgotten(o) == Through(Nothing, o.been \cap {"short"})

Reset ==
  /\ ~sketch.threw /\ UnionIdle /\ Renewed
  /\ sketch' = reset(sketch)
  /\ offered' = Forgotten(offered)
  /\ UNCHANGED <<union, gathered, merges, taus>>

TauOf(s) == IF s.r > 0 THEN << <<s.tot, s.r>> >> ELSE << >>
WeightOf(stream) == FoldLeft(+, 0, stream)

Merge ==
  /\ ~union.gadget.threw /\ SketchIdle
  /\ merges < MaxMerges
  /\ \E src \in Sources :
       /\ union' \in {[u EXCEPT !.gadget = Named(@)] : u \in update_union(union, Renamed(SourceSketch[src]))}
       /\ gathered' = Plus(gathered, WeightOf(src[3]), Len(src[3]))
       /\ taus' = taus \o TauOf(SourceSketch[src])
  /\ merges' = merges + 1
  /\ UNCHANGED <<sketch, offered, budget>>

StoreAndLoadUnion ==
  /\ ~union.gadget.threw /\ SketchIdle /\ Renewed
  /\ union' = deserialize_union(serialize_union(union), union.gadget.rf)
  /\ gathered' = Through(gathered, LoadTag(union.gadget))
  /\ UNCHANGED <<sketch, offered, merges, taus>>

ResetUnion ==
  /\ ~union.gadget.threw /\ SketchIdle /\ Renewed
  /\ union' = reset_union(union)
  /\ gathered' = Forgotten(gathered) /\ taus' = << >>
  /\ UNCHANGED <<sketch, offered, merges>>

(* the result of get_result() is the sketch from now on, and the union is  *)
(* given up for a new one                                                  *)
TakeResult ==
  /\ ~union.gadget.threw /\ SketchIdle
  /\ sketch' \in {Named(s) : s \in get_result(union)}
  /\ offered' = Through(gathered, IF union.gadget.nmarks > 0 /\ IsPseudoExact(union)
                                  THEN {"result", "coerced"} ELSE {"result"})
  /\ union' = new_union(union.max_k, union.gadget.rf)
  /\ gathered' = Nothing /\ taus' = << >>
  /\ merges' = MaxMerges /\ budget' = [budget EXCEPT !.items = MaxLater]

Next ==
  \/ Update \/ StoreAndLoad \/ Copy \/ Reset
  \/ Merge \/ StoreAndLoadUnion \/ ResetUnion \/ TakeResult

Spec == Init /\ [][Next]_vars

-----------------------------------------------------------------------------
SumOf(f, is) == FoldFunctionOnSet(+, 0, f, is)

MarkedSlots(s) == {i \in HSlots(s) : is_marked(s, i)}

HeapOrdered(s) == \A i \in 1 .. s.h - 1 : s.wt[(i + 1) \div 2 - 1] <= s.wt[i]

HeavyEnough(s) == \A i \in HSlots(s) : s.wt[i] * s.r >= s.tot

(* the sampled items are objects, once each, and a sketch whose array is   *)
(* filled has objects in all slots its destructor will visit               *)
ObjectsLive(s) ==
  /\ \A i \in Samples(s) : s.data[i] \notin {Raw, Moved}
  /\ \A i, j \in Samples(s) : s.data[i].id = s.data[j].id => i = j
  /\ s.filled => \A i \in 0 .. s.k : i < s.alloc => s.data[i] # Raw

ShortArrays(s) == s.alloc # Cardinality(DOMAIN s.data)

(* what each operation relies on and leaves behind                         *)
Structured(s, been) ==
  /\ s.threw => s.m # 0 \/ ShortArrays(s) \/ "coerced" \in been
  /\ s.m # 0 => "loaded" \in been
  /\ ShortArrays(s) => "short" \in been
  /\ s.touched => "result" \in been
  /\ ~s.threw =>
       /\ ObjectsLive(s)
       /\ s.nmarks = Cardinality(MarkedSlots(s))
       /\ IF s.r = 0 THEN s.h <= s.k /\ s.tot = 0
          ELSE /\ s.h + s.r = s.k
               /\ \A i \in RSlots(s) : s.wt[i] = NoWeight
               /\ "coerced" \notin been => HeapOrdered(s) /\ HeavyEnough(s)

(* No operation finds the state invalid and throws, region H is a heap of  *)
(* items at least as heavy as tau, every sampled item is a live object     *)
(* sampled once, and the mark counter is right: of the sketch and of the   *)
(* gadget.  Excepted are sketches loaded while full, whose m_ is 1; those  *)
(* loaded while not full and then reset, whose arrays are shorter than     *)
(* curr_items_alloc_; and results: those of the coercer, whose H is        *)
(* neither a heap nor heavy enough, and those made from a copy of a full   *)
(* gadget, in which the raw gap is swapped.                                *)
StructureExact ==
  /\ Structured(sketch, offered.been)
  /\ Structured(union.gadget, gathered.been)

ItemsOf(s) == {s.data[i] : i \in Samples(s)}

Conserved(s, o) ==
  LET all == estimate_subset_sum(s, ItemsOf(s))
  IN /\ ~all.threw /\ all.total = o.wt /\ all.numer = o.wt * all.denom
     /\ \A i \in HSlots(s) \ MarkedSlots(s) : s.wt[i] = s.data[i].w

(* estimate_subset_sum of everything is the weight of the stream, through  *)
(* sampling, merging and the conversions of get_result: the weights of H   *)
(* and total_wt_r add up to it, R fills the array up to k and the sampling *)
(* rate is at most 1.  An item of H that is not marked has the weight it   *)
(* was offered with, n counts the items of the stream, and an exact sketch *)
(* holds all of them.                                                      *)
WeightConserved ==
  /\ ~sketch.threw => Conserved(sketch, offered) /\ sketch.n = offered.n
  /\ ~union.gadget.threw => Conserved(union.gadget, gathered) /\ union.n = gathered.n
  /\ ~sketch.threw /\ sketch.r = 0 => sketch.h = sketch.n

(* the draws under which slot d is dropped                                 *)
Draws(c, d) ==
  Cardinality({x \in 0 .. c.wt - 1 : choose_delete_slot(c.s, c.wt, c.num, x) = d})

(* Whatever is offered next, a candidate of M is dropped with probability  *)
(* 1 - w / tau' and one of R with 1 - tau / tau', where tau' is            *)
(* wt_cands / (num_cands - 1): the sample stays unbiased.  Not so for the  *)
(* results of the coercer, which are excepted.                             *)
ChoiceUnbiased ==
  sketch.r > 0 /\ ~sketch.threw /\ "coerced" \notin offered.been =>
    \A w \in Weights :
      LET c == Candidates(sketch, [id |-> 0, w |-> w], w, FALSE)
      IN c.s.threw \/
           /\ \A d \in c.s.h .. c.s.h + c.s.m - 1 :
                Draws(c, d) = c.wt - (c.num - 1) * c.s.wt[d]
           /\ Draws(c, c.s.h + c.s.m) = c.s.r * c.wt - (c.num - 1) * sketch.tot

(* outer_tau_numer_ / outer_tau_denom_ is the largest tau of the sketches  *)
(* merged, with the weights and the sizes of the reservoirs that have it   *)
(* added up, which the coercer relies on.                                  *)
OuterTauExact ==
  LET top == {i \in DOMAIN taus : \A j \in DOMAIN taus :
                taus[i][1] * taus[j][2] >= taus[j][1] * taus[i][2]}
  IN ~union.gadget.threw =>
       /\ union.numer = SumOf([i \in DOMAIN taus |-> taus[i][1]], top)
       /\ union.denom = SumOf([i \in DOMAIN taus |-> taus[i][2]], top)

SampleOf(s) ==
  [k |-> s.k, n |-> s.n, h |-> s.h, r |-> s.r, tot |-> s.tot, nmarks |-> s.nmarks,
   items |-> [i \in Samples(s) |-> s.data[i]],
   wt |-> [i \in HSlots(s) |-> s.wt[i]],
   mk |-> [i \in HSlots(s) |-> is_marked(s, i)]]

(* The image of a sketch, a result or a gadget is accepted and gives the   *)
(* same sample, weights and marks.                                         *)
RoundTrip ==
  \A s \in {sketch, union.gadget} :
    ~s.threw => ~deserialize(serialize(s)).threw /\ SampleOf(deserialize(serialize(s))) = SampleOf(s)
=============================================================================
