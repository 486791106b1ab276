------------------------ MODULE QuantilesSortedView ------------------------
(***************************************************************************)
(* quantiles_sorted_view: what the quantile sketches answer queries from.  *)
(* A view is the sequence of its entries <<item, weight>>; the weights are *)
(* cumulative once convert_to_cummulative() has run.  A normalized rank is *)
(* a fraction r[1] / r[2]; get_rank() returns the numerator over the total *)
(* weight.  Here is also what the records of the sketches have in common:  *)
(* the extremes, the cached view, ok, which turns false where the code     *)
(* throws, and two fields that exist only in the model: `seen' counts the  *)
(* items presented and `err' is the weight of the compactions so far.      *)
(***************************************************************************)
EXTENDS Integers, Sequences, FiniteSets, SequencesExt, FiniteSetsExt

CONSTANT Items               \* the items, positive integers

ASSUME ItemsAssumption == Items \subseteq Nat \ {0}

NoItem == 0
NoView == << >>
NothingSeen == [x \in Items |-> 0]

Upto(n) == [i \in 1 .. n |-> i - 1]
InOrder(seq) == \A i \in 1 .. Len(seq) - 1 : seq[i] <= seq[i + 1]
Sorted(seq) == SortSeq(seq, <)
Bit(pattern, i) == (pattern \div 2^i) % 2

(* the extremes after items between lo and hi, both present, have come in  *)
update_min_max(s, lo, hi) ==
  [s EXCEPT !.min = IF s.n = 0 \/ lo < @ THEN lo ELSE @,
            !.max = IF s.n = 0 \/ @ < hi THEN hi ELSE @]

AllSeen(s, o) == [x \in Items |-> s.seen[x] + o.seen[x]]

(* std::merge: of equal elements those of the first range come first       *)
Merged(a, b) ==
  FoldLeft(LAMBDA st, i :
             IF st.b # << >> /\ (st.a = << >> \/ Head(st.b) < Head(st.a))
               THEN [st EXCEPT !.out = Append(@, Head(st.b)), !.b = Tail(@)]
               ELSE [st EXCEPT !.out = Append(@, Head(st.a)), !.a = Tail(@)],
           [out |-> << >>, a |-> a, b |-> b],
           [i \in 1 .. Len(a) + Len(b) |-> i]).out

(* add(): the items of one level, which are in order like the view, each   *)
(* merged in behind the entries of equal items                             *)
add(view, items, weight) ==
  IF view = << >> THEN [i \in 1 .. Len(items) |-> <<items[i], weight>>]
  ELSE
  FoldLeft(LAMBDA v, x : SelectSeq(v, LAMBDA e : e[1] <= x) \o << <<x, weight>> >>
                           \o SelectSeq(v, LAMBDA e : e[1] > x),
           view, items)

convert_to_cummulative(view) ==
  FoldLeft(LAMBDA v, e : Append(v, <<e[1], e[2] + (IF v = << >> THEN 0 ELSE Last(v)[2])>>),
           << >>, view)

total_weight(view) == Last(view)[2]

(* the binary searches count the leading entries that satisfy a condition  *)
get_rank(view, item, inclusive) ==
  LET at == Cardinality({i \in 1 .. Len(view) :
                           view[i][1] < item \/ (inclusive /\ view[i][1] = item)})
  IN IF at = 0 THEN 0 ELSE view[at][2]

get_quantile(view, r, inclusive) ==
  LET scaled == r[1] * total_weight(view)
      weight == IF inclusive THEN (scaled + r[2] - 1) \div r[2] ELSE scaled \div r[2]
      passed == Cardinality({i \in 1 .. Len(view) :
                               view[i][2] < weight \/ (~inclusive /\ view[i][2] = weight)})
  IN IF passed = Len(view) THEN Last(view)[1] ELSE view[passed + 1][1]
=============================================================================
