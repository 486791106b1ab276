------------------------------- MODULE TDigest -------------------------------
(***************************************************************************)
(* tdigest: values are buffered and merged into centroids, whose weight is *)
(* limited by how close to the ends they are.  A digest is a record with   *)
(* rev, min, max, cents, cw and buf for reverse_merge_, min_, max_,        *)
(* centroids_, centroids_weight_ and buffer_.  Values, means and ranks are *)
(* exact fractions.  The const queries compress the digest they look at.   *)
(***************************************************************************)
EXTENDS Fractions, Sequences, SequencesExt

CONSTANTS BUFFER_CAPACITY,   \* centroids_capacity_ * BUFFER_MULTIPLIER
          Normalizer         \* scale_function().normalizer(2 * k_, n), by n

Whole(n) == <<n, 1>>
Half(n) == Frac(n, 2)

centroid(value, weight) == [mean |-> value, w |-> weight]

(* centroid::add                                                           *)
add(c, o) ==
  centroid(Over(Plus(Times(c.mean, Whole(c.w)), Times(o.mean, Whole(o.w))), Whole(c.w + o.w)),
           c.w + o.w)

tdigest == [rev |-> FALSE, min |-> Infinity, max |-> MinusInfinity,
            cents |-> << >>, cw |-> 0, buf |-> << >>]

td_is_empty(d) == d.cents = << >> /\ d.buf = << >>

get_total_weight(d) == d.cw + Len(d.buf)

is_single_value(d) == get_total_weight(d) = 1

(* std::stable_sort by mean                                                *)
ByMean(cs) ==
  LET before(i, j) == \/ Less(cs[i].mean, cs[j].mean)
                      \/ cs[i].mean = cs[j].mean /\ i < j
      order        == SortSeq([i \in DOMAIN cs |-> i], before)
  IN [i \in DOMAIN cs |-> cs[order[i]]]

Turned(rev, cs) == IF rev THEN Reverse(cs) ELSE cs

(***************************************************************************)
(* Whether entry i joins the last centroid.  scale_function().max(q) is    *)
(* q * (1 - q) / normalizer; with q = s / total the limit on the weight is *)
(* s * (total - s) / (total * normalizer).  The second condition of the    *)
(* code, distance(end, it) # 1, holds of every entry; the scale function   *)
(* is 0 at q2 = 1 and keeps the last entry apart.                          *)
(***************************************************************************)
AddThis_ignores_q2(last, next, so_far, i, total) ==
  LET proposed == last.w + next.w
      Room(s)  == s * (total - s) * Normalizer[total][2]
  IN /\ i # 2
     /\ proposed * total * Normalizer[total][1] <= Room(so_far)

AddThis(last, next, so_far, i, total) ==
  LET proposed == last.w + next.w
      Room(s)  == s * (total - s) * Normalizer[total][2]
  IN /\ i # 2
     /\ proposed * total * Normalizer[total][1] <= Room(so_far)
     /\ proposed * total * Normalizer[total][1] <= Room(so_far + proposed)

JoinedTo(st, next, i, total) ==
  IF AddThis(st.cents[Len(st.cents)], next, st.so_far, i, total)
  THEN [st EXCEPT !.cents[Len(st.cents)] = add(@, next)]
  ELSE [cents  |-> Append(st.cents, next),
        so_far |-> st.so_far + st.cents[Len(st.cents)].w]

Squeezed(all, total) ==
  FoldLeft(LAMBDA st, i : JoinedTo(st, all[i + 1], i + 1, total),
           [cents |-> <<all[1]>>, so_far |-> 0], [i \in 1 .. Len(all) - 1 |-> i]).cents

WithCentroids(d, cents, total) ==
  [rev |-> ~d.rev, min |-> Lesser(d.min, cents[1].mean),
   max |-> Greater(d.max, cents[Len(cents)].mean),
   cents |-> cents, cw |-> total, buf |-> << >>]

(* merge(buffer, weight)                                                   *)
merge_centroids(d, buffer, weight) ==
  WithCentroids(d, Turned(d.rev, Squeezed(Turned(d.rev, ByMean(buffer \o d.cents)), d.cw + weight)),
                d.cw + weight)

Singles(buf) == [i \in DOMAIN buf |-> centroid(buf[i], 1)]

compress(d) == IF d.buf = << >> THEN d ELSE merge_centroids(d, Singles(d.buf), Len(d.buf))

td_update(d, value) ==
  LET e == IF Len(d.buf) = BUFFER_CAPACITY THEN compress(d) ELSE d
  IN [e EXCEPT !.buf = Append(@, value), !.min = Lesser(@, value), !.max = Greater(@, value)]

td_merge(d, other) ==
  IF td_is_empty(other) THEN d
  ELSE merge_centroids(d, Singles(d.buf) \o Singles(other.buf) \o other.cents,
                       Len(d.buf) + get_total_weight(other))

-----------------------------------------------------------------------------
WeightBefore(cs, i) == FoldLeft(LAMBDA sum, c : sum + c.w, 0, SubSeq(cs, 1, i - 1))

(* the weight up to the middle of centroid i                               *)
Middle(cs, i) == Plus(Whole(WeightBefore(cs, i)), Half(cs[i].w))

(* x + (y - x) * r for the interpolations                                  *)
Between(x, y, r) == Plus(x, Times(Minus(y, x), r))

(* lower and upper around a value within the means: the first and the last *)
(* centroid of that mean, or the two next to it                            *)
LowerOf(cs, value) ==
  LET equal == {i \in DOMAIN cs : cs[i].mean = value}
  IN IF equal # {} THEN Min(equal) ELSE Max({i \in DOMAIN cs : Less(cs[i].mean, value)})

UpperOf(cs, value) ==
  LET equal == {i \in DOMAIN cs : cs[i].mean = value}
  IN IF equal # {} THEN Max(equal) ELSE Min({i \in DOMAIN cs : Less(value, cs[i].mean)})

RankWithin(cs, value, lower, upper) ==
  Between(Middle(cs, lower), Middle(cs, upper),
          IF Less(cs[lower].mean, cs[upper].mean)
          THEN Over(Minus(value, cs[lower].mean), Minus(cs[upper].mean, cs[lower].mean))
          ELSE Half(1))

(* the tails, whose interpolation starts at a weight of 1                  *)
TailWeight(c, from_end, width) ==
  IF from_end = Zero THEN Half(1)
  ELSE Between(One, Half(c.w), Over(from_end, width))

RankOf(d, cs, value) ==
  LET first == cs[1]
      last  == cs[Len(cs)]
  IN IF Less(value, first.mean)
     THEN LET tail == TailWeight(first, Minus(value, d.min), Minus(first.mean, d.min))
          IN IF value = d.min THEN Over(tail, Whole(d.cw)) ELSE tail   \* not divided
     ELSE IF Less(last.mean, value)
     THEN Minus(One, Over(TailWeight(last, Minus(d.max, value), Minus(d.max, last.mean)),
                          Whole(d.cw)))
     ELSE Over(RankWithin(cs, value, LowerOf(cs, value), UpperOf(cs, value)), Whole(d.cw))

get_rank(d, value) ==
  IF Less(value, d.min) THEN Zero
  ELSE IF Less(d.max, value) THEN One
  ELSE IF Len(d.cents) + Len(d.buf) = 1 THEN Half(1)
  ELSE RankOf(compress(d), compress(d).cents, value)

weighted_average(x1, w1, x2, w2) == Over(Plus(Times(x1, w1), Times(x2, w2)), Plus(w1, w2))

(* the target weight is between the middles of centroids i and i + 1; the  *)
(* weights of the average are as the code has them, each that of the       *)
(* distance from its own centroid                                          *)
QuantileBetween(c1, c2, from_left, from_right) ==
  LET left  == IF c1.w = 1 THEN Half(1) ELSE Zero
      right == IF c2.w = 1 THEN Half(1) ELSE Zero
  IN IF c1.w = 1 /\ Less(from_left, Half(1)) THEN c1.mean
     ELSE IF c2.w = 1 /\ ~Less(Half(1), from_right) THEN c2.mean
     ELSE weighted_average(c1.mean, Minus(from_left, left), c2.mean, Minus(from_right, right))

(* the weight is past the middle of the last centroid                      *)
QuantilePast(d, last, weight) ==
  LET w1 == Minus(Minus(weight, Whole(d.cw)), Half(last.w))
  IN weighted_average(Whole(last.w), w1, d.max, Minus(Half(last.w), w1))

QuantileAt(d, cs, weight) ==
  LET first == cs[1]
      last  == cs[Len(cs)]
      right == Minus(Whole(d.cw), weight)
      over  == {i \in 2 .. Len(cs) : Less(weight, Middle(cs, i))}
  IN IF Less(weight, One) THEN d.min
     ELSE IF Less(right, One) THEN d.max
     ELSE IF first.w > 1 /\ Less(weight, Half(first.w))
       THEN Between(d.min, first.mean, Over(Minus(weight, One), Minus(Half(first.w), One)))
     ELSE IF last.w > 1 /\ ~Less(Half(last.w), right)
       THEN Plus(d.max, Times(Over(Minus(right, One), Minus(Half(last.w), One)),
                              Minus(d.max, last.mean)))
     ELSE IF over = {} THEN QuantilePast(d, last, weight)
     ELSE QuantileBetween(cs[Min(over) - 1], cs[Min(over)],
                          Minus(weight, Middle(cs, Min(over) - 1)),
                          Minus(Middle(cs, Min(over)), weight))

get_quantile(d, rank) ==
  LET c == compress(d)
  IN IF Len(c.cents) = 1 THEN c.cents[1].mean
     ELSE QuantileAt(c, c.cents, Times(rank, Whole(c.cw)))

-----------------------------------------------------------------------------
(* Images: the flags and what follows them.  Without the buffer the digest *)
(* is compressed first.                                                    *)
td_serialize(d, with_buffer) ==
  LET e == IF with_buffer THEN d ELSE compress(d)
  IN IF td_is_empty(e) THEN [is |-> "empty", rev |-> e.rev]
     ELSE IF is_single_value(e) THEN [is |-> "single", rev |-> e.rev, value |-> e.min]
     ELSE [is |-> "multiple", rev |-> e.rev, min |-> e.min, max |-> e.max,
           cents |-> e.cents, buf |-> e.buf]

FromParts(rev, min, max, cents, buf) ==
  [rev |-> rev, min |-> min, max |-> max, cents |-> cents,
   cw |-> WeightBefore(cents, Len(cents) + 1), buf |-> buf]

td_deserialize(image) ==
  CASE image.is = "empty" -> tdigest
    [] image.is = "single" ->
         FromParts(image.rev, image.value, image.value, <<centroid(image.value, 1)>>, << >>)
    [] image.is = "multiple" ->
         FromParts(image.rev, image.min, image.max, image.cents, image.buf)

(* what the reference implementation writes of the same centroids, and its *)
(* reading: it keeps neither a buffer nor the direction of the next merge  *)
asBytes(d) == [min |-> d.min, max |-> d.max, cents |-> compress(d).cents]

td_deserialize_compat(image) ==
  FromParts(FALSE, image.min, image.max, image.cents, << >>)
=============================================================================
