---- MODULE MCFrequentItemsSketch ----
(* Eight items for eight cells: three share a home, two wrap around the    *)
(* end of the map.  One sketch purges in every order, one grows to sixteen *)
(* cells, and two with a past are merged into each other.                  *)
EXTENDS FrequentItemsSketch

const_Items == 1 .. 8
const_Hash == [i \in Items |-> <<14, 6, 7, 15, 0, 2, 2, 3>>[i]]
Ones(S) == [i \in 1 .. Cardinality(S) |-> <<SetToSeq(S)[i], 1>>]
Streams ==
  {<< >>, <<<<3, 5>>>>, Ones(1 .. 6), Ones(1 .. 7), Ones({2, 3, 4, 6, 8}) \o <<<<5, 9>>, <<7, 1>>>>,
   <<<<1, 4>>, <<2, 1>>, <<3, 2>>, <<4, 1>>, <<5, 3>>, <<6, 1>>, <<7, 1>>>>,
   <<<<8, 1>>, <<7, 2>>, <<6, 2>>, <<5, 2>>, <<4, 1>>, <<2, 3>>, <<1, 1>>>>}

const_Programs ==
  {[sketches |-> {"a"}, lg_start |-> 2, lg_max |-> 3, streams |-> {Ones({3, 5})},
    updated |-> {"a"}, weights |-> {0, 1}, max |-> 8],
   [sketches |-> {"a"}, lg_start |-> 3, lg_max |-> 3, streams |-> {Ones({2, 5, 7, 8})},
    updated |-> {"a"}, weights |-> {1, 2}, max |-> 9],
   [sketches |-> {"a"}, lg_start |-> 3, lg_max |-> 4, streams |-> {Ones(1 .. 4)},
    updated |-> {"a"}, weights |-> {1}, max |-> 8],
   [sketches |-> {"a", "b"}, lg_start |-> 3, lg_max |-> 3, streams |-> Streams,
    updated |-> {}, weights |-> {}, max |-> 45]}
====
