------------------------ MODULE MCStandaloneSketches ------------------------
(* Longs of 2 bits, of whose number 2 bits are kept: filters of 8 and 10   *)
(* bits are read with capacities of 0 and 2.                               *)
EXTENDS StandaloneSketches

MCHash == [a |-> <<0, 2>>, b |-> <<3, 5>>, c |-> <<6, 4>>]
MCRowHash == [a |-> <<0, 4>>, b |-> <<3, 5>>, c |-> <<1, 7>>]
MCObjects == {"a", "b", "c"}
MCCmWeights == {-1, 1, 2}
MCPoints == 1 .. 3
(* points 1 and 2 are near each other, 3 is far from both                  *)
MCKernel == << <<2, 1, 0>>, <<1, 2, 0>>, <<0, 0, 2>> >>
MCThetas == {<<1, 3>>, <<1, 2>>, <<4, 5>>}
MCTdStreams == {<<1, 2, 4, 2, 1>>, <<4, 4, 2, 4>>}
(* falls from 4/5 to 1/2 as the digest fills                               *)
MCNormalizer == [n \in 1 .. 64 |-> IF n < 6 THEN <<4, 5>> ELSE <<1, 2>>]
MCMaxOps == [bloom |-> 5, count_min |-> 4, density |-> 6, ebpps |-> 5, tdigest |-> 4]
=============================================================================
