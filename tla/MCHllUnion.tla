---- MODULE MCHllUnion ----
(* Sketches: four registers driven through curMin and the exceptions,      *)
(* eight and sixteen of them reached through lists and sets.  Unions:      *)
(* streams that leave sketches of four, eight or sixteen registers in each *)
(* mode, and two sketches that start as arrays.                            *)
EXTENDS HllUnion

const_InputCoupons ==
  [lgK \in LgKs |->
     IF lgK = 2
       THEN {pair(0, v) : v \in {1, 2, 15, 17}} \cup {pair(1, v) : v \in {1, 2, 16}}
              \cup {pair(2, v) : v \in {1, 2, 15}} \cup {pair(3, v) : v \in {1, 18}}
       ELSE {pair(0, 1), pair(8, 16), pair(4, 2), pair(12, 3), pair(5, 1), pair(13, 18),
             pair(7, 17), pair(15, 1), pair(2, 1)}]

Streams ==
  {<<pair(1, 1)>>, <<pair(4, 2), pair(1, 1)>>,
   <<pair(0, 1), pair(5, 2), pair(2, 1), pair(3, 3)>>,
   <<pair(13, 17), pair(8, 1), pair(6, 1), pair(7, 2), pair(11, 1)>>}
const_Inputs ==
  [lgK : {2, 3, 4}, tgt : HLL_TYPES, full : {FALSE}, stream : Streams]
    \cup [lgK : {3, 4}, tgt : {"HLL_8"}, full : {TRUE}, stream : {<<pair(1, 1)>>}]
const_Data == {pair(9, 2), pair(14, 1)}
====
