-------------------------- MODULE MCCpcSketches --------------------------
(* Sketches of 2 and 4 rows; 8 columns stand for 64, a window of 2 for 8.  *)
(* With products of 14 bits a sketch of 4 rows meets at 17 coupons what    *)
(* one of 2^20 rows meets at 4294968: 1000 * C wraps, and 2375 * K (here   *)
(* 1500 * K) does not.                                                     *)
EXTENDS CpcSketches

MCSparseEnd == <<3, 4>>
MCHybridEnd == <<1, 1>>
MCSlidingStart == <<20, 8>>

Column(col) == {<<row, col>> : row \in 0 .. 3}

(* the low columns in every row, a late one, and the pair that looks like  *)
(* the free-slot marker                                                    *)
MCHashes == Column(0) \cup Column(1) \cup {<<0, 2>>, <<3, 2>>, <<2, 3>>, <<1, 5>>, <<3, 9>>}
MCLaterHashes == {<<0, 0>>, <<3, 2>>, <<1, 4>>}

Low(n) == [i \in 1 .. n |-> <<(i - 1) % 4, (i - 1) \div 4>>]
MCEarlierStreams == {<< >>, Low(9), Low(13) \o << <<0, 5>> >>, Low(16)}

MCSources == {<<2, << <<0, 3>>, <<2, 0>> >>>>,
              <<2, << <<1, 6>>, <<3, 7>>, <<0, 1>> >>>>,
              <<2, Low(5) \o << <<1, 4>> >>>>,
              <<2, Tail(Low(14)) \o << <<3, 5>> >>>>,
              <<1, << <<1, 2>> >>>>,
              <<1, << <<0, 0>>, <<1, 1>>, <<0, 4>> >>>>,
              <<1, Low(8) \o << <<0, 2>>, <<1, 6>> >>>>}

(* Lists of fewer than k/2 pairs: one pair in each column; n pairs in one  *)
(* row, the first or the last; n pairs in columns that use long and short  *)
(* codes, in rows spread over the sketch or close to its end.              *)
Apart(lg_k, n) == IF n = 1 THEN 2^lg_k - 1 ELSE (2^lg_k - 1) \div (n - 1)
MCPairLists ==
  {<<lg_k, << <<row, col>> >>>> : <<lg_k, row, col>> \in {4, 12, 26} \X {0, 15} \X (0 .. 63)}
  \cup {<<lg_k, [i \in 1 .. n |-> <<row, i - 1>>]>> :
          <<lg_k, row, n>> \in ({7, 12} \X {0, 127} \X (2 .. 30))}
  \cup {<<lg_k, [i \in 1 .. n |-> <<(i - 1) * Apart(lg_k, n), (step * i) % 64>>]>> :
          <<lg_k, n, step>> \in {10, 26} \X (2 .. 30) \X {1, 21}}
  \cup {<<lg_k, [i \in 1 .. n |-> <<2^lg_k - 1 - n + i, 63>>]>> :
          <<lg_k, n>> \in {9, 12, 16} \X (2 .. 30)}

(* Windows of 16 rows with 8 bits, enough for every pseudo phase: a byte   *)
(* in the first row and its complement in the last.                        *)
MCWindows == {[i \in 1 .. 16 |-> IF i = 1 THEN v ELSE IF i = 16 THEN 255 - v ELSE 0] :
                v \in 0 .. 255}
=============================================================================
