----------------------------- MODULE BitPacking -----------------------------
(***************************************************************************)
(* bit_packing.hpp: values of a fixed number of bits written one after     *)
(* the other into bytes, most significant bit first.  buf is a function    *)
(* from positions to bytes; the code's pointer and bit offset are ptr and  *)
(* offset.  A byte has W bits, 8 in the code: a block of W values then     *)
(* takes as many bytes as a value has bits.  The second part of the module *)
(* has the unrolled functions for blocks one by one, at the code's width.  *)
(***************************************************************************)
EXTENDS Integers, FiniteSets, Sequences, SequencesExt, Bitwise

CONSTANT W

ASSUME ByteWidth == W \in Nat \ {0}

Byte(n) == n % 2^W

OrInto(buf, ptr, n) == [buf EXCEPT ![ptr] = @ | Byte(n)]

(***************************************************************************)
(* pack_bits: tops up the byte at ptr, then assigns whole bytes, then      *)
(* starts a last one.  Only the first of the three keeps what was there.   *)
(***************************************************************************)
WholeBytes(buf, ptr, value, bits) ==
  LET n    == bits \div W
      rest == bits % W
      full == [i \in DOMAIN buf |->
                 IF i \in ptr .. ptr + n - 1
                   THEN Byte(value \div 2^(bits - W * (i - ptr + 1)))
                   ELSE buf[i]]
  IN [buf    |-> IF rest = 0 THEN full
                 ELSE [full EXCEPT ![ptr + n] = Byte(value * 2^(W - rest))],
      ptr    |-> ptr + n,
      offset |-> rest]

pack_bits(value, bits, buf, ptr, offset) ==
  LET chunk == W - offset
      top   == IF bits < chunk THEN value * 2^(chunk - bits)
               ELSE value \div 2^(bits - chunk)
      mine  == OrInto(buf, ptr, top % 2^chunk)
  IN IF offset = 0 THEN WholeBytes(buf, ptr, value, bits)
     ELSE IF bits < chunk THEN [buf |-> mine, ptr |-> ptr, offset |-> offset + bits]
     ELSE WholeBytes(mine, ptr + 1, value, bits - chunk)

(***************************************************************************)
(* unpack_bits: what is left of the byte at ptr, whole bytes, then the     *)
(* high bits of the last one.                                              *)
(***************************************************************************)
unpack_bits(bits, buf, ptr, offset) ==
  LET avail == W - offset
      chunk == IF avail < bits THEN avail ELSE bits
      first == (buf[ptr] \div 2^(avail - chunk)) % 2^chunk
      p     == IF avail = chunk THEN ptr + 1 ELSE ptr
      left  == bits - chunk
      n     == left \div W
      rest  == left % W
      whole[i \in 0 .. n] ==
        IF i = 0 THEN first ELSE whole[i - 1] * 2^W + buf[p + i - 1]
  IN IF rest > 0
       THEN [value  |-> whole[n] * 2^rest + buf[p + n] \div 2^(W - rest),
             ptr    |-> p + n, offset |-> rest]
       ELSE [value  |-> whole[n], ptr |-> p + n, offset |-> (offset + chunk) % W]

(***************************************************************************)
(* pack_bits_block8 and unpack_bits_block8 dispatch to one unrolled        *)
(* function per width; each writes and reads W values of that width        *)
(* without gaps.  Bit is the i-th bit of a value, BitAt the i-th bit of    *)
(* the bytes from ptr on.                                                  *)
(***************************************************************************)
Bit(value, bits, i) == (value \div 2^(bits - 1 - i)) % 2

BitAt(buf, ptr, i) == (buf[ptr + i \div W] \div 2^(W - 1 - (i % W))) % 2

pack_bits_block8(values, bits, buf, ptr) ==
  LET bit(i) == Bit(values[(i \div bits) + 1], bits, i % bits)
      byte[j \in 0 .. bits - 1, k \in 0 .. W] ==
        IF k = 0 THEN 0 ELSE 2 * byte[j, k - 1] + bit(W * j + k - 1)
  IN [i \in DOMAIN buf |->
        IF i \in ptr .. ptr + bits - 1 THEN byte[i - ptr, W] ELSE buf[i]]

unpack_bits_block8(bits, buf, ptr) ==
  [v \in 1 .. W |->
     LET acc[k \in 0 .. bits] ==
           IF k = 0 THEN 0
           ELSE 2 * acc[k - 1] + BitAt(buf, ptr, (v - 1) * bits + k - 1)
     IN acc[bits]]

-----------------------------------------------------------------------------
(***************************************************************************)
(* The unrolled functions of bit_packing.hpp, at the width of the code:    *)
(* pack_bits_N writes eight values of N bits into N bytes, unpack_bits_N   *)
(* reads them back.  A word is the set of its bit positions that are one,  *)
(* so that << and >> move the positions, | is union, & is intersection and *)
(* the cast to uint8_t keeps 0..7.                                         *)
(*                                                                         *)
(* A function is the list of its operands.  For values[0] .. values[7] the *)
(* tables give the shifts of the statements on that value, in their order. *)
(* In pack_bits_N a shift s >= 0 is values[i] >> s and moves ptr on; s < 0 *)
(* is values[i] << -s and stays, because the byte still has room.  In      *)
(* unpack_bits_N the first number is how many low bits the mask on the     *)
(* first byte keeps, 8 where there is none; s >= 0 is *ptr++ << s and s < 0 *)
(* is *ptr >> -s.  No byte is shifted by more than 23 as an int: from 24   *)
(* on, the code casts it to uint64_t first.                                *)
(***************************************************************************)
pack_bits_1 ==
  <<<<-7>>, <<-6>>, <<-5>>, <<-4>>, <<-3>>, <<-2>>, <<-1>>, <<0>>>>
pack_bits_2 ==
  <<<<-6>>, <<-4>>, <<-2>>, <<0>>, <<-6>>, <<-4>>, <<-2>>, <<0>>>>
pack_bits_3 ==
  <<<<-5>>, <<-2>>, <<1,-7>>, <<-4>>, <<-1>>, <<2,-6>>, <<-3>>, <<0>>>>
pack_bits_4 ==
  <<<<-4>>, <<0>>, <<-4>>, <<0>>, <<-4>>, <<0>>, <<-4>>, <<0>>>>
pack_bits_5 ==
  <<<<-3>>, <<2,-6>>, <<-1>>, <<4,-4>>, <<1,-7>>, <<-2>>, <<3,-5>>, <<0>>>>
pack_bits_6 ==
  <<<<-2>>, <<4,-4>>, <<2,-6>>, <<0>>, <<-2>>, <<4,-4>>, <<2,-6>>, <<0>>>>
pack_bits_7 ==
  <<<<-1>>, <<6,-2>>, <<5,-3>>, <<4,-4>>, <<3,-5>>, <<2,-6>>, <<1,-7>>,
    <<0>>>>
pack_bits_8 ==
  <<<<0>>, <<0>>, <<0>>, <<0>>, <<0>>, <<0>>, <<0>>, <<0>>>>
pack_bits_9 ==
  <<<<1,-7>>, <<2,-6>>, <<3,-5>>, <<4,-4>>, <<5,-3>>, <<6,-2>>, <<7,-1>>,
    <<8,0>>>>
pack_bits_10 ==
  <<<<2,-6>>, <<4,-4>>, <<6,-2>>, <<8,0>>, <<2,-6>>, <<4,-4>>, <<6,-2>>,
    <<8,0>>>>
pack_bits_11 ==
  <<<<3,-5>>, <<6,-2>>, <<9,1,-7>>, <<4,-4>>, <<7,-1>>, <<10,2,-6>>, <<5,-3>>,
    <<8,0>>>>
pack_bits_12 ==
  <<<<4,-4>>, <<8,0>>, <<4,-4>>, <<8,0>>, <<4,-4>>, <<8,0>>, <<4,-4>>,
    <<8,0>>>>
pack_bits_13 ==
  <<<<5,-3>>, <<10,2,-6>>, <<7,-1>>, <<12,4,-4>>, <<9,1,-7>>, <<6,-2>>,
    <<11,3,-5>>, <<8,0>>>>
pack_bits_14 ==
  <<<<6,-2>>, <<12,4,-4>>, <<10,2,-6>>, <<8,0>>, <<6,-2>>, <<12,4,-4>>,
    <<10,2,-6>>, <<8,0>>>>
pack_bits_15 ==
  <<<<7,-1>>, <<14,6,-2>>, <<13,5,-3>>, <<12,4,-4>>, <<11,3,-5>>, <<10,2,-6>>,
    <<9,1,-7>>, <<8,0>>>>
pack_bits_16 ==
  <<<<8,0>>, <<8,0>>, <<8,0>>, <<8,0>>, <<8,0>>, <<8,0>>, <<8,0>>, <<8,0>>>>
pack_bits_17 ==
  <<<<9,1,-7>>, <<10,2,-6>>, <<11,3,-5>>, <<12,4,-4>>, <<13,5,-3>>,
    <<14,6,-2>>, <<15,7,-1>>, <<16,8,0>>>>
pack_bits_18 ==
  <<<<10,2,-6>>, <<12,4,-4>>, <<14,6,-2>>, <<16,8,0>>, <<10,2,-6>>,
    <<12,4,-4>>, <<14,6,-2>>, <<16,8,0>>>>
pack_bits_19 ==
  <<<<11,3,-5>>, <<14,6,-2>>, <<17,9,1,-7>>, <<12,4,-4>>, <<15,7,-1>>,
    <<18,10,2,-6>>, <<13,5,-3>>, <<16,8,0>>>>
pack_bits_20 ==
  <<<<12,4,-4>>, <<16,8,0>>, <<12,4,-4>>, <<16,8,0>>, <<12,4,-4>>, <<16,8,0>>,
    <<12,4,-4>>, <<16,8,0>>>>
pack_bits_21 ==
  <<<<13,5,-3>>, <<18,10,2,-6>>, <<15,7,-1>>, <<20,12,4,-4>>, <<17,9,1,-7>>,
    <<14,6,-2>>, <<19,11,3,-5>>, <<16,8,0>>>>
pack_bits_22 ==
  <<<<14,6,-2>>, <<20,12,4,-4>>, <<18,10,2,-6>>, <<16,8,0>>, <<14,6,-2>>,
    <<20,12,4,-4>>, <<18,10,2,-6>>, <<16,8,0>>>>
pack_bits_23 ==
  <<<<15,7,-1>>, <<22,14,6,-2>>, <<21,13,5,-3>>, <<20,12,4,-4>>,
    <<19,11,3,-5>>, <<18,10,2,-6>>, <<17,9,1,-7>>, <<16,8,0>>>>
pack_bits_24 ==
  <<<<16,8,0>>, <<16,8,0>>, <<16,8,0>>, <<16,8,0>>, <<16,8,0>>, <<16,8,0>>,
    <<16,8,0>>, <<16,8,0>>>>
pack_bits_25 ==
  <<<<17,9,1,-7>>, <<18,10,2,-6>>, <<19,11,3,-5>>, <<20,12,4,-4>>,
    <<21,13,5,-3>>, <<22,14,6,-2>>, <<23,15,7,-1>>, <<24,16,8,0>>>>
pack_bits_26 ==
  <<<<18,10,2,-6>>, <<20,12,4,-4>>, <<22,14,6,-2>>, <<24,16,8,0>>,
    <<18,10,2,-6>>, <<20,12,4,-4>>, <<22,14,6,-2>>, <<24,16,8,0>>>>
pack_bits_27 ==
  <<<<19,11,3,-5>>, <<22,14,6,-2>>, <<25,17,9,1,-7>>, <<20,12,4,-4>>,
    <<23,15,7,-1>>, <<26,18,10,2,-6>>, <<21,13,5,-3>>, <<24,16,8,0>>>>
pack_bits_28 ==
  <<<<20,12,4,-4>>, <<24,16,8,0>>, <<20,12,4,-4>>, <<24,16,8,0>>,
    <<20,12,4,-4>>, <<24,16,8,0>>, <<20,12,4,-4>>, <<24,16,8,0>>>>
pack_bits_29 ==
  <<<<21,13,5,-3>>, <<26,18,10,2,-6>>, <<23,15,7,-1>>, <<28,20,12,4,-4>>,
    <<25,17,9,1,-7>>, <<22,14,6,-2>>, <<27,19,11,3,-5>>, <<24,16,8,0>>>>
pack_bits_30 ==
  <<<<22,14,6,-2>>, <<28,20,12,4,-4>>, <<26,18,10,2,-6>>, <<24,16,8,0>>,
    <<22,14,6,-2>>, <<28,20,12,4,-4>>, <<26,18,10,2,-6>>, <<24,16,8,0>>>>
pack_bits_31 ==
  <<<<23,15,7,-1>>, <<30,22,14,6,-2>>, <<29,21,13,5,-3>>, <<28,20,12,4,-4>>,
    <<27,19,11,3,-5>>, <<26,18,10,2,-6>>, <<25,17,9,1,-7>>, <<24,16,8,0>>>>
pack_bits_32 ==
  <<<<24,16,8,0>>, <<24,16,8,0>>, <<24,16,8,0>>, <<24,16,8,0>>, <<24,16,8,0>>,
    <<24,16,8,0>>, <<24,16,8,0>>, <<24,16,8,0>>>>
pack_bits_33 ==
  <<<<25,17,9,1,-7>>, <<26,18,10,2,-6>>, <<27,19,11,3,-5>>, <<28,20,12,4,-4>>,
    <<29,21,13,5,-3>>, <<30,22,14,6,-2>>, <<31,23,15,7,-1>>,
    <<32,24,16,8,0>>>>
pack_bits_34 ==
  <<<<26,18,10,2,-6>>, <<28,20,12,4,-4>>, <<30,22,14,6,-2>>, <<32,24,16,8,0>>,
    <<26,18,10,2,-6>>, <<28,20,12,4,-4>>, <<30,22,14,6,-2>>,
    <<32,24,16,8,0>>>>
pack_bits_35 ==
  <<<<27,19,11,3,-5>>, <<30,22,14,6,-2>>, <<33,25,17,9,1,-7>>,
    <<28,20,12,4,-4>>, <<31,23,15,7,-1>>, <<34,26,18,10,2,-6>>,
    <<29,21,13,5,-3>>, <<32,24,16,8,0>>>>
pack_bits_36 ==
  <<<<28,20,12,4,-4>>, <<32,24,16,8,0>>, <<28,20,12,4,-4>>, <<32,24,16,8,0>>,
    <<28,20,12,4,-4>>, <<32,24,16,8,0>>, <<28,20,12,4,-4>>, <<32,24,16,8,0>>>>
pack_bits_37_shifted ==
  <<<<29,21,13,5,-3>>, <<34,26,18,10,2,-6>>, <<31,23,15,7,-1>>,
    <<37,29,21,13,5,-3>>, <<33,25,17,9,1,-7>>, <<30,22,14,6,-2>>,
    <<35,27,19,11,3,-5>>, <<32,24,16,8,0>>>>
pack_bits_37 ==
  <<<<29,21,13,5,-3>>, <<34,26,18,10,2,-6>>, <<31,23,15,7,-1>>,
    <<36,28,20,12,4,-4>>, <<33,25,17,9,1,-7>>, <<30,22,14,6,-2>>,
    <<35,27,19,11,3,-5>>, <<32,24,16,8,0>>>>
pack_bits_38 ==
  <<<<30,22,14,6,-2>>, <<36,28,20,12,4,-4>>, <<34,26,18,10,2,-6>>,
    <<32,24,16,8,0>>, <<30,22,14,6,-2>>, <<36,28,20,12,4,-4>>,
    <<34,26,18,10,2,-6>>, <<32,24,16,8,0>>>>
pack_bits_39 ==
  <<<<31,23,15,7,-1>>, <<38,30,22,14,6,-2>>, <<37,29,21,13,5,-3>>,
    <<36,28,20,12,4,-4>>, <<35,27,19,11,3,-5>>, <<34,26,18,10,2,-6>>,
    <<33,25,17,9,1,-7>>, <<32,24,16,8,0>>>>
pack_bits_40 ==
  <<<<32,24,16,8,0>>, <<32,24,16,8,0>>, <<32,24,16,8,0>>, <<32,24,16,8,0>>,
    <<32,24,16,8,0>>, <<32,24,16,8,0>>, <<32,24,16,8,0>>, <<32,24,16,8,0>>>>
pack_bits_41 ==
  <<<<33,25,17,9,1,-7>>, <<34,26,18,10,2,-6>>, <<35,27,19,11,3,-5>>,
    <<36,28,20,12,4,-4>>, <<37,29,21,13,5,-3>>, <<38,30,22,14,6,-2>>,
    <<39,31,23,15,7,-1>>, <<40,32,24,16,8,0>>>>
pack_bits_42 ==
  <<<<34,26,18,10,2,-6>>, <<36,28,20,12,4,-4>>, <<38,30,22,14,6,-2>>,
    <<40,32,24,16,8,0>>, <<34,26,18,10,2,-6>>, <<36,28,20,12,4,-4>>,
    <<38,30,22,14,6,-2>>, <<40,32,24,16,8,0>>>>
pack_bits_43 ==
  <<<<35,27,19,11,3,-5>>, <<38,30,22,14,6,-2>>, <<41,33,25,17,9,1,-7>>,
    <<36,28,20,12,4,-4>>, <<39,31,23,15,7,-1>>, <<42,34,26,18,10,2,-6>>,
    <<37,29,21,13,5,-3>>, <<40,32,24,16,8,0>>>>
pack_bits_44 ==
  <<<<36,28,20,12,4,-4>>, <<40,32,24,16,8,0>>, <<36,28,20,12,4,-4>>,
    <<40,32,24,16,8,0>>, <<36,28,20,12,4,-4>>, <<40,32,24,16,8,0>>,
    <<36,28,20,12,4,-4>>, <<40,32,24,16,8,0>>>>
pack_bits_45 ==
  <<<<37,29,21,13,5,-3>>, <<42,34,26,18,10,2,-6>>, <<39,31,23,15,7,-1>>,
    <<44,36,28,20,12,4,-4>>, <<41,33,25,17,9,1,-7>>, <<38,30,22,14,6,-2>>,
    <<43,35,27,19,11,3,-5>>, <<40,32,24,16,8,0>>>>
pack_bits_46 ==
  <<<<38,30,22,14,6,-2>>, <<44,36,28,20,12,4,-4>>, <<42,34,26,18,10,2,-6>>,
    <<40,32,24,16,8,0>>, <<38,30,22,14,6,-2>>, <<44,36,28,20,12,4,-4>>,
    <<42,34,26,18,10,2,-6>>, <<40,32,24,16,8,0>>>>
pack_bits_47 ==
  <<<<39,31,23,15,7,-1>>, <<46,38,30,22,14,6,-2>>, <<45,37,29,21,13,5,-3>>,
    <<44,36,28,20,12,4,-4>>, <<43,35,27,19,11,3,-5>>, <<42,34,26,18,10,2,-6>>,
    <<41,33,25,17,9,1,-7>>, <<40,32,24,16,8,0>>>>
pack_bits_48 ==
  <<<<40,32,24,16,8,0>>, <<40,32,24,16,8,0>>, <<40,32,24,16,8,0>>,
    <<40,32,24,16,8,0>>, <<40,32,24,16,8,0>>, <<40,32,24,16,8,0>>,
    <<40,32,24,16,8,0>>, <<40,32,24,16,8,0>>>>
pack_bits_49 ==
  <<<<41,33,25,17,9,1,-7>>, <<42,34,26,18,10,2,-6>>, <<43,35,27,19,11,3,-5>>,
    <<44,36,28,20,12,4,-4>>, <<45,37,29,21,13,5,-3>>, <<46,38,30,22,14,6,-2>>,
    <<47,39,31,23,15,7,-1>>, <<48,40,32,24,16,8,0>>>>
pack_bits_50 ==
  <<<<42,34,26,18,10,2,-6>>, <<44,36,28,20,12,4,-4>>, <<46,38,30,22,14,6,-2>>,
    <<48,40,32,24,16,8,0>>, <<42,34,26,18,10,2,-6>>, <<44,36,28,20,12,4,-4>>,
    <<46,38,30,22,14,6,-2>>, <<48,40,32,24,16,8,0>>>>
pack_bits_51 ==
  <<<<43,35,27,19,11,3,-5>>, <<46,38,30,22,14,6,-2>>,
    <<49,41,33,25,17,9,1,-7>>, <<44,36,28,20,12,4,-4>>,
    <<47,39,31,23,15,7,-1>>, <<50,42,34,26,18,10,2,-6>>,
    <<45,37,29,21,13,5,-3>>, <<48,40,32,24,16,8,0>>>>
pack_bits_52 ==
  <<<<44,36,28,20,12,4,-4>>, <<48,40,32,24,16,8,0>>, <<44,36,28,20,12,4,-4>>,
    <<48,40,32,24,16,8,0>>, <<44,36,28,20,12,4,-4>>, <<48,40,32,24,16,8,0>>,
    <<44,36,28,20,12,4,-4>>, <<48,40,32,24,16,8,0>>>>
pack_bits_53 ==
  <<<<45,37,29,21,13,5,-3>>, <<50,42,34,26,18,10,2,-6>>,
    <<47,39,31,23,15,7,-1>>, <<52,44,36,28,20,12,4,-4>>,
    <<49,41,33,25,17,9,1,-7>>, <<46,38,30,22,14,6,-2>>,
    <<51,43,35,27,19,11,3,-5>>, <<48,40,32,24,16,8,0>>>>
pack_bits_54 ==
  <<<<46,38,30,22,14,6,-2>>, <<52,44,36,28,20,12,4,-4>>,
    <<50,42,34,26,18,10,2,-6>>, <<48,40,32,24,16,8,0>>,
    <<46,38,30,22,14,6,-2>>, <<52,44,36,28,20,12,4,-4>>,
    <<50,42,34,26,18,10,2,-6>>, <<48,40,32,24,16,8,0>>>>
pack_bits_55 ==
  <<<<47,39,31,23,15,7,-1>>, <<54,46,38,30,22,14,6,-2>>,
    <<53,45,37,29,21,13,5,-3>>, <<52,44,36,28,20,12,4,-4>>,
    <<51,43,35,27,19,11,3,-5>>, <<50,42,34,26,18,10,2,-6>>,
    <<49,41,33,25,17,9,1,-7>>, <<48,40,32,24,16,8,0>>>>
pack_bits_56 ==
  <<<<48,40,32,24,16,8,0>>, <<48,40,32,24,16,8,0>>, <<48,40,32,24,16,8,0>>,
    <<48,40,32,24,16,8,0>>, <<48,40,32,24,16,8,0>>, <<48,40,32,24,16,8,0>>,
    <<48,40,32,24,16,8,0>>, <<48,40,32,24,16,8,0>>>>
pack_bits_57 ==
  <<<<49,41,33,25,17,9,1,-7>>, <<50,42,34,26,18,10,2,-6>>,
    <<51,43,35,27,19,11,3,-5>>, <<52,44,36,28,20,12,4,-4>>,
    <<53,45,37,29,21,13,5,-3>>, <<54,46,38,30,22,14,6,-2>>,
    <<55,47,39,31,23,15,7,-1>>, <<56,48,40,32,24,16,8,0>>>>
pack_bits_58 ==
  <<<<50,42,34,26,18,10,2,-6>>, <<52,44,36,28,20,12,4,-4>>,
    <<54,46,38,30,22,14,6,-2>>, <<56,48,40,32,24,16,8,0>>,
    <<50,42,34,26,18,10,2,-6>>, <<52,44,36,28,20,12,4,-4>>,
    <<54,46,38,30,22,14,6,-2>>, <<56,48,40,32,24,16,8,0>>>>
pack_bits_59 ==
  <<<<51,43,35,27,19,11,3,-5>>, <<54,46,38,30,22,14,6,-2>>,
    <<57,49,41,33,25,17,9,1,-7>>, <<52,44,36,28,20,12,4,-4>>,
    <<55,47,39,31,23,15,7,-1>>, <<58,50,42,34,26,18,10,2,-6>>,
    <<53,45,37,29,21,13,5,-3>>, <<56,48,40,32,24,16,8,0>>>>
pack_bits_60 ==
  <<<<52,44,36,28,20,12,4,-4>>, <<56,48,40,32,24,16,8,0>>,
    <<52,44,36,28,20,12,4,-4>>, <<56,48,40,32,24,16,8,0>>,
    <<52,44,36,28,20,12,4,-4>>, <<56,48,40,32,24,16,8,0>>,
    <<52,44,36,28,20,12,4,-4>>, <<56,48,40,32,24,16,8,0>>>>
pack_bits_61 ==
  <<<<53,45,37,29,21,13,5,-3>>, <<58,50,42,34,26,18,10,2,-6>>,
    <<55,47,39,31,23,15,7,-1>>, <<60,52,44,36,28,20,12,4,-4>>,
    <<57,49,41,33,25,17,9,1,-7>>, <<54,46,38,30,22,14,6,-2>>,
    <<59,51,43,35,27,19,11,3,-5>>, <<56,48,40,32,24,16,8,0>>>>
pack_bits_62 ==
  <<<<54,46,38,30,22,14,6,-2>>, <<60,52,44,36,28,20,12,4,-4>>,
    <<58,50,42,34,26,18,10,2,-6>>, <<56,48,40,32,24,16,8,0>>,
    <<54,46,38,30,22,14,6,-2>>, <<60,52,44,36,28,20,12,4,-4>>,
    <<58,50,42,34,26,18,10,2,-6>>, <<56,48,40,32,24,16,8,0>>>>
pack_bits_63 ==
  <<<<55,47,39,31,23,15,7,-1>>, <<62,54,46,38,30,22,14,6,-2>>,
    <<61,53,45,37,29,21,13,5,-3>>, <<60,52,44,36,28,20,12,4,-4>>,
    <<59,51,43,35,27,19,11,3,-5>>, <<58,50,42,34,26,18,10,2,-6>>,
    <<57,49,41,33,25,17,9,1,-7>>, <<56,48,40,32,24,16,8,0>>>>

pack_bits_of ==
  <<pack_bits_1, pack_bits_2, pack_bits_3, pack_bits_4, pack_bits_5,
    pack_bits_6, pack_bits_7, pack_bits_8, pack_bits_9, pack_bits_10,
    pack_bits_11, pack_bits_12, pack_bits_13, pack_bits_14, pack_bits_15,
    pack_bits_16, pack_bits_17, pack_bits_18, pack_bits_19, pack_bits_20,
    pack_bits_21, pack_bits_22, pack_bits_23, pack_bits_24, pack_bits_25,
    pack_bits_26, pack_bits_27, pack_bits_28, pack_bits_29, pack_bits_30,
    pack_bits_31, pack_bits_32, pack_bits_33, pack_bits_34, pack_bits_35,
    pack_bits_36, pack_bits_37, pack_bits_38, pack_bits_39, pack_bits_40,
    pack_bits_41, pack_bits_42, pack_bits_43, pack_bits_44, pack_bits_45,
    pack_bits_46, pack_bits_47, pack_bits_48, pack_bits_49, pack_bits_50,
    pack_bits_51, pack_bits_52, pack_bits_53, pack_bits_54, pack_bits_55,
    pack_bits_56, pack_bits_57, pack_bits_58, pack_bits_59, pack_bits_60,
    pack_bits_61, pack_bits_62, pack_bits_63>>

(* pack_bits_19 ors values[4] >> 7 into a byte that no statement has set   *)
ors_into_fresh_byte(bits, i, k) == bits = 19 /\ i = 5 /\ k = 2

-----------------------------------------------------------------------------
(* The statements of a function in their order, as <<i, k, s>>: the k-th   *)
(* on values[i - 1].  ptr moves on after each with s >= 0.                 *)
Statements(table) ==
  FlattenSeq([i \in 1 .. 8 |->
                [k \in 1 .. Len(table[i]) |-> <<i, k, table[i][k]>>]])

PtrAt(prog, n) == Cardinality({m \in 1 .. n - 1 : prog[m][3] >= 0})

(* The statements on one byte: the first assigns it, the others or into it *)
StatementsAt(prog, bits) ==
  [j \in 0 .. bits - 1 |->
     {prog[n] : n \in {m \in DOMAIN prog : PtrAt(prog, m) = j}}]

PackProgram ==
  [bits \in 1 .. 63 |-> StatementsAt(Statements(pack_bits_of[bits]), bits)]

keeps_byte(bits, c) == \E x \in c : ors_into_fresh_byte(bits, x[1], x[2])

(* pack_bits_block8: the bytes buf[0] .. buf[bits - 1] after the call      *)
pack_block(values, bits, buf) ==
  [j \in 0 .. bits - 1 |->
     (IF keeps_byte(bits, PackProgram[bits][j]) THEN buf[j] ELSE {})
     \cup UNION {{b - c[3] : b \in values[c[1]]} \cap 0 .. 7 :
                 c \in PackProgram[bits][j]}]

unpack_bits_1 ==
  <<<<8,-7>>, <<1,-6>>, <<1,-5>>, <<1,-4>>, <<1,-3>>, <<1,-2>>, <<1,-1>>,
    <<1,0>>>>
unpack_bits_2 ==
  <<<<8,-6>>, <<2,-4>>, <<2,-2>>, <<2,0>>, <<8,-6>>, <<2,-4>>, <<2,-2>>,
    <<2,0>>>>
unpack_bits_3 ==
  <<<<8,-5>>, <<3,-2>>, <<2,1,-7>>, <<3,-4>>, <<3,-1>>, <<1,2,-6>>, <<3,-3>>,
    <<3,0>>>>
unpack_bits_4 ==
  <<<<8,-4>>, <<4,0>>, <<8,-4>>, <<4,0>>, <<8,-4>>, <<4,0>>, <<8,-4>>,
    <<4,0>>>>
unpack_bits_5 ==
  <<<<8,-3>>, <<3,2,-6>>, <<5,-1>>, <<1,4,-4>>, <<4,1,-7>>, <<5,-2>>,
    <<2,3,-5>>, <<5,0>>>>
unpack_bits_6 ==
  <<<<8,-2>>, <<2,4,-4>>, <<4,2,-6>>, <<6,0>>, <<8,-2>>, <<2,4,-4>>,
    <<4,2,-6>>, <<6,0>>>>
unpack_bits_7 ==
  <<<<8,-1>>, <<1,6,-2>>, <<2,5,-3>>, <<3,4,-4>>, <<4,3,-5>>, <<5,2,-6>>,
    <<6,1,-7>>, <<7,0>>>>
unpack_bits_8 ==
  <<<<8,0>>, <<8,0>>, <<8,0>>, <<8,0>>, <<8,0>>, <<8,0>>, <<8,0>>, <<8,0>>>>
unpack_bits_9 ==
  <<<<8,1,-7>>, <<7,2,-6>>, <<6,3,-5>>, <<5,4,-4>>, <<4,5,-3>>, <<3,6,-2>>,
    <<2,7,-1>>, <<1,8,0>>>>
unpack_bits_10 ==
  <<<<8,2,-6>>, <<6,4,-4>>, <<4,6,-2>>, <<2,8,0>>, <<8,2,-6>>, <<6,4,-4>>,
    <<4,6,-2>>, <<2,8,0>>>>
unpack_bits_11 ==
  <<<<8,3,-5>>, <<5,6,-2>>, <<2,9,1,-7>>, <<7,4,-4>>, <<4,7,-1>>,
    <<1,10,2,-6>>, <<6,5,-3>>, <<3,8,0>>>>
unpack_bits_12 ==
  <<<<8,4,-4>>, <<4,8,0>>, <<8,4,-4>>, <<4,8,0>>, <<8,4,-4>>, <<4,8,0>>,
    <<8,4,-4>>, <<4,8,0>>>>
unpack_bits_13 ==
  <<<<8,5,-3>>, <<3,10,2,-6>>, <<6,7,-1>>, <<1,12,4,-4>>, <<4,9,1,-7>>,
    <<7,6,-2>>, <<2,11,3,-5>>, <<5,8,0>>>>
unpack_bits_14 ==
  <<<<8,6,-2>>, <<2,12,4,-4>>, <<4,10,2,-6>>, <<6,8,0>>, <<8,6,-2>>,
    <<2,12,4,-4>>, <<4,10,2,-6>>, <<6,8,0>>>>
unpack_bits_15 ==
  <<<<8,7,-1>>, <<1,14,6,-2>>, <<2,13,5,-3>>, <<3,12,4,-4>>, <<4,11,3,-5>>,
    <<5,10,2,-6>>, <<6,9,1,-7>>, <<7,8,0>>>>
unpack_bits_16 ==
  <<<<8,8,0>>, <<8,8,0>>, <<8,8,0>>, <<8,8,0>>, <<8,8,0>>, <<8,8,0>>,
    <<8,8,0>>, <<8,8,0>>>>
unpack_bits_17 ==
  <<<<8,9,1,-7>>, <<7,10,2,-6>>, <<6,11,3,-5>>, <<5,12,4,-4>>, <<4,13,5,-3>>,
    <<3,14,6,-2>>, <<2,15,7,-1>>, <<1,16,8,0>>>>
unpack_bits_18 ==
  <<<<8,10,2,-6>>, <<6,12,4,-4>>, <<4,14,6,-2>>, <<2,16,8,0>>, <<8,10,2,-6>>,
    <<6,12,4,-4>>, <<4,14,6,-2>>, <<2,16,8,0>>>>
unpack_bits_19 ==
  <<<<8,11,3,-5>>, <<5,14,6,-2>>, <<2,17,9,1,-7>>, <<7,12,4,-4>>,
    <<4,15,7,-1>>, <<1,18,10,2,-6>>, <<6,13,5,-3>>, <<3,16,8,0>>>>
unpack_bits_20 ==
  <<<<8,12,4,-4>>, <<4,16,8,0>>, <<8,12,4,-4>>, <<4,16,8,0>>, <<8,12,4,-4>>,
    <<4,16,8,0>>, <<8,12,4,-4>>, <<4,16,8,0>>>>
unpack_bits_21 ==
  <<<<8,13,5,-3>>, <<3,18,10,2,-6>>, <<6,15,7,-1>>, <<1,20,12,4,-4>>,
    <<4,17,9,1,-7>>, <<7,14,6,-2>>, <<2,19,11,3,-5>>, <<5,16,8,0>>>>
unpack_bits_22 ==
  <<<<8,14,6,-2>>, <<2,20,12,4,-4>>, <<4,18,10,2,-6>>, <<6,16,8,0>>,
    <<8,14,6,-2>>, <<2,20,12,4,-4>>, <<4,18,10,2,-6>>, <<6,16,8,0>>>>
unpack_bits_23 ==
  <<<<8,15,7,-1>>, <<1,22,14,6,-2>>, <<2,21,13,5,-3>>, <<3,20,12,4,-4>>,
    <<4,19,11,3,-5>>, <<5,18,10,2,-6>>, <<6,17,9,1,-7>>, <<7,16,8,0>>>>
unpack_bits_24 ==
  <<<<8,16,8,0>>, <<8,16,8,0>>, <<8,16,8,0>>, <<8,16,8,0>>, <<8,16,8,0>>,
    <<8,16,8,0>>, <<8,16,8,0>>, <<8,16,8,0>>>>
unpack_bits_25 ==
  <<<<8,17,9,1,-7>>, <<7,18,10,2,-6>>, <<6,19,11,3,-5>>, <<5,20,12,4,-4>>,
    <<4,21,13,5,-3>>, <<3,22,14,6,-2>>, <<2,23,15,7,-1>>, <<1,24,16,8,0>>>>
unpack_bits_26 ==
  <<<<8,18,10,2,-6>>, <<6,20,12,4,-4>>, <<4,22,14,6,-2>>, <<2,24,16,8,0>>,
    <<8,18,10,2,-6>>, <<6,20,12,4,-4>>, <<4,22,14,6,-2>>, <<2,24,16,8,0>>>>
unpack_bits_27 ==
  <<<<8,19,11,3,-5>>, <<5,22,14,6,-2>>, <<2,25,17,9,1,-7>>, <<7,20,12,4,-4>>,
    <<4,23,15,7,-1>>, <<1,26,18,10,2,-6>>, <<6,21,13,5,-3>>, <<3,24,16,8,0>>>>
unpack_bits_28 ==
  <<<<8,20,12,4,-4>>, <<4,24,16,8,0>>, <<8,20,12,4,-4>>, <<4,24,16,8,0>>,
    <<8,20,12,4,-4>>, <<4,24,16,8,0>>, <<8,20,12,4,-4>>, <<4,24,16,8,0>>>>
unpack_bits_29 ==
  <<<<8,21,13,5,-3>>, <<3,26,18,10,2,-6>>, <<6,23,15,7,-1>>,
    <<1,28,20,12,4,-4>>, <<4,25,17,9,1,-7>>, <<7,22,14,6,-2>>,
    <<2,27,19,11,3,-5>>, <<5,24,16,8,0>>>>
unpack_bits_30 ==
  <<<<8,22,14,6,-2>>, <<2,28,20,12,4,-4>>, <<4,26,18,10,2,-6>>,
    <<6,24,16,8,0>>, <<8,22,14,6,-2>>, <<2,28,20,12,4,-4>>,
    <<4,26,18,10,2,-6>>, <<6,24,16,8,0>>>>
unpack_bits_31 ==
  <<<<8,23,15,7,-1>>, <<1,30,22,14,6,-2>>, <<2,29,21,13,5,-3>>,
    <<3,28,20,12,4,-4>>, <<4,27,19,11,3,-5>>, <<5,26,18,10,2,-6>>,
    <<6,25,17,9,1,-7>>, <<7,24,16,8,0>>>>
unpack_bits_32 ==
  <<<<8,24,16,8,0>>, <<8,24,16,8,0>>, <<8,24,16,8,0>>, <<8,24,16,8,0>>,
    <<8,24,16,8,0>>, <<8,24,16,8,0>>, <<8,24,16,8,0>>, <<8,24,16,8,0>>>>
unpack_bits_33 ==
  <<<<8,25,17,9,1,-7>>, <<7,26,18,10,2,-6>>, <<6,27,19,11,3,-5>>,
    <<5,28,20,12,4,-4>>, <<4,29,21,13,5,-3>>, <<3,30,22,14,6,-2>>,
    <<2,31,23,15,7,-1>>, <<1,32,24,16,8,0>>>>
unpack_bits_34 ==
  <<<<8,26,18,10,2,-6>>, <<6,28,20,12,4,-4>>, <<4,30,22,14,6,-2>>,
    <<2,32,24,16,8,0>>, <<8,26,18,10,2,-6>>, <<6,28,20,12,4,-4>>,
    <<4,30,22,14,6,-2>>, <<2,32,24,16,8,0>>>>
unpack_bits_35 ==
  <<<<8,27,19,11,3,-5>>, <<5,30,22,14,6,-2>>, <<2,33,25,17,9,1,-7>>,
    <<7,28,20,12,4,-4>>, <<4,31,23,15,7,-1>>, <<1,34,26,18,10,2,-6>>,
    <<6,29,21,13,5,-3>>, <<3,32,24,16,8,0>>>>
unpack_bits_36 ==
  <<<<8,28,20,12,4,-4>>, <<4,32,24,16,8,0>>, <<8,28,20,12,4,-4>>,
    <<4,32,24,16,8,0>>, <<8,28,20,12,4,-4>>, <<4,32,24,16,8,0>>,
    <<8,28,20,12,4,-4>>, <<4,32,24,16,8,0>>>>
unpack_bits_37 ==
  <<<<8,29,21,13,5,-3>>, <<3,34,26,18,10,2,-6>>, <<6,31,23,15,7,-1>>,
    <<1,36,28,20,12,4,-4>>, <<4,33,25,17,9,1,-7>>, <<7,30,22,14,6,-2>>,
    <<2,35,27,19,11,3,-5>>, <<5,32,24,16,8,0>>>>
unpack_bits_38 ==
  <<<<8,30,22,14,6,-2>>, <<2,36,28,20,12,4,-4>>, <<4,34,26,18,10,2,-6>>,
    <<6,32,24,16,8,0>>, <<8,30,22,14,6,-2>>, <<2,36,28,20,12,4,-4>>,
    <<4,34,26,18,10,2,-6>>, <<6,32,24,16,8,0>>>>
unpack_bits_39 ==
  <<<<8,31,23,15,7,-1>>, <<1,38,30,22,14,6,-2>>, <<2,37,29,21,13,5,-3>>,
    <<3,36,28,20,12,4,-4>>, <<4,35,27,19,11,3,-5>>, <<5,34,26,18,10,2,-6>>,
    <<6,33,25,17,9,1,-7>>, <<7,32,24,16,8,0>>>>
unpack_bits_40 ==
  <<<<8,32,24,16,8,0>>, <<8,32,24,16,8,0>>, <<8,32,24,16,8,0>>,
    <<8,32,24,16,8,0>>, <<8,32,24,16,8,0>>, <<8,32,24,16,8,0>>,
    <<8,32,24,16,8,0>>, <<8,32,24,16,8,0>>>>
unpack_bits_41 ==
  <<<<8,33,25,17,9,1,-7>>, <<7,34,26,18,10,2,-6>>, <<6,35,27,19,11,3,-5>>,
    <<5,36,28,20,12,4,-4>>, <<4,37,29,21,13,5,-3>>, <<3,38,30,22,14,6,-2>>,
    <<2,39,31,23,15,7,-1>>, <<1,40,32,24,16,8,0>>>>
unpack_bits_42 ==
  <<<<8,34,26,18,10,2,-6>>, <<6,36,28,20,12,4,-4>>, <<4,38,30,22,14,6,-2>>,
    <<2,40,32,24,16,8,0>>, <<8,34,26,18,10,2,-6>>, <<6,36,28,20,12,4,-4>>,
    <<4,38,30,22,14,6,-2>>, <<2,40,32,24,16,8,0>>>>
unpack_bits_43 ==
  <<<<8,35,27,19,11,3,-5>>, <<5,38,30,22,14,6,-2>>, <<2,41,33,25,17,9,1,-7>>,
    <<7,36,28,20,12,4,-4>>, <<4,39,31,23,15,7,-1>>, <<1,42,34,26,18,10,2,-6>>,
    <<6,37,29,21,13,5,-3>>, <<3,40,32,24,16,8,0>>>>
unpack_bits_44 ==
  <<<<8,36,28,20,12,4,-4>>, <<4,40,32,24,16,8,0>>, <<8,36,28,20,12,4,-4>>,
    <<4,40,32,24,16,8,0>>, <<8,36,28,20,12,4,-4>>, <<4,40,32,24,16,8,0>>,
    <<8,36,28,20,12,4,-4>>, <<4,40,32,24,16,8,0>>>>
unpack_bits_45_mask ==
  <<<<8,37,29,21,13,5,-3>>, <<3,42,34,26,18,10,2,-6>>, <<7,39,31,23,15,7,-1>>,
    <<1,44,36,28,20,12,4,-4>>, <<4,41,33,25,17,9,1,-7>>,
    <<7,38,30,22,14,6,-2>>, <<2,43,35,27,19,11,3,-5>>, <<5,40,32,24,16,8,0>>>>
unpack_bits_45 ==
  <<<<8,37,29,21,13,5,-3>>, <<3,42,34,26,18,10,2,-6>>, <<6,39,31,23,15,7,-1>>,
    <<1,44,36,28,20,12,4,-4>>, <<4,41,33,25,17,9,1,-7>>,
    <<7,38,30,22,14,6,-2>>, <<2,43,35,27,19,11,3,-5>>, <<5,40,32,24,16,8,0>>>>
unpack_bits_46 ==
  <<<<8,38,30,22,14,6,-2>>, <<2,44,36,28,20,12,4,-4>>,
    <<4,42,34,26,18,10,2,-6>>, <<6,40,32,24,16,8,0>>, <<8,38,30,22,14,6,-2>>,
    <<2,44,36,28,20,12,4,-4>>, <<4,42,34,26,18,10,2,-6>>,
    <<6,40,32,24,16,8,0>>>>
unpack_bits_47 ==
  <<<<8,39,31,23,15,7,-1>>, <<1,46,38,30,22,14,6,-2>>,
    <<2,45,37,29,21,13,5,-3>>, <<3,44,36,28,20,12,4,-4>>,
    <<4,43,35,27,19,11,3,-5>>, <<5,42,34,26,18,10,2,-6>>,
    <<6,41,33,25,17,9,1,-7>>, <<7,40,32,24,16,8,0>>>>
unpack_bits_48 ==
  <<<<8,40,32,24,16,8,0>>, <<8,40,32,24,16,8,0>>, <<8,40,32,24,16,8,0>>,
    <<8,40,32,24,16,8,0>>, <<8,40,32,24,16,8,0>>, <<8,40,32,24,16,8,0>>,
    <<8,40,32,24,16,8,0>>, <<8,40,32,24,16,8,0>>>>
unpack_bits_49 ==
  <<<<8,41,33,25,17,9,1,-7>>, <<7,42,34,26,18,10,2,-6>>,
    <<6,43,35,27,19,11,3,-5>>, <<5,44,36,28,20,12,4,-4>>,
    <<4,45,37,29,21,13,5,-3>>, <<3,46,38,30,22,14,6,-2>>,
    <<2,47,39,31,23,15,7,-1>>, <<1,48,40,32,24,16,8,0>>>>
unpack_bits_50 ==
  <<<<8,42,34,26,18,10,2,-6>>, <<6,44,36,28,20,12,4,-4>>,
    <<4,46,38,30,22,14,6,-2>>, <<2,48,40,32,24,16,8,0>>,
    <<8,42,34,26,18,10,2,-6>>, <<6,44,36,28,20,12,4,-4>>,
    <<4,46,38,30,22,14,6,-2>>, <<2,48,40,32,24,16,8,0>>>>
unpack_bits_51 ==
  <<<<8,43,35,27,19,11,3,-5>>, <<5,46,38,30,22,14,6,-2>>,
    <<2,49,41,33,25,17,9,1,-7>>, <<7,44,36,28,20,12,4,-4>>,
    <<4,47,39,31,23,15,7,-1>>, <<1,50,42,34,26,18,10,2,-6>>,
    <<6,45,37,29,21,13,5,-3>>, <<3,48,40,32,24,16,8,0>>>>
unpack_bits_52 ==
  <<<<8,44,36,28,20,12,4,-4>>, <<4,48,40,32,24,16,8,0>>,
    <<8,44,36,28,20,12,4,-4>>, <<4,48,40,32,24,16,8,0>>,
    <<8,44,36,28,20,12,4,-4>>, <<4,48,40,32,24,16,8,0>>,
    <<8,44,36,28,20,12,4,-4>>, <<4,48,40,32,24,16,8,0>>>>
unpack_bits_53 ==
  <<<<8,45,37,29,21,13,5,-3>>, <<3,50,42,34,26,18,10,2,-6>>,
    <<6,47,39,31,23,15,7,-1>>, <<1,52,44,36,28,20,12,4,-4>>,
    <<4,49,41,33,25,17,9,1,-7>>, <<7,46,38,30,22,14,6,-2>>,
    <<2,51,43,35,27,19,11,3,-5>>, <<5,48,40,32,24,16,8,0>>>>
unpack_bits_54 ==
  <<<<8,46,38,30,22,14,6,-2>>, <<2,52,44,36,28,20,12,4,-4>>,
    <<4,50,42,34,26,18,10,2,-6>>, <<6,48,40,32,24,16,8,0>>,
    <<8,46,38,30,22,14,6,-2>>, <<2,52,44,36,28,20,12,4,-4>>,
    <<4,50,42,34,26,18,10,2,-6>>, <<6,48,40,32,24,16,8,0>>>>
unpack_bits_55 ==
  <<<<8,47,39,31,23,15,7,-1>>, <<1,54,46,38,30,22,14,6,-2>>,
    <<2,53,45,37,29,21,13,5,-3>>, <<3,52,44,36,28,20,12,4,-4>>,
    <<4,51,43,35,27,19,11,3,-5>>, <<5,50,42,34,26,18,10,2,-6>>,
    <<6,49,41,33,25,17,9,1,-7>>, <<7,48,40,32,24,16,8,0>>>>
unpack_bits_56 ==
  <<<<8,48,40,32,24,16,8,0>>, <<8,48,40,32,24,16,8,0>>,
    <<8,48,40,32,24,16,8,0>>, <<8,48,40,32,24,16,8,0>>,
    <<8,48,40,32,24,16,8,0>>, <<8,48,40,32,24,16,8,0>>,
    <<8,48,40,32,24,16,8,0>>, <<8,48,40,32,24,16,8,0>>>>
unpack_bits_57 ==
  <<<<8,49,41,33,25,17,9,1,-7>>, <<7,50,42,34,26,18,10,2,-6>>,
    <<6,51,43,35,27,19,11,3,-5>>, <<5,52,44,36,28,20,12,4,-4>>,
    <<4,53,45,37,29,21,13,5,-3>>, <<3,54,46,38,30,22,14,6,-2>>,
    <<2,55,47,39,31,23,15,7,-1>>, <<1,56,48,40,32,24,16,8,0>>>>
unpack_bits_58 ==
  <<<<8,50,42,34,26,18,10,2,-6>>, <<6,52,44,36,28,20,12,4,-4>>,
    <<4,54,46,38,30,22,14,6,-2>>, <<2,56,48,40,32,24,16,8,0>>,
    <<8,50,42,34,26,18,10,2,-6>>, <<6,52,44,36,28,20,12,4,-4>>,
    <<4,54,46,38,30,22,14,6,-2>>, <<2,56,48,40,32,24,16,8,0>>>>
unpack_bits_59 ==
  <<<<8,51,43,35,27,19,11,3,-5>>, <<5,54,46,38,30,22,14,6,-2>>,
    <<2,57,49,41,33,25,17,9,1,-7>>, <<7,52,44,36,28,20,12,4,-4>>,
    <<4,55,47,39,31,23,15,7,-1>>, <<1,58,50,42,34,26,18,10,2,-6>>,
    <<6,53,45,37,29,21,13,5,-3>>, <<3,56,48,40,32,24,16,8,0>>>>
unpack_bits_60 ==
  <<<<8,52,44,36,28,20,12,4,-4>>, <<4,56,48,40,32,24,16,8,0>>,
    <<8,52,44,36,28,20,12,4,-4>>, <<4,56,48,40,32,24,16,8,0>>,
    <<8,52,44,36,28,20,12,4,-4>>, <<4,56,48,40,32,24,16,8,0>>,
    <<8,52,44,36,28,20,12,4,-4>>, <<4,56,48,40,32,24,16,8,0>>>>
unpack_bits_61 ==
  <<<<8,53,45,37,29,21,13,5,-3>>, <<3,58,50,42,34,26,18,10,2,-6>>,
    <<6,55,47,39,31,23,15,7,-1>>, <<1,60,52,44,36,28,20,12,4,-4>>,
    <<4,57,49,41,33,25,17,9,1,-7>>, <<7,54,46,38,30,22,14,6,-2>>,
    <<2,59,51,43,35,27,19,11,3,-5>>, <<5,56,48,40,32,24,16,8,0>>>>
unpack_bits_62 ==
  <<<<8,54,46,38,30,22,14,6,-2>>, <<2,60,52,44,36,28,20,12,4,-4>>,
    <<4,58,50,42,34,26,18,10,2,-6>>, <<6,56,48,40,32,24,16,8,0>>,
    <<8,54,46,38,30,22,14,6,-2>>, <<2,60,52,44,36,28,20,12,4,-4>>,
    <<4,58,50,42,34,26,18,10,2,-6>>, <<6,56,48,40,32,24,16,8,0>>>>
unpack_bits_63 ==
  <<<<8,55,47,39,31,23,15,7,-1>>, <<1,62,54,46,38,30,22,14,6,-2>>,
    <<2,61,53,45,37,29,21,13,5,-3>>, <<3,60,52,44,36,28,20,12,4,-4>>,
    <<4,59,51,43,35,27,19,11,3,-5>>, <<5,58,50,42,34,26,18,10,2,-6>>,
    <<6,57,49,41,33,25,17,9,1,-7>>, <<7,56,48,40,32,24,16,8,0>>>>

unpack_bits_of ==
  <<unpack_bits_1, unpack_bits_2, unpack_bits_3, unpack_bits_4, unpack_bits_5,
    unpack_bits_6, unpack_bits_7, unpack_bits_8, unpack_bits_9,
    unpack_bits_10, unpack_bits_11, unpack_bits_12, unpack_bits_13,
    unpack_bits_14, unpack_bits_15, unpack_bits_16, unpack_bits_17,
    unpack_bits_18, unpack_bits_19, unpack_bits_20, unpack_bits_21,
    unpack_bits_22, unpack_bits_23, unpack_bits_24, unpack_bits_25,
    unpack_bits_26, unpack_bits_27, unpack_bits_28, unpack_bits_29,
    unpack_bits_30, unpack_bits_31, unpack_bits_32, unpack_bits_33,
    unpack_bits_34, unpack_bits_35, unpack_bits_36, unpack_bits_37,
    unpack_bits_38, unpack_bits_39, unpack_bits_40, unpack_bits_41,
    unpack_bits_42, unpack_bits_43, unpack_bits_44, unpack_bits_45,
    unpack_bits_46, unpack_bits_47, unpack_bits_48, unpack_bits_49,
    unpack_bits_50, unpack_bits_51, unpack_bits_52, unpack_bits_53,
    unpack_bits_54, unpack_bits_55, unpack_bits_56, unpack_bits_57,
    unpack_bits_58, unpack_bits_59, unpack_bits_60, unpack_bits_61,
    unpack_bits_62, unpack_bits_63>>

-----------------------------------------------------------------------------
Load(byte, mask, s) ==
  IF s >= 0 THEN {b + s : b \in byte \cap 0 .. mask - 1}
            ELSE {b + s : b \in byte} \cap 0 .. mask - 1

(* per value, the statements on it as <<byte, mask, s>>                     *)
UnpackProgram ==
  [bits \in 1 .. 63 |->
     LET table == unpack_bits_of[bits]
         prog  == Statements([i \in 1 .. 8 |-> Tail(table[i])])
     IN [i \in 1 .. 8 |->
           {<<PtrAt(prog, n), IF prog[n][2] = 1 THEN table[i][1] ELSE 8,
              prog[n][3]>> : n \in {m \in DOMAIN prog : prog[m][1] = i}}]]

(* unpack_bits_block8                                                      *)
unpack_block(bits, buf) ==
  [i \in 1 .. 8 |->
     UNION {Load(buf[c[1]], c[2], c[3]) : c \in UnpackProgram[bits][i]}]

-----------------------------------------------------------------------------
(***************************************************************************)
(* What the block functions should do: bit b of values[i] is the           *)
(* (bits - 1 - b)-th of its bits from the left, and the bits of the eight  *)
(* values follow one another from the left of byte 0 on.                   *)
(***************************************************************************)
Layout(values, bits) ==
  [j \in 0 .. bits - 1 |->
     {k \in 0 .. 7 :
        LET p == 8 * j + 7 - k
        IN bits - 1 - (p % bits) \in values[(p \div bits) + 1]}]

-----------------------------------------------------------------------------
(***************************************************************************)
(* The loop of serialize_version_4(ostream) over whole blocks: one buffer, *)
(* zero at first, takes block after block and is written out after each.   *)
(* serialize_version_4 to memory packs every block into bytes of its own,  *)
(* which are zero.                                                         *)
(***************************************************************************)
ZeroBytes(bits) == [j \in 0 .. bits - 1 |-> {}]

StartBlocks(bits, blocks) ==
  [bits |-> bits, todo |-> blocks, block |-> << >>, buffer |-> ZeroBytes(bits)]

PackNextBlock(w) ==
  [w EXCEPT !.todo = Tail(@), !.block = Head(w.todo),
            !.buffer = pack_block(Head(w.todo), w.bits, @)]
=============================================================================
