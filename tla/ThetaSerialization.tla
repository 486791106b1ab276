------------------------- MODULE ThetaSerialization -------------------------
(***************************************************************************)
(* The binary images of compact_theta_sketch, compact_tuple_sketch and     *)
(* compact_array_tuple_sketch.  An image is its first eight bytes as       *)
(* fields (pre is the number of preamble longs), the 64-bit words after    *)
(* them, and for version 4 the packed bytes that follow the words.  The    *)
(* sketch is written, read back by one of the readers and written again,   *)
(* in any order of formats.  In behaviours of a second kind the stream     *)
(* writer packs blocks of eight deltas at the width of the code.           *)
(***************************************************************************)
EXTENDS ThetaCompact, BitPacking

CONSTANTS Inputs,   \* the sketches to write and read
          Writers   \* stream writers about to pack blocks, as StartBlocks

VARIABLES original, sketch, image,
          writer    \* the block loop of serialize_version_4(ostream)

vars == <<original, sketch, image, writer>>

NoWriter == [todo |-> << >>, block |-> << >>]

NoImage == [family |-> "none", ver |-> 0]

(* a theta sketch has bare hashes for entries                              *)
HashesOf(entries) == [i \in DOMAIN entries |-> extract_key(entries[i])]

BareEntries(hashes) == [i \in DOMAIN hashes |-> Entry(hashes[i], NoSummary)]

IsTheta(c) == c.entries = BareEntries(HashesOf(c.entries))

BitLength(n) == IF n = 0 THEN 0 ELSE Log2(n) + 1

whole_bytes_to_hold_bits(bits) == bits \div W + (IF bits % W > 0 THEN 1 ELSE 0)

get_preamble_longs_v4(c) == IF is_estimation_mode(c) THEN 2 ELSE 1

get_preamble_longs(c) ==
  IF is_estimation_mode(c) THEN 3
  ELSE IF c.is_empty \/ Len(c.entries) = 1 THEN 1 ELSE 2

is_suitable_for_compression(c) ==
  /\ c.is_ordered /\ c.entries # << >>
  /\ Len(c.entries) > 1 \/ is_estimation_mode(c)

ThetaWord_always(c) == IF c.is_empty THEN << >> ELSE <<c.theta>>

ThetaWord(c) == IF is_estimation_mode(c) THEN <<c.theta>> ELSE << >>

CountWord(c) == IF get_preamble_longs(c) > 1 THEN <<Len(c.entries)>> ELSE << >>

serialize(c) ==
  [family |-> "theta", pre |-> get_preamble_longs(c), ver |-> 3, seed |-> c.seed,
   is_empty |-> c.is_empty, is_ordered |-> c.is_ordered,
   words |-> CountWord(c) \o ThetaWord(c) \o HashesOf(c.entries)]

-----------------------------------------------------------------------------
(* version 4: the differences of successive entries, packed                *)
Deltas(entries) ==
  LET hash(i) == IF i = 0 THEN 0 ELSE extract_key(entries[i])
  IN [i \in 1 .. Len(entries) |-> hash(i) - hash(i - 1)]

compute_entry_bits_of_last(c) ==
  BitLength(Deltas(c.entries)[Len(c.entries)])

compute_entry_bits(c) == BitLength(Max(ToSet(Deltas(c.entries))))

get_num_entries_bytes(c) == whole_bytes_to_hold_bits(BitLength(Len(c.entries)))

PackLeftovers(values, bits, buf, ptr) ==
  FoldLeft(LAMBDA st, v : pack_bits(v, bits, st.buf, st.ptr, st.offset),
           [buf |-> buf, ptr |-> ptr, offset |-> 0], values).buf

(* blocks of eight, then what is left over                                 *)
PackDeltas(deltas, bits, buf) ==
  LET blocks == Len(deltas) \div W
      packed[b \in 0 .. blocks] ==
        IF b = 0 THEN buf
        ELSE pack_bits_block8(SubSeq(deltas, W * (b - 1) + 1, W * b), bits,
                              packed[b - 1], bits * (b - 1))
  IN PackLeftovers(SubSeq(deltas, W * blocks + 1, Len(deltas)), bits,
                   packed[blocks], bits * blocks)

(* the stream writer: one buffer of bits bytes for every block and for the *)
(* left-over entries, of which it writes as much as they fill              *)
PackDeltasStream(deltas, bits) ==
  LET blocks == Len(deltas) \div W
      rest   == Len(deltas) - W * blocks
      buffer[b \in 0 .. blocks] ==
        IF b = 0 THEN [i \in 0 .. bits - 1 |-> 0]
        ELSE pack_bits_block8(SubSeq(deltas, W * (b - 1) + 1, W * b), bits,
                              buffer[b - 1], 0)
      last   == PackLeftovers(SubSeq(deltas, W * blocks + 1, Len(deltas)), bits,
                              buffer[blocks], 0)
  IN [i \in 0 .. bits * blocks + whole_bytes_to_hold_bits(bits * rest) - 1 |->
        IF i < bits * blocks THEN buffer[(i \div bits) + 1][i % bits]
        ELSE last[i - bits * blocks]]

serialize_version_4(c) ==
  LET bits == compute_entry_bits(c)
      size == whole_bytes_to_hold_bits(bits * Len(c.entries))
  IN [family |-> "theta", pre |-> get_preamble_longs_v4(c), ver |-> 4, seed |-> c.seed,
      is_empty |-> FALSE, is_ordered |-> TRUE,
      entry_bits |-> bits, num_entries_bytes |-> get_num_entries_bytes(c),
      words |-> ThetaWord(c),
      count |-> [i \in 1 .. get_num_entries_bytes(c) |->
                   Byte(Len(c.entries) \div 2^(W * (i - 1)))],
      packed |-> PackDeltas(Deltas(c.entries), bits, [i \in 0 .. size - 1 |-> 0])]

serialize_compressed(c) ==
  IF is_suitable_for_compression(c) THEN serialize_version_4(c) ELSE serialize(c)

-----------------------------------------------------------------------------
(* sizes in bytes                                                          *)
WORD == 8
get_serialized_size_bytes(c, compressed) ==
  IF compressed /\ is_suitable_for_compression(c)
    THEN WORD * get_preamble_longs_v4(c) + get_num_entries_bytes(c)
         + whole_bytes_to_hold_bits(compute_entry_bits(c) * Len(c.entries))
    ELSE WORD * (get_preamble_longs(c) + Len(c.entries))

ImageSize(img) ==
  WORD + WORD * Len(img.words)
  + (IF img.ver = 4 THEN Len(img.count) + Cardinality(DOMAIN img.packed) ELSE 0)

-----------------------------------------------------------------------------
Refused == [refused |-> TRUE]

Sketch(is_empty, is_ordered, seed, theta, hashes) ==
  compact_theta_sketch(is_empty, is_ordered, seed, theta, BareEntries(hashes), NoMembers)

(* the first size bytes of an image hold its words up to WordsIn(size)     *)
WordsIn(size) == (size \div WORD) - 1

(* the delta decoding shared by the two readers and the wrapped iterator   *)
UnpackLeftovers(n, bits, buf, ptr) ==
  LET step[i \in 0 .. n] ==
        IF i = 0 THEN [ptr |-> ptr, offset |-> 0, values |-> << >>]
        ELSE LET u == unpack_bits(bits, buf, step[i - 1].ptr, step[i - 1].offset)
             IN [ptr |-> u.ptr, offset |-> u.offset,
                 values |-> Append(step[i - 1].values, u.value)]
  IN step[n].values

UndoDeltas(deltas) ==
  FoldLeft(LAMBDA s, d : Append(s, d + (IF s = << >> THEN 0 ELSE s[Len(s)])),
           << >>, deltas)

UnpackEntries(n, bits, buf) ==
  LET blocks == n \div W
  IN UndoDeltas(
       FlattenSeq([b \in 1 .. blocks |-> unpack_bits_block8(bits, buf, bits * (b - 1))])
       \o UnpackLeftovers(n - W * blocks, bits, buf, bits * blocks))

NumEntries(count) ==
  FoldLeft(LAMBDA n, i : n + count[i] * 2^(W * (i - 1)), 0,
           [i \in 1 .. Len(count) |-> i])

(* deserialize_v4 and case 4 of parse(): the sizes are checked before the  *)
(* parts are read                                                          *)
deserialize_v4(img, size) ==
  LET theta == IF img.pre > 1 THEN img.words[1] ELSE MAX_THETA
      n     == NumEntries(img.count)
      need  == WORD * img.pre + img.num_entries_bytes
               + whole_bytes_to_hold_bits(img.entry_bits * n)
  IN IF img.seed # Seed \/ size < need THEN Refused
     ELSE Sketch(img.is_empty, img.is_ordered, img.seed, theta,
                 UnpackEntries(n, img.entry_bits, img.packed))

(* deserialize_v3: the stream reader                                       *)
deserialize_v3(img, size) ==
  LET n     == IF img.is_empty THEN 0 ELSE IF img.pre = 1 THEN 1 ELSE img.words[1]
      theta == IF ~img.is_empty /\ img.pre > 2 THEN img.words[2] ELSE MAX_THETA
      first == IF img.is_empty THEN 1 ELSE img.pre
  IN IF ~img.is_empty /\ img.seed # Seed THEN Refused
     ELSE IF WordsIn(size) < (first - 1) \/ WordsIn(size) < first - 1 + n THEN Refused
     ELSE Sketch(img.is_empty, img.is_ordered, img.seed, theta,
                 SubSeq(img.words, first, first + n - 1))

(* case 3 of parse(): the reader over memory, which finds the fields at    *)
(* fixed word positions                                                    *)
parse_v3_trusts_count(img, size) ==
  IF img.is_empty THEN Sketch(TRUE, TRUE, img.seed, MAX_THETA, << >>)
  ELSE IF img.seed # Seed \/ size < WORD * img.pre THEN Refused
  ELSE Sketch(FALSE, img.is_ordered, img.seed,
         IF img.pre > 2 THEN img.words[2] ELSE MAX_THETA,
         SubSeq(img.words, img.pre, Len(img.words)))

parse_v3(img, size) ==
  LET has_theta == img.pre > 2
      start     == IF has_theta THEN 3 ELSE 2
      theta     == IF has_theta THEN img.words[2] ELSE MAX_THETA
  IN IF img.is_empty THEN Sketch(TRUE, TRUE, img.seed, MAX_THETA, << >>)
     ELSE IF img.seed # Seed \/ (has_theta /\ size < 3 * WORD) THEN Refused
     ELSE IF img.pre = 1
       THEN IF size < 2 * WORD THEN Refused
            ELSE Sketch(FALSE, TRUE, img.seed, theta, <<img.words[1]>>)
     ELSE IF size < WORD * (start + img.words[1]) THEN Refused
     ELSE Sketch(FALSE, img.is_ordered, img.seed, theta,
                 SubSeq(img.words, start, start + img.words[1] - 1))

(***************************************************************************)
(* Versions 1 and 2, which this library only reads: always ordered, and    *)
(* emptiness is inferred.                                                  *)
(***************************************************************************)
deserialize_v1(img) ==
  LET n == img.words[1]
  IN Sketch(n = 0 /\ img.words[2] = MAX_THETA, TRUE, Seed, img.words[2],
            SubSeq(img.words, 3, n + 2))

deserialize_v2(img) ==
  LET n     == IF img.pre = 1 THEN 0 ELSE img.words[1]
      theta == IF img.pre = 3 THEN img.words[2] ELSE MAX_THETA
  IN IF img.seed # Seed THEN Refused
     ELSE Sketch(n = 0 /\ theta = MAX_THETA, TRUE, img.seed, theta,
                 SubSeq(img.words, img.pre, img.pre + n - 1))

(* what the retired writers of versions 1 and 2 produced, as far as the    *)
(* readers show it: an empty sketch has no entries and the maximal theta   *)
LegacyImage(c, ver) ==
  [family |-> "theta",
   pre |-> IF ver = 1 THEN 3 ELSE IF c.is_empty THEN 1
           ELSE IF is_estimation_mode(c) THEN 3 ELSE 2,
   ver |-> ver, seed |-> c.seed,
   words |-> IF ver = 1
               THEN <<Len(c.entries), IF c.is_empty THEN MAX_THETA ELSE c.theta>>
                    \o HashesOf(c.entries)
             ELSE IF c.is_empty THEN << >>
             ELSE <<Len(c.entries)>> \o ThetaWord(c) \o HashesOf(c.entries)]

-----------------------------------------------------------------------------
(***************************************************************************)
(* Tuple sketches.  A summary takes one word: it is what the SerDe of the  *)
(* program makes of it, or the array of an array tuple sketch.  The tuple  *)
(* image has every key followed by its summary, and the preamble of the    *)
(* theta image of version 3.  legacy images have other numbers for version *)
(* and type and the same layout.                                           *)
(***************************************************************************)
SERIAL_VERSION == 3
SERIAL_VERSION_LEGACY == 1

tuple_serialize(c, ver) ==
  [family |-> "tuple", pre |-> get_preamble_longs(c), ver |-> ver, seed |-> c.seed,
   is_empty |-> c.is_empty, is_ordered |-> c.is_ordered,
   words |-> CountWord(c) \o ThetaWord(c) \o FlattenSeq(c.entries)]

tuple_serialized_size(c) == WORD * (get_preamble_longs(c) + 2 * Len(c.entries))

TupleSketch(img, theta, entries) ==
  compact_theta_sketch(img.is_empty, img.is_ordered, img.seed, theta, entries, NoMembers)

(* the fields follow the number of preamble longs                          *)
TupleCount(img) == IF img.is_empty THEN 0 ELSE IF img.pre = 1 THEN 1 ELSE img.words[1]

TupleTheta(img) == IF ~img.is_empty /\ img.pre > 2 THEN img.words[2] ELSE MAX_THETA

Preamble(img) == IF img.is_empty THEN 1 ELSE img.pre

TupleEntries_one_summary(img, first, n) ==
  [i \in 1 .. n |-> Entry(img.words[first + 2 * (i - 1)], img.words[first + 1])]

TupleEntries(img, first, n) ==
  [i \in 1 .. n |-> Entry(img.words[first + 2 * (i - 1)],
                          img.words[first + 2 * (i - 1) + 1])]

(* a short stream is noticed in the end                                    *)
tuple_deserialize_stream(img, size) ==
  LET n == TupleCount(img)
  IN IF ~img.is_empty /\ img.seed # Seed THEN Refused
     ELSE IF WordsIn(size) < Preamble(img) - 1 + 2 * n THEN Refused
     ELSE TupleSketch(img, TupleTheta(img), TupleEntries(img, Preamble(img), n))

(* in memory there has to be room for the keys before the first entry is   *)
(* read.  After that a key is read without looking at the size, and the    *)
(* SerDe, which is told what is left, refuses a summary that is not all    *)
(* there; past the end of the image what is left wraps around and nothing  *)
(* is refused: the outcome is then any sketch.                             *)
Unspecified == [unspecified |-> TRUE]

tuple_deserialize(img, size) ==
  LET n     == TupleCount(img)
      base  == WORD * Preamble(img)
      short == {i \in 1 .. n : size < base + 2 * WORD * i}
  IN IF ~img.is_empty /\ img.seed # Seed THEN Refused
     ELSE IF size < base + WORD * n THEN Refused
     ELSE IF short = {} THEN TupleSketch(img, TupleTheta(img), TupleEntries(img, Preamble(img), n))
     ELSE IF size < base + 2 * WORD * Min(short) - WORD THEN Unspecified
     ELSE Refused

(* the array tuple image: theta always, then all keys, then all arrays; an *)
(* image without entries has no count and its seed is not looked at        *)
array_serialize(c) ==
  [family |-> "array", pre |-> 1, ver |-> 1, seed |-> c.seed,
   is_empty |-> c.is_empty, is_ordered |-> c.is_ordered,
   has_entries |-> c.entries # << >>,
   words |-> <<c.theta>>
             \o (IF c.entries = << >> THEN << >>
                 ELSE <<Len(c.entries)>> \o HashesOf(c.entries)
                      \o [i \in DOMAIN c.entries |-> c.entries[i][2]])]

array_serialized_size(c) ==
  2 * WORD + (IF c.entries = << >> THEN 0 ELSE WORD) + 2 * WORD * Len(c.entries)

ArrayEntries(img) ==
  LET n == img.words[2]
  IN [i \in 1 .. n |-> Entry(img.words[2 + i], img.words[2 + n + i])]

array_deserialize_stream(img, size) ==
  IF img.has_entries /\ img.seed # Seed THEN Refused
  ELSE IF WordsIn(size) < 1 THEN Refused
  ELSE IF ~img.has_entries THEN TupleSketch(img, img.words[1], << >>)
  ELSE IF WordsIn(size) < 2 \/ WordsIn(size) < 2 + 2 * img.words[2] THEN Refused
  ELSE TupleSketch(img, img.words[1], ArrayEntries(img))

array_deserialize(img, size) ==
  IF size < 2 * WORD \/ (img.has_entries /\ img.seed # Seed) THEN Refused
  ELSE IF ~img.has_entries THEN TupleSketch(img, img.words[1], << >>)
  ELSE IF size < 3 * WORD \/ size < 3 * WORD + 2 * WORD * img.words[2] THEN Refused
  ELSE TupleSketch(img, img.words[1], ArrayEntries(img))

-----------------------------------------------------------------------------
deserialize_stream(img, size) ==
  CASE img.family = "tuple" -> tuple_deserialize_stream(img, size)
    [] img.family = "array" -> array_deserialize_stream(img, size)
    [] img.ver = 4 -> deserialize_v4(img, size)
    [] img.ver = 3 -> deserialize_v3(img, size)
    [] img.ver = 2 -> deserialize_v2(img)
    [] OTHER -> deserialize_v1(img)

parse(img, size) ==
  CASE img.family = "tuple" -> tuple_deserialize(img, size)
    [] img.family = "array" -> array_deserialize(img, size)
    [] img.ver = 4 -> deserialize_v4(img, size)
    [] img.ver = 3 -> parse_v3(img, size)
    [] img.ver = 2 -> deserialize_v2(img)
    [] OTHER -> deserialize_v1(img)

(***************************************************************************)
(* The iterator of wrapped_compact_theta_sketch decodes as it goes: a      *)
(* block of eight ahead while eight are left, then one at a time into the  *)
(* same buffer.  st holds ptr_, offset_, previous_, buffer_ and            *)
(* is_block_mode_ after moving to index i.                                 *)
(***************************************************************************)
unpack8_keeps_ptr(st, bits, packed) ==
  LET vs == UndoDeltas(<<st.previous>> \o unpack_bits_block8(bits, packed, st.ptr))
  IN [st EXCEPT !.buffer = Tail(vs), !.previous = vs[W + 1]]

unpack8(st, bits, packed) ==
  LET vs == UndoDeltas(<<st.previous>> \o unpack_bits_block8(bits, packed, st.ptr))
  IN [st EXCEPT !.buffer = Tail(vs), !.previous = vs[W + 1], !.ptr = @ + bits]

unpack1(st, bits, packed, i) ==
  LET u == unpack_bits(bits, packed, st.ptr, st.offset)
  IN [st EXCEPT !.ptr = u.ptr, !.offset = u.offset,
                !.previous = u.value + st.previous,
                !.buffer[(i % W) + 1] = u.value + st.previous]

WrappedEntries(n, bits, packed) ==
  LET start == [ptr |-> 0, offset |-> 0, previous |-> 0,
                buffer |-> [j \in 1 .. W |-> 0], block |-> n >= W]
      at[i \in 0 .. n - 1] ==
        LET st == IF i = 0 THEN start ELSE at[i - 1]
        IN IF ~st.block THEN unpack1(st, bits, packed, i)
           ELSE IF i % W # 0 THEN st
           ELSE IF n - i >= W THEN unpack8(st, bits, packed)
           ELSE unpack1([st EXCEPT !.block = FALSE], bits, packed, i)
  IN [i \in 1 .. n |-> at[i - 1].buffer[((i - 1) % W) + 1]]

-----------------------------------------------------------------------------
Init ==
  \/ /\ original \in Inputs
     /\ sketch = original /\ image = NoImage /\ writer = NoWriter
  \/ /\ writer \in Writers
     /\ original = Sketch(TRUE, TRUE, Seed, MAX_THETA, << >>)
     /\ sketch = original /\ image = NoImage

Write(img) ==
  /\ writer = NoWriter
  /\ image' = img
  /\ UNCHANGED <<original, sketch, writer>>

(* a refused image throws and leaves the caller with what it had           *)
Read(c) ==
  /\ sketch' = IF c = Refused THEN sketch ELSE c
  /\ UNCHANGED <<original, image, writer>>

WriteBlock ==
  /\ writer # NoWriter
  /\ writer' = IF writer.todo = << >> THEN NoWriter ELSE PackNextBlock(writer)
  /\ UNCHANGED <<original, sketch, image>>

Next ==
  \/ IsTheta(sketch) /\ Write(serialize(sketch))
  \/ IsTheta(sketch) /\ Write(serialize_compressed(sketch))
  \/ \E ver \in {1, 2} :
       IsTheta(sketch) /\ sketch.is_ordered /\ Write(LegacyImage(sketch, ver))
  \/ \E ver \in {SERIAL_VERSION, SERIAL_VERSION_LEGACY} :
       Write(tuple_serialize(sketch, ver))
  \/ Write(array_serialize(sketch))
  \/ image # NoImage /\ Read(deserialize_stream(image, ImageSize(image)))
  \/ image # NoImage /\ Read(parse(image, ImageSize(image)))
  \/ WriteBlock

Spec == Init /\ [][Next]_vars

-----------------------------------------------------------------------------
(***************************************************************************)
(* A sketch that went through any sequence of formats and readers is the   *)
(* sketch it was, order and summaries included, and serialize() writes as  *)
(* many bytes as its size computation says.  Only the threshold of an      *)
(* empty sketch is lost: just the array tuple image carries it.            *)
(***************************************************************************)
PromisedSize(c) ==
  CASE image.family = "tuple" -> tuple_serialized_size(c)
    [] image.family = "array" -> array_serialized_size(c)
    [] OTHER -> get_serialized_size_bytes(c, image.ver = 4)

RoundTrip ==
  /\ sketch.is_empty = original.is_empty
  /\ sketch.is_ordered = original.is_ordered
  /\ sketch.entries = original.entries
  /\ ~sketch.is_empty => sketch.theta = original.theta
  /\ image.ver \in {3, 4} \/ image.family = "array" =>
       ImageSize(image) = PromisedSize(sketch)

(***************************************************************************)
(* The stream reader, the memory reader and the wrapped iterator see the   *)
(* same sketch in an image with the right seed, the readers refuse an      *)
(* image of this library that is cut short (the memory reader of tuple     *)
(* sketches: unless the cut is in a key), and the stream writer, which     *)
(* packs everything into one buffer, writes the bytes of the memory        *)
(* writer.                                                                 *)
(***************************************************************************)
ReadersAgree ==
  /\ image.ver = 4 =>
       image.packed = PackDeltasStream(Deltas(sketch.entries), image.entry_bits)
  /\ image # NoImage /\ original.seed = Seed =>
       LET c == deserialize_stream(image, ImageSize(image))
       IN /\ c # Refused
          /\ c = parse(image, ImageSize(image))
          /\ image.ver = 4 =>
               HashesOf(c.entries) =
                 WrappedEntries(NumEntries(image.count), image.entry_bits, image.packed)
  /\ image.ver \in {3, 4} \/ image.family = "array" =>
       \A size \in (IF image.family = "tuple" THEN WORD * image.pre ELSE WORD)
                    .. ImageSize(image) - 1 :
         /\ deserialize_stream(image, size) = Refused
         /\ parse(image, size) = Refused \/ parse(image, size) = Unspecified

(***************************************************************************)
(* Every unrolled pack function puts the bits of its block where they      *)
(* belong in zeroed bytes, the unpack function of the width takes them out *)
(* again, and what an earlier block left in the stream writer's buffer     *)
(* does not matter, the 19 bit function excepted.                          *)
(***************************************************************************)
BlocksExact ==
  writer.block # << >> =>
    LET bytes == Layout(writer.block, writer.bits)
    IN /\ pack_block(writer.block, writer.bits, ZeroBytes(writer.bits)) = bytes
       /\ unpack_block(writer.bits, bytes) = writer.block
       /\ writer.bits # 19 => writer.buffer = bytes

(***************************************************************************)
(* serialize_compressed(ostream) writes of every block just the eight      *)
(* deltas of the block, whatever the block before it was.                  *)
(***************************************************************************)
StreamBlocksExact ==
  writer.block # << >> => writer.buffer = Layout(writer.block, writer.bits)
=============================================================================
