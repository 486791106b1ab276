---------------------------- MODULE BloomFilter ----------------------------
(***************************************************************************)
(* bloom_filter_alloc: filters that own their bit array and filters over a *)
(* block of memory, which several filters may share.  A world w holds one  *)
(* block, w.mem, laid out as a serialized image (empty is the flag, longs  *)
(* the length of the bit array, num the field NumBitsSet, set the          *)
(* positions of the bits that are set), and the filters w.f[i]: on is      *)
(* "heap", "memory" or "none", ro, dirty and num are is_read_only_,        *)
(* is_dirty_ and num_bits_set_, longs is capacity_bits_, a multiple of     *)
(* LONG_BITS, in longs.  A filter on memory has its bits there.  Seed and  *)
(* number of hashes are the same for all filters of a world.               *)
(***************************************************************************)
EXTENDS Naturals, Sequences, FiniteSets, SequencesExt, FiniteSetTheorems, TLAPS

CONSTANTS NUM_HASHES,             \* num_hashes_
          LONG_BITS,              \* the bits of a long (64)
          LENGTH_BITS,            \* the bits of num_longs that num_longs << 6 keeps (26)
          MAX_FILTER_SIZE_BITS,   \* the largest filter (about 2^34)
          COUNT_BITS,             \* width of num_bits_set_ and of the hashes (64)
          Hash                    \* h0 and h1 of each item

(* num_bits_set_ can count the bits of every filter                        *)
ASSUME BloomConstants ==
  /\ NUM_HASHES \in Nat \ {0} /\ LONG_BITS \in Nat \ {0} /\ 2^LENGTH_BITS \in Nat \ {0}
  /\ MAX_FILTER_SIZE_BITS \in Nat /\ 2^COUNT_BITS \in Nat
  /\ MAX_FILTER_SIZE_BITS + LONG_BITS <= 2^COUNT_BITS
  /\ \A x \in DOMAIN Hash : Hash[x][1] \in Nat /\ Hash[x][2] \in Nat

DIRTY_BITS_VALUE == 2^COUNT_BITS - 1

(* the positions in an array of so many longs                              *)
Positions(longs) == 0 .. LONG_BITS * longs - 1

Index(longs, x, i) ==
  (((Hash[x][1] + i * Hash[x][2]) % 2^COUNT_BITS) \div 2) % (LONG_BITS * longs)

Indexes(longs, x) == [i \in 1 .. NUM_HASHES |-> Index(longs, x, i)]

(* the constructors round the size up to longs, and throw when there are   *)
(* no bits or too many                                                     *)
Accepted(num_bits) == num_bits \in 1 .. MAX_FILTER_SIZE_BITS
LongsFor(num_bits) == (num_bits + LONG_BITS - 1) \div LONG_BITS

bloom_filter(longs) ==
  [on |-> "heap", ro |-> FALSE, dirty |-> FALSE, num |-> 0, longs |-> longs, set |-> {}]

NoFilter == [bloom_filter(0) EXCEPT !.on = "none"]

create_by_size(w, i, num_bits) == [w EXCEPT !.f[i] = bloom_filter(LongsFor(num_bits))]

(* the constructor on memory writes a header that says not empty, 0 bits   *)
initialize_by_size(w, i, num_bits) ==
  [w EXCEPT !.f[i] = [bloom_filter(LongsFor(num_bits)) EXCEPT !.on = "memory"],
            !.mem = [empty |-> FALSE, longs |-> LongsFor(num_bits), num |-> 0, set |-> {}]]

OnMemory(w, i) == w.f[i].on = "memory"

(* a filter reads and writes the block up to its own capacity              *)
Bits(w, i) ==
  IF OnMemory(w, i) THEN w.mem.set \cap Positions(w.f[i].longs) ELSE w.f[i].set

WithBits(w, i, bits) ==
  IF OnMemory(w, i)
  THEN [w EXCEPT !.mem.set = (@ \ Positions(w.f[i].longs)) \cup bits]
  ELSE [w EXCEPT !.f[i].set = bits]

(* the positions of an item in a filter of this capacity                   *)
HashBits(w, i, x) == ToSet(Indexes(w.f[i].longs, x))

is_empty(w, i) == ~w.f[i].dirty /\ w.f[i].num = 0

update_num_bits_set(w, i, n) ==
  [w EXCEPT !.f[i] = [@ EXCEPT !.num = n, !.dirty = FALSE],
            !.mem.num = IF OnMemory(w, i) /\ ~w.f[i].ro THEN n ELSE @]

get_bits_used(w, i) ==
  IF w.f[i].dirty
  THEN [w EXCEPT !.f[i].num = Cardinality(Bits(w, i)), !.f[i].dirty = FALSE]
  ELSE w

(* update, reset and query_and_update throw for a read-only filter; the    *)
(* set operations do not                                                   *)
Writable(w, i) == w.f[i].on # "none" /\ ~w.f[i].ro

internal_update_keeps_clean(w, i, x) == WithBits(w, i, Bits(w, i) \cup HashBits(w, i, x))

internal_update(w, i, x) ==
  [WithBits(w, i, Bits(w, i) \cup HashBits(w, i, x)) EXCEPT !.f[i].dirty = TRUE]

(* get_and_set_bit and update_num_bits_set for each hash; the count starts *)
(* from num_bits_set_, whether it is dirty or not                          *)
GetAndSet(w, i, bit) ==
  update_num_bits_set(WithBits(w, i, Bits(w, i) \cup {bit}), i,
    (w.f[i].num + (IF bit \in Bits(w, i) THEN 0 ELSE 1)) % 2^COUNT_BITS)

internal_query_and_update(w, i, x) ==
  FoldLeft(LAMBDA v, bit : GetAndSet(v, i, bit), w, Indexes(w.f[i].longs, x))

internal_query(w, i, x) == ~is_empty(w, i) /\ HashBits(w, i, x) \subseteq Bits(w, i)

reset(w, i) == WithBits(update_num_bits_set(w, i, 0), i, {})

Counted(w, i, bits) == update_num_bits_set(WithBits(w, i, bits), i, Cardinality(bits))

(* union_with() and intersect() throw for filters that are not             *)
is_compatible(w, i, j) == w.f[i].longs = w.f[j].longs

union_with(w, i, j) == Counted(w, i, Bits(w, i) \cup Bits(w, j))
intersect(w, i, j) == Counted(w, i, Bits(w, i) \cap Bits(w, j))
invert(w, i) == Counted(w, i, Positions(w.f[i].longs) \ Bits(w, i))

(* a copy of a filter on memory is another filter on the same memory       *)
copy(w, i, j) == [w EXCEPT !.f[j] = w.f[i]]

(* move assignment swaps all the fields of the two filters                 *)
move(w, i, j) == [w EXCEPT !.f[i] = w.f[j], !.f[j] = w.f[i]]

BloomImage(longs, empty, num, set) ==
  [empty |-> empty, longs |-> longs, num |-> num, set |-> set]

serialize_ignores_dirty(w, i) ==
  IF is_empty(w, i) THEN BloomImage(w.f[i].longs, TRUE, 0, {})
  ELSE BloomImage(w.f[i].longs, FALSE, w.f[i].num, Bits(w, i))

serialize(w, i) ==
  IF is_empty(w, i) THEN BloomImage(w.f[i].longs, TRUE, 0, {})
  ELSE BloomImage(w.f[i].longs, FALSE,
                  IF w.f[i].dirty THEN DIRTY_BITS_VALUE ELSE w.f[i].num, Bits(w, i))

(***************************************************************************)
(* The filter read from an image, on "none" when the code throws.  The     *)
(* capacity is num_longs << 6, a uint32_t, in which a filter of 2^32 bits  *)
(* or more loses its highest bits.  The bit array is read whole, but no    *)
(* operation reaches what is behind the capacity.                          *)
(***************************************************************************)
Shifted(num_longs) == num_longs % 2^LENGTH_BITS

LoadedFilter(image, longs, read_only, on_memory) ==
  [on |-> IF on_memory THEN "memory" ELSE "heap", ro |-> read_only, longs |-> longs,
   dirty |-> image.num = DIRTY_BITS_VALUE,
   num |-> IF read_only /\ on_memory /\ image.num = DIRTY_BITS_VALUE
           THEN Cardinality(image.set \cap Positions(longs)) ELSE image.num,
   set |-> IF on_memory THEN {} ELSE image.set \cap Positions(longs)]

internal_deserialize_or_wrap(image, read_only, wrap) ==
  IF ~image.empty THEN LoadedFilter(image, Shifted(image.longs), read_only, wrap)
  ELSE IF (wrap /\ ~read_only) \/ Shifted(image.longs) = 0 THEN NoFilter
  ELSE bloom_filter(Shifted(image.longs))

deserialize(image) == internal_deserialize_or_wrap(image, FALSE, FALSE)
wrap(image) == internal_deserialize_or_wrap(image, TRUE, TRUE)
writable_wrap(image) == internal_deserialize_or_wrap(image, FALSE, TRUE)

-----------------------------------------------------------------------------
(***************************************************************************)
(* What a filter needs to find the items of S: their bits are set, and its *)
(* count is that of its bits or marked dirty.  The theorems show of every  *)
(* operation but query_and_update that it hands this on, for every         *)
(* capacity, number of hashes and hash function.                           *)
(***************************************************************************)
BitSets(longs) == SUBSET Positions(longs)
Lengths == {longs \in Nat : LONG_BITS * longs < 2^COUNT_BITS}
Fields ==
  [on : {"heap", "memory", "none"}, ro : BOOLEAN, dirty : BOOLEAN, num : Nat,
   longs : Lengths, set : SUBSET Nat]
Filters == {f \in Fields : f.set \in BitSets(f.longs)}
Blocks == [empty : BOOLEAN, longs : Nat, num : Nat, set : SUBSET Nat]
Worlds(F) == [mem : Blocks, f : [F -> Filters]]

Finds(w, i, S) ==
  /\ w.f[i].dirty \/ w.f[i].num = Cardinality(Bits(w, i))
  /\ \A x \in S : HashBits(w, i, x) \subseteq Bits(w, i)

(* the filters that do not share their bits                                *)
ShareNothing(w, i, j) == i # j /\ ~(OnMemory(w, i) /\ OnMemory(w, j))

SameFilter(v, w, j) == v.f[j] = w.f[j] /\ Bits(v, j) = Bits(w, j)

(* The constructors make filters of these types: a size that they accept,  *)
(* rounded up, is one that num_bits_set_ can count.                        *)
LEMMA CreatedFits ==
  ASSUME NEW num_bits \in Nat, Accepted(num_bits)
  PROVE  bloom_filter(LongsFor(num_bits)) \in Filters
<1>. DEFINE m == num_bits + LONG_BITS - 1
<1>1. m \in Nat /\ m < 2^COUNT_BITS
  BY BloomConstants DEF Accepted
<1>. HIDE DEF m
<1>2. m \div LONG_BITS \in Nat /\ LONG_BITS * (m \div LONG_BITS) <= m
  BY <1>1, BloomConstants
<1>3. LongsFor(num_bits) = m \div LONG_BITS
  BY DEF LongsFor, m
<1>4. PICK longs \in Lengths : longs = LongsFor(num_bits)
  BY <1>1, <1>2, <1>3, BloomConstants DEF Lengths
<1>. QED
  BY <1>4 DEF bloom_filter, Filters, Fields, BitSets

(* An array of so many longs has LONG_BITS positions for each.             *)
LEMMA PositionsFinite ==
  ASSUME NEW longs \in Nat
  PROVE  /\ Positions(longs) \subseteq Nat /\ IsFiniteSet(Positions(longs))
         /\ Cardinality(Positions(longs)) = LONG_BITS * longs
<1>1. PICK n \in Nat : n = LONG_BITS * longs
  BY BloomConstants
<1>2. IsFiniteSet(0 .. n - 1) /\ Cardinality(0 .. n - 1) = n
  <2>1. n - 1 \in Int /\ (n = 0 => 0 > n - 1) /\ (n # 0 => ~(0 > n - 1) /\ n - 1 - 0 + 1 = n)
    OBVIOUS
  <2>. QED
    BY <2>1, FS_Interval
<1>. QED
  BY <1>1, <1>2 DEF Positions

(* The hashes of an item fall into the bit array, whatever its length.     *)
LEMMA IndexesType ==
  ASSUME NEW x \in DOMAIN Hash, NEW longs \in Nat \ {0}
  PROVE  ToSet(Indexes(longs, x)) \in BitSets(longs)
<1>1. PICK n \in Nat \ {0} : n = LONG_BITS * longs
  BY BloomConstants
<1>2. \A i \in 1 .. NUM_HASHES : Index(longs, x, i) \in 0 .. n - 1
  <2>. SUFFICES ASSUME NEW i \in 1 .. NUM_HASHES
                PROVE  Index(longs, x, i) \in 0 .. n - 1
    OBVIOUS
  <2>. DEFINE h == (Hash[x][1] + i * Hash[x][2]) % 2^COUNT_BITS
  <2>1. Hash[x][1] + i * Hash[x][2] \in Nat
    BY BloomConstants
  <2>2. h \in Nat
    BY <2>1, BloomConstants
  <2>3. Index(longs, x, i) = (h \div 2) % n
    BY <1>1 DEF Index
  <2>. HIDE DEF h
  <2>. QED
    BY <2>2, <2>3
<1>. QED
  BY <1>1, <1>2 DEF ToSet, Indexes, BitSets, Positions

(* The count of a bit array is at most its capacity, and 0 of no bits.     *)
LEMMA BitsCount ==
  ASSUME NEW longs \in Nat, NEW bits \in BitSets(longs)
  PROVE  /\ IsFiniteSet(bits) /\ Cardinality(bits) \in Nat
         /\ Cardinality(bits) <= LONG_BITS * longs
         /\ Cardinality(bits) = 0 <=> bits = {}
<1>1. IsFiniteSet(bits) /\ Cardinality(bits) <= Cardinality(Positions(longs))
  BY PositionsFinite, FS_Subset DEF BitSets
<1>. QED
  BY <1>1, PositionsFinite, FS_CardinalityType, FS_EmptySet

(* The bits of a filter are within its capacity.                           *)
LEMMA BitsType ==
  ASSUME NEW F, NEW w \in Worlds(F), NEW i \in F
  PROVE  /\ w.f \in [F -> Filters] /\ w.f[i] \in Filters /\ w.f[i].longs \in Lengths
         /\ w.f[i].longs \in Nat /\ Bits(w, i) \in BitSets(w.f[i].longs)
  BY DEF Worlds, Filters, Fields, Lengths, Bits, BitSets

(* A new value for a filter leaves the block alone.                        *)
LEMMA FilterWrites ==
  ASSUME NEW F, NEW w \in Worlds(F), NEW i \in F, NEW g
  PROVE  [w EXCEPT !.f[i] = g].f[i] = g /\ [w EXCEPT !.f[i] = g].mem = w.mem
  BY DEF Worlds

(* Writing the bits of a filter leaves its fields alone, and the filters   *)
(* that do not share them.                                                 *)
LEMMA WithBitsWrites ==
  ASSUME NEW F, NEW w \in Worlds(F), NEW i \in F, NEW bits \in BitSets(w.f[i].longs)
  PROVE  /\ WithBits(w, i, bits) \in Worlds(F)
         /\ Bits(WithBits(w, i, bits), i) = bits
         /\ WithBits(w, i, bits).f[i].dirty = w.f[i].dirty
         /\ WithBits(w, i, bits).f[i].num = w.f[i].num
         /\ WithBits(w, i, bits).f[i].longs = w.f[i].longs
         /\ \A j \in F : ShareNothing(w, i, j) => SameFilter(WithBits(w, i, bits), w, j)
<1>1. bits \in SUBSET Nat
  BY BitsType, PositionsFinite DEF BitSets
<1>2. CASE OnMemory(w, i)
  <2>. DEFINE set == (w.mem.set \ Positions(w.f[i].longs)) \cup bits
              v == [w EXCEPT !.mem.set = set]
  <2>1. set \in SUBSET Nat /\ set \cap Positions(w.f[i].longs) = bits
    BY <1>1, Zenon DEF Worlds, Blocks, BitSets
  <2>2. WithBits(w, i, bits) = v
    BY <1>2 DEF WithBits
  <2>. HIDE DEF set
  <2>3. v \in Worlds(F) /\ v.f = w.f /\ v.mem.set = set
    BY <2>1 DEF Worlds, Blocks
  <2>. HIDE DEF v
  <2>. QED
    BY <1>2, <2>1, <2>2, <2>3 DEF Bits, OnMemory, ShareNothing, SameFilter
<1>3. CASE ~OnMemory(w, i)
  <2>. DEFINE g == [w.f[i] EXCEPT !.set = bits]
              v == [w EXCEPT !.f[i] = g]
  <2>1. w.f[i] \in Filters
    BY BitsType
  <2>2. /\ g \in Filters /\ g.set = bits /\ g.on = w.f[i].on /\ g.dirty = w.f[i].dirty
        /\ g.num = w.f[i].num /\ g.longs = w.f[i].longs
    BY <1>1, <2>1 DEF Filters, Fields
  <2>3. WithBits(w, i, bits) = v
    BY <1>3 DEF WithBits
  <2>. HIDE DEF g
  <2>4. v \in Worlds(F) /\ v.f[i] = g /\ v.mem = w.mem /\ \A j \in F : j # i => v.f[j] = w.f[j]
    BY <2>2 DEF Worlds
  <2>. HIDE DEF v
  <2>. QED
    BY <1>3, <2>2, <2>3, <2>4, Zenon DEF Bits, OnMemory, ShareNothing, SameFilter
<1>. QED
  BY <1>2, <1>3

(* update_num_bits_set leaves all bits alone and clears the mark.          *)
LEMMA CountWrites ==
  ASSUME NEW F, NEW w \in Worlds(F), NEW i \in F, NEW n \in Nat
  PROVE  /\ update_num_bits_set(w, i, n) \in Worlds(F)
         /\ Bits(update_num_bits_set(w, i, n), i) = Bits(w, i)
         /\ update_num_bits_set(w, i, n).f[i].num = n
         /\ ~update_num_bits_set(w, i, n).f[i].dirty
         /\ update_num_bits_set(w, i, n).f[i].longs = w.f[i].longs
         /\ \A j \in F : j # i => SameFilter(update_num_bits_set(w, i, n), w, j)
<1>. DEFINE v == update_num_bits_set(w, i, n)
            g == [w.f[i] EXCEPT !.num = n, !.dirty = FALSE]
            m == IF OnMemory(w, i) /\ ~w.f[i].ro THEN n ELSE w.mem.num
<1>1. w.mem \in Blocks /\ w.f \in [F -> Filters] /\ w.f[i] \in Filters
  BY DEF Worlds
<1>2. /\ g \in Filters /\ g.num = n /\ ~g.dirty /\ g.on = w.f[i].on /\ g.set = w.f[i].set
      /\ g.longs = w.f[i].longs
  BY <1>1, Zenon DEF Filters, Fields
<1>3. m \in Nat
  BY <1>1 DEF Blocks
<1>4. v = [w EXCEPT !.f[i] = g, !.mem.num = m]
  BY DEF update_num_bits_set
<1>. HIDE DEF v, g, m
<1>5. v \in Worlds(F) /\ v.f[i] = g /\ v.mem.set = w.mem.set
  BY <1>2, <1>3, <1>4, Zenon DEF Worlds, Blocks
<1>6. Bits(v, i) = Bits(w, i)
  BY <1>2, <1>5, Zenon DEF Bits, OnMemory
<1>7. \A j \in F : j # i => v.f[j] = w.f[j]
  BY <1>4 DEF Worlds
<1>8. \A j \in F : j # i => SameFilter(v, w, j)
  BY <1>5, <1>7 DEF SameFilter, Bits, OnMemory
<1>. QED
  BY <1>2, <1>5, <1>6, <1>8 DEF v

(* union_with, intersect and invert: the bits, then their count.           *)
LEMMA CountedWrites ==
  ASSUME NEW F, NEW w \in Worlds(F), NEW i \in F, NEW bits \in BitSets(w.f[i].longs)
  PROVE  /\ Counted(w, i, bits) \in Worlds(F)
         /\ Bits(Counted(w, i, bits), i) = bits
         /\ Counted(w, i, bits).f[i].num = Cardinality(bits)
         /\ Counted(w, i, bits).f[i].longs = w.f[i].longs
         /\ \A j \in F : ShareNothing(w, i, j) => SameFilter(Counted(w, i, bits), w, j)
<1>. DEFINE v == WithBits(w, i, bits)
<1>1. /\ v \in Worlds(F) /\ Bits(v, i) = bits /\ v.f[i].longs = w.f[i].longs
      /\ \A j \in F : ShareNothing(w, i, j) => SameFilter(v, w, j)
  BY WithBitsWrites
<1>2. Cardinality(bits) \in Nat
  BY BitsType, BitsCount
<1>. HIDE DEF v
<1>3. /\ update_num_bits_set(v, i, Cardinality(bits)) \in Worlds(F)
      /\ Bits(update_num_bits_set(v, i, Cardinality(bits)), i) = bits
      /\ update_num_bits_set(v, i, Cardinality(bits)).f[i].num = Cardinality(bits)
      /\ update_num_bits_set(v, i, Cardinality(bits)).f[i].longs = w.f[i].longs
      /\ \A j \in F : j # i => SameFilter(update_num_bits_set(v, i, Cardinality(bits)), v, j)
  BY <1>1, <1>2, CountWrites
<1>. QED
  BY <1>1, <1>3 DEF Counted, SameFilter, ShareNothing, v

(***************************************************************************)
(* query() is true of every item whose bits are set: the test for an empty *)
(* filter, which looks at the count and not at the bits, does not hide it. *)
(***************************************************************************)
THEOREM QueryFinds ==
  ASSUME NEW F, NEW w \in Worlds(F), NEW i \in F, NEW S, NEW x \in S, Finds(w, i, S)
  PROVE  internal_query(w, i, x)
<1>1. Index(w.f[i].longs, x, 1) \in HashBits(w, i, x)
  BY BloomConstants DEF ToSet, Indexes, HashBits
<1>2. Bits(w, i) # {}
  BY <1>1 DEF Finds
<1>3. Cardinality(Bits(w, i)) # 0
  BY <1>2, BitsType, BitsCount
<1>. QED
  BY <1>3 DEF Finds, internal_query, is_empty

(***************************************************************************)
(* After update() a filter finds the new item and all it found before;     *)
(* after union_with() what either filter found, after intersect() what     *)
(* both did, if they are compatible.  intersect() of filters whose bits    *)
(* overlap by chance, and invert() and reset(), leave an exact count.      *)
(***************************************************************************)
THEOREM OperationsFind ==
  ASSUME NEW F, NEW w \in Worlds(F), NEW i \in F, NEW j \in F, NEW S, NEW T,
         NEW x \in DOMAIN Hash, Finds(w, i, S), Finds(w, j, T)
  PROVE  /\ w.f[i].longs # 0 => Finds(internal_update(w, i, x), i, S \cup {x})
         /\ is_compatible(w, i, j) => /\ Finds(union_with(w, i, j), i, S \cup T)
                                      /\ Finds(intersect(w, i, j), i, S \cap T)
         /\ Finds(invert(w, i), i, {})
         /\ Finds(reset(w, i), i, {})
         /\ Finds(get_bits_used(w, i), i, S)
<1>1. PICK longs \in Nat : longs = w.f[i].longs
  BY BitsType
<1>2. Bits(w, i) \in BitSets(longs)
  BY <1>1, BitsType
<1>3. ASSUME longs # 0
      PROVE  Finds(internal_update(w, i, x), i, S \cup {x})
  <2>. DEFINE bits == Bits(w, i) \cup HashBits(w, i, x)
              v == WithBits(w, i, bits)
  <2>1. bits \in BitSets(longs)
    BY <1>1, <1>2, <1>3, IndexesType DEF BitSets, HashBits
  <2>2. v \in Worlds(F) /\ Bits(v, i) = bits /\ v.f[i].longs = longs
    <3>. HIDE DEF bits
    <3>. QED
      BY <1>1, <2>1, WithBitsWrites
  <2>. HIDE DEF v
  <2>3. /\ [v EXCEPT !.f[i].dirty = TRUE].f[i].dirty
        /\ [v EXCEPT !.f[i].dirty = TRUE].f[i].longs = longs
        /\ Bits([v EXCEPT !.f[i].dirty = TRUE], i) = Bits(v, i)
    <3>. DEFINE g == [v.f[i] EXCEPT !.dirty = TRUE]
    <3>1. g.dirty /\ g.longs = longs /\ g.on = v.f[i].on /\ g.set = v.f[i].set
      BY <2>2, BitsType DEF Filters, Fields
    <3>. DEFINE u == [v EXCEPT !.f[i].dirty = TRUE]
    <3>2. u = [v EXCEPT !.f[i] = g]
      OBVIOUS
    <3>. HIDE DEF g, u
    <3>3. u.f[i] = g /\ u.mem = v.mem
      BY <2>2, <3>2, FilterWrites
    <3>4. u.f[i].dirty /\ u.f[i].longs = longs /\ Bits(u, i) = Bits(v, i)
      BY <2>2, <3>1, <3>3, Zenon DEF Bits, OnMemory
    <3>. QED
      BY <3>4 DEF u
  <2>4. internal_update(w, i, x) = [v EXCEPT !.f[i].dirty = TRUE]
    BY DEF internal_update, v
  <2>. QED
    BY <1>1, <2>2, <2>3, <2>4, Zenon DEF Finds, HashBits
<1>4. ASSUME NEW bits \in BitSets(longs), NEW U,
             \A y \in U : HashBits(w, i, y) \subseteq bits
      PROVE  Finds(Counted(w, i, bits), i, U)
  <2>1. /\ Bits(Counted(w, i, bits), i) = bits
        /\ Counted(w, i, bits).f[i].num = Cardinality(bits)
        /\ Counted(w, i, bits).f[i].longs = w.f[i].longs
    BY <1>1, CountedWrites
  <2>. QED
    BY <1>4, <2>1, Zenon DEF Finds, HashBits
<1>5. ASSUME is_compatible(w, i, j)
      PROVE  /\ Finds(union_with(w, i, j), i, S \cup T)
             /\ Finds(intersect(w, i, j), i, S \cap T)
  <2>1. Bits(w, j) \in BitSets(longs) /\ \A y : HashBits(w, i, y) = HashBits(w, j, y)
    BY <1>1, <1>5, BitsType DEF is_compatible, HashBits
  <2>2. /\ \A y \in S : HashBits(w, i, y) \subseteq Bits(w, i)
        /\ \A y \in T : HashBits(w, i, y) \subseteq Bits(w, j)
    BY <2>1 DEF Finds
  <2>3. PICK bits \in BitSets(longs) : bits = Bits(w, i) \cup Bits(w, j)
    BY <1>2, <2>1, Zenon DEF BitSets
  <2>4. PICK common \in BitSets(longs) : common = Bits(w, i) \cap Bits(w, j)
    BY <1>2, <2>1, Zenon DEF BitSets
  <2>5. Finds(Counted(w, i, bits), i, S \cup T)
    BY <1>4, <2>2, <2>3
  <2>6. Finds(Counted(w, i, common), i, S \cap T)
    BY <1>4, <2>2, <2>4
  <2>. QED
    BY <2>3, <2>4, <2>5, <2>6 DEF union_with, intersect
<1>6. Finds(invert(w, i), i, {})
  <2>1. Positions(longs) \ Bits(w, i) \in BitSets(longs)
    BY DEF BitSets
  <2>. QED
    BY <1>1, <1>4, <2>1 DEF invert
<1>7. Finds(reset(w, i), i, {})
  <2>1. PICK v \in Worlds(F) : v = update_num_bits_set(w, i, 0)
    BY CountWrites
  <2>2. v.f[i].num = 0
    BY <2>1, CountWrites
  <2>3. PICK none \in BitSets(v.f[i].longs) : none = {}
    BY Zenon DEF BitSets
  <2>4. Cardinality(none) = 0
    BY <2>3, FS_EmptySet
  <2>5. WithBits(v, i, none).f[i].num = v.f[i].num
    BY WithBitsWrites
  <2>6. Bits(WithBits(v, i, none), i) = none
    BY WithBitsWrites
  <2>. QED
    BY <2>1, <2>2, <2>3, <2>4, <2>5, <2>6, Zenon DEF Finds, reset
<1>8. Finds(get_bits_used(w, i), i, S)
  <2>. DEFINE n == Cardinality(Bits(w, i))
              v == [w EXCEPT !.f[i].num = n, !.f[i].dirty = FALSE]
  <2>1. CASE w.f[i].dirty
    <3>. HIDE DEF n
    <3>. DEFINE g == [[w.f[i] EXCEPT !.num = n] EXCEPT !.dirty = FALSE]
    <3>1. g.num = n /\ g.longs = w.f[i].longs /\ g.on = w.f[i].on /\ g.set = w.f[i].set
      BY BitsType DEF Filters, Fields
    <3>2. v = [w EXCEPT !.f[i] = g]
      BY Zenon DEF Worlds
    <3>. HIDE DEF g, v
    <3>3. v.f[i] = g /\ v.mem = w.mem
      BY <3>2, FilterWrites
    <3>4. Bits(v, i) = Bits(w, i)
      BY <3>1, <3>3 DEF Bits, OnMemory
    <3>. QED
      BY <2>1, <3>1, <3>3, <3>4 DEF Finds, HashBits, get_bits_used, n, v
  <2>2. CASE ~w.f[i].dirty
    BY <2>2 DEF get_bits_used
  <2>. QED
    BY <2>1, <2>2
<1>. QED
  BY <1>1, <1>3, <1>5, <1>6, <1>7, <1>8

(***************************************************************************)
(* No operation of one filter makes another lose an item, as long as the   *)
(* two do not share a block of memory.                                     *)
(***************************************************************************)
THEOREM OthersFind ==
  ASSUME NEW F, NEW w \in Worlds(F), NEW i \in F, NEW j \in F, NEW T,
         NEW x \in DOMAIN Hash, NEW bits \in BitSets(w.f[i].longs), NEW n \in Nat,
         w.f[i].longs # 0, ShareNothing(w, i, j), Finds(w, j, T)
  PROVE  /\ Finds(internal_update(w, i, x), j, T)
         /\ Finds(Counted(w, i, bits), j, T)
         /\ Finds(update_num_bits_set(w, i, n), j, T)
         /\ Finds(WithBits(w, i, bits), j, T)
<1>1. ASSUME NEW v, SameFilter(v, w, j)
      PROVE  Finds(v, j, T)
  BY <1>1 DEF SameFilter, Finds, HashBits
<1>2. SameFilter(Counted(w, i, bits), w, j)
  BY CountedWrites
<1>3. SameFilter(update_num_bits_set(w, i, n), w, j)
  BY CountWrites DEF ShareNothing
<1>4. SameFilter(WithBits(w, i, bits), w, j)
  BY WithBitsWrites
<1>5. SameFilter(internal_update(w, i, x), w, j)
  <2>1. PICK set \in BitSets(w.f[i].longs) : set = Bits(w, i) \cup HashBits(w, i, x)
    BY BitsType, IndexesType, Zenon DEF BitSets, HashBits
  <2>. DEFINE v == WithBits(w, i, set)
  <2>2. v \in Worlds(F) /\ SameFilter(v, w, j)
    BY WithBitsWrites
  <2>3. internal_update(w, i, x) = [v EXCEPT !.f[i].dirty = TRUE]
    BY <2>1 DEF internal_update
  <2>. HIDE DEF v
  <2>4. SameFilter([v EXCEPT !.f[i].dirty = TRUE], v, j)
    BY <2>2, Zenon DEF SameFilter, ShareNothing, Worlds, Filters, Fields, Bits, OnMemory
  <2>. QED
    BY <2>2, <2>3, <2>4 DEF SameFilter
<1>. QED
  BY <1>1, <1>2, <1>3, <1>4, <1>5, Zenon

(***************************************************************************)
(* One hash of query_and_update() keeps the count exact if it was: it adds *)
(* one just when the bit was not set, and cannot wrap.  Of a filter marked *)
(* dirty this is not so, and the run bloom_false_negative has the result.  *)
(***************************************************************************)
THEOREM GetAndSetCounts ==
  ASSUME NEW F, NEW w \in Worlds(F), NEW i \in F, NEW S, NEW bit \in Positions(w.f[i].longs),
         Finds(w, i, S), ~w.f[i].dirty
  PROVE  /\ GetAndSet(w, i, bit) \in Worlds(F)
         /\ Finds(GetAndSet(w, i, bit), i, S) /\ ~GetAndSet(w, i, bit).f[i].dirty
         /\ Bits(GetAndSet(w, i, bit), i) = Bits(w, i) \cup {bit}
<1>. DEFINE n == (w.f[i].num + (IF bit \in Bits(w, i) THEN 0 ELSE 1)) % 2^COUNT_BITS
<1>1. PICK longs \in Nat : longs = w.f[i].longs /\ longs \in Lengths
  BY BitsType
<1>2. Bits(w, i) \in BitSets(longs) /\ w.f[i].num = Cardinality(Bits(w, i))
  BY <1>1, BitsType DEF Finds
<1>3. PICK bits \in BitSets(longs) : bits = Bits(w, i) \cup {bit}
  BY <1>1, <1>2, Zenon DEF BitSets
<1>4. n = Cardinality(bits) /\ n \in Nat
  <2>1. Cardinality(bits) = w.f[i].num + (IF bit \in Bits(w, i) THEN 0 ELSE 1)
    BY <1>2, <1>3, BitsCount, FS_AddElement
  <2>2. Cardinality(bits) \in Nat /\ Cardinality(bits) <= LONG_BITS * longs
    BY BitsCount
  <2>3. LONG_BITS * longs \in Nat /\ LONG_BITS * longs < 2^COUNT_BITS
    BY <1>1, BloomConstants DEF Lengths
  <2>4. Cardinality(bits) % 2^COUNT_BITS = Cardinality(bits)
    BY <2>2, <2>3, BloomConstants
  <2>. QED
    BY <2>1, <2>2, <2>4
<1>5. PICK v \in Worlds(F) : /\ v = WithBits(w, i, bits)
                            /\ Bits(v, i) = bits /\ v.f[i].longs = longs
  BY <1>1, WithBitsWrites
<1>6. GetAndSet(w, i, bit) = update_num_bits_set(v, i, n)
  BY <1>3, <1>5, Zenon DEF GetAndSet
<1>. HIDE DEF n
<1>7. n \in Nat
  BY <1>4
<1>8. /\ update_num_bits_set(v, i, n) \in Worlds(F)
      /\ Bits(update_num_bits_set(v, i, n), i) = Bits(v, i)
      /\ update_num_bits_set(v, i, n).f[i].num = n
      /\ ~update_num_bits_set(v, i, n).f[i].dirty
      /\ update_num_bits_set(v, i, n).f[i].longs = v.f[i].longs
  BY <1>7, CountWrites
<1>. QED
  BY <1>1, <1>3, <1>4, <1>5, <1>6, <1>8, Zenon DEF Finds, HashBits

(***************************************************************************)
(* A filter of less than 2^32 bits comes back from its image, by           *)
(* deserialize() or by wrap(), with its capacity, and finds what it found: *)
(* an image that says empty was made of a filter without bits, the value   *)
(* for a dirty count is recognised, and the items hash to the same bits.   *)
(***************************************************************************)
THEOREM ImageFinds ==
  ASSUME NEW F, NEW w \in Worlds(F), NEW i \in F, NEW j \in F, NEW S, Finds(w, i, S),
         w.f[i].longs # 0, w.f[i].longs < 2^LENGTH_BITS
  PROVE  LET image == serialize(w, i)
         IN /\ deserialize(image).longs = w.f[i].longs /\ wrap(image).longs = w.f[i].longs
            /\ Finds([w EXCEPT !.f[j] = deserialize(image)], j, S)
            /\ Finds([w EXCEPT !.f[j] = wrap(image), !.mem = image], j, S)
<1>1. PICK longs \in Nat \ {0} : longs = w.f[i].longs /\ longs < 2^LENGTH_BITS
  BY BitsType
<1>2. w.f \in [F -> Filters] /\ Bits(w, i) \in BitSets(longs)
  BY <1>1, BitsType
<1>3. Shifted(longs) = longs
  BY <1>1, BloomConstants DEF Shifted
<1>4. ASSUME NEW f, NEW m
      PROVE  /\ [w EXCEPT !.f[j] = f].f[j] = f
             /\ [w EXCEPT !.f[j] = f, !.mem = m].f[j] = f
             /\ [w EXCEPT !.f[j] = f, !.mem = m].mem = m
  BY <1>2 DEF Worlds
<1>5. CASE is_empty(w, i)
  <2>1. S = {}
    BY <1>5, QueryFinds DEF internal_query
  <2>2. serialize(w, i).empty /\ serialize(w, i).longs = longs
    BY <1>1, <1>5 DEF serialize, BloomImage
  <2>3. /\ deserialize(serialize(w, i)) = bloom_filter(longs)
        /\ wrap(serialize(w, i)) = bloom_filter(longs)
    BY <1>3, <2>2 DEF deserialize, wrap, internal_deserialize_or_wrap
  <2>4. /\ bloom_filter(longs).on = "heap" /\ bloom_filter(longs).num = 0
        /\ bloom_filter(longs).set = {} /\ bloom_filter(longs).longs = longs
    BY DEF bloom_filter
  <2>5. Cardinality({}) = 0
    BY FS_EmptySet
  <2>6. ASSUME NEW v, v.f[j] = bloom_filter(longs)
        PROVE  Finds(v, j, S)
    BY <2>1, <2>4, <2>5, <2>6, Zenon DEF Finds, Bits, OnMemory
  <2>7. /\ Finds([w EXCEPT !.f[j] = bloom_filter(longs)], j, S)
        /\ Finds([w EXCEPT !.f[j] = bloom_filter(longs), !.mem = serialize(w, i)], j, S)
    BY <1>4, <2>6, Zenon
  <2>. QED
    BY <1>1, <2>3, <2>4, <2>7
<1>6. CASE ~is_empty(w, i)
  <2>. DEFINE image == serialize(w, i)
              f == deserialize(image)
              g == wrap(image)
  <2>1. /\ ~image.empty /\ image.longs = longs /\ image.set = Bits(w, i)
        /\ image.num = DIRTY_BITS_VALUE \/ image.num = Cardinality(Bits(w, i))
    BY <1>1, <1>6 DEF serialize, BloomImage, Finds
  <2>2. image.set \cap Positions(longs) = Bits(w, i)
    BY <1>2, <2>1 DEF BitSets
  <2>3. /\ f.on = "heap" /\ f.set = Bits(w, i) /\ f.longs = longs
        /\ f.dirty \/ f.num = Cardinality(Bits(w, i))
    BY <1>3, <2>1, <2>2, Zenon DEF deserialize, internal_deserialize_or_wrap, LoadedFilter
  <2>4. /\ g.on = "memory" /\ g.longs = longs
        /\ g.dirty \/ g.num = Cardinality(Bits(w, i))
    BY <1>3, <2>1, <2>2 DEF wrap, internal_deserialize_or_wrap, LoadedFilter
  <2>. HIDE DEF image, f, g
  <2>5. \A x \in S : ToSet(Indexes(longs, x)) \subseteq Bits(w, i)
    BY <1>1 DEF Finds, HashBits
  <2>6. Finds([w EXCEPT !.f[j] = f], j, S)
    <3>1. ASSUME NEW v, v.f[j] = f
          PROVE  Finds(v, j, S)
      BY <2>3, <2>5, <3>1 DEF Finds, HashBits, Bits, OnMemory
    <3>. QED
      BY <1>4, <3>1, Zenon
  <2>7. Finds([w EXCEPT !.f[j] = g, !.mem = image], j, S)
    <3>1. ASSUME NEW v, v.f[j] = g, v.mem = image
          PROVE  Finds(v, j, S)
      <4>1. Bits(v, j) = Bits(w, i)
        BY <2>2, <2>4, <3>1 DEF Bits, OnMemory
      <4>. QED
        BY <2>4, <2>5, <3>1, <4>1 DEF Finds, HashBits
    <3>. QED
      BY <1>4, <3>1, Zenon
  <2>. QED
    <3>1. f.longs = w.f[i].longs /\ g.longs = w.f[i].longs
      BY <1>1, <2>3, <2>4
    <3>. QED
      BY <2>6, <2>7, <3>1, Zenon DEF image, f, g
<1>. QED
  BY <1>5, <1>6

(***************************************************************************)
(* A filter of 2^32 bits or more never does: num_longs << 6 leaves the     *)
(* filter read from its image a smaller capacity, whatever its bits.       *)
(***************************************************************************)
THEOREM ImageShrinks ==
  ASSUME NEW F, NEW w \in Worlds(F), NEW i \in F, w.f[i].longs >= 2^LENGTH_BITS
  PROVE  LET image == serialize(w, i)
         IN deserialize(image).longs < w.f[i].longs /\ wrap(image).longs < w.f[i].longs
<1>1. PICK longs \in Nat : longs = w.f[i].longs /\ longs >= 2^LENGTH_BITS
  BY BitsType
<1>2. Shifted(longs) \in Nat /\ Shifted(longs) < longs /\ 0 < longs
  BY <1>1, BloomConstants DEF Shifted
<1>3. serialize(w, i).longs = longs
  BY <1>1 DEF serialize, BloomImage
<1>4. ASSUME NEW read_only, NEW on_memory
      PROVE  internal_deserialize_or_wrap(serialize(w, i), read_only, on_memory).longs
               \in {0, Shifted(longs)}
  BY <1>3 DEF internal_deserialize_or_wrap, LoadedFilter, NoFilter, bloom_filter
<1>. QED
  BY <1>1, <1>2, <1>4, Zenon DEF deserialize, wrap
=============================================================================
