------------------------------- MODULE Bitmap -------------------------------
(***************************************************************************)
(* The bitmaps of bitmap.c and bitops.c: arrays of words, in the last of   *)
(* which there may be bits beyond the size of the bitmap.  A word is the   *)
(* set of the numbers of its bits.                                         *)
(*                                                                         *)
(* A step calls one operation on the bitmap, in place where the code       *)
(* allows that, and the next step forgets its answer.                      *)
(***************************************************************************)
EXTENDS Integers, Sequences, FiniteSets, FiniteSetsExt, SequencesExt, Functions

CONSTANTS
  bits,             \* the size of the bitmaps
  BITS_PER_LONG,
  Bitmaps,          \* the bitmaps that operations start from
  Others            \* the bitmaps that are second and third operands

BITS_TO_LONGS(nr) == (nr + BITS_PER_LONG - 1) \div BITS_PER_LONG
lim == BITS_TO_LONGS(bits)
Long == 0 .. lim - 1
InLong == 0 .. BITS_PER_LONG - 1
Bit == 0 .. bits - 1

ASSUME BitmapAssumption ==
  /\ bits \in Nat \ {0} /\ BITS_PER_LONG \in Nat \ {0}
  /\ \E e \in 0 .. BITS_PER_LONG : BITS_PER_LONG = 2^e
  /\ Bitmaps \subseteq [Long -> SUBSET InLong]
  /\ Others \subseteq [Long -> SUBSET InLong]

VARIABLES
  bitmap,
  call,     \* the call that was made, or NoCall
  ret       \* what it has returned, "void" if it returns nothing

vars == << bitmap, call, ret >>

NoCall == [fn |-> "none", n |-> << >>, with |-> << >>]

Init == bitmap \in Bitmaps /\ call = NoCall /\ ret = "void"

-----------------------------------------------------------------------------
\* Words.
Not(w) == InLong \ w
Xor(v, w) == (v \ w) \cup (w \ v)
Shl(w, n) == {i + n : i \in w} \cap InLong
Shr(w, n) == {i - n : i \in w} \cap InLong

FIRST_WORD_MASK(start) == (start % BITS_PER_LONG) .. BITS_PER_LONG - 1

LAST_WORD_MASK(nbits) ==
  IF nbits % BITS_PER_LONG = 0 THEN InLong ELSE 0 .. (nbits % BITS_PER_LONG) - 1

\* Slip: the last word counts as a whole.
WholeWord(k) == InLong

\* What counts of a word: all of it, or less of a last one that is partly used.
Used(k) == IF k < bits \div BITS_PER_LONG THEN InLong ELSE LAST_WORD_MASK(bits)

bitmap_zero == [k \in Long |-> {}]
bitmap_fill == [k \in Long |-> IF k < lim - 1 THEN InLong ELSE LAST_WORD_MASK(bits)]

bitmap_empty(b) == \A k \in Long : b[k] \cap Used(k) = {}
bitmap_full(b) == \A k \in Long : Not(b[k]) \cap Used(k) = {}
bitmap_equal(b, c) == \A k \in Long : Xor(b[k], c[k]) \cap Used(k) = {}
bitmap_intersects(b, c) == \E k \in Long : b[k] \cap c[k] \cap Used(k) # {}
bitmap_subset(b, c) == \A k \in Long : b[k] \cap Not(c[k]) \cap Used(k) = {}
bitmap_weight(b) == MapThenSumSet(LAMBDA k : Cardinality(b[k] \cap Used(k)), Long)

bitmap_complement(b) == [k \in Long |-> Not(b[k]) \cap Used(k)]
bitmap_and(b, c) == [k \in Long |-> b[k] \cap c[k]]
bitmap_or(b, c) == [k \in Long |-> b[k] \cup c[k]]
bitmap_xor(b, c) == [k \in Long |-> Xor(b[k], c[k])]
bitmap_andnot(b, c) == [k \in Long |-> b[k] \cap Not(c[k])]

\* "if (left && k == lim - 1) ... &= mask"
Trim(w, k) == IF k = lim - 1 THEN w \cap LAST_WORD_MASK(bits) ELSE w

\* Words that are shifted in place, one after the other: words[j] is the bitmap after j of them.
bitmap_shift_right(b, shift) ==
  LET off == shift \div BITS_PER_LONG
      rem == shift % BITS_PER_LONG
      upper(d, k) == IF rem = 0 \/ off + k + 1 >= lim THEN {}
                     ELSE Trim(d[off + k + 1], off + k + 1)
      lower(d, k) == Trim(d[off + k], off + k)
      step(d, k) == [d EXCEPT ![k] =
        Trim(Shl(upper(d, k), BITS_PER_LONG - rem) \cup Shr(lower(d, k), rem), k)]
      words[j \in Nat] == IF j = 0 THEN b ELSE step(words[j - 1], j - 1)
  IN  [k \in Long |-> IF k >= lim - off THEN {} ELSE words[lim - off][k]]

bitmap_shift_left(b, shift) ==
  LET off == shift \div BITS_PER_LONG
      rem == shift % BITS_PER_LONG
      lower(d, k) == IF rem # 0 /\ k > 0 THEN d[k - 1] ELSE {}
      step(d, k) == [d EXCEPT ![k + off] =
        Trim(Shr(lower(d, k), BITS_PER_LONG - rem) \cup Shl(Trim(d[k], k), rem), k + off)]
      words[j \in Nat] == IF j = 0 THEN b ELSE step(words[j - 1], lim - off - j)
  IN  [k \in Long |-> IF k < off THEN {} ELSE words[lim - off][k]]

\* The bits start .. start + nr - 1 of word k.
RangeMask(k, start, nr) ==
  LET size == start + nr
      first == IF k = start \div BITS_PER_LONG THEN FIRST_WORD_MASK(start) ELSE InLong
      last == IF (k + 1) * BITS_PER_LONG <= size THEN InLong ELSE LAST_WORD_MASK(size)
  IN  IF k >= start \div BITS_PER_LONG /\ k * BITS_PER_LONG < size
      THEN first \cap last ELSE {}

bitmap_set(b, start, nr) == [k \in Long |-> b[k] \cup RangeMask(k, start, nr)]
bitmap_clear(b, start, nr) == [k \in Long |-> b[k] \cap Not(RangeMask(k, start, nr))]

-----------------------------------------------------------------------------
\* Searches: the first word that has a bit, without those before the offset and beyond the size.
NextBit(b, size, offset) ==
  LET last == (size - 1) \div BITS_PER_LONG
      tmp(k) == b[k] \cap (IF k = offset \div BITS_PER_LONG THEN FIRST_WORD_MASK(offset) ELSE InLong)
                        \cap (IF k = last THEN LAST_WORD_MASK(size) ELSE InLong)
      found == {k \in offset \div BITS_PER_LONG .. last : tmp(k) # {}}
  IN  IF offset >= size \/ found = {} THEN size
      ELSE Min(found) * BITS_PER_LONG + Min(tmp(Min(found)))

find_next_bit(b, size, offset) == NextBit(b, size, offset)
find_next_zero_bit(b, size, offset) == NextBit([k \in Long |-> Not(b[k])], size, offset)
find_first_bit(b, size) == find_next_bit(b, size, 0)
find_first_zero_bit(b, size) == find_next_zero_bit(b, size, 0)

\* Aligned: (index + align_mask) & ~align_mask.
ALIGN_MASK(index, align_mask) == ((index + align_mask) \div (align_mask + 1)) * (align_mask + 1)

bitmap_find_next_zero_area(b, size, first, nr, align_mask) ==
  LET again[start \in 0 .. size] ==
        LET index == ALIGN_MASK(find_next_zero_bit(b, size, start), align_mask)
            end == index + nr
            i == find_next_bit(b, end, index)
        IN  IF end > size THEN end ELSE IF i < end THEN again[i + 1] ELSE index
  IN  again[first]

test_bit(nr, b) == nr % BITS_PER_LONG \in b[nr \div BITS_PER_LONG]
set_bits(S, b) == [k \in Long |-> b[k] \cup {i \in InLong : k * BITS_PER_LONG + i \in S}]

\* The bits that a loop sees, in its order.
for_each_set_bit(b) ==
  LET from[i \in 0 .. bits] ==
        IF i >= bits THEN << >> ELSE << i >> \o from[find_next_bit(b, bits, i + 1)]
  IN  from[find_first_bit(b, bits)]

bitmap_pos_to_ord(b, pos) ==
  LET seq == for_each_set_bit(b)
  IN  IF pos \in Bit /\ test_bit(pos, b) THEN Cardinality({m \in DOMAIN seq : seq[m] < pos}) ELSE -1

bitmap_ord_to_pos(b, ord) ==
  LET seq == for_each_set_bit(b)
  IN  IF ord \in Bit /\ ord < Len(seq) THEN seq[ord + 1] ELSE 0

bitmap_bitremap(oldbit, old, new) ==
  LET w == bitmap_weight(new)
      n == bitmap_pos_to_ord(old, oldbit)
  IN  IF n < 0 \/ w = 0 THEN oldbit ELSE bitmap_ord_to_pos(new, n % w)

bitmap_remap(src, old, new) ==
  set_bits({bitmap_bitremap(oldbit, old, new) : oldbit \in ToSet(for_each_set_bit(src))},
           bitmap_zero)

\* The m-th bit of relmap is the place of bit m.
bitmap_onto(orig, relmap) ==
  LET seq == for_each_set_bit(relmap)
  IN  set_bits({seq[m + 1] : m \in {j \in 0 .. Len(seq) - 1 : test_bit(j, orig)}}, bitmap_zero)

bitmap_fold(orig, sz) ==
  set_bits({oldbit % sz : oldbit \in ToSet(for_each_set_bit(orig))}, bitmap_zero)

-----------------------------------------------------------------------------
\* Regions: 2^order bits, which are part of one word or a number of whole words.
RegionMask(pos, order) ==
  LET index == pos \div BITS_PER_LONG
      nbitsinlong == Min({2^order, BITS_PER_LONG})
  IN  [k \in Long |-> IF k \in index .. (index + BITS_TO_LONGS(2^order) - 1)
                      THEN Shl(0 .. nbitsinlong - 1, pos % BITS_PER_LONG) ELSE {}]

ISFREE(b, pos, order) == bitmap_and(b, RegionMask(pos, order)) = bitmap_zero
ALLOC(b, pos, order) == bitmap_or(b, RegionMask(pos, order))
RELEASE(b, pos, order) == bitmap_andnot(b, RegionMask(pos, order))

\* Slip: the region may go beyond the size.
StartsWithin(order) == {pos \in Bit : pos % 2^order = 0}

Candidates(order) == {pos \in Bit : pos % 2^order = 0 /\ pos + 2^order <= bits}

-----------------------------------------------------------------------------
\* Calls.
Call(fn, n, with, result, answer) ==
  /\ call = NoCall
  /\ call' = [fn |-> fn, n |-> n, with |-> with]
  /\ bitmap' = result
  /\ ret' = answer

Does(fn, result) == Call(fn, << >>, << >>, result, "void")
Tells(fn, answer) == Call(fn, << >>, << >>, bitmap, answer)

Algebra ==
  \/ Does("bitmap_zero", bitmap_zero)
  \/ Does("bitmap_fill", bitmap_fill)
  \/ Does("bitmap_complement", bitmap_complement(bitmap))

Algebra2 ==
  \E b \in Others :
    \/ Call("bitmap_copy", << >>, << b >>, b, "void")
    \/ Call("bitmap_or", << >>, << b >>, bitmap_or(bitmap, b), "void")
    \/ Call("bitmap_xor", << >>, << b >>, bitmap_xor(bitmap, b), "void")
    \/ Call("bitmap_and", << >>, << b >>, bitmap_and(bitmap, b),
            bitmap_and(bitmap, b) # bitmap_zero)
    \/ Call("bitmap_andnot", << >>, << b >>, bitmap_andnot(bitmap, b),
            bitmap_andnot(bitmap, b) # bitmap_zero)

Tests ==
  \/ Tells("bitmap_empty", bitmap_empty(bitmap))
  \/ Tells("bitmap_full", bitmap_full(bitmap))
  \/ Tells("bitmap_weight", bitmap_weight(bitmap))
  \/ \E b \in Others :
       \/ Call("bitmap_equal", << >>, << b >>, bitmap, bitmap_equal(bitmap, b))
       \/ Call("bitmap_intersects", << >>, << b >>, bitmap, bitmap_intersects(bitmap, b))
       \/ Call("bitmap_subset", << >>, << b >>, bitmap, bitmap_subset(bitmap, b))

Shifts ==
  \E n \in 0 .. bits :
    \/ Call("bitmap_shift_right", << n >>, << >>, bitmap_shift_right(bitmap, n), "void")
    \/ Call("bitmap_shift_left", << n >>, << >>, bitmap_shift_left(bitmap, n), "void")

Ranges ==
  \E start \in Bit : \E nr \in 0 .. bits - start :
    \/ Call("bitmap_set", << start, nr >>, << >>, bitmap_set(bitmap, start, nr), "void")
    \/ Call("bitmap_clear", << start, nr >>, << >>, bitmap_clear(bitmap, start, nr), "void")

Searches ==
  \/ Tells("find_first_bit", find_first_bit(bitmap, bits))
  \/ Tells("find_first_zero_bit", find_first_zero_bit(bitmap, bits))
  \/ \E n \in 0 .. bits :
       \/ Call("find_next_bit", << n >>, << >>, bitmap, find_next_bit(bitmap, bits, n))
       \/ Call("find_next_zero_bit", << n >>, << >>, bitmap, find_next_zero_bit(bitmap, bits, n))
  \/ \E start \in Bit, nr \in {1, 3}, align_mask \in {0, 1, 3} :
       Call("bitmap_find_next_zero_area", << start, nr, align_mask >>, << >>, bitmap,
            bitmap_find_next_zero_area(bitmap, bits, start, nr, align_mask))

Maps ==
  \/ \E n \in Bit :
       \/ Call("bitmap_ord_to_pos", << n >>, << >>, bitmap, bitmap_ord_to_pos(bitmap, n))
       \/ Call("bitmap_fold", << n + 1 >>, << >>, bitmap_fold(bitmap, n + 1), "void")
  \/ \E b \in Others :
       \/ Call("bitmap_onto", << >>, << b >>, bitmap_onto(bitmap, b), "void")
       \/ \E n \in Bit :
            Call("bitmap_bitremap", << n >>, << b >>, bitmap, bitmap_bitremap(n, bitmap, b))
       \/ \E new \in Others :
            Call("bitmap_remap", << >>, << b, new >>, bitmap_remap(bitmap, b, new), "void")

bitmap_find_free_region(order) ==
  LET free == {pos \in Candidates(order) : ISFREE(bitmap, pos, order)}
  IN  IF free = {} THEN Call("bitmap_find_free_region", << order >>, << >>, bitmap, "ENOMEM")
      ELSE Call("bitmap_find_free_region", << order >>, << >>,
                ALLOC(bitmap, Min(free), order), Min(free))

bitmap_allocate_region(pos, order) ==
  IF ISFREE(bitmap, pos, order)
  THEN Call("bitmap_allocate_region", << pos, order >>, << >>, ALLOC(bitmap, pos, order), 0)
  ELSE Call("bitmap_allocate_region", << pos, order >>, << >>, bitmap, "EBUSY")

bitmap_release_region(pos, order) ==
  Call("bitmap_release_region", << pos, order >>, << >>, RELEASE(bitmap, pos, order), "void")

Regions ==
  \E order \in {o \in 0 .. bits : 2^o <= bits} :
    \/ bitmap_find_free_region(order)
    \/ \E pos \in {i \in Bit : i % 2^order = 0 /\ i + 2^order <= bits} :
         bitmap_allocate_region(pos, order) \/ bitmap_release_region(pos, order)

Return ==
  /\ call # NoCall
  /\ call' = NoCall /\ ret' = "void"
  /\ UNCHANGED bitmap

Next ==
  \/ Algebra \/ Algebra2 \/ Tests \/ Shifts \/ Ranges \/ Searches \/ Maps \/ Regions
  \/ Return

Spec == Init /\ [][Next]_vars
-----------------------------------------------------------------------------
SetOf(b) == {i \in Bit : test_bit(i, b)}
Clean(b) == \A k \in Long : b[k] \subseteq Used(k)

\* The functions that are called.
Fns ==
  {"none", "bitmap_zero", "bitmap_fill", "bitmap_complement", "bitmap_copy", "bitmap_or",
   "bitmap_xor", "bitmap_and", "bitmap_andnot", "bitmap_empty", "bitmap_full", "bitmap_weight",
   "bitmap_equal", "bitmap_intersects", "bitmap_subset", "bitmap_shift_right",
   "bitmap_shift_left", "bitmap_set", "bitmap_clear", "find_first_bit", "find_first_zero_bit",
   "find_next_bit", "find_next_zero_bit", "bitmap_find_next_zero_area", "bitmap_ord_to_pos",
   "bitmap_fold", "bitmap_onto", "bitmap_bitremap", "bitmap_remap", "bitmap_find_free_region",
   "bitmap_allocate_region", "bitmap_release_region"}

TypeOK ==
  /\ bitmap \in [Long -> SUBSET InLong]
  /\ call \in [fn : Fns, n : Seq(Int), with : Seq([Long -> SUBSET InLong])]

\* In contrast to the comment (49-52), __bitmap_and() and __bitmap_andnot() do count the
\* unused bits in what they return; that answer is compared for clean results only.
Answer ==
  IF call.fn \in {"bitmap_and", "bitmap_andnot"} /\ ~Clean(bitmap) THEN SetOf(bitmap) # {} ELSE ret

BitSet == INSTANCE BitSet WITH
  set <- SetOf(bitmap),
  call <- [call EXCEPT !.with = [i \in DOMAIN call.with |-> SetOf(call.with[i])]],
  ret <- Answer

\* The value of the unused bits does "not affect the results of any operation" (45-52): on
\* words with any unused bits, each operation does and answers what it does on sets.
ImplementsBitSet == BitSet!Spec

\* "if you don't input any bitmaps to these ops that have some unused bits set, then they
\* won't output any set unused bits in output bitmaps" (54-57).
StaysClean ==
  [][Clean(bitmap) /\ (\A i \in DOMAIN call'.with : Clean(call'.with[i])) => Clean(bitmap')]_vars
=============================================================================
