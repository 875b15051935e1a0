---------------------------- MODULE BitmapProofs ----------------------------
(***************************************************************************)
(* The operations of bitmap.c act on sets of numbers below the size of a   *)
(* bitmap, for every size, every width of words that is a power of two,    *)
(* and whatever is set of the bits beyond the size.                        *)
(*                                                                         *)
(* A bit is at a place in a word (At), and the last word has the last bit  *)
(* (Sizes, UsedIs).  A bitmap that has a number's bit set if and only if   *)
(* the number is in S has the set S (SetIs), and of clean bitmaps there is *)
(* one for each set (CleanAreEqual).  With that, each operation is taken   *)
(* word by word:                                                           *)
(*                                                                         *)
(*  - shifts are in place, so it is shown that a word that is read still   *)
(*    has its old value when it is (LeftIs, RightIs);                      *)
(*  - a search looks at words from the one of its offset on (NextBitIs),   *)
(*    and listing all bits is one search after the other (SeesAll), from   *)
(*    which come the weight and the maps;                                  *)
(*  - a search for an area tries again after each bit that is in its way,  *)
(*    and passes over no area (AreaStep);                                  *)
(*  - a region is a part of one word or a number of whole words, because   *)
(*    its size and that of a word divide each other (Powers, InRegion).    *)
(*                                                                         *)
(* Functions that are computed from their own values, of the word before   *)
(* or of the next bit, exist by Recursion and Descent.                     *)
(***************************************************************************)
EXTENDS Bitmap, Numbers, FiniteSetTheorems, SequenceTheorems, TLAPS

\* The bitmaps, clean or not.
Words == [Long -> SUBSET InLong]

-----------------------------------------------------------------------------
\* The words of a bitmap, the last of which has the last bit.
LEMMA Sizes ==
  /\ bits \in Nat \ {0} /\ BITS_PER_LONG \in Nat \ {0} /\ lim \in Nat \ {0}
  /\ (lim - 1) * BITS_PER_LONG < bits /\ bits <= lim * BITS_PER_LONG
<1>1. bits \in Nat \ {0} /\ BITS_PER_LONG \in Nat \ {0}
  BY BitmapAssumption
<1>2. lim \in Nat /\ lim = (bits + BITS_PER_LONG - 1) \div BITS_PER_LONG
  BY <1>1 DEF lim, BITS_TO_LONGS
<1>3. PICK r \in 0 .. BITS_PER_LONG - 1 : bits + BITS_PER_LONG - 1 = BITS_PER_LONG * lim + r
  <2>1. bits + BITS_PER_LONG - 1 \in Nat
    BY <1>1
  <2>2. Leaves(bits + BITS_PER_LONG - 1, BITS_PER_LONG, lim, (bits + BITS_PER_LONG - 1) % BITS_PER_LONG)
    BY <1>1, <1>2, <2>1, LeavesRest
  <2> QED
    BY <2>2 DEF Leaves
<1>4. bits <= BITS_PER_LONG * lim
  BY <1>1, <1>2, <1>3
<1>5. lim # 0
  BY <1>1, <1>4
<1>6. BITS_PER_LONG * (lim - 1) = BITS_PER_LONG * lim - BITS_PER_LONG
  BY <1>1, <1>2
<1>7. BITS_PER_LONG * (lim - 1) < bits
  <2>1. BITS_PER_LONG * lim \in Nat
    BY <1>1, <1>2
  <2> QED
    BY <1>1, <1>3, <1>6, <2>1
<1>8. BITS_PER_LONG * (lim - 1) = (lim - 1) * BITS_PER_LONG /\ BITS_PER_LONG * lim = lim * BITS_PER_LONG
  BY <1>1, <1>2
<1> QED
  BY <1>1, <1>2, <1>4, <1>5, <1>7, <1>8

\* Bit r of word k is the bit k * BITS_PER_LONG + r.
LEMMA PlaceOfBit ==
  ASSUME NEW k \in Nat, NEW r \in InLong
  PROVE  /\ k * BITS_PER_LONG + r \in Nat
         /\ (k * BITS_PER_LONG + r) \div BITS_PER_LONG = k
         /\ (k * BITS_PER_LONG + r) % BITS_PER_LONG = r
<1>1. BITS_PER_LONG \in Nat \ {0} /\ r \in Nat /\ r < BITS_PER_LONG
  BY Sizes DEF InLong
<1>2. PICK n \in Nat : n = k * BITS_PER_LONG + r
  BY <1>1
<1>3. Leaves(n, BITS_PER_LONG, k, r)
  <2>1. k * BITS_PER_LONG = BITS_PER_LONG * k
    BY <1>1
  <2> QED
    BY <1>1, <1>2, <2>1 DEF Leaves, InLong
<1>4. PICK q \in Nat, s \in Nat : q = n \div BITS_PER_LONG /\ s = n % BITS_PER_LONG
  BY <1>1
<1>5. Leaves(n, BITS_PER_LONG, q, s)
  BY <1>1, <1>4, LeavesRest
<1>6. r = s
  BY <1>1, <1>3, <1>5, LeavesOne
<1>7. BITS_PER_LONG * k = BITS_PER_LONG * q
  BY <1>1, <1>3, <1>5, <1>6 DEF Leaves
<1>8. k = q
  <2>1. ~(k < q) /\ ~(q < k)
    <3>1. ASSUME k < q PROVE FALSE
      BY <1>1, <1>7, <3>1, Multiples
    <3>2. ASSUME q < k PROVE FALSE
      BY <1>1, <1>7, <3>2, Multiples
    <3> QED
      BY <3>1, <3>2
  <2> QED
    BY <2>1
<1> QED
  BY <1>2, <1>4, <1>6, <1>8

\* A number has one place.
LEMMA BitOfPlace ==
  ASSUME NEW i \in Nat
  PROVE  /\ i \div BITS_PER_LONG \in Nat /\ i % BITS_PER_LONG \in InLong
         /\ i = (i \div BITS_PER_LONG) * BITS_PER_LONG + (i % BITS_PER_LONG)
<1>1. BITS_PER_LONG \in Nat \ {0}
  BY Sizes
<1>2. Leaves(i, BITS_PER_LONG, i \div BITS_PER_LONG, i % BITS_PER_LONG)
  BY <1>1, LeavesRest
<1>3. BITS_PER_LONG * (i \div BITS_PER_LONG) = (i \div BITS_PER_LONG) * BITS_PER_LONG
  BY <1>1, <1>2 DEF Leaves
<1> QED
  BY <1>1, <1>2, <1>3 DEF Leaves, InLong

\* The bits of the bitmap are in its words.
LEMMA BitsAreIn ==
  ASSUME NEW i \in Bit
  PROVE  i \in Nat /\ i \div BITS_PER_LONG \in Long /\ i % BITS_PER_LONG \in InLong
<1>1. i \in Nat /\ i < bits
  BY Sizes DEF Bit
<1>2. PICK k \in Nat : k = i \div BITS_PER_LONG
  BY <1>1, BitOfPlace
<1>3. k * BITS_PER_LONG <= i
  <2>1. BITS_PER_LONG \in Nat /\ i % BITS_PER_LONG \in Nat
    BY <1>1, BitOfPlace, Sizes DEF InLong
  <2> QED
    BY <1>1, <1>2, <2>1, BitOfPlace
<1>4. k < lim
  <2>1. ASSUME lim <= k
        PROVE  FALSE
    <3>1. lim * BITS_PER_LONG <= k * BITS_PER_LONG
      <4>1. CASE lim = k
        BY <4>1, Sizes
      <4>2. CASE lim < k
        <5>1. BITS_PER_LONG * lim + BITS_PER_LONG <= BITS_PER_LONG * k
          BY <4>2, Sizes, Multiples
        <5> QED
          BY <5>1, Sizes
      <4> QED
        BY <2>1, <4>1, <4>2, Sizes
    <3> QED
      BY <1>1, <1>3, <3>1, Sizes
  <2> QED
    BY <2>1, Sizes
<1> QED
  BY <1>1, <1>2, <1>4, BitOfPlace, Sizes DEF Long

\* What is used of the last word is LAST_WORD_MASK(), and others are used as a whole.
LEMMA UsedIs ==
  /\ \A k \in Long : k # lim - 1 => Used(k) = InLong
  /\ Used(lim - 1) = LAST_WORD_MASK(bits)
  /\ LAST_WORD_MASK(bits) \subseteq InLong
  /\ \A r \in InLong : r \in LAST_WORD_MASK(bits) <=> (lim - 1) * BITS_PER_LONG + r < bits
<1>1. PICK q \in Nat, s \in 0 .. BITS_PER_LONG - 1 :
        q = bits \div BITS_PER_LONG /\ s = bits % BITS_PER_LONG /\ bits = q * BITS_PER_LONG + s
  BY BitOfPlace, Sizes DEF InLong
<1>2. PICK m \in Nat : m = lim - 1
  BY Sizes
<1>3. m * BITS_PER_LONG < bits /\ bits <= m * BITS_PER_LONG + BITS_PER_LONG
  <2>1. lim = m + 1
    BY <1>2, Sizes
  <2>2. lim * BITS_PER_LONG = m * BITS_PER_LONG + BITS_PER_LONG
    BY <2>1, Sizes
  <2> QED
    BY <1>2, <2>2, Sizes
<1>4. m <= q
  <2>1. ASSUME q < m
        PROVE  FALSE
    <3>1. BITS_PER_LONG * q + BITS_PER_LONG <= BITS_PER_LONG * m
      BY <2>1, Sizes, Multiples
    <3>2. BITS_PER_LONG * q = q * BITS_PER_LONG /\ BITS_PER_LONG * m = m * BITS_PER_LONG
      BY Sizes
    <3> QED
      BY <1>1, <1>3, <3>1, <3>2, Sizes
  <2> QED
    BY <2>1
<1>5. q <= m + 1 /\ (q = m + 1 => s = 0)
  <2>1. ASSUME m + 1 < q
        PROVE  FALSE
    <3>1. BITS_PER_LONG * (m + 1) + BITS_PER_LONG <= BITS_PER_LONG * q
      BY <2>1, Sizes, Multiples
    <3>2. BITS_PER_LONG * (m + 1) = m * BITS_PER_LONG + BITS_PER_LONG
      BY Sizes
    <3>3. BITS_PER_LONG * q = q * BITS_PER_LONG
      BY Sizes
    <3> QED
      BY <1>1, <1>3, <3>1, <3>2, <3>3, Sizes
  <2>2. ASSUME q = m + 1
        PROVE  s = 0
    <3>1. q * BITS_PER_LONG = m * BITS_PER_LONG + BITS_PER_LONG
      BY <2>2, Sizes
    <3> QED
      BY <1>1, <1>3, <3>1, Sizes
  <2> QED
    BY <2>1, <2>2
<1>6. LAST_WORD_MASK(bits) = IF s = 0 THEN InLong ELSE 0 .. s - 1
  BY <1>1 DEF LAST_WORD_MASK
<1>7. q = m => s # 0
  BY <1>1, <1>3, Sizes
<1>8. Used(m) = LAST_WORD_MASK(bits)
  <2>1. CASE q = m
    BY <1>1, <2>1 DEF Used
  <2>2. CASE q = m + 1
    <3>1. m < q /\ s = 0
      BY <1>5, <2>2
    <3> QED
      BY <1>1, <1>6, <3>1 DEF Used
  <2> QED
    BY <1>4, <1>5, <2>1, <2>2
<1>9. ASSUME NEW k \in Long, k # m
      PROVE  Used(k) = InLong
  <2>1. k < q
    BY <1>2, <1>4, <1>9, Sizes DEF Long
  <2> QED
    BY <1>1, <2>1 DEF Used
<1>10. ASSUME NEW r \in InLong
       PROVE  r \in LAST_WORD_MASK(bits) <=> m * BITS_PER_LONG + r < bits
  <2>0. r \in Nat /\ r < BITS_PER_LONG /\ m * BITS_PER_LONG \in Nat
    BY Sizes DEF InLong
  <2>1. CASE q = m
    BY <1>1, <1>6, <1>7, <2>0, <2>1, Sizes
  <2>2. CASE q = m + 1
    <3>1. q * BITS_PER_LONG = m * BITS_PER_LONG + BITS_PER_LONG
      BY <2>2, Sizes
    <3> QED
      BY <1>1, <1>5, <1>6, <2>0, <2>2, <3>1, Sizes
  <2> QED
    BY <1>4, <1>5, <2>1, <2>2
<1>11. LAST_WORD_MASK(bits) \subseteq InLong
  BY <1>1, <1>6, Sizes DEF InLong
<1> QED
  BY <1>2, <1>8, <1>9, <1>10, <1>11

\* A bitmap is clean if its last word is.
LEMMA CleanIs ==
  ASSUME NEW b \in Words
  PROVE  Clean(b) <=> b[lim - 1] \subseteq LAST_WORD_MASK(bits)
<1>1. lim - 1 \in Long
  BY Sizes DEF Long
<1>2. \A k \in Long : b[k] \subseteq InLong
  BY DEF Words
<1> QED
  BY <1>1, <1>2, UsedIs DEF Clean

-----------------------------------------------------------------------------
\* One step of bitmap_shift_left(), at word k.
LeftStep(d, k, off, rem) ==
  [d EXCEPT ![k + off] =
     Trim(Shr(IF rem # 0 /\ k > 0 THEN d[k - 1] ELSE {}, BITS_PER_LONG - rem)
            \cup Shl(Trim(d[k], k), rem), k + off)]

\* And one of bitmap_shift_right().
RightStep(d, k, off, rem) ==
  [d EXCEPT ![k] =
     Trim(Shl(IF rem = 0 \/ off + k + 1 >= lim THEN {} ELSE Trim(d[off + k + 1], off + k + 1),
              BITS_PER_LONG - rem)
            \cup Shr(Trim(d[off + k], off + k), rem), k)]

\* Words stay words when they are shifted and trimmed, and the last one is clean.
LEMMA WordTypes ==
  ASSUME NEW w, NEW k
  PROVE  /\ \A n : Shl(w, n) \subseteq InLong /\ Shr(w, n) \subseteq InLong
         /\ Trim(w, k) \subseteq w
         /\ k = lim - 1 => Trim(w, k) \subseteq LAST_WORD_MASK(bits)
BY DEF Shl, Shr, Trim

\* A step of a shift makes a bitmap, and a clean one of a clean one.
LEMMA StepTypes ==
  ASSUME NEW d \in Words, NEW k, NEW off, NEW rem
  PROVE  /\ LeftStep(d, k, off, rem) \in Words /\ RightStep(d, k, off, rem) \in Words
         /\ Clean(d) => Clean(LeftStep(d, k, off, rem)) /\ Clean(RightStep(d, k, off, rem))
<1>1. ASSUME NEW w, NEW n, w \subseteq InLong
      PROVE  /\ [d EXCEPT ![n] = Trim(w, n)] \in Words
             /\ Clean(d) => Clean([d EXCEPT ![n] = Trim(w, n)])
  <2>1. Trim(w, n) \in SUBSET InLong
    BY <1>1, WordTypes
  <2>2. [d EXCEPT ![n] = Trim(w, n)] \in Words
    BY <2>1 DEF Words
  <2>3. ASSUME Clean(d)
        PROVE  Clean([d EXCEPT ![n] = Trim(w, n)])
    <3>1. d[lim - 1] \subseteq LAST_WORD_MASK(bits)
      BY <2>3, CleanIs
    <3>2. lim - 1 \in Long
      BY Sizes DEF Long
    <3>3. n = lim - 1 => Trim(w, n) \subseteq LAST_WORD_MASK(bits)
      BY WordTypes
    <3>4. [d EXCEPT ![n] = Trim(w, n)][lim - 1] \subseteq LAST_WORD_MASK(bits)
      BY <3>1, <3>2, <3>3 DEF Words
    <3> QED
      BY <2>2, <3>4, CleanIs
  <2> QED
    BY <2>2, <2>3
<1>2. /\ Shr(IF rem # 0 /\ k > 0 THEN d[k - 1] ELSE {}, BITS_PER_LONG - rem)
           \cup Shl(Trim(d[k], k), rem) \subseteq InLong
      /\ Shl(IF rem = 0 \/ off + k + 1 >= lim THEN {} ELSE Trim(d[off + k + 1], off + k + 1),
             BITS_PER_LONG - rem)
           \cup Shr(Trim(d[off + k], off + k), rem) \subseteq InLong
  BY WordTypes, Zenon
<1> QED
  BY <1>1, <1>2 DEF LeftStep, RightStep

\* The words of b while bitmap_shift_left() shifts them by n.
LeftWords(w, b, n, off, rem) ==
  /\ w \in [Nat -> Words]
  /\ w[0] = b
  /\ \A j \in Nat : w[j + 1] = LeftStep(w[j], lim - off - (j + 1), off, rem)
  /\ bitmap_shift_left(b, n) = [k \in Long |-> IF k < off THEN {} ELSE w[lim - off][k]]

\* What the loop of bitmap_shift_left() makes of the words.
LEMMA LeftSteps ==
  ASSUME NEW b \in Words, NEW n \in Nat
  PROVE  \E w : LeftWords(w, b, n, n \div BITS_PER_LONG, n % BITS_PER_LONG)
<1> DEFINE off == n \div BITS_PER_LONG
           rem == n % BITS_PER_LONG
           Body(h) == [j \in Nat |-> IF j = 0 THEN b ELSE LeftStep(h[j - 1], lim - off - j, off, rem)]
           G == [j \in Nat |-> [d \in Words |-> LeftStep(d, lim - off - j, off, rem)]]
           w == CHOOSE h : h = Body(h)
<1>1. G \in [Nat -> [Words -> Words]]
  BY StepTypes
<1>2. PICK f : Recursive(f, Words, b, G)
  <2> HIDE DEF G
  <2> QED
    BY <1>1, Recursion
<1>3. f = Body(f)
  <2>1. f \in [Nat -> Words] /\ f[0] = b /\ \A j \in Nat : f[j + 1] = G[j + 1][f[j]]
    BY <1>2 DEF Recursive
  <2>2. ASSUME NEW j \in Nat
        PROVE  f[j] = IF j = 0 THEN b ELSE LeftStep(f[j - 1], lim - off - j, off, rem)
    <3>1. CASE j = 0
      BY <2>1, <3>1
    <3>2. CASE j # 0
      <4>1. j - 1 \in Nat /\ (j - 1) + 1 = j
        BY <3>2
      <4>2. f[j] = G[j][f[j - 1]]
        BY <2>1, <4>1, Zenon
      <4>3. f[j - 1] \in Words
        BY <2>1, <4>1
      <4> QED
        BY <3>2, <4>2, <4>3
    <3> QED
      BY <3>1, <3>2
  <2> HIDE DEF G
  <2> QED
    BY <2>1, <2>2
<1>4. w = Body(w)
  <2> HIDE DEF Body
  <2> QED
    BY <1>3
<1>5. bitmap_shift_left(b, n) = [k \in Long |-> IF k < off THEN {} ELSE w[lim - off][k]]
  BY DEF bitmap_shift_left, LeftStep
<1> HIDE DEF w
<1>6. w[0] = b /\ \A j \in Nat : w[j + 1] = LeftStep(w[j], lim - off - (j + 1), off, rem)
  <2>1. ASSUME NEW j \in Nat
        PROVE  w[j + 1] = LeftStep(w[j], lim - off - (j + 1), off, rem)
    <3>1. j + 1 \in Nat /\ j + 1 # 0 /\ (j + 1) - 1 = j
      OBVIOUS
    <3> QED
      BY <1>4, <3>1
  <2> QED
    BY <1>4, <2>1
<1> DEFINE S == {j \in Nat : w[j] \in Words}
<1>7. 0 \in S /\ \A j \in Nat : j \in S => j + 1 \in S
  BY <1>6, StepTypes
<1>8. Nat \subseteq S
  <2> HIDE DEF S
  <2> QED
    BY <1>7, Induction
<1>9. w \in [Nat -> Words]
  <2>1. w = [j \in Nat |-> w[j]]
    BY <1>4
  <2> QED
    BY <1>8, <2>1
<1> QED
  BY <1>5, <1>6, <1>9 DEF LeftWords

\* The words of b while bitmap_shift_right() shifts them by n.
RightWords(w, b, n, off, rem) ==
  /\ w \in [Nat -> Words]
  /\ w[0] = b
  /\ \A j \in Nat : w[j + 1] = RightStep(w[j], j, off, rem)
  /\ bitmap_shift_right(b, n) = [k \in Long |-> IF k >= lim - off THEN {} ELSE w[lim - off][k]]

\* What the loop of bitmap_shift_right() makes of the words.
LEMMA RightSteps ==
  ASSUME NEW b \in Words, NEW n \in Nat
  PROVE  \E w : RightWords(w, b, n, n \div BITS_PER_LONG, n % BITS_PER_LONG)
<1> DEFINE off == n \div BITS_PER_LONG
           rem == n % BITS_PER_LONG
           Body(h) == [j \in Nat |-> IF j = 0 THEN b ELSE RightStep(h[j - 1], j - 1, off, rem)]
           G == [j \in Nat |-> [d \in Words |-> RightStep(d, j - 1, off, rem)]]
           w == CHOOSE h : h = Body(h)
<1>1. G \in [Nat -> [Words -> Words]]
  BY StepTypes
<1>2. PICK f : Recursive(f, Words, b, G)
  <2> HIDE DEF G
  <2> QED
    BY <1>1, Recursion
<1>3. f = Body(f)
  <2>1. f \in [Nat -> Words] /\ f[0] = b /\ \A j \in Nat : f[j + 1] = G[j + 1][f[j]]
    BY <1>2 DEF Recursive
  <2>2. ASSUME NEW j \in Nat
        PROVE  f[j] = IF j = 0 THEN b ELSE RightStep(f[j - 1], j - 1, off, rem)
    <3>1. CASE j = 0
      BY <2>1, <3>1
    <3>2. CASE j # 0
      <4>1. j - 1 \in Nat /\ (j - 1) + 1 = j
        BY <3>2
      <4>2. f[j] = G[j][f[j - 1]]
        BY <2>1, <4>1, Zenon
      <4>3. f[j - 1] \in Words
        BY <2>1, <4>1
      <4> QED
        BY <3>2, <4>2, <4>3
    <3> QED
      BY <3>1, <3>2
  <2> HIDE DEF G
  <2> QED
    BY <2>1, <2>2
<1>4. w = Body(w)
  <2> HIDE DEF Body
  <2> QED
    BY <1>3
<1>5. bitmap_shift_right(b, n) = [k \in Long |-> IF k >= lim - off THEN {} ELSE w[lim - off][k]]
  BY DEF bitmap_shift_right, RightStep
<1> HIDE DEF w
<1>6. w[0] = b /\ \A j \in Nat : w[j + 1] = RightStep(w[j], j, off, rem)
  <2>1. ASSUME NEW j \in Nat
        PROVE  w[j + 1] = RightStep(w[j], j, off, rem)
    <3>1. j + 1 \in Nat /\ j + 1 # 0 /\ (j + 1) - 1 = j
      OBVIOUS
    <3> QED
      BY <1>4, <3>1
  <2> QED
    BY <1>4, <2>1
<1> DEFINE S == {j \in Nat : w[j] \in Words}
<1>7. 0 \in S /\ \A j \in Nat : j \in S => j + 1 \in S
  BY <1>6, StepTypes
<1>8. Nat \subseteq S
  <2> HIDE DEF S
  <2> QED
    BY <1>7, Induction
<1>9. w \in [Nat -> Words]
  <2>1. w = [j \in Nat |-> w[j]]
    BY <1>4
  <2> QED
    BY <1>8, <2>1
<1> QED
  BY <1>5, <1>6, <1>9 DEF RightWords

\* A shift makes a bitmap, and a clean one of a clean one.
LEMMA ShiftTypes ==
  ASSUME NEW b \in Words, NEW n \in Nat, n <= lim * BITS_PER_LONG
  PROVE  /\ bitmap_shift_left(b, n) \in Words /\ bitmap_shift_right(b, n) \in Words
         /\ Clean(b) => Clean(bitmap_shift_left(b, n)) /\ Clean(bitmap_shift_right(b, n))
<1> DEFINE off == n \div BITS_PER_LONG
           rem == n % BITS_PER_LONG
<1>1. off \in Nat
  BY BitOfPlace
<1>2. off <= lim
  <2>1. n = off * BITS_PER_LONG + rem /\ rem \in Nat
    BY BitOfPlace, Sizes DEF InLong
  <2> HIDE DEF off, rem
  <2>2. ASSUME lim < off
        PROVE  FALSE
    <3>1. BITS_PER_LONG * lim + BITS_PER_LONG <= BITS_PER_LONG * off
      BY <1>1, <2>2, Sizes, Multiples
    <3>2. BITS_PER_LONG * lim = lim * BITS_PER_LONG /\ BITS_PER_LONG * off = off * BITS_PER_LONG
      BY <1>1, Sizes
    <3>3. off * BITS_PER_LONG \in Nat
      BY <1>1, Sizes
    <3> QED
      BY <2>1, <3>1, <3>2, <3>3, Sizes
  <2> QED
    BY <1>1, <2>2, Sizes
<1>3. lim - off \in Nat
  <2> HIDE DEF off
  <2> QED
    BY <1>1, <1>2, Sizes
<1>4. ASSUME NEW e \in Words, Clean(b) => Clean(e), NEW cut
      PROVE  /\ [k \in Long |-> IF k \in cut THEN {} ELSE e[k]] \in Words
             /\ Clean(b) => Clean([k \in Long |-> IF k \in cut THEN {} ELSE e[k]])
  <2> DEFINE d == [k \in Long |-> IF k \in cut THEN {} ELSE e[k]]
  <2>1. d \in Words
    BY DEF Words
  <2>2. \A k \in Long : d[k] \subseteq e[k]
    OBVIOUS
  <2>3. Clean(e) => Clean(d)
    BY <2>2 DEF Clean
  <2> QED
    BY <1>4, <2>1, <2>3
<1>5. bitmap_shift_left(b, n) \in Words /\ (Clean(b) => Clean(bitmap_shift_left(b, n)))
  <2>1. PICK w : LeftWords(w, b, n, off, rem)
    BY <1>1, LeftSteps, Zenon
  <2>0. /\ w \in [Nat -> Words] /\ w[0] = b
        /\ \A j \in Nat : w[j + 1] = LeftStep(w[j], lim - off - (j + 1), off, rem)
        /\ bitmap_shift_left(b, n) = [k \in Long |-> IF k < off THEN {} ELSE w[lim - off][k]]
    BY <2>1 DEF LeftWords
  <2> DEFINE S == {j \in Nat : Clean(b) => Clean(w[j])}
  <2>2. 0 \in S /\ \A j \in Nat : j \in S => j + 1 \in S
    BY <2>0, StepTypes
  <2>3. Nat \subseteq S
    <3> HIDE DEF S
    <3> QED
      BY <2>2, Induction
  <2>4. w[lim - off] \in Words /\ (Clean(b) => Clean(w[lim - off]))
    BY <1>3, <2>0, <2>3
  <2>5. bitmap_shift_left(b, n) =
          [k \in Long |-> IF k \in {l \in Long : l < off} THEN {} ELSE w[lim - off][k]]
    BY <2>0
  <2>6. /\ [k \in Long |-> IF k \in {l \in Long : l < off} THEN {} ELSE w[lim - off][k]] \in Words
        /\ Clean(b) =>
             Clean([k \in Long |-> IF k \in {l \in Long : l < off} THEN {} ELSE w[lim - off][k]])
    BY <1>4, <2>4
  <2> QED
    BY <2>5, <2>6
<1>6. bitmap_shift_right(b, n) \in Words /\ (Clean(b) => Clean(bitmap_shift_right(b, n)))
  <2>1. PICK w : RightWords(w, b, n, off, rem)
    BY <1>1, RightSteps, Zenon
  <2>0. /\ w \in [Nat -> Words] /\ w[0] = b
        /\ \A j \in Nat : w[j + 1] = RightStep(w[j], j, off, rem)
        /\ bitmap_shift_right(b, n) = [k \in Long |-> IF k >= lim - off THEN {} ELSE w[lim - off][k]]
    BY <2>1 DEF RightWords
  <2> DEFINE S == {j \in Nat : Clean(b) => Clean(w[j])}
  <2>2. 0 \in S /\ \A j \in Nat : j \in S => j + 1 \in S
    BY <2>0, StepTypes
  <2>3. Nat \subseteq S
    <3> HIDE DEF S
    <3> QED
      BY <2>2, Induction
  <2>4. w[lim - off] \in Words /\ (Clean(b) => Clean(w[lim - off]))
    BY <1>3, <2>0, <2>3
  <2>5. bitmap_shift_right(b, n) =
          [k \in Long |-> IF k \in {l \in Long : l >= lim - off} THEN {} ELSE w[lim - off][k]]
    BY <2>0
  <2>6. /\ [k \in Long |-> IF k \in {l \in Long : l >= lim - off} THEN {}
                         ELSE w[lim - off][k]] \in Words
        /\ Clean(b) =>
             Clean([k \in Long |-> IF k \in {l \in Long : l >= lim - off} THEN {} ELSE w[lim - off][k]])
    BY <1>4, <2>4
  <2> QED
    BY <2>5, <2>6
<1> QED
  BY <1>5, <1>6

-----------------------------------------------------------------------------
\* What the operations make are bitmaps.
LEMMA Operations ==
  ASSUME NEW b \in Words, NEW e \in Words
  PROVE  /\ bitmap_zero \in Words /\ bitmap_fill \in Words /\ bitmap_complement(b) \in Words
         /\ bitmap_or(b, e) \in Words /\ bitmap_xor(b, e) \in Words
         /\ bitmap_and(b, e) \in Words /\ bitmap_andnot(b, e) \in Words
         /\ \A start, nr : bitmap_set(b, start, nr) \in Words /\ bitmap_clear(b, start, nr) \in Words
         /\ \A S : set_bits(S, b) \in Words
         /\ \A at, order : RegionMask(at, order) \in Words
<1>1. bitmap_zero \in Words /\ bitmap_complement(b) \in Words
  BY DEF Words, bitmap_zero, bitmap_complement, Not
<1>2. bitmap_fill \in Words
  BY UsedIs DEF Words, bitmap_fill
<1>3. /\ bitmap_or(b, e) \in Words /\ bitmap_xor(b, e) \in Words
      /\ bitmap_and(b, e) \in Words /\ bitmap_andnot(b, e) \in Words
  BY DEF Words, bitmap_or, bitmap_xor, Xor, bitmap_and, bitmap_andnot
<1>4. ASSUME NEW start, NEW nr
      PROVE  bitmap_set(b, start, nr) \in Words /\ bitmap_clear(b, start, nr) \in Words
  <2>1. \A k \in Long : RangeMask(k, start, nr) \subseteq InLong
    <3>1. ASSUME NEW k \in Long
          PROVE  RangeMask(k, start, nr) \subseteq InLong
      <4> DEFINE last == IF (k + 1) * BITS_PER_LONG <= start + nr THEN InLong
                         ELSE LAST_WORD_MASK(start + nr)
                 first == IF k = start \div BITS_PER_LONG THEN FIRST_WORD_MASK(start) ELSE InLong
      <4>0. RangeMask(k, start, nr) \subseteq first \cap last
        BY DEF RangeMask
      <4>1. CASE first = InLong
        BY <4>0, <4>1
      <4>2. CASE last = InLong
        BY <4>0, <4>2
      <4>3. CASE first = FIRST_WORD_MASK(start) /\ last = LAST_WORD_MASK(start + nr)
        <5>1. CASE (start + nr) % BITS_PER_LONG = 0
          BY <4>0, <4>3, <5>1 DEF LAST_WORD_MASK
        <5>2. CASE (start + nr) % BITS_PER_LONG # 0
          <6> DEFINE s == start % BITS_PER_LONG
                     end == (start + nr) % BITS_PER_LONG
          <6>1. RangeMask(k, start, nr) \subseteq (s .. BITS_PER_LONG - 1) \cap (0 .. end - 1)
            BY <4>0, <4>3, <5>2 DEF FIRST_WORD_MASK, LAST_WORD_MASK
          <6> HIDE DEF s, end
          <6>2. (s .. BITS_PER_LONG - 1) \cap (0 .. end - 1) \subseteq InLong
            BY Sizes DEF InLong
          <6> QED
            BY <6>1, <6>2
        <5> QED
          BY <5>1, <5>2
      <4> QED
        BY <4>1, <4>2, <4>3
    <3> QED
      BY <3>1
  <2> QED
    BY <2>1 DEF Words, bitmap_set, bitmap_clear
<1>5. \A S : set_bits(S, b) \in Words
  BY DEF Words, set_bits
<1>6. \A at, order : RegionMask(at, order) \in Words
  BY DEF Words, RegionMask, Shl
<1> QED
  BY <1>1, <1>2, <1>3, <1>4, <1>5, <1>6

\* The operations that move bits to other places put them into an empty bitmap.
LEMMA Moves ==
  /\ \A src, old, new : bitmap_remap(src, old, new) \in Words
  /\ \A orig, relmap : bitmap_onto(orig, relmap) \in Words
  /\ \A orig, sz : bitmap_fold(orig, sz) \in Words
<1>1. bitmap_zero \in Words
  BY DEF Words, bitmap_zero
<1>2. \A S : set_bits(S, bitmap_zero) \in Words
  BY <1>1, Operations
<1> QED
  BY <1>2 DEF bitmap_remap, bitmap_onto, bitmap_fold

\* A call is made of a name, numbers and bitmaps.
Calls == [fn : Fns, n : Seq(Int), with : Seq(Words)]

\* Types are right after a call that makes a bitmap.
LEMMA CallTypes ==
  ASSUME bitmap' \in Words, call' \in Calls
  PROVE  TypeOK'
BY DEF TypeOK, Words, Calls

\* Sequences of no, one and two members.
LEMMA Short ==
  ASSUME NEW T
  PROVE  /\ << >> \in Seq(T)
         /\ \A x \in T : << x >> \in Seq(T)
         /\ \A x \in T, y \in T : << x, y >> \in Seq(T)
         /\ \A x \in T, y \in T, z \in T : << x, y, z >> \in Seq(T)
OBVIOUS

\* A regions call keeps the types.
LEMMA RegionTypes ==
  ASSUME TypeOK, NEW order \in Int, NEW at \in Int
  PROVE  /\ bitmap_find_free_region(order) => TypeOK'
         /\ bitmap_allocate_region(at, order) => TypeOK'
         /\ bitmap_release_region(at, order) => TypeOK'
<1>1. bitmap \in Words
  BY DEF TypeOK, Words
<1>2. \A x : ALLOC(bitmap, x, order) \in Words /\ RELEASE(bitmap, x, order) \in Words
  BY <1>1, Operations DEF ALLOC, RELEASE
<1>3. << order >> \in Seq(Int) /\ << at, order >> \in Seq(Int) /\ << >> \in Seq(Words)
  BY Short
<1>4. ASSUME bitmap_find_free_region(order)
      PROVE  TypeOK'
  <2> DEFINE free == {x \in Candidates(order) : ISFREE(bitmap, x, order)}
  <2>1. CASE free = {}
    <3>1. Call("bitmap_find_free_region", << order >>, << >>, bitmap, "ENOMEM")
      BY <1>4, <2>1 DEF bitmap_find_free_region
    <3> QED
      BY <1>1, <1>3, <3>1, CallTypes DEF Call, Calls, Fns
  <2>2. CASE free # {}
    <3>1. Call("bitmap_find_free_region", << order >>, << >>,
               ALLOC(bitmap, Min(free), order), Min(free))
      BY <1>4, <2>2 DEF bitmap_find_free_region
    <3> QED
      BY <1>2, <1>3, <3>1, CallTypes DEF Call, Calls, Fns
  <2> QED
    BY <2>1, <2>2
<1>5. ASSUME bitmap_allocate_region(at, order)
      PROVE  TypeOK'
  <2>1. CASE ISFREE(bitmap, at, order)
    <3>1. Call("bitmap_allocate_region", << at, order >>, << >>, ALLOC(bitmap, at, order), 0)
      BY <1>5, <2>1 DEF bitmap_allocate_region
    <3> QED
      BY <1>2, <1>3, <3>1, CallTypes DEF Call, Calls, Fns
  <2>2. CASE ~ISFREE(bitmap, at, order)
    <3>1. Call("bitmap_allocate_region", << at, order >>, << >>, bitmap, "EBUSY")
      BY <1>5, <2>2 DEF bitmap_allocate_region
    <3> QED
      BY <1>1, <1>3, <3>1, CallTypes DEF Call, Calls, Fns
  <2> QED
    BY <2>1, <2>2
<1>6. ASSUME bitmap_release_region(at, order)
      PROVE  TypeOK'
  <2>1. Call("bitmap_release_region", << at, order >>, << >>, RELEASE(bitmap, at, order), "void")
    BY <1>6 DEF bitmap_release_region
  <2> QED
    BY <1>2, <1>3, <2>1, CallTypes DEF Call, Calls, Fns
<1> QED
  BY <1>4, <1>5, <1>6

\* Every call on a bitmap makes a bitmap.
LEMMA NextTypes ==
  ASSUME TypeOK, Next
  PROVE  TypeOK'
<1>1. bitmap \in Words /\ Others \subseteq Words
  BY BitmapAssumption DEF TypeOK, Words
<1>2. << >> \in Seq(Int) /\ << >> \in Seq(Words) /\ \A b \in Others : << b >> \in Seq(Words)
  BY <1>1, Short
<1>3. \A i \in Int, j \in Int, k \in Int :
        << i >> \in Seq(Int) /\ << i, j >> \in Seq(Int) /\ << i, j, k >> \in Seq(Int)
  BY Short
<1>4. \A i \in Bit : i \in Nat /\ i < bits
  BY Sizes DEF Bit
<1>5. CASE Algebra
  <2>1. ASSUME NEW fn \in {"bitmap_zero", "bitmap_fill", "bitmap_complement"},
               NEW made \in Words, bitmap' = made, call' = [fn |-> fn, n |-> << >>, with |-> << >>]
        PROVE  TypeOK'
    BY <1>2, <2>1, CallTypes DEF Calls, Fns
  <2>2. bitmap_zero \in Words /\ bitmap_fill \in Words /\ bitmap_complement(bitmap) \in Words
    BY <1>1, Operations
  <2>3. CASE Does("bitmap_zero", bitmap_zero)
    BY <2>1, <2>2, <2>3 DEF Does, Call
  <2>4. CASE Does("bitmap_fill", bitmap_fill)
    BY <2>1, <2>2, <2>4 DEF Does, Call
  <2>5. CASE Does("bitmap_complement", bitmap_complement(bitmap))
    BY <2>1, <2>2, <2>5 DEF Does, Call
  <2> QED
    BY <1>5, <2>3, <2>4, <2>5 DEF Algebra
<1>6. CASE Algebra2
  <2>1. PICK b \in Others :
          /\ \/ bitmap' = b
             \/ bitmap' = bitmap_or(bitmap, b)
             \/ bitmap' = bitmap_xor(bitmap, b)
             \/ bitmap' = bitmap_and(bitmap, b)
             \/ bitmap' = bitmap_andnot(bitmap, b)
          /\ \E fn \in {"bitmap_copy", "bitmap_or", "bitmap_xor", "bitmap_and", "bitmap_andnot"} :
               call' = [fn |-> fn, n |-> << >>, with |-> << b >>]
    BY <1>6, Zenon DEF Algebra2, Call
  <2>2. bitmap' \in Words
    BY <1>1, <2>1, Operations
  <2>3. call' \in Calls
    BY <1>2, <2>1 DEF Calls, Fns
  <2> QED
    BY <2>2, <2>3, CallTypes
<1>7. CASE Tests
  <2>1. bitmap' = bitmap
    BY <1>7, Zenon DEF Tests, Tells, Call
  <2>2. \/ \E fn \in {"bitmap_empty", "bitmap_full", "bitmap_weight"} :
             call' = [fn |-> fn, n |-> << >>, with |-> << >>]
        \/ \E b \in Others : \E fn \in {"bitmap_equal", "bitmap_intersects", "bitmap_subset"} :
             call' = [fn |-> fn, n |-> << >>, with |-> << b >>]
    BY <1>7, Zenon DEF Tests, Tells, Call
  <2>3. call' \in Calls
    <3>1. CASE \E fn \in {"bitmap_empty", "bitmap_full", "bitmap_weight"} :
                 call' = [fn |-> fn, n |-> << >>, with |-> << >>]
      BY <1>2, <3>1 DEF Calls, Fns
    <3>2. CASE \E b \in Others : \E fn \in {"bitmap_equal", "bitmap_intersects", "bitmap_subset"} :
                 call' = [fn |-> fn, n |-> << >>, with |-> << b >>]
      BY <1>2, <3>2 DEF Calls, Fns
    <3> QED
      BY <2>2, <3>1, <3>2
  <2> QED
    BY <1>1, <2>1, <2>3, CallTypes
<1>8. CASE Shifts
  <2>1. \A n \in 0 .. bits : n \in Nat /\ n <= bits
    BY Sizes
  <2>0. \A n \in 0 .. bits : n <= lim * BITS_PER_LONG
    <3>1. lim * BITS_PER_LONG \in Nat
      BY Sizes
    <3> QED
      BY <3>1, Sizes
  <2>2. \A n \in 0 .. bits : /\ bitmap_shift_left(bitmap, n) \in Words
                             /\ bitmap_shift_right(bitmap, n) \in Words
    BY <1>1, <2>0, <2>1, ShiftTypes
  <2>3. PICK n \in 0 .. bits :
          /\ bitmap' = bitmap_shift_right(bitmap, n) \/ bitmap' = bitmap_shift_left(bitmap, n)
          /\ \E fn \in {"bitmap_shift_right", "bitmap_shift_left"} :
               call' = [fn |-> fn, n |-> << n >>, with |-> << >>]
    BY <1>8, Zenon DEF Shifts, Call
  <2>4. bitmap' \in Words
    BY <2>2, <2>3
  <2>5. n \in Int
    BY <2>1
  <2>6. call' \in Calls
    BY <1>2, <1>3, <2>3, <2>5 DEF Calls, Fns
  <2> QED
    BY <2>4, <2>6, CallTypes
<1>9. CASE Ranges
  <2>1. PICK start \in Bit : \E nr \in 0 .. bits - start :
          /\ bitmap' = bitmap_set(bitmap, start, nr) \/ bitmap' = bitmap_clear(bitmap, start, nr)
          /\ \E fn \in {"bitmap_set", "bitmap_clear"} :
               call' = [fn |-> fn, n |-> << start, nr >>, with |-> << >>]
    BY <1>9, Zenon DEF Ranges, Call
  <2>2. PICK nr \in 0 .. bits - start :
          /\ bitmap' = bitmap_set(bitmap, start, nr) \/ bitmap' = bitmap_clear(bitmap, start, nr)
          /\ \E fn \in {"bitmap_set", "bitmap_clear"} :
               call' = [fn |-> fn, n |-> << start, nr >>, with |-> << >>]
    BY <2>1
  <2>3. << start, nr >> \in Seq(Int)
    BY <1>3, <1>4
  <2>4. bitmap' \in Words
    <3>1. bitmap_set(bitmap, start, nr) \in Words /\ bitmap_clear(bitmap, start, nr) \in Words
      BY <1>1, Operations
    <3> QED
      BY <2>2, <3>1, Zenon
  <2>5. call' \in Calls
    BY <1>2, <2>2, <2>3 DEF Calls, Fns
  <2> QED
    BY <2>4, <2>5, CallTypes
<1>10. CASE Searches
  <2>1. bitmap' = bitmap
    BY <1>10, Zenon DEF Searches, Tells, Call
  <2>2. \/ \E fn \in {"find_first_bit", "find_first_zero_bit"} :
             call' = [fn |-> fn, n |-> << >>, with |-> << >>]
        \/ \E n \in 0 .. bits : \E fn \in {"find_next_bit", "find_next_zero_bit"} :
             call' = [fn |-> fn, n |-> << n >>, with |-> << >>]
        \/ \E start \in Bit, nr \in {1, 3}, align_mask \in {0, 1, 3} :
             call' = [fn |-> "bitmap_find_next_zero_area", n |-> << start, nr, align_mask >>,
                      with |-> << >>]
    BY <1>10, Zenon DEF Searches, Tells, Call
  <2>3. call' \in Calls
    <3>1. CASE \E fn \in {"find_first_bit", "find_first_zero_bit"} :
                 call' = [fn |-> fn, n |-> << >>, with |-> << >>]
      BY <1>2, <3>1 DEF Calls, Fns
    <3>2. CASE \E n \in 0 .. bits : \E fn \in {"find_next_bit", "find_next_zero_bit"} :
                 call' = [fn |-> fn, n |-> << n >>, with |-> << >>]
      BY <1>2, <1>3, <3>2 DEF Calls, Fns
    <3>3. ASSUME NEW start \in Bit, NEW nr \in {1, 3}, NEW align_mask \in {0, 1, 3},
                 call' = [fn |-> "bitmap_find_next_zero_area", n |-> << start, nr, align_mask >>,
                          with |-> << >>]
          PROVE  call' \in Calls
      <4>1. << start, nr, align_mask >> \in Seq(Int)
        BY <1>3, <1>4
      <4> QED
        BY <1>2, <3>3, <4>1 DEF Calls, Fns
    <3> QED
      BY <2>2, <3>1, <3>2, <3>3
  <2> QED
    BY <1>1, <2>1, <2>3, CallTypes
<1>11. CASE Maps
  <2>1. ASSUME NEW n \in Bit,
               Call("bitmap_ord_to_pos", << n >>, << >>, bitmap, bitmap_ord_to_pos(bitmap, n))
        PROVE  TypeOK'
    BY <1>1, <1>2, <1>3, <1>4, <2>1, CallTypes DEF Call, Calls, Fns
  <2>5. ASSUME NEW n \in Bit,
               Call("bitmap_fold", << n + 1 >>, << >>, bitmap_fold(bitmap, n + 1), "void")
        PROVE  TypeOK'
    <3>1. << n + 1 >> \in Seq(Int)
      BY <1>3, <1>4
    <3> QED
      BY <1>2, <2>5, <3>1, Moves, CallTypes DEF Call, Calls, Fns
  <2>2. ASSUME NEW b \in Others, Call("bitmap_onto", << >>, << b >>, bitmap_onto(bitmap, b), "void")
        PROVE  TypeOK'
    BY <1>2, <2>2, Moves, CallTypes DEF Call, Calls, Fns
  <2>3. ASSUME NEW b \in Others, NEW n \in Bit,
               Call("bitmap_bitremap", << n >>, << b >>, bitmap, bitmap_bitremap(n, bitmap, b))
        PROVE  TypeOK'
    BY <1>1, <1>2, <1>3, <1>4, <2>3, CallTypes DEF Call, Calls, Fns
  <2>4. ASSUME NEW b \in Others, NEW new \in Others,
               Call("bitmap_remap", << >>, << b, new >>, bitmap_remap(bitmap, b, new), "void")
        PROVE  TypeOK'
    <3>1. << b, new >> \in Seq(Words)
      BY <1>1, Short
    <3> QED
      BY <1>2, <2>4, <3>1, Moves, CallTypes DEF Call, Calls, Fns
  <2> QED
    BY <1>11, <2>1, <2>2, <2>3, <2>4, <2>5 DEF Maps
<1>12. CASE Regions
  <2>1. PICK order \in 0 .. bits : \/ bitmap_find_free_region(order)
                                   \/ \E x \in Bit : \/ bitmap_allocate_region(x, order)
                                                     \/ bitmap_release_region(x, order)
    BY <1>12 DEF Regions
  <2>2. order \in Int /\ 0 \in Int /\ \A x \in Bit : x \in Int
    BY <1>4
  <2> QED
    BY <2>1, <2>2, RegionTypes
<1>13. CASE Return
  <2>1. call' = NoCall /\ bitmap' = bitmap
    BY <1>13 DEF Return
  <2>2. NoCall \in [fn : Fns, n : Seq(Int), with : Seq([Long -> SUBSET InLong])]
    BY DEF NoCall, Fns
  <2> QED
    BY <2>1, <2>2 DEF TypeOK
<1> QED
  BY <1>5, <1>6, <1>7, <1>8, <1>9, <1>10, <1>11, <1>12, <1>13 DEF Next

-----------------------------------------------------------------------------
\* Word m of a bitmap after bitmap_shift_left().
NewWord(b, m, off, rem) ==
  Trim(Shr(IF rem # 0 /\ m - off > 0 THEN b[m - off - 1] ELSE {}, BITS_PER_LONG - rem)
         \cup Shl(Trim(b[m - off], m - off), rem), m)

\* The words are shifted from the last one down: those that are read have their old values.
LEMMA LeftIs ==
  ASSUME NEW b \in Words, NEW n \in Nat, n <= lim * BITS_PER_LONG
  PROVE  LET off == n \div BITS_PER_LONG
             rem == n % BITS_PER_LONG
         IN  bitmap_shift_left(b, n) =
               [k \in Long |-> IF k < off THEN {} ELSE NewWord(b, k, off, rem)]
<1>1. PICK off \in Nat, rem \in InLong :
        off = n \div BITS_PER_LONG /\ rem = n % BITS_PER_LONG /\ n = off * BITS_PER_LONG + rem
  BY BitOfPlace
<1>2. off <= lim
  <2>1. ASSUME lim < off
        PROVE  FALSE
    <3>1. BITS_PER_LONG * lim + BITS_PER_LONG <= BITS_PER_LONG * off
      BY <2>1, Sizes, Multiples
    <3>2. BITS_PER_LONG * lim = lim * BITS_PER_LONG /\ BITS_PER_LONG * off = off * BITS_PER_LONG
      BY Sizes
    <3>3. off * BITS_PER_LONG \in Nat /\ rem \in Nat
      BY Sizes DEF InLong
    <3> QED
      BY <1>1, <3>1, <3>2, <3>3, Sizes
  <2> QED
    BY <2>1, Sizes
<1>3. PICK w : LeftWords(w, b, n, off, rem)
  BY <1>1, LeftSteps, Zenon
<1>4. /\ w \in [Nat -> Words] /\ w[0] = b
      /\ \A j \in Nat : w[j + 1] = LeftStep(w[j], lim - off - (j + 1), off, rem)
      /\ bitmap_shift_left(b, n) = [k \in Long |-> IF k < off THEN {} ELSE w[lim - off][k]]
  BY <1>3 DEF LeftWords
<1> DEFINE I(j) == \A m \in Long :
                     w[j][m] = IF m >= lim - j THEN NewWord(b, m, off, rem) ELSE b[m]
           S == {j \in Nat : j <= lim - off => I(j)}
<1>5. 0 \in S
  <2>1. \A m \in Long : ~(m >= lim - 0)
    BY Sizes DEF Long
  <2> QED
    BY <1>4, <2>1
<1>6. ASSUME NEW j \in Nat, j \in S
      PROVE  j + 1 \in S
  <2> SUFFICES ASSUME j + 1 <= lim - off
               PROVE  I(j + 1)
    OBVIOUS
  <2>1. I(j)
    <3>1. j <= lim - off
      BY Sizes
    <3> QED
      BY <1>6, <3>1
  <2>2. PICK k \in Nat : k = lim - off - (j + 1)
    BY Sizes
  <2>3. PICK m \in Long : m = k + off /\ m - off = k /\ m = lim - (j + 1)
    BY <2>2, Sizes DEF Long
  <2>4. w[j][k] = b[k]
    <3>1. k \in Long /\ ~(k >= lim - j)
      BY <2>2, Sizes DEF Long
    <3> QED
      BY <2>1, <3>1
  <2>5. k > 0 => w[j][k - 1] = b[k - 1]
    <3>1. k > 0 => k - 1 \in Long /\ ~(k - 1 >= lim - j)
      BY <2>2, Sizes DEF Long
    <3> QED
      BY <2>1, <3>1
  <2>6. LeftStep(w[j], k, off, rem) = [w[j] EXCEPT ![m] = NewWord(b, m, off, rem)]
    <3>1. (IF rem # 0 /\ k > 0 THEN w[j][k - 1] ELSE {}) =
            (IF rem # 0 /\ m - off > 0 THEN b[m - off - 1] ELSE {})
      BY <2>3, <2>5
    <3>2. Trim(w[j][k], k) = Trim(b[m - off], m - off)
      BY <2>3, <2>4
    <3>3. k + off = m
      BY <2>3
    <3> QED
      BY <3>1, <3>2, <3>3, Zenon DEF LeftStep, NewWord
  <2>7. w[j + 1] = [w[j] EXCEPT ![m] = NewWord(b, m, off, rem)]
    BY <1>4, <2>2, <2>6
  <2>8. w[j] \in Words
    BY <1>4
  <2>9. ASSUME NEW l \in Long
        PROVE  w[j + 1][l] = IF l >= lim - (j + 1) THEN NewWord(b, l, off, rem) ELSE b[l]
    <3>1. CASE l = m
      BY <2>3, <2>7, <2>8, <3>1 DEF Words
    <3>2. CASE l # m
      <4>1. w[j + 1][l] = w[j][l]
        BY <2>7, <2>8, <3>2 DEF Words
      <4>2. l >= lim - (j + 1) <=> l >= lim - j
        BY <2>3, <3>2, Sizes DEF Long
      <4> QED
        BY <2>1, <4>1, <4>2
    <3> QED
      BY <3>1, <3>2
  <2> QED
    BY <2>9
<1>7. I(lim - off)
  <2>1. lim - off \in Nat
    BY <1>2, Sizes
  <2>2. Nat \subseteq S
    <3> HIDE DEF S
    <3> QED
      BY <1>5, <1>6, Induction
  <2> QED
    BY <2>1, <2>2
<1>8. ASSUME NEW k \in Long, ~(k < off)
      PROVE  w[lim - off][k] = NewWord(b, k, off, rem)
  <2>1. k >= lim - (lim - off)
    BY <1>8, Sizes DEF Long
  <2> QED
    BY <1>7, <2>1
<1>9. bitmap_shift_left(b, n) = [k \in Long |-> IF k < off THEN {} ELSE NewWord(b, k, off, rem)]
  BY <1>4, <1>8
<1> QED
  BY <1>1, <1>9

\* A bit is in the set of a bitmap if it is in its word.
LEMMA InSet ==
  ASSUME NEW b, NEW k \in Nat, NEW r \in InLong, k * BITS_PER_LONG + r < bits
  PROVE  k * BITS_PER_LONG + r \in SetOf(b) <=> r \in b[k]
<1>1. k * BITS_PER_LONG + r \in Bit
  <2>1. PICK i \in Nat : i = k * BITS_PER_LONG + r
    BY PlaceOfBit
  <2>2. i \in Bit
    BY <2>1, Sizes DEF Bit
  <2> QED
    BY <2>1, <2>2
<1>2. /\ (k * BITS_PER_LONG + r) \div BITS_PER_LONG = k
      /\ (k * BITS_PER_LONG + r) % BITS_PER_LONG = r
  BY PlaceOfBit
<1>3. test_bit(k * BITS_PER_LONG + r, b) <=> r \in b[k]
  BY <1>2, Zenon DEF test_bit
<1> QED
  BY <1>1, <1>3 DEF SetOf

\* What counts of a word is trimmed away only where it is beyond the size.
LEMMA TrimIs ==
  ASSUME NEW w, NEW k \in Long, NEW r \in InLong, k * BITS_PER_LONG + r < bits
  PROVE  r \in Trim(w, k) <=> r \in w
BY UsedIs DEF Trim

\* bitmap_shift_left() adds n to each bit, and those beyond the size are lost.
LEMMA LeftShifted ==
  ASSUME NEW b \in Words, NEW n \in Nat, n <= lim * BITS_PER_LONG
  PROVE  SetOf(bitmap_shift_left(b, n)) = {i + n : i \in SetOf(b)} \cap Bit
<1>1. PICK off \in Nat, rem \in InLong :
        off = n \div BITS_PER_LONG /\ rem = n % BITS_PER_LONG /\ n = off * BITS_PER_LONG + rem
  BY BitOfPlace
<1> DEFINE d == bitmap_shift_left(b, n)
<1>2. d = [k \in Long |-> IF k < off THEN {} ELSE NewWord(b, k, off, rem)]
  BY <1>1, LeftIs
<1>3. SetOf(b) \subseteq Bit /\ SetOf(d) \subseteq Bit
  BY DEF SetOf
<1>4. ASSUME NEW i \in Bit
      PROVE  i \in SetOf(d) <=> i - n \in SetOf(b)
  <2>1. PICK k \in Long, r \in InLong : i = k * BITS_PER_LONG + r
    BY BitsAreIn, BitOfPlace
  <2>2. k \in Nat /\ r \in Nat /\ rem \in Nat /\ i \in Nat /\ i < bits
    BY <2>1, BitsAreIn, Sizes DEF Long, InLong, Bit
  <2> HIDE DEF d
  <2>3. i \in SetOf(d) <=> r \in d[k]
    BY <2>1, <2>2, InSet
  <2>4. CASE k < off
    <3>1. d[k] = {}
      BY <1>2, <2>4
    <3>2. i < n
      <4>1. BITS_PER_LONG * k + BITS_PER_LONG <= BITS_PER_LONG * off
        BY <2>2, <2>4, Sizes, Multiples
      <4>2. /\ BITS_PER_LONG * k = k * BITS_PER_LONG /\ BITS_PER_LONG * off = off * BITS_PER_LONG
            /\ off * BITS_PER_LONG \in Nat /\ k * BITS_PER_LONG \in Nat
        BY <2>2, Sizes
      <4> QED
        BY <1>1, <2>1, <2>2, <4>1, <4>2, Sizes DEF InLong
    <3>3. i - n \notin Bit
      BY <2>2, <3>2, Sizes DEF Bit
    <3> QED
      BY <1>3, <2>3, <3>1, <3>3
  <2>5. CASE ~(k < off)
    <3>1. PICK m \in Nat : m = k - off
      BY <2>2, <2>5
    <3>2. k = m + off /\ m <= k /\ m \in Long
      BY <2>2, <3>1, Sizes DEF Long
    <3> DEFINE low == IF rem # 0 /\ m > 0 THEN b[m - 1] ELSE {}
               up == Trim(b[m], m)
    <3>3. d[k] = Trim(Shr(low, BITS_PER_LONG - rem) \cup Shl(up, rem), k)
      <4>1. d[k] = NewWord(b, k, off, rem)
        BY <1>2, <2>5
      <4>2. k - off = m
        BY <3>1
      <4> QED
        BY <4>1, <4>2 DEF NewWord
    <3>4. r \in d[k] <=> r \in Shr(low, BITS_PER_LONG - rem) \/ r \in Shl(up, rem)
      <4> HIDE DEF low, up
      <4> QED
        BY <2>1, <2>2, <3>3, TrimIs
    <3>5. k * BITS_PER_LONG = m * BITS_PER_LONG + off * BITS_PER_LONG /\ m * BITS_PER_LONG \in Nat
          /\ off * BITS_PER_LONG \in Nat
      BY <3>2, Sizes
    <3>6. i - n = m * BITS_PER_LONG + (r - rem)
      BY <1>1, <2>1, <2>2, <3>5, Sizes
    <3>7. CASE rem <= r
      <4>1. r - rem \in InLong
        BY <2>2, <3>7, Sizes DEF InLong
      <4>2. m * BITS_PER_LONG + (r - rem) < bits
        BY <1>1, <2>2, <3>5, <3>6, Sizes
      <4>3. i - n \in SetOf(b) <=> r - rem \in b[m]
        BY <3>6, <4>1, <4>2, InSet
      <4>4. r - rem \in up <=> r - rem \in b[m]
        BY <3>2, <4>1, <4>2, TrimIs
      <4>5. \A x \in low : x \in 0 .. BITS_PER_LONG - 1
        <5>1. m > 0 => m - 1 \in Long
          BY <3>2, Sizes DEF Long
        <5> QED
          BY <5>1 DEF Words, InLong
      <4>6. \A x \in up : x \in 0 .. BITS_PER_LONG - 1
        BY <3>2, WordTypes DEF Words, InLong
      <4> HIDE DEF low, up
      <4>7. ~(r \in Shr(low, BITS_PER_LONG - rem))
        BY <2>2, <3>7, <4>5, Sizes DEF Shr, InLong
      <4>8. r \in Shl(up, rem) <=> r - rem \in up
        BY <2>2, <4>6, Sizes DEF Shl
      <4> QED
        BY <2>3, <3>4, <4>3, <4>4, <4>7, <4>8
    <3>8. CASE r < rem
      <4>1. BITS_PER_LONG + r - rem \in InLong
        BY <2>2, <3>8, Sizes DEF InLong
      <4>2. \A x \in up : x \in 0 .. BITS_PER_LONG - 1
        BY <3>2, WordTypes DEF Words, InLong
      <4>3. ~(r \in Shl(up, rem))
        <5> HIDE DEF up
        <5> QED
          BY <2>2, <3>8, <4>2 DEF Shl
      <4>4. CASE m = 0
        <5>1. low = {}
          BY <4>4
        <5>2. ~(r \in Shr(low, BITS_PER_LONG - rem))
          BY <5>1 DEF Shr
        <5>3. i - n \notin Bit
          BY <2>2, <3>6, <3>8, <4>4, Sizes DEF Bit
        <5> QED
          BY <1>3, <2>3, <3>4, <4>3, <5>2, <5>3
      <4>5. CASE m > 0
        <5>1. PICK l \in Nat : m = l + 1
          <6>1. m - 1 \in Nat
            BY <4>5
          <6> QED
            BY <6>1
        <5>2. m - 1 = l /\ l \in Long
          BY <3>2, <5>1, Sizes DEF Long
        <5>3. low = b[l]
          BY <2>2, <3>8, <4>5, <5>2
        <5>4. m * BITS_PER_LONG = l * BITS_PER_LONG + BITS_PER_LONG /\ l * BITS_PER_LONG \in Nat
          BY <5>1, Sizes
        <5>5. i - n = l * BITS_PER_LONG + (BITS_PER_LONG + r - rem)
          BY <2>2, <3>6, <5>4, Sizes
        <5>6. l * BITS_PER_LONG + (BITS_PER_LONG + r - rem) < bits
          BY <1>1, <2>2, <3>5, <5>5, Sizes
        <5>7. i - n \in SetOf(b) <=> BITS_PER_LONG + r - rem \in b[l]
          BY <4>1, <5>5, <5>6, InSet
        <5>8. \A x \in b[l] : x \in 0 .. BITS_PER_LONG - 1
          BY <5>2 DEF Words, InLong
        <5>9. r \in Shr(b[l], BITS_PER_LONG - rem) <=> BITS_PER_LONG + r - rem \in b[l]
          BY <2>2, <5>8, Sizes DEF Shr
        <5> QED
          BY <2>3, <3>4, <4>3, <5>3, <5>7, <5>9
      <4> QED
        BY <4>4, <4>5
    <3> QED
      BY <2>2, <3>7, <3>8
  <2> QED
    BY <2>4, <2>5
<1>5. \A i \in SetOf(b) : i \in Int /\ (i + n) - n = i
  BY <1>3, Sizes DEF Bit
<1>6. \A i \in Bit : (i - n) + n = i
  BY Sizes DEF Bit
<1>7. \A i \in Bit : i - n \in SetOf(b) <=> i \in {x + n : x \in SetOf(b)}
  BY <1>5, <1>6
<1> HIDE DEF d
<1>8. SetOf(d) = {i + n : i \in SetOf(b)} \cap Bit
  BY <1>3, <1>4, <1>7
<1> QED
  BY <1>8 DEF d

-----------------------------------------------------------------------------
\* The bit that is bit r of word k.
At(k, r) == k * BITS_PER_LONG + r

\* Every bit of a bitmap has a place, and what counts of a word are the bits below the size.
LEMMA Everywhere ==
  /\ \A i \in Bit : \E k \in Long, r \in InLong : i = At(k, r)
  /\ \A k \in Long, r \in InLong : /\ At(k, r) \in Nat
                                   /\ r \in Used(k) <=> At(k, r) \in Bit
                                   /\ At(k, r) \in Bit <=> At(k, r) < bits
<1>1. ASSUME NEW i \in Bit
      PROVE  \E k \in Long, r \in InLong : i = At(k, r)
  BY BitsAreIn, BitOfPlace DEF At
<1>2. ASSUME NEW k \in Long, NEW r \in InLong
      PROVE  /\ At(k, r) \in Nat
             /\ r \in Used(k) <=> At(k, r) \in Bit
             /\ At(k, r) \in Bit <=> At(k, r) < bits
  <2>1. k \in Nat
    BY Sizes DEF Long
  <2>2. At(k, r) \in Nat
    BY <2>1, PlaceOfBit DEF At
  <2>3. At(k, r) \in Bit <=> At(k, r) < bits
    BY <2>2, Sizes DEF Bit
  <2>4. r \in Used(k) <=> At(k, r) < bits
    <3>1. CASE k = lim - 1
      <4>1. Used(k) = LAST_WORD_MASK(bits)
        BY <3>1, UsedIs
      <4>2. r \in LAST_WORD_MASK(bits) <=> (lim - 1) * BITS_PER_LONG + r < bits
        BY UsedIs
      <4> QED
        BY <3>1, <4>1, <4>2 DEF At
    <3>2. CASE k # lim - 1
      <4>1. Used(k) = InLong
        BY <3>2, UsedIs
      <4>2. PICK l \in Nat : l = lim - 1 /\ k < l /\ l * BITS_PER_LONG < bits
        BY <2>1, <3>2, Sizes DEF Long
      <4>3. BITS_PER_LONG * k + BITS_PER_LONG <= BITS_PER_LONG * l
        BY <2>1, <4>2, Sizes, Multiples
      <4>4. /\ BITS_PER_LONG * k = k * BITS_PER_LONG /\ k * BITS_PER_LONG \in Nat
            /\ BITS_PER_LONG * l = l * BITS_PER_LONG /\ l * BITS_PER_LONG \in Nat
        BY <2>1, <4>2, Sizes
      <4>5. k * BITS_PER_LONG + r < bits
        BY <4>2, <4>3, <4>4, Sizes DEF InLong
      <4> QED
        BY <4>1, <4>5 DEF At
    <3> QED
      BY <3>1, <3>2
  <2> QED
    BY <2>2, <2>3, <2>4
<1> QED
  BY <1>1, <1>2

\* A word of a bitmap has the bits of the set at its places, and nothing else counts of it.
LEMMA InWord ==
  ASSUME NEW b, NEW k \in Long, NEW r \in InLong
  PROVE  At(k, r) \in SetOf(b) <=> r \in b[k] /\ r \in Used(k)
<1>1. k \in Nat
  BY Sizes DEF Long
<1>2. r \in Used(k) <=> At(k, r) < bits
  BY Everywhere
<1>3. At(k, r) < bits => (At(k, r) \in SetOf(b) <=> r \in b[k])
  BY <1>1, InSet DEF At
<1>4. At(k, r) \in SetOf(b) => At(k, r) < bits
  BY Everywhere DEF SetOf
<1> QED
  BY <1>2, <1>3, <1>4

\* So a bitmap is the set S if each of its words has the bits of S.
LEMMA SetIs ==
  ASSUME NEW b, NEW S \in SUBSET Bit,
         \A k \in Long, r \in InLong :
           At(k, r) \in Bit => (r \in b[k] <=> At(k, r) \in S)
  PROVE  SetOf(b) = S
<1>1. SetOf(b) \subseteq Bit
  BY DEF SetOf
<1>2. ASSUME NEW i \in Bit
      PROVE  i \in SetOf(b) <=> i \in S
  <2>1. PICK k \in Long, r \in InLong : i = At(k, r)
    BY Everywhere
  <2>2. r \in Used(k)
    BY <2>1, Everywhere
  <2>3. At(k, r) \in SetOf(b) <=> r \in b[k]
    BY <2>2, InWord
  <2> QED
    BY <2>1, <2>3
<1> QED
  BY <1>1, <1>2

\* Clean bitmaps that are the same set are the same.
LEMMA CleanAreEqual ==
  ASSUME NEW b \in Words, NEW e \in Words, Clean(b), Clean(e), SetOf(b) = SetOf(e)
  PROVE  b = e
<1>1. ASSUME NEW k \in Long
      PROVE  b[k] = e[k]
  <2>1. b[k] \subseteq InLong /\ e[k] \subseteq InLong /\ b[k] \subseteq Used(k) /\ e[k] \subseteq Used(k)
    BY DEF Words, Clean
  <2>2. \A r \in InLong : r \in b[k] <=> r \in e[k]
    BY <2>1, InWord
  <2> QED
    BY <2>1, <2>2
<1> QED
  BY <1>1 DEF Words

\* Nothing and everything, and what a bitmap does not have.
LEMMA Constants ==
  /\ SetOf(bitmap_zero) = {} /\ Clean(bitmap_zero) /\ bitmap_zero \in Words
  /\ SetOf(bitmap_fill) = Bit /\ Clean(bitmap_fill) /\ bitmap_fill \in Words
<1>1. bitmap_zero \in Words /\ bitmap_fill \in Words
  BY UsedIs DEF Words, bitmap_zero, bitmap_fill
<1>2. \A k \in Long : bitmap_zero[k] = {} /\ bitmap_fill[k] = Used(k)
  <2>1. ASSUME NEW k \in Long
        PROVE  bitmap_fill[k] = Used(k)
    <3>1. k < lim - 1 <=> k # lim - 1
      BY Sizes DEF Long
    <3>2. bitmap_fill[k] = IF k < lim - 1 THEN InLong ELSE LAST_WORD_MASK(bits)
      BY DEF bitmap_fill
    <3> QED
      BY <3>1, <3>2, UsedIs
  <2> QED
    BY <2>1 DEF bitmap_zero
<1>3. Clean(bitmap_zero) /\ Clean(bitmap_fill)
  BY <1>2 DEF Clean
<1>4. SetOf(bitmap_zero) = {}
  BY <1>2, SetIs
<1>5. SetOf(bitmap_fill) = Bit
  <2>1. \A k \in Long, r \in InLong : At(k, r) \in Bit => r \in bitmap_fill[k]
    BY <1>2, Everywhere
  <2> QED
    BY <2>1, SetIs
<1> QED
  BY <1>1, <1>3, <1>4, <1>5

\* The operations on whole words are those on sets.
LEMMA Algebraic ==
  ASSUME NEW b \in Words, NEW e \in Words
  PROVE  /\ SetOf(bitmap_complement(b)) = Bit \ SetOf(b) /\ Clean(bitmap_complement(b))
         /\ SetOf(bitmap_or(b, e)) = SetOf(b) \cup SetOf(e)
         /\ SetOf(bitmap_xor(b, e)) = (SetOf(b) \ SetOf(e)) \cup (SetOf(e) \ SetOf(b))
         /\ SetOf(bitmap_and(b, e)) = SetOf(b) \cap SetOf(e)
         /\ SetOf(bitmap_andnot(b, e)) = SetOf(b) \ SetOf(e)
         /\ Clean(b) => Clean(bitmap_and(b, e)) /\ Clean(bitmap_andnot(b, e))
         /\ Clean(b) /\ Clean(e) => Clean(bitmap_or(b, e)) /\ Clean(bitmap_xor(b, e))
<1>1. SetOf(b) \subseteq Bit /\ SetOf(e) \subseteq Bit
  BY DEF SetOf
<1>2. \A k \in Long, r \in InLong :
        At(k, r) \in Bit => /\ r \in b[k] <=> At(k, r) \in SetOf(b)
                            /\ r \in e[k] <=> At(k, r) \in SetOf(e)
                            /\ r \in Used(k)
  BY InWord, Everywhere
<1>3. \A k \in Long : /\ bitmap_complement(b)[k] = (InLong \ b[k]) \cap Used(k)
                      /\ bitmap_or(b, e)[k] = b[k] \cup e[k]
                      /\ bitmap_xor(b, e)[k] = (b[k] \ e[k]) \cup (e[k] \ b[k])
                      /\ bitmap_and(b, e)[k] = b[k] \cap e[k]
                      /\ bitmap_andnot(b, e)[k] = b[k] \cap (InLong \ e[k])
  BY DEF bitmap_complement, Not, bitmap_or, bitmap_xor, Xor, bitmap_and, bitmap_andnot
<1>4. SetOf(bitmap_complement(b)) = Bit \ SetOf(b)
  <2>1. Bit \ SetOf(b) \in SUBSET Bit
    BY <1>1
  <2>2. \A k \in Long, r \in InLong :
          At(k, r) \in Bit => (r \in bitmap_complement(b)[k] <=> At(k, r) \in Bit \ SetOf(b))
    BY <1>2, <1>3
  <2> QED
    BY <2>1, <2>2, SetIs, Zenon
<1>5. SetOf(bitmap_or(b, e)) = SetOf(b) \cup SetOf(e)
  <2>1. SetOf(b) \cup SetOf(e) \in SUBSET Bit
    BY <1>1
  <2>2. \A k \in Long, r \in InLong :
          At(k, r) \in Bit => (r \in bitmap_or(b, e)[k] <=> At(k, r) \in SetOf(b) \cup SetOf(e))
    BY <1>2, <1>3
  <2> QED
    BY <2>1, <2>2, SetIs, Zenon
<1>6. SetOf(bitmap_xor(b, e)) = (SetOf(b) \ SetOf(e)) \cup (SetOf(e) \ SetOf(b))
  <2> DEFINE S == (SetOf(b) \ SetOf(e)) \cup (SetOf(e) \ SetOf(b))
  <2>1. S \in SUBSET Bit
    BY <1>1
  <2>2. \A k \in Long, r \in InLong :
          At(k, r) \in Bit => (r \in bitmap_xor(b, e)[k] <=> At(k, r) \in S)
    BY <1>2, <1>3
  <2> HIDE DEF S
  <2>3. SetOf(bitmap_xor(b, e)) = S
    BY <2>1, <2>2, SetIs
  <2> QED
    BY <2>3 DEF S
<1>7. SetOf(bitmap_and(b, e)) = SetOf(b) \cap SetOf(e)
  <2>1. SetOf(b) \cap SetOf(e) \in SUBSET Bit
    BY <1>1
  <2>2. \A k \in Long, r \in InLong :
          At(k, r) \in Bit => (r \in bitmap_and(b, e)[k] <=> At(k, r) \in SetOf(b) \cap SetOf(e))
    BY <1>2, <1>3
  <2> QED
    BY <2>1, <2>2, SetIs, Zenon
<1>8. SetOf(bitmap_andnot(b, e)) = SetOf(b) \ SetOf(e)
  <2>1. SetOf(b) \ SetOf(e) \in SUBSET Bit
    BY <1>1
  <2>2. \A k \in Long, r \in InLong :
          At(k, r) \in Bit => (r \in bitmap_andnot(b, e)[k] <=> At(k, r) \in SetOf(b) \ SetOf(e))
    BY <1>2, <1>3
  <2> QED
    BY <2>1, <2>2, SetIs, Zenon
<1>9. /\ Clean(bitmap_complement(b))
      /\ Clean(b) => Clean(bitmap_and(b, e)) /\ Clean(bitmap_andnot(b, e))
      /\ Clean(b) /\ Clean(e) => Clean(bitmap_or(b, e)) /\ Clean(bitmap_xor(b, e))
  BY <1>3 DEF Clean
<1> QED
  BY <1>4, <1>5, <1>6, <1>7, <1>8, <1>9

\* The questions about whole words are those about sets.
LEMMA Questions ==
  ASSUME NEW b \in Words, NEW e \in Words
  PROVE  /\ bitmap_empty(b) <=> SetOf(b) = {}
         /\ bitmap_full(b) <=> SetOf(b) = Bit
         /\ bitmap_equal(b, e) <=> SetOf(b) = SetOf(e)
         /\ bitmap_intersects(b, e) <=> SetOf(b) \cap SetOf(e) # {}
         /\ bitmap_subset(b, e) <=> SetOf(b) \subseteq SetOf(e)
<1>1. SetOf(b) \subseteq Bit /\ SetOf(e) \subseteq Bit
  BY DEF SetOf
<1>2. \A k \in Long, r \in InLong :
        /\ At(k, r) \in Bit <=> r \in Used(k)
        /\ At(k, r) \in SetOf(b) <=> r \in b[k] /\ r \in Used(k)
        /\ At(k, r) \in SetOf(e) <=> r \in e[k] /\ r \in Used(k)
  BY InWord, Everywhere
<1>3. \A i \in Bit : \E k \in Long, r \in InLong : i = At(k, r)
  BY Everywhere
<1>4. \A k \in Long : b[k] \subseteq InLong /\ e[k] \subseteq InLong
  BY DEF Words
<1>5. bitmap_empty(b) <=> SetOf(b) = {}
  BY <1>1, <1>2, <1>3, <1>4 DEF bitmap_empty
<1>6. bitmap_full(b) <=> SetOf(b) = Bit
  <2>1. bitmap_full(b) <=> \A k \in Long, r \in InLong : r \in Used(k) => r \in b[k]
    BY <1>4 DEF bitmap_full, Not
  <2> QED
    BY <1>1, <1>2, <1>3, <2>1
<1>7. bitmap_equal(b, e) <=> SetOf(b) = SetOf(e)
  <2>1. bitmap_equal(b, e) <=>
          \A k \in Long, r \in InLong : r \in Used(k) => (r \in b[k] <=> r \in e[k])
    BY <1>4 DEF bitmap_equal, Xor
  <2>2. SetOf(b) = SetOf(e) <=> \A i \in Bit : i \in SetOf(b) <=> i \in SetOf(e)
    BY <1>1
  <2>3. (\A i \in Bit : i \in SetOf(b) <=> i \in SetOf(e)) <=>
          \A k \in Long, r \in InLong : r \in Used(k) => (r \in b[k] <=> r \in e[k])
    BY <1>2, <1>3
  <2> QED
    BY <2>1, <2>2, <2>3
<1>8. bitmap_intersects(b, e) <=> SetOf(b) \cap SetOf(e) # {}
  <2>1. bitmap_intersects(b, e) <=>
          \E k \in Long, r \in InLong : r \in Used(k) /\ r \in b[k] /\ r \in e[k]
    BY <1>4 DEF bitmap_intersects
  <2> QED
    BY <1>1, <1>2, <1>3, <2>1
<1>9. bitmap_subset(b, e) <=> SetOf(b) \subseteq SetOf(e)
  <2>1. bitmap_subset(b, e) <=>
          \A k \in Long, r \in InLong : r \in Used(k) /\ r \in b[k] => r \in e[k]
    BY <1>4 DEF bitmap_subset, Not
  <2> QED
    BY <1>1, <1>2, <1>3, <2>1
<1> QED
  BY <1>5, <1>6, <1>7, <1>8, <1>9

-----------------------------------------------------------------------------
\* The bits of a word in a range are those of the range.
LEMMA InRange ==
  ASSUME NEW k \in Long, NEW r \in InLong, NEW start \in Nat, NEW nr \in Nat, start + nr <= bits
  PROVE  r \in RangeMask(k, start, nr) <=> At(k, r) \in start .. start + nr - 1
<1> DEFINE size == start + nr
<1>1. PICK a \in Nat, s \in InLong :
        a = start \div BITS_PER_LONG /\ s = start % BITS_PER_LONG /\ start = At(a, s)
  BY BitOfPlace DEF At
<1>2. PICK z \in Nat, e \in InLong :
        z = size \div BITS_PER_LONG /\ e = size % BITS_PER_LONG /\ size = At(z, e)
  BY BitOfPlace DEF At
<1>3. PICK m \in Nat : m = BITS_PER_LONG /\ m # 0
  BY Sizes
<1>4. k \in Nat /\ r \in 0 .. m - 1 /\ s \in 0 .. m - 1 /\ e \in 0 .. m - 1
  BY <1>3, Sizes DEF Long, InLong
<1>5. PICK km \in Nat, am \in Nat, zm \in Nat :
        /\ km = k * m /\ am = a * m /\ zm = z * m
        /\ (k + 1) * m = km + m
        /\ k < a => km + m <= am
        /\ a < k => am + m <= km
        /\ k < z => km + m <= zm
        /\ z < k => zm + m <= km
        /\ a = k => am = km
        /\ z = k => zm = km
  <2>1. k * m \in Nat /\ a * m \in Nat /\ z * m \in Nat /\ (k + 1) * m = k * m + m
    BY <1>4
  <2>2. \A x \in Nat, y \in Nat : x < y => x * m + m <= y * m
    <3>1. \A x \in Nat, y \in Nat : x < y => m * x + m <= m * y
      BY Multiples
    <3>2. \A x \in Nat : m * x = x * m
      OBVIOUS
    <3> QED
      BY <3>1, <3>2
  <2> QED
    BY <1>4, <2>1, <2>2
<1>6. At(k, r) = km + r /\ start = am + s /\ size = zm + e
  BY <1>1, <1>2, <1>3, <1>5 DEF At
<1> HIDE DEF size
<1>7. size = start + nr /\ size \in Nat
  BY DEF size
<1>8. FIRST_WORD_MASK(start) = s .. m - 1
  BY <1>1, <1>3 DEF FIRST_WORD_MASK
<1>9. LAST_WORD_MASK(size) = IF e = 0 THEN 0 .. m - 1 ELSE 0 .. e - 1
  BY <1>2, <1>3 DEF LAST_WORD_MASK, InLong
<1>10. r \in RangeMask(k, start, nr) <=>
         /\ k >= a /\ km < size
         /\ k = a => s <= r
         /\ km + m <= size \/ r \in LAST_WORD_MASK(size)
  <2>1. RangeMask(k, start, nr) =
          IF k >= a /\ km < size
          THEN (IF k = a THEN s .. m - 1 ELSE InLong)
                 \cap (IF km + m <= size THEN InLong ELSE LAST_WORD_MASK(size))
          ELSE {}
    BY <1>1, <1>3, <1>5, <1>7, <1>8, Zenon DEF RangeMask
  <2> QED
    BY <1>4, <2>1
<1>11. At(k, r) \in start .. start + nr - 1 <=> am + s <= km + r /\ km + r < size
  BY <1>4, <1>6, <1>7
<1>12. CASE k < a
  BY <1>4, <1>5, <1>6, <1>10, <1>11, <1>12
<1>13. CASE k = a
  <2>1. am = km
    BY <1>5, <1>13
  <2>2. s <= r <=> am + s <= km + r
    BY <1>4, <2>1
  <2>3. km < size /\ (km + m <= size \/ r \in LAST_WORD_MASK(size)) <=> km + r < size
    <3>1. CASE k < z
      BY <1>4, <1>5, <1>6, <1>9, <3>1
    <3>2. CASE k = z
      BY <1>4, <1>5, <1>6, <1>9, <3>2
    <3>3. CASE z < k
      BY <1>4, <1>5, <1>6, <1>9, <3>3
    <3> QED
      BY <1>4, <3>1, <3>2, <3>3
  <2> QED
    BY <1>4, <1>10, <1>11, <1>13, <2>2, <2>3
<1>14. CASE a < k
  <2>1. am + s <= km + r
    BY <1>4, <1>5, <1>14
  <2>3. km < size /\ (km + m <= size \/ r \in LAST_WORD_MASK(size)) <=> km + r < size
    <3>1. CASE k < z
      BY <1>4, <1>5, <1>6, <1>9, <3>1
    <3>2. CASE k = z
      BY <1>4, <1>5, <1>6, <1>9, <3>2
    <3>3. CASE z < k
      BY <1>4, <1>5, <1>6, <1>9, <3>3
    <3> QED
      BY <1>4, <3>1, <3>2, <3>3
  <2> QED
    BY <1>4, <1>10, <1>11, <1>14, <2>1, <2>3
<1> QED
  BY <1>4, <1>12, <1>13, <1>14

\* bitmap_set() and bitmap_clear() set and clear the bits of a range.
LEMMA RangesAre ==
  ASSUME NEW b \in Words, NEW start \in Nat, NEW nr \in Nat, start + nr <= bits
  PROVE  /\ SetOf(bitmap_set(b, start, nr)) = SetOf(b) \cup (start .. start + nr - 1)
         /\ SetOf(bitmap_clear(b, start, nr)) = SetOf(b) \ (start .. start + nr - 1)
         /\ Clean(b) => Clean(bitmap_set(b, start, nr)) /\ Clean(bitmap_clear(b, start, nr))
<1> DEFINE area == start .. start + nr - 1
<1>1. area \subseteq Bit /\ SetOf(b) \subseteq Bit
  BY Sizes DEF Bit, SetOf
<1>2. \A k \in Long, r \in InLong : /\ r \in RangeMask(k, start, nr) <=> At(k, r) \in area
                                    /\ At(k, r) \in SetOf(b) <=> r \in b[k] /\ r \in Used(k)
                                    /\ At(k, r) \in Bit <=> r \in Used(k)
  BY InRange, InWord, Everywhere
<1>3. \A k \in Long : /\ bitmap_set(b, start, nr)[k] = b[k] \cup RangeMask(k, start, nr)
                      /\ bitmap_clear(b, start, nr)[k] = b[k] \cap (InLong \ RangeMask(k, start, nr))
                      /\ RangeMask(k, start, nr) \subseteq InLong
  <2>1. \A k \in Long : RangeMask(k, start, nr) \subseteq InLong
    <3>1. bitmap_set(bitmap_zero, start, nr) \in Words
      BY Operations, Constants
    <3> QED
      BY <3>1 DEF Words, bitmap_set
  <2> QED
    BY <2>1 DEF bitmap_set, bitmap_clear, Not
<1> HIDE DEF area
<1>4. SetOf(bitmap_set(b, start, nr)) = SetOf(b) \cup area
  <2>1. SetOf(b) \cup area \in SUBSET Bit
    BY <1>1
  <2>2. \A k \in Long, r \in InLong :
          At(k, r) \in Bit => (r \in bitmap_set(b, start, nr)[k] <=> At(k, r) \in SetOf(b) \cup area)
    BY <1>2, <1>3
  <2> QED
    BY <2>1, <2>2, SetIs, Zenon
<1>5. SetOf(bitmap_clear(b, start, nr)) = SetOf(b) \ area
  <2>1. SetOf(b) \ area \in SUBSET Bit
    BY <1>1
  <2>2. \A k \in Long, r \in InLong :
          At(k, r) \in Bit => (r \in bitmap_clear(b, start, nr)[k] <=> At(k, r) \in SetOf(b) \ area)
    BY <1>2, <1>3
  <2> QED
    BY <2>1, <2>2, SetIs, Zenon
<1>6. \A k \in Long : RangeMask(k, start, nr) \subseteq Used(k)
  BY <1>1, <1>2, <1>3
<1>7. Clean(b) => Clean(bitmap_set(b, start, nr)) /\ Clean(bitmap_clear(b, start, nr))
  BY <1>3, <1>6 DEF Clean
<1> QED
  BY <1>4, <1>5, <1>7 DEF area

-----------------------------------------------------------------------------
\* Word m of a bitmap after bitmap_shift_right().
LowerWord(b, m, off, rem) ==
  Trim(Shl(IF rem = 0 \/ off + m + 1 >= lim THEN {} ELSE Trim(b[off + m + 1], off + m + 1),
           BITS_PER_LONG - rem)
         \cup Shr(Trim(b[off + m], off + m), rem), m)

\* The words are shifted from the first one up: those that are read have their old values.
LEMMA RightIs ==
  ASSUME NEW b \in Words, NEW n \in Nat, n <= lim * BITS_PER_LONG
  PROVE  LET off == n \div BITS_PER_LONG
             rem == n % BITS_PER_LONG
         IN  bitmap_shift_right(b, n) =
               [k \in Long |-> IF k >= lim - off THEN {} ELSE LowerWord(b, k, off, rem)]
<1>1. PICK off \in Nat, rem \in InLong :
        off = n \div BITS_PER_LONG /\ rem = n % BITS_PER_LONG /\ n = off * BITS_PER_LONG + rem
  BY BitOfPlace
<1>2. off <= lim
  <2>1. ASSUME lim < off
        PROVE  FALSE
    <3>1. BITS_PER_LONG * lim + BITS_PER_LONG <= BITS_PER_LONG * off
      BY <2>1, Sizes, Multiples
    <3>2. BITS_PER_LONG * lim = lim * BITS_PER_LONG /\ BITS_PER_LONG * off = off * BITS_PER_LONG
      BY Sizes
    <3>3. off * BITS_PER_LONG \in Nat /\ rem \in Nat
      BY Sizes DEF InLong
    <3> QED
      BY <1>1, <3>1, <3>2, <3>3, Sizes
  <2> QED
    BY <2>1, Sizes
<1>3. PICK w : RightWords(w, b, n, off, rem)
  BY <1>1, RightSteps, Zenon
<1>4. /\ w \in [Nat -> Words] /\ w[0] = b
      /\ \A j \in Nat : w[j + 1] = RightStep(w[j], j, off, rem)
      /\ bitmap_shift_right(b, n) = [k \in Long |-> IF k >= lim - off THEN {} ELSE w[lim - off][k]]
  BY <1>3 DEF RightWords
<1> DEFINE I(j) == \A m \in Long : w[j][m] = IF m < j THEN LowerWord(b, m, off, rem) ELSE b[m]
           S == {j \in Nat : j <= lim - off => I(j)}
<1>5. 0 \in S
  <2>1. \A m \in Long : ~(m < 0)
    BY Sizes DEF Long
  <2> QED
    BY <1>4, <2>1
<1>6. ASSUME NEW j \in Nat, j \in S
      PROVE  j + 1 \in S
  <2> SUFFICES ASSUME j + 1 <= lim - off
               PROVE  I(j + 1)
    OBVIOUS
  <2>1. I(j)
    <3>1. j <= lim - off
      BY Sizes
    <3> QED
      BY <1>6, <3>1
  <2>2. j \in Long
    BY Sizes DEF Long
  <2>3. w[j][off + j] = b[off + j]
    <3>1. off + j \in Long /\ ~(off + j < j)
      BY Sizes DEF Long
    <3> QED
      BY <2>1, <3>1
  <2>4. ~(off + j + 1 >= lim) => w[j][off + j + 1] = b[off + j + 1]
    <3>1. ~(off + j + 1 >= lim) => off + j + 1 \in Long /\ ~(off + j + 1 < j)
      BY Sizes DEF Long
    <3> QED
      BY <2>1, <3>1
  <2>5. w[j + 1] = [w[j] EXCEPT ![j] = LowerWord(b, j, off, rem)]
    <3>1. (IF rem = 0 \/ off + j + 1 >= lim THEN {} ELSE Trim(w[j][off + j + 1], off + j + 1)) =
            (IF rem = 0 \/ off + j + 1 >= lim THEN {} ELSE Trim(b[off + j + 1], off + j + 1))
      BY <2>4
    <3> QED
      BY <1>4, <2>3, <3>1, Zenon DEF RightStep, LowerWord
  <2>6. w[j] \in Words
    BY <1>4
  <2>7. ASSUME NEW l \in Long
        PROVE  w[j + 1][l] = IF l < j + 1 THEN LowerWord(b, l, off, rem) ELSE b[l]
    <3>1. CASE l = j
      BY <2>2, <2>5, <2>6, <3>1 DEF Words
    <3>2. CASE l # j
      <4>1. w[j + 1][l] = w[j][l]
        BY <2>5, <2>6, <3>2 DEF Words
      <4>2. l < j + 1 <=> l < j
        BY <3>2, Sizes DEF Long
      <4> QED
        BY <2>1, <4>1, <4>2
    <3> QED
      BY <3>1, <3>2
  <2> QED
    BY <2>7
<1>7. I(lim - off)
  <2>1. lim - off \in Nat
    BY <1>2, Sizes
  <2>2. Nat \subseteq S
    <3> HIDE DEF S
    <3> QED
      BY <1>5, <1>6, Induction
  <2> QED
    BY <2>1, <2>2
<1>8. ASSUME NEW k \in Long, ~(k >= lim - off)
      PROVE  w[lim - off][k] = LowerWord(b, k, off, rem)
  <2>1. k < lim - off
    BY <1>8, Sizes DEF Long
  <2> QED
    BY <1>7, <2>1
<1>9. bitmap_shift_right(b, n) =
        [k \in Long |-> IF k >= lim - off THEN {} ELSE LowerWord(b, k, off, rem)]
  BY <1>4, <1>8
<1> QED
  BY <1>1, <1>9

\* bitmap_shift_right() subtracts n from each bit, and those below 0 are lost.
LEMMA RightShifted ==
  ASSUME NEW b \in Words, NEW n \in Nat, n <= lim * BITS_PER_LONG
  PROVE  SetOf(bitmap_shift_right(b, n)) = {i - n : i \in SetOf(b)} \cap Bit
<1>1. PICK off \in Nat, rem \in InLong :
        off = n \div BITS_PER_LONG /\ rem = n % BITS_PER_LONG /\ n = off * BITS_PER_LONG + rem
  BY BitOfPlace
<1> DEFINE d == bitmap_shift_right(b, n)
<1>2. d = [k \in Long |-> IF k >= lim - off THEN {} ELSE LowerWord(b, k, off, rem)]
  BY <1>1, RightIs
<1>3. SetOf(b) \subseteq Bit /\ SetOf(d) \subseteq Bit
  BY DEF SetOf
<1>4. ASSUME NEW i \in Bit
      PROVE  i \in SetOf(d) <=> i + n \in SetOf(b)
  <2>1. PICK k \in Long, r \in InLong : i = At(k, r)
    BY Everywhere
  <2>2. /\ k \in Nat /\ r \in Nat /\ r < BITS_PER_LONG /\ rem \in Nat /\ rem < BITS_PER_LONG
        /\ i \in Nat /\ i < bits
    BY <2>1, Sizes DEF Long, InLong, Bit
  <2> HIDE DEF d
  <2>3. i \in SetOf(d) <=> r \in d[k]
    BY <2>1, InWord, Everywhere
  <2>4. PICK l \in Nat : l = k + off
    BY <2>2
  <2>5. l * BITS_PER_LONG = k * BITS_PER_LONG + off * BITS_PER_LONG
    BY <2>2, <2>4, Sizes
  <2>6. i + n = l * BITS_PER_LONG + (r + rem)
    <3>1. k * BITS_PER_LONG \in Nat /\ off * BITS_PER_LONG \in Nat
      BY <2>2, Sizes
    <3> QED
      BY <1>1, <2>1, <2>2, <2>5, <3>1 DEF At
  <2>7. ASSUME NEW m \in Nat, NEW s \in Nat, m >= lim, i + n = m * BITS_PER_LONG + s
        PROVE  i + n \notin SetOf(b)
    <3>1. lim * BITS_PER_LONG <= m * BITS_PER_LONG
      <4>1. CASE lim = m
        BY <4>1, Sizes
      <4>2. CASE lim < m
        <5>1. BITS_PER_LONG * lim + BITS_PER_LONG <= BITS_PER_LONG * m
          BY <4>2, Sizes, Multiples
        <5> QED
          BY <5>1, Sizes
      <4> QED
        BY <2>7, <4>1, <4>2, Sizes
    <3>2. m * BITS_PER_LONG \in Nat /\ lim * BITS_PER_LONG \in Nat
      BY Sizes
    <3>3. i + n >= bits /\ i + n \in Nat /\ bits \in Nat
      BY <2>7, <3>1, <3>2, Sizes
    <3>4. \A x \in Bit : x \in Nat /\ x < bits
      BY Sizes DEF Bit
    <3> QED
      BY <1>3, <2>2, <3>3, <3>4
  <2>8. CASE k >= lim - off
    <3>1. l >= lim
      BY <2>2, <2>4, <2>8, Sizes
    <3>2. d[k] = {}
      BY <1>2, <2>8
    <3>3. i + n \notin SetOf(b)
      BY <2>2, <2>6, <2>7, <3>1
    <3> QED
      BY <2>3, <3>2, <3>3
  <2>9. CASE ~(k >= lim - off)
    <3>1. l \in Long /\ off + k = l /\ off + k + 1 = l + 1
      BY <2>2, <2>4, <2>9, Sizes DEF Long
    <3> DEFINE up == IF rem = 0 \/ l + 1 >= lim THEN {} ELSE Trim(b[l + 1], l + 1)
               low == Trim(b[l], l)
    <3>2. d[k] = Trim(Shl(up, BITS_PER_LONG - rem) \cup Shr(low, rem), k)
      <4>1. d[k] = LowerWord(b, k, off, rem)
        BY <1>2, <2>9
      <4> QED
        BY <3>1, <4>1, Zenon DEF LowerWord
    <3>3. r \in d[k] <=> r \in Shl(up, BITS_PER_LONG - rem) \/ r \in Shr(low, rem)
      <4>1. k * BITS_PER_LONG + r < bits
        BY <2>1, <2>2 DEF At
      <4> HIDE DEF low, up
      <4> QED
        BY <3>2, <4>1, TrimIs
    <3>4. \A x \in up : x \in 0 .. BITS_PER_LONG - 1
      <4>1. ~(l + 1 >= lim) => l + 1 \in Long
        BY <3>1, Sizes DEF Long
      <4> QED
        BY <4>1, WordTypes DEF Words, InLong
    <3>5. \A x \in low : x \in 0 .. BITS_PER_LONG - 1
      BY <3>1, WordTypes DEF Words, InLong
    <3>6. \A m \in Long, s \in InLong : s \in Trim(b[m], m) <=> At(m, s) \in SetOf(b)
      <4> TAKE m \in Long, s \in InLong
      <4>1. b[m] \subseteq InLong
        BY DEF Words
      <4>2. s \in Trim(b[m], m) <=> s \in b[m] /\ s \in Used(m)
        BY UsedIs DEF Trim
      <4> QED
        BY <4>2, InWord
    <3>7. r \in Shl(up, BITS_PER_LONG - rem) <=> r + rem - BITS_PER_LONG \in up
      <4> HIDE DEF up
      <4> QED
        BY <2>2, <3>4, Sizes DEF Shl, InLong
    <3>8. r \in Shr(low, rem) <=> r + rem \in low
      <4> HIDE DEF low
      <4> QED
        BY <2>2, <3>5, Sizes DEF Shr, InLong
    <3>9. CASE r + rem < BITS_PER_LONG
      <4>1. r + rem \in InLong /\ ~(r + rem - BITS_PER_LONG \in 0 .. BITS_PER_LONG - 1)
        BY <2>2, <3>9, Sizes DEF InLong
      <4>2. r + rem \in low <=> i + n \in SetOf(b)
        BY <2>6, <3>1, <3>6, <4>1 DEF At
      <4> HIDE DEF low, up
      <4> QED
        BY <2>3, <3>3, <3>4, <3>7, <3>8, <4>1, <4>2
    <3>10. CASE r + rem >= BITS_PER_LONG
      <4>1. PICK s \in Nat : s = r + rem - BITS_PER_LONG
        BY <2>2, <3>10, Sizes
      <4>2. s \in InLong /\ ~(r + rem \in 0 .. BITS_PER_LONG - 1) /\ rem # 0
        BY <2>2, <3>10, <4>1, Sizes DEF InLong
      <4>3. i + n = (l + 1) * BITS_PER_LONG + s
        <5>1. (l + 1) * BITS_PER_LONG = l * BITS_PER_LONG + BITS_PER_LONG
          BY Sizes
        <5>2. l * BITS_PER_LONG \in Nat
          BY Sizes
        <5> QED
          BY <2>2, <2>6, <4>1, <5>1, <5>2, Sizes
      <4>4. s \in up <=> i + n \in SetOf(b)
        <5>1. CASE l + 1 >= lim
          <6>1. l + 1 \in Nat
            OBVIOUS
          <6> QED
            BY <2>7, <4>3, <5>1, <6>1
        <5>2. CASE ~(l + 1 >= lim)
          <6>1. l + 1 \in Long
            BY <5>2, Sizes DEF Long
          <6>2. up = Trim(b[l + 1], l + 1)
            BY <4>2, <5>2
          <6>3. i + n = At(l + 1, s)
            BY <4>3 DEF At
          <6> QED
            BY <3>6, <4>2, <6>1, <6>2, <6>3
        <5> QED
          BY <5>1, <5>2
      <4> HIDE DEF low, up
      <4> QED
        BY <2>3, <3>3, <3>5, <3>7, <3>8, <4>1, <4>2, <4>4
    <3> QED
      BY <2>2, <3>9, <3>10, Sizes
  <2> QED
    BY <2>8, <2>9
<1>5. \A i \in SetOf(b) : i \in Int /\ (i - n) + n = i
  BY <1>3, Sizes DEF Bit
<1>6. \A i \in Bit : (i + n) - n = i
  BY Sizes DEF Bit
<1>7. \A i \in Bit : i + n \in SetOf(b) <=> i \in {x - n : x \in SetOf(b)}
  BY <1>5, <1>6
<1> HIDE DEF d
<1>8. SetOf(d) = {i - n : i \in SetOf(b)} \cap Bit
  BY <1>3, <1>4, <1>7
<1> QED
  BY <1>8 DEF d

-----------------------------------------------------------------------------
\* The masks of a search leave the bits of a word that are in the range that is searched.
LEMMA SearchMask ==
  ASSUME NEW k \in Long, NEW offset \in Nat, NEW size \in Nat, offset < size, size <= bits
  PROVE  LET first == offset \div BITS_PER_LONG
             last == (size - 1) \div BITS_PER_LONG
             mask == RangeMask(k, offset, size - offset)
         IN  IF k \in first .. last
             THEN (IF k = first THEN FIRST_WORD_MASK(offset) ELSE InLong)
                    \cap (IF k = last THEN LAST_WORD_MASK(size) ELSE InLong) = mask
             ELSE mask = {}
<1>1. PICK f \in Nat : f = offset \div BITS_PER_LONG
  BY BitOfPlace
<1>2. PICK q \in Nat, t \in InLong :
        q = (size - 1) \div BITS_PER_LONG /\ size - 1 = q * BITS_PER_LONG + t
  <2>1. size - 1 \in Nat
    OBVIOUS
  <2> QED
    BY <2>1, BitOfPlace
<1>3. PICK m \in Nat : m = BITS_PER_LONG /\ m # 0
  BY Sizes
<1>4. k \in Nat /\ t \in 0 .. m - 1
  BY <1>3, Sizes DEF Long, InLong
<1>5. PICK km \in Nat, qm \in Nat :
        /\ km = k * m /\ qm = q * m /\ (k + 1) * m = km + m /\ (q + 1) * m = qm + m
        /\ k < q => km + m <= qm
        /\ q < k => qm + m <= km
        /\ k = q => km = qm
  <2>1. k * m \in Nat /\ q * m \in Nat /\ (k + 1) * m = k * m + m /\ (q + 1) * m = q * m + m
    BY <1>4
  <2>2. \A x \in Nat, y \in Nat : x < y => x * m + m <= y * m
    <3>1. \A x \in Nat, y \in Nat : x < y => m * x + m <= m * y
      BY Multiples
    <3>2. \A x \in Nat : m * x = x * m
      OBVIOUS
    <3> QED
      BY <3>1, <3>2
  <2> QED
    BY <1>4, <2>1, <2>2
<1>6. size = qm + t + 1
  BY <1>2, <1>3, <1>4, <1>5
<1>7. km < size <=> k <= q
  BY <1>4, <1>5, <1>6
<1>8. km + m <= size <=> k < q \/ (k = q /\ t = m - 1)
  BY <1>4, <1>5, <1>6
<1>9. t = m - 1 => LAST_WORD_MASK(size) = InLong
  <2>1. ASSUME t = m - 1
        PROVE  size % BITS_PER_LONG = 0
    <3>1. size = (q + 1) * BITS_PER_LONG + 0
      BY <1>3, <1>4, <1>5, <1>6, <2>1
    <3>2. 0 \in InLong /\ q + 1 \in Nat
      BY Sizes DEF InLong
    <3> QED
      BY <3>1, <3>2, PlaceOfBit
  <2> QED
    BY <2>1 DEF LAST_WORD_MASK
<1>10. offset + (size - offset) = size
  OBVIOUS
<1>11. RangeMask(k, offset, size - offset) =
         IF k >= f /\ km < size
         THEN (IF k = f THEN FIRST_WORD_MASK(offset) ELSE InLong)
                \cap (IF km + m <= size THEN InLong ELSE LAST_WORD_MASK(size))
         ELSE {}
  BY <1>1, <1>3, <1>5, <1>10, Zenon DEF RangeMask
<1>12. k \in f .. q <=> k >= f /\ k <= q
  BY <1>4
<1> DEFINE A == IF k = f THEN FIRST_WORD_MASK(offset) ELSE InLong
<1>13. k \in f .. q => A \cap (IF k = q THEN LAST_WORD_MASK(size) ELSE InLong) =
                         RangeMask(k, offset, size - offset)
  <2>1. k <= q => (IF k = q THEN LAST_WORD_MASK(size) ELSE InLong) =
                    (IF km + m <= size THEN InLong ELSE LAST_WORD_MASK(size))
    <3>1. k <= q => k < q \/ k = q
      BY <1>4
    <3> QED
      BY <1>8, <1>9, <3>1
  <2> QED
    BY <1>7, <1>11, <1>12, <2>1
<1>14. k \notin f .. q => RangeMask(k, offset, size - offset) = {}
  BY <1>7, <1>11, <1>12
<1> QED
  BY <1>1, <1>2, <1>13, <1>14

\* r is the first of the members of S from offset on and below size, or else the size.
IsFirst(r, S, size, offset) ==
  /\ r \in Nat
  /\ r = size \/ (r \in S /\ offset <= r /\ r < size)
  /\ \A x \in S : offset <= x /\ x < size => r <= x

\* A search finds the first bit of the range that is searched.
LEMMA NextBitIs ==
  ASSUME NEW b \in Words, NEW offset \in Nat, NEW size \in Nat, size <= bits
  PROVE  IsFirst(NextBit(b, size, offset), SetOf(b), size, offset)
<1>0. \A x \in SetOf(b) : x \in Nat /\ x < bits
  BY Sizes DEF SetOf, Bit
<1>1. CASE offset >= size
  <2>1. NextBit(b, size, offset) = size
    BY <1>1 DEF NextBit
  <2> QED
    BY <1>0, <1>1, <2>1 DEF IsFirst
<1>2. CASE offset < size
  <2> DEFINE first == offset \div BITS_PER_LONG
             last == (size - 1) \div BITS_PER_LONG
             tmp(k) == b[k] \cap (IF k = first THEN FIRST_WORD_MASK(offset) ELSE InLong)
                            \cap (IF k = last THEN LAST_WORD_MASK(size) ELSE InLong)
             found == {k \in first .. last : tmp(k) # {}}
  <2>1. NextBit(b, size, offset) =
          IF found = {} THEN size ELSE Min(found) * BITS_PER_LONG + Min(tmp(Min(found)))
    <3>1. ~(offset >= size)
      BY <1>2
    <3> QED
      BY <3>1, Zenon DEF NextBit
  <2>2. first .. last \subseteq Long
    <3>1. first \in Nat
      BY BitOfPlace
    <3>2. size - 1 \in Bit
      BY <1>2, Sizes DEF Bit
    <3>3. last \in Long
      BY <3>2, BitsAreIn
    <3> HIDE DEF first, last
    <3> QED
      BY <3>1, <3>3, Sizes DEF Long
  <2>3. ASSUME NEW k \in Long, NEW r \in InLong
        PROVE  k \in first .. last /\ r \in tmp(k) <=>
                 At(k, r) \in SetOf(b) /\ offset <= At(k, r) /\ At(k, r) < size
    <3> DEFINE mask == RangeMask(k, offset, size - offset)
    <3>1. IF k \in first .. last
          THEN (IF k = first THEN FIRST_WORD_MASK(offset) ELSE InLong)
                 \cap (IF k = last THEN LAST_WORD_MASK(size) ELSE InLong) = mask
          ELSE mask = {}
      BY <1>2, SearchMask
    <3>2. k \in first .. last /\ r \in tmp(k) <=> r \in b[k] /\ r \in mask
      <4> HIDE DEF mask, first, last
      <4> QED
        BY <3>1
    <3>3. r \in mask <=> offset <= At(k, r) /\ At(k, r) < size
      <4>1. size - offset \in Nat /\ offset + (size - offset) = size
        BY <1>2
      <4>2. r \in mask <=> At(k, r) \in offset .. size - 1
        BY <4>1, InRange
      <4>3. At(k, r) \in Nat
        BY Everywhere
      <4> HIDE DEF mask
      <4> QED
        BY <4>2, <4>3
    <3>4. At(k, r) < size => (r \in b[k] <=> At(k, r) \in SetOf(b))
      <4>1. At(k, r) < size => At(k, r) < bits
        BY Everywhere, Sizes
      <4> QED
        BY <4>1, InWord, Everywhere
    <3> HIDE DEF mask, tmp, first, last
    <3> QED
      BY <3>2, <3>3, <3>4
  <2>4. \A k \in Long : tmp(k) \subseteq InLong
    BY DEF Words
  <2>5. ASSUME NEW x \in SetOf(b), offset <= x, x < size
        PROVE  \E k \in Long, r \in InLong : k \in found /\ r \in tmp(k) /\ x = At(k, r)
    <3>1. PICK k \in Long, r \in InLong : x = At(k, r)
      BY Everywhere DEF SetOf
    <3>2. k \in first .. last /\ r \in tmp(k)
      BY <2>3, <2>5, <3>1
    <3> HIDE DEF first, last, tmp
    <3> QED
      BY <3>1, <3>2
  <2>6. found \subseteq first .. last /\ \A k \in found : tmp(k) # {}
    BY Zenon
  <2> HIDE DEF first, last, tmp
  <2>7. CASE found = {}
    <3>1. NextBit(b, size, offset) = size
      BY <2>1, <2>7
    <3> QED
      BY <2>5, <2>7, <3>1 DEF IsFirst
  <2>8. CASE found # {}
    <3>1. PICK k \in Long : k = Min(found) /\ k \in found /\ \A l \in found : k <= l
      <4>1. found \subseteq Long /\ found \subseteq Nat
        BY <2>2, <2>6, Sizes DEF Long
      <4> HIDE DEF found
      <4> QED
        BY <2>8, <4>1, MinOfNat
    <3>2. PICK r \in InLong : r = Min(tmp(k)) /\ r \in tmp(k) /\ \A s \in tmp(k) : r <= s
      <4>1. tmp(k) \subseteq InLong
        BY <2>4
      <4>2. InLong \subseteq Nat
        BY Sizes DEF InLong
      <4>3. tmp(k) # {}
        BY <2>6, <3>1
      <4> QED
        BY <4>1, <4>2, <4>3, MinOfNat
    <3>3. NextBit(b, size, offset) = At(k, r)
      BY <2>1, <2>8, <3>1, <3>2 DEF At
    <3>4. k \in first .. last
      BY <2>6, <3>1
    <3>5. At(k, r) \in SetOf(b) /\ offset <= At(k, r) /\ At(k, r) < size
      BY <2>3, <3>2, <3>4
    <3>6. ASSUME NEW x \in SetOf(b), offset <= x, x < size
          PROVE  At(k, r) <= x
      <4>1. PICK l \in Long, s \in InLong : l \in found /\ s \in tmp(l) /\ x = At(l, s)
        BY <2>5, <3>6
      <4>0. k <= l
        BY <3>1, <4>1
      <4>2. k \in Nat /\ l \in Nat /\ r \in Nat /\ s \in Nat /\ r < BITS_PER_LONG /\ k <= l
        BY <4>0, Sizes DEF Long, InLong
      <4>3. CASE k = l
        <5>1. r <= s
          BY <3>2, <4>1, <4>3
        <5>2. k * BITS_PER_LONG \in Nat
          BY <4>2, Sizes
        <5> QED
          BY <4>1, <4>2, <4>3, <5>1, <5>2 DEF At
      <4>4. CASE k < l
        <5>1. BITS_PER_LONG * k + BITS_PER_LONG <= BITS_PER_LONG * l
          BY <4>2, <4>4, Sizes, Multiples
        <5>2. /\ BITS_PER_LONG * k = k * BITS_PER_LONG /\ BITS_PER_LONG * l = l * BITS_PER_LONG
              /\ k * BITS_PER_LONG \in Nat /\ l * BITS_PER_LONG \in Nat
          BY <4>2, Sizes
        <5> QED
          BY <4>1, <4>2, <5>1, <5>2, Sizes DEF At
      <4> QED
        BY <4>2, <4>3, <4>4
    <3>7. At(k, r) \in Nat
      BY Everywhere
    <3> QED
      BY <3>3, <3>5, <3>6, <3>7 DEF IsFirst
  <2> QED
    BY <2>7, <2>8
<1> QED
  BY <1>1, <1>2

\* The words of which the zero bits are searched are those of the complement.
LEMMA ZeroWords ==
  ASSUME NEW b \in Words
  PROVE  /\ [k \in Long |-> Not(b[k])] \in Words
         /\ SetOf([k \in Long |-> Not(b[k])]) = Bit \ SetOf(b)
<1> DEFINE z == [k \in Long |-> Not(b[k])]
<1>1. z \in Words /\ \A k \in Long : z[k] = InLong \ b[k]
  BY DEF Words, Not
<1> HIDE DEF z
<1>2. Bit \ SetOf(b) \in SUBSET Bit
  OBVIOUS
<1>3. \A k \in Long, r \in InLong :
        At(k, r) \in Bit => (r \in z[k] <=> At(k, r) \in Bit \ SetOf(b))
  BY <1>1, InWord, Everywhere
<1>4. SetOf(z) = Bit \ SetOf(b)
  BY <1>2, <1>3, SetIs, Zenon
<1> QED
  BY <1>1, <1>4 DEF z

\* What the searches for a bit and for a zero bit find.
LEMMA SearchesFind ==
  ASSUME NEW b \in Words, NEW offset \in Nat, NEW size \in Nat, size <= bits
  PROVE  /\ IsFirst(find_next_bit(b, size, offset), SetOf(b), size, offset)
         /\ IsFirst(find_next_zero_bit(b, size, offset), Bit \ SetOf(b), size, offset)
<1>1. IsFirst(find_next_bit(b, size, offset), SetOf(b), size, offset)
  BY NextBitIs DEF find_next_bit
<1> DEFINE z == [k \in Long |-> Not(b[k])]
<1>2. z \in Words /\ SetOf(z) = Bit \ SetOf(b)
  BY ZeroWords
<1>3. find_next_zero_bit(b, size, offset) = NextBit(z, size, offset)
  BY DEF find_next_zero_bit
<1> HIDE DEF z
<1>4. IsFirst(NextBit(z, size, offset), SetOf(z), size, offset)
  BY <1>2, NextBitIs
<1> QED
  BY <1>1, <1>2, <1>3, <1>4

\* What is found in a whole bitmap is the Min() of the bits from offset on and the size.
LEMMA FirstIs ==
  ASSUME NEW r, NEW S \in SUBSET Bit, NEW offset \in Nat, IsFirst(r, S, bits, offset)
  PROVE  r = Min({i \in S : i >= offset} \cup {bits})
<1>1. \A x \in S : x \in Nat /\ x < bits
  BY Sizes DEF Bit
<1>2. bits \in Nat
  BY Sizes
<1> DEFINE T == {i \in S : i >= offset} \cup {bits}
<1>3. T \subseteq Int
  BY <1>1, <1>2
<1>4. r \in T /\ \A x \in T : r <= x
  BY <1>1, <1>2 DEF IsFirst
<1> HIDE DEF T
<1>5. Min(T) = r
  BY <1>3, <1>4, MinIs
<1> QED
  BY <1>5 DEF T

-----------------------------------------------------------------------------
\* s lists the numbers of S in ascending order.
Lists(s, S) ==
  /\ S \subseteq Nat
  /\ s \in Seq(S)
  /\ \A m \in 1 .. Len(s), n \in 1 .. Len(s) : m < n => s[m] < s[n]
  /\ \A x \in S : \E m \in 1 .. Len(s) : s[m] = x

\* A smaller number comes first.
LEMMA ListsMore ==
  ASSUME NEW s, NEW S, Lists(s, S), NEW i \in Nat, \A x \in S : i < x
  PROVE  Lists(<< i >> \o s, {i} \cup S)
<1>0. S \subseteq Nat /\ s \in Seq(S)
  BY DEF Lists
<1> DEFINE T == {i} \cup S
           t == << i >> \o s
<1>1. << i >> \in Seq(T) /\ s \in Seq(T) /\ Len(<< i >>) = 1 /\ << i >>[1] = i /\ Len(s) \in Nat
  BY <1>0
<1>2. /\ t \in Seq(T) /\ Len(t) = 1 + Len(s)
      /\ \A m \in 1 .. 1 + Len(s) : t[m] = IF m <= 1 THEN << i >>[m] ELSE s[m - 1]
  <2> HIDE DEF T
  <2> QED
    BY <1>1, ConcatProperties
<1> HIDE DEF t
<1>3. t[1] = i /\ \A m \in 1 .. Len(s) : t[m + 1] = s[m]
  <2>1. 1 \in 1 .. 1 + Len(s)
    BY <1>1
  <2>2. \A m \in 1 .. Len(s) : m + 1 \in 1 .. 1 + Len(s) /\ ~(m + 1 <= 1) /\ (m + 1) - 1 = m
    BY <1>1
  <2> QED
    BY <1>1, <1>2, <2>1, <2>2
<1>4. \A m \in 1 .. Len(s) : s[m] \in S
  BY <1>0
<1>5. ASSUME NEW m \in 1 .. Len(t), NEW n \in 1 .. Len(t), m < n
      PROVE  t[m] < t[n]
  <2>1. PICK q \in 1 .. Len(s) : n = q + 1
    <3>1. n - 1 \in 1 .. Len(s) /\ n = (n - 1) + 1
      BY <1>1, <1>2, <1>5
    <3> QED
      BY <3>1
  <2>2. CASE m = 1
    BY <1>3, <1>4, <2>1, <2>2
  <2>3. CASE m # 1
    <3>1. PICK p \in 1 .. Len(s) : m = p + 1
      <4>1. m - 1 \in 1 .. Len(s) /\ m = (m - 1) + 1
        BY <1>1, <1>2, <2>3
      <4> QED
        BY <4>1
    <3>2. p < q
      BY <1>5, <2>1, <3>1
    <3> QED
      BY <1>3, <2>1, <3>1, <3>2 DEF Lists
  <2> QED
    BY <2>2, <2>3
<1>6. ASSUME NEW x \in T
      PROVE  \E m \in 1 .. Len(t) : t[m] = x
  <2>1. CASE x = i
    <3>1. 1 \in 1 .. Len(t)
      BY <1>1, <1>2
    <3> QED
      BY <1>3, <2>1, <3>1
  <2>2. CASE x \in S
    <3>1. PICK m \in 1 .. Len(s) : s[m] = x
      BY <2>2 DEF Lists
    <3>2. m + 1 \in 1 .. Len(t)
      BY <1>1, <1>2
    <3> QED
      BY <1>3, <3>1, <3>2
  <2> QED
    BY <2>1, <2>2
<1>7. T \subseteq Nat
  BY <1>0
<1> HIDE DEF T
<1>8. Lists(t, T)
  BY <1>2, <1>5, <1>6, <1>7 DEF Lists
<1> QED
  BY <1>8 DEF t, T

\* The place of a number in a list is how many numbers of the set are less.
LEMMA ListCounts ==
  ASSUME NEW s, NEW S, Lists(s, S)
  PROVE  /\ IsFiniteSet(S) /\ Cardinality(S) = Len(s)
         /\ \A m \in 1 .. Len(s) : Cardinality({i \in S : i < s[m]}) = m - 1
<1>1. /\ S \subseteq Nat /\ s \in Seq(S) /\ Len(s) \in Nat /\ s \in [1 .. Len(s) -> S]
      /\ \A m \in 1 .. Len(s), n \in 1 .. Len(s) : m < n => s[m] < s[n]
      /\ \A x \in S : \E m \in 1 .. Len(s) : s[m] = x
  BY DEF Lists
<1>2. \A m \in 1 .. Len(s) : s[m] \in S
  BY <1>1
<1>3. ASSUME NEW m \in 1 .. Len(s), NEW n \in 1 .. Len(s)
      PROVE  s[m] < s[n] <=> m < n
  <2>1. CASE m < n
    BY <1>1, <2>1
  <2>2. CASE m = n
    <3>1. s[m] \in Nat
      BY <1>1, <1>2
    <3>2. ~(s[m] < s[m]) /\ ~(m < m)
      BY <1>1, <3>1
    <3> QED
      BY <2>2, <3>2, Zenon
  <2>3. CASE n < m
    <3>1. s[n] < s[m] /\ s[n] \in Nat /\ s[m] \in Nat
      BY <1>1, <1>2, <2>3
    <3> QED
      BY <2>3, <3>1
  <2> QED
    BY <2>1, <2>2, <2>3
<1>4. \A m \in 1 .. Len(s), n \in 1 .. Len(s) : s[m] = s[n] => m = n
  <2> TAKE m \in 1 .. Len(s), n \in 1 .. Len(s)
  <2> HAVE s[m] = s[n]
  <2>1. s[m] \in Nat
    BY <1>1, <1>2
  <2>2. ~(m < n) /\ ~(n < m)
    BY <1>3, <2>1
  <2> QED
    BY <2>2
<1>5. ASSUME NEW k \in 0 .. Len(s), NEW U, U \subseteq S,
             \A m \in 1 .. Len(s) : s[m] \in U <=> m <= k
      PROVE  IsFiniteSet(U) /\ Cardinality(U) = k
  <2> DEFINE f == [m \in 1 .. k |-> s[m]]
  <2>1. \A m \in 1 .. k : m \in 1 .. Len(s) /\ s[m] \in U
    BY <1>1, <1>5
  <2>2. f \in [1 .. k -> U]
    BY <2>1
  <2>3. \A m \in 1 .. k, n \in 1 .. k : f[m] = f[n] => m = n
    BY <1>4, <2>1
  <2>4. ASSUME NEW x \in U
        PROVE  \E m \in 1 .. k : f[m] = x
    <3>1. PICK m \in 1 .. Len(s) : s[m] = x
      BY <1>1, <1>5
    <3>2. m \in 1 .. k
      BY <1>5, <3>1
    <3> QED
      BY <3>1, <3>2
  <2> HIDE DEF f
  <2>5. f \in Bijection(1 .. k, U)
    <3>1. f \in Injection(1 .. k, U)
      BY <2>2, <2>3 DEF Injection, IsInjective
    <3>2. f \in Surjection(1 .. k, U)
      BY <2>2, <2>4 DEF Surjection
    <3> QED
      BY <3>1, <3>2 DEF Bijection
  <2>6. ExistsBijection(1 .. k, U)
    BY <2>5 DEF ExistsBijection
  <2>7. k \in Int /\ 1 \in Int
    BY <1>1
  <2>8. IsFiniteSet(1 .. k) /\ Cardinality(1 .. k) = IF 1 > k THEN 0 ELSE k - 1 + 1
    BY <2>7, FS_Interval
  <2>9. Cardinality(1 .. k) = k
    BY <1>1, <2>8
  <2> QED
    BY <2>6, <2>8, <2>9, FS_Bijection
<1>6. IsFiniteSet(S) /\ Cardinality(S) = Len(s)
  <2>1. Len(s) \in 0 .. Len(s)
    BY <1>1
  <2>2. \A m \in 1 .. Len(s) : s[m] \in S <=> m <= Len(s)
    BY <1>2
  <2> QED
    BY <1>5, <2>1, <2>2
<1>7. ASSUME NEW m \in 1 .. Len(s)
      PROVE  Cardinality({i \in S : i < s[m]}) = m - 1
  <2> DEFINE U == {i \in S : i < s[m]}
  <2>1. m - 1 \in 0 .. Len(s)
    BY <1>1
  <2>2. U \subseteq S
    OBVIOUS
  <2>3. \A n \in 1 .. Len(s) : s[n] \in U <=> n <= m - 1
    <3>1. \A n \in 1 .. Len(s) : n < m <=> n <= m - 1
      BY <1>1
    <3> QED
      BY <1>2, <1>3, <3>1
  <2> HIDE DEF U
  <2>4. Cardinality(U) = m - 1
    BY <1>5, <2>1, <2>2, <2>3
  <2> QED
    BY <2>4 DEF U
<1> QED
  BY <1>6, <1>7

\* for_each_set_bit() sees the bits of a bitmap in ascending order.
LEMMA SeesAll ==
  ASSUME NEW b \in Words
  PROVE  Lists(for_each_set_bit(b), SetOf(b))
<1> DEFINE following(i) == find_next_bit(b, bits, i + 1)
           Body(h) == [i \in 0 .. bits |-> IF i >= bits THEN << >> ELSE << i >> \o h[following(i)]]
           from == CHOOSE h : h = Body(h)
           G == [i \in 0 .. bits |-> [h \in [0 .. bits -> Seq(Nat)] |->
                   IF i >= bits THEN << >> ELSE << i >> \o h[following(i)]]]
<1>0. bits \in Nat
  BY Sizes
<1>1. \A x \in SetOf(b) : x \in Nat /\ x < bits
  BY Sizes DEF SetOf, Bit
<1>2. \A i \in 0 .. bits : IsFirst(following(i), SetOf(b), bits, i + 1)
  <2> TAKE i \in 0 .. bits
  <2>1. i + 1 \in Nat /\ bits <= bits
    BY <1>0
  <2> QED
    BY <1>0, <2>1, SearchesFind
<1> HIDE DEF following
<1>3. \A i \in 0 .. bits : i < bits => following(i) \in i + 1 .. bits
  BY <1>0, <1>2 DEF IsFirst
<1>4. \A i \in 0 .. bits : \A h \in [0 .. bits -> Seq(Nat)] :
        (IF i >= bits THEN << >> ELSE << i >> \o h[following(i)]) \in Seq(Nat)
  <2> TAKE i \in 0 .. bits
  <2> TAKE h \in [0 .. bits -> Seq(Nat)]
  <2>1. CASE i >= bits
    BY <2>1
  <2>2. CASE ~(i >= bits)
    <3>1. following(i) \in 0 .. bits
      BY <1>0, <1>3, <2>2
    <3>2. h[following(i)] \in Seq(Nat) /\ << i >> \in Seq(Nat)
      BY <1>0, <3>1
    <3>3. << i >> \o h[following(i)] \in Seq(Nat)
      BY <3>2, ConcatProperties
    <3> QED
      BY <2>2, <3>3
  <2> QED
    BY <2>1, <2>2
<1>5. G \in [0 .. bits -> [[0 .. bits -> Seq(Nat)] -> Seq(Nat)]]
  BY <1>4
<1>6. \A i \in 0 .. bits : \A h \in [0 .. bits -> Seq(Nat)] :
        G[i][h] = IF i >= bits THEN << >> ELSE << i >> \o h[following(i)]
  OBVIOUS
<1> HIDE DEF G
<1>7. \A i \in 0 .. bits : \A g \in [0 .. bits -> Seq(Nat)], h \in [0 .. bits -> Seq(Nat)] :
        (\A j \in i + 1 .. bits : g[j] = h[j]) => G[i][g] = G[i][h]
  <2> TAKE i \in 0 .. bits
  <2> TAKE g \in [0 .. bits -> Seq(Nat)], h \in [0 .. bits -> Seq(Nat)]
  <2> HAVE \A j \in i + 1 .. bits : g[j] = h[j]
  <2>1. i < bits => g[following(i)] = h[following(i)]
    BY <1>3
  <2>2. i >= bits \/ i < bits
    BY <1>0
  <2> QED
    BY <1>6, <2>1, <2>2
<1>8. Seq(Nat) # {}
  <2>1. << >> \in Seq(Nat)
    OBVIOUS
  <2> QED
    BY <2>1
<1>9. PICK f : f \in [0 .. bits -> Seq(Nat)] /\ \A i \in 0 .. bits : f[i] = G[i][f]
  <2>1. Onwards(G, bits, Seq(Nat))
    BY <1>5, <1>7, Zenon DEF Onwards
  <2>2. PICK f : Computed(f, G, bits, Seq(Nat))
    BY <1>0, <1>8, <2>1, Descent, Zenon
  <2> QED
    BY <2>2, Zenon DEF Computed
<1>10. f = Body(f)
  BY <1>6, <1>9
<1>11. from = Body(from)
  <2> HIDE DEF Body
  <2> QED
    BY <1>10
<1>12. for_each_set_bit(b) = from[find_first_bit(b, bits)]
  BY DEF for_each_set_bit, following
<1> HIDE DEF from
<1>13. \A i \in 0 .. bits : from[i] = IF i >= bits THEN << >> ELSE << i >> \o from[following(i)]
  BY <1>11
<1> DEFINE Beyond(i) == {x \in SetOf(b) : x >= i}
           S == {d \in Nat : \A i \in SetOf(b) \cup {bits} :
                               i + d >= bits => Lists(from[i], Beyond(i))}
<1>14. Lists(from[bits], Beyond(bits))
  <2>1. from[bits] = << >>
    <3>1. bits \in 0 .. bits /\ bits >= bits
      BY <1>0
    <3> QED
      BY <1>13, <3>1
  <2>2. Beyond(bits) = {}
    BY <1>0, <1>1
  <2>3. << >> \in Seq({}) /\ Len(<< >>) = 0 /\ 1 .. 0 = {}
    OBVIOUS
  <2> HIDE DEF Beyond
  <2>4. Lists(<< >>, {})
    BY <2>3 DEF Lists
  <2> QED
    BY <2>1, <2>2, <2>4
<1>15. 0 \in S
  <2>1. \A i \in SetOf(b) \cup {bits} : i + 0 >= bits => i = bits
    BY <1>0, <1>1
  <2> HIDE DEF Beyond
  <2> QED
    BY <1>14, <2>1
<1>16. ASSUME NEW d \in Nat, d \in S
       PROVE  d + 1 \in S
  <2>1. ASSUME NEW i \in SetOf(b), i + (d + 1) >= bits
        PROVE  Lists(from[i], Beyond(i))
    <3>1. i \in Nat /\ i \in 0 .. bits /\ i < bits
      BY <1>0, <1>1
    <3>2. PICK n \in Nat : n = following(i)
      BY <1>2, <3>1 DEF IsFirst
    <3>3. /\ n = bits \/ (n \in SetOf(b) /\ i + 1 <= n)
          /\ \A x \in SetOf(b) : i + 1 <= x /\ x < bits => n <= x
          /\ n >= i + 1
      BY <1>2, <3>1, <3>2 DEF IsFirst
    <3>4. n \in SetOf(b) \cup {bits} /\ n + d >= bits
      BY <1>0, <2>1, <3>1, <3>3
    <3>5. Lists(from[n], Beyond(n))
      <4> HIDE DEF Beyond
      <4> QED
        BY <1>16, <3>4
    <3>6. Beyond(i) = {i} \cup Beyond(n)
      <4>1. \A x \in SetOf(b) : x >= i <=> x = i \/ x >= n
        BY <1>1, <3>1, <3>3
      <4> QED
        BY <4>1
    <3>7. \A x \in Beyond(n) : i < x
      BY <1>1, <3>1, <3>3
    <3>8. from[i] = << i >> \o from[n]
      <4>1. ~(i >= bits)
        BY <1>0, <3>1
      <4> QED
        BY <1>13, <3>1, <3>2, <4>1, Zenon
    <3> HIDE DEF Beyond
    <3> QED
      BY <3>1, <3>5, <3>6, <3>7, <3>8, ListsMore
  <2> HIDE DEF Beyond
  <2> QED
    BY <1>14, <2>1
<1>17. Nat \subseteq S
  <2> HIDE DEF S
  <2> QED
    BY <1>15, <1>16, Induction
<1>18. \A i \in SetOf(b) \cup {bits} : Lists(from[i], Beyond(i))
  <2>1. \A i \in SetOf(b) \cup {bits} : i + bits >= bits
    BY <1>0, <1>1
  <2>2. bits \in S
    BY <1>0, <1>17
  <2> HIDE DEF Beyond
  <2> QED
    BY <2>1, <2>2
<1>19. PICK r \in Nat : r = find_first_bit(b, bits) /\ IsFirst(r, SetOf(b), bits, 0)
  <2>1. 0 \in Nat /\ bits <= bits
    BY <1>0
  <2>2. find_first_bit(b, bits) = find_next_bit(b, bits, 0)
    BY DEF find_first_bit
  <2>3. IsFirst(find_next_bit(b, bits, 0), SetOf(b), bits, 0)
    BY <1>0, <2>1, SearchesFind
  <2> QED
    BY <2>2, <2>3 DEF IsFirst
<1>20. r \in SetOf(b) \cup {bits} /\ Beyond(r) = SetOf(b)
  <2>1. r \in SetOf(b) \cup {bits}
    BY <1>19 DEF IsFirst
  <2>2. \A x \in SetOf(b) : x >= r
    BY <1>1, <1>19 DEF IsFirst
  <2> QED
    BY <2>1, <2>2
<1> HIDE DEF Beyond
<1> QED
  BY <1>12, <1>18, <1>19, <1>20

-----------------------------------------------------------------------------
\* The sets of BitSet have the sizes and the least members that they have here.
LEMMA SameSets ==
  ASSUME NEW S
  PROVE  BitSet!Cardinality(S) = Cardinality(S) /\ BitSet!Min(S) = Min(S)
<1>1. BitSet!Cardinality(S) = Cardinality(S)
  BY Zenon DEF BitSet!Cardinality, Cardinality
<1>2. BitSet!Min(S) = Min(S)
  BY Zenon DEF BitSet!Min, Min
<1> QED
  BY <1>1, <1>2

\* What the places in a set are.
LEMMA OrdCounts ==
  ASSUME NEW S, NEW pos
  PROVE  BitSet!Ord(S, pos) = Cardinality({i \in S : i < pos})
BY SameSets, Zenon DEF BitSet!Ord

\* A number is in the set of a bitmap if it is in the list, and has a place there.
LEMMA ListOf ==
  ASSUME NEW b \in Words
  PROVE  LET seq == for_each_set_bit(b)
         IN  /\ seq \in Seq(SetOf(b)) /\ Len(seq) \in Nat /\ DOMAIN seq = 1 .. Len(seq)
             /\ ToSet(seq) = SetOf(b)
             /\ IsFiniteSet(SetOf(b)) /\ Cardinality(SetOf(b)) = Len(seq)
             /\ \A m \in 1 .. Len(seq) : seq[m] \in SetOf(b) /\ BitSet!Ord(SetOf(b), seq[m]) = m - 1
             /\ \A x \in SetOf(b) : \E m \in 1 .. Len(seq) : seq[m] = x
             /\ \A m \in 1 .. Len(seq), n \in 1 .. Len(seq) : m < n => seq[m] < seq[n]
<1>1. PICK seq : seq = for_each_set_bit(b)
  OBVIOUS
<1>2. Lists(seq, SetOf(b))
  BY <1>1, SeesAll
<1>3. /\ seq \in Seq(SetOf(b)) /\ Len(seq) \in Nat /\ DOMAIN seq = 1 .. Len(seq)
      /\ \A x \in SetOf(b) : \E m \in 1 .. Len(seq) : seq[m] = x
      /\ \A m \in 1 .. Len(seq), n \in 1 .. Len(seq) : m < n => seq[m] < seq[n]
  BY <1>2 DEF Lists
<1>4. \A m \in 1 .. Len(seq) : seq[m] \in SetOf(b)
  BY <1>3
<1>5. ToSet(seq) = SetOf(b)
  BY <1>3, <1>4 DEF ToSet
<1>6. /\ IsFiniteSet(SetOf(b)) /\ Cardinality(SetOf(b)) = Len(seq)
      /\ \A m \in 1 .. Len(seq) : Cardinality({i \in SetOf(b) : i < seq[m]}) = m - 1
  BY <1>2, ListCounts
<1>7. \A m \in 1 .. Len(seq) : BitSet!Ord(SetOf(b), seq[m]) = m - 1
  BY <1>6, OrdCounts
<1> QED
  BY <1>1, <1>3, <1>4, <1>5, <1>6, <1>7, Zenon

\* bitmap_pos_to_ord() counts the bits before one that is set.
LEMMA OrdIs ==
  ASSUME NEW b \in Words, NEW pos
  PROVE  bitmap_pos_to_ord(b, pos) =
           IF pos \in SetOf(b) THEN BitSet!Ord(SetOf(b), pos) ELSE -1
<1>1. pos \in Bit /\ test_bit(pos, b) <=> pos \in SetOf(b)
  BY DEF SetOf
<1>2. PICK seq : seq = for_each_set_bit(b)
  OBVIOUS
<1>3. ASSUME pos \in SetOf(b)
      PROVE  Cardinality({m \in DOMAIN seq : seq[m] < pos}) = BitSet!Ord(SetOf(b), pos)
  <2>1. /\ Len(seq) \in Nat /\ DOMAIN seq = 1 .. Len(seq)
        /\ \A m \in 1 .. Len(seq) : seq[m] \in SetOf(b) /\ BitSet!Ord(SetOf(b), seq[m]) = m - 1
        /\ \A x \in SetOf(b) : \E m \in 1 .. Len(seq) : seq[m] = x
        /\ \A m \in 1 .. Len(seq), n \in 1 .. Len(seq) : m < n => seq[m] < seq[n]
    BY <1>2, ListOf, Zenon
  <2>2. PICK n \in 1 .. Len(seq) : seq[n] = pos
    BY <1>3, <2>1
  <2>3. \A x \in SetOf(b) : x \in Nat
    BY Sizes DEF SetOf, Bit
  <2>4. ASSUME NEW m \in 1 .. Len(seq)
        PROVE  seq[m] < pos <=> m < n
    <3>1. seq[m] \in Nat /\ seq[n] \in Nat
      BY <2>1, <2>3
    <3>2. (m < n => seq[m] < seq[n]) /\ (n < m => seq[n] < seq[m])
      BY <2>1
    <3>3. m = n => seq[m] = seq[n]
      OBVIOUS
    <3>4. m < n \/ m = n \/ n < m
      BY <2>1
    <3> QED
      BY <2>1, <2>2, <3>1, <3>2, <3>3, <3>4
  <2>5. {m \in DOMAIN seq : seq[m] < pos} = 1 .. n - 1
    <3>1. \A m \in 1 .. Len(seq) : m < n <=> m \in 1 .. n - 1
      BY <2>1
    <3>2. \A m \in 1 .. n - 1 : m \in 1 .. Len(seq)
      BY <2>1
    <3> QED
      BY <2>1, <2>4, <3>1, <3>2
  <2>6. Cardinality(1 .. n - 1) = n - 1
    <3>1. Cardinality(1 .. n - 1) = IF 1 > n - 1 THEN 0 ELSE (n - 1) - 1 + 1
      <4>1. n - 1 \in Int /\ 1 \in Int
        BY <2>1
      <4> QED
        BY <4>1, FS_Interval
    <3> QED
      BY <2>1, <3>1
  <2> QED
    BY <2>1, <2>2, <2>5, <2>6
<1>4. bitmap_pos_to_ord(b, pos) =
        IF pos \in Bit /\ test_bit(pos, b) THEN Cardinality({m \in DOMAIN seq : seq[m] < pos}) ELSE -1
  BY <1>2, Zenon DEF bitmap_pos_to_ord
<1> QED
  BY <1>1, <1>3, <1>4

\* bitmap_ord_to_pos() is the bit with so many before it, if there are more.
LEMMA PosIs ==
  ASSUME NEW b \in Words, NEW ord \in Bit
  PROVE  /\ bitmap_ord_to_pos(b, ord) =
              IF ord < Cardinality(SetOf(b)) THEN BitSet!Pos(SetOf(b), ord) ELSE 0
         /\ ord < Cardinality(SetOf(b)) => BitSet!Pos(SetOf(b), ord) \in SetOf(b)
<1>0. ord \in Nat
  BY Sizes DEF Bit
<1>1. PICK seq : seq = for_each_set_bit(b)
  OBVIOUS
<1>2. /\ Len(seq) \in Nat /\ Cardinality(SetOf(b)) = Len(seq)
      /\ \A m \in 1 .. Len(seq) : seq[m] \in SetOf(b) /\ BitSet!Ord(SetOf(b), seq[m]) = m - 1
      /\ \A x \in SetOf(b) : \E m \in 1 .. Len(seq) : seq[m] = x
  BY <1>1, ListOf, Zenon
<1>3. bitmap_ord_to_pos(b, ord) = IF ord \in Bit /\ ord < Len(seq) THEN seq[ord + 1] ELSE 0
  BY <1>1, Zenon DEF bitmap_ord_to_pos
<1>4. ASSUME ord < Len(seq)
      PROVE  seq[ord + 1] = BitSet!Pos(SetOf(b), ord) /\ seq[ord + 1] \in SetOf(b)
  <2>1. ord + 1 \in 1 .. Len(seq) /\ (ord + 1) - 1 = ord
    BY <1>0, <1>2, <1>4
  <2>2. seq[ord + 1] \in SetOf(b) /\ BitSet!Ord(SetOf(b), seq[ord + 1]) = ord
    BY <1>2, <2>1
  <2>3. \A x \in SetOf(b) : BitSet!Ord(SetOf(b), x) = ord => x = seq[ord + 1]
    <3> TAKE x \in SetOf(b)
    <3> HAVE BitSet!Ord(SetOf(b), x) = ord
    <3>1. PICK m \in 1 .. Len(seq) : seq[m] = x
      BY <1>2
    <3>2. BitSet!Ord(SetOf(b), x) = m - 1
      BY <1>2, <3>1, Zenon
    <3>3. m = ord + 1
      BY <1>0, <1>2, <3>2
    <3> QED
      BY <3>1, <3>3
  <2>4. BitSet!Pos(SetOf(b), ord) = CHOOSE i \in SetOf(b) : BitSet!Ord(SetOf(b), i) = ord
    BY Zenon DEF BitSet!Pos
  <2>5. BitSet!Pos(SetOf(b), ord) = seq[ord + 1]
    BY <2>2, <2>3, <2>4, Zenon
  <2> QED
    BY <2>2, <2>5
<1> QED
  BY <1>2, <1>3, <1>4

-----------------------------------------------------------------------------
\* The bits of the words of a set of words.
BitsIn(b, s) == {i \in SetOf(b) : i \div BITS_PER_LONG \in s}

\* What is counted of a word are its bits.
LEMMA WordWeight ==
  ASSUME NEW b \in Words, NEW k \in Long
  PROVE  /\ IsFiniteSet(BitsIn(b, {k}))
         /\ Cardinality(BitsIn(b, {k})) = Cardinality(b[k] \cap Used(k))
<1> DEFINE w == b[k] \cap Used(k)
           f == [r \in w |-> At(k, r)]
<1>1. k \in Nat /\ w \subseteq InLong
  BY Sizes DEF Long, Words
<1>2. \A r \in InLong : At(k, r) \in SetOf(b) <=> r \in w
  BY InWord
<1>3. \A r \in InLong : /\ At(k, r) \div BITS_PER_LONG = k
                        /\ At(k, r) % BITS_PER_LONG = r
  BY <1>1, PlaceOfBit DEF At
<1>4. IsFiniteSet(w)
  <2>1. IsFiniteSet(InLong)
    BY Sizes, FS_Interval DEF InLong
  <2> HIDE DEF w
  <2> QED
    BY <1>1, <2>1, FS_Subset
<1> HIDE DEF w
<1>5. \A r \in w : At(k, r) \in BitsIn(b, {k})
  BY <1>1, <1>2, <1>3 DEF BitsIn
<1>6. ASSUME NEW i \in BitsIn(b, {k})
      PROVE  \E r \in w : At(k, r) = i
  <2>1. i \in SetOf(b) /\ i \div BITS_PER_LONG = k
    BY DEF BitsIn
  <2>2. i \in Bit
    BY <2>1 DEF SetOf
  <2>3. PICK l \in Long, r \in InLong : i = At(l, r)
    BY <2>2, Everywhere
  <2>4. l \in Nat
    BY Sizes DEF Long
  <2>5. At(l, r) \div BITS_PER_LONG = l
    BY <2>4, PlaceOfBit DEF At
  <2>6. l = k
    BY <2>1, <2>3, <2>5
  <2> QED
    BY <1>2, <2>1, <2>3, <2>6
<1>7. f \in Injection(w, BitsIn(b, {k}))
  <2>1. f \in [w -> BitsIn(b, {k})]
    BY <1>5
  <2>2. \A r \in w, s \in w : f[r] = f[s] => r = s
    <3>1. \A r \in w, s \in w : At(k, r) = At(k, s) => r = s
      BY <1>1, <1>3
    <3> QED
      BY <3>1
  <2> HIDE DEF f
  <2> QED
    BY <2>1, <2>2 DEF Injection, IsInjective
<1>8. f \in Surjection(w, BitsIn(b, {k}))
  <2>1. f \in [w -> BitsIn(b, {k})]
    BY <1>5
  <2>2. \A i \in BitsIn(b, {k}) : \E r \in w : f[r] = i
    BY <1>6
  <2> HIDE DEF f
  <2> QED
    BY <2>1, <2>2 DEF Surjection
<1> HIDE DEF f
<1>9. ExistsBijection(w, BitsIn(b, {k}))
  BY <1>7, <1>8 DEF Bijection, ExistsBijection
<1> QED
  BY <1>4, <1>9, FS_Bijection DEF w

\* bitmap_weight() adds up what is counted of the words, which is the number of bits.
LEMMA WeightIs ==
  ASSUME NEW b \in Words
  PROVE  bitmap_weight(b) = Cardinality(SetOf(b))
<1> DEFINE weigh(k) == Cardinality(b[k] \cap Used(k))
           pick(s) == CHOOSE x \in s : TRUE
           Body(h) == [s \in SUBSET Long |->
                         IF s = {} THEN 0 ELSE weigh(pick(s)) + h[s \ {pick(s)}]]
           iter == CHOOSE h : h = Body(h)
           sums == [s \in SUBSET Long |-> Cardinality(BitsIn(b, s))]
<1>0. IsFiniteSet(SetOf(b))
  BY ListOf, Zenon
<1>1. \A s : BitsIn(b, s) \subseteq SetOf(b) /\ IsFiniteSet(BitsIn(b, s))
  <2>1. \A s : BitsIn(b, s) \subseteq SetOf(b)
    BY DEF BitsIn
  <2> QED
    BY <1>0, <2>1, FS_Subset
<1>2. ASSUME NEW s \in SUBSET Long, NEW k \in s
      PROVE  Cardinality(BitsIn(b, s)) = weigh(k) + Cardinality(BitsIn(b, s \ {k}))
  <2>1. BitsIn(b, s) = BitsIn(b, {k}) \cup BitsIn(b, s \ {k})
    BY DEF BitsIn
  <2>2. BitsIn(b, {k}) \cap BitsIn(b, s \ {k}) = {}
    BY DEF BitsIn
  <2>3. Cardinality(BitsIn(b, {k})) = weigh(k)
    BY WordWeight
  <2>4. Cardinality(BitsIn(b, {k}) \cup BitsIn(b, s \ {k})) =
          Cardinality(BitsIn(b, {k})) + Cardinality(BitsIn(b, s \ {k}))
            - Cardinality(BitsIn(b, {k}) \cap BitsIn(b, s \ {k}))
    BY <1>1, FS_Union
  <2>5. Cardinality(BitsIn(b, {k})) \in Nat /\ Cardinality(BitsIn(b, s \ {k})) \in Nat
    BY <1>1, FS_CardinalityType
  <2>6. Cardinality(BitsIn(b, s)) =
          Cardinality(BitsIn(b, {k})) + Cardinality(BitsIn(b, s \ {k})) - Cardinality({})
    BY <2>1, <2>2, <2>4, Zenon
  <2>7. Cardinality({}) = 0
    BY FS_EmptySet
  <2> HIDE DEF weigh
  <2> QED
    BY <2>3, <2>5, <2>6, <2>7
<1>3. BitsIn(b, {}) = {}
  BY DEF BitsIn
<1>4. \A s \in SUBSET Long : s # {} => pick(s) \in s
  OBVIOUS
<1> HIDE DEF weigh, pick
<1>5. sums = Body(sums)
  <2>1. ASSUME NEW s \in SUBSET Long
        PROVE  sums[s] = IF s = {} THEN 0 ELSE weigh(pick(s)) + sums[s \ {pick(s)}]
    <3>1. CASE s = {}
      BY <1>3, <3>1, FS_EmptySet
    <3>2. CASE s # {}
      <4>1. pick(s) \in s
        BY <1>4, <3>2
      <4>2. s \ {pick(s)} \in SUBSET Long
        OBVIOUS
      <4> QED
        BY <1>2, <3>2, <4>1, <4>2
    <3> QED
      BY <3>1, <3>2
  <2> QED
    BY <2>1
<1>6. iter = Body(iter)
  <2> HIDE DEF Body, sums
  <2> QED
    BY <1>5
<1>7. bitmap_weight(b) = iter[Long]
  BY Zenon DEF bitmap_weight, MapThenSumSet, MapThenFoldSet, weigh, pick
<1> HIDE DEF iter
<1>8. \A s \in SUBSET Long : iter[s] = IF s = {} THEN 0 ELSE weigh(pick(s)) + iter[s \ {pick(s)}]
  BY <1>6
<1> HIDE DEF Body, sums
<1>9. IsFiniteSet(Long)
  BY Sizes, FS_Interval DEF Long
<1> DEFINE S == {n \in Nat : \A s \in SUBSET Long : Cardinality(s) = n =>
                               iter[s] = Cardinality(BitsIn(b, s))}
<1>10. 0 \in S
  <2>1. \A s \in SUBSET Long : Cardinality(s) = 0 => s = {}
    BY <1>9, FS_Subset, FS_EmptySet
  <2>2. iter[{}] = 0
    BY <1>8
  <2> QED
    BY <1>3, <2>1, <2>2, FS_EmptySet
<1>11. ASSUME NEW n \in Nat, n \in S
       PROVE  n + 1 \in S
  <2> SUFFICES ASSUME NEW s \in SUBSET Long, Cardinality(s) = n + 1
               PROVE  iter[s] = Cardinality(BitsIn(b, s))
    OBVIOUS
  <2>1. IsFiniteSet(s)
    BY <1>9, FS_Subset
  <2>2. s # {}
    BY FS_EmptySet
  <2>3. PICK k \in s : k = pick(s)
    BY <1>4, <2>2
  <2>4. s \ {k} \in SUBSET Long /\ Cardinality(s \ {k}) = n
    <3>1. Cardinality(s \ {k}) = IF k \in s THEN Cardinality(s) - 1 ELSE Cardinality(s)
      BY <2>1, FS_RemoveElement
    <3> QED
      BY <3>1
  <2>5. iter[s \ {k}] = Cardinality(BitsIn(b, s \ {k}))
    BY <1>11, <2>4
  <2>6. iter[s] = weigh(k) + iter[s \ {k}]
    BY <1>8, <2>2, <2>3
  <2> QED
    BY <1>2, <2>5, <2>6
<1>12. iter[Long] = Cardinality(BitsIn(b, Long))
  <2>1. Nat \subseteq S
    <3> HIDE DEF S
    <3> QED
      BY <1>10, <1>11, Induction
  <2>2. Cardinality(Long) \in Nat
    BY <1>9, FS_CardinalityType
  <2> QED
    BY <2>1, <2>2
<1>13. BitsIn(b, Long) = SetOf(b)
  BY BitsAreIn DEF BitsIn, SetOf
<1> QED
  BY <1>7, <1>12, <1>13

-----------------------------------------------------------------------------
\* Bits that are set in an empty bitmap.
LEMMA SetBits ==
  ASSUME NEW S \in SUBSET Bit
  PROVE  SetOf(set_bits(S, bitmap_zero)) = S /\ Clean(set_bits(S, bitmap_zero))
<1> DEFINE b == set_bits(S, bitmap_zero)
<1>1. \A k \in Long : b[k] = {i \in InLong : At(k, i) \in S}
  BY DEF set_bits, bitmap_zero, At
<1> HIDE DEF b
<1>2. \A k \in Long, r \in InLong : At(k, r) \in Bit => (r \in b[k] <=> At(k, r) \in S)
  BY <1>1
<1>3. SetOf(b) = S
  BY <1>2, SetIs
<1>4. \A k \in Long, r \in InLong : At(k, r) \in S => r \in Used(k)
  BY Everywhere
<1>5. Clean(b)
  BY <1>1, <1>4 DEF Clean
<1> QED
  BY <1>3, <1>5 DEF b

\* bitmap_bitremap() maps a bit to the one that has its place among the new bits.
LEMMA RemapIs ==
  ASSUME NEW b \in Words, NEW e \in Words, NEW oldbit \in Bit
  PROVE  /\ bitmap_bitremap(oldbit, b, e) = BitSet!Mapped(oldbit, SetOf(b), SetOf(e))
         /\ BitSet!Mapped(oldbit, SetOf(b), SetOf(e)) \in Bit
<1>1. PICK w \in Nat : w = bitmap_weight(e) /\ w = Cardinality(SetOf(e)) /\ IsFiniteSet(SetOf(e))
  BY WeightIs, ListOf, FS_CardinalityType
<1>2. PICK n : n = bitmap_pos_to_ord(b, oldbit)
  OBVIOUS
<1>3. bitmap_bitremap(oldbit, b, e) = IF n < 0 \/ w = 0 THEN oldbit ELSE bitmap_ord_to_pos(e, n % w)
  BY <1>1, <1>2, Zenon DEF bitmap_bitremap
<1>4. n = IF oldbit \in SetOf(b) THEN BitSet!Ord(SetOf(b), oldbit) ELSE -1
  BY <1>2, OrdIs
<1>5. BitSet!Ord(SetOf(b), oldbit) \in Nat
  <2>1. IsFiniteSet(SetOf(b))
    BY ListOf, Zenon
  <2>2. IsFiniteSet({i \in SetOf(b) : i < oldbit})
    BY <2>1, FS_Subset
  <2> QED
    BY <2>2, FS_CardinalityType, OrdCounts
<1>6. w = 0 <=> SetOf(e) = {}
  BY <1>1, FS_EmptySet
<1>7. n < 0 <=> oldbit \notin SetOf(b)
  BY <1>4, <1>5
<1>8. BitSet!Mapped(oldbit, SetOf(b), SetOf(e)) =
        IF oldbit \in SetOf(b) /\ SetOf(e) # {}
        THEN BitSet!Pos(SetOf(e), BitSet!Ord(SetOf(b), oldbit) % w) ELSE oldbit
  BY <1>1, SameSets, Zenon DEF BitSet!Mapped
<1>9. CASE oldbit \in SetOf(b) /\ SetOf(e) # {}
  <2>1. PICK m \in Nat : m = n % w /\ m < w /\ n = BitSet!Ord(SetOf(b), oldbit)
    BY <1>1, <1>4, <1>5, <1>6, <1>9
  <2>2. m \in Bit
    <3>1. Cardinality(SetOf(e)) <= Cardinality(Bit)
      <4>1. SetOf(e) \in SUBSET Bit
        BY DEF SetOf
      <4>2. IsFiniteSet(Bit)
        BY Sizes, FS_Interval DEF Bit
      <4> QED
        BY <4>1, <4>2, FS_Subset
    <3>2. Cardinality(Bit) = bits
      BY Sizes, FS_Interval DEF Bit
    <3> QED
      BY <1>1, <2>1, <3>1, <3>2, Sizes DEF Bit
  <2>3. bitmap_bitremap(oldbit, b, e) = bitmap_ord_to_pos(e, m)
    BY <1>3, <1>6, <1>7, <1>9, <2>1
  <2>4. /\ bitmap_ord_to_pos(e, m) = BitSet!Pos(SetOf(e), m)
        /\ BitSet!Pos(SetOf(e), m) \in SetOf(e)
    BY <1>1, <2>1, <2>2, PosIs
  <2>5. BitSet!Mapped(oldbit, SetOf(b), SetOf(e)) = BitSet!Pos(SetOf(e), m)
    BY <1>8, <1>9, <2>1
  <2>6. SetOf(e) \subseteq Bit
    BY DEF SetOf
  <2> QED
    BY <2>3, <2>4, <2>5, <2>6
<1>10. CASE ~(oldbit \in SetOf(b) /\ SetOf(e) # {})
  <2>1. bitmap_bitremap(oldbit, b, e) = oldbit
    BY <1>3, <1>6, <1>7, <1>10
  <2>2. BitSet!Mapped(oldbit, SetOf(b), SetOf(e)) = oldbit
    BY <1>8, <1>10
  <2> QED
    BY <2>1, <2>2
<1> QED
  BY <1>9, <1>10

\* The operations that move bits make what they make of sets.
LEMMA MapsAre ==
  ASSUME NEW b \in Words, NEW e \in Words, NEW d \in Words
  PROVE  /\ SetOf(bitmap_remap(b, e, d)) = {BitSet!Mapped(i, SetOf(e), SetOf(d)) : i \in SetOf(b)}
         /\ SetOf(bitmap_onto(b, e)) = {n \in SetOf(e) : BitSet!Ord(SetOf(e), n) \in SetOf(b)}
         /\ \A n \in Bit : SetOf(bitmap_fold(b, n + 1)) = {i % (n + 1) : i \in SetOf(b)}
         /\ Clean(bitmap_remap(b, e, d)) /\ Clean(bitmap_onto(b, e))
         /\ \A n \in Bit : Clean(bitmap_fold(b, n + 1))
<1>0. SetOf(b) \subseteq Bit /\ SetOf(e) \subseteq Bit
  BY DEF SetOf
<1>1. ToSet(for_each_set_bit(b)) = SetOf(b)
  BY ListOf, Zenon
<1>2. /\ SetOf(bitmap_remap(b, e, d)) = {BitSet!Mapped(i, SetOf(e), SetOf(d)) : i \in SetOf(b)}
      /\ Clean(bitmap_remap(b, e, d))
  <2> DEFINE S == {BitSet!Mapped(i, SetOf(e), SetOf(d)) : i \in SetOf(b)}
  <2>1. \A i \in SetOf(b) : /\ bitmap_bitremap(i, e, d) = BitSet!Mapped(i, SetOf(e), SetOf(d))
                            /\ BitSet!Mapped(i, SetOf(e), SetOf(d)) \in Bit
    BY <1>0, RemapIs
  <2>2. {bitmap_bitremap(i, e, d) : i \in SetOf(b)} = S
    BY <2>1
  <2>3. S \in SUBSET Bit
    BY <2>1
  <2>4. bitmap_remap(b, e, d) = set_bits({bitmap_bitremap(i, e, d) : i \in SetOf(b)}, bitmap_zero)
    BY <1>1, Zenon DEF bitmap_remap
  <2> HIDE DEF S
  <2>5. bitmap_remap(b, e, d) = set_bits(S, bitmap_zero)
    BY <2>2, <2>4, Zenon
  <2> QED
    BY <2>3, <2>5, SetBits DEF S
<1>3. /\ SetOf(bitmap_onto(b, e)) = {n \in SetOf(e) : BitSet!Ord(SetOf(e), n) \in SetOf(b)}
      /\ Clean(bitmap_onto(b, e))
  <2> DEFINE S == {n \in SetOf(e) : BitSet!Ord(SetOf(e), n) \in SetOf(b)}
  <2>1. PICK seq : seq = for_each_set_bit(e)
    OBVIOUS
  <2>2. /\ Len(seq) \in Nat /\ Cardinality(SetOf(e)) = Len(seq)
        /\ \A m \in 1 .. Len(seq) : seq[m] \in SetOf(e) /\ BitSet!Ord(SetOf(e), seq[m]) = m - 1
        /\ \A x \in SetOf(e) : \E m \in 1 .. Len(seq) : seq[m] = x
    BY <2>1, ListOf, Zenon
  <2> DEFINE T == {seq[m + 1] : m \in {j \in 0 .. Len(seq) - 1 : test_bit(j, b)}}
  <2>3. \A j \in 0 .. Len(seq) - 1 : test_bit(j, b) <=> j \in SetOf(b)
    <3>1. Len(seq) <= bits
      <4>1. SetOf(e) \in SUBSET Bit
        BY <1>0
      <4>2. IsFiniteSet(Bit) /\ Cardinality(Bit) = bits
        BY Sizes, FS_Interval DEF Bit
      <4>3. Cardinality(SetOf(e)) <= Cardinality(Bit)
        BY <4>1, <4>2, FS_Subset
      <4> QED
        BY <2>2, <4>2, <4>3
    <3>2. \A j \in 0 .. Len(seq) - 1 : j \in Bit
      BY <2>2, <3>1, Sizes DEF Bit
    <3> QED
      BY <3>2 DEF SetOf
  <2>4. T = S
    <3>1. ASSUME NEW x \in T
          PROVE  x \in S
      <4>1. PICK j \in 0 .. Len(seq) - 1 : test_bit(j, b) /\ x = seq[j + 1]
        BY <3>1
      <4>2. j + 1 \in 1 .. Len(seq) /\ (j + 1) - 1 = j
        BY <2>2
      <4>3. BitSet!Ord(SetOf(e), x) = j /\ x \in SetOf(e)
        BY <2>2, <4>1, <4>2
      <4> QED
        BY <2>3, <4>1, <4>3
    <3>2. ASSUME NEW x \in S
          PROVE  x \in T
      <4>1. x \in SetOf(e) /\ BitSet!Ord(SetOf(e), x) \in SetOf(b)
        OBVIOUS
      <4>2. PICK m \in 1 .. Len(seq) : seq[m] = x
        BY <2>2, <4>1
      <4>3. m - 1 \in 0 .. Len(seq) - 1 /\ (m - 1) + 1 = m
        BY <2>2
      <4>4. BitSet!Ord(SetOf(e), seq[m]) = m - 1
        BY <2>2
      <4>5. m - 1 \in SetOf(b)
        BY <4>1, <4>2, <4>4
      <4>6. test_bit(m - 1, b)
        BY <2>3, <4>3, <4>5
      <4>7. PICK j \in 0 .. Len(seq) - 1 : j = m - 1 /\ j + 1 = m
        BY <4>3
      <4>8. test_bit(j, b) /\ x = seq[j + 1]
        BY <4>2, <4>6, <4>7
      <4> QED
        BY <4>8
    <3> HIDE DEF S, T
    <3> QED
      BY <3>1, <3>2
  <2>5. bitmap_onto(b, e) = set_bits(T, bitmap_zero)
    BY <2>1, Zenon DEF bitmap_onto
  <2>6. S \in SUBSET Bit
    BY <1>0
  <2> HIDE DEF S, T
  <2>7. bitmap_onto(b, e) = set_bits(S, bitmap_zero)
    BY <2>4, <2>5
  <2> QED
    BY <2>6, <2>7, SetBits DEF S
<1>4. ASSUME NEW n \in Bit
      PROVE  /\ SetOf(bitmap_fold(b, n + 1)) = {i % (n + 1) : i \in SetOf(b)}
             /\ Clean(bitmap_fold(b, n + 1))
  <2> DEFINE S == {i % (n + 1) : i \in SetOf(b)}
  <2>1. n \in Nat /\ n < bits /\ bits \in Nat
    BY Sizes DEF Bit
  <2>2. ASSUME NEW i \in SetOf(b)
        PROVE  i % (n + 1) \in Bit
    <3>1. i \in Nat
      BY <1>0, Sizes DEF Bit
    <3>2. i % (n + 1) \in 0 .. n
      BY <2>1, <3>1
    <3> QED
      BY <2>1, <3>2 DEF Bit
  <2>3. S \in SUBSET Bit
    BY <2>2
  <2>4. bitmap_fold(b, n + 1) = set_bits(S, bitmap_zero)
    BY <1>1, Zenon DEF bitmap_fold
  <2> HIDE DEF S
  <2> QED
    BY <2>3, <2>4, SetBits DEF S
<1> QED
  BY <1>2, <1>3, <1>4

-----------------------------------------------------------------------------
\* ALIGN_MASK() is the next multiple of align_mask + 1.
LEMMA AlignIs ==
  ASSUME NEW index \in Nat, NEW align_mask \in Nat
  PROVE  LET a == ALIGN_MASK(index, align_mask)
         IN  /\ a \in Nat /\ a >= index /\ a % (align_mask + 1) = 0
             /\ \A x \in Nat : x >= index /\ x % (align_mask + 1) = 0 => x >= a
<1>1. PICK u \in Nat \ {0} : u = align_mask + 1
  OBVIOUS
<1>2. PICK q \in Nat, t \in 0 .. u - 1 :
        q = (index + align_mask) \div u /\ index + align_mask = u * q + t
  <2>1. PICK n \in Nat : n = index + align_mask
    OBVIOUS
  <2>2. Leaves(n, u, n \div u, n % u)
    BY LeavesRest
  <2> QED
    BY <2>1, <2>2 DEF Leaves
<1>3. PICK a \in Nat : a = u * q
  OBVIOUS
<1>4. ALIGN_MASK(index, align_mask) = a
  <2>1. ALIGN_MASK(index, align_mask) = ((index + align_mask) \div u) * u
    BY <1>1 DEF ALIGN_MASK
  <2> QED
    BY <1>2, <1>3, <2>1
<1>5. index + align_mask = a + t /\ a >= index
  BY <1>1, <1>2, <1>3
<1>6. a % u = 0
  <2>1. Leaves(a, u, q, 0)
    BY <1>3 DEF Leaves
  <2>2. Leaves(a, u, a \div u, a % u)
    BY LeavesRest
  <2> QED
    BY <2>1, <2>2, LeavesOne
<1>7. ASSUME NEW x \in Nat, x >= index, x % u = 0
      PROVE  x >= a
  <2>1. Leaves(x, u, x \div u, x % u)
    BY LeavesRest
  <2>2. PICK p \in Nat : x = u * p
    <3>1. PICK p \in Nat : p = x \div u /\ x = u * p + (x % u)
      BY <2>1 DEF Leaves
    <3>2. u * p \in Nat
      OBVIOUS
    <3>3. x = u * p
      BY <1>7, <3>1, <3>2
    <3> QED
      BY <3>3
  <2>3. ~(p < q)
    <3>1. ASSUME p < q
          PROVE  FALSE
      <4>1. u * p + u <= u * q
        BY <3>1, Multiples
      <4>2. x + u <= a
        BY <1>3, <2>2, <4>1
      <4> QED
        BY <1>1, <1>5, <1>7, <4>2
    <3> QED
      BY <3>1
  <2>4. q < p => u * q + u <= u * p
    BY Multiples
  <2> QED
    BY <1>3, <2>2, <2>3, <2>4
<1> QED
  BY <1>1, <1>4, <1>5, <1>6, <1>7

\* The aligned areas of nr zero bits from start on.
AreasFrom(b, start, nr, align_mask) ==
  {i \in start .. bits - nr : i % (align_mask + 1) = 0 /\ (i .. i + nr - 1) \cap SetOf(b) = {}}

\* r is the first of them, or beyond the size if there is none.
IsFirstArea(r, b, start, nr, align_mask) ==
  /\ r \in Nat
  /\ r \in AreasFrom(b, start, nr, align_mask) \/ r > bits
  /\ \A x \in AreasFrom(b, start, nr, align_mask) : r <= x

\* An area begins at the next aligned place after a zero bit, or after a bit that is in its way.
LEMMA AreaStep ==
  ASSUME NEW b \in Words, NEW start \in 0 .. bits, NEW nr \in Nat \ {0}, NEW align_mask \in Nat,
         NEW next \in [0 .. bits -> Nat]
  PROVE  LET index == ALIGN_MASK(find_next_zero_bit(b, bits, start), align_mask)
             end == index + nr
             i == find_next_bit(b, end, index)
             r == IF end > bits THEN end ELSE IF i < end THEN next[i + 1] ELSE index
         IN  /\ r \in Nat
             /\ end <= bits /\ i < end => i + 1 \in start + 1 .. bits
             /\ (end <= bits /\ i < end => IsFirstArea(next[i + 1], b, i + 1, nr, align_mask))
                  => IsFirstArea(r, b, start, nr, align_mask)
<1>0. bits \in Nat /\ start \in Nat /\ start <= bits /\ bits <= bits
  BY Sizes
<1>1. PICK z \in Nat : z = find_next_zero_bit(b, bits, start) /\ IsFirst(z, Bit \ SetOf(b), bits, start)
  <2>1. IsFirst(find_next_zero_bit(b, bits, start), Bit \ SetOf(b), bits, start)
    BY <1>0, SearchesFind
  <2> QED
    BY <2>1 DEF IsFirst
<1>2. PICK index \in Nat : /\ index = ALIGN_MASK(z, align_mask)
                           /\ index >= z /\ index % (align_mask + 1) = 0
                           /\ \A x \in Nat : x >= z /\ x % (align_mask + 1) = 0 => x >= index
  BY AlignIs
<1>3. PICK end \in Nat : end = index + nr
  OBVIOUS
<1>4. PICK i : i = find_next_bit(b, end, index)
  OBVIOUS
<1>5. end <= bits => IsFirst(i, SetOf(b), end, index)
  BY <1>4, SearchesFind
<1>6. PICK S : S = SetOf(b) /\ \A x \in S : x \in Nat /\ x < bits
  <2>1. \A x \in SetOf(b) : x \in Nat /\ x < bits
    BY Sizes DEF SetOf, Bit
  <2> QED
    BY <2>1
<1>7. start <= z /\ start <= index
  BY <1>0, <1>1, <1>2 DEF IsFirst
<1>8. ASSUME NEW x \in AreasFrom(b, start, nr, align_mask)
      PROVE  /\ x \in Nat /\ x >= start /\ x + nr <= bits /\ x % (align_mask + 1) = 0 /\ x >= index
             /\ \A y \in S : ~(x <= y /\ y < x + nr)
  <2>1. /\ x \in Nat /\ x >= start /\ x + nr <= bits /\ x % (align_mask + 1) = 0
        /\ (x .. x + nr - 1) \cap S = {}
    BY <1>0, <1>6 DEF AreasFrom
  <2>2. \A y \in S : ~(x <= y /\ y < x + nr)
    BY <1>6, <2>1
  <2>3. x \in Bit \ SetOf(b) /\ x < bits
    <3>1. x \in Bit
      BY <1>0, <2>1 DEF Bit
    <3>2. x \notin S
      BY <2>1, <2>2
    <3> QED
      BY <1>0, <1>6, <2>1, <3>1, <3>2
  <2>4. x >= z
    BY <1>1, <2>1, <2>3 DEF IsFirst
  <2> QED
    BY <1>2, <2>1, <2>2, <2>4
<1>9. CASE end > bits
  <2>1. \A x \in AreasFrom(b, start, nr, align_mask) : FALSE
    BY <1>0, <1>3, <1>8, <1>9
  <2>2. IsFirstArea(end, b, start, nr, align_mask)
    BY <1>9, <2>1 DEF IsFirstArea
  <2>3. ~(end <= bits)
    BY <1>0, <1>9
  <2> QED
    BY <1>1, <1>2, <1>3, <1>4, <1>9, <2>2, <2>3, Zenon
<1>10. CASE end <= bits /\ i < end
  <2>1. i \in Nat /\ i \in S /\ index <= i /\ i < end
    BY <1>0, <1>3, <1>5, <1>6, <1>10 DEF IsFirst
  <2>2. i + 1 \in start + 1 .. bits /\ i + 1 \in 0 .. bits
    BY <1>0, <1>3, <1>7, <1>10, <2>1
  <2>3. next[i + 1] \in Nat
    BY <2>2
  <2>4. ASSUME IsFirstArea(next[i + 1], b, i + 1, nr, align_mask)
        PROVE  IsFirstArea(next[i + 1], b, start, nr, align_mask)
    <3>1. AreasFrom(b, i + 1, nr, align_mask) \subseteq AreasFrom(b, start, nr, align_mask)
      <4>1. i + 1 >= start /\ i + 1 \in Nat
        BY <1>0, <2>1, <2>2
      <4>2. i + 1 .. bits - nr \subseteq start .. bits - nr
        BY <1>0, <4>1
      <4> QED
        BY <4>2 DEF AreasFrom
    <3>2. \A x \in AreasFrom(b, start, nr, align_mask) : x \in AreasFrom(b, i + 1, nr, align_mask)
      <4> TAKE x \in AreasFrom(b, start, nr, align_mask)
      <4>1. /\ x \in Nat /\ x + nr <= bits /\ x >= index
            /\ ~(x <= i /\ i < x + nr)
        BY <1>8, <2>1
      <4>2. x >= i + 1
        BY <1>3, <2>1, <4>1
      <4>3. x \in i + 1 .. bits - nr
        BY <1>0, <2>1, <4>1, <4>2
      <4> QED
        BY <4>3 DEF AreasFrom
    <3> QED
      BY <2>4, <3>1, <3>2 DEF IsFirstArea
  <2>5. ~(end > bits)
    BY <1>0, <1>10
  <2> QED
    BY <1>1, <1>2, <1>3, <1>4, <1>10, <2>2, <2>3, <2>4, <2>5, Zenon
<1>11. CASE end <= bits /\ ~(i < end)
  <2>1. i = end /\ \A y \in S : ~(index <= y /\ y < end)
    <3>1. IsFirst(i, S, end, index)
      BY <1>5, <1>6, <1>11
    <3> QED
      BY <1>3, <1>6, <1>11, <3>1 DEF IsFirst
  <2>2. index \in AreasFrom(b, start, nr, align_mask)
    <3>1. index \in start .. bits - nr
      BY <1>0, <1>3, <1>7, <1>11
    <3>2. (index .. index + nr - 1) \cap S = {}
      BY <1>3, <1>6, <2>1
    <3> QED
      BY <1>2, <1>6, <3>1, <3>2 DEF AreasFrom
  <2>3. IsFirstArea(index, b, start, nr, align_mask)
    BY <1>8, <2>2 DEF IsFirstArea
  <2>4. ~(end > bits)
    BY <1>0, <1>11
  <2> QED
    BY <1>1, <1>2, <1>3, <1>4, <1>11, <2>3, <2>4, Zenon
<1>12. end > bits \/ end <= bits
  BY <1>0
<1> QED
  BY <1>9, <1>10, <1>11, <1>12, Zenon

\* bitmap_find_next_zero_area() finds the first aligned area of zero bits.
LEMMA AreaIs ==
  ASSUME NEW b \in Words, NEW first \in 0 .. bits, NEW nr \in Nat \ {0}, NEW align_mask \in Nat
  PROVE  IsFirstArea(bitmap_find_next_zero_area(b, bits, first, nr, align_mask),
                     b, first, nr, align_mask)
<1> DEFINE index(s) == ALIGN_MASK(find_next_zero_bit(b, bits, s), align_mask)
           end(s) == index(s) + nr
           i(s) == find_next_bit(b, end(s), index(s))
           step(s, h) == IF end(s) > bits THEN end(s)
                         ELSE IF i(s) < end(s) THEN h[i(s) + 1] ELSE index(s)
           Body(h) == [s \in 0 .. bits |-> step(s, h)]
           again == CHOOSE h : h = Body(h)
           G == [s \in 0 .. bits |-> [h \in [0 .. bits -> Nat] |-> step(s, h)]]
<1>0. bits \in Nat
  BY Sizes
<1>1. ASSUME NEW s \in 0 .. bits, NEW h \in [0 .. bits -> Nat]
      PROVE  /\ step(s, h) \in Nat
             /\ end(s) <= bits /\ i(s) < end(s) => i(s) + 1 \in s + 1 .. bits
             /\ (end(s) <= bits /\ i(s) < end(s) => IsFirstArea(h[i(s) + 1], b, i(s) + 1, nr, align_mask))
                  => IsFirstArea(step(s, h), b, s, nr, align_mask)
  BY <1>1, AreaStep, Zenon
<1>2. \A s \in 0 .. bits : end(s) \in Nat
  <2> TAKE s \in 0 .. bits
  <2>1. s \in Nat /\ bits <= bits
    BY <1>0
  <2>2. find_next_zero_bit(b, bits, s) \in Nat
    BY <1>0, <2>1, SearchesFind DEF IsFirst
  <2>3. index(s) \in Nat
    BY <2>2, AlignIs
  <2> HIDE DEF index
  <2> QED
    BY <2>3
<1>3. bitmap_find_next_zero_area(b, bits, first, nr, align_mask) = again[first]
  BY Zenon DEF bitmap_find_next_zero_area
<1> HIDE DEF index, end, i
<1>4. Onwards(G, bits, Nat)
  <2>1. G \in [0 .. bits -> [[0 .. bits -> Nat] -> Nat]]
    BY <1>1
  <2>2. ASSUME NEW s \in 0 .. bits, NEW g \in [0 .. bits -> Nat], NEW h \in [0 .. bits -> Nat],
               \A j \in s + 1 .. bits : g[j] = h[j]
        PROVE  G[s][g] = G[s][h]
    <3>1. ~(end(s) > bits) /\ i(s) < end(s) => g[i(s) + 1] = h[i(s) + 1]
      <4>1. ~(end(s) > bits) => end(s) <= bits
        BY <1>0, <1>2
      <4> QED
        BY <1>1, <2>2, <4>1
    <3>2. step(s, g) = step(s, h)
      BY <3>1
    <3> HIDE DEF step
    <3> QED
      BY <3>2
  <2> HIDE DEF G
  <2> QED
    BY <2>1, <2>2, Zenon DEF Onwards
<1>5. PICK f : Computed(f, G, bits, Nat)
  <2>1. Nat # {}
    OBVIOUS
  <2> HIDE DEF G
  <2> QED
    BY <1>0, <1>4, <2>1, Descent, Zenon
<1>6. f = Body(f)
  <2> HIDE DEF step
  <2> QED
    BY <1>5 DEF Computed
<1>7. again = Body(again)
  <2> HIDE DEF Body
  <2> QED
    BY <1>6
<1> HIDE DEF again, G
<1>8. \A s \in 0 .. bits : again[s] = step(s, again)
  <2> HIDE DEF step
  <2> QED
    BY <1>7
<1> HIDE DEF step, Body
<1>9. again \in [0 .. bits -> Nat]
  <2> DEFINE S == {d \in Nat : \A s \in 0 .. bits : s + d >= bits => again[s] \in Nat}
  <2>1. ASSUME NEW s \in 0 .. bits,
               end(s) <= bits /\ i(s) < end(s) => again[i(s) + 1] \in Nat
        PROVE  again[s] \in Nat
    <3>1. CASE end(s) <= bits /\ i(s) < end(s)
      <4>1. ~(end(s) > bits)
        BY <1>0, <1>2, <3>1
      <4>2. again[s] = again[i(s) + 1]
        BY <1>8, <3>1, <4>1 DEF step
      <4> QED
        BY <2>1, <3>1, <4>2
    <3>2. CASE ~(end(s) <= bits /\ i(s) < end(s))
      <4>1. end(s) > bits \/ ~(i(s) < end(s))
        BY <1>0, <1>2, <3>2
      <4> DEFINE g == [t \in 0 .. bits |-> 0]
      <4>2. step(s, g) \in Nat
        BY <1>1
      <4>3. step(s, again) = step(s, g)
        BY <4>1 DEF step
      <4> QED
        BY <1>8, <4>2, <4>3
    <3> QED
      BY <3>1, <3>2
  <2>2. \A s \in 0 .. bits : end(s) <= bits /\ i(s) < end(s) => i(s) + 1 \in s + 1 .. bits
    <3>1. [t \in 0 .. bits |-> 0] \in [0 .. bits -> Nat]
      OBVIOUS
    <3> QED
      BY <1>1, <3>1
  <2>3. 0 \in S
    <3> SUFFICES ASSUME NEW s \in 0 .. bits, s + 0 >= bits
                 PROVE  again[s] \in Nat
      OBVIOUS
    <3>1. ~(end(s) <= bits /\ i(s) < end(s))
      <4>1. s + 1 .. bits = {}
        BY <1>0
      <4> QED
        BY <2>2, <4>1
    <3> QED
      BY <2>1, <3>1
  <2>4. ASSUME NEW d \in Nat, d \in S
        PROVE  d + 1 \in S
    <3> SUFFICES ASSUME NEW s \in 0 .. bits, s + (d + 1) >= bits
                 PROVE  again[s] \in Nat
      OBVIOUS
    <3>1. ASSUME end(s) <= bits /\ i(s) < end(s)
          PROVE  again[i(s) + 1] \in Nat
      <4>1. PICK j \in s + 1 .. bits : j = i(s) + 1
        BY <2>2, <3>1
      <4>2. j \in 0 .. bits /\ j + d >= bits
        BY <1>0
      <4> QED
        BY <2>4, <4>1, <4>2
    <3> QED
      BY <2>1, <3>1
  <2>5. Nat \subseteq S
    <3> HIDE DEF S
    <3> QED
      BY <2>3, <2>4, Induction
  <2>6. \A s \in 0 .. bits : again[s] \in Nat
    <3>1. \A s \in 0 .. bits : s + bits >= bits
      BY <1>0
    <3> QED
      BY <1>0, <2>5, <3>1
  <2>7. again = [s \in 0 .. bits |-> step(s, again)]
    BY <1>7 DEF Body
  <2> QED
    BY <1>8, <2>6, <2>7
<1> DEFINE S == {d \in Nat : \A s \in 0 .. bits : s + d >= bits =>
                               IsFirstArea(again[s], b, s, nr, align_mask)}
<1>10. ASSUME NEW d \in Nat,
              \A s \in 0 .. bits : s + d > bits => IsFirstArea(again[s], b, s, nr, align_mask),
              NEW s \in 0 .. bits, s + d >= bits
       PROVE  IsFirstArea(again[s], b, s, nr, align_mask)
  <2>1. ASSUME end(s) <= bits /\ i(s) < end(s)
        PROVE  IsFirstArea(again[i(s) + 1], b, i(s) + 1, nr, align_mask)
    <3>1. PICK j \in s + 1 .. bits : j = i(s) + 1
      BY <1>1, <1>9, <2>1
    <3>2. j \in 0 .. bits /\ j + d > bits
      BY <1>0, <1>10
    <3> QED
      BY <1>10, <3>1, <3>2
  <2>2. IsFirstArea(step(s, again), b, s, nr, align_mask)
    BY <1>1, <1>9, <2>1
  <2> QED
    BY <1>8, <2>2
<1>11. 0 \in S
  <2>1. \A s \in 0 .. bits : ~(s + 0 > bits)
    BY <1>0
  <2> QED
    BY <1>10, <2>1
<1>12. ASSUME NEW d \in Nat, d \in S
       PROVE  d + 1 \in S
  <2>1. \A s \in 0 .. bits : s + (d + 1) > bits => s + d >= bits
    BY <1>0
  <2>2. \A s \in 0 .. bits : s + (d + 1) > bits => IsFirstArea(again[s], b, s, nr, align_mask)
    BY <1>12, <2>1
  <2>3. d + 1 \in Nat
    OBVIOUS
  <2> QED
    BY <1>10, <2>2, <2>3
<1>13. IsFirstArea(again[first], b, first, nr, align_mask)
  <2>1. Nat \subseteq S
    <3> HIDE DEF S
    <3> QED
      BY <1>11, <1>12, Induction
  <2>2. first + bits >= bits
    BY <1>0
  <2> QED
    BY <1>0, <2>1, <2>2
<1> QED
  BY <1>3, <1>13

-----------------------------------------------------------------------------
\* A power of two is twice the one before it: with a member more, a set has twice as many subsets.
LEMMA Doubled ==
  ASSUME NEW n \in Nat
  PROVE  2^n \in Nat /\ 2^(n + 1) = 2^n + 2^n
<1> DEFINE A == 1 .. n
           B == 1 .. n + 1
           Y == {T \in SUBSET B : n + 1 \in T}
           f == [T \in SUBSET A |-> T \cup {n + 1}]
<1>1. IsFiniteSet(A) /\ Cardinality(A) = n /\ IsFiniteSet(B) /\ Cardinality(B) = n + 1
  <2>1. n \in Int /\ n + 1 \in Int /\ 1 \in Int
    OBVIOUS
  <2>2. IsFiniteSet(1 .. n) /\ Cardinality(1 .. n) = IF 1 > n THEN 0 ELSE n - 1 + 1
    BY <2>1, FS_Interval
  <2>3. IsFiniteSet(1 .. n + 1) /\ Cardinality(1 .. n + 1) = IF 1 > n + 1 THEN 0 ELSE (n + 1) - 1 + 1
    BY <2>1, FS_Interval
  <2> QED
    BY <2>2, <2>3
<1>2. /\ IsFiniteSet(SUBSET A) /\ Cardinality(SUBSET A) = 2^n /\ 2^n \in Nat
      /\ IsFiniteSet(SUBSET B) /\ Cardinality(SUBSET B) = 2^(n + 1)
  <2> HIDE DEF A, B
  <2>1. IsFiniteSet(SUBSET A) /\ Cardinality(SUBSET A) = 2^Cardinality(A)
    BY <1>1, FS_SUBSET
  <2>2. IsFiniteSet(SUBSET B) /\ Cardinality(SUBSET B) = 2^Cardinality(B)
    BY <1>1, FS_SUBSET
  <2>3. Cardinality(SUBSET A) \in Nat
    BY <2>1, FS_CardinalityType
  <2> QED
    BY <1>1, <2>1, <2>2, <2>3
<1>3. \A x \in A : x \in B /\ x # n + 1
  OBVIOUS
<1>4. \A x \in B : x \in A \/ x = n + 1
  OBVIOUS
<1>5. n + 1 \in B
  OBVIOUS
<1> HIDE DEF A, B
<1>6. SUBSET B = (SUBSET A) \cup Y /\ (SUBSET A) \cap Y = {}
  <2>1. \A T \in SUBSET B : T \in SUBSET A \/ T \in Y
    BY <1>4
  <2>2. \A T \in SUBSET A : T \in SUBSET B /\ T \notin Y
    BY <1>3
  <2> QED
    BY <2>1, <2>2
<1>7. f \in Injection(SUBSET A, Y)
  <2>1. \A T \in SUBSET A : T \cup {n + 1} \in Y
    BY <1>3, <1>5
  <2>2. \A T \in SUBSET A, U \in SUBSET A : T \cup {n + 1} = U \cup {n + 1} => T = U
    BY <1>3
  <2>3. f \in [SUBSET A -> Y] /\ \A T \in SUBSET A : f[T] = T \cup {n + 1}
    BY <2>1
  <2> HIDE DEF f, Y
  <2>4. DOMAIN f = SUBSET A
    BY <2>3
  <2>5. \A T \in SUBSET A, U \in SUBSET A : f[T] = f[U] => T = U
    BY <2>2, <2>3, Zenon
  <2>6. IsInjective(f)
    BY <2>4, <2>5, Zenon DEF IsInjective
  <2> QED
    BY <2>3, <2>6, Zenon DEF Injection
<1>8. f \in Surjection(SUBSET A, Y)
  <2>1. \A T \in SUBSET A : T \cup {n + 1} \in Y
    BY <1>3, <1>5
  <2>2. \A U \in Y : U \ {n + 1} \in SUBSET A /\ (U \ {n + 1}) \cup {n + 1} = U
    BY <1>4
  <2>3. f \in [SUBSET A -> Y] /\ \A T \in SUBSET A : f[T] = T \cup {n + 1}
    BY <2>1
  <2> HIDE DEF f, Y
  <2>4. \A U \in Y : \E T \in SUBSET A : f[T] = U
    BY <2>2, <2>3
  <2> QED
    BY <2>3, <2>4 DEF Surjection
<1>9. IsFiniteSet(Y) /\ Cardinality(Y) = 2^n
  <2> HIDE DEF f, Y
  <2>1. ExistsBijection(SUBSET A, Y)
    BY <1>7, <1>8 DEF Bijection, ExistsBijection
  <2> QED
    BY <1>2, <2>1, FS_Bijection
<1> HIDE DEF f, Y
<1>10. Cardinality((SUBSET A) \cup Y) =
         Cardinality(SUBSET A) + Cardinality(Y) - Cardinality((SUBSET A) \cap Y)
  BY <1>2, <1>9, FS_Union
<1>11. Cardinality((SUBSET A) \cap Y) = 0
  BY <1>6, FS_EmptySet
<1>12. Cardinality(SUBSET B) = 2^n + 2^n - 0
  BY <1>2, <1>6, <1>9, <1>10, <1>11
<1> QED
  BY <1>2, <1>12

\* A power of two divides the larger ones.
LEMMA Powers ==
  ASSUME NEW m \in Nat, NEW n \in Nat, m <= n
  PROVE  2^m \in Nat \ {0} /\ \E d \in Nat \ {0} : 2^n = 2^m * d
<1>1. \A k \in Nat : 2^k \in Nat /\ 2^(k + 1) = 2^k + 2^k
  BY Doubled
<1>2. 2^0 = 1
  OBVIOUS
<1> DEFINE S == {k \in Nat : 2^k # 0}
<1>3. Nat \subseteq S
  <2>1. 0 \in S
    BY <1>2
  <2>2. ASSUME NEW k \in Nat, k \in S
        PROVE  k + 1 \in S
    <3>1. PICK p \in Nat : p = 2^k /\ p # 0 /\ 2^(k + 1) = p + p
      BY <1>1, <2>2
    <3> QED
      BY <3>1
  <2> HIDE DEF S
  <2> QED
    BY <2>1, <2>2, Induction
<1>4. 2^m \in Nat \ {0}
  BY <1>1, <1>3
<1> DEFINE T == {k \in Nat : \E d \in Nat \ {0} : 2^(m + k) = 2^m * d}
<1>5. PICK p \in Nat \ {0} : p = 2^m
  BY <1>4
<1>6. 0 \in T
  <2>1. m + 0 = m /\ p = p * 1
    OBVIOUS
  <2>2. 2^(m + 0) = 2^m * 1
    BY <1>5, <2>1
  <2> QED
    BY <2>2
<1>7. ASSUME NEW k \in Nat, k \in T
      PROVE  k + 1 \in T
  <2>1. PICK d \in Nat \ {0} : 2^(m + k) = p * d
    BY <1>5, <1>7
  <2>2. m + k \in Nat /\ m + (k + 1) = (m + k) + 1
    OBVIOUS
  <2>3. 2^(m + (k + 1)) = p * d + p * d
    BY <1>1, <2>1, <2>2
  <2>4. p * d + p * d = p * (d + d) /\ d + d \in Nat \ {0}
    OBVIOUS
  <2>5. 2^(m + (k + 1)) = 2^m * (d + d)
    BY <1>5, <2>3, <2>4
  <2>6. k + 1 \in Nat
    OBVIOUS
  <2> QED
    BY <2>4, <2>5, <2>6, Zenon
<1>8. n - m \in T
  <2>1. Nat \subseteq T
    <3> HIDE DEF T
    <3> QED
      BY <1>6, <1>7, Induction
  <2>2. n - m \in Nat
    OBVIOUS
  <2> QED
    BY <2>1, <2>2
<1>9. m + (n - m) = n
  OBVIOUS
<1> QED
  BY <1>4, <1>8, <1>9

-----------------------------------------------------------------------------
\* The bits of a word in an aligned region are those of the region: 2^order and the size of a
\* word divide each other.
LEMMA InRegion ==
  ASSUME NEW k \in Long, NEW r \in InLong, NEW pos \in Nat, NEW order \in Nat, pos % 2^order = 0
  PROVE  r \in RegionMask(pos, order)[k] <=> At(k, r) \in pos .. pos + 2^order - 1
<1>1. PICK e \in Nat : BITS_PER_LONG = 2^e
  BY BitmapAssumption
<1>2. PICK n \in Nat \ {0}, u \in Nat \ {0} : n = 2^order /\ u = BITS_PER_LONG
  <2>1. 2^order \in Nat \ {0}
    BY Powers
  <2> QED
    BY <2>1, Sizes
<1>3. PICK index \in Nat, s \in 0 .. u - 1 :
        /\ index = pos \div BITS_PER_LONG /\ s = pos % BITS_PER_LONG /\ pos = index * u + s
  BY <1>2, BitOfPlace DEF InLong
<1>4. PICK y \in Nat : pos = n * y
  <2>1. Leaves(pos, n, pos \div n, pos % n)
    BY LeavesRest
  <2>2. PICK y \in Nat : pos = n * y + (pos % n)
    BY <2>1 DEF Leaves
  <2>3. pos % n = 0
    BY <1>2
  <2>4. pos = n * y + 0
    BY <2>2, <2>3, Zenon
  <2>5. PICK p \in Nat : p = n * y
    OBVIOUS
  <2>6. pos = p
    BY <2>4, <2>5
  <2> QED
    BY <2>5, <2>6
<1>5. k \in Nat /\ r \in 0 .. u - 1 /\ InLong = 0 .. u - 1
  BY <1>2, Sizes DEF Long, InLong
<1>6. PICK ku \in Nat, iu \in Nat :
        /\ ku = k * u /\ iu = index * u
        /\ k < index => ku + u <= iu
        /\ index < k => iu + u <= ku
        /\ k = index => ku = iu
  <2>1. k * u \in Nat /\ index * u \in Nat /\ k * u = u * k /\ index * u = u * index
    BY <1>5
  <2> QED
    BY <1>5, <2>1, Multiples
<1>7. At(k, r) = ku + r /\ pos = iu + s
  BY <1>2, <1>3, <1>6 DEF At
<1>8. BITS_TO_LONGS(n) = (n + u - 1) \div u
  BY <1>2 DEF BITS_TO_LONGS
<1>9. RegionMask(pos, order)[k] =
        IF k \in index .. (index + BITS_TO_LONGS(n) - 1) THEN Shl(0 .. Min({n, u}) - 1, s) ELSE {}
  <2>1. RegionMask(pos, order) =
          [l \in Long |-> IF l \in index .. (index + BITS_TO_LONGS(n) - 1)
                          THEN Shl(0 .. Min({n, u}) - 1, s) ELSE {}]
    BY <1>2, <1>3, Zenon DEF RegionMask
  <2> QED
    BY <2>1
<1>10. CASE order <= e
  <2>1. PICK d \in Nat \ {0} : u = n * d
    BY <1>1, <1>2, <1>10, Powers
  <2>2. n <= u
    <3>1. PICK c \in Nat : d = c + 1
      <4>1. d - 1 \in Nat
        OBVIOUS
      <4> QED
        BY <4>1
    <3>2. n * d = n * c + n /\ n * c \in Nat
      BY <3>1
    <3> QED
      BY <2>1, <3>2
  <2>3. Min({n, u}) = n
    <3>1. {n, u} \subseteq Int /\ n \in {n, u} /\ \A x \in {n, u} : n <= x
      BY <2>2
    <3> QED
      BY <3>1, MinIs
  <2>4. BITS_TO_LONGS(n) = 1
    <3>1. PICK t \in Nat : t = n + u - 1 /\ t = u * 1 + (n - 1) /\ n - 1 \in 0 .. u - 1
      BY <2>2
    <3>2. Leaves(t, u, 1, n - 1) /\ Leaves(t, u, t \div u, t % u)
      <4>1. Leaves(t, u, 1, n - 1)
        BY <3>1 DEF Leaves
      <4> QED
        BY <4>1, LeavesRest
    <3>3. n - 1 = t % u
      BY <3>2, LeavesOne
    <3>4. PICK q \in Nat : q = t \div u /\ t = u * q + (n - 1)
      BY <3>2, <3>3 DEF Leaves
    <3>5. u * q = u
      <4>1. u * q \in Nat
        OBVIOUS
      <4> QED
        BY <3>1, <3>4, <4>1
    <3>6. q = 1
      <4>1. ~(q < 1)
        <5>1. q = 0 => u * q = 0
          OBVIOUS
        <5> QED
          BY <3>5, <5>1
      <4>2. ~(1 < q)
        <5>1. 1 < q => u * 1 + u <= u * q
          BY Multiples
        <5> QED
          BY <3>5, <5>1
      <4> QED
        BY <4>1, <4>2
    <3> QED
      BY <1>8, <3>1, <3>4, <3>6
  <2>5. s + n <= u
    <3>1. PICK x \in Nat : s = n * x
      <4>1. PICK id \in Nat : id = index * d
        OBVIOUS
      <4>2. index * u = n * id
        BY <2>1, <4>1
      <4>3. n * y = n * id + s
        BY <1>3, <1>4, <4>2
      <4>4. id <= y
        <5>1. y < id => n * y + n <= n * id
          BY Multiples
        <5>2. n * y \in Nat /\ n * id \in Nat
          OBVIOUS
        <5> QED
          BY <4>3, <5>1, <5>2
      <4>5. PICK x \in Nat : y = id + x
        <5>1. y - id \in Nat /\ y = id + (y - id)
          BY <4>4
        <5> QED
          BY <5>1
      <4>6. n * y = n * id + n * x /\ n * id \in Nat /\ n * x \in Nat
        BY <4>5
      <4>7. s = n * x
        BY <4>3, <4>6
      <4> QED
        BY <4>7
    <3>2. x < d
      <4>1. d < x => n * d + n <= n * x
        BY Multiples
      <4>2. d = x => n * d = n * x
        OBVIOUS
      <4>3. n * d \in Nat /\ n * x \in Nat
        OBVIOUS
      <4> QED
        BY <2>1, <3>1, <4>1, <4>2, <4>3
    <3>3. n * x + n <= n * d
      BY <3>2, Multiples
    <3> QED
      BY <2>1, <3>1, <3>3
  <2>6. k \in index .. (index + BITS_TO_LONGS(n) - 1) <=> k = index
    BY <1>5, <2>4
  <2>7. Shl(0 .. n - 1, s) = s .. s + n - 1
    <3>1. \A i \in 0 .. n - 1 : i + s \in s .. s + n - 1 /\ i + s \in 0 .. u - 1
      BY <2>5
    <3>2. \A j \in s .. s + n - 1 : j - s \in 0 .. n - 1 /\ (j - s) + s = j
      OBVIOUS
    <3>3. {i + s : i \in 0 .. n - 1} = s .. s + n - 1
      BY <3>1, <3>2
    <3> QED
      BY <1>5, <3>1, <3>2, <3>3 DEF Shl
  <2>8. r \in RegionMask(pos, order)[k] <=> k = index /\ s <= r /\ r < s + n
    BY <1>5, <1>9, <2>3, <2>6, <2>7
  <2>9. At(k, r) \in pos .. pos + n - 1 <=> iu + s <= ku + r /\ ku + r < iu + s + n
    BY <1>5, <1>7
  <2>10. k < index \/ k = index \/ index < k
    BY <1>5
  <2> QED
    BY <1>2, <1>5, <1>6, <2>5, <2>8, <2>9, <2>10
<1>11. CASE e < order
  <2>1. PICK d \in Nat \ {0} : n = u * d
    BY <1>1, <1>2, <1>11, Powers
  <2>2. u <= n
    <3>1. PICK c \in Nat : d = c + 1
      <4>1. d - 1 \in Nat
        OBVIOUS
      <4> QED
        BY <4>1
    <3>2. u * d = u * c + u /\ u * c \in Nat
      BY <3>1
    <3> QED
      BY <2>1, <3>2
  <2>3. Min({n, u}) = u
    <3>1. {n, u} \subseteq Int /\ u \in {n, u} /\ \A x \in {n, u} : u <= x
      BY <2>2
    <3> QED
      BY <3>1, MinIs
  <2>4. BITS_TO_LONGS(n) = d
    <3>1. PICK t \in Nat : t = n + u - 1 /\ t = u * d + (u - 1) /\ u - 1 \in 0 .. u - 1
      BY <2>1
    <3>2. Leaves(t, u, d, u - 1) /\ Leaves(t, u, t \div u, t % u)
      <4>1. Leaves(t, u, d, u - 1)
        BY <3>1 DEF Leaves
      <4> QED
        BY <4>1, LeavesRest
    <3>3. u - 1 = t % u
      BY <3>2, LeavesOne
    <3>4. PICK q \in Nat : q = t \div u /\ t = u * q + (u - 1)
      BY <3>2, <3>3 DEF Leaves
    <3>5. u * q = u * d
      <4>1. u * q \in Nat /\ u * d \in Nat
        OBVIOUS
      <4> QED
        BY <3>1, <3>4, <4>1
    <3>6. q = d
      <4>1. q < d => u * q + u <= u * d
        BY Multiples
      <4>2. d < q => u * d + u <= u * q
        BY Multiples
      <4>3. u * q \in Nat /\ u * d \in Nat
        OBVIOUS
      <4> QED
        BY <3>5, <4>1, <4>2, <4>3
    <3> QED
      BY <1>8, <3>1, <3>4, <3>6
  <2>5. s = 0
    <3>1. PICK dy \in Nat : dy = d * y
      OBVIOUS
    <3>2. pos = u * dy + 0
      <4>1. n * y = u * dy
        BY <2>1, <3>1
      <4>2. u * dy \in Nat
        OBVIOUS
      <4> QED
        BY <1>4, <4>1, <4>2
    <3>3. Leaves(pos, u, dy, 0)
      BY <3>2 DEF Leaves
    <3>4. Leaves(pos, u, index, s)
      <4>1. index * u = u * index
        OBVIOUS
      <4> QED
        BY <1>3, <4>1 DEF Leaves
    <3> QED
      BY <3>3, <3>4, LeavesOne
  <2>6. PICK z \in Nat, zu \in Nat :
          /\ z = index + d /\ zu = z * u /\ zu = iu + n
          /\ k < z => ku + u <= zu
          /\ z < k => zu + u <= ku
          /\ k = z => ku = zu
    <3>1. PICK z \in Nat : z = index + d
      OBVIOUS
    <3>2. z * u = index * u + u * d /\ z * u \in Nat /\ z * u = u * z /\ k * u = u * k
      BY <1>5, <3>1
    <3>3. k < z => u * k + u <= u * z
      BY <1>5, Multiples
    <3>4. z < k => u * z + u <= u * k
      BY <1>5, Multiples
    <3> QED
      BY <1>6, <2>1, <3>1, <3>2, <3>3, <3>4
  <2>7. Shl(0 .. u - 1, 0) = 0 .. u - 1
    <3>1. {i + 0 : i \in 0 .. u - 1} = 0 .. u - 1
      OBVIOUS
    <3> QED
      BY <1>5, <3>1 DEF Shl
  <2>8. r \in RegionMask(pos, order)[k] <=> index <= k /\ k < z
    <3>1. k \in index .. (index + BITS_TO_LONGS(n) - 1) <=> index <= k /\ k < z
      BY <1>5, <2>4, <2>6
    <3> QED
      BY <1>5, <1>9, <2>3, <2>5, <2>7, <3>1
  <2>9. At(k, r) \in pos .. pos + n - 1 <=> iu <= ku + r /\ ku + r < iu + n
    BY <1>5, <1>7, <2>5
  <2>10. (k < index \/ k = index \/ index < k) /\ (k < z \/ k = z \/ z < k)
    BY <1>5
  <2> QED
    BY <1>2, <1>5, <1>6, <2>6, <2>8, <2>9, <2>10
<1> QED
  BY <1>10, <1>11


-----------------------------------------------------------------------------
\* A region within the size is the range of its bits, it is free if the bitmap has none of
\* them, and allocating and releasing it (__reg_op, bitmap.c:1094-1111) adds and takes them.
LEMMA RegionIs ==
  ASSUME NEW b \in Words, NEW pos \in Nat, NEW order \in Nat, pos % 2^order = 0, pos + 2^order <= bits
  PROVE  /\ ISFREE(b, pos, order) <=> SetOf(b) \cap (pos .. pos + 2^order - 1) = {}
         /\ SetOf(ALLOC(b, pos, order)) = SetOf(b) \cup (pos .. pos + 2^order - 1)
         /\ SetOf(RELEASE(b, pos, order)) = SetOf(b) \ (pos .. pos + 2^order - 1)
         /\ Clean(b) => Clean(ALLOC(b, pos, order)) /\ Clean(RELEASE(b, pos, order))
<1>1. 2^order \in Nat \ {0}
  BY Powers
<1> DEFINE R == pos .. pos + 2^order - 1
           mask == RegionMask(pos, order)
<1>2. mask \in Words
  BY Operations
<1>3. R \in SUBSET Bit
  <2>1. PICK n \in Nat \ {0} : n = 2^order
    BY <1>1
  <2>2. bits \in Nat
    BY Sizes
  <2> QED
    BY <2>1, <2>2 DEF Bit
<1>4. \A k \in Long, r \in InLong : r \in mask[k] <=> At(k, r) \in R
  BY InRegion
<1> HIDE DEF R, mask
<1>5. SetOf(mask) = R
  <2>1. \A k \in Long, r \in InLong : At(k, r) \in Bit => (r \in mask[k] <=> At(k, r) \in R)
    BY <1>4
  <2> QED
    BY <1>3, <2>1, SetIs, Zenon
<1>6. \A k \in Long : mask[k] \subseteq Used(k)
  <2>1. ASSUME NEW k \in Long, NEW r \in mask[k]
        PROVE  r \in Used(k)
    <3>1. r \in InLong
      BY <1>2 DEF Words
    <3>2. At(k, r) \in Bit
      BY <1>3, <1>4, <3>1
    <3> QED
      BY <3>1, <3>2, Everywhere
  <2> QED
    BY <2>1
<1>7. Clean(mask)
  BY <1>6 DEF Clean
<1>8. ISFREE(b, pos, order) <=> SetOf(b) \cap R = {}
  <2>1. bitmap_and(b, mask) \in Words
    BY <1>2, Operations
  <2>2. Clean(bitmap_and(b, mask))
    BY <1>6 DEF Clean, bitmap_and
  <2>3. SetOf(bitmap_and(b, mask)) = SetOf(b) \cap R
    BY <1>2, <1>5, Algebraic, Zenon
  <2>4. SetOf(bitmap_zero) = {} /\ Clean(bitmap_zero) /\ bitmap_zero \in Words
    BY Constants
  <2>5. bitmap_and(b, mask) = bitmap_zero <=> SetOf(b) \cap R = {}
    BY <2>1, <2>2, <2>3, <2>4, CleanAreEqual, Zenon
  <2> QED
    BY <2>5, Zenon DEF ISFREE, mask
<1>9. /\ SetOf(ALLOC(b, pos, order)) = SetOf(b) \cup R
      /\ SetOf(RELEASE(b, pos, order)) = SetOf(b) \ R
      /\ Clean(b) => Clean(ALLOC(b, pos, order)) /\ Clean(RELEASE(b, pos, order))
  <2>1. /\ SetOf(bitmap_or(b, mask)) = SetOf(b) \cup R
        /\ SetOf(bitmap_andnot(b, mask)) = SetOf(b) \ R
        /\ Clean(b) => Clean(bitmap_or(b, mask)) /\ Clean(bitmap_andnot(b, mask))
    BY <1>2, <1>5, <1>7, Algebraic, Zenon
  <2> QED
    BY <2>1, Zenon DEF ALLOC, RELEASE, mask
<1> QED
  BY <1>8, <1>9, Zenon DEF R

\* What bitmap_find_free_region() finds are the aligned places of free bits.
LEMMA FreeIs ==
  ASSUME NEW b \in Words, NEW order \in Nat
  PROVE  {pos \in Candidates(order) : ISFREE(b, pos, order)} =
           {pos \in Bit : /\ pos % 2^order = 0
                          /\ pos .. pos + 2^order - 1 \subseteq Bit \ SetOf(b)}
<1>1. bits \in Nat /\ \A i \in Bit : i \in Nat
  BY Sizes DEF Bit
<1>2. PICK n \in Nat \ {0} : n = 2^order
  BY Powers
<1>3. ASSUME NEW pos \in Bit, pos % 2^order = 0
      PROVE  pos + 2^order <= bits /\ ISFREE(b, pos, order) <=>
               pos .. pos + 2^order - 1 \subseteq Bit \ SetOf(b)
  <2>1. pos \in Nat
    BY <1>1
  <2>2. pos + 2^order <= bits <=> pos .. pos + n - 1 \subseteq Bit
    <3>1. pos + n <= bits => pos .. pos + n - 1 \subseteq Bit
      BY <1>1, <2>1 DEF Bit
    <3>2. pos .. pos + n - 1 \subseteq Bit => pos + n <= bits
      <4>1. pos + n - 1 \in pos .. pos + n - 1
        BY <2>1
      <4>2. pos + n - 1 \in Bit => pos + n - 1 < bits
        BY <1>1, <2>1 DEF Bit
      <4> QED
        BY <1>1, <2>1, <4>1, <4>2
    <3> QED
      BY <1>2, <3>1, <3>2
  <2>3. pos + 2^order <= bits =>
          (ISFREE(b, pos, order) <=> SetOf(b) \cap (pos .. pos + 2^order - 1) = {})
    BY <1>3, <2>1, RegionIs, Zenon
  <2> DEFINE R == pos .. pos + 2^order - 1
  <2>4. pos .. pos + n - 1 = R
    BY <1>2
  <2> HIDE DEF R
  <2>5. pos + 2^order <= bits <=> R \subseteq Bit
    BY <2>2, <2>4
  <2>6. pos + 2^order <= bits => (ISFREE(b, pos, order) <=> SetOf(b) \cap R = {})
    BY <2>3, Zenon DEF R
  <2>7. pos + 2^order <= bits /\ ISFREE(b, pos, order) <=> R \subseteq Bit \ SetOf(b)
    <3>1. R \subseteq Bit \ SetOf(b) <=> R \subseteq Bit /\ SetOf(b) \cap R = {}
      OBVIOUS
    <3> QED
      BY <2>5, <2>6, <3>1, Zenon
  <2> QED
    BY <2>7, Zenon DEF R
<1> QED
  BY <1>3, Zenon DEF Candidates


-----------------------------------------------------------------------------
\* The calls of BitSet are those of Bitmap, on the sets of the bitmaps.
LEMMA CallIs ==
  ASSUME NEW fn, NEW n, NEW with, call' = [fn |-> fn, n |-> n, with |-> with]
  PROVE  /\ \A name : BitSet!Fn(name) <=> fn = name
         /\ \A k : BitSet!N(k) = n[k]
         /\ \A k \in DOMAIN with : BitSet!With(k) = SetOf(with[k])
<1>1. call'.fn = fn /\ call'.n = n /\ call'.with = with
  OBVIOUS
<1> QED
  BY <1>1 DEF BitSet!Fn, BitSet!N, BitSet!With

\* What a call leaves, and what it answers unless it is bitmap_and() or bitmap_andnot().
LEMMA Called ==
  ASSUME NEW fn, NEW n, NEW with, NEW made, NEW answer, Call(fn, n, with, made, answer)
  PROVE  /\ \A name : BitSet!Fn(name) <=> fn = name
         /\ \A k : BitSet!N(k) = n[k]
         /\ \A k \in DOMAIN with : BitSet!With(k) = SetOf(with[k])
         /\ SetOf(bitmap)' = SetOf(made)
         /\ fn \notin {"bitmap_and", "bitmap_andnot"} => Answer' = answer
         /\ call = NoCall
<1>1. call' = [fn |-> fn, n |-> n, with |-> with] /\ bitmap' = made /\ ret' = answer
  BY DEF Call
<1>2. call'.fn = fn
  BY <1>1
<1>3. SetOf(bitmap)' = SetOf(bitmap')
  OBVIOUS
<1>4. fn \notin {"bitmap_and", "bitmap_andnot"} => Answer' = answer
  BY <1>1, <1>2 DEF Answer
<1>5. call = NoCall
  BY DEF Call
<1> QED
  BY <1>1, <1>3, <1>4, <1>5, CallIs

\* No call is no call of BitSet.
LEMMA NoCallIs ==
  /\ [NoCall EXCEPT !.with = [i \in DOMAIN NoCall.with |-> SetOf(NoCall.with[i])]] = BitSet!NoCall
<1>1. NoCall.with = << >> /\ DOMAIN << >> = {}
  BY DEF NoCall
<1>2. [i \in {} |-> SetOf(<< >>[i])] = << >>
  OBVIOUS
<1> QED
  BY <1>1, <1>2 DEF NoCall, BitSet!NoCall


\* A call that answers nothing.
LEMMA CalledVoid ==
  ASSUME NEW fn, NEW n, NEW with, NEW made, Call(fn, n, with, made, "void"),
         fn \notin {"bitmap_and", "bitmap_andnot"}, NEW S, SetOf(made) = S
  PROVE  BitSet!Becomes(S)
<1>1. SetOf(bitmap)' = S /\ Answer' = "void"
  BY Called
<1> QED
  BY <1>1 DEF BitSet!Becomes

\* A call that leaves the bitmap as it is.
LEMMA CalledOnly ==
  ASSUME NEW fn, NEW n, NEW with, NEW answer, Call(fn, n, with, bitmap, answer),
         fn \notin {"bitmap_and", "bitmap_andnot"}
  PROVE  BitSet!Returns(answer)
<1>1. SetOf(bitmap)' = SetOf(bitmap) /\ Answer' = answer
  BY Called
<1> QED
  BY <1>1 DEF BitSet!Returns

\* The results of bitmap_and() and bitmap_andnot() are empty if their words are.
LEMMA AnswerOfAnd ==
  ASSUME NEW fn \in {"bitmap_and", "bitmap_andnot"}, NEW n, NEW with, NEW made \in Words,
         Call(fn, n, with, made, made # bitmap_zero)
  PROVE  Answer' = (SetOf(made) # {})
<1>1. call' = [fn |-> fn, n |-> n, with |-> with] /\ bitmap' = made /\ ret' = (made # bitmap_zero)
  BY DEF Call
<1>2. call'.fn = fn
  BY <1>1
<1>3. SetOf(bitmap_zero) = {} /\ Clean(bitmap_zero) /\ bitmap_zero \in Words
  BY Constants
<1>4. Clean(made) => (made # bitmap_zero <=> SetOf(made) # {})
  BY <1>3, CleanAreEqual, Zenon
<1>5. Answer' = IF ~Clean(made) THEN SetOf(made) # {} ELSE made # bitmap_zero
  <2>1. Answer' = IF call'.fn \in {"bitmap_and", "bitmap_andnot"} /\ ~Clean(bitmap')
                  THEN SetOf(bitmap') # {} ELSE ret'
    BY DEF Answer
  <2> QED
    BY <1>1, <1>2, <2>1
<1> QED
  BY <1>4, <1>5


-----------------------------------------------------------------------------
\* Each call does and answers what it does on sets (bitmap.c:45-52).  Those of the first two
\* kinds make a bitmap.
LEMMA AlgebraDoes == ASSUME TypeOK, Algebra \/ Algebra2 PROVE BitSet!Algebra
<1>1. bitmap \in Words /\ Others \subseteq Words
  BY BitmapAssumption DEF TypeOK, Words
<1>2. CASE Algebra
  <2>1. CASE Does("bitmap_zero", bitmap_zero)
    <3>1. Call("bitmap_zero", << >>, << >>, bitmap_zero, "void")
      BY <2>1 DEF Does
    <3>2. SetOf(bitmap_zero) = {}
      BY Constants
    <3>3. BitSet!Fn("bitmap_zero") /\ BitSet!Becomes(SetOf(bitmap_zero))
      BY <3>1, Called, CalledVoid
    <3> QED
      BY <3>2, <3>3 DEF BitSet!Algebra
  <2>2. CASE Does("bitmap_fill", bitmap_fill)
    <3>1. Call("bitmap_fill", << >>, << >>, bitmap_fill, "void")
      BY <2>2 DEF Does
    <3>2. BitSet!Fn("bitmap_fill") /\ BitSet!Becomes(Bit)
      BY <3>1, Called, CalledVoid, Constants
    <3> QED
      BY <3>2 DEF BitSet!Algebra, BitSet!Bit, Bit
  <2>3. CASE Does("bitmap_complement", bitmap_complement(bitmap))
    <3>1. Call("bitmap_complement", << >>, << >>, bitmap_complement(bitmap), "void")
      BY <2>3 DEF Does
    <3>2. SetOf(bitmap_complement(bitmap)) = Bit \ SetOf(bitmap)
      BY <1>1, Algebraic
    <3>3. BitSet!Fn("bitmap_complement") /\ BitSet!Becomes(SetOf(bitmap_complement(bitmap)))
      BY <3>1, Called, CalledVoid
    <3> QED
      BY <3>2, <3>3 DEF BitSet!Algebra, BitSet!Bit, Bit
  <2> QED
    BY <1>2, <2>1, <2>2, <2>3 DEF Algebra
<1>3. ASSUME NEW b \in Others,
             \/ Call("bitmap_copy", << >>, << b >>, b, "void")
             \/ Call("bitmap_or", << >>, << b >>, bitmap_or(bitmap, b), "void")
             \/ Call("bitmap_xor", << >>, << b >>, bitmap_xor(bitmap, b), "void")
             \/ Call("bitmap_and", << >>, << b >>, bitmap_and(bitmap, b),
                     bitmap_and(bitmap, b) # bitmap_zero)
             \/ Call("bitmap_andnot", << >>, << b >>, bitmap_andnot(bitmap, b),
                     bitmap_andnot(bitmap, b) # bitmap_zero)
      PROVE  BitSet!Algebra
  <2>0. 1 \in DOMAIN << b >> /\ << b >>[1] = b /\ b \in Words
    BY <1>1
  <2>1. CASE Call("bitmap_copy", << >>, << b >>, b, "void")
    <3>1. BitSet!Fn("bitmap_copy") /\ BitSet!With(1) = SetOf(b) /\ BitSet!Becomes(SetOf(b))
      BY <2>0, <2>1, Called, CalledVoid
    <3> QED
      BY <3>1 DEF BitSet!Algebra
  <2>2. CASE Call("bitmap_or", << >>, << b >>, bitmap_or(bitmap, b), "void")
    <3>1. BitSet!Fn("bitmap_or") /\ BitSet!With(1) = SetOf(b)
      BY <2>0, <2>2, Called
    <3>2. SetOf(bitmap_or(bitmap, b)) = SetOf(bitmap) \cup SetOf(b)
      BY <1>1, <2>0, Algebraic
    <3>3. BitSet!Becomes(SetOf(bitmap_or(bitmap, b)))
      BY <2>2, CalledVoid
    <3> QED
      BY <3>1, <3>2, <3>3 DEF BitSet!Algebra
  <2>3. CASE Call("bitmap_xor", << >>, << b >>, bitmap_xor(bitmap, b), "void")
    <3>1. BitSet!Fn("bitmap_xor") /\ BitSet!With(1) = SetOf(b)
      BY <2>0, <2>3, Called
    <3>2. SetOf(bitmap_xor(bitmap, b)) = (SetOf(bitmap) \ SetOf(b)) \cup (SetOf(b) \ SetOf(bitmap))
      BY <1>1, <2>0, Algebraic
    <3>3. BitSet!Becomes(SetOf(bitmap_xor(bitmap, b)))
      BY <2>3, CalledVoid
    <3> QED
      BY <3>1, <3>2, <3>3 DEF BitSet!Algebra
  <2>4. CASE Call("bitmap_and", << >>, << b >>, bitmap_and(bitmap, b),
                  bitmap_and(bitmap, b) # bitmap_zero)
    <3>1. BitSet!Fn("bitmap_and") /\ BitSet!With(1) = SetOf(b)
      BY <2>0, <2>4, Called
    <3>2. bitmap_and(bitmap, b) \in Words
      BY <1>1, <2>0, Operations
    <3>3. /\ SetOf(bitmap)' = SetOf(bitmap_and(bitmap, b))
          /\ Answer' = (SetOf(bitmap_and(bitmap, b)) # {})
      BY <2>4, <3>2, Called, AnswerOfAnd
    <3>4. SetOf(bitmap_and(bitmap, b)) = SetOf(bitmap) \cap SetOf(b)
      BY <1>1, <2>0, Algebraic
    <3> QED
      BY <3>1, <3>3, <3>4 DEF BitSet!Algebra
  <2>5. CASE Call("bitmap_andnot", << >>, << b >>, bitmap_andnot(bitmap, b),
                  bitmap_andnot(bitmap, b) # bitmap_zero)
    <3>1. BitSet!Fn("bitmap_andnot") /\ BitSet!With(1) = SetOf(b)
      BY <2>0, <2>5, Called
    <3>2. bitmap_andnot(bitmap, b) \in Words
      BY <1>1, <2>0, Operations
    <3>3. /\ SetOf(bitmap)' = SetOf(bitmap_andnot(bitmap, b))
          /\ Answer' = (SetOf(bitmap_andnot(bitmap, b)) # {})
      BY <2>5, <3>2, Called, AnswerOfAnd
    <3>4. SetOf(bitmap_andnot(bitmap, b)) = SetOf(bitmap) \ SetOf(b)
      BY <1>1, <2>0, Algebraic
    <3> QED
      BY <3>1, <3>3, <3>4 DEF BitSet!Algebra
  <2> QED
    BY <1>3, <2>1, <2>2, <2>3, <2>4, <2>5
<1> QED
  BY <1>2, <1>3, Zenon DEF Algebra2

\* Questions have the answers they have of the sets.
LEMMA TestsDo == ASSUME TypeOK, Tests PROVE BitSet!Questions
<1>1. bitmap \in Words /\ Others \subseteq Words
  BY BitmapAssumption DEF TypeOK, Words
<1>2. CASE Tells("bitmap_empty", bitmap_empty(bitmap))
  <2>1. Call("bitmap_empty", << >>, << >>, bitmap, bitmap_empty(bitmap))
    BY <1>2, Zenon DEF Tells
  <2>2. SetOf(bitmap)' = SetOf(bitmap) /\ Answer' = bitmap_empty(bitmap)
    <3>1. BitSet!Returns(bitmap_empty(bitmap))
      BY <2>1, CalledOnly
    <3> QED
      BY <3>1, Zenon DEF BitSet!Returns
  <2>3. bitmap_empty(bitmap) = (SetOf(bitmap) = {})
    BY <1>1, Questions DEF bitmap_empty
  <2>4. BitSet!Fn("bitmap_empty") /\ Answer' = (SetOf(bitmap) = {})
    BY <2>1, <2>2, <2>3, Called, Zenon
  <2> QED
    BY <2>2, <2>4 DEF BitSet!Questions, BitSet!Returns
<1>3. CASE Tells("bitmap_full", bitmap_full(bitmap))
  <2>1. Call("bitmap_full", << >>, << >>, bitmap, bitmap_full(bitmap))
    BY <1>3, Zenon DEF Tells
  <2>2. SetOf(bitmap)' = SetOf(bitmap) /\ Answer' = bitmap_full(bitmap)
    <3>1. BitSet!Returns(bitmap_full(bitmap))
      BY <2>1, CalledOnly
    <3> QED
      BY <3>1, Zenon DEF BitSet!Returns
  <2>3. bitmap_full(bitmap) = (SetOf(bitmap) = Bit)
    BY <1>1, Questions DEF bitmap_full
  <2>4. BitSet!Fn("bitmap_full") /\ Answer' = (SetOf(bitmap) = Bit)
    BY <2>1, <2>2, <2>3, Called, Zenon
  <2> QED
    BY <2>2, <2>4 DEF BitSet!Questions, BitSet!Returns, BitSet!Bit, Bit
<1>4. CASE Tells("bitmap_weight", bitmap_weight(bitmap))
  <2>1. Call("bitmap_weight", << >>, << >>, bitmap, bitmap_weight(bitmap))
    BY <1>4, Zenon DEF Tells
  <2>2. bitmap_weight(bitmap) = BitSet!Cardinality(SetOf(bitmap))
    BY <1>1, WeightIs, SameSets
  <2>3. BitSet!Fn("bitmap_weight") /\ BitSet!Returns(bitmap_weight(bitmap))
    BY <2>1, Called, CalledOnly
  <2> QED
    BY <2>2, <2>3 DEF BitSet!Questions
<1>5. ASSUME NEW b \in Others, Call("bitmap_equal", << >>, << b >>, bitmap, bitmap_equal(bitmap, b))
      PROVE  BitSet!Questions
  <2>1. 1 \in DOMAIN << b >> /\ << b >>[1] = b /\ b \in Words
    BY <1>1
  <2>2. SetOf(bitmap)' = SetOf(bitmap) /\ Answer' = bitmap_equal(bitmap, b)
    <3>1. BitSet!Returns(bitmap_equal(bitmap, b))
      BY <1>5, CalledOnly
    <3> QED
      BY <3>1, Zenon DEF BitSet!Returns
  <2>3. bitmap_equal(bitmap, b) = (SetOf(bitmap) = SetOf(b))
    BY <1>1, <2>1, Questions DEF bitmap_equal
  <2>4. BitSet!Fn("bitmap_equal") /\ BitSet!With(1) = SetOf(b)
    BY <1>5, <2>1, Called
  <2>5. Answer' = (SetOf(bitmap) = SetOf(b))
    BY <2>2, <2>3, Zenon
  <2> QED
    BY <2>2, <2>4, <2>5 DEF BitSet!Questions, BitSet!Returns
<1>6. ASSUME NEW b \in Others,
             Call("bitmap_intersects", << >>, << b >>, bitmap, bitmap_intersects(bitmap, b))
      PROVE  BitSet!Questions
  <2>1. 1 \in DOMAIN << b >> /\ << b >>[1] = b /\ b \in Words
    BY <1>1
  <2>2. SetOf(bitmap)' = SetOf(bitmap) /\ Answer' = bitmap_intersects(bitmap, b)
    <3>1. BitSet!Returns(bitmap_intersects(bitmap, b))
      BY <1>6, CalledOnly
    <3> QED
      BY <3>1, Zenon DEF BitSet!Returns
  <2>3. bitmap_intersects(bitmap, b) = (SetOf(bitmap) \cap SetOf(b) # {})
    BY <1>1, <2>1, Questions DEF bitmap_intersects
  <2>4. BitSet!Fn("bitmap_intersects") /\ BitSet!With(1) = SetOf(b)
    BY <1>6, <2>1, Called
  <2>5. Answer' = (SetOf(bitmap) \cap SetOf(b) # {})
    BY <2>2, <2>3, Zenon
  <2> QED
    BY <2>2, <2>4, <2>5 DEF BitSet!Questions, BitSet!Returns
<1>7. ASSUME NEW b \in Others, Call("bitmap_subset", << >>, << b >>, bitmap, bitmap_subset(bitmap, b))
      PROVE  BitSet!Questions
  <2>1. 1 \in DOMAIN << b >> /\ << b >>[1] = b /\ b \in Words
    BY <1>1
  <2>2. SetOf(bitmap)' = SetOf(bitmap) /\ Answer' = bitmap_subset(bitmap, b)
    <3>1. BitSet!Returns(bitmap_subset(bitmap, b))
      BY <1>7, CalledOnly
    <3> QED
      BY <3>1, Zenon DEF BitSet!Returns
  <2>3. bitmap_subset(bitmap, b) = (SetOf(bitmap) \subseteq SetOf(b))
    BY <1>1, <2>1, Questions DEF bitmap_subset
  <2>4. BitSet!Fn("bitmap_subset") /\ BitSet!With(1) = SetOf(b)
    BY <1>7, <2>1, Called
  <2>5. Answer' = (SetOf(bitmap) \subseteq SetOf(b))
    BY <2>2, <2>3, Zenon
  <2> QED
    BY <2>2, <2>4, <2>5 DEF BitSet!Questions, BitSet!Returns
<1> QED
  BY <1>2, <1>3, <1>4, <1>5, <1>6, <1>7, Zenon DEF Tests


\* Shifts and ranges move and change the bits of the sets.
LEMMA ShiftsDo == ASSUME TypeOK, Shifts PROVE BitSet!Moves
<1>1. bitmap \in Words
  BY DEF TypeOK, Words
<1>2. ASSUME NEW n \in 0 .. bits
      PROVE  n \in Nat /\ n <= lim * BITS_PER_LONG
  <2>1. lim * BITS_PER_LONG \in Nat
    BY Sizes
  <2> QED
    BY <2>1, Sizes
<1>3. ASSUME NEW n \in 0 .. bits,
             Call("bitmap_shift_right", << n >>, << >>, bitmap_shift_right(bitmap, n), "void")
      PROVE  BitSet!Moves
  <2>1. SetOf(bitmap_shift_right(bitmap, n)) = {i - n : i \in SetOf(bitmap)} \cap Bit
    BY <1>1, <1>2, RightShifted
  <2>2. /\ BitSet!Fn("bitmap_shift_right")
        /\ BitSet!Becomes(SetOf(bitmap_shift_right(bitmap, n)))
    BY <1>3, Called, CalledVoid
  <2>3. BitSet!N(1) = n
    BY <1>3, Called
  <2> QED
    BY <2>1, <2>2, <2>3 DEF BitSet!Moves, BitSet!Bit, Bit
<1>4. ASSUME NEW n \in 0 .. bits,
             Call("bitmap_shift_left", << n >>, << >>, bitmap_shift_left(bitmap, n), "void")
      PROVE  BitSet!Moves
  <2>1. SetOf(bitmap_shift_left(bitmap, n)) = {i + n : i \in SetOf(bitmap)} \cap Bit
    BY <1>1, <1>2, LeftShifted
  <2>2. /\ BitSet!Fn("bitmap_shift_left")
        /\ BitSet!Becomes(SetOf(bitmap_shift_left(bitmap, n)))
    BY <1>4, Called, CalledVoid
  <2>3. BitSet!N(1) = n
    BY <1>4, Called
  <2> QED
    BY <2>1, <2>2, <2>3 DEF BitSet!Moves, BitSet!Bit, Bit
<1> QED
  BY <1>3, <1>4, Zenon DEF Shifts

\* Ranges are added to the set, or taken from it.
LEMMA RangesDo == ASSUME TypeOK, Ranges PROVE BitSet!Moves
<1>1. bitmap \in Words
  BY DEF TypeOK, Words
<1>2. ASSUME NEW start \in Bit, NEW nr \in 0 .. bits - start
      PROVE  start \in Nat /\ nr \in Nat /\ start + nr <= bits
  BY Sizes DEF Bit
<1>3. ASSUME NEW start \in Bit, NEW nr \in 0 .. bits - start,
             Call("bitmap_set", << start, nr >>, << >>, bitmap_set(bitmap, start, nr), "void")
      PROVE  BitSet!Moves
  <2>1. SetOf(bitmap_set(bitmap, start, nr)) = SetOf(bitmap) \cup (start .. start + nr - 1)
    BY <1>1, <1>2, RangesAre
  <2>2. BitSet!Fn("bitmap_set") /\ BitSet!Becomes(SetOf(bitmap_set(bitmap, start, nr)))
    BY <1>3, Called, CalledVoid
  <2>3. BitSet!N(1) = start /\ BitSet!N(2) = nr
    BY <1>3, Called
  <2> QED
    BY <2>1, <2>2, <2>3 DEF BitSet!Moves
<1>4. ASSUME NEW start \in Bit, NEW nr \in 0 .. bits - start,
             Call("bitmap_clear", << start, nr >>, << >>, bitmap_clear(bitmap, start, nr), "void")
      PROVE  BitSet!Moves
  <2>1. SetOf(bitmap_clear(bitmap, start, nr)) = SetOf(bitmap) \ (start .. start + nr - 1)
    BY <1>1, <1>2, RangesAre
  <2>2. BitSet!Fn("bitmap_clear") /\ BitSet!Becomes(SetOf(bitmap_clear(bitmap, start, nr)))
    BY <1>4, Called, CalledVoid
  <2>3. BitSet!N(1) = start /\ BitSet!N(2) = nr
    BY <1>4, Called
  <2> QED
    BY <2>1, <2>2, <2>3 DEF BitSet!Moves
<1> QED
  BY <1>3, <1>4, Zenon DEF Ranges

\* A search finds the first bit of the set that is not before the offset.
LEMMA BitSearchesDo ==
  ASSUME TypeOK,
         \/ Tells("find_first_bit", find_first_bit(bitmap, bits))
         \/ Tells("find_first_zero_bit", find_first_zero_bit(bitmap, bits))
         \/ \E n \in 0 .. bits :
              \/ Call("find_next_bit", << n >>, << >>, bitmap, find_next_bit(bitmap, bits, n))
              \/ Call("find_next_zero_bit", << n >>, << >>, bitmap,
                      find_next_zero_bit(bitmap, bits, n))
  PROVE  BitSet!Questions
<1>1. bitmap \in Words /\ bits \in Nat
  BY Sizes DEF TypeOK, Words
<1>2. ASSUME NEW S \in SUBSET Bit
      PROVE  {i \in S : i >= 0} = S
  <2>1. \A i \in Bit : i >= 0
    BY <1>1 DEF Bit
  <2> QED
    BY <2>1
<1>3. SetOf(bitmap) \in SUBSET Bit /\ Bit \ SetOf(bitmap) \in SUBSET Bit
  BY DEF SetOf
<1>4. ASSUME NEW n \in Nat
      PROVE  /\ find_next_bit(bitmap, bits, n) =
                  BitSet!FirstOf({i \in SetOf(bitmap) : i >= n}, bits)
             /\ find_next_zero_bit(bitmap, bits, n) =
                  BitSet!FirstOf({i \in Bit \ SetOf(bitmap) : i >= n}, bits)
  <2>1. /\ IsFirst(find_next_bit(bitmap, bits, n), SetOf(bitmap), bits, n)
        /\ IsFirst(find_next_zero_bit(bitmap, bits, n), Bit \ SetOf(bitmap), bits, n)
    BY <1>1, SearchesFind
  <2>2. find_next_bit(bitmap, bits, n) = Min({i \in SetOf(bitmap) : i >= n} \cup {bits})
    BY <1>3, <2>1, FirstIs, Zenon
  <2>3. find_next_zero_bit(bitmap, bits, n) = Min({i \in Bit \ SetOf(bitmap) : i >= n} \cup {bits})
    BY <1>3, <2>1, FirstIs, Zenon
  <2>4. \A S : BitSet!FirstOf(S, bits) = Min(S \cup {bits})
    BY SameSets, Zenon DEF BitSet!FirstOf
  <2> QED
    BY <2>2, <2>3, <2>4, Zenon
<1>5. CASE Tells("find_first_bit", find_first_bit(bitmap, bits))
  <2>1. Call("find_first_bit", << >>, << >>, bitmap, find_first_bit(bitmap, bits))
    BY <1>5 DEF Tells
  <2>2. find_first_bit(bitmap, bits) = BitSet!FirstOf(SetOf(bitmap), bits)
    <3>1. find_first_bit(bitmap, bits) = BitSet!FirstOf({i \in SetOf(bitmap) : i >= 0}, bits)
      BY <1>4 DEF find_first_bit
    <3>2. {i \in SetOf(bitmap) : i >= 0} = SetOf(bitmap)
      BY <1>2, <1>3
    <3> QED
      BY <3>1, <3>2, Zenon
  <2>3. BitSet!Fn("find_first_bit") /\ BitSet!Returns(find_first_bit(bitmap, bits))
    BY <2>1, Called, CalledOnly
  <2> QED
    BY <2>2, <2>3 DEF BitSet!Questions
<1>6. CASE Tells("find_first_zero_bit", find_first_zero_bit(bitmap, bits))
  <2>1. Call("find_first_zero_bit", << >>, << >>, bitmap, find_first_zero_bit(bitmap, bits))
    BY <1>6 DEF Tells
  <2>2. find_first_zero_bit(bitmap, bits) = BitSet!FirstOf(Bit \ SetOf(bitmap), bits)
    <3>1. find_first_zero_bit(bitmap, bits) =
            BitSet!FirstOf({i \in Bit \ SetOf(bitmap) : i >= 0}, bits)
      BY <1>4 DEF find_first_zero_bit
    <3>2. {i \in Bit \ SetOf(bitmap) : i >= 0} = Bit \ SetOf(bitmap)
      BY <1>2, <1>3
    <3> QED
      BY <3>1, <3>2, Zenon
  <2>3. BitSet!Fn("find_first_zero_bit") /\ BitSet!Returns(find_first_zero_bit(bitmap, bits))
    BY <2>1, Called, CalledOnly
  <2> QED
    BY <2>2, <2>3 DEF BitSet!Questions, BitSet!Bit, Bit
<1>7. ASSUME NEW n \in 0 .. bits,
             Call("find_next_bit", << n >>, << >>, bitmap, find_next_bit(bitmap, bits, n))
      PROVE  BitSet!Questions
  <2>0. n \in Nat
    BY <1>1
  <2>1. find_next_bit(bitmap, bits, n) = BitSet!FirstOf({i \in SetOf(bitmap) : i >= n}, bits)
    BY <1>4, <2>0, Zenon
  <2>2. BitSet!Fn("find_next_bit") /\ BitSet!Returns(find_next_bit(bitmap, bits, n))
    BY <1>7, Called, CalledOnly
  <2>3. BitSet!N(1) = n
    BY <1>7, Called
  <2> QED
    BY <2>1, <2>2, <2>3 DEF BitSet!Questions
<1>8. ASSUME NEW n \in 0 .. bits,
             Call("find_next_zero_bit", << n >>, << >>, bitmap, find_next_zero_bit(bitmap, bits, n))
      PROVE  BitSet!Questions
  <2>0. n \in Nat
    BY <1>1
  <2>1. find_next_zero_bit(bitmap, bits, n) =
          BitSet!FirstOf({i \in Bit \ SetOf(bitmap) : i >= n}, bits)
    BY <1>4, <2>0, Zenon
  <2>2. BitSet!Fn("find_next_zero_bit") /\ BitSet!Returns(find_next_zero_bit(bitmap, bits, n))
    BY <1>8, Called, CalledOnly
  <2>3. BitSet!N(1) = n
    BY <1>8, Called
  <2> QED
    BY <2>1, <2>2, <2>3 DEF BitSet!Questions, BitSet!Bit, Bit
<1> QED
  BY <1>5, <1>6, <1>7, <1>8, Zenon


\* The first area of zero bits is found, or what is beyond the size if there is none.
LEMMA AreasDo ==
  ASSUME TypeOK, NEW start \in Bit, NEW nr \in {1, 3}, NEW align_mask \in {0, 1, 3},
         Call("bitmap_find_next_zero_area", << start, nr, align_mask >>, << >>, bitmap,
              bitmap_find_next_zero_area(bitmap, bits, start, nr, align_mask))
  PROVE  BitSet!Areas
<1> DEFINE areas == AreasFrom(bitmap, start, nr, align_mask)
           r == bitmap_find_next_zero_area(bitmap, bits, start, nr, align_mask)
<1>1. bitmap \in Words /\ bits \in Nat
  BY Sizes DEF TypeOK, Words
<1>2. start \in 0 .. bits /\ start \in Nat /\ nr \in Nat \ {0} /\ align_mask \in Nat
  BY <1>1 DEF Bit
<1>3. r \in Nat /\ (r \in areas \/ r > bits) /\ \A x \in areas : r <= x
  <2>1. IsFirstArea(r, bitmap, start, nr, align_mask)
    BY <1>1, <1>2, AreaIs
  <2> QED
    BY <2>1, Zenon DEF IsFirstArea
<1>4. areas \subseteq Int /\ \A x \in areas : x <= bits
  BY <1>1, <1>2 DEF AreasFrom
<1> HIDE DEF r, areas
<1>5. BitSet!Fn("bitmap_find_next_zero_area") /\ BitSet!Returns(r)
  BY Called, CalledOnly DEF r
<1>6. BitSet!N(1) = start /\ BitSet!N(2) = nr /\ BitSet!N(3) = align_mask
  BY Called
<1>7. BitSet!FreeAreas(start, nr, align_mask) = areas
  BY Zenon DEF BitSet!FreeAreas, areas, AreasFrom
<1>8. CASE areas # {}
  <2>1. r \in areas
    <3>1. PICK x \in areas : x \in Int /\ r <= x /\ x <= bits
      BY <1>3, <1>4, <1>8
    <3>2. r \in Nat /\ (r > bits => r \in areas)
      <4>1. r \in Nat
        BY <1>3
      <4>2. ~(r > bits)
        BY <1>1, <3>1, <4>1
      <4> QED
        BY <4>1, <4>2
    <3> QED
      BY <1>3, <3>2
  <2>2. r = Min(areas)
    BY <1>3, <1>4, <2>1, MinIs
  <2>3. r = BitSet!Min(areas)
    BY <2>2, SameSets
  <2> QED
    BY <1>5, <1>6, <1>7, <1>8, <2>3 DEF BitSet!Areas
<1>9. CASE areas = {}
  <2>1. r > bits
    BY <1>3, <1>9
  <2>2. SetOf(bitmap)' = SetOf(bitmap) /\ Answer' = r
    BY <1>5 DEF BitSet!Returns
  <2> QED
    BY <1>5, <1>6, <1>7, <1>9, <2>1, <2>2 DEF BitSet!Areas
<1> QED
  BY <1>8, <1>9

\* Maps take bits to bits by their places among those of the maps.
LEMMA MapsDo == ASSUME TypeOK, Maps PROVE BitSet!Moves \/ BitSet!Questions
<1>1. bitmap \in Words /\ Others \subseteq Words
  BY BitmapAssumption DEF TypeOK, Words
<1>2. ASSUME NEW n \in Bit,
             Call("bitmap_ord_to_pos", << n >>, << >>, bitmap, bitmap_ord_to_pos(bitmap, n))
      PROVE  BitSet!Questions
  <2>1. bitmap_ord_to_pos(bitmap, n) =
          IF n < BitSet!Cardinality(SetOf(bitmap)) THEN BitSet!Pos(SetOf(bitmap), n) ELSE 0
    BY <1>1, PosIs, SameSets
  <2>2. BitSet!Fn("bitmap_ord_to_pos") /\ BitSet!Returns(bitmap_ord_to_pos(bitmap, n))
    BY <1>2, Called, CalledOnly
  <2>3. BitSet!N(1) = n
    BY <1>2, Called
  <2> QED
    BY <2>1, <2>2, <2>3 DEF BitSet!Questions
<1>3. ASSUME NEW n \in Bit,
             Call("bitmap_fold", << n + 1 >>, << >>, bitmap_fold(bitmap, n + 1), "void")
      PROVE  BitSet!Moves
  <2>1. SetOf(bitmap_fold(bitmap, n + 1)) = {i % (n + 1) : i \in SetOf(bitmap)}
    BY <1>1, MapsAre
  <2>2. BitSet!Fn("bitmap_fold") /\ BitSet!Becomes(SetOf(bitmap_fold(bitmap, n + 1)))
    BY <1>3, Called, CalledVoid
  <2>3. BitSet!N(1) = n + 1
    BY <1>3, Called
  <2> QED
    BY <2>1, <2>2, <2>3 DEF BitSet!Moves
<1>4. ASSUME NEW b \in Others,
             Call("bitmap_onto", << >>, << b >>, bitmap_onto(bitmap, b), "void")
      PROVE  BitSet!Moves
  <2>1. 1 \in DOMAIN << b >> /\ << b >>[1] = b /\ b \in Words
    BY <1>1
  <2>2. SetOf(bitmap_onto(bitmap, b)) = {n \in SetOf(b) : BitSet!Ord(SetOf(b), n) \in SetOf(bitmap)}
    BY <1>1, <2>1, MapsAre
  <2>3. BitSet!Fn("bitmap_onto") /\ BitSet!Becomes(SetOf(bitmap_onto(bitmap, b)))
    BY <1>4, Called, CalledVoid
  <2>4. BitSet!With(1) = SetOf(b)
    BY <1>4, <2>1, Called
  <2> QED
    BY <2>2, <2>3, <2>4 DEF BitSet!Moves
<1>5. ASSUME NEW b \in Others, NEW n \in Bit,
             Call("bitmap_bitremap", << n >>, << b >>, bitmap, bitmap_bitremap(n, bitmap, b))
      PROVE  BitSet!Questions
  <2>1. 1 \in DOMAIN << b >> /\ << b >>[1] = b /\ b \in Words
    BY <1>1
  <2>2. bitmap_bitremap(n, bitmap, b) = BitSet!Mapped(n, SetOf(bitmap), SetOf(b))
    BY <1>1, <2>1, RemapIs
  <2>3. BitSet!Fn("bitmap_bitremap") /\ BitSet!Returns(bitmap_bitremap(n, bitmap, b))
    BY <1>5, Called, CalledOnly
  <2>4. BitSet!N(1) = n /\ BitSet!With(1) = SetOf(b)
    BY <1>5, <2>1, Called
  <2> QED
    BY <2>2, <2>3, <2>4 DEF BitSet!Questions
<1>6. ASSUME NEW b \in Others, NEW new \in Others,
             Call("bitmap_remap", << >>, << b, new >>, bitmap_remap(bitmap, b, new), "void")
      PROVE  BitSet!Moves
  <2>1. /\ 1 \in DOMAIN << b, new >> /\ << b, new >>[1] = b /\ b \in Words
        /\ 2 \in DOMAIN << b, new >> /\ << b, new >>[2] = new /\ new \in Words
    BY <1>1
  <2>2. SetOf(bitmap_remap(bitmap, b, new)) =
          {BitSet!Mapped(i, SetOf(b), SetOf(new)) : i \in SetOf(bitmap)}
    BY <1>1, <2>1, MapsAre
  <2>3. BitSet!Fn("bitmap_remap") /\ BitSet!Becomes(SetOf(bitmap_remap(bitmap, b, new)))
    BY <1>6, Called, CalledVoid
  <2>4. BitSet!With(1) = SetOf(b) /\ BitSet!With(2) = SetOf(new)
    BY <1>6, <2>1, Called
  <2> QED
    BY <2>2, <2>3, <2>4 DEF BitSet!Moves
<1> QED
  BY <1>2, <1>3, <1>4, <1>5, <1>6, Zenon DEF Maps


\* A region is found and allocated if all its bits are free, and released without asking.
LEMMA RegionsDo == ASSUME TypeOK, Regions PROVE BitSet!Regions
<1>1. bitmap \in Words /\ bits \in Nat
  BY Sizes DEF TypeOK, Words
<1>2. SetOf(bitmap) \subseteq Bit
  BY DEF SetOf
<1>3. PICK order \in {o \in 0 .. bits : 2^o <= bits} :
        \/ bitmap_find_free_region(order)
        \/ \E x \in {i \in Bit : i % 2^order = 0 /\ i + 2^order <= bits} :
             bitmap_allocate_region(x, order) \/ bitmap_release_region(x, order)
  BY DEF Regions
<1>4. order \in Nat
  BY <1>1
<1> DEFINE region(x) == x .. x + 2^order - 1
           free == {x \in Candidates(order) : ISFREE(bitmap, x, order)}
<1>5. \A x \in Bit : x \in Nat
  BY <1>1 DEF Bit
<1>6. ASSUME NEW x \in Bit, x % 2^order = 0, x + 2^order <= bits
      PROVE  /\ ISFREE(bitmap, x, order) <=> SetOf(bitmap) \cap region(x) = {}
             /\ SetOf(ALLOC(bitmap, x, order)) = SetOf(bitmap) \cup region(x)
             /\ SetOf(RELEASE(bitmap, x, order)) = SetOf(bitmap) \ region(x)
  BY <1>1, <1>4, <1>5, <1>6, RegionIs
<1>7. free = BitSet!FreeRegions(order)
  BY <1>1, <1>4, FreeIs DEF BitSet!FreeRegions, BitSet!Region, BitSet!Bit, Bit
<1>8. \A x : BitSet!Region(x, order) = region(x)
  BY DEF BitSet!Region
<1>9. free \subseteq Bit /\ \A x \in free : x % 2^order = 0 /\ x + 2^order <= bits
  BY DEF Candidates
<1>10. \A x \in Candidates(order) : x \in free <=> ISFREE(bitmap, x, order)
  OBVIOUS
<1> HIDE DEF region, free
<1>11. CASE bitmap_find_free_region(order)
  <2>1. CASE free = {}
    <3>1. Call("bitmap_find_free_region", << order >>, << >>, bitmap, "ENOMEM")
      BY <1>11, <2>1 DEF bitmap_find_free_region, free
    <3>2. BitSet!Fn("bitmap_find_free_region") /\ BitSet!Returns("ENOMEM")
      BY <3>1, Called, CalledOnly
    <3>3. BitSet!N(1) = order
      BY <3>1, Called
    <3> QED
      BY <1>7, <2>1, <3>2, <3>3 DEF BitSet!Regions
  <2>2. CASE free # {}
    <3>1. PICK x : x = Min(free)
      OBVIOUS
    <3>2. x \in Bit /\ x % 2^order = 0 /\ x + 2^order <= bits
      <4>1. x \in free
        BY <1>5, <1>9, <2>2, <3>1, MinOfNat
      <4> QED
        BY <1>9, <4>1
    <3>3. Call("bitmap_find_free_region", << order >>, << >>, ALLOC(bitmap, x, order), x)
      BY <1>11, <2>2, <3>1 DEF bitmap_find_free_region, free
    <3>4. BitSet!Fn("bitmap_find_free_region") /\ BitSet!N(1) = order
      BY <3>3, Called
    <3>5. SetOf(bitmap)' = SetOf(bitmap) \cup region(x) /\ Answer' = x
      <4>1. SetOf(bitmap)' = SetOf(ALLOC(bitmap, x, order)) /\ Answer' = x
        BY <3>3, Called
      <4> QED
        BY <1>6, <3>2, <4>1
    <3>6. x = BitSet!Min(free)
      BY <3>1, SameSets
    <3> QED
      BY <1>7, <1>8, <2>2, <3>4, <3>5, <3>6 DEF BitSet!Regions
  <2> QED
    BY <2>1, <2>2
<1>12. ASSUME NEW x \in Bit, x % 2^order = 0, x + 2^order <= bits,
              bitmap_allocate_region(x, order)
       PROVE  BitSet!Regions
  <2>1. x \in free <=> ISFREE(bitmap, x, order)
    BY <1>10, <1>12 DEF Candidates
  <2>2. CASE ISFREE(bitmap, x, order)
    <3>1. Call("bitmap_allocate_region", << x, order >>, << >>, ALLOC(bitmap, x, order), 0)
      BY <1>12, <2>2 DEF bitmap_allocate_region
    <3>2. BitSet!Fn("bitmap_allocate_region") /\ BitSet!N(1) = x /\ BitSet!N(2) = order
      BY <3>1, Called
    <3>3. SetOf(bitmap)' = SetOf(bitmap) \cup region(x) /\ Answer' = 0
      <4>1. SetOf(bitmap)' = SetOf(ALLOC(bitmap, x, order)) /\ Answer' = 0
        BY <3>1, Called
      <4> QED
        BY <1>6, <1>12, <4>1
    <3> QED
      BY <1>7, <1>8, <2>1, <2>2, <3>2, <3>3 DEF BitSet!Regions
  <2>3. CASE ~ISFREE(bitmap, x, order)
    <3>1. Call("bitmap_allocate_region", << x, order >>, << >>, bitmap, "EBUSY")
      BY <1>12, <2>3 DEF bitmap_allocate_region
    <3>2. BitSet!Fn("bitmap_allocate_region") /\ BitSet!N(1) = x /\ BitSet!N(2) = order
      BY <3>1, Called
    <3>3. BitSet!Returns("EBUSY")
      BY <3>1, CalledOnly
    <3> QED
      BY <1>7, <2>1, <2>3, <3>2, <3>3 DEF BitSet!Regions
  <2> QED
    BY <2>2, <2>3
<1>13. ASSUME NEW x \in Bit, x % 2^order = 0, x + 2^order <= bits,
              bitmap_release_region(x, order)
       PROVE  BitSet!Regions
  <2>1. Call("bitmap_release_region", << x, order >>, << >>, RELEASE(bitmap, x, order), "void")
    BY <1>13 DEF bitmap_release_region
  <2>2. BitSet!Fn("bitmap_release_region") /\ BitSet!N(1) = x /\ BitSet!N(2) = order
    BY <2>1, Called
  <2>3. BitSet!Becomes(SetOf(RELEASE(bitmap, x, order)))
    BY <2>1, CalledVoid
  <2>4. SetOf(RELEASE(bitmap, x, order)) = SetOf(bitmap) \ region(x)
    BY <1>6, <1>13
  <2> QED
    BY <1>8, <2>2, <2>3, <2>4 DEF BitSet!Regions
<1> QED
  BY <1>3, <1>11, <1>12, <1>13

-----------------------------------------------------------------------------
\* A bitmap of BitSet has bits below its size, and there is no call at first.
LEMMA StartsAsSet == call = NoCall /\ ret = "void" => BitSet!Init
<1> SUFFICES ASSUME call = NoCall, ret = "void" PROVE BitSet!Init
  OBVIOUS
<1>1. call = NoCall /\ ret = "void"
  OBVIOUS
<1>2. SetOf(bitmap) \in SUBSET BitSet!Bit
  BY DEF SetOf, Bit, BitSet!Bit
<1>3. Answer = "void"
  BY <1>1 DEF Answer, NoCall
<1>4. [call EXCEPT !.with = [i \in DOMAIN call.with |-> SetOf(call.with[i])]] = BitSet!NoCall
  BY <1>1, NoCallIs
<1> QED
  BY <1>2, <1>3, <1>4 DEF BitSet!Init

\* Every step is one of BitSet.
LEMMA StepsAsSet == TypeOK /\ [Next]_vars => [BitSet!Next]_BitSet!vars
<1> SUFFICES ASSUME TypeOK, [Next]_vars PROVE [BitSet!Next]_BitSet!vars
  OBVIOUS
<1>2. ASSUME call = NoCall,
             \/ BitSet!Algebra \/ BitSet!Moves \/ BitSet!Questions \/ BitSet!Areas \/ BitSet!Regions
      PROVE  BitSet!Next
  <2>1. [call EXCEPT !.with = [i \in DOMAIN call.with |-> SetOf(call.with[i])]] = BitSet!NoCall
    BY <1>2, NoCallIs
  <2> QED
    BY <1>2, <2>1, Zenon DEF BitSet!Next
<1>3. CASE Algebra \/ Algebra2
  <2>1. call = NoCall
    BY <1>3, Zenon DEF Algebra, Algebra2, Does, Call
  <2> QED
    BY <1>2, <1>3, <2>1, AlgebraDoes, Zenon
<1>4. CASE Tests
  <2>1. call = NoCall
    BY <1>4, Zenon DEF Tests, Tells, Call
  <2> QED
    BY <1>2, <1>4, <2>1, TestsDo, Zenon
<1>5. CASE Shifts
  <2>1. call = NoCall
    BY <1>5, Zenon DEF Shifts, Call
  <2> QED
    BY <1>2, <1>5, <2>1, ShiftsDo, Zenon
<1>6. CASE Ranges
  <2>1. call = NoCall
    BY <1>6, Zenon DEF Ranges, Call
  <2> QED
    BY <1>2, <1>6, <2>1, RangesDo, Zenon
<1>7. CASE Searches
  <2>1. call = NoCall
    BY <1>7, Zenon DEF Searches, Tells, Call
  <2>2. BitSet!Questions \/ BitSet!Areas
    BY <1>7, BitSearchesDo, AreasDo, Zenon DEF Searches
  <2> QED
    BY <1>2, <2>1, <2>2, Zenon
<1>8. CASE Maps
  <2>1. call = NoCall
    BY <1>8, Zenon DEF Maps, Call
  <2> QED
    BY <1>2, <1>8, <2>1, MapsDo, Zenon
<1>9. CASE Regions
  <2>1. call = NoCall
    BY <1>9, Zenon DEF Regions, bitmap_find_free_region, bitmap_allocate_region,
                       bitmap_release_region, Call
  <2> QED
    BY <1>2, <1>9, <2>1, RegionsDo, Zenon
<1>10. CASE Return
  <2>1. call' = NoCall /\ ret' = "void" /\ bitmap' = bitmap
    BY <1>10 DEF Return
  <2>2. SetOf(bitmap)' = SetOf(bitmap) /\ Answer' = "void"
    BY <2>1 DEF Answer, NoCall
  <2>3. [call EXCEPT !.with = [i \in DOMAIN call.with |-> SetOf(call.with[i])]]' = BitSet!NoCall
    BY <2>1, NoCallIs
  <2> QED
    BY <2>2, <2>3 DEF BitSet!Next, BitSet!Return, BitSet!Returns
<1>11. CASE UNCHANGED vars
  <2>1. bitmap' = bitmap /\ call' = call /\ ret' = ret
    BY <1>11 DEF vars
  <2> QED
    BY <2>1 DEF BitSet!vars, Answer
<1> QED
  BY <1>3, <1>4, <1>5, <1>6, <1>7, <1>8, <1>9, <1>10, <1>11, Zenon DEF Next


-----------------------------------------------------------------------------
\* No call sets unused bits of a bitmap, unless it is given another that has some.
LEMMA CleanSteps ==
  ASSUME TypeOK, Next, Clean(bitmap), \A i \in DOMAIN call'.with : Clean(call'.with[i])
  PROVE  Clean(bitmap')
<1>1. bitmap \in Words /\ bits \in Nat /\ Others \subseteq Words
  BY BitmapAssumption, Sizes DEF TypeOK, Words
<1>2. ASSUME NEW fn, NEW n, NEW with, NEW made, NEW answer, Call(fn, n, with, made, answer)
      PROVE  bitmap' = made /\ \A i \in DOMAIN with : Clean(with[i])
  <2>1. bitmap' = made /\ call' = [fn |-> fn, n |-> n, with |-> with]
    BY <1>2 DEF Call
  <2>2. call'.with = with
    BY <2>1
  <2> QED
    BY <2>1, <2>2
<1>3. CASE Algebra
  <2>1. bitmap' \in {bitmap_zero, bitmap_fill, bitmap_complement(bitmap)}
    BY <1>3, Zenon DEF Algebra, Does, Call
  <2>2. Clean(bitmap_zero) /\ Clean(bitmap_fill) /\ Clean(bitmap_complement(bitmap))
    BY <1>1, Constants, Algebraic
  <2> QED
    BY <2>1, <2>2
<1>4. ASSUME NEW b \in Others, NEW fn, NEW made, NEW answer,
             Call(fn, << >>, << b >>, made, answer),
             made \in {b, bitmap_or(bitmap, b), bitmap_xor(bitmap, b), bitmap_and(bitmap, b),
                       bitmap_andnot(bitmap, b)}
      PROVE  Clean(bitmap')
  <2>1. 1 \in DOMAIN << b >> /\ << b >>[1] = b /\ b \in Words
    BY <1>1
  <2>2. bitmap' = made /\ Clean(b)
    BY <1>2, <1>4, <2>1
  <2>3. /\ Clean(bitmap_or(bitmap, b)) /\ Clean(bitmap_xor(bitmap, b))
        /\ Clean(bitmap_and(bitmap, b)) /\ Clean(bitmap_andnot(bitmap, b))
    BY <1>1, <2>1, <2>2, Algebraic
  <2> QED
    BY <1>4, <2>2, <2>3
<1>5. CASE Algebra2
  <2>1. PICK b \in Others :
          \/ Call("bitmap_copy", << >>, << b >>, b, "void")
          \/ Call("bitmap_or", << >>, << b >>, bitmap_or(bitmap, b), "void")
          \/ Call("bitmap_xor", << >>, << b >>, bitmap_xor(bitmap, b), "void")
          \/ Call("bitmap_and", << >>, << b >>, bitmap_and(bitmap, b),
                  bitmap_and(bitmap, b) # bitmap_zero)
          \/ Call("bitmap_andnot", << >>, << b >>, bitmap_andnot(bitmap, b),
                  bitmap_andnot(bitmap, b) # bitmap_zero)
    BY <1>5, Zenon DEF Algebra2
  <2> QED
    BY <1>4, <2>1
<1>6. CASE Tests
  <2>1. bitmap' = bitmap
    BY <1>6, Zenon DEF Tests, Tells, Call
  <2> QED
    BY <2>1
<1>7. CASE Shifts
  <2>1. PICK n \in 0 .. bits : \/ bitmap' = bitmap_shift_right(bitmap, n)
                               \/ bitmap' = bitmap_shift_left(bitmap, n)
    BY <1>7, Zenon DEF Shifts, Call
  <2>2. n \in Nat /\ n <= lim * BITS_PER_LONG
    <3>1. lim * BITS_PER_LONG \in Nat
      BY Sizes
    <3> QED
      BY <3>1, Sizes
  <2>3. Clean(bitmap_shift_left(bitmap, n)) /\ Clean(bitmap_shift_right(bitmap, n))
    BY <1>1, <2>2, ShiftTypes
  <2> QED
    BY <2>1, <2>3
<1>8. CASE Ranges
  <2>0. PICK start \in Bit : \E nr \in 0 .. bits - start :
          bitmap' = bitmap_set(bitmap, start, nr) \/ bitmap' = bitmap_clear(bitmap, start, nr)
    BY <1>8, Zenon DEF Ranges, Call
  <2>1. PICK nr \in 0 .. bits - start :
          bitmap' = bitmap_set(bitmap, start, nr) \/ bitmap' = bitmap_clear(bitmap, start, nr)
    BY <2>0
  <2>2. start \in Nat /\ nr \in Nat /\ start + nr <= bits
    BY <1>1 DEF Bit
  <2>3. Clean(bitmap_set(bitmap, start, nr)) /\ Clean(bitmap_clear(bitmap, start, nr))
    BY <1>1, <2>2, RangesAre
  <2> QED
    BY <2>1, <2>3
<1>9. CASE Searches
  <2>1. bitmap' = bitmap
    BY <1>9, Zenon DEF Searches, Tells, Call
  <2> QED
    BY <2>1
<1>10. CASE Maps
  <2>1. \/ bitmap' = bitmap
        \/ \E n \in Bit : bitmap' = bitmap_fold(bitmap, n + 1)
        \/ \E b \in Others : \/ bitmap' = bitmap_onto(bitmap, b)
                             \/ \E new \in Others : bitmap' = bitmap_remap(bitmap, b, new)
    BY <1>10, Zenon DEF Maps, Call
  <2>2. \A b \in Words, new \in Words : /\ Clean(bitmap_remap(bitmap, b, new))
                                        /\ Clean(bitmap_onto(bitmap, b))
    BY <1>1, MapsAre
  <2>3. \A n \in Bit : Clean(bitmap_fold(bitmap, n + 1))
    BY <1>1, MapsAre
  <2> QED
    BY <1>1, <2>1, <2>2, <2>3
<1>11. CASE Regions
  <2>1. PICK order \in {o \in 0 .. bits : 2^o <= bits} :
          \/ bitmap_find_free_region(order)
          \/ \E x \in {i \in Bit : i % 2^order = 0 /\ i + 2^order <= bits} :
               bitmap_allocate_region(x, order) \/ bitmap_release_region(x, order)
    BY <1>11 DEF Regions
  <2> DEFINE free == {x \in Candidates(order) : ISFREE(bitmap, x, order)}
  <2>2. \A x \in Candidates(order) : x \in Nat /\ x % 2^order = 0 /\ x + 2^order <= bits
    BY <1>1 DEF Candidates, Bit
  <2>3. ASSUME NEW x \in Candidates(order)
        PROVE  Clean(ALLOC(bitmap, x, order)) /\ Clean(RELEASE(bitmap, x, order))
    <3>1. order \in Nat
      BY <1>1
    <3> QED
      BY <1>1, <2>2, <3>1, RegionIs
  <2>4. free \subseteq Nat /\ free \subseteq Candidates(order)
    BY <2>2
  <2>5. free # {} => Min(free) \in Candidates(order)
    BY <2>4, MinOfNat
  <2>6. \/ bitmap' = bitmap
        \/ free # {} /\ bitmap' = ALLOC(bitmap, Min(free), order)
        \/ \E x \in Candidates(order) : \/ bitmap' = ALLOC(bitmap, x, order)
                                        \/ bitmap' = RELEASE(bitmap, x, order)
    BY <2>1, Zenon DEF bitmap_find_free_region, bitmap_allocate_region, bitmap_release_region,
                       Call, Candidates
  <2> HIDE DEF free
  <2> QED
    BY <2>3, <2>5, <2>6
<1>12. CASE Return
  BY <1>12 DEF Return
<1> QED
  BY <1>3, <1>5, <1>6, <1>7, <1>8, <1>9, <1>10, <1>11, <1>12 DEF Next

-----------------------------------------------------------------------------
\* Bitmaps, calls and what they are called with have their types.
LEMMA BitmapTypes == Spec => []TypeOK
<1>1. Init => TypeOK
  <2> SUFFICES ASSUME Init PROVE TypeOK
    OBVIOUS
  <2>1. bitmap \in [Long -> SUBSET InLong]
    BY BitmapAssumption DEF Init
  <2>2. call \in [fn : Fns, n : Seq(Int), with : Seq([Long -> SUBSET InLong])]
    <3>1. << >> \in Seq(Int) /\ << >> \in Seq([Long -> SUBSET InLong])
      BY Short
    <3> QED
      BY <3>1 DEF Init, NoCall, Fns
  <2> QED
    BY <2>1, <2>2 DEF TypeOK
<1>2. TypeOK /\ [Next]_vars => TypeOK'
  BY NextTypes DEF vars, TypeOK
<1> QED
  BY <1>1, <1>2, PTL DEF Spec

\* On bitmaps of any size, in words of any size with any unused bits, each operation of
\* bitmap.c does and answers what it does on sets: unused bits do "not affect the results of
\* any operation" (45-52).
THEOREM ActsOnSets == Spec => ImplementsBitSet
<1>1. TypeOK /\ [Next]_vars => [BitSet!Next]_BitSet!vars
  BY StepsAsSet
<1>2. Init => BitSet!Init
  BY StartsAsSet DEF Init
<1> QED
  BY <1>1, <1>2, BitmapTypes, PTL DEF Spec, ImplementsBitSet, BitSet!Spec

\* No operation sets an unused bit of a bitmap that it makes if none is set in those that it
\* is given (54-57).
THEOREM OutputsStayClean == Spec => StaysClean
<1>1. TypeOK /\ [Next]_vars =>
        [Clean(bitmap) /\ (\A i \in DOMAIN call'.with : Clean(call'.with[i])) => Clean(bitmap')]_vars
  BY CleanSteps
<1> QED
  BY <1>1, BitmapTypes, PTL DEF Spec, StaysClean

=============================================================================
