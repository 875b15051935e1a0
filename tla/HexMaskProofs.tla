--------------------------- MODULE HexMaskProofs ---------------------------
(***************************************************************************)
(* Hexadecimal masks, for any text, any bitmap, and any width of digits,   *)
(* chunks and words that divide each other: __bitmap_parse() accepts what  *)
(* is a mask that fits and nothing else, with the bits that its digits     *)
(* stand for, and it reads back what bitmap_scnprintf() has printed.       *)
(*                                                                         *)
(* The parser shifts: each comma moves all bits that were read up by a     *)
(* chunk, each digit those of the chunk by a digit.  ReadInv says the same *)
(* of the text that was read: what the digits before its last comma stand  *)
(* for in the mask (Done) and those after it in the chunk (ChunkOf).       *)
(* BlankGrows, CommaGrows and DigitGrows say how these change with a       *)
(* character more, and MaskInv that no bit of the mask is at or above      *)
(* nbits but one is right below, so that what is refused does not fit.     *)
(*                                                                         *)
(* What is printed is the digits from the highest place down; the text     *)
(* after k chunks stands for the bits of the upper k (MaskPrinted), and    *)
(* no beginning of it overflows.                                           *)
(***************************************************************************)
EXTENDS HexMask, BitmapProofs

-----------------------------------------------------------------------------
\* A word has a number of chunks, and a chunk a number of digits.
LEMMA ChunkSizes ==
  /\ CHUNKSZ \in Nat \ {0} /\ DIGITSZ \in Nat \ {0} /\ BITS_PER_LONG \in Nat \ {0}
  /\ CHUNKSZ <= BITS_PER_LONG /\ DIGITSZ <= CHUNKSZ
  /\ \E q \in Nat : BITS_PER_LONG = CHUNKSZ * q
<1>0. CHUNKSZ \in Nat \ {0} /\ DIGITSZ \in Nat \ {0} /\ BITS_PER_LONG \in Nat \ {0}
  BY ChunkAssumption, BitmapAssumption
<1>1. BITS_PER_LONG % CHUNKSZ = 0 /\ CHUNKSZ % DIGITSZ = 0
  BY ChunkAssumption
<1>2. \A u \in Nat \ {0}, n \in Nat \ {0} : n % u = 0 => u <= n /\ \E q \in Nat : n = u * q
  <2>1. ASSUME NEW u \in Nat \ {0}, NEW n \in Nat \ {0}, n % u = 0
        PROVE  u <= n /\ \E q \in Nat : n = u * q
    <3>1. Leaves(n, u, n \div u, n % u)
      BY LeavesRest
    <3>2. PICK q \in Nat : q = n \div u
      BY <3>1 DEF Leaves
    <3>3. n = u * q
      BY <2>1, <3>1, <3>2 DEF Leaves
    <3>4. q # 0
      BY <3>3
    <3>5. u * 0 + u <= u * q
      BY <3>4, Multiples
    <3> QED
      BY <3>3, <3>5
  <2> QED
    BY <2>1
<1> QED
  BY <1>0, <1>1, <1>2

\* The bits of a digit are less than DIGITSZ.
LEMMA DigitBits ==
  ASSUME NEW ch
  PROVE  hex_to_bin(ch) \subseteq 0 .. DIGITSZ - 1
BY DEF hex_to_bin, BitsOf

\* There is a digit for whatever bits are set, and the digits are no blanks or commas.
LEMMA DigitsAre ==
  /\ \A w \in SUBSET (0 .. DIGITSZ - 1) : \E ch \in DigitChars : hex_to_bin(ch) = w
  /\ Nul \notin DigitChars /\ Blank \notin DigitChars /\ Separator \notin DigitChars
<1>1. HexDigits \in Seq(STRING \ {Nul, Blank, Separator})
  BY DigitAssumption
<1>2. DigitChars = {HexDigits[k] : k \in DOMAIN HexDigits}
  BY <1>1 DEF DigitChars, ToSet
<1>3. \A k \in DOMAIN HexDigits : HexDigits[k] \in STRING \ {Nul, Blank, Separator}
  BY <1>1
<1>4. ASSUME NEW k \in DOMAIN HexDigits
      PROVE  hex_to_bin(HexDigits[k]) = BitsOf(k - 1)
  <2>1. (CHOOSE l \in DOMAIN HexDigits : HexDigits[l] = HexDigits[k]) = k
    BY ChunkAssumption DEF IsInjective
  <2> QED
    BY <2>1 DEF hex_to_bin
<1>5. ASSUME NEW w \in SUBSET (0 .. DIGITSZ - 1)
      PROVE  \E ch \in DigitChars : hex_to_bin(ch) = w
  <2>1. PICK k \in DOMAIN HexDigits : BitsOf(k - 1) = w
    BY DigitAssumption
  <2>2. HexDigits[k] \in DigitChars
    BY <1>2
  <2> QED
    BY <1>4, <2>1, <2>2
<1> QED
  BY <1>2, <1>3, <1>5

\* fls() of some bits is one more than the last of them.
LEMMA LastSet ==
  ASSUME NEW m \in Nat, NEW w, w \subseteq 0 .. m - 1
  PROVE  /\ fls(w) \in 0 .. m
         /\ w # {} => fls(w) - 1 \in w
         /\ \A i \in w : i < fls(w)
<1> DEFINE S == {i + 1 : i \in w} \cup {0}
           D == {m - x : x \in S}
<1>1. S \subseteq 0 .. m
  OBVIOUS
<1>2. D \subseteq Nat /\ D # {}
  BY <1>1
<1>3. PICK d \in D : \A x \in D : d <= x
  <2> HIDE DEF D
  <2> QED
    BY <1>2, NatMin
<1>4. PICK s \in S : d = m - s
  OBVIOUS
<1>5. s \in 0 .. m /\ \A x \in S : x <= s
  <2>1. \A x \in S : m - x \in D
    OBVIOUS
  <2>2. \A x \in S : d <= m - x
    BY <1>3, <2>1
  <2> HIDE DEF S, D
  <2> QED
    BY <1>1, <1>4, <2>2
<1>6. fls(w) = s
  <2>1. S \subseteq Int
    BY <1>1
  <2>2. Max(S) = s
    <3> HIDE DEF S
    <3> QED
      BY <1>5, <2>1, MaxIs
  <2> QED
    BY <2>2 DEF fls
<1>7. ASSUME NEW i \in w
      PROVE  i < s
  <2>1. i + 1 \in S /\ i \in Nat
    OBVIOUS
  <2>2. i + 1 <= s /\ s \in Nat
    <3> HIDE DEF S
    <3> QED
      BY <1>5, <2>1
  <2> QED
    BY <2>1, <2>2
<1>8. ASSUME w # {}
      PROVE  s - 1 \in w
  <2>1. PICK i \in w : i < s
    BY <1>7, <1>8
  <2>2. i \in Nat /\ s # 0
    BY <1>5, <2>1
  <2>3. PICK j \in w : s = j + 1
    BY <1>4, <2>2
  <2>4. s - 1 = j
    BY <2>3
  <2> QED
    BY <2>4
<1> QED
  BY <1>5, <1>6, <1>7, <1>8

-----------------------------------------------------------------------------
\* What is printed: digits and commas.
Printed == DigitChars \cup {Separator}

\* The bits of the chunk at i, how many digits it has, and the bits of one of those.
Val(i) == Shr(bitmap[i \div BITS_PER_LONG], i % BITS_PER_LONG) \cap (0 .. chunksz(i) - 1)
Width(i) == (chunksz(i) + DIGITSZ - 1) \div DIGITSZ
Part(val, k) == {j - k * DIGITSZ : j \in val} \cap (0 .. DIGITSZ - 1)

\* A chunk is printed with that many digits, each of which has its part of the bits.
LEMMA ChunkTextIs ==
  ASSUME NEW i \in Int
  PROVE  /\ chunksz(i) \in Nat /\ chunksz(i) <= CHUNKSZ /\ Width(i) \in Nat
         /\ chunksz(i) <= Width(i) * DIGITSZ
         /\ ChunkText(i) \in Seq(DigitChars) /\ Len(ChunkText(i)) = Width(i)
         /\ \A k \in 1 .. Width(i) : hex_to_bin(ChunkText(i)[k]) = Part(Val(i), Width(i) - k)
<1>1. chunksz(i) \in Nat /\ chunksz(i) <= CHUNKSZ
  BY ChunkSizes, Sizes DEF chunksz
<1>2. PICK m \in Nat : m = chunksz(i) + DIGITSZ - 1
  BY <1>1, ChunkSizes
<1>3. Leaves(m, DIGITSZ, m \div DIGITSZ, m % DIGITSZ)
  BY ChunkSizes, LeavesRest
<1>4. PICK width \in Nat : width = m \div DIGITSZ
  BY <1>3 DEF Leaves
<1>5. Width(i) = width
  BY <1>2, <1>4 DEF Width
<1>6. chunksz(i) <= width * DIGITSZ
  <2>1. PICK r \in 0 .. DIGITSZ - 1 : m = DIGITSZ * width + r
    BY <1>3, <1>4 DEF Leaves
  <2>2. DIGITSZ * width = width * DIGITSZ /\ width * DIGITSZ \in Nat
    BY ChunkSizes
  <2> QED
    BY <1>1, <1>2, <2>1, <2>2, ChunkSizes
<1>7. ASSUME NEW k \in 1 .. width
      PROVE  LET ch == CHOOSE ch \in DigitChars : hex_to_bin(ch) = Part(Val(i), width - k)
             IN  ch \in DigitChars /\ hex_to_bin(ch) = Part(Val(i), width - k)
  <2>1. Part(Val(i), width - k) \in SUBSET (0 .. DIGITSZ - 1)
    BY DEF Part
  <2>2. \E ch \in DigitChars : hex_to_bin(ch) = Part(Val(i), width - k)
    BY <2>1, DigitsAre
  <2> QED
    BY <2>2, Zenon
<1> DEFINE digit(k) == CHOOSE ch \in DigitChars : hex_to_bin(ch) = Part(Val(i), width - k)
<1>8. ChunkText(i) = [k \in 1 .. width |-> digit(k)]
  <2>1. ChunkText(i) = [k \in 1 .. Width(i) |->
          CHOOSE ch \in DigitChars : hex_to_bin(ch) = Part(Val(i), Width(i) - k)]
    BY Zenon DEF ChunkText, Val, Width, Part
  <2> QED
    BY <1>5, <2>1, Zenon
<1>9. \A k \in 1 .. width : digit(k) \in DigitChars /\ hex_to_bin(digit(k)) = Part(Val(i), width - k)
  BY <1>7, Zenon
<1> HIDE DEF digit
<1>10. ChunkText(i) \in Seq(DigitChars) /\ Len(ChunkText(i)) = width
  BY <1>8, <1>9
<1>11. ASSUME NEW k \in 1 .. width
       PROVE  hex_to_bin(ChunkText(i)[k]) = Part(Val(i), width - k)
  BY <1>8, <1>9, Zenon
<1> QED
  BY <1>1, <1>5, <1>6, <1>10, <1>11

\* What is printed of one chunk more.
NextChunk(t, k, n) == t \o (IF k = 1 THEN << >> ELSE << Separator >>) \o ChunkText((n - k) * CHUNKSZ)

\* What is printed of 0, 1, ... of the n chunks.
IsWritten(w, n) ==
  /\ w \in [Nat -> Seq(Printed)]
  /\ w[0] = << >>
  /\ \A k \in Nat : w[k + 1] = NextChunk(w[k], k + 1, n)
  /\ bitmap_scnprintf = w[n]

\* bitmap_scnprintf() prints one chunk after the other.
LEMMA Writes == \E w : IsWritten(w, (bits + CHUNKSZ - 1) \div CHUNKSZ)
<1> DEFINE n == (bits + CHUNKSZ - 1) \div CHUNKSZ
           Body(h) == [k \in Nat |-> IF k = 0 THEN << >> ELSE NextChunk(h[k - 1], k, n)]
           G == [k \in Nat |-> [t \in Seq(Printed) |-> NextChunk(t, k, n)]]
           w == CHOOSE h : h = Body(h)
<1>0. n \in Int
  BY Sizes, ChunkSizes
<1>1. ASSUME NEW t \in Seq(Printed), NEW k \in Nat
      PROVE  NextChunk(t, k, n) \in Seq(Printed)
  <2>1. (n - k) * CHUNKSZ \in Int
    <3> HIDE DEF n
    <3> QED
      BY <1>0, ChunkSizes
  <2>2. ChunkText((n - k) * CHUNKSZ) \in Seq(Printed)
    <3>1. ChunkText((n - k) * CHUNKSZ) \in Seq(DigitChars)
      <4> HIDE DEF n
      <4> QED
        BY <2>1, ChunkTextIs
    <3> QED
      BY <3>1 DEF Printed
  <2>3. (IF k = 1 THEN << >> ELSE << Separator >>) \in Seq(Printed)
    <3>1. << >> \in Seq(Printed) /\ << Separator >> \in Seq(Printed)
      BY DEF Printed
    <3> QED
      BY <3>1, Zenon
  <2> HIDE DEF n
  <2> QED
    BY <2>2, <2>3 DEF NextChunk
<1>2. G \in [Nat -> [Seq(Printed) -> Seq(Printed)]]
  BY <1>1
<1>3. PICK f : Recursive(f, Seq(Printed), << >>, G)
  <2>1. << >> \in Seq(Printed)
    OBVIOUS
  <2> HIDE DEF G
  <2> QED
    BY <1>2, <2>1, Recursion
<1>4. f = Body(f)
  <2>1. f \in [Nat -> Seq(Printed)] /\ f[0] = << >> /\ \A j \in Nat : f[j + 1] = G[j + 1][f[j]]
    BY <1>3 DEF Recursive
  <2>2. ASSUME NEW j \in Nat
        PROVE  f[j] = IF j = 0 THEN << >> ELSE NextChunk(f[j - 1], j, n)
    <3>1. CASE j = 0
      BY <2>1, <3>1
    <3>2. CASE j # 0
      <4>1. j - 1 \in Nat /\ (j - 1) + 1 = j
        BY <3>2
      <4>2. f[j] = G[j][f[j - 1]]
        BY <2>1, <4>1, Zenon
      <4>3. f[j - 1] \in Seq(Printed)
        BY <2>1, <4>1
      <4> QED
        BY <3>2, <4>2, <4>3
    <3> QED
      BY <3>1, <3>2
  <2> HIDE DEF G
  <2> QED
    BY <2>1, <2>2
<1>5. w = Body(w)
  <2> HIDE DEF Body
  <2> QED
    BY <1>4
<1>6. bitmap_scnprintf = w[n]
  BY DEF bitmap_scnprintf, NextChunk
<1> HIDE DEF w
<1>7. w[0] = << >> /\ \A k \in Nat : w[k + 1] = NextChunk(w[k], k + 1, n)
  <2>1. ASSUME NEW k \in Nat
        PROVE  w[k + 1] = NextChunk(w[k], k + 1, n)
    <3>1. k + 1 \in Nat /\ k + 1 # 0 /\ (k + 1) - 1 = k
      OBVIOUS
    <3> QED
      BY <1>5, <3>1
  <2> QED
    BY <1>5, <2>1
<1> DEFINE S == {k \in Nat : w[k] \in Seq(Printed)}
<1>8. 0 \in S /\ \A k \in Nat : k \in S => k + 1 \in S
  <2>1. << >> \in Seq(Printed)
    OBVIOUS
  <2>2. ASSUME NEW k \in Nat, w[k] \in Seq(Printed)
        PROVE  w[k + 1] \in Seq(Printed)
    <3>1. k + 1 \in Nat
      OBVIOUS
    <3> HIDE DEF n
    <3>2. NextChunk(w[k], k + 1, n) \in Seq(Printed)
      BY <1>1, <2>2, <3>1
    <3> QED
      BY <1>7, <3>2
  <2>3. w[0] \in Seq(Printed)
    BY <1>7, <2>1, Zenon
  <2>4. 0 \in Nat /\ \A k \in Nat : k + 1 \in Nat
    OBVIOUS
  <2> QED
    BY <2>2, <2>3, <2>4, Zenon
<1>9. Nat \subseteq S
  <2> HIDE DEF S
  <2> QED
    BY <1>8, Induction
<1>10. w \in [Nat -> Seq(Printed)]
  <2>1. w = [k \in Nat |-> w[k]]
    BY <1>5
  <2> QED
    BY <1>9, <2>1
<1> QED
  BY <1>6, <1>7, <1>10 DEF IsWritten

-----------------------------------------------------------------------------
\* The characters of a text.
Letter == STRING \cup Printed

\* Strengthening of the types.
TypeInv ==
  /\ HexTypeOK
  /\ text \in Seq(Letter)
  /\ status = "idle" => pos = 0
  /\ status \in {"idle", "parse"} => nbits <= bits

\* What the parser keeps of a chunk and of the mask.
LocalsOK ==
  /\ chunk \in SUBSET InChunk
  /\ ndigits \in BOOLEAN /\ totaldigits \in BOOLEAN
  /\ nchunks \in Nat /\ nbits \in 0 .. bits + CHUNKSZ
  /\ maskp \in Words
  /\ status \in {"parse", "0", "EINVAL", "EOVERFLOW"}
  /\ status = "parse" => nbits <= bits

\* The text and what was read of it.
TextOK == text \in Seq(Letter) /\ pos \in 0 .. Len(text)

\* The types have these parts while a text is parsed.
LEMMA TypeParts ==
  /\ TypeInv /\ status = "parse" => TypeOK /\ LocalsOK /\ TextOK
  /\ TypeOK /\ LocalsOK /\ TextOK => TypeInv
BY DEF TypeInv, HexTypeOK, LocalsOK, TextOK, Words

\* The same of the next state.
LEMMA TypePartsNext == TypeOK' /\ LocalsOK' /\ TextOK' => TypeInv'
BY DEF TypeInv, HexTypeOK, LocalsOK, TextOK, Words

\* The bitmap that a chunk is put into has its first word, and the chunk fits in that.
LEMMA FirstWord ==
  /\ 0 \in Long /\ InChunk \subseteq InLong
  /\ \A w \in Words : bitmap_shift_left(w, CHUNKSZ) \in Words
  /\ \A w \in Words, v \in SUBSET InChunk :
       [bitmap_shift_left(w, CHUNKSZ) EXCEPT ![0] = @ \cup v] \in Words
<1>1. 0 \in Long
  BY Sizes DEF Long
<1>2. InChunk \subseteq InLong
  BY ChunkSizes DEF InChunk, InLong
<1>3. \A w \in Words : bitmap_shift_left(w, CHUNKSZ) \in Words
  <2>1. PICK l \in Nat : lim = l + 1
    BY Sizes
  <2>2. lim * BITS_PER_LONG = l * BITS_PER_LONG + BITS_PER_LONG /\ l * BITS_PER_LONG \in Nat
    BY <2>1, ChunkSizes
  <2>3. CHUNKSZ <= lim * BITS_PER_LONG /\ CHUNKSZ \in Nat
    BY <2>2, ChunkSizes
  <2> QED
    BY <2>3, ShiftTypes
<1>4. ASSUME NEW w \in Words, NEW v \in SUBSET InChunk
      PROVE  [w EXCEPT ![0] = @ \cup v] \in Words
  BY <1>1, <1>2 DEF Words
<1> QED
  BY <1>1, <1>2, <1>3, <1>4

\* The end of a chunk keeps the types.
LEMMA EndTypes ==
  ASSUME LocalsOK, status = "parse", EndChunk(TRUE) \/ EndChunk(FALSE)
  PROVE  LocalsOK'
<1>1. CASE status' = "EINVAL" /\ UNCHANGED << chunkVars, totaldigits, maskVars >>
  BY <1>1 DEF LocalsOK, chunkVars, maskVars
<1>2. ASSUME /\ \/ UNCHANGED maskVars
                \/ /\ maskp' = [bitmap_shift_left(maskp, CHUNKSZ) EXCEPT ![0] = @ \cup chunk]
                   /\ nchunks' = nchunks + 1
                   /\ nbits' = nbits + CHUNKSZ \/ (nchunks = 0 /\ nbits' = nbits + fls(chunk))
             /\ status' \in {"parse", "0", "EOVERFLOW"}
             /\ nbits' > bits => status' = "EOVERFLOW"
             /\ chunk' = {} /\ ndigits' = FALSE /\ totaldigits' = totaldigits
      PROVE  LocalsOK'
  <2>1. maskp' \in Words /\ nchunks' \in Nat /\ nbits' \in 0 .. bits + CHUNKSZ
    <3>1. CASE UNCHANGED maskVars
      BY <3>1 DEF LocalsOK, maskVars
    <3>2. CASE /\ maskp' = [bitmap_shift_left(maskp, CHUNKSZ) EXCEPT ![0] = @ \cup chunk]
               /\ nchunks' = nchunks + 1
               /\ nbits' = nbits + CHUNKSZ \/ (nchunks = 0 /\ nbits' = nbits + fls(chunk))
      <4>1. maskp' \in Words
        BY <3>2, FirstWord DEF LocalsOK
      <4>2. fls(chunk) \in 0 .. CHUNKSZ
        BY ChunkSizes, LastSet DEF LocalsOK, InChunk
      <4>3. nchunks' \in Nat
        BY <3>2 DEF LocalsOK
      <4>4. nbits' \in 0 .. bits + CHUNKSZ
        BY <3>2, <4>2, ChunkSizes, Sizes DEF LocalsOK
      <4> QED
        BY <4>1, <4>3, <4>4
    <3> QED
      BY <1>2, <3>1, <3>2
  <2>2. chunk' \in SUBSET InChunk /\ ndigits' \in BOOLEAN /\ totaldigits' \in BOOLEAN
    BY <1>2 DEF LocalsOK
  <2>3. status' = "parse" => nbits' <= bits
    BY <1>2, <2>1, Sizes, ChunkSizes
  <2> QED
    BY <1>2, <2>1, <2>2, <2>3 DEF LocalsOK
<1>3. CASE EndChunk(TRUE)
  BY <1>1, <1>2, <1>3, Zenon DEF EndChunk, Error
<1>4. CASE EndChunk(FALSE)
  BY <1>1, <1>2, <1>4, Zenon DEF EndChunk, Error
<1> QED
  BY <1>3, <1>4

\* A character more is read.
LEMMA ReadTypes ==
  ASSUME TypeOK, TextOK, Read
  PROVE  TypeOK' /\ TextOK' /\ status = "parse" /\ Char \in Letter
<1>1. pos < Len(text) /\ pos' = pos + 1 /\ text' = text /\ status = "parse"
  BY DEF Read
<1>2. UNCHANGED vars
  BY DEF Read
<1>3. TypeOK'
  BY <1>2 DEF TypeOK, vars
<1>4. TextOK' /\ Char \in Letter
  BY <1>1 DEF TextOK, Char
<1> QED
  BY <1>1, <1>3, <1>4

\* It starts with the types.
LEMMA TypesInit == HexInit => TypeInv
<1> SUFFICES ASSUME HexInit
             PROVE  TypeInv
  OBVIOUS
<1>1. bitmap_zero \in Words /\ << >> \in Seq(Letter)
  BY DEF bitmap_zero, Words
<1>2. TypeOK
  <2>1. bitmap \in Words
    BY <1>1, BitmapAssumption, Zenon DEF HexInit, Init, Words
  <2>2. call = NoCall
    BY DEF HexInit, Init
  <2>3. NoCall \in Calls
    BY DEF NoCall, Calls, Fns
  <2> QED
    BY <2>1, <2>2, <2>3 DEF TypeOK, Calls, Words
<1>3. text \in Seq(Letter)
  <2>1. Texts \subseteq Seq(Letter)
    BY TextAssumption DEF Letter
  <2>2. text = << >> \/ text \in Texts
    BY DEF HexInit
  <2> QED
    BY <1>1, <2>1, <2>2, Zenon
<1>4. /\ pos = 0 /\ chunk = {} /\ ndigits = FALSE /\ totaldigits = FALSE
      /\ nchunks = 0 /\ nbits = 0 /\ maskp = bitmap_zero /\ status \in {"idle", "parse"}
  BY DEF HexInit
<1>5. pos \in 0 .. Len(text)
  BY <1>3, <1>4
<1>6. chunk \subseteq InChunk /\ ndigits \in BOOLEAN /\ totaldigits \in BOOLEAN
  BY <1>4
<1>7. nchunks \in Nat /\ nbits \in 0 .. bits + CHUNKSZ /\ nbits <= bits
  BY <1>4, Sizes, ChunkSizes
<1> QED
  BY <1>1, <1>2, <1>3, <1>4, <1>5, <1>6, <1>7 DEF TypeInv, HexTypeOK, Words

\* What is printed is a text.
LEMMA PrintedIsText ==
  bitmap_scnprintf \in Seq(Printed)
<1>1. PICK w : IsWritten(w, (bits + CHUNKSZ - 1) \div CHUNKSZ)
  BY Writes
<1>2. (bits + CHUNKSZ - 1) \div CHUNKSZ \in Nat
  <2>1. PICK m \in Nat : m = bits + CHUNKSZ - 1
    BY Sizes, ChunkSizes
  <2>2. m \div CHUNKSZ \in Nat
    BY ChunkSizes, LeavesRest DEF Leaves
  <2> QED
    BY <2>1, <2>2
<1> QED
  BY <1>1, <1>2 DEF IsWritten

\* Every step keeps the types.
LEMMA TypesNext == TypeInv /\ [HexNext]_<< vars, hexVars >> => TypeInv'
<1> SUFFICES ASSUME TypeInv, [HexNext]_<< vars, hexVars >>
             PROVE  TypeInv'
  OBVIOUS
<1>1. CASE status = "idle" /\ Next /\ UNCHANGED hexVars
  <2>1. TypeOK'
    BY <1>1, NextTypes DEF TypeInv, HexTypeOK
  <2>2. UNCHANGED << text, pos, chunk, ndigits, totaldigits, nchunks, nbits, maskp, status >>
    BY <1>1 DEF hexVars, parseVars, chunkVars, maskVars
  <2> QED
    BY <2>1, <2>2 DEF TypeInv, HexTypeOK
<1>2. CASE PrintMask
  <2>1. /\ status = "idle" /\ text' = bitmap_scnprintf /\ status' = "parse"
        /\ UNCHANGED << bitmap, call, ret >>
        /\ UNCHANGED << pos, chunk, ndigits, totaldigits, nchunks, nbits, maskp >>
    BY <1>2 DEF PrintMask, vars, parseVars, chunkVars, maskVars
  <2>2. text' \in Seq(Letter)
    <3>1. \A t \in Seq(Printed) : t \in Seq(Letter)
      BY DEF Letter
    <3> QED
      BY <2>1, <3>1, PrintedIsText
  <2>3. pos' = 0 /\ pos' \in 0 .. Len(text')
    BY <2>1, <2>2 DEF TypeInv
  <2>4. nbits' <= bits
    BY <2>1 DEF TypeInv
  <2>5. TypeOK'
    BY <2>1 DEF TypeInv, HexTypeOK, TypeOK
  <2> QED
    BY <2>1, <2>2, <2>3, <2>4, <2>5 DEF TypeInv, HexTypeOK
<1>3. ASSUME Read
      PROVE  TypeOK' /\ TextOK' /\ LocalsOK /\ status = "parse" /\ Char \in Letter
  BY <1>3, TypeParts, ReadTypes DEF Read
<1>4. CASE Space
  <2>1. LocalsOK'
    BY <1>3, <1>4 DEF Space, LocalsOK, chunkVars, maskVars
  <2> QED
    BY <1>3, <1>4, <2>1, TypePartsNext DEF Space
<1>5. CASE EmbeddedSpace \/ BadChar \/ ChunkOverflow
  <2>1. /\ Read /\ status' \in {"EINVAL", "EOVERFLOW"}
        /\ UNCHANGED << chunkVars, totaldigits, maskVars >>
    BY <1>5, Zenon DEF EmbeddedSpace, BadChar, ChunkOverflow, ReadJoined, Error
  <2>2. LocalsOK'
    BY <1>3, <2>1 DEF LocalsOK, chunkVars, maskVars
  <2> QED
    BY <1>3, <2>1, <2>2, TypePartsNext
<1>6. CASE Digit
  <2>1. /\ Read /\ \A i \in chunk : i < FreeFrom
        /\ chunk' = {i + DIGITSZ : i \in chunk} \cup hex_to_bin(Char)
        /\ ndigits' = TRUE /\ totaldigits' = TRUE
        /\ UNCHANGED << maskVars, status >>
    BY <1>6, Zenon DEF Digit, ReadJoined
  <2>2. chunk' \in SUBSET InChunk
    <3>1. hex_to_bin(Char) \subseteq InChunk
      <4>1. hex_to_bin(Char) \subseteq 0 .. DIGITSZ - 1
        BY DigitBits
      <4>2. 0 .. DIGITSZ - 1 \subseteq InChunk
        BY ChunkSizes DEF InChunk
      <4> QED
        BY <4>1, <4>2
    <3>2. \A i \in chunk : i + DIGITSZ \in InChunk
      BY <1>3, <2>1, ChunkSizes DEF LocalsOK, InChunk, FreeFrom
    <3> QED
      BY <2>1, <3>1, <3>2
  <2>3. LocalsOK'
    BY <1>3, <2>1, <2>2 DEF LocalsOK, maskVars
  <2> QED
    BY <1>3, <2>1, <2>3, TypePartsNext
<1>7. CASE Comma
  <2>1. Read /\ EndChunk(TRUE)
    BY <1>7 DEF Comma, ReadJoined
  <2>2. LocalsOK'
    BY <1>3, <2>1, EndTypes
  <2> QED
    BY <1>3, <2>1, <2>2, TypePartsNext
<1>8. CASE EndOfText
  <2>1. status = "parse" /\ EndChunk(FALSE) /\ UNCHANGED << vars, text, pos, c >>
    BY <1>8 DEF EndOfText
  <2>2. TypeOK /\ LocalsOK /\ TextOK
    BY <2>1, TypeParts
  <2>3. LocalsOK'
    BY <2>1, <2>2, EndTypes
  <2>4. TypeOK' /\ TextOK'
    BY <2>1, <2>2 DEF TypeOK, TextOK, vars
  <2> QED
    BY <2>3, <2>4, TypePartsNext
<1>9. CASE UNCHANGED << vars, hexVars >>
  BY <1>9 DEF TypeInv, HexTypeOK, TypeOK, vars, hexVars, parseVars, chunkVars, maskVars
<1> QED
  BY <1>1, <1>2, <1>4, <1>5, <1>6, <1>7, <1>8, <1>9 DEF HexNext

\* The variables of the parser and of the bitmap stay what they are.
THEOREM HexTypes == HexSpec => []HexTypeOK
<1>1. HexSpec => []TypeInv
  BY TypesInit, TypesNext, PTL DEF HexSpec
<1>2. TypeInv => HexTypeOK
  BY DEF TypeInv
<1> QED
  BY <1>1, <1>2, PTL

-----------------------------------------------------------------------------
\* t is s and one character more.
Grows(s, t, n, ch) ==
  /\ n \in Nat /\ DOMAIN s = 1 .. n /\ DOMAIN t = 1 .. n + 1
  /\ \A i \in 1 .. n : t[i] = s[i]
  /\ t[n + 1] = ch

\* The digits after the last comma, and the bits that they have in their chunk.
Current(s) == {i \in Digits(s) : \A k \in Commas(s) : k < i}
ChunkOf(s) == UNION {ChunkBits(s, i) : i \in Current(s)}

\* The bits of the chunks before the last comma, and of all digits, in the mask.
Done(s) == UNION {MaskBits(s, i) : i \in Digits(s) \ Current(s)}
All(s) == UNION {MaskBits(s, i) : i \in Digits(s)}

\* The commas after i.
After(s, i) == {j \in Commas(s) : j > i}

\* Digits and commas are at places of the text, and there is a finite number of them.
LEMMA Places ==
  ASSUME NEW s, NEW n \in Nat, DOMAIN s = 1 .. n, NEW i \in Digits(s)
  PROVE  /\ Digits(s) \subseteq 1 .. n /\ Commas(s) \subseteq 1 .. n
         /\ Digits(s) \cap Commas(s) = {}
         /\ IsFiniteSet(Below(s, i)) /\ Cardinality(Below(s, i)) \in Nat
         /\ IsFiniteSet(After(s, i)) /\ Cardinality(After(s, i)) \in Nat
<1>1. IsFiniteSet(1 .. n)
  BY FS_Interval
<1>2. Digits(s) \subseteq 1 .. n /\ Commas(s) \subseteq 1 .. n
  BY DEF Digits, Commas
<1>3. Below(s, i) \subseteq 1 .. n /\ After(s, i) \subseteq 1 .. n
  BY <1>2 DEF Below, After
<1>4. IsFiniteSet(Below(s, i)) /\ IsFiniteSet(After(s, i))
  BY <1>1, <1>3, FS_Subset
<1>5. Digits(s) \cap Commas(s) = {}
  BY DigitsAre DEF Digits, Commas
<1> QED
  BY <1>2, <1>4, <1>5, FS_CardinalityType

\* One unit more is added to each number.
LEMMA Scaled ==
  ASSUME NEW u \in Nat, NEW m \in Nat, NEW S, S \subseteq Int
  PROVE  {u * (m + 1) + k : k \in S} = {x + u : x \in {u * m + k : k \in S}}
<1>1. \A k \in S : u * (m + 1) + k = (u * m + k) + u
  <2>1. u * (m + 1) = u * m + u /\ u * m \in Int
    OBVIOUS
  <2> QED
    BY <2>1
<1> QED
  BY <1>1

\* What digits stand for are naturals.
LEMMA BitsAreNat ==
  ASSUME NEW s, NEW n \in Nat, DOMAIN s = 1 .. n, NEW i \in Digits(s)
  PROVE  ChunkBits(s, i) \subseteq Nat /\ MaskBits(s, i) \subseteq Nat
<1>1. PICK m \in Nat : m = Cardinality(Below(s, i))
  BY Places
<1>2. PICK l \in Nat : l = Cardinality(After(s, i))
  BY Places
<1>3. hex_to_bin(s[i]) \subseteq Nat
  BY DigitBits, ChunkSizes
<1>4. ChunkBits(s, i) = {DIGITSZ * m + k : k \in hex_to_bin(s[i])}
  BY <1>1 DEF ChunkBits
<1>5. ChunkBits(s, i) \subseteq Nat
  <2>1. DIGITSZ * m \in Nat
    BY ChunkSizes
  <2> QED
    BY <1>3, <1>4, <2>1
<1>6. MaskBits(s, i) = {CHUNKSZ * l + k : k \in ChunkBits(s, i)}
  BY <1>2 DEF MaskBits, After
<1>7. CHUNKSZ * l \in Nat
  BY ChunkSizes
<1> QED
  BY <1>5, <1>6, <1>7

\* A digit after the last comma has the same bits in the mask as in its chunk.
LEMMA CurrentBits ==
  ASSUME NEW s, NEW n \in Nat, DOMAIN s = 1 .. n, NEW i \in Current(s)
  PROVE  MaskBits(s, i) = ChunkBits(s, i)
<1>1. i \in Digits(s) /\ \A k \in Commas(s) : k < i
  BY DEF Current
<1>2. After(s, i) = {}
  <2>1. \A j \in Commas(s) : j \in Int /\ i \in Int /\ j < i
    BY <1>1, Places
  <2> QED
    BY <2>1 DEF After
<1>3. Cardinality(After(s, i)) = 0
  BY <1>2, FS_EmptySet
<1>4. MaskBits(s, i) = {CHUNKSZ * 0 + k : k \in ChunkBits(s, i)}
  BY <1>3 DEF MaskBits, After
<1>5. \A k \in ChunkBits(s, i) : CHUNKSZ * 0 + k = k
  BY <1>1, BitsAreNat, ChunkSizes
<1> QED
  BY <1>4, <1>5

\* So all bits are those that are done and those of the chunk.
LEMMA AllIs ==
  ASSUME NEW s, NEW n \in Nat, DOMAIN s = 1 .. n
  PROVE  All(s) = Done(s) \cup ChunkOf(s) /\ ChunkOf(s) \subseteq Nat /\ Done(s) \subseteq Nat
<1>1. Current(s) \subseteq Digits(s)
  BY DEF Current
<1>2. \A i \in Current(s) : MaskBits(s, i) = ChunkBits(s, i)
  BY CurrentBits
<1>3. All(s) = Done(s) \cup ChunkOf(s)
  BY <1>1, <1>2 DEF All, Done, ChunkOf
<1>4. \A i \in Digits(s) : ChunkBits(s, i) \subseteq Nat /\ MaskBits(s, i) \subseteq Nat
  BY BitsAreNat
<1> QED
  BY <1>1, <1>3, <1>4 DEF Done, ChunkOf

-----------------------------------------------------------------------------
\* A blank changes nothing.
LEMMA BlankGrows ==
  ASSUME NEW s, NEW t, NEW n, NEW ch, Grows(s, t, n, ch), ch \notin DigitChars, ch # Separator
  PROVE  /\ Digits(t) = Digits(s) /\ Commas(t) = Commas(s) /\ Current(t) = Current(s)
         /\ ChunkOf(t) = ChunkOf(s) /\ Done(t) = Done(s)
         /\ \A i \in Digits(s) : ChunkBits(t, i) = ChunkBits(s, i)
<1>0. /\ n \in Nat /\ DOMAIN s = 1 .. n /\ DOMAIN t = 1 .. n + 1 /\ n + 1 \notin 1 .. n
      /\ \A i \in 1 .. n : t[i] = s[i]
      /\ t[n + 1] = ch /\ 1 .. n + 1 = 1 .. n \cup {n + 1}
  BY DEF Grows
<1>1. Digits(t) = Digits(s)
  BY <1>0 DEF Digits
<1>2. Commas(t) = Commas(s)
  BY <1>0 DEF Commas
<1>3. Current(t) = Current(s)
  BY <1>1, <1>2 DEF Current
<1>4. \A i : Below(t, i) = Below(s, i)
  BY <1>1, <1>2 DEF Below
<1>5. \A i \in Digits(s) : t[i] = s[i]
  BY <1>0 DEF Digits
<1>6. \A i \in Digits(s) : ChunkBits(t, i) = ChunkBits(s, i)
  BY <1>4, <1>5 DEF ChunkBits
<1>7. \A i \in Digits(s) : MaskBits(t, i) = MaskBits(s, i)
  BY <1>2, <1>6 DEF MaskBits
<1>8. ChunkOf(t) = ChunkOf(s)
  <2>1. Current(s) \subseteq Digits(s)
    BY DEF Current
  <2> QED
    BY <1>3, <1>6, <2>1 DEF ChunkOf
<1>9. Done(t) = Done(s)
  BY <1>1, <1>3, <1>7 DEF Done
<1> QED
  BY <1>1, <1>2, <1>3, <1>6, <1>8, <1>9

\* A comma ends the chunk, and what was there of the mask has a higher place.
LEMMA CommaGrows ==
  ASSUME NEW s, NEW t, NEW n, NEW ch, Grows(s, t, n, ch), ch = Separator
  PROVE  /\ Digits(t) = Digits(s) /\ Commas(t) = Commas(s) \cup {n + 1} /\ Current(t) = {}
         /\ ChunkOf(t) = {} /\ Done(t) = {x + CHUNKSZ : x \in All(s)}
         /\ \A i \in Digits(s) : ChunkBits(t, i) = ChunkBits(s, i)
<1>0. /\ n \in Nat /\ DOMAIN s = 1 .. n /\ DOMAIN t = 1 .. n + 1 /\ n + 1 \notin 1 .. n
      /\ \A i \in 1 .. n : t[i] = s[i]
      /\ t[n + 1] = Separator /\ 1 .. n + 1 = 1 .. n \cup {n + 1}
  BY DEF Grows
<1>a. Separator \notin DigitChars
  BY DigitsAre
<1>1. Digits(t) = Digits(s)
  BY <1>0, <1>a DEF Digits
<1>2. Commas(t) = Commas(s) \cup {n + 1}
  BY <1>0 DEF Commas
<1>b. Digits(s) \subseteq 1 .. n /\ Commas(s) \subseteq 1 .. n
  BY <1>0 DEF Digits, Commas
<1>3. Current(t) = {}
  <2>1. \A i \in Digits(s) : ~(n + 1 < i)
    BY <1>0, <1>b
  <2> QED
    BY <1>1, <1>2, <2>1 DEF Current
<1>4. \A i \in Digits(s) : Below(t, i) = Below(s, i)
  <2>1. \A i \in Digits(s), j \in Digits(s) : n + 1 \notin i .. j
    BY <1>0, <1>b
  <2>2. \A i \in Digits(s), j \in Digits(s) :
          Commas(t) \cap (i .. j) = {} <=> Commas(s) \cap (i .. j) = {}
    BY <1>2, <2>1
  <2> QED
    BY <1>1, <2>2 DEF Below
<1>5. \A i \in Digits(s) : t[i] = s[i]
  BY <1>0, <1>b
<1>6. \A i \in Digits(s) : ChunkBits(t, i) = ChunkBits(s, i)
  BY <1>4, <1>5 DEF ChunkBits
<1>7. ASSUME NEW i \in Digits(s)
      PROVE  MaskBits(t, i) = {x + CHUNKSZ : x \in MaskBits(s, i)}
  <2>1. After(t, i) = After(s, i) \cup {n + 1} /\ n + 1 \notin After(s, i)
    <3>1. n + 1 > i
      BY <1>0, <1>b
    <3> QED
      BY <1>0, <1>2, <1>b, <3>1 DEF After
  <2>2. PICK m \in Nat : m = Cardinality(After(s, i))
    BY <1>0, Places
  <2>3. Cardinality(After(t, i)) = m + 1
    BY <1>0, <2>1, <2>2, Places, FS_AddElement
  <2>4. ChunkBits(s, i) \subseteq Int
    BY <1>0, BitsAreNat
  <2>5. MaskBits(t, i) = {CHUNKSZ * (m + 1) + k : k \in ChunkBits(s, i)}
    BY <1>6, <2>3 DEF MaskBits, After
  <2>6. MaskBits(s, i) = {CHUNKSZ * m + k : k \in ChunkBits(s, i)}
    BY <2>2 DEF MaskBits, After
  <2>7. {CHUNKSZ * (m + 1) + k : k \in ChunkBits(s, i)} =
          {x + CHUNKSZ : x \in {CHUNKSZ * m + k : k \in ChunkBits(s, i)}}
    BY <2>4, ChunkSizes, Scaled
  <2> QED
    BY <2>5, <2>6, <2>7
<1>8. ChunkOf(t) = {}
  BY <1>3 DEF ChunkOf
<1>9. Done(t) = {x + CHUNKSZ : x \in All(s)}
  <2>1. Done(t) = UNION {{x + CHUNKSZ : x \in MaskBits(s, i)} : i \in Digits(s)}
    BY <1>1, <1>3, <1>7 DEF Done
  <2>2. \A y : y \in Done(t) <=> \E i \in Digits(s) : \E x \in MaskBits(s, i) : y = x + CHUNKSZ
    BY <2>1
  <2>3. \A y : y \in {x + CHUNKSZ : x \in All(s)} <=>
                \E i \in Digits(s) : \E x \in MaskBits(s, i) : y = x + CHUNKSZ
    BY DEF All
  <2> QED
    BY <2>2, <2>3
<1> QED
  BY <1>1, <1>2, <1>3, <1>6, <1>8, <1>9

\* A digit gives those of its chunk a higher place.
LEMMA DigitGrows ==
  ASSUME NEW s, NEW t, NEW n, NEW ch, Grows(s, t, n, ch), ch \in DigitChars
  PROVE  /\ Digits(t) = Digits(s) \cup {n + 1} /\ Commas(t) = Commas(s)
         /\ Current(t) = Current(s) \cup {n + 1}
         /\ ChunkOf(t) = {x + DIGITSZ : x \in ChunkOf(s)} \cup hex_to_bin(ch)
         /\ Done(t) = Done(s)
         /\ \A i \in Digits(s) \ Current(s) : ChunkBits(t, i) = ChunkBits(s, i)
<1>0. /\ n \in Nat /\ DOMAIN s = 1 .. n /\ DOMAIN t = 1 .. n + 1 /\ n + 1 \notin 1 .. n
      /\ \A i \in 1 .. n : t[i] = s[i]
      /\ t[n + 1] = ch /\ 1 .. n + 1 = 1 .. n \cup {n + 1}
  BY DEF Grows
<1>a. Separator # ch
  BY DigitsAre
<1>1. Digits(t) = Digits(s) \cup {n + 1}
  BY <1>0 DEF Digits
<1>2. Commas(t) = Commas(s)
  BY <1>0, <1>a DEF Commas
<1>b. Digits(s) \subseteq 1 .. n /\ Commas(s) \subseteq 1 .. n /\ Current(s) \subseteq Digits(s)
  BY <1>0 DEF Digits, Commas, Current
<1>3. Current(t) = Current(s) \cup {n + 1}
  <2>1. \A k \in Commas(s) : k < n + 1
    BY <1>0, <1>b
  <2> QED
    BY <1>1, <1>2, <2>1 DEF Current
<1>4. ASSUME NEW i \in Digits(s) \ Current(s)
      PROVE  Below(t, i) = Below(s, i)
  <2>1. PICK k \in Commas(s) : ~(k < i)
    BY DEF Current
  <2>2. k \in i .. n + 1
    BY <1>0, <1>b, <2>1
  <2> QED
    BY <1>1, <1>2, <2>2 DEF Below
<1>5. ASSUME NEW i \in Current(s)
      PROVE  Below(t, i) = Below(s, i) \cup {n + 1} /\ n + 1 \notin Below(s, i)
  <2>1. Commas(s) \cap (i .. n + 1) = {}
    BY <1>0, <1>b DEF Current
  <2>2. n + 1 > i
    BY <1>0, <1>b
  <2> QED
    BY <1>0, <1>1, <1>2, <1>b, <2>1, <2>2 DEF Below
<1>6. Below(t, n + 1) = {}
  <2>1. \A j \in Digits(t) : ~(j > n + 1)
    BY <1>0, <1>1, <1>b
  <2> QED
    BY <2>1 DEF Below
<1>7. \A i \in Digits(s) : t[i] = s[i]
  BY <1>0, <1>b
<1>8. \A i \in Digits(s) \ Current(s) : ChunkBits(t, i) = ChunkBits(s, i)
  BY <1>4, <1>7 DEF ChunkBits
<1>9. ASSUME NEW i \in Current(s)
      PROVE  ChunkBits(t, i) = {x + DIGITSZ : x \in ChunkBits(s, i)}
  <2>1. i \in Digits(s)
    BY <1>b
  <2>2. PICK m \in Nat : m = Cardinality(Below(s, i))
    BY <1>0, <2>1, Places
  <2>3. Cardinality(Below(t, i)) = m + 1
    BY <1>0, <1>5, <2>1, <2>2, Places, FS_AddElement
  <2>4. hex_to_bin(s[i]) \subseteq Int
    BY DigitBits, ChunkSizes
  <2>5. ChunkBits(t, i) = {DIGITSZ * (m + 1) + k : k \in hex_to_bin(s[i])}
    BY <1>7, <2>1, <2>3 DEF ChunkBits
  <2>6. ChunkBits(s, i) = {DIGITSZ * m + k : k \in hex_to_bin(s[i])}
    BY <2>2 DEF ChunkBits
  <2>7. {DIGITSZ * (m + 1) + k : k \in hex_to_bin(s[i])} =
          {x + DIGITSZ : x \in {DIGITSZ * m + k : k \in hex_to_bin(s[i])}}
    BY <2>4, ChunkSizes, Scaled
  <2> QED
    BY <2>5, <2>6, <2>7
<1>10. ChunkBits(t, n + 1) = hex_to_bin(ch)
  <2>1. ChunkBits(t, n + 1) = {DIGITSZ * 0 + k : k \in hex_to_bin(ch)}
    BY <1>0, <1>6, FS_EmptySet DEF ChunkBits
  <2>2. \A k \in hex_to_bin(ch) : DIGITSZ * 0 + k = k
    BY DigitBits, ChunkSizes
  <2> QED
    BY <2>1, <2>2
<1>11. ChunkOf(t) = {x + DIGITSZ : x \in ChunkOf(s)} \cup hex_to_bin(ch)
  <2>1. \A y : y \in ChunkOf(t) <=>
                (\E i \in Current(s) : y \in ChunkBits(t, i)) \/ y \in ChunkBits(t, n + 1)
    BY <1>3 DEF ChunkOf
  <2>2. \A y : (\E i \in Current(s) : y \in ChunkBits(t, i)) <=>
                \E i \in Current(s) : \E x \in ChunkBits(s, i) : y = x + DIGITSZ
    BY <1>9
  <2>3. \A y : y \in {x + DIGITSZ : x \in ChunkOf(s)} <=>
                \E i \in Current(s) : \E x \in ChunkBits(s, i) : y = x + DIGITSZ
    BY DEF ChunkOf
  <2> QED
    BY <1>10, <2>1, <2>2, <2>3
<1>12. Done(t) = Done(s)
  <2>1. Digits(t) \ Current(t) = Digits(s) \ Current(s)
    BY <1>0, <1>1, <1>3, <1>b
  <2>2. \A i \in Digits(s) \ Current(s) : MaskBits(t, i) = MaskBits(s, i)
    BY <1>2, <1>8 DEF MaskBits
  <2> QED
    BY <2>1, <2>2 DEF Done
<1> QED
  BY <1>1, <1>2, <1>3, <1>8, <1>11, <1>12

-----------------------------------------------------------------------------
\* Bits of the first word are put into a bitmap.
LEMMA FirstOr ==
  ASSUME NEW d \in Words, NEW v \in SUBSET InLong
  PROVE  /\ SetOf([d EXCEPT ![0] = @ \cup v]) = SetOf(d) \cup (v \cap Bit)
         /\ Clean(d) /\ v \subseteq Bit => Clean([d EXCEPT ![0] = @ \cup v])
<1> DEFINE e == [d EXCEPT ![0] = @ \cup v]
<1>1. 0 \in Long
  BY Sizes DEF Long
<1>2. e \in Words
  BY DEF Words
<1>3. e[0] = d[0] \cup v /\ \A k \in Long : k # 0 => e[k] = d[k]
  BY <1>1 DEF Words
<1> HIDE DEF e
<1>4. ASSUME NEW i \in Bit
      PROVE  i \in SetOf(e) <=> i \in SetOf(d) \/ i \in v
  <2>1. PICK k \in Long, r \in InLong : i = k * BITS_PER_LONG + r
    BY BitsAreIn, BitOfPlace
  <2>2. k \in Nat /\ r \in Nat /\ r < BITS_PER_LONG /\ i \in Nat /\ i < bits
    BY BitsAreIn, Sizes DEF Long, InLong, Bit
  <2>3. (i \in SetOf(e) <=> r \in e[k]) /\ (i \in SetOf(d) <=> r \in d[k])
    BY <2>1, <2>2, InSet
  <2>4. CASE k = 0
    <3>1. i = r
      BY <2>1, <2>2, <2>4, Sizes
    <3> QED
      BY <1>3, <2>3, <2>4, <3>1
  <2>5. CASE k # 0
    <3>1. BITS_PER_LONG * 0 + BITS_PER_LONG <= BITS_PER_LONG * k
      BY <2>2, <2>5, Sizes, Multiples
    <3>2. i >= BITS_PER_LONG
      <4>1. BITS_PER_LONG * k = k * BITS_PER_LONG
        BY <2>2, Sizes
      <4> QED
        BY <2>1, <2>2, <3>1, <4>1, Sizes
    <3>3. i \notin v
      BY <2>2, <3>2, Sizes DEF InLong
    <3> QED
      BY <1>3, <2>3, <2>5, <3>3
  <2> QED
    BY <2>4, <2>5
<1>5. SetOf(e) \subseteq Bit /\ SetOf(d) \subseteq Bit
  BY DEF SetOf
<1>6. SetOf(e) = SetOf(d) \cup (v \cap Bit)
  BY <1>4, <1>5
<1>7. ASSUME Clean(d), v \subseteq Bit
      PROVE  Clean(e)
  <2>1. d[lim - 1] \subseteq LAST_WORD_MASK(bits)
    BY <1>7, CleanIs
  <2>2. lim - 1 \in Long
    BY Sizes DEF Long
  <2>3. CASE lim - 1 = 0
    <3>1. \A r \in v : (lim - 1) * BITS_PER_LONG + r < bits
      <4>1. (lim - 1) * BITS_PER_LONG = 0
        BY <2>3, Sizes
      <4> QED
        BY <1>7, <4>1, Sizes DEF Bit
    <3>2. v \subseteq LAST_WORD_MASK(bits)
      BY <3>1, UsedIs
    <3>3. e[lim - 1] \subseteq LAST_WORD_MASK(bits)
      BY <1>3, <2>1, <2>3, <3>2
    <3> QED
      BY <1>2, <3>3, CleanIs
  <2>4. CASE lim - 1 # 0
    <3>1. e[lim - 1] = d[lim - 1]
      BY <1>3, <2>2, <2>4
    <3> QED
      BY <1>2, <2>1, <3>1, CleanIs
  <2> QED
    BY <2>3, <2>4
<1> QED
  BY <1>6, <1>7 DEF e

\* The mask has nb bits, the last of which is set, or it has none and no chunk was put into it.
MaskInv(nc, nb, mask) ==
  /\ nc = 0 => nb = 0 /\ SetOf(mask) = {}
  /\ nc > 0 => nb - 1 \in SetOf(mask)
  /\ \A x \in SetOf(mask) : x < nb
  /\ Clean(mask)

\* The mask with one chunk more, and how many bits it has.
Longer(mask, v) == [bitmap_shift_left(mask, CHUNKSZ) EXCEPT ![0] = @ \cup v]
LongerBits(nc, nb, v) == nb + (IF nc = 0 THEN fls(v) ELSE CHUNKSZ)

\* A chunk that ends is put below what there was, or there are too many bits.
LEMMA MaskEnds ==
  ASSUME NEW nc \in Nat, NEW nb \in Nat, NEW mask \in Words, NEW v \in SUBSET InChunk,
         MaskInv(nc, nb, mask), nc # 0 \/ v # {}
  PROVE  LET all == {x + CHUNKSZ : x \in SetOf(mask)} \cup v
             mask2 == Longer(mask, v)
             nb2 == LongerBits(nc, nb, v)
         IN  /\ nb2 \in Nat /\ nb2 - 1 \in all
             /\ nb2 <= bits => SetOf(mask2) = all /\ MaskInv(nc + 1, nb2, mask2)
<1> DEFINE all == {x + CHUNKSZ : x \in SetOf(mask)} \cup v
           d == bitmap_shift_left(mask, CHUNKSZ)
           mask2 == Longer(mask, v)
           nb2 == LongerBits(nc, nb, v)
<1>1. /\ fls(v) \in 0 .. CHUNKSZ
      /\ v # {} => fls(v) - 1 \in v
      /\ \A i \in v : i < fls(v)
  BY ChunkSizes, LastSet DEF InChunk
<1>2. v \subseteq Nat /\ (\A x \in v : x < CHUNKSZ) /\ v \subseteq InLong
  BY FirstWord, ChunkSizes DEF InChunk
<1>3. SetOf(mask) \subseteq Bit /\ Bit \subseteq Nat
  BY Sizes DEF SetOf, Bit
<1>4. nb2 \in Nat /\ nb2 - 1 \in all /\ \A x \in all : x < nb2
  <2>1. CASE nc = 0
    <3>1. all = v /\ nb2 = fls(v)
      BY <1>1, <2>1, ChunkSizes DEF MaskInv, LongerBits
    <3> QED
      BY <1>1, <2>1, <3>1
  <2>2. CASE nc # 0
    <3>1. nb2 = nb + CHUNKSZ
      BY <2>2 DEF LongerBits
    <3>2. nb - 1 \in SetOf(mask) /\ nb - 1 \in Nat
      BY <1>3, <2>2 DEF MaskInv
    <3>3. nb2 - 1 = (nb - 1) + CHUNKSZ /\ nb2 \in Nat
      BY <3>1, ChunkSizes
    <3>4. \A x \in SetOf(mask) : x + CHUNKSZ < nb2
      <4>1. \A x \in SetOf(mask) : x < nb /\ x \in Nat
        BY <1>3 DEF MaskInv
      <4> HIDE DEF nb2
      <4> QED
        BY <3>1, <4>1, ChunkSizes
    <3>5. \A x \in v : x < nb2
      BY <1>2, <3>1, <3>2, ChunkSizes
    <3> QED
      BY <3>2, <3>3, <3>4, <3>5
  <2> QED
    BY <2>1, <2>2
<1>5. all \subseteq Nat
  <2>1. \A x \in SetOf(mask) : x + CHUNKSZ \in Nat
    <3>1. \A x \in SetOf(mask) : x \in Nat
      BY <1>3
    <3> QED
      BY <3>1, ChunkSizes
  <2> QED
    BY <1>2, <2>1
<1>6. ASSUME nb2 <= bits
      PROVE  SetOf(mask2) = all /\ MaskInv(nc + 1, nb2, mask2)
  <2>1. all \subseteq Bit
    <3> HIDE DEF all, nb2
    <3> QED
      BY <1>4, <1>5, <1>6, Sizes DEF Bit
  <2>2. CHUNKSZ \in Nat /\ CHUNKSZ <= lim * BITS_PER_LONG
    <3>1. PICK l \in Nat : lim = l + 1
      BY Sizes
    <3>2. lim * BITS_PER_LONG = l * BITS_PER_LONG + BITS_PER_LONG /\ l * BITS_PER_LONG \in Nat
      BY <3>1, ChunkSizes
    <3> QED
      BY <3>2, ChunkSizes
  <2>3. SetOf(d) = {x + CHUNKSZ : x \in SetOf(mask)} \cap Bit
    BY <2>2, LeftShifted
  <2>4. d \in Words /\ Clean(d)
    <3>1. Clean(mask)
      BY DEF MaskInv
    <3> QED
      BY <2>2, <3>1, ShiftTypes
  <2> HIDE DEF d
  <2>5. mask2 = [d EXCEPT ![0] = @ \cup v]
    BY DEF Longer, d
  <2>6. SetOf(mask2) = SetOf(d) \cup (v \cap Bit) /\ Clean(mask2)
    <3>1. v \subseteq Bit
      BY <2>1
    <3> QED
      BY <1>2, <2>4, <2>5, <3>1, FirstOr
  <2>7. SetOf(mask2) = all
    BY <2>1, <2>3, <2>6
  <2> HIDE DEF all, mask2, nb2
  <2>8. MaskInv(nc + 1, nb2, mask2)
    BY <1>4, <2>6, <2>7 DEF MaskInv
  <2> QED
    BY <2>7, <2>8
<1> QED
  BY <1>4, <1>6

-----------------------------------------------------------------------------
\* A digit is before k, and no comma between them.
HasDigit(s, k) == \E j \in Digits(s) : j < k /\ \A l \in Commas(s) : ~(j < l /\ l < k)

\* Nothing is wrong so far: what comes last may be the blank after the mask.
WellFormed(s) ==
  /\ \A i \in DOMAIN s : s[i] \in DigitChars \cup {Separator, Blank}
  /\ \A k \in Commas(s) : HasDigit(s, k)
  /\ \A d \in Digits(s), i \in DOMAIN s, k \in DOMAIN s :
       d < i /\ i < k /\ s[i] = Blank => s[k] = Blank

\* Each digit is in the bits of its chunk.
Fits(s) == \A i \in Digits(s) : ChunkBits(s, i) \subseteq InChunk

\* One character of the right kind more.
LEMMA WellGrows ==
  ASSUME NEW s, NEW t, NEW n, NEW ch, Grows(s, t, n, ch), WellFormed(s),
         ch \in DigitChars \cup {Separator, Blank},
         ch # Blank /\ Digits(s) # {} => s[n] # Blank,
         ch = Separator => Current(s) # {}
  PROVE  WellFormed(t)
<1>0. /\ n \in Nat /\ DOMAIN s = 1 .. n /\ DOMAIN t = 1 .. n + 1 /\ n + 1 \notin 1 .. n
      /\ \A i \in 1 .. n : t[i] = s[i]
      /\ t[n + 1] = ch /\ 1 .. n + 1 = 1 .. n \cup {n + 1}
  BY DEF Grows
<1>1. \A i \in DOMAIN t : t[i] \in DigitChars \cup {Separator, Blank}
  BY <1>0 DEF WellFormed
<1>2. /\ Digits(s) = {i \in 1 .. n : s[i] \in DigitChars}
      /\ Commas(s) = {i \in 1 .. n : s[i] = Separator}
      /\ Digits(t) = {i \in 1 .. n + 1 : t[i] \in DigitChars}
      /\ Commas(t) = {i \in 1 .. n + 1 : t[i] = Separator}
  BY <1>0 DEF Digits, Commas
<1>3. /\ Digits(s) \subseteq Digits(t) /\ Commas(s) \subseteq Commas(t)
      /\ Digits(t) \subseteq Digits(s) \cup {n + 1} /\ Commas(t) \subseteq Commas(s) \cup {n + 1}
      /\ (n + 1 \in Commas(t) => ch = Separator) /\ (n + 1 \in Digits(t) => ch \in DigitChars)
      /\ Digits(s) \subseteq 1 .. n /\ Commas(s) \subseteq 1 .. n
  BY <1>0, <1>2
<1>4. ASSUME NEW k \in Commas(t)
      PROVE  HasDigit(t, k)
  <2>1. CASE k \in Commas(s)
    <3>1. PICK j \in Digits(s) : j < k /\ \A l \in Commas(s) : ~(j < l /\ l < k)
      BY <2>1 DEF WellFormed, HasDigit
    <3>2. ~(n + 1 < k)
      BY <1>0, <1>3, <2>1
    <3> QED
      BY <1>3, <3>1, <3>2 DEF HasDigit
  <2>2. CASE k = n + 1
    <3>1. PICK j \in Digits(s) : \A l \in Commas(s) : l < j
      BY <1>3, <2>2 DEF Current
    <3>2. j \in Digits(t) /\ j < k
      BY <1>0, <1>3, <2>2, <3>1
    <3>3. \A l \in Commas(t) : ~(j < l /\ l < k)
      <4>1. \A l \in Commas(s) : l \in Int /\ j \in Int /\ l < j
        BY <1>3, <3>1
      <4>2. ~(n + 1 < k)
        BY <1>0, <2>2
      <4> QED
        BY <1>3, <4>1, <4>2
    <3> QED
      BY <3>2, <3>3 DEF HasDigit
  <2> QED
    BY <1>3, <2>1, <2>2
<1>5. ASSUME NEW d \in Digits(t), NEW i \in DOMAIN t, NEW k \in DOMAIN t, d < i, i < k, t[i] = Blank
      PROVE  t[k] = Blank
  <2>1. d \in Digits(s) /\ i \in 1 .. n
    <3>1. d \in 1 .. n + 1 /\ i \in 1 .. n + 1 /\ k \in 1 .. n + 1
      BY <1>0, <1>2, <1>5
    <3>2. d # n + 1 /\ i # n + 1
      BY <1>0, <1>5, <3>1
    <3> QED
      BY <1>0, <1>3, <3>1, <3>2
  <2>2. s[i] = Blank
    BY <1>0, <1>5, <2>1
  <2>3. CASE k \in 1 .. n
    BY <1>0, <1>5, <2>1, <2>2, <2>3 DEF WellFormed
  <2>4. CASE k = n + 1
    <3>1. s[n] = Blank
      <4>1. CASE i = n
        BY <2>2, <4>1
      <4>2. CASE i # n
        <5>1. i < n /\ n \in 1 .. n
          BY <1>0, <2>1, <4>2
        <5> QED
          BY <1>0, <1>5, <2>1, <2>2, <5>1 DEF WellFormed
      <4> QED
        BY <4>1, <4>2
    <3> QED
      BY <1>0, <2>1, <2>4, <3>1
  <2> QED
    BY <1>0, <2>3, <2>4
<1> QED
  BY <1>1, <1>4, <1>5 DEF WellFormed

\* Digits of a chunk fit in what the chunk has.
LEMMA FitsGrows ==
  ASSUME NEW s, NEW t, NEW n, NEW ch, Grows(s, t, n, ch), Fits(s), ChunkOf(t) \subseteq InChunk
  PROVE  Fits(t)
<1>1. CASE ch \in DigitChars
  <2>1. /\ Digits(t) = Digits(s) \cup {n + 1}
        /\ Current(t) = Current(s) \cup {n + 1}
        /\ \A i \in Digits(s) \ Current(s) : ChunkBits(t, i) = ChunkBits(s, i)
    BY <1>1, DigitGrows
  <2>2. \A i \in Current(t) : ChunkBits(t, i) \subseteq InChunk
    BY DEF ChunkOf
  <2> QED
    BY <2>1, <2>2 DEF Fits
<1>2. CASE ch = Separator
  BY <1>2, CommaGrows DEF Fits
<1>3. CASE ch \notin DigitChars /\ ch # Separator
  BY <1>3, BlankGrows DEF Fits
<1> QED
  BY <1>1, <1>2, <1>3

\* A text whose last chunk has a digit is not malformed.
LEMMA NotMalformed ==
  ASSUME text \in Seq(Letter), WellFormed(text), Current(text) # {}
  PROVE  ~Malformed
<1>0. Len(text) \in Nat /\ DOMAIN text = 1 .. Len(text)
  OBVIOUS
<1>1. ~(\E i \in DOMAIN text : text[i] \notin DigitChars \cup {Separator, Blank})
  BY DEF WellFormed
<1>2. ASSUME NEW i \in Commas(text) \cup {Len(text) + 1}
      PROVE  ~(\A j \in Digits(text) : j < i => \E k \in Commas(text) : j < k /\ k < i)
  <2>1. HasDigit(text, i)
    <3>1. CASE i \in Commas(text)
      BY <3>1 DEF WellFormed
    <3>2. CASE i = Len(text) + 1
      <4>1. PICK j \in Digits(text) : \A l \in Commas(text) : l < j
        BY DEF Current
      <4>2. j \in 1 .. Len(text) /\ Commas(text) \subseteq 1 .. Len(text)
        BY <1>0, <4>1 DEF Digits, Commas
      <4>3. j < i /\ \A l \in Commas(text) : ~(j < l /\ l < i)
        BY <1>0, <3>2, <4>1, <4>2
      <4> QED
        BY <4>3 DEF HasDigit
    <3> QED
      BY <3>1, <3>2
  <2> QED
    BY <2>1 DEF HasDigit
<1>3. ~(\E i \in DOMAIN text, k \in DOMAIN text, d \in Digits(text) :
          d < i /\ i < k /\ text[i] = Blank /\ text[k] # Blank)
  BY DEF WellFormed
<1> QED
  BY <1>1, <1>2, <1>3, Zenon DEF Malformed

-----------------------------------------------------------------------------
\* What was read of the text.
Seen == SubSeq(text, 1, pos)

\* What the parser knows of the text s that it has read, of which the last character is last:
\* v is the chunk, and mask what comes before that.
ReadInv(s, last, v, mask) ==
  /\ last = IF s = << >> THEN Nul ELSE s[Len(s)]
  /\ WellFormed(s) /\ Fits(s)
  /\ v = ChunkOf(s)
  /\ Done(s) = {x + CHUNKSZ : x \in SetOf(mask)}

\* The flags say whether there was a digit since the last comma, and at all.
Flags ==
  /\ ndigits <=> Current(Seen) # {}
  /\ totaldigits <=> Digits(Seen) # {}

\* While a text is parsed, what was read of it is well-formed and fits.
ParseInv ==
  status \in {"idle", "parse"} =>
    /\ ReadInv(Seen, c, chunk, maskp)
    /\ MaskInv(nchunks, nbits, maskp)
    /\ Flags

\* Malformed, of any text t.
Bad(t) ==
  \/ \E i \in DOMAIN t : t[i] \notin DigitChars \cup {Separator, Blank}
  \/ \E i \in Commas(t) \cup {Len(t) + 1} :
       \A j \in Digits(t) : j < i => \E k \in Commas(t) : j < k /\ k < i
  \/ \E i \in DOMAIN t, k \in DOMAIN t, d \in Digits(t) :
       d < i /\ i < k /\ t[i] = Blank /\ t[k] # Blank

\* A text that is accepted as mask, and one that does not fit.
Accepts(t, mask) == ~Bad(t) /\ Fits(t) /\ SetOf(mask) = All(t) /\ Clean(mask)

Overflows(t) ==
  \E i \in Digits(t) : ~(ChunkBits(t, i) \subseteq InChunk) \/ ~(MaskBits(t, i) \subseteq Bit)

\* What was read before the comma that the parser is at.
ReadText == SubSeq(text, 1, IF c = Separator THEN pos - 1 ELSE pos)

\* Whatever the parser returns is right.
ResultInv ==
  /\ status = "0" => Accepts(text, maskp)
  /\ status = "EINVAL" => Bad(text)
  /\ status = "EOVERFLOW" => Overflows(ReadText)

\* That is ParsesMasks, with the value of the unused bits.
LEMMA ResultIs == ResultInv => ParsesMasks /\ (status = "0" => Clean(maskp))
<1> SUFFICES ASSUME ResultInv
             PROVE  ParsesMasks /\ (status = "0" => Clean(maskp))
  OBVIOUS
<1>1. Malformed <=> Bad(text)
  BY Zenon DEF Malformed, Bad
<1>2. status = "0" =>
        /\ ~Malformed
        /\ \A i \in Digits(text) : ChunkBits(text, i) \subseteq InChunk
        /\ SetOf(maskp) = UNION {MaskBits(text, i) : i \in Digits(text)}
        /\ Clean(maskp)
  BY <1>1, Zenon DEF ResultInv, Accepts, Fits, All
<1>3. status = "EINVAL" => Malformed
  BY <1>1, Zenon DEF ResultInv
<1>4. status = "EOVERFLOW" =>
        \E i \in Digits(ReadText) : \/ ~(ChunkBits(ReadText, i) \subseteq InChunk)
                                    \/ ~(MaskBits(ReadText, i) \subseteq Bit)
  BY Zenon DEF ResultInv, Overflows
<1> QED
  BY <1>2, <1>3, <1>4, Zenon DEF ParsesMasks, ReadText

\* A beginning of a text has the digits and commas that are there.
LEMMA BeginningIs ==
  ASSUME NEW t \in Seq(Letter), NEW p \in 0 .. Len(t)
  PROVE  LET s == SubSeq(t, 1, p)
         IN  /\ s \in Seq(Letter) /\ Len(s) = p /\ DOMAIN s = 1 .. p /\ DOMAIN t = 1 .. Len(t)
             /\ \A i \in 1 .. p : s[i] = t[i]
             /\ Digits(s) = Digits(t) \cap (1 .. p) /\ Commas(s) = Commas(t) \cap (1 .. p)
             /\ p < Len(t) => Grows(s, SubSeq(t, 1, p + 1), p, t[p + 1])
             /\ p = Len(t) => s = t
             /\ p = 0 <=> s = << >>
<1> DEFINE s == SubSeq(t, 1, p)
<1>1. /\ s \in Seq(Letter) /\ Len(s) = p /\ DOMAIN s = 1 .. p /\ DOMAIN t = 1 .. Len(t)
      /\ \A i \in 1 .. p : s[i] = t[i]
  OBVIOUS
<1>2. Len(t) \in Nat /\ p \in Nat /\ 1 .. p \subseteq 1 .. Len(t)
  OBVIOUS
<1>3. ASSUME p < Len(t)
      PROVE  Grows(s, SubSeq(t, 1, p + 1), p, t[p + 1])
  <2>1. /\ DOMAIN SubSeq(t, 1, p + 1) = 1 .. p + 1
        /\ \A i \in 1 .. p + 1 : SubSeq(t, 1, p + 1)[i] = t[i]
    BY <1>3
  <2> HIDE DEF s
  <2> QED
    BY <1>1, <1>2, <2>1 DEF Grows
<1>4. p = Len(t) => s = t
  OBVIOUS
<1> HIDE DEF s
<1>5. Digits(s) = Digits(t) \cap (1 .. p) /\ Commas(s) = Commas(t) \cap (1 .. p)
  BY <1>1, <1>2 DEF Digits, Commas
<1>6. p = 0 <=> s = << >>
  BY <1>1
<1> QED
  BY <1>1, <1>3, <1>4, <1>5, <1>6 DEF s

\* What is between chunks is no blank.
LEMMA Distinct == Separator # Blank /\ Nul # Blank /\ Nul # Separator
BY Zenon DEF Separator, Blank, Nul

\* A blank was before a character, and a digit somewhere before that.
LEMMA BadBlank ==
  ASSUME NEW t \in Seq(Letter), NEW p \in Nat, p < Len(t),
         Digits(SubSeq(t, 1, p)) # {}, t[p] = Blank, t[p + 1] # Blank
  PROVE  Bad(t)
<1>1. p \in 0 .. Len(t)
  OBVIOUS
<1>2. PICK d \in Digits(t) : d \in 1 .. p
  BY <1>1, BeginningIs
<1>3. t[d] \in DigitChars
  BY DEF Digits
<1>4. d # p
  BY <1>3, DigitsAre
<1>5. d < p /\ p < p + 1 /\ p \in DOMAIN t /\ p + 1 \in DOMAIN t
  BY <1>1, <1>2, <1>4
<1> QED
  BY <1>5 DEF Bad

\* Neither a digit, a comma nor a blank.
LEMMA BadChars ==
  ASSUME NEW t \in Seq(Letter), NEW p \in Nat, p < Len(t),
         t[p + 1] # Blank, t[p + 1] \notin DigitChars \cup {Separator}
  PROVE  Bad(t)
<1>1. p + 1 \in DOMAIN t
  OBVIOUS
<1> QED
  BY <1>1, Zenon DEF Bad

\* A chunk without digits ends.
LEMMA BadChunk ==
  ASSUME NEW t \in Seq(Letter), NEW p \in 0 .. Len(t),
         p = Len(t) \/ (p < Len(t) /\ t[p + 1] = Separator),
         Current(SubSeq(t, 1, p)) = {}
  PROVE  Bad(t)
<1> DEFINE s == SubSeq(t, 1, p)
<1>1. /\ Digits(s) = Digits(t) \cap (1 .. p) /\ Commas(s) = Commas(t) \cap (1 .. p)
      /\ DOMAIN t = 1 .. Len(t)
  BY BeginningIs
<1>0. Len(t) \in Nat /\ p \in Nat /\ p <= Len(t)
  OBVIOUS
<1> HIDE DEF s
<1>2. p + 1 \in Commas(t) \cup {Len(t) + 1}
  <2>1. CASE p = Len(t)
    BY <2>1
  <2>2. CASE p < Len(t) /\ t[p + 1] = Separator
    <3>1. p + 1 \in DOMAIN t
      <4>1. p + 1 \in 1 .. Len(t)
        BY <1>0, <2>2
      <4> QED
        BY <4>1
    <3> QED
      BY <2>2, <3>1 DEF Commas
  <2> QED
    BY <2>1, <2>2
<1>3. ASSUME NEW j \in Digits(t), j < p + 1
      PROVE  \E k \in Commas(t) : j < k /\ k < p + 1
  <2>1. j \in 1 .. Len(t) /\ t[j] \in DigitChars
    BY <1>1 DEF Digits
  <2>2. j \in Digits(s)
    <3>1. j \in 1 .. p
      BY <1>0, <1>3, <2>1
    <3> QED
      BY <1>1, <3>1
  <2>3. PICK k \in Commas(s) : ~(k < j)
    BY <2>2 DEF Current, s
  <2>4. k \in Commas(t) /\ k \in 1 .. p /\ t[k] = Separator
    BY <1>1 DEF Commas
  <2>5. k # j
    BY <2>1, <2>4, DigitsAre
  <2> QED
    BY <2>1, <2>3, <2>4, <2>5
<1> QED
  BY <1>2, <1>3, Zenon DEF Bad

\* There are bits where a digit more has no place.
LEMMA DigitOverflows ==
  ASSUME NEW s, NEW t, NEW n, NEW ch, Grows(s, t, n, ch), ch \in DigitChars,
         NEW i \in ChunkOf(s), i >= FreeFrom
  PROVE  Overflows(t)
<1>1. n \in Nat /\ DOMAIN s = 1 .. n
  BY DEF Grows
<1>2. i \in Nat
  BY <1>1, AllIs
<1>3. i + DIGITSZ \in ChunkOf(t)
  BY DigitGrows
<1>4. PICK d \in Current(t) : i + DIGITSZ \in ChunkBits(t, d)
  BY <1>3 DEF ChunkOf
<1>5. i + DIGITSZ \notin InChunk
  BY <1>2, ChunkSizes DEF InChunk, FreeFrom
<1>6. d \in Digits(t)
  BY DEF Current
<1> QED
  BY <1>4, <1>5, <1>6 DEF Overflows

\* What the parser knows of one character more.
LEMMA ReadsMore ==
  ASSUME NEW t \in Seq(Letter), NEW p \in Nat, p < Len(t),
         NEW last, NEW v, NEW mask, ReadInv(SubSeq(t, 1, p), last, v, mask),
         NEW ch, ch = t[p + 1], ch \in DigitChars \cup {Separator, Blank},
         ch # Blank /\ Digits(SubSeq(t, 1, p)) # {} => last # Blank,
         NEW v2 \in SUBSET InChunk, NEW mask2,
         ch = Blank => v2 = v /\ mask2 = mask,
         ch \in DigitChars => v2 = {x + DIGITSZ : x \in v} \cup hex_to_bin(ch) /\ mask2 = mask,
         ch = Separator => /\ v2 = {} /\ Current(SubSeq(t, 1, p)) # {}
                           /\ SetOf(mask2) = All(SubSeq(t, 1, p))
  PROVE  ReadInv(SubSeq(t, 1, p + 1), ch, v2, mask2)
<1> DEFINE s == SubSeq(t, 1, p)
           u == SubSeq(t, 1, p + 1)
<1>1. /\ Grows(s, u, p, ch) /\ Len(s) = p /\ DOMAIN s = 1 .. p /\ (p = 0 <=> s = << >>)
  <2>1. p \in 0 .. Len(t)
    OBVIOUS
  <2> QED
    BY <2>1, BeginningIs
<1>2. u # << >> /\ u[Len(u)] = ch
  OBVIOUS
<1>3. /\ last = IF s = << >> THEN Nul ELSE s[Len(s)]
      /\ WellFormed(s) /\ Fits(s) /\ v = ChunkOf(s)
      /\ Done(s) = {x + CHUNKSZ : x \in SetOf(mask)}
  BY DEF ReadInv
<1>4. ch # Blank /\ Digits(s) # {} => last # Blank
  OBVIOUS
<1>5. ch = Separator => v2 = {} /\ Current(s) # {} /\ SetOf(mask2) = All(s)
  OBVIOUS
<1> HIDE DEF s, u
<1>6. Digits(s) # {} => s # << >>
  BY <1>1 DEF Digits
<1>7. ch # Blank /\ Digits(s) # {} => s[p] # Blank
  BY <1>1, <1>3, <1>4, <1>6
<1>8. WellFormed(u)
  BY <1>1, <1>3, <1>5, <1>7, WellGrows
<1>9. v2 = ChunkOf(u) /\ Done(u) = {x + CHUNKSZ : x \in SetOf(mask2)}
  <2>1. CASE ch = Blank
    <3>1. ch \notin DigitChars /\ ch # Separator
      BY <2>1, DigitsAre, Distinct
    <3> QED
      BY <1>1, <1>3, <2>1, <3>1, BlankGrows
  <2>2. CASE ch \in DigitChars
    BY <1>1, <1>3, <2>2, DigitGrows
  <2>3. CASE ch = Separator
    BY <1>1, <1>5, <2>3, CommaGrows
  <2> QED
    BY <2>1, <2>2, <2>3
<1>10. Fits(u)
  <2>1. ChunkOf(u) \subseteq InChunk
    BY <1>9
  <2> QED
    BY <1>1, <1>3, <2>1, FitsGrows
<1>11. ReadInv(u, ch, v2, mask2)
  BY <1>2, <1>8, <1>9, <1>10 DEF ReadInv
<1> QED
  BY <1>11 DEF u

-----------------------------------------------------------------------------
\* The mask after a chunk that had digits: it has all bits of the text so far, unless there are
\* too many of them.
LEMMA EndMask ==
  ASSUME TypeInv, ParseInv, status = "parse", ndigits, EndChunk(TRUE) \/ EndChunk(FALSE)
  PROVE  /\ nbits' <= bits => SetOf(maskp') = All(Seen) /\ MaskInv(nchunks', nbits', maskp')
         /\ nbits' > bits => Overflows(Seen)
         /\ chunk' = {} /\ ~ndigits' /\ (totaldigits' <=> totaldigits)
<1>1. TextOK /\ LocalsOK
  BY TypeParts
<1>2. nchunks \in Nat /\ nbits \in Nat /\ maskp \in Words /\ chunk \in SUBSET InChunk
  BY <1>1, Sizes, ChunkSizes DEF LocalsOK
<1>3. /\ chunk = ChunkOf(Seen) /\ Done(Seen) = {x + CHUNKSZ : x \in SetOf(maskp)}
      /\ MaskInv(nchunks, nbits, maskp)
  BY DEF ParseInv, ReadInv
<1>4. All(Seen) = {x + CHUNKSZ : x \in SetOf(maskp)} \cup chunk
  <2>1. pos \in Nat /\ DOMAIN Seen = 1 .. pos
    BY <1>1, BeginningIs DEF TextOK, Seen
  <2> QED
    BY <1>3, <2>1, AllIs
<1>5. chunk' = {} /\ ~ndigits' /\ (totaldigits' <=> totaldigits)
  <2>1. chunk' = {} /\ ndigits' = FALSE /\ totaldigits' = totaldigits
    BY Zenon DEF EndChunk
  <2> QED
    BY <2>1, Zenon
<1>6. \/ nchunks = 0 /\ chunk = {} /\ UNCHANGED maskVars
      \/ /\ ~(nchunks = 0 /\ chunk = {})
         /\ maskp' = Longer(maskp, chunk)
         /\ nchunks' = nchunks + 1
         /\ nbits' = LongerBits(nchunks, nbits, chunk)
  BY Zenon DEF EndChunk, Leading, Longer, LongerBits
<1>7. CASE nchunks = 0 /\ chunk = {} /\ UNCHANGED maskVars
  <2>1. nchunks' = nchunks /\ nbits' = nbits /\ maskp' = maskp
    BY <1>7 DEF maskVars
  <2>2. nbits = 0 /\ SetOf(maskp) = {}
    BY <1>3, <1>7 DEF MaskInv
  <2>3. All(Seen) = {}
    BY <1>4, <1>7, <2>2
  <2>4. ~(nbits' > bits)
    BY <2>1, <2>2, Sizes
  <2> QED
    BY <1>3, <1>5, <2>1, <2>2, <2>3, <2>4
<1>8. CASE /\ ~(nchunks = 0 /\ chunk = {})
           /\ maskp' = Longer(maskp, chunk)
           /\ nchunks' = nchunks + 1
           /\ nbits' = LongerBits(nchunks, nbits, chunk)
  <2>1. /\ nbits' \in Nat /\ nbits' - 1 \in All(Seen)
        /\ nbits' <= bits => SetOf(maskp') = All(Seen) /\ MaskInv(nchunks', nbits', maskp')
    BY <1>2, <1>3, <1>4, <1>8, MaskEnds
  <2>2. ASSUME nbits' > bits
        PROVE  Overflows(Seen)
    <3>1. nbits' - 1 \notin Bit
      <4>1. PICK m \in Nat : m = nbits' /\ m > bits
        BY <2>1, <2>2
      <4>2. m - 1 \notin Bit
        <5>1. bits \in Nat
          BY Sizes
        <5>2. m > bits
          BY <4>1
        <5>3. ASSUME m - 1 \in 0 .. bits - 1
              PROVE  FALSE
          <6>1. m - 1 <= bits - 1
            BY <5>3
          <6> QED
            BY <5>1, <5>2, <6>1
        <5> QED
          BY <5>3 DEF Bit
      <4> QED
        BY <4>1, <4>2
    <3>2. PICK i \in Digits(Seen) : nbits' - 1 \in MaskBits(Seen, i)
      BY <2>1 DEF All
    <3> QED
      BY <3>1, <3>2, Zenon DEF Overflows
  <2> QED
    BY <1>5, <2>1, <2>2
<1> QED
  BY <1>6, <1>7, <1>8

\* The invariants of a step that reads a character.
LEMMA ReadStep ==
  ASSUME TypeInv, ParseInv, Read
  PROVE  /\ text \in Seq(Letter) /\ pos \in Nat /\ pos < Len(text) /\ pos \in 0 .. Len(text)
         /\ text' = text /\ pos' = pos + 1 /\ c' = Char /\ Char = text[pos + 1]
         /\ Seen = SubSeq(text, 1, pos) /\ Seen' = SubSeq(text, 1, pos + 1)
         /\ Grows(Seen, Seen', pos, Char)
         /\ ReadInv(Seen, c, chunk, maskp) /\ MaskInv(nchunks, nbits, maskp) /\ Flags
         /\ chunk \in SUBSET InChunk
         /\ Digits(Seen) # {} => pos # 0 /\ c = text[pos]
<1>1. status = "parse" /\ pos < Len(text) /\ pos' = pos + 1 /\ c' = Char /\ text' = text
  BY DEF Read
<1>2. text \in Seq(Letter) /\ pos \in 0 .. Len(text) /\ pos \in Nat
  BY DEF TypeInv, HexTypeOK
<1>3. Char = text[pos + 1]
  BY DEF Char
<1>4. Seen = SubSeq(text, 1, pos) /\ Seen' = SubSeq(text, 1, pos + 1)
  BY <1>1 DEF Seen
<1>5. Grows(Seen, Seen', pos, Char)
  BY <1>1, <1>2, <1>3, <1>4, BeginningIs
<1>6. ReadInv(Seen, c, chunk, maskp) /\ MaskInv(nchunks, nbits, maskp) /\ Flags
  BY <1>1 DEF ParseInv
<1>7. chunk \in SUBSET InChunk
  BY DEF TypeInv, HexTypeOK
<1>8. ASSUME Digits(Seen) # {}
      PROVE  pos # 0 /\ c = text[pos]
  <2>1. /\ Len(Seen) = pos /\ DOMAIN Seen = 1 .. pos /\ (pos = 0 <=> Seen = << >>)
        /\ \A i \in 1 .. pos : Seen[i] = text[i]
    BY <1>2, <1>4, BeginningIs
  <2>2. pos # 0
    BY <1>8, <2>1 DEF Digits
  <2>3. c = Seen[pos]
    BY <1>6, <2>1, <2>2 DEF ReadInv
  <2> QED
    BY <1>2, <2>1, <2>2, <2>3
<1> QED
  BY <1>1, <1>2, <1>3, <1>4, <1>5, <1>6, <1>7, <1>8

\* What is invariant of the parser.
MaskInvariant == TypeInv /\ ParseInv /\ ResultInv

\* A blank is passed over.
LEMMA SpaceStep ==
  ASSUME MaskInvariant, Space
  PROVE  ParseInv' /\ ResultInv'
<1>1. TypeInv /\ ParseInv /\ Read
  BY DEF MaskInvariant, Space
<1>2. Char = Blank /\ UNCHANGED << chunkVars, totaldigits, maskVars, status >> /\ status = "parse"
  BY DEF Space, Read
<1>3. chunk' = chunk /\ maskp' = maskp /\ nchunks' = nchunks /\ nbits' = nbits /\ status' = "parse"
  BY <1>2 DEF chunkVars, maskVars
<1>4. ReadInv(Seen', c', chunk', maskp')
  <2>1. /\ text \in Seq(Letter) /\ pos \in Nat /\ pos < Len(text)
        /\ c' = Char /\ Char = text[pos + 1] /\ chunk \in SUBSET InChunk
        /\ Seen = SubSeq(text, 1, pos) /\ Seen' = SubSeq(text, 1, pos + 1)
        /\ ReadInv(Seen, c, chunk, maskp)
    BY <1>1, ReadStep
  <2>2. Char \notin DigitChars /\ Char # Separator
    BY <1>2, DigitsAre, Distinct
  <2>3. Char \in DigitChars \cup {Separator, Blank}
    BY <1>2
  <2>4. ReadInv(SubSeq(text, 1, pos + 1), Char, chunk, maskp)
    BY <1>2, <2>1, <2>2, <2>3, ReadsMore
  <2> QED
    BY <1>3, <2>1, <2>4
<1>5. MaskInv(nchunks', nbits', maskp')
  BY <1>1, <1>3, ReadStep
<1>6. Flags'
  <2>1. Grows(Seen, Seen', pos, Char) /\ Flags
    BY <1>1, ReadStep
  <2>2. Char \notin DigitChars /\ Char # Separator
    BY <1>2, DigitsAre, Distinct
  <2>3. Digits(Seen') = Digits(Seen) /\ Current(Seen') = Current(Seen)
    BY <2>1, <2>2, BlankGrows
  <2>4. ndigits' = ndigits /\ totaldigits' = totaldigits
    BY <1>2 DEF chunkVars
  <2> QED
    BY <2>1, <2>3, <2>4, Zenon DEF Flags
<1>7. ParseInv'
  BY <1>4, <1>5, <1>6, Zenon DEF ParseInv
<1>8. ResultInv'
  BY <1>3 DEF ResultInv
<1> QED
  BY <1>7, <1>8

\* A digit is put into the chunk.
LEMMA DigitStep ==
  ASSUME MaskInvariant, TypeInv', Digit
  PROVE  ParseInv' /\ ResultInv'
<1>1. TypeInv /\ ParseInv /\ Read
  BY Zenon DEF MaskInvariant, Digit, ReadJoined
<1>2. /\ Char # Blank /\ ~(totaldigits /\ c = Blank) /\ Char \in DigitChars
      /\ chunk' = {i + DIGITSZ : i \in chunk} \cup hex_to_bin(Char)
      /\ ndigits' = TRUE /\ totaldigits' = TRUE
      /\ UNCHANGED << maskVars, status >> /\ status = "parse"
  BY Zenon DEF Digit, ReadJoined, Read
<1>3. maskp' = maskp /\ nchunks' = nchunks /\ nbits' = nbits /\ status' = "parse"
  BY <1>2 DEF maskVars
<1>4. ReadInv(Seen', c', chunk', maskp')
  <2>1. /\ text \in Seq(Letter) /\ pos \in Nat /\ pos < Len(text)
        /\ c' = Char /\ Char = text[pos + 1]
        /\ Seen = SubSeq(text, 1, pos) /\ Seen' = SubSeq(text, 1, pos + 1)
        /\ ReadInv(Seen, c, chunk, maskp)
    BY <1>1, ReadStep
  <2>2. Char # Separator /\ Char \in DigitChars \cup {Separator, Blank}
    BY <1>2, DigitsAre
  <2>3. Digits(Seen) # {} => c # Blank
    <3>1. totaldigits <=> Digits(Seen) # {}
      BY <1>1, ReadStep, Zenon DEF Flags
    <3> QED
      BY <1>2, <3>1, Zenon
  <2>4. chunk' \in SUBSET InChunk
    BY DEF TypeInv, HexTypeOK
  <2>5. ReadInv(SubSeq(text, 1, pos + 1), Char, chunk', maskp)
    <3>1. PICK v2 \in SUBSET InChunk : v2 = {x + DIGITSZ : x \in chunk} \cup hex_to_bin(Char)
      BY <1>2, <2>4
    <3>2. ReadInv(SubSeq(text, 1, pos + 1), Char, v2, maskp)
      BY <1>2, <2>1, <2>2, <2>3, <3>1, ReadsMore
    <3> QED
      BY <1>2, <3>1, <3>2
  <2> QED
    BY <1>3, <2>1, <2>5
<1>5. MaskInv(nchunks', nbits', maskp')
  BY <1>1, <1>3, ReadStep
<1>6. Flags'
  <2>1. Grows(Seen, Seen', pos, Char)
    BY <1>1, ReadStep
  <2>2. Digits(Seen') # {} /\ Current(Seen') # {}
    BY <1>2, <2>1, DigitGrows
  <2> QED
    BY <1>2, <2>2, Zenon DEF Flags
<1>7. ParseInv'
  BY <1>4, <1>5, <1>6, Zenon DEF ParseInv
<1>8. ResultInv'
  BY <1>3 DEF ResultInv
<1> QED
  BY <1>7, <1>8

\* The parser gives up.
LEMMA ErrorStep ==
  ASSUME MaskInvariant, EmbeddedSpace \/ BadChar \/ ChunkOverflow
  PROVE  ParseInv' /\ ResultInv'
<1>1. TypeInv /\ ParseInv /\ Read
  BY Zenon DEF MaskInvariant, EmbeddedSpace, BadChar, ChunkOverflow, ReadJoined
<1>2. /\ text \in Seq(Letter) /\ pos \in Nat /\ pos < Len(text)
      /\ text' = text /\ pos' = pos + 1 /\ c' = Char /\ Char = text[pos + 1]
      /\ Seen = SubSeq(text, 1, pos) /\ Seen' = SubSeq(text, 1, pos + 1)
      /\ Grows(Seen, Seen', pos, Char)
      /\ chunk = ChunkOf(Seen) /\ (totaldigits <=> Digits(Seen) # {})
      /\ Digits(Seen) # {} => pos # 0 /\ c = text[pos]
  BY <1>1, ReadStep, Zenon DEF ReadInv, Flags
<1>3. CASE EmbeddedSpace
  <2>1. Char # Blank /\ totaldigits /\ c = Blank /\ status' = "EINVAL"
    BY <1>3, Zenon DEF EmbeddedSpace, Error
  <2>2. Digits(Seen) # {}
    BY <1>2, <2>1, Zenon
  <2>3. Bad(text)
    BY <1>2, <2>1, <2>2, BadBlank
  <2> QED
    BY <1>2, <2>1, <2>3 DEF ParseInv, ResultInv
<1>4. CASE BadChar
  <2>1. Char # Blank /\ Char \notin DigitChars \cup {Separator} /\ status' = "EINVAL"
    BY <1>4, Zenon DEF BadChar, ReadJoined, Error
  <2>2. Bad(text)
    BY <1>2, <2>1, BadChars
  <2> QED
    BY <1>2, <2>1, <2>2 DEF ParseInv, ResultInv
<1>5. CASE ChunkOverflow
  <2>1. Char \in DigitChars /\ (\E i \in chunk : i >= FreeFrom) /\ status' = "EOVERFLOW"
    BY <1>5, Zenon DEF ChunkOverflow, Error
  <2>2. Overflows(Seen')
    BY <1>2, <2>1, DigitOverflows
  <2>3. ReadText' = Seen'
    <3>1. c' # Separator
      BY <1>2, <2>1, DigitsAre
    <3> QED
      BY <3>1, Zenon DEF ReadText, Seen
  <2> QED
    BY <2>1, <2>2, <2>3 DEF ParseInv, ResultInv
<1> QED
  BY <1>3, <1>4, <1>5

\* A comma ends the chunk.
LEMMA CommaStep ==
  ASSUME MaskInvariant, TypeInv', Comma
  PROVE  ParseInv' /\ ResultInv'
<1>1. TypeInv /\ ParseInv /\ Read /\ status = "parse" /\ EndChunk(TRUE)
  BY Zenon DEF MaskInvariant, Comma, ReadJoined, Read
<1>2. /\ text \in Seq(Letter) /\ pos \in Nat /\ pos < Len(text) /\ pos \in 0 .. Len(text)
      /\ text' = text /\ pos' = pos + 1 /\ c' = Char /\ Char = text[pos + 1]
      /\ Seen = SubSeq(text, 1, pos) /\ Seen' = SubSeq(text, 1, pos + 1)
      /\ Grows(Seen, Seen', pos, Char) /\ ReadInv(Seen, c, chunk, maskp)
      /\ (ndigits <=> Current(Seen) # {}) /\ (totaldigits <=> Digits(Seen) # {})
  BY <1>1, ReadStep, Zenon DEF Flags
<1>3. Char = Separator /\ ~(totaldigits /\ c = Blank) /\ Char # Blank
  BY Zenon DEF Comma, ReadJoined
<1>4. CASE ~ndigits
  <2>1. status' = "EINVAL"
    BY <1>1, <1>4, Zenon DEF EndChunk, Error
  <2>2. Current(SubSeq(text, 1, pos)) = {}
    BY <1>2, <1>4, Zenon
  <2>3. Bad(text)
    BY <1>2, <1>3, <2>2, BadChunk
  <2> QED
    BY <1>2, <2>1, <2>3 DEF ParseInv, ResultInv
<1>5. CASE ndigits
  <2>1. /\ nbits' <= bits => SetOf(maskp') = All(Seen) /\ MaskInv(nchunks', nbits', maskp')
        /\ nbits' > bits => Overflows(Seen)
        /\ chunk' = {} /\ ~ndigits' /\ (totaldigits' <=> totaldigits)
    BY <1>1, <1>5, EndMask
  <2>2. status' = IF nbits' > bits THEN "EOVERFLOW" ELSE "parse"
    BY <1>1, <1>5, Zenon DEF EndChunk
  <2>3. CASE nbits' > bits
    <3>1. ReadText' = Seen
      <4>1. c' = Separator /\ pos' - 1 = pos
        BY <1>2, <1>3
      <4> QED
        BY <1>2, <4>1, Zenon DEF ReadText
    <3>2. status' = "EOVERFLOW" /\ Overflows(Seen)
      BY <2>1, <2>2, <2>3
    <3> QED
      BY <3>1, <3>2 DEF ParseInv, ResultInv
  <2>4. CASE ~(nbits' > bits)
    <3>1. status' = "parse"
      BY <2>2, <2>4
    <3>2. nbits' <= bits
      BY <3>1 DEF TypeInv
    <3>3. SetOf(maskp') = All(Seen) /\ MaskInv(nchunks', nbits', maskp')
      BY <2>1, <3>2, Zenon
    <3>4. ReadInv(Seen', c', chunk', maskp')
      <4>1. Char \notin DigitChars /\ Char \in DigitChars \cup {Separator, Blank}
        BY <1>3, DigitsAre
      <4>2. Digits(Seen) # {} => c # Blank
        BY <1>2, <1>3, Zenon
      <4>3. Current(Seen) # {}
        BY <1>2, <1>5, Zenon
      <4>4. {} \in SUBSET InChunk
        OBVIOUS
      <4>5. PICK mask2 : mask2 = maskp'
        OBVIOUS
      <4>6. ReadInv(SubSeq(text, 1, pos + 1), Char, {}, mask2)
        BY <1>2, <1>3, <3>3, <4>1, <4>2, <4>3, <4>4, <4>5, ReadsMore
      <4> QED
        BY <1>2, <2>1, <4>5, <4>6
    <3>5. Flags'
      <4>1. Digits(Seen') = Digits(Seen) /\ Current(Seen') = {}
        BY <1>2, <1>3, CommaGrows
      <4> QED
        BY <1>2, <2>1, <4>1, Zenon DEF Flags
    <3>6. ParseInv'
      BY <3>3, <3>4, <3>5, Zenon DEF ParseInv
    <3> QED
      BY <3>1, <3>6 DEF ResultInv
  <2> QED
    BY <2>3, <2>4
<1> QED
  BY <1>4, <1>5

\* The end of the text ends the last one.
LEMMA EndStep ==
  ASSUME MaskInvariant, TypeInv', EndOfText
  PROVE  ParseInv' /\ ResultInv'
<1>1. /\ TypeInv /\ ParseInv /\ status = "parse" /\ EndChunk(FALSE) /\ pos = Len(text)
      /\ text' = text /\ pos' = pos /\ c' = c
  BY Zenon DEF MaskInvariant, EndOfText
<1>2. text \in Seq(Letter) /\ pos \in 0 .. Len(text) /\ Seen = SubSeq(text, 1, pos) /\ Seen = text
  BY <1>1, BeginningIs DEF TypeInv, HexTypeOK, Seen
<1>3. /\ ReadInv(Seen, c, chunk, maskp)
      /\ (ndigits <=> Current(Seen) # {}) /\ (totaldigits <=> Digits(Seen) # {})
  BY <1>1, Zenon DEF ParseInv, Flags
<1>4. CASE ~ndigits
  <2>1. status' = "EINVAL"
    BY <1>1, <1>4, Zenon DEF EndChunk, Error
  <2>2. Current(SubSeq(text, 1, pos)) = {}
    BY <1>2, <1>3, <1>4, Zenon
  <2>3. Bad(text)
    BY <1>1, <1>2, <2>2, BadChunk
  <2> QED
    BY <1>1, <2>1, <2>3 DEF ParseInv, ResultInv
<1>5. CASE ndigits
  <2>1. /\ nbits' <= bits => SetOf(maskp') = All(Seen) /\ MaskInv(nchunks', nbits', maskp')
        /\ nbits' > bits => Overflows(Seen)
    BY <1>1, <1>5, EndMask
  <2>2. status' = IF nbits' > bits THEN "EOVERFLOW" ELSE "0"
    BY <1>1, <1>5, Zenon DEF EndChunk
  <2>3. Current(Seen) # {}
    BY <1>3, <1>5, Zenon
  <2>4. CASE nbits' > bits
    <3>1. c # Separator
      <4>1. PICK j \in Digits(text) : \A k \in Commas(text) : k < j
        BY <1>2, <2>3 DEF Current
      <4>2. text # << >> /\ c = text[Len(text)] /\ Len(text) \in DOMAIN text /\ j \in 1 .. Len(text)
        <5>1. j \in DOMAIN text
          BY <4>1 DEF Digits
        <5>2. text # << >> /\ Len(text) \in DOMAIN text /\ j \in 1 .. Len(text)
          BY <1>2, <5>1
        <5> QED
          BY <1>2, <1>3, <5>2 DEF ReadInv
      <4>3. ASSUME c = Separator
            PROVE  FALSE
        <5>1. Len(text) \in Commas(text)
          BY <4>2, <4>3 DEF Commas
        <5> QED
          BY <1>2, <4>1, <4>2, <5>1
      <4> QED
        BY <4>3
    <3>2. ReadText' = Seen
      BY <1>1, <1>2, <3>1, Zenon DEF ReadText
    <3>3. status' = "EOVERFLOW" /\ Overflows(Seen)
      BY <2>1, <2>2, <2>4
    <3> QED
      BY <3>2, <3>3 DEF ParseInv, ResultInv
  <2>5. CASE ~(nbits' > bits)
    <3>1. status' = "0"
      BY <2>2, <2>5
    <3>2. nbits' <= bits
      <4>1. nbits' \in 0 .. bits + CHUNKSZ
        BY DEF TypeInv, HexTypeOK
      <4> QED
        BY <2>5, <4>1, Sizes, ChunkSizes
    <3>3. SetOf(maskp') = All(text) /\ Clean(maskp')
      BY <1>2, <2>1, <3>2, Zenon DEF MaskInv
    <3>4. WellFormed(text) /\ Fits(text)
      BY <1>2, <1>3, Zenon DEF ReadInv
    <3>5. ~Bad(text)
      <4>1. ~Malformed
        BY <1>2, <2>3, <3>4, NotMalformed
      <4>2. Malformed <=> Bad(text)
        BY Zenon DEF Malformed, Bad
      <4> QED
        BY <4>1, <4>2
    <3>6. Accepts(text, maskp')
      BY <3>3, <3>4, <3>5, Zenon DEF Accepts
    <3> QED
      BY <1>1, <3>1, <3>6 DEF ParseInv, ResultInv
  <2> QED
    BY <2>4, <2>5
<1> QED
  BY <1>4, <1>5

\* What is known before anything is read.
LEMMA NothingRead ==
  ASSUME NEW t \in Seq(Letter)
  PROVE  /\ SubSeq(t, 1, 0) = << >>
         /\ ReadInv(<< >>, Nul, {}, bitmap_zero) /\ MaskInv(0, 0, bitmap_zero)
         /\ Current(<< >>) = {} /\ Digits(<< >>) = {}
<1> DEFINE e == SubSeq(t, 1, 0)
<1>1. e = << >> /\ DOMAIN e = {}
  OBVIOUS
<1> HIDE DEF e
<1>2. Digits(e) = {} /\ Commas(e) = {} /\ Current(e) = {}
  BY <1>1 DEF Digits, Commas, Current
<1>3. SetOf(bitmap_zero) = {} /\ Clean(bitmap_zero)
  <2>1. \A k \in Long : bitmap_zero[k] = {}
    BY DEF bitmap_zero
  <2>2. \A i \in Bit : ~test_bit(i, bitmap_zero)
    BY <2>1, BitsAreIn DEF test_bit
  <2> QED
    BY <2>1, <2>2 DEF SetOf, Clean
<1>4. ChunkOf(e) = {} /\ Done(e) = {} /\ Fits(e) /\ WellFormed(e)
  BY <1>1, <1>2 DEF ChunkOf, Done, Fits, WellFormed
<1>5. ReadInv(e, Nul, {}, bitmap_zero)
  BY <1>1, <1>3, <1>4 DEF ReadInv
<1>6. MaskInv(0, 0, bitmap_zero)
  BY <1>3 DEF MaskInv
<1> QED
  BY <1>1, <1>2, <1>5, <1>6 DEF e

\* The parser begins with nothing read and an empty mask.
LEMMA MaskInit == HexInit => MaskInvariant
<1> SUFFICES ASSUME HexInit
             PROVE  MaskInvariant
  OBVIOUS
<1>1. TypeInv
  BY TypesInit
<1>2. /\ pos = 0 /\ c = Nul /\ chunk = {} /\ ndigits = FALSE /\ totaldigits = FALSE
      /\ nchunks = 0 /\ nbits = 0 /\ maskp = bitmap_zero /\ status \in {"idle", "parse"}
  BY DEF HexInit
<1>3. text \in Seq(Letter)
  BY <1>1 DEF TypeInv
<1>4. Seen = << >>
  BY <1>2, <1>3, NothingRead DEF Seen
<1>5. ReadInv(Seen, c, chunk, maskp) /\ MaskInv(nchunks, nbits, maskp)
  BY <1>2, <1>3, <1>4, NothingRead
<1>6. Flags
  <2>1. Current(Seen) = {} /\ Digits(Seen) = {}
    BY <1>3, <1>4, NothingRead
  <2> QED
    BY <1>2, <2>1, Zenon DEF Flags
<1>7. ParseInv
  BY <1>5, <1>6, Zenon DEF ParseInv
<1>8. ResultInv
  BY <1>2 DEF ResultInv
<1> QED
  BY <1>1, <1>7, <1>8 DEF MaskInvariant

\* Each character keeps what the parser has in step with the text, or ends with the right result.
LEMMA MaskNext == MaskInvariant /\ [HexNext]_<< vars, hexVars >> => MaskInvariant'
<1> SUFFICES ASSUME MaskInvariant, [HexNext]_<< vars, hexVars >>
             PROVE  MaskInvariant'
  OBVIOUS
<1>0. TypeInv /\ TypeInv'
  BY TypesNext DEF MaskInvariant
<1>1. ASSUME UNCHANGED hexVars
      PROVE  ParseInv' /\ ResultInv'
  <2>1. /\ text' = text /\ pos' = pos /\ c' = c /\ chunk' = chunk /\ ndigits' = ndigits
        /\ totaldigits' = totaldigits /\ nchunks' = nchunks /\ nbits' = nbits
        /\ maskp' = maskp /\ status' = status
    BY <1>1, Zenon DEF hexVars, parseVars, chunkVars, maskVars
  <2>2. Seen' = Seen /\ ReadText' = ReadText
    BY <2>1, Zenon DEF Seen, ReadText
  <2>3. Flags' <=> Flags
    BY <2>1, <2>2, Zenon DEF Flags
  <2>4. ParseInv'
    BY <2>1, <2>2, <2>3, Zenon DEF MaskInvariant, ParseInv
  <2>5. ResultInv'
    BY <2>1, <2>2, Zenon DEF MaskInvariant, ResultInv
  <2> QED
    BY <2>4, <2>5
<1>2. CASE status = "idle" /\ Next /\ UNCHANGED hexVars
  BY <1>0, <1>1, <1>2 DEF MaskInvariant
<1>3. CASE PrintMask
  <2>1. /\ status = "idle" /\ status' = "parse"
        /\ pos' = pos /\ c' = c /\ chunk' = chunk /\ ndigits' = ndigits
        /\ totaldigits' = totaldigits /\ nchunks' = nchunks /\ nbits' = nbits /\ maskp' = maskp
    BY <1>3, Zenon DEF PrintMask, parseVars, chunkVars, maskVars
  <2>2. pos = 0 /\ text \in Seq(Letter)
    BY <1>0, <2>1 DEF TypeInv
  <2>3. text' \in Seq(Letter)
    BY <1>0 DEF TypeInv
  <2>4. Seen = << >> /\ Seen' = << >>
    <3>1. SubSeq(text, 1, 0) = << >> /\ SubSeq(text', 1, 0) = << >>
      BY <2>2, <2>3, NothingRead
    <3> QED
      BY <2>1, <2>2, <3>1, Zenon DEF Seen
  <2>5. Flags /\ ReadInv(Seen, c, chunk, maskp) /\ MaskInv(nchunks, nbits, maskp)
    BY <2>1 DEF MaskInvariant, ParseInv
  <2>6. Flags'
    BY <2>1, <2>4, <2>5, Zenon DEF Flags
  <2>7. ReadInv(Seen', c', chunk', maskp') /\ MaskInv(nchunks', nbits', maskp')
    BY <2>1, <2>4, <2>5, Zenon
  <2>8. ParseInv'
    BY <2>6, <2>7, Zenon DEF ParseInv
  <2>9. ResultInv'
    BY <2>1 DEF ResultInv
  <2> QED
    BY <1>0, <2>8, <2>9 DEF MaskInvariant
<1>4. CASE Space
  BY <1>0, <1>4, SpaceStep DEF MaskInvariant
<1>5. CASE EmbeddedSpace \/ BadChar \/ ChunkOverflow
  BY <1>0, <1>5, ErrorStep DEF MaskInvariant
<1>6. CASE Digit
  BY <1>0, <1>6, DigitStep DEF MaskInvariant
<1>7. CASE Comma
  BY <1>0, <1>7, CommaStep DEF MaskInvariant
<1>8. CASE EndOfText
  BY <1>0, <1>8, EndStep DEF MaskInvariant
<1>9. CASE UNCHANGED << vars, hexVars >>
  <2>1. UNCHANGED hexVars
    BY <1>9
  <2> QED
    BY <1>0, <1>1, <2>1 DEF MaskInvariant
<1> QED
  BY <1>2, <1>3, <1>4, <1>5, <1>6, <1>7, <1>8, <1>9 DEF HexNext

\* A text is accepted if and only if it is a mask that fits, and then the mask has its bits.
THEOREM MasksAreParsed == HexSpec => []ParsesMasks
<1>1. HexSpec => []MaskInvariant
  BY MaskInit, MaskNext, PTL DEF HexSpec
<1>2. MaskInvariant => ParsesMasks
  BY ResultIs DEF MaskInvariant
<1> QED
  BY <1>1, <1>2, PTL

-----------------------------------------------------------------------------
\* A chunk starts where it fits into the word.
LEMMA ChunkInWord ==
  ASSUME NEW m \in Nat
  PROVE  /\ m * CHUNKSZ \in Nat
         /\ (m * CHUNKSZ) % BITS_PER_LONG \in Nat
         /\ ((m * CHUNKSZ) % BITS_PER_LONG) + CHUNKSZ <= BITS_PER_LONG
<1>1. PICK i \in Nat : i = m * CHUNKSZ
  BY ChunkSizes
<1>2. PICK q \in Nat : BITS_PER_LONG = CHUNKSZ * q
  BY ChunkSizes
<1>3. PICK a \in Nat, r \in InLong :
        a = i \div BITS_PER_LONG /\ r = i % BITS_PER_LONG /\ i = a * BITS_PER_LONG + r
  BY BitOfPlace
<1>4. r \in Nat /\ r < BITS_PER_LONG
  BY ChunkSizes DEF InLong
<1>5. PICK g \in Nat : g = q * a
  OBVIOUS
<1> DEFINE h == m - g
<1>6. r = CHUNKSZ * h /\ h \in Int
  <2>1. a * BITS_PER_LONG = CHUNKSZ * g
    <3>1. a * (CHUNKSZ * q) = CHUNKSZ * (q * a)
      BY ChunkSizes
    <3> QED
      BY <1>2, <1>5, <3>1
  <2>2. CHUNKSZ * (m - g) = CHUNKSZ * m - CHUNKSZ * g
    BY ChunkSizes
  <2>3. i = CHUNKSZ * m
    BY <1>1, ChunkSizes
  <2>4. CHUNKSZ * g \in Int /\ CHUNKSZ * m \in Int
    BY ChunkSizes
  <2>5. PICK y \in Int, z \in Int : y = CHUNKSZ * g /\ z = CHUNKSZ * m
    BY <2>4
  <2>6. r = z - y
    <3>1. i = y + r
      BY <1>3, <2>1, <2>5, Zenon
    <3>2. i = z
      BY <2>3, <2>5, Zenon
    <3> QED
      BY <1>4, <2>5, <3>1, <3>2
  <2> QED
    BY <2>2, <2>5, <2>6
<1> HIDE DEF h
<1>7. h \in Nat
  <2>1. ASSUME h < 0
        PROVE  FALSE
    <3>1. CHUNKSZ * h < 0
      BY <1>6, <2>1, ChunkSizes
    <3> QED
      BY <1>4, <1>6, <3>1
  <2> QED
    BY <1>6, <2>1
<1>8. h < q
  <2>1. ASSUME q <= h
        PROVE  FALSE
    <3>1. CHUNKSZ * q <= CHUNKSZ * h
      <4>1. CASE q = h
        BY <4>1, ChunkSizes
      <4>2. CASE q < h
        BY <1>7, <4>2, ChunkSizes, Multiples
      <4> QED
        BY <1>7, <2>1, <4>1, <4>2
    <3> QED
      BY <1>2, <1>4, <1>6, <3>1
  <2> QED
    BY <1>7, <2>1
<1>9. CHUNKSZ * h + CHUNKSZ <= CHUNKSZ * q
  BY <1>7, <1>8, ChunkSizes, Multiples
<1> QED
  BY <1>1, <1>2, <1>3, <1>4, <1>6, <1>9

\* The bits of a chunk are those of the bitmap from there.
LEMMA ValIs ==
  ASSUME bitmap \in Words, NEW m \in Nat, m * CHUNKSZ < bits
  PROVE  /\ chunksz(m * CHUNKSZ) # 0
         /\ Val(m * CHUNKSZ) = {j \in 0 .. CHUNKSZ - 1 : m * CHUNKSZ + j \in SetOf(bitmap)}
<1>1. PICK i \in Nat : i = m * CHUNKSZ
  BY ChunkSizes
<1>2. i < bits
  BY <1>1
<1>3. PICK a \in Nat, r \in InLong :
        a = i \div BITS_PER_LONG /\ r = i % BITS_PER_LONG /\ i = a * BITS_PER_LONG + r
  BY BitOfPlace
<1>4. r \in Nat /\ r + CHUNKSZ <= BITS_PER_LONG
  BY <1>1, <1>3, ChunkInWord
<1>5. a \in Long
  <2>1. i \in Bit
    BY <1>2, Sizes DEF Bit
  <2> QED
    BY <1>3, <2>1, BitsAreIn
<1>6. chunksz(i) \in Nat /\ chunksz(i) # 0
      /\ \A j \in Nat : j < chunksz(i) <=> j < CHUNKSZ /\ i + j < bits
  <2>1. CASE i + CHUNKSZ <= bits
    <3>1. chunksz(i) = CHUNKSZ
      BY <2>1 DEF chunksz
    <3> QED
      BY <2>1, <3>1, Sizes, ChunkSizes
  <2>2. CASE ~(i + CHUNKSZ <= bits)
    <3>1. chunksz(i) = bits % CHUNKSZ
      BY <2>2 DEF chunksz
    <3>2. Leaves(bits, CHUNKSZ, m, bits - i)
      <4>1. i = CHUNKSZ * m
        BY <1>1, ChunkSizes
      <4>2. bits - i \in 0 .. CHUNKSZ - 1
        BY <1>2, <2>2, Sizes, ChunkSizes
      <4>3. bits = i + (bits - i)
        BY Sizes
      <4> QED
        BY <4>1, <4>2, <4>3 DEF Leaves
    <3>3. Leaves(bits, CHUNKSZ, bits \div CHUNKSZ, bits % CHUNKSZ)
      BY Sizes, ChunkSizes, LeavesRest
    <3>4. bits % CHUNKSZ = bits - i
      BY <3>2, <3>3, ChunkSizes, LeavesOne
    <3> QED
      BY <1>2, <2>2, <3>1, <3>4, Sizes, ChunkSizes
  <2> QED
    BY <2>1, <2>2
<1>7. Val(i) = Shr(bitmap[a], r) \cap (0 .. chunksz(i) - 1)
  BY <1>3 DEF Val
<1>8. \A x \in bitmap[a] : x \in 0 .. BITS_PER_LONG - 1
  BY <1>5 DEF Words, InLong
<1>9. ASSUME NEW j \in Nat
      PROVE  j \in Val(i) <=> j \in 0 .. CHUNKSZ - 1 /\ i + j \in SetOf(bitmap)
  <2>1. CASE j < CHUNKSZ /\ i + j < bits
    <3>1. r + j \in InLong /\ j \in InLong /\ j \in 0 .. CHUNKSZ - 1 /\ j \in 0 .. chunksz(i) - 1
      BY <1>4, <1>6, <2>1, ChunkSizes DEF InLong
    <3>2. i + j = a * BITS_PER_LONG + (r + j)
      <4>1. a * BITS_PER_LONG \in Nat
        BY ChunkSizes
      <4> QED
        BY <1>3, <1>4, <4>1
    <3>3. i + j \in SetOf(bitmap) <=> r + j \in bitmap[a]
      BY <2>1, <3>1, <3>2, InSet
    <3>4. j \in Shr(bitmap[a], r) <=> r + j \in bitmap[a]
      BY <1>4, <1>8, <3>1 DEF Shr
    <3> QED
      BY <1>7, <3>1, <3>3, <3>4
  <2>2. CASE ~(j < CHUNKSZ /\ i + j < bits)
    <3>1. j \notin 0 .. chunksz(i) - 1
      BY <1>6, <2>2
    <3>2. ~(j \in 0 .. CHUNKSZ - 1 /\ i + j \in SetOf(bitmap))
      BY <2>2, Sizes, ChunkSizes DEF SetOf, Bit
    <3> QED
      BY <1>7, <3>1, <3>2
  <2> QED
    BY <2>1, <2>2
<1>10. Val(i) \subseteq Nat
  BY <1>6, <1>7
<1>11. Val(i) = {j \in 0 .. CHUNKSZ - 1 : i + j \in SetOf(bitmap)}
  BY <1>9, <1>10, ChunkSizes
<1> QED
  BY <1>1, <1>6, <1>11

\* The number of naturals x for which x + base is in S.
Above(S, base) == {x \in Nat : x + base \in S}

\* A digit more puts the next part below what was printed of a chunk.
LEMMA PartAbove ==
  ASSUME NEW val, val \subseteq Nat, NEW k \in Nat
  PROVE  Above(val, k * DIGITSZ) =
           {x + DIGITSZ : x \in Above(val, (k + 1) * DIGITSZ)} \cup Part(val, k)
<1>1. PICK e \in Nat : e = k * DIGITSZ /\ (k + 1) * DIGITSZ = e + DIGITSZ
  <2>1. k * DIGITSZ \in Nat /\ (k + 1) * DIGITSZ = k * DIGITSZ + DIGITSZ
    BY ChunkSizes
  <2> QED
    BY <2>1
<1>2. DIGITSZ \in Nat \ {0}
  BY ChunkSizes
<1> DEFINE left == {x \in Nat : x + e \in val}
           upper == {x \in Nat : x + (e + DIGITSZ) \in val}
           part == {j - e : j \in val} \cap (0 .. DIGITSZ - 1)
<1>3. ASSUME NEW y \in left
      PROVE  y \in {x + DIGITSZ : x \in upper} \cup part
  <2>1. CASE y < DIGITSZ
    <3>1. (y + e) - e = y /\ y \in 0 .. DIGITSZ - 1
      BY <1>2, <2>1
    <3> QED
      BY <3>1
  <2>2. CASE ~(y < DIGITSZ)
    <3>1. y - DIGITSZ \in Nat /\ (y - DIGITSZ) + (e + DIGITSZ) = y + e /\ (y - DIGITSZ) + DIGITSZ = y
      BY <1>2, <2>2
    <3>2. y - DIGITSZ \in upper
      BY <3>1
    <3> QED
      BY <3>1, <3>2
  <2> QED
    BY <2>1, <2>2
<1>4. ASSUME NEW x \in upper
      PROVE  x + DIGITSZ \in left
  <2>1. (x + DIGITSZ) + e = x + (e + DIGITSZ) /\ x + DIGITSZ \in Nat
    BY <1>2
  <2> QED
    BY <2>1
<1>5. ASSUME NEW y \in part
      PROVE  y \in left
  <2>1. PICK j \in val : y = j - e
    OBVIOUS
  <2>2. y \in Nat /\ y + e = j
    BY <1>2, <2>1
  <2> QED
    BY <2>2
<1>6. left = {x + DIGITSZ : x \in upper} \cup part
  <2> HIDE DEF left, upper, part
  <2> QED
    BY <1>3, <1>4, <1>5
<1> QED
  BY <1>1, <1>6 DEF Above, Part

\* What was read of u and the first m digits of a chunk.
ChunkRead(s, u, val, k, m) ==
  /\ WellFormed(s) /\ Fits(s)
  /\ Done(s) = Done(u)
  /\ ChunkOf(s) = Above(val, k * DIGITSZ)
  /\ m # 0 => Current(s) # {}

\* After its digits a chunk has its bits.
LEMMA DigitsRead ==
  ASSUME NEW u \in Seq(Printed), NEW digits \in Seq(DigitChars), NEW val \in SUBSET InChunk,
         \A k \in 1 .. Len(digits) : hex_to_bin(digits[k]) = Part(val, Len(digits) - k),
         \A x \in val : x < Len(digits) * DIGITSZ,
         Len(digits) # 0,
         WellFormed(u), Fits(u), Current(u) = {}
  PROVE  /\ WellFormed(u \o digits) /\ Fits(u \o digits) /\ Current(u \o digits) # {}
         /\ Done(u \o digits) = Done(u) /\ ChunkOf(u \o digits) = val
<1> DEFINE t == u \o digits
           width == Len(digits)
           s(m) == SubSeq(t, 1, Len(u) + m)
<1>0. /\ width \in Nat /\ Len(u) \in Nat /\ Len(t) = Len(u) + width
      /\ \A m \in 0 .. width : Len(u) + m \in 0 .. Len(t)
      /\ \A m \in Nat : m < width => t[Len(u) + m + 1] = digits[m + 1]
  BY DEF Printed
<1>1. t \in Seq(Printed) /\ t \in Seq(Letter)
  BY DEF Printed, Letter
<1>2. s(0) = u /\ s(width) = t
  BY DEF Printed
<1>3. val \subseteq Nat /\ \A x \in val : x < CHUNKSZ
  BY ChunkSizes DEF InChunk
<1>4. \A i \in DOMAIN t : t[i] # Blank
  BY <1>1, DigitsAre, Distinct DEF Printed
<1> HIDE DEF t, s, width
<1> DEFINE S == {m \in Nat : m <= width => ChunkRead(s(m), u, val, width - m, m)}
<1>5. 0 \in S
  <2>1. ChunkOf(u) = {}
    BY DEF ChunkOf
  <2>2. Above(val, width * DIGITSZ) = {}
    <3>1. width * DIGITSZ \in Nat
      BY <1>0, ChunkSizes
    <3>2. \A x \in val : x < width * DIGITSZ /\ x \in Nat
      BY <1>3 DEF width
    <3> QED
      BY <3>1, <3>2 DEF Above
  <2>3. width - 0 = width
    BY <1>0
  <2>4. ChunkRead(u, u, val, width, 0)
    BY <2>1, <2>2 DEF ChunkRead
  <2> QED
    BY <1>2, <2>3, <2>4
<1>6. ASSUME NEW m \in Nat, m \in S
      PROVE  m + 1 \in S
  <2> SUFFICES ASSUME m + 1 <= width
               PROVE  ChunkRead(s(m + 1), u, val, width - (m + 1), m + 1)
    OBVIOUS
  <2>1. PICK k \in Nat : k = width - (m + 1) /\ width - m = k + 1
    <3>1. width - (m + 1) \in Nat /\ width - m = width - (m + 1) + 1
      BY <1>0
    <3> QED
      BY <3>1
  <2>2. ChunkRead(s(m), u, val, k + 1, m)
    <3>1. m <= width
      BY <1>0
    <3> QED
      BY <1>6, <2>1, <3>1
  <2> DEFINE p == Len(u) + m
             ch == digits[m + 1]
  <2>3. Grows(s(m), s(m + 1), p, ch) /\ \A i \in 1 .. p : s(m)[i] = t[i]
    <3>0. m \in 0 .. width /\ m < width
      BY <1>0
    <3>1. p \in 0 .. Len(t) /\ p < Len(t) /\ p + 1 = Len(u) + (m + 1) /\ t[p + 1] = ch
      <4>1. p \in 0 .. Len(t) /\ t[p + 1] = ch
        BY <1>0, <3>0
      <4>2. p < Len(t) /\ p + 1 = Len(u) + (m + 1)
        <5>1. PICK l \in Nat, w \in Nat : l = Len(u) /\ w = width /\ Len(t) = l + w
          BY <1>0
        <5>2. l + m < l + w /\ (l + m) + 1 = l + (m + 1)
          BY <3>0, <5>1
        <5> QED
          BY <5>1, <5>2
      <4> QED
        BY <4>1, <4>2
    <3>2. Grows(SubSeq(t, 1, p), SubSeq(t, 1, p + 1), p, t[p + 1])
          /\ \A i \in 1 .. p : SubSeq(t, 1, p)[i] = t[i]
      BY <1>1, <3>1, BeginningIs
    <3> QED
      BY <3>1, <3>2 DEF s
  <2>4. ch \in DigitChars /\ hex_to_bin(ch) = Part(val, k)
    <3>1. m + 1 \in 1 .. Len(digits)
      BY <1>0 DEF width
    <3> QED
      BY <2>1, <3>1 DEF width
  <2> HIDE DEF p, ch
  <2>5. WellFormed(s(m + 1))
    <3>1. Digits(s(m)) # {} => s(m)[p] # Blank
      <4>1. ASSUME Digits(s(m)) # {}
            PROVE  s(m)[p] # Blank
        <5>1. p \in Nat /\ DOMAIN s(m) = 1 .. p
          BY <2>3 DEF Grows
        <5>2. p \in 1 .. p
          BY <4>1, <5>1 DEF Digits
        <5>3. p \in DOMAIN t
          <6>1. p <= Len(t) /\ DOMAIN t = 1 .. Len(t)
            BY <1>0, <1>1 DEF p
          <6> QED
            BY <5>2, <6>1
        <5> QED
          BY <1>4, <2>3, <5>2, <5>3
      <4> QED
        BY <4>1
    <3>2. ch # Separator
      BY <2>4, DigitsAre
    <3>3. WellFormed(s(m))
      BY <2>2 DEF ChunkRead
    <3> QED
      BY <2>3, <2>4, <3>1, <3>2, <3>3, WellGrows
  <2>6. /\ Current(s(m + 1)) # {} /\ Done(s(m + 1)) = Done(u)
        /\ ChunkOf(s(m + 1)) = Above(val, k * DIGITSZ)
    <3>1. /\ Current(s(m + 1)) = Current(s(m)) \cup {p + 1} /\ Done(s(m + 1)) = Done(s(m))
          /\ ChunkOf(s(m + 1)) = {x + DIGITSZ : x \in ChunkOf(s(m))} \cup Part(val, k)
      BY <2>3, <2>4, DigitGrows
    <3>2. Done(s(m)) = Done(u) /\ ChunkOf(s(m)) = Above(val, (k + 1) * DIGITSZ)
      BY <2>2 DEF ChunkRead
    <3>3. Above(val, k * DIGITSZ) =
            {x + DIGITSZ : x \in Above(val, (k + 1) * DIGITSZ)} \cup Part(val, k)
      BY <1>3, PartAbove
    <3> QED
      BY <3>1, <3>2, <3>3
  <2>7. Fits(s(m + 1))
    <3>1. Above(val, k * DIGITSZ) \subseteq InChunk
      <4>1. PICK e \in Nat : e = k * DIGITSZ
        BY ChunkSizes
      <4> QED
        BY <1>3, <4>1, ChunkSizes DEF Above, InChunk
    <3>2. Fits(s(m))
      BY <2>2 DEF ChunkRead
    <3> QED
      BY <2>3, <2>6, <3>1, <3>2, FitsGrows
  <2> QED
    BY <2>1, <2>5, <2>6, <2>7 DEF ChunkRead
<1>7. ChunkRead(t, u, val, 0, width)
  <2>1. Nat \subseteq S
    <3> HIDE DEF S
    <3> QED
      BY <1>5, <1>6, Induction
  <2>2. width <= width /\ width - width = 0
    BY <1>0
  <2> QED
    BY <1>0, <1>2, <2>1, <2>2
<1>8. Above(val, 0 * DIGITSZ) = val
  <2>1. 0 * DIGITSZ = 0 /\ \A x \in Nat : x + 0 = x
    BY ChunkSizes
  <2> QED
    BY <1>3, <2>1 DEF Above
<1>9. WellFormed(t) /\ Fits(t) /\ Current(t) # {} /\ Done(t) = Done(u) /\ ChunkOf(t) = val
  BY <1>7, <1>8 DEF ChunkRead, width
<1> QED
  BY <1>9 DEF t

\* What was printed of the bits from base on.
PrintedFrom(t, base) ==
  /\ t \in Seq(Printed)
  /\ WellFormed(t) /\ Fits(t) /\ Current(t) # {}
  /\ All(t) = Above(SetOf(bitmap), base)

\* A chunk that is printed has its bits.
LEMMA ChunkPrinted ==
  ASSUME bitmap \in Words, NEW m \in Nat, m * CHUNKSZ < bits,
         NEW u \in Seq(Printed), WellFormed(u), Fits(u), Current(u) = {},
         Done(u) = {x + CHUNKSZ : x \in Above(SetOf(bitmap), (m + 1) * CHUNKSZ)}
  PROVE  PrintedFrom(u \o ChunkText(m * CHUNKSZ), m * CHUNKSZ)
<1>1. PICK i \in Nat : i = m * CHUNKSZ /\ (m + 1) * CHUNKSZ = i + CHUNKSZ
  <2>1. m * CHUNKSZ \in Nat /\ (m + 1) * CHUNKSZ = m * CHUNKSZ + CHUNKSZ
    BY ChunkSizes
  <2> QED
    BY <2>1
<1> DEFINE digits == ChunkText(i)
           t == u \o digits
<1>2. /\ chunksz(i) \in Nat /\ chunksz(i) # 0 /\ Width(i) \in Nat
      /\ chunksz(i) <= Width(i) * DIGITSZ
      /\ digits \in Seq(DigitChars) /\ Len(digits) = Width(i)
      /\ \A k \in 1 .. Width(i) : hex_to_bin(digits[k]) = Part(Val(i), Width(i) - k)
      /\ Val(i) = {j \in 0 .. CHUNKSZ - 1 : i + j \in SetOf(bitmap)}
  <2>1. /\ chunksz(i) \in Nat /\ Width(i) \in Nat /\ chunksz(i) <= Width(i) * DIGITSZ
        /\ digits \in Seq(DigitChars) /\ Len(digits) = Width(i)
        /\ \A k \in 1 .. Width(i) : hex_to_bin(digits[k]) = Part(Val(i), Width(i) - k)
    <3>1. i \in Int
      OBVIOUS
    <3> QED
      BY <3>1, ChunkTextIs, Zenon
  <2>2. /\ chunksz(i) # 0
        /\ Val(i) = {j \in 0 .. CHUNKSZ - 1 : i + j \in SetOf(bitmap)}
    BY <1>1, ValIs, Zenon
  <2> HIDE DEF digits
  <2> QED
    BY <2>1, <2>2
<1>3. Val(i) \in SUBSET InChunk /\ \A x \in Val(i) : x < Width(i) * DIGITSZ
  <2>1. Val(i) \subseteq 0 .. chunksz(i) - 1
    BY DEF Val
  <2>2. Width(i) * DIGITSZ \in Nat
    BY <1>2, ChunkSizes
  <2>3. \A x \in 0 .. chunksz(i) - 1 : x < Width(i) * DIGITSZ
    BY <1>2, <2>2
  <2> QED
    BY <1>2, <2>1, <2>3 DEF InChunk
<1>4. Len(digits) # 0
  <2>1. 0 * DIGITSZ = 0
    BY ChunkSizes
  <2> QED
    BY <1>2, <2>1
<1> HIDE DEF digits
<1>5. /\ WellFormed(t) /\ Fits(t) /\ Current(t) # {}
      /\ Done(t) = Done(u) /\ ChunkOf(t) = Val(i)
  BY <1>2, <1>3, <1>4, DigitsRead
<1>6. t \in Seq(Printed)
  BY <1>2 DEF Printed
<1>7. All(t) = Above(SetOf(bitmap), i)
  <2>1. All(t) = {x + CHUNKSZ : x \in Above(SetOf(bitmap), i + CHUNKSZ)} \cup Val(i)
    <3>1. Len(t) \in Nat /\ DOMAIN t = 1 .. Len(t)
      BY <1>6
    <3> QED
      BY <1>1, <1>5, <3>1, AllIs
  <2> DEFINE upper == {x \in Nat : x + (i + CHUNKSZ) \in SetOf(bitmap)}
             all == {x \in Nat : x + i \in SetOf(bitmap)}
  <2>2. ASSUME NEW y \in all
        PROVE  y \in {x + CHUNKSZ : x \in upper} \cup Val(i)
    <3>1. CASE y < CHUNKSZ
      <4>1. i + y = y + i /\ y \in 0 .. CHUNKSZ - 1
        BY <3>1, ChunkSizes
      <4> QED
        BY <1>2, <4>1
    <3>2. CASE ~(y < CHUNKSZ)
      <4>1. y - CHUNKSZ \in Nat /\ (y - CHUNKSZ) + (i + CHUNKSZ) = y + i /\ (y - CHUNKSZ) + CHUNKSZ = y
        BY <3>2, ChunkSizes
      <4>2. y - CHUNKSZ \in upper
        BY <4>1
      <4> QED
        BY <4>1, <4>2
    <3> QED
      BY <3>1, <3>2
  <2>3. ASSUME NEW x \in upper
        PROVE  x + CHUNKSZ \in all
    <3>1. (x + CHUNKSZ) + i = x + (i + CHUNKSZ) /\ x + CHUNKSZ \in Nat
      BY ChunkSizes
    <3> QED
      BY <3>1
  <2>4. ASSUME NEW y \in Val(i)
        PROVE  y \in all
    <3>1. y \in Nat /\ y + i = i + y /\ i + y \in SetOf(bitmap)
      BY <1>2, ChunkSizes
    <3> QED
      BY <3>1
  <2>5. all = {x + CHUNKSZ : x \in upper} \cup Val(i)
    <3> HIDE DEF all, upper
    <3> QED
      BY <2>2, <2>3, <2>4
  <2> QED
    BY <2>1, <2>5 DEF Above
<1>8. PrintedFrom(t, i)
  BY <1>5, <1>6, <1>7 DEF PrintedFrom
<1> QED
  BY <1>1, <1>8, Zenon DEF digits

\* bitmap_scnprintf() prints the bits of the bitmap.
LEMMA MaskPrinted ==
  ASSUME bitmap \in Words
  PROVE  PrintedFrom(bitmap_scnprintf, 0)
<1>1. PICK n \in Nat : /\ n = (bits + CHUNKSZ - 1) \div CHUNKSZ /\ n # 0
                       /\ (n - 1) * CHUNKSZ < bits /\ bits <= n * CHUNKSZ
  <2>1. PICK b \in Nat : b = bits + CHUNKSZ - 1
    BY Sizes, ChunkSizes
  <2>2. PICK r \in 0 .. CHUNKSZ - 1, n \in Nat : n = b \div CHUNKSZ /\ b = CHUNKSZ * n + r
    BY ChunkSizes, LeavesRest DEF Leaves
  <2>3. PICK y \in Nat : y = CHUNKSZ * n /\ y = n * CHUNKSZ /\ (n - 1) * CHUNKSZ = y - CHUNKSZ
    BY ChunkSizes
  <2>4. b = y + r
    BY <2>2, <2>3
  <2>5. y - CHUNKSZ < bits /\ bits <= y
    BY <2>1, <2>4, Sizes, ChunkSizes
  <2>6. n # 0
    <3>1. n = 0 => y = 0
      BY <2>3, ChunkSizes
    <3> QED
      BY <2>5, <3>1, Sizes
  <2> QED
    BY <2>1, <2>2, <2>3, <2>5, <2>6
<1>2. PICK w : IsWritten(w, n)
  BY <1>1, Writes
<1>3. /\ w \in [Nat -> Seq(Printed)] /\ w[0] = << >>
      /\ \A k \in Nat : w[k + 1] = NextChunk(w[k], k + 1, n)
      /\ bitmap_scnprintf = w[n]
  BY <1>2 DEF IsWritten
<1>4. \A k \in Nat : k + 1 <= n => (n - (k + 1)) \in Nat /\ (n - (k + 1)) * CHUNKSZ < bits
  <2>1. ASSUME NEW k \in Nat, k + 1 <= n
        PROVE  (n - (k + 1)) \in Nat /\ (n - (k + 1)) * CHUNKSZ < bits
    <3>1. PICK m \in Nat, l \in Nat : m = n - (k + 1) /\ l = n - 1 /\ m <= l
      <4>1. n - (k + 1) \in Nat /\ n - 1 \in Nat /\ n - (k + 1) <= n - 1
        BY <1>1, <2>1
      <4> QED
        BY <4>1
    <3>2. PICK y \in Nat, z \in Nat : y = m * CHUNKSZ /\ z = l * CHUNKSZ
      BY ChunkSizes
    <3>3. y <= z
      <4>1. CASE m = l
        BY <3>2, <4>1
      <4>2. CASE m < l
        <5>1. CHUNKSZ * m + CHUNKSZ <= CHUNKSZ * l
          BY <4>2, ChunkSizes, Multiples
        <5>2. CHUNKSZ * m = y /\ CHUNKSZ * l = z
          BY <3>2, ChunkSizes
        <5> QED
          BY <5>1, <5>2, ChunkSizes
      <4> QED
        BY <3>1, <4>1, <4>2
    <3>4. z < bits
      BY <1>1, <3>1, <3>2
    <3> QED
      BY <3>1, <3>2, <3>3, <3>4, Sizes
  <2> QED
    BY <2>1
<1> DEFINE S == {k \in Nat : k + 1 <= n => PrintedFrom(w[k + 1], (n - (k + 1)) * CHUNKSZ)}
<1>5. 0 \in S
  <2>1. PICK m \in Nat : m = n - 1 /\ m = n - (0 + 1) /\ m + 1 = n /\ m * CHUNKSZ < bits
    BY <1>1
  <2>2. /\ << >> \in Seq(Printed) /\ WellFormed(<< >>) /\ Fits(<< >>)
        /\ Current(<< >>) = {} /\ Done(<< >>) = {}
    <3>1. DOMAIN << >> = {} /\ << >> \in Seq(Printed)
      OBVIOUS
    <3>2. Digits(<< >>) = {} /\ Commas(<< >>) = {}
      BY <3>1 DEF Digits, Commas
    <3> QED
      BY <3>1, <3>2 DEF WellFormed, Fits, Current, Done
  <2>3. Above(SetOf(bitmap), (m + 1) * CHUNKSZ) = {}
    <3>1. PICK y \in Nat : y = n * CHUNKSZ /\ bits <= y
      BY <1>1, ChunkSizes
    <3>2. \A x \in Nat : ~(x + y \in SetOf(bitmap))
      BY <3>1, Sizes DEF SetOf, Bit
    <3> QED
      BY <2>1, <3>1, <3>2 DEF Above
  <2>4. PrintedFrom(<< >> \o ChunkText(m * CHUNKSZ), m * CHUNKSZ)
    <3>1. Done(<< >>) = {x + CHUNKSZ : x \in Above(SetOf(bitmap), (m + 1) * CHUNKSZ)}
      BY <2>2, <2>3
    <3> QED
      BY <2>1, <2>2, <3>1, ChunkPrinted
  <2>5. w[0 + 1] = << >> \o ChunkText(m * CHUNKSZ)
    <3>1. w[0 + 1] = w[0] \o << >> \o ChunkText((n - (0 + 1)) * CHUNKSZ)
      <4>1. 0 + 1 = 1 /\ 0 \in Nat
        OBVIOUS
      <4> QED
        BY <1>3, <4>1, Zenon DEF NextChunk
    <3>2. << >> \o << >> = << >>
      OBVIOUS
    <3> QED
      BY <1>3, <2>1, <3>1, <3>2, Zenon
  <2> QED
    BY <2>1, <2>4, <2>5
<1>6. ASSUME NEW k \in Nat, k \in S
      PROVE  k + 1 \in S
  <2> SUFFICES ASSUME k + 1 + 1 <= n
               PROVE  PrintedFrom(w[k + 1 + 1], (n - (k + 1 + 1)) * CHUNKSZ)
    OBVIOUS
  <2>1. PICK m \in Nat : m = n - (k + 1 + 1) /\ m + 1 = n - (k + 1) /\ m * CHUNKSZ < bits
    <3>1. k + 1 \in Nat /\ n - (k + 1 + 1) + 1 = n - (k + 1)
      OBVIOUS
    <3> QED
      BY <1>4, <3>1
  <2> DEFINE t == w[k + 1]
             u == t \o << Separator >>
  <2>2. PrintedFrom(t, (m + 1) * CHUNKSZ)
    <3>1. k + 1 <= n
      OBVIOUS
    <3> QED
      BY <1>6, <2>1, <3>1
  <2>3. w[k + 1 + 1] = u \o ChunkText(m * CHUNKSZ)
    <3>1. k + 1 \in Nat /\ k + 1 + 1 # 1
      OBVIOUS
    <3> QED
      BY <1>3, <2>1, <3>1, Zenon DEF NextChunk
  <2>4. /\ t \in Seq(Printed) /\ WellFormed(t) /\ Fits(t) /\ Current(t) # {}
        /\ All(t) = Above(SetOf(bitmap), (m + 1) * CHUNKSZ)
    BY <2>2 DEF PrintedFrom
  <2> HIDE DEF t
  <2>5. u \in Seq(Printed) /\ Grows(t, u, Len(t), Separator)
    <3>1. u \in Seq(Printed)
      BY <2>4 DEF Printed
    <3>2. /\ Len(t) \in Nat /\ DOMAIN t = 1 .. Len(t) /\ DOMAIN u = 1 .. Len(t) + 1
          /\ \A i \in 1 .. Len(t) : u[i] = t[i]
          /\ u[Len(t) + 1] = Separator
      BY <2>4
    <3> QED
      BY <3>1, <3>2 DEF Grows
  <2> HIDE DEF u
  <2>6. /\ Current(u) = {} /\ ChunkOf(u) = {}
        /\ Done(u) = {x + CHUNKSZ : x \in Above(SetOf(bitmap), (m + 1) * CHUNKSZ)}
    BY <2>4, <2>5, CommaGrows
  <2>7. WellFormed(u)
    <3>1. Digits(t) # {} => t[Len(t)] # Blank
      <4>1. ASSUME Digits(t) # {}
            PROVE  t[Len(t)] # Blank
        <5>1. t # << >>
          BY <2>4, <4>1 DEF Digits
        <5>2. t[Len(t)] \in Printed
          BY <2>4, <5>1
        <5> QED
          BY <5>2, DigitsAre, Distinct DEF Printed
      <4> QED
        BY <4>1
    <3> QED
      BY <2>4, <2>5, <3>1, WellGrows
  <2>8. Fits(u)
    <3>1. ChunkOf(u) \subseteq InChunk
      BY <2>6
    <3> QED
      BY <2>4, <2>5, <3>1, FitsGrows
  <2>9. PrintedFrom(u \o ChunkText(m * CHUNKSZ), m * CHUNKSZ)
    BY <2>1, <2>5, <2>6, <2>7, <2>8, ChunkPrinted
  <2> QED
    BY <2>1, <2>3, <2>9
<1>7. PrintedFrom(w[n], 0 * CHUNKSZ)
  <2>1. Nat \subseteq S
    <3> HIDE DEF S
    <3> QED
      BY <1>5, <1>6, Induction
  <2>2. PICK k \in Nat : n = k + 1 /\ n - (k + 1) = 0
    <3>1. n - 1 \in Nat /\ n = (n - 1) + 1 /\ n - ((n - 1) + 1) = 0
      BY <1>1
    <3> QED
      BY <3>1
  <2>3. k \in S
    BY <2>1
  <2> QED
    BY <2>2, <2>3
<1>8. 0 * CHUNKSZ = 0
  BY ChunkSizes
<1> QED
  BY <1>3, <1>7, <1>8

-----------------------------------------------------------------------------
\* Fewer units make no more.
LEMMA NoMore ==
  ASSUME NEW u \in Nat, NEW a \in Nat, NEW b \in Nat, a <= b
  PROVE  u * a \in Nat /\ u * b \in Nat /\ u * a <= u * b
<1>1. u * a \in Nat /\ u * b \in Nat
  OBVIOUS
<1>2. CASE a = b
  BY <1>1, <1>2
<1>3. CASE a < b
  <2>1. u * a + u <= u * b
    BY <1>3, Multiples
  <2> QED
    BY <1>1, <2>1
<1> QED
  BY <1>1, <1>2, <1>3

\* If the bits of a text fit, so do those of a beginning of it: there they are further right.
LEMMA BeginningFits ==
  ASSUME NEW t \in Seq(Letter), NEW p \in 0 .. Len(t), Fits(t), All(t) \subseteq Bit
  PROVE  ~Overflows(SubSeq(t, 1, p))
<1> DEFINE s == SubSeq(t, 1, p)
<1>1. /\ p \in Nat /\ Len(t) \in Nat /\ DOMAIN s = 1 .. p /\ DOMAIN t = 1 .. Len(t)
      /\ \A i \in 1 .. p : s[i] = t[i]
      /\ Digits(s) = Digits(t) \cap (1 .. p) /\ Commas(s) = Commas(t) \cap (1 .. p)
  BY BeginningIs
<1> HIDE DEF s
<1>2. ASSUME NEW i \in Digits(s)
      PROVE  ChunkBits(s, i) \subseteq InChunk /\ MaskBits(s, i) \subseteq Bit
  <2>1. i \in 1 .. p /\ i \in Digits(t) /\ s[i] = t[i]
    BY <1>1
  <2>2. Below(s, i) \subseteq Below(t, i) /\ After(s, i) \subseteq After(t, i)
    <3>1. \A j \in 1 .. p : (i .. j) \cap Commas(t) \subseteq Commas(s)
      BY <1>1, <2>1
    <3> QED
      BY <1>1, <3>1 DEF Below, After
  <2>3. PICK a \in Nat, b \in Nat, k \in Nat, l \in Nat :
          /\ a = Cardinality(Below(s, i)) /\ b = Cardinality(Below(t, i)) /\ a <= b
          /\ k = Cardinality(After(s, i)) /\ l = Cardinality(After(t, i)) /\ k <= l
    <3>1. /\ Cardinality(Below(s, i)) \in Nat /\ Cardinality(After(s, i)) \in Nat
      BY <1>1, Places
    <3>2. /\ Cardinality(Below(t, i)) \in Nat /\ Cardinality(After(t, i)) \in Nat
          /\ IsFiniteSet(Below(t, i)) /\ IsFiniteSet(After(t, i))
      BY <1>1, <2>1, Places
    <3>3. /\ Cardinality(Below(s, i)) <= Cardinality(Below(t, i))
          /\ Cardinality(After(s, i)) <= Cardinality(After(t, i))
      BY <2>2, <3>2, FS_Subset
    <3> QED
      BY <3>1, <3>2, <3>3
  <2> DEFINE w == hex_to_bin(t[i])
  <2>4. w \subseteq Nat
    BY <2>1, DigitBits, ChunkSizes DEF Digits
  <2>5. /\ ChunkBits(s, i) = {DIGITSZ * a + x : x \in w}
        /\ ChunkBits(t, i) = {DIGITSZ * b + x : x \in w}
    BY <2>1, <2>3 DEF ChunkBits
  <2>6. /\ MaskBits(s, i) = {CHUNKSZ * k + y : y \in ChunkBits(s, i)}
        /\ MaskBits(t, i) = {CHUNKSZ * l + y : y \in ChunkBits(t, i)}
    BY <2>3 DEF MaskBits, After
  <2>7. PICK da \in Nat, db \in Nat, ck \in Nat, cl \in Nat :
          /\ da = DIGITSZ * a /\ db = DIGITSZ * b /\ da <= db
          /\ ck = CHUNKSZ * k /\ cl = CHUNKSZ * l /\ ck <= cl
    BY <2>3, NoMore, ChunkSizes
  <2> HIDE DEF w
  <2>8. ASSUME NEW y \in ChunkBits(s, i)
        PROVE  y \in InChunk /\ ck + y \in Bit
    <3>1. PICK x \in w : y = da + x
      BY <2>5, <2>7
    <3>2. db + x \in InChunk
      <4>1. db + x \in ChunkBits(t, i)
        BY <2>5, <2>7
      <4> QED
        BY <2>1, <4>1 DEF Fits
    <3>3. cl + (db + x) \in Bit
      <4>1. cl + (db + x) \in MaskBits(t, i)
        BY <2>5, <2>6, <2>7
      <4> QED
        BY <2>1, <4>1 DEF All
    <3>4. x \in Nat /\ y <= db + x /\ y \in Nat
      BY <2>4, <2>7, <3>1
    <3>5. ck + y <= cl + (db + x)
      BY <2>7, <3>4
    <3>6. y \in InChunk
      BY <3>2, <3>4, ChunkSizes DEF InChunk
    <3>7. ck + y \in Nat
      BY <2>7, <3>4
    <3>8. \A z \in Bit : z \in Nat /\ z < bits
      BY Sizes DEF Bit
    <3>9. PICK z \in Bit : z = cl + (db + x)
      BY <3>3
    <3>10. ck + y <= z
      BY <3>5, <3>9
    <3>11. ck + y < bits
      BY <3>7, <3>8, <3>10, Sizes
    <3> QED
      BY <3>6, <3>7, <3>11, Sizes DEF Bit
  <2> QED
    BY <2>6, <2>7, <2>8
<1>3. ~Overflows(s)
  BY <1>2 DEF Overflows
<1> QED
  BY <1>3 DEF s

\* What was printed of the bitmap is read as the bitmap, without the bits that it does not use.
LEMMA RoundTrip == MaskInvariant => MaskRoundTrip
<1> SUFFICES ASSUME MaskInvariant, status \notin {"idle", "parse"}, text = bitmap_scnprintf
             PROVE  status = "0" /\ SetOf(maskp) = SetOf(bitmap) /\ Clean(maskp)
  BY DEF MaskRoundTrip
<1>1. /\ text \in Seq(Letter) /\ pos \in 0 .. Len(text) /\ bitmap \in Words
      /\ status \in {"0", "EINVAL", "EOVERFLOW"} /\ ResultInv
  BY DEF MaskInvariant, TypeInv, HexTypeOK, TypeOK, Words
<1>2. WellFormed(text) /\ Fits(text) /\ Current(text) # {} /\ All(text) = SetOf(bitmap)
  <2>1. PrintedFrom(bitmap_scnprintf, 0)
    BY <1>1, MaskPrinted
  <2>2. PrintedFrom(text, 0)
    BY <2>1
  <2>3. Above(SetOf(bitmap), 0) = SetOf(bitmap)
    <3>1. SetOf(bitmap) \subseteq Nat /\ \A x \in Nat : x + 0 = x
      BY Sizes DEF SetOf, Bit
    <3> QED
      BY <3>1 DEF Above
  <2> QED
    BY <2>2, <2>3 DEF PrintedFrom
<1>3. ~Bad(text)
  <2>1. ~Malformed
    BY <1>1, <1>2, NotMalformed
  <2> QED
    BY <2>1, Zenon DEF Malformed, Bad
<1>4. ~Overflows(ReadText)
  <2>1. All(text) \subseteq Bit
    BY <1>2 DEF SetOf
  <2>2. ASSUME NEW p \in Int, p <= Len(text), p >= -1
        PROVE  ~Overflows(SubSeq(text, 1, p))
    <3>1. CASE p = -1
      <4>1. SubSeq(text, 1, p) = << >>
        BY <1>1, <3>1
      <4>2. Digits(<< >>) = {}
        BY DEF Digits
      <4> QED
        BY <4>1, <4>2 DEF Overflows
    <3>2. CASE p # -1
      <4>1. p \in 0 .. Len(text)
        BY <1>1, <2>2, <3>2
      <4> QED
        BY <1>1, <1>2, <2>1, <4>1, BeginningFits
    <3> QED
      BY <3>1, <3>2
  <2>3. PICK p \in Int : p = (IF c = Separator THEN pos - 1 ELSE pos) /\ p <= Len(text) /\ p >= -1
    BY <1>1
  <2> QED
    BY <2>2, <2>3 DEF ReadText
<1>5. Accepts(text, maskp) /\ status = "0"
  BY <1>1, <1>3, <1>4 DEF ResultInv
<1> QED
  BY <1>2, <1>5 DEF Accepts

\* "Exactly @nmaskbits bits are displayed" (bitmap.c, 393-395), and bitmap_parse() takes what
\* bitmap_scnprintf() printed, to the same bits and no others.
THEOREM MasksRoundTrip == HexSpec => []MaskRoundTrip
<1>1. HexSpec => []MaskInvariant
  BY MaskInit, MaskNext, PTL DEF HexSpec
<1> QED
  BY <1>1, RoundTrip, PTL


-----------------------------------------------------------------------------
\* A step of HexMask is a step of Bitmap, or leaves its bitmap.
LEMMA MaskSteps == [HexNext]_<< vars, hexVars >> => [Next]_vars
<1> SUFFICES ASSUME [HexNext]_<< vars, hexVars >> PROVE [Next]_vars
  OBVIOUS
<1>1. CASE HexNext
  BY <1>1, Zenon DEF HexNext, PrintMask, Read, Space, EmbeddedSpace, ReadJoined, BadChar, Digit,
                     ChunkOverflow, Comma, EndOfText
<1>2. CASE UNCHANGED << vars, hexVars >>
  BY <1>2
<1> QED
  BY <1>1, <1>2

\* Where masks are printed and parsed too, the operations on bitmaps are those on sets
\* (bitmap.c:45-52), whatever is set of the unused bits.
THEOREM MasksActOnSets == HexSpec => ImplementsBitSet
<1>1. HexInit => BitSet!Init
  BY StartsAsSet, Zenon DEF HexInit, Init
<1>2. TypeInv /\ [HexNext]_<< vars, hexVars >> => [BitSet!Next]_BitSet!vars
  BY MaskSteps, StepsAsSet DEF TypeInv, HexTypeOK
<1>3. HexSpec => []TypeInv
  BY TypesInit, TypesNext, PTL DEF HexSpec
<1> QED
  BY <1>1, <1>2, <1>3, PTL DEF HexSpec, ImplementsBitSet, BitSet!Spec

\* ... and none of them sets an unused bit of its own (54-57).
THEOREM MasksStayClean == HexSpec => StaysClean
<1>1. TypeInv /\ [HexNext]_<< vars, hexVars >> =>
        [Clean(bitmap) /\ (\A i \in DOMAIN call'.with : Clean(call'.with[i])) => Clean(bitmap')]_vars
  <2>1. TypeInv => TypeOK
    BY DEF TypeInv, HexTypeOK
  <2> QED
    BY <2>1, MaskSteps, CleanSteps
<1>2. HexSpec => []TypeInv
  BY TypesInit, TypesNext, PTL DEF HexSpec
<1> QED
  BY <1>1, <1>2, PTL DEF HexSpec, StaysClean

=============================================================================
