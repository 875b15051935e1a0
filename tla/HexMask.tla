------------------------------ MODULE HexMask ------------------------------
(***************************************************************************)
(* Masks such as "3,ffffffff": bitmap_parse() reads them (shared_cpu_map   *)
(* and the other masks of sysfs), and bitmap_scnprintf() writes them.      *)
(*                                                                         *)
(* A behaviour parses a text, one character a step.  The text is any, or   *)
(* it is what was printed of the bitmap of Bitmap.  A chunk is the set of  *)
(* the numbers of its bits, as words are.                                  *)
(***************************************************************************)
EXTENDS Bitmap

CONSTANTS
  CHUNKSZ,      \* the bits of a chunk, between two commas
  DIGITSZ,      \* the bits of a digit: 4, less in small instances
  HexDigits,    \* the digits in the order of their values
  Texts         \* the texts to parse: sequences of strings of one character

ASSUME ChunkAssumption ==
  /\ CHUNKSZ \in Nat \ {0} /\ BITS_PER_LONG % CHUNKSZ = 0
  /\ DIGITSZ \in Nat \ {0} /\ CHUNKSZ % DIGITSZ = 0
  /\ Len(HexDigits) = 2^DIGITSZ /\ IsInjective(HexDigits)

ASSUME TextAssumption == Texts \subseteq Seq(STRING)

VARIABLES
  text,                                 \* the buffer, up to its '\0'
  pos, c, chunk, ndigits, totaldigits,  \* __bitmap_parse(): its locals, and whether
  nchunks, nbits,                       \* there were digits
  maskp,                                \* and its result
  status        \* "idle", "parse", or what __bitmap_parse() returned, "0" for success

chunkVars == << chunk, ndigits >>
maskVars == << nchunks, nbits, maskp >>
parseVars == << pos, c, chunkVars, totaldigits, maskVars >>
hexVars == << text, parseVars, status >>

\* What c is before there is a character, what isspace() finds, and what is between chunks.
Nul == ""
Blank == " "
Separator == ","

InChunk == 0 .. CHUNKSZ - 1
DigitChars == ToSet(HexDigits)

\* The bits that a number has: those of a digit, and hex_to_bin() of a character.
BitsOf(value) == {i \in 0 .. DIGITSZ - 1 : (value \div 2^i) % 2 = 1}
hex_to_bin(ch) == BitsOf((CHOOSE k \in DOMAIN HexDigits : HexDigits[k] = ch) - 1)

\* The digits are characters, other than those that the parser looks for, and there is one for
\* whatever bits are set.
ASSUME DigitAssumption ==
  /\ HexDigits \in Seq(STRING \ {Nul, Blank, Separator})
  /\ \A w \in SUBSET (0 .. DIGITSZ - 1) : \E k \in DOMAIN HexDigits : BitsOf(k - 1) = w

HexInit ==
  /\ \/ Init /\ text = << >> /\ status = "idle"
     \/ bitmap = bitmap_zero /\ call = NoCall /\ ret = "void"
        /\ text \in Texts /\ status = "parse"
  /\ pos = 0 /\ c = Nul /\ chunk = {} /\ ndigits = FALSE /\ totaldigits = FALSE
  /\ nchunks = 0 /\ nbits = 0
  /\ maskp = bitmap_zero

-----------------------------------------------------------------------------
\* Slip: the first chunk is as long as the others.
EvenChunks(i) == CHUNKSZ

\* The bits of the chunk that starts at i: what is left over belongs to the first one.
chunksz(i) == IF i + CHUNKSZ <= bits THEN CHUNKSZ ELSE bits % CHUNKSZ

\* "%0*lx"
ChunkText(i) ==
  LET val == Shr(bitmap[i \div BITS_PER_LONG], i % BITS_PER_LONG) \cap (0 .. chunksz(i) - 1)
      width == (chunksz(i) + DIGITSZ - 1) \div DIGITSZ
      digit(k) == {j - k * DIGITSZ : j \in val} \cap (0 .. DIGITSZ - 1)
  IN  [k \in 1 .. width |-> CHOOSE ch \in DigitChars : hex_to_bin(ch) = digit(width - k)]

bitmap_scnprintf ==
  LET n == (bits + CHUNKSZ - 1) \div CHUNKSZ
      written[k \in Nat] ==
        IF k = 0 THEN << >>
        ELSE written[k - 1] \o (IF k = 1 THEN << >> ELSE << Separator >>)
                            \o ChunkText((n - k) * CHUNKSZ)
  IN  written[n]

PrintMask ==
  /\ status = "idle" /\ call = NoCall
  /\ text' = bitmap_scnprintf
  /\ status' = "parse"
  /\ UNCHANGED << vars, parseVars >>

-----------------------------------------------------------------------------
Char == text[pos + 1]

\* c = *buf++
Read ==
  /\ status = "parse" /\ pos < Len(text)
  /\ pos' = pos + 1
  /\ c' = Char
  /\ UNCHANGED << vars, text >>

Error(code) ==
  /\ status' = code
  /\ UNCHANGED << chunkVars, totaldigits, maskVars >>

Space ==
  /\ Read
  /\ Char = Blank
  /\ UNCHANGED << chunkVars, totaldigits, maskVars, status >>

\* A blank was before this character, and a digit somewhere before that.
EmbeddedSpace ==
  /\ Read
  /\ Char # Blank /\ totaldigits /\ c = Blank
  /\ Error("EINVAL")

ReadJoined == Read /\ Char # Blank /\ ~(totaldigits /\ c = Blank)

BadChar ==
  /\ ReadJoined
  /\ Char \notin DigitChars \cup {Separator}
  /\ Error("EINVAL")

\* Slip: one bit more is free.
FitsButOne == CHUNKSZ - DIGITSZ + 1

\* The bits of a chunk that must be free for one digit more.
FreeFrom == CHUNKSZ - DIGITSZ

Digit ==
  /\ ReadJoined
  /\ Char \in DigitChars
  /\ \A i \in chunk : i < FreeFrom
  /\ chunk' = {i + DIGITSZ : i \in chunk} \cup hex_to_bin(Char)
  /\ ndigits' = TRUE /\ totaldigits' = TRUE
  /\ UNCHANGED << maskVars, status >>

ChunkOverflow ==
  /\ ReadJoined
  /\ Char \in DigitChars
  /\ \E i \in chunk : i >= FreeFrom
  /\ Error("EOVERFLOW")

\* Slip: chunks of zeros count from the start.
NeverLeading == FALSE

\* Leading chunks of zeros are passed over.
Leading == nchunks = 0 /\ chunk = {}

fls(w) == Max({i + 1 : i \in w} \cup {0})

\* The end of a chunk, after which another one comes or not.
EndChunk(goesOn) ==
  \/ /\ ~ndigits
     /\ Error("EINVAL")
  \/ /\ ndigits
     /\ IF Leading THEN UNCHANGED maskVars
        ELSE /\ maskp' = [bitmap_shift_left(maskp, CHUNKSZ) EXCEPT ![0] = @ \cup chunk]
             /\ nchunks' = nchunks + 1
             /\ nbits' = nbits + (IF nchunks = 0 THEN fls(chunk) ELSE CHUNKSZ)
     /\ status' = IF nbits' > bits THEN "EOVERFLOW" ELSE IF goesOn THEN "parse" ELSE "0"
     /\ chunk' = {} /\ ndigits' = FALSE
     /\ UNCHANGED totaldigits

Comma ==
  /\ ReadJoined
  /\ Char = Separator
  /\ EndChunk(TRUE)

\* The '\0': the buffer has a page, of which the text is less.
EndOfText ==
  /\ status = "parse" /\ pos = Len(text)
  /\ EndChunk(FALSE)
  /\ UNCHANGED << vars, text, pos, c >>

HexNext ==
  \/ status = "idle" /\ Next /\ UNCHANGED hexVars
  \/ PrintMask
  \/ Space \/ EmbeddedSpace \/ BadChar \/ Digit \/ ChunkOverflow \/ Comma \/ EndOfText

HexSpec == HexInit /\ [][HexNext]_<< vars, hexVars >>
-----------------------------------------------------------------------------
HexTypeOK ==
  /\ TypeOK
  /\ pos \in 0 .. Len(text)
  /\ chunk \subseteq InChunk
  /\ ndigits \in BOOLEAN /\ totaldigits \in BOOLEAN
  /\ nchunks \in Nat /\ nbits \in 0 .. bits + CHUNKSZ
  /\ maskp \in [Long -> SUBSET InLong]
  /\ status \in {"idle", "parse", "0", "EINVAL", "EOVERFLOW"}

Digits(s) == {i \in DOMAIN s : s[i] \in DigitChars}
Commas(s) == {i \in DOMAIN s : s[i] = Separator}

\* The digits of s that are in the same chunk as the one at i and to the right of it.
Below(s, i) == {j \in Digits(s) : j > i /\ Commas(s) \cap (i .. j) = {}}

\* The bits that the digit at i stands for, in its chunk and in the mask.
ChunkBits(s, i) == {DIGITSZ * Cardinality(Below(s, i)) + k : k \in hex_to_bin(s[i])}
MaskBits(s, i) == {CHUNKSZ * Cardinality({j \in Commas(s) : j > i}) + k : k \in ChunkBits(s, i)}

\* A character that is none, a chunk without digits, or a blank between digits or commas.
Malformed ==
  \/ \E i \in DOMAIN text : text[i] \notin DigitChars \cup {Separator, Blank}
  \/ \E i \in Commas(text) \cup {Len(text) + 1} :
       \A j \in Digits(text) : j < i => \E k \in Commas(text) : j < k /\ k < i
  \/ \E i \in DOMAIN text, k \in DOMAIN text, d \in Digits(text) :
       d < i /\ i < k /\ text[i] = Blank /\ text[k] # Blank

\* "Commas group hex digits into chunks.  Each chunk defines exactly 32 bits of the resultant
\* bitmask.  No chunk may specify a value larger than 32 bits" (440-445): a text is accepted
\* if and only if it is a mask that fits, and then the mask has the bits of its digits.
ParsesMasks ==
  LET read == SubSeq(text, 1, IF c = Separator THEN pos - 1 ELSE pos)
  IN  /\ status = "0" =>
           /\ ~Malformed
           /\ \A i \in Digits(text) : ChunkBits(text, i) \subseteq InChunk
           /\ SetOf(maskp) = UNION {MaskBits(text, i) : i \in Digits(text)}
      /\ status = "EINVAL" => Malformed
      /\ status = "EOVERFLOW" =>
           \E i \in Digits(read) : \/ ~(ChunkBits(read, i) \subseteq InChunk)
                                   \/ ~(MaskBits(read, i) \subseteq Bit)

\* What is printed of a bitmap, with any unused bits, is parsed to the same bitmap without
\* them: "Exactly @nmaskbits bits are displayed" (393-395).
MaskRoundTrip ==
  status \notin {"idle", "parse"} /\ text = bitmap_scnprintf =>
    status = "0" /\ SetOf(maskp) = SetOf(bitmap) /\ Clean(maskp)
=============================================================================
