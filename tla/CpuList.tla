------------------------------ MODULE CpuList ------------------------------
(***************************************************************************)
(* CPU lists such as "0-2,5": __bitmap_parselist() reads them (the option  *)
(* --exclude-cpus and the file "online" of sysfs) and                      *)
(* bitmap_scnlistprintf() writes them (--verbose).                         *)
(*                                                                         *)
(* A behaviour parses a text, one character a step.  The text is any, or   *)
(* it is what the printing of a mask, one bit a step, has left in the      *)
(* buffer.  A mask is the set of the numbers of its bits.                  *)
(***************************************************************************)
EXTENDS Integers, Sequences, FiniteSets, FiniteSetsExt, SequencesExt

CONSTANTS
  nmaskbits,        \* the size of the mask
  BITS_PER_LONG,
  Unsigned,         \* one more than UINT_MAX
  Texts             \* the texts to parse: sequences of strings of one character

ASSUME WidthAssumption ==
  /\ nmaskbits \in Nat \ {0} /\ BITS_PER_LONG \in Nat \ {0}
  /\ Unsigned \in Nat /\ nmaskbits < Unsigned

ASSUME TextAssumption == Texts \subseteq Seq(STRING)

VARIABLES
  mask, cur, rbot,          \* bitmap_scnlistprintf(): the mask, and its locals
  text,                     \* the buffer
  pos, a, b, c, totaldigits, exp_digit, in_range,   \* __bitmap_parselist(): its locals
  maskp,                    \* and its result
  ret                       \* the error code, "0" for success, or what goes on

printVars == << mask, cur, rbot >>
numberVars == << a, b, exp_digit, in_range >>
parseVars == << pos, numberVars, c, totaldigits, maskp >>
vars == << printVars, text, parseVars, ret >>

Bit == 0 .. nmaskbits - 1
NoMask == {-1}

\* What c is before there is a character, what isspace() finds, and what is between items.
Nul == ""
Blank == " "
Separator == ","

Locals ==
  /\ cur = 0 /\ rbot = -1
  /\ pos = 0 /\ a = 0 /\ b = 0 /\ c = Nul /\ totaldigits = FALSE
  /\ exp_digit = TRUE /\ in_range = FALSE
  /\ maskp = {}

Init ==
  /\ Locals
  /\ \/ text \in Texts /\ mask = NoMask /\ ret = "parse"
     \/ text = << >> /\ mask \in SUBSET Bit /\ ret = "print"

-----------------------------------------------------------------------------
\* find_next_bit(): the words from that of the offset on, of which the first one loses the
\* bits before the offset and the last one those beyond the size.
find_next_bit(addr, size, offset) ==
  LET Word(k) == {i \in addr : i \div BITS_PER_LONG = k /\ i >= offset /\ i < size}
      Found == {k \in offset \div BITS_PER_LONG .. (size - 1) \div BITS_PER_LONG : Word(k) # {}}
  IN  IF offset >= size \/ Found = {} THEN size ELSE Min(Word(Min(Found)))

find_first_bit(addr, size) == find_next_bit(addr, size, 0)

\* The characters of a number.
Decimal[n \in Nat] ==
  IF n < 10 THEN << ToString(n) >> ELSE Append(Decimal[n \div 10], ToString(n % 10))

\* Slip: no comma.
EmitNext(bot, top) ==
  text \o Decimal[bot] \o IF bot = top THEN << >> ELSE << "-" >> \o Decimal[top]

bscnl_emit(bot, top) ==
  (IF text = << >> THEN text ELSE Append(text, Separator))
    \o Decimal[bot] \o IF bot = top THEN << >> ELSE << "-" >> \o Decimal[top]

FirstBit ==
  /\ ret = "print" /\ rbot = -1
  /\ cur' = find_first_bit(mask, nmaskbits)
  /\ rbot' = cur'
  /\ UNCHANGED << mask, text, parseVars, ret >>

\* One iteration of the loop: the bit cur is the last of a range, or not.
NextBit ==
  /\ ret = "print" /\ rbot # -1 /\ cur < nmaskbits
  /\ cur' = find_next_bit(mask, nmaskbits, cur + 1)
  /\ \/ /\ cur' >= nmaskbits \/ cur' > cur + 1
        /\ text' = bscnl_emit(rbot, cur)
        /\ rbot' = cur'
     \/ /\ cur' < nmaskbits /\ cur' = cur + 1
        /\ UNCHANGED << text, rbot >>
  /\ UNCHANGED << mask, parseVars, ret >>

Printed ==
  /\ ret = "print" /\ rbot # -1 /\ cur >= nmaskbits
  /\ ret' = "parse"
  /\ UNCHANGED << printVars, text, parseVars >>

-----------------------------------------------------------------------------
More == ret = "parse" /\ pos < Len(text)
Char == text[pos + 1]
DigitChars == {ToString(d) : d \in 0 .. 9}

\* The digits are ten characters, other than those that the parser looks for.
ASSUME DigitAssumption ==
  /\ \A d \in 0 .. 9, e \in 0 .. 9 : ToString(d) = ToString(e) => d = e
  /\ DigitChars \subseteq STRING \ {Nul, Blank, Separator, "-"}

Value(char) == CHOOSE d \in 0 .. 9 : ToString(d) = char

\* *buf++
Read ==
  /\ More
  /\ pos' = pos + 1
  /\ c' = Char
  /\ UNCHANGED << printVars, text >>

Error(code) ==
  /\ ret' = code
  /\ UNCHANGED << numberVars, totaldigits, maskp >>

Space ==
  /\ Read
  /\ Char = Blank
  /\ UNCHANGED << numberVars, totaldigits, maskp, ret >>

\* Slip: blanks are skipped everywhere.
NeverEmbedded == FALSE

\* A blank was before this character, and a digit somewhere before that.
Embedded == totaldigits /\ c = Blank

EmbeddedSpace ==
  /\ Read
  /\ Char # Blank /\ Embedded
  /\ Error("EINVAL")

ReadJoined == Read /\ Char # Blank /\ ~Embedded

Dash ==
  /\ ReadJoined
  /\ Char = "-"
  /\ ~(exp_digit \/ in_range)
  /\ b' = 0
  /\ in_range' = TRUE /\ exp_digit' = TRUE
  /\ UNCHANGED << a, totaldigits, maskp, ret >>

BadDash ==
  /\ ReadJoined
  /\ Char = "-"
  /\ exp_digit \/ in_range
  /\ Error("EINVAL")

BadChar ==
  /\ ReadJoined
  /\ Char \notin DigitChars \cup {Separator, "-"}
  /\ Error("EINVAL")

Digit ==
  /\ ReadJoined
  /\ Char \in DigitChars
  /\ b' = (b * 10 + Value(Char)) % Unsigned
  /\ a' = IF in_range THEN a ELSE b'
  /\ exp_digit' = FALSE /\ totaldigits' = TRUE
  /\ UNCHANGED << in_range, maskp, ret >>

\* Slip: the size itself is let through.
BeyondOnly == b > nmaskbits

TooLarge == b >= nmaskbits

\* Slip: a and b stay for the next item.
KeepNumbers == UNCHANGED numberVars

NextItem == a' = 0 /\ b' = 0 /\ exp_digit' = TRUE /\ in_range' = FALSE

\* The end of a number or range, at which the text goes on or not.
EndItem(goesOn) ==
  \/ /\ a > b
     /\ Error("EINVAL")
  \/ /\ a <= b /\ TooLarge
     /\ Error("ERANGE")
  \/ /\ a <= b /\ ~TooLarge
     /\ maskp' = maskp \cup a .. b
     /\ ret' = IF goesOn THEN "parse" ELSE "0"
     /\ NextItem
     /\ UNCHANGED totaldigits

Comma ==
  /\ ReadJoined
  /\ Char = Separator
  /\ EndItem(pos' < Len(text))

EndOfText ==
  /\ ret = "parse" /\ pos = Len(text)
  /\ EndItem(FALSE)
  /\ UNCHANGED << printVars, text, pos, c >>

Next ==
  \/ FirstBit \/ NextBit \/ Printed
  \/ Space \/ EmbeddedSpace \/ Dash \/ BadDash \/ BadChar \/ Digit \/ Comma \/ EndOfText

Spec == Init /\ [][Next]_vars
-----------------------------------------------------------------------------
\* No bit is set beyond the mask, whatever the text (671-678).
TypeOK ==
  /\ mask = NoMask \/ mask \subseteq Bit
  /\ cur \in 0 .. nmaskbits /\ rbot \in -1 .. nmaskbits
  /\ pos \in 0 .. Len(text)
  /\ a \in 0 .. Unsigned - 1 /\ b \in 0 .. Unsigned - 1
  /\ totaldigits \in BOOLEAN /\ exp_digit \in BOOLEAN /\ in_range \in BOOLEAN
  /\ maskp \subseteq Bit
  /\ ret \in {"idle", "print", "parse", "0", "EINVAL", "ERANGE"}

Commas(t) == {i \in DOMAIN t : t[i] = Separator}

\* The pieces of a text between commas, as the places before and after them.  Nothing after
\* a last comma is no piece.
Items(t) ==
  {item \in ({0} \cup (Commas(t) \ {Len(t)})) \X (Commas(t) \cup {Len(t) + 1}) :
     item[1] < item[2] /\ Commas(t) \cap (item[1] + 1 .. item[2] - 1) = {}}

Inside(item) == item[1] + 1 .. item[2] - 1
Dashes(t, item) == {k \in Inside(item) : t[k] = "-"}

\* What the digits of t after the place i make, up to each place.
NumberUpTo(t, i) ==
  LET number[j \in Nat] ==
        IF j <= i THEN 0
        ELSE IF t[j] \in DigitChars THEN number[j - 1] * 10 + Value(t[j])
        ELSE number[j - 1]
  IN  number

Bottom(t, item) == NumberUpTo(t, item[1])[Min(Dashes(t, item) \cup {item[2]}) - 1]
Top(t, item) == NumberUpTo(t, Max(Dashes(t, item) \cup {item[1]}))[item[2] - 1]

\* There is no number at the end of the item, as in "" or "0-".
Missing(t, item) ==
  \A k \in Max(Dashes(t, item) \cup {item[1]}) + 1 .. item[2] - 1 : t[k] \notin DigitChars

\* "1 2", "1 ,2" and "1, 2" are malformed, as are "x", "-1", "1-2-3" and "2-1".
BlankInside(t) ==
  \E j \in 2 .. Len(t) - 1 : /\ t[j] = Blank /\ t[j + 1] # Blank
                             /\ \E i \in 1 .. j : t[i] \in DigitChars

Malformed(t, item) ==
  \/ \E k \in Inside(item) : t[k] \notin DigitChars \cup {"-", Blank}
  \/ \E k \in Dashes(t, item), l \in Dashes(t, item) : k # l
  \/ \E k \in Dashes(t, item) : \A l \in item[1] + 1 .. k : t[l] \notin DigitChars
  \/ Bottom(t, item) > Top(t, item)

WellFormed(t) == ~BlankInside(t) /\ \A item \in Items(t) : ~Malformed(t, item)
Fits(t) == \A item \in Items(t) : Top(t, item) < nmaskbits
MaskOf(t) == UNION {Bottom(t, item) .. Top(t, item) : item \in Items(t)}

\* Each item ends in a number, and an unsigned holds its numbers.
Readable(t) ==
  \A item \in Items(t) :
    ~Missing(t, item) /\ {Bottom(t, item), Top(t, item)} \subseteq 0 .. Unsigned - 1

\* A text in which every item ends in a number, and no number is too large for unsigned, is
\* accepted if and only if it is a list of numbers and ranges that fit, and then the mask has
\* the bits of these and no others (617-680).  The other texts are left out because the code
\* does not keep its promises for them: 2^32 is accepted as CPU 0, in spite of "-ERANGE: bit
\* number specified too large for mask" (615), and so are an empty text, an empty item and
\* "0-", in spite of "-errno on invalid input strings" (611).
ParsesLists ==
  Readable(text) =>
    /\ ret = "0" => WellFormed(text) /\ Fits(text) /\ maskp = MaskOf(text)
    /\ ret = "EINVAL" => ~WellFormed(text)
    /\ ret = "ERANGE" => ~Fits(text)

\* "Output format is compatible with the format accepted as input by bitmap_parselist()"
\* (565-566): what is printed is parsed to the same mask (571-680).
RoundTrip == mask # NoMask /\ ret \notin {"print", "parse"} => ret = "0" /\ maskp = mask

\* The same for the masks that a process may have, which are never empty.
RoundTripNonEmpty == mask # {} => RoundTrip
=============================================================================
