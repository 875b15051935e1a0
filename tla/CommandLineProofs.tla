------------------------- MODULE CommandLineProofs -------------------------
(***************************************************************************)
(* The options, and the CPU lists: their parser accepts what it should and *)
(* nothing else, whatever the text, and reads back what was printed,       *)
(* whatever the mask.                                                      *)
(*                                                                         *)
(* A text is read from left to right, and so is the proof: it says what    *)
(* the digits up to a place make, which pieces between commas end up to    *)
(* it, and that the parser has, after each character, what the reference   *)
(* definitions find in the text up to there.  Printing is the same the     *)
(* other way round: the text written so far is that of the bits up to a    *)
(* place.  What the options have asked for up to the next one is all that  *)
(* the variables of main() hold of them.                                   *)
(*                                                                         *)
(* Decimal numbers and the recursive functions that write and read them    *)
(* are reached by induction, for which the sets of numbers that have a     *)
(* property are taken: Induction, Recursion.                               *)
(***************************************************************************)
EXTENDS CommandLine, Numbers, FiniteSetTheorems, SequenceTheorems, TLAPS

\* The same as in CpuList, with the numbers as the parser has them: modulo the width of
\* unsigned, and 0 where there is none.  Of these the invariants are about every text.
NumberMod(t, i, j) == NumberUpTo(t, i)[j] % Unsigned

BottomMod(t, item) == NumberMod(t, item[1], Min(Dashes(t, item) \cup {item[2]}) - 1)
TopMod(t, item) == NumberMod(t, Max(Dashes(t, item) \cup {item[1]}), item[2] - 1)

MalformedMod(t, item) ==
  \/ \E k \in Inside(item) : t[k] \notin DigitChars \cup {"-", Blank}
  \/ \E k \in Dashes(t, item), l \in Dashes(t, item) : k # l
  \/ \E k \in Dashes(t, item) : \A l \in item[1] + 1 .. k : t[l] \notin DigitChars
  \/ BottomMod(t, item) > TopMod(t, item)

WellFormedMod(t) == ~BlankInside(t) /\ \A item \in Items(t) : ~MalformedMod(t, item)
FitsMod(t) == \A item \in Items(t) : TopMod(t, item) < nmaskbits
MaskMod(t) == UNION {BottomMod(t, item) .. TopMod(t, item) : item \in Items(t)}

ParsesMod ==
  /\ ret = "0" => WellFormedMod(text) /\ FitsMod(text) /\ maskp = MaskMod(text)
  /\ ret = "EINVAL" => ~WellFormedMod(text)
  /\ ret = "ERANGE" => ~FitsMod(text)

\* Likewise the options of CommandLine.
AskedMod(option) ==
  CASE Returned(option.name) \in {"p", "n", "t"} -> Valid(option.arg)
    [] Returned(option.name) = "e" -> WellFormedMod(option.arg) /\ FitsMod(option.arg)
    [] OTHER -> Returned(option.name) = "v"

LastExcludedMod == IF Given({"e"}) = {} THEN {} ELSE MaskMod(LastArg({"e"}))

RunsMod ==
  argv # NoCommand /\ pc \in {"running", "failed"} =>
    /\ pc = "running" <=> /\ argv.program
                          /\ LastPpn \in 2 .. MAX_PROCESSES
                          /\ \A k \in DOMAIN argv.options : AskedMod(argv.options[k])
    /\ pc = "running" => ppn = LastPpn /\ maskp = LastExcludedMod

-----------------------------------------------------------------------------
\* What a character counts as a digit.
LEMMA ValueIsDigit ==
  ASSUME NEW char \in DigitChars
  PROVE  Value(char) \in 0 .. 9 /\ ToString(Value(char)) = char
<1>1. \E d \in 0 .. 9 : ToString(d) = char
  BY DEF DigitChars
<1> QED
  BY <1>1 DEF Value

\* Writing a digit and reading it gives the digit.
LEMMA ValueOfDigit ==
  ASSUME NEW d \in 0 .. 9
  PROVE  ToString(d) \in DigitChars /\ Value(ToString(d)) = d
<1>1. ToString(d) \in DigitChars
  BY DEF DigitChars
<1>2. Value(ToString(d)) \in 0 .. 9 /\ ToString(Value(ToString(d))) = ToString(d)
  BY <1>1, ValueIsDigit
<1> QED
  BY <1>1, <1>2, DigitAssumption

\* NumberUpTo() is what its recursive definition says.
LEMMA NumberRead ==
  ASSUME NEW t, NEW i \in Nat
  PROVE  /\ NumberUpTo(t, i) \in [Nat -> Nat]
         /\ \A j \in Nat : NumberUpTo(t, i)[j] =
              IF j <= i THEN 0
              ELSE IF t[j] \in DigitChars THEN NumberUpTo(t, i)[j - 1] * 10 + Value(t[j])
              ELSE NumberUpTo(t, i)[j - 1]
<1> DEFINE Body(h) == [j \in Nat |-> IF j <= i THEN 0
                                      ELSE IF t[j] \in DigitChars THEN h[j - 1] * 10 + Value(t[j])
                                      ELSE h[j - 1]]
           After(j, x) == IF j <= i THEN 0
                          ELSE IF t[j] \in DigitChars THEN x * 10 + Value(t[j])
                          ELSE x
           G == [j \in Nat |-> [x \in Nat |-> After(j, x)]]
<1>1. ASSUME NEW j \in Nat, NEW x \in Nat
      PROVE  After(j, x) \in Nat
  <2>1. CASE t[j] \in DigitChars
    <3>1. Value(t[j]) \in Nat
      BY <2>1, ValueIsDigit
    <3> QED
      BY <3>1
  <2>2. CASE t[j] \notin DigitChars
    BY <2>2
  <2> QED
    BY <2>1, <2>2
<1>2. G \in [Nat -> [Nat -> Nat]]
  <2> HIDE DEF After
  <2> QED
    BY <1>1
<1>3. \E f \in [Nat -> Nat] : f[0] = 0 /\ \A n \in Nat : f[n + 1] = G[n + 1][f[n]]
  <2> HIDE DEF G
  <2>1. 0 \in Nat
    OBVIOUS
  <2>2. PICK f : Recursive(f, Nat, 0, G)
    BY <1>2, <2>1, Recursion
  <2> QED
    BY <2>2 DEF Recursive
<1>4. \E h : h = Body(h)
  <2>1. PICK h \in [Nat -> Nat] : h[0] = 0 /\ \A n \in Nat : h[n + 1] = G[n + 1][h[n]]
    BY <1>3
  <2>2. ASSUME NEW j \in Nat
        PROVE  h[j] = Body(h)[j]
    <3>1. CASE j = 0
      BY <2>1, <3>1
    <3>2. CASE j # 0
      <4>1. j - 1 \in Nat /\ (j - 1) + 1 = j
        BY <3>2
      <4>2. h[j] = G[j][h[j - 1]]
        BY <2>1, <4>1
      <4>3. G[j][h[j - 1]] = After(j, h[j - 1])
        BY <4>1
      <4> QED
        BY <4>2, <4>3
    <3> QED
      BY <3>1, <3>2
  <2> QED
    BY <2>2
<1>5. NumberUpTo(t, i) = CHOOSE h : h = Body(h)
  BY DEF NumberUpTo
<1>6. NumberUpTo(t, i) = Body(NumberUpTo(t, i))
  <2> HIDE DEF Body
  <2> QED
    BY <1>4, <1>5
<1> DEFINE f == NumberUpTo(t, i)
           S == {j \in Nat : f[j] \in Nat}
<1>7. \A j \in Nat : f[j] = IF j <= i THEN 0
                            ELSE IF t[j] \in DigitChars THEN f[j - 1] * 10 + Value(t[j])
                            ELSE f[j - 1]
  BY <1>6
<1>8. \A j \in Nat : t[j] \in DigitChars => Value(t[j]) \in Nat
  BY ValueIsDigit
<1> HIDE DEF f
<1>9. 0 \in S
  BY <1>7
<1>10. ASSUME NEW j \in Nat, j \in S
       PROVE  j + 1 \in S
  <2>1. j + 1 \in Nat /\ (j + 1) - 1 = j
    OBVIOUS
  <2>2. f[j + 1] = IF j + 1 <= i THEN 0
                   ELSE IF t[j + 1] \in DigitChars THEN f[j] * 10 + Value(t[j + 1])
                   ELSE f[j]
    BY <1>7, <2>1
  <2> QED
    BY <1>8, <1>10, <2>1, <2>2
<1>11. Nat \subseteq S
  <2> HIDE DEF S
  <2> QED
    BY <1>9, <1>10, Induction
<1>12. f = [j \in Nat |-> f[j]]
  BY <1>6 DEF f
<1>13. f \in [Nat -> Nat]
  BY <1>11, <1>12
<1> QED
  BY <1>7, <1>13 DEF f

\* Before the first place there is nothing, and a place adds its digit if it has one.
LEMMA NumberStep ==
  ASSUME NEW t, NEW i \in Nat, NEW j \in Nat, i <= j
  PROVE  /\ NumberUpTo(t, i)[i] = 0
         /\ NumberUpTo(t, i)[j] \in Nat
         /\ NumberUpTo(t, i)[j + 1] =
              IF t[j + 1] \in DigitChars THEN NumberUpTo(t, i)[j] * 10 + Value(t[j + 1])
              ELSE NumberUpTo(t, i)[j]
<1>1. j + 1 \in Nat /\ (j + 1) - 1 = j /\ ~(j + 1 <= i) /\ i <= i
  OBVIOUS
<1> QED
  BY <1>1, NumberRead

\* Only the places in between count.
LEMMA NumberAgrees ==
  ASSUME NEW t, NEW u, NEW i \in Nat, NEW j \in Nat, i <= j, \A k \in i + 1 .. j : t[k] = u[k]
  PROVE  NumberUpTo(t, i)[j] = NumberUpTo(u, i)[j]
<1> DEFINE S == {k \in Nat : i <= k /\ k <= j => NumberUpTo(t, i)[k] = NumberUpTo(u, i)[k]}
<1>1. 0 \in S
  BY NumberStep
<1>2. ASSUME NEW k \in Nat, k \in S
      PROVE  k + 1 \in S
  <2>1. CASE i <= k /\ k + 1 <= j
    <3>1. t[k + 1] = u[k + 1]
      BY <2>1
    <3>2. NumberUpTo(t, i)[k] = NumberUpTo(u, i)[k]
      BY <1>2, <2>1
    <3> QED
      BY <2>1, <3>1, <3>2, NumberStep
  <2>2. CASE k + 1 = i
    BY <2>2, NumberStep
  <2>3. CASE k + 1 < i \/ k + 1 > j
    BY <2>3
  <2> QED
    BY <2>1, <2>2, <2>3
<1> HIDE DEF S
<1>3. Nat \subseteq S
  BY <1>1, <1>2, Induction
<1> QED
  BY <1>3 DEF S

\* Places without a digit do not count, either.
LEMMA NumberOfNothing ==
  ASSUME NEW t, NEW i \in Nat, NEW j \in Nat, i <= j, \A k \in i + 1 .. j : t[k] \notin DigitChars
  PROVE  NumberUpTo(t, i)[j] = 0
<1> DEFINE S == {k \in Nat : i <= k /\ k <= j => NumberUpTo(t, i)[k] = 0}
<1>1. 0 \in S
  BY NumberStep
<1>2. ASSUME NEW k \in Nat, k \in S
      PROVE  k + 1 \in S
  <2>1. CASE i <= k /\ k + 1 <= j
    <3>1. t[k + 1] \notin DigitChars
      BY <2>1
    <3>2. NumberUpTo(t, i)[k] = 0
      BY <1>2, <2>1
    <3> QED
      BY <2>1, <3>1, <3>2, NumberStep
  <2>2. CASE k + 1 = i
    BY <2>2, NumberStep
  <2>3. CASE k + 1 < i \/ k + 1 > j
    BY <2>3
  <2> QED
    BY <2>1, <2>2, <2>3
<1> HIDE DEF S
<1>3. Nat \subseteq S
  BY <1>1, <1>2, Induction
<1> QED
  BY <1>3 DEF S

\* Reading one digit more modulo u.
LEMMA DigitRemainder ==
  ASSUME NEW n \in Nat, NEW v \in Nat, NEW u \in Nat \ {0}
  PROVE  (n * 10 + v) % u = ((n % u) * 10 + v) % u
<1>1. PICK q, r : Leaves(n, u, q, r) /\ r = n % u
  BY LeavesRest
<1>2. q \in Nat /\ r \in Nat /\ n = u * q + r
  BY <1>1 DEF Leaves
<1>3. PICK m \in Nat : m = n * 10 + v
  OBVIOUS
<1>4. PICK l \in Nat : l = r * 10 + v
  BY <1>2
<1>5. PICK s, b1 : Leaves(l, u, s, b1) /\ b1 = l % u
  BY LeavesRest
<1>6. s \in Nat /\ b1 \in 0 .. u - 1 /\ l = u * s + b1
  BY <1>5 DEF Leaves
<1>7. m = u * (q * 10 + s) + b1
  <2>1. u * (q * 10 + s) = (u * q) * 10 + u * s
    BY <1>2, <1>6
  <2>2. u * q \in Nat /\ u * s \in Nat
    BY <1>2, <1>6
  <2> QED
    BY <1>2, <1>3, <1>4, <1>6, <2>1, <2>2
<1>8. Leaves(m, u, q * 10 + s, b1)
  BY <1>2, <1>6, <1>7 DEF Leaves
<1>9. Leaves(m, u, m \div u, m % u)
  BY LeavesRest
<1>10. m % u = b1
  BY <1>8, <1>9, LeavesOne
<1> QED
  BY <1>1, <1>3, <1>4, <1>5, <1>10

\* The number up to a place modulo u, as the parser has it in b.
LEMMA NumberInStep ==
  ASSUME NEW t, NEW i \in Nat, NEW j \in Nat, i <= j
  PROVE  /\ NumberMod(t, i, i) = 0
         /\ NumberMod(t, i, j) \in 0 .. Unsigned - 1
         /\ NumberMod(t, i, j + 1) =
              IF t[j + 1] \in DigitChars THEN (NumberMod(t, i, j) * 10 + Value(t[j + 1])) % Unsigned
              ELSE NumberMod(t, i, j)
<1> DEFINE n == NumberUpTo(t, i)[j]
<1>1. Unsigned \in Nat \ {0}
  BY WidthAssumption
<1>2. n \in Nat /\ NumberUpTo(t, i)[i] = 0
  BY NumberStep
<1>3. CASE t[j + 1] \in DigitChars
  <2>1. Value(t[j + 1]) \in Nat
    BY <1>3, ValueIsDigit
  <2>2. NumberUpTo(t, i)[j + 1] = n * 10 + Value(t[j + 1])
    BY <1>3, NumberStep
  <2> HIDE DEF n
  <2>3. (n * 10 + Value(t[j + 1])) % Unsigned = ((n % Unsigned) * 10 + Value(t[j + 1])) % Unsigned
    BY <1>1, <1>2, <2>1, DigitRemainder
  <2>4. n % Unsigned \in 0 .. Unsigned - 1 /\ 0 % Unsigned = 0
    BY <1>1, <1>2
  <2>5. NumberMod(t, i, j) = n % Unsigned
    BY DEF NumberMod, n
  <2>6. NumberMod(t, i, j + 1) = (n * 10 + Value(t[j + 1])) % Unsigned
    BY <2>2 DEF NumberMod
  <2>7. NumberMod(t, i, i) = 0 % Unsigned
    BY <1>2 DEF NumberMod
  <2> QED
    BY <1>3, <2>3, <2>4, <2>5, <2>6, <2>7
<1>4. CASE t[j + 1] \notin DigitChars
  <2>1. NumberUpTo(t, i)[j + 1] = n
    BY <1>4, NumberStep
  <2> HIDE DEF n
  <2>2. n % Unsigned \in 0 .. Unsigned - 1 /\ 0 % Unsigned = 0
    BY <1>1, <1>2
  <2>3. NumberMod(t, i, j) = n % Unsigned
    BY DEF NumberMod, n
  <2>4. NumberMod(t, i, j + 1) = n % Unsigned
    BY <2>1 DEF NumberMod
  <2>5. NumberMod(t, i, i) = 0 % Unsigned
    BY <1>2 DEF NumberMod
  <2> QED
    BY <1>4, <2>2, <2>3, <2>4, <2>5
<1> QED
  BY <1>3, <1>4

\* The same, with the next place named.
LEMMA NumberInNext ==
  ASSUME NEW t, NEW i \in Nat, NEW j \in Nat, i <= j, NEW n, n = j + 1
  PROVE  NumberMod(t, i, n) =
           IF t[n] \in DigitChars THEN (NumberMod(t, i, j) * 10 + Value(t[n])) % Unsigned
           ELSE NumberMod(t, i, j)
BY NumberInStep

\* Texts that agree in between have the same number there.
LEMMA NumberInAgrees ==
  ASSUME NEW t, NEW u, NEW i \in Nat, NEW j \in Nat, i <= j, \A k \in i + 1 .. j : t[k] = u[k]
  PROVE  NumberMod(t, i, j) = NumberMod(u, i, j)
<1>1. NumberUpTo(t, i)[j] = NumberUpTo(u, i)[j]
  BY NumberAgrees
<1> QED
  BY <1>1 DEF NumberMod

-----------------------------------------------------------------------------
\* The characters of a number in their numbers.
Written(h) ==
  [n \in Nat |-> IF n < 10 THEN << ToString(n) >> ELSE Append(h[n \div 10], ToString(n % 10))]

\* The last digit of a number, and what is left without it.
LEMMA DigitOf ==
  ASSUME NEW n \in Nat
  PROVE  /\ n % 10 \in 0 .. 9 /\ n \div 10 \in Nat /\ n = (n \div 10) * 10 + (n % 10)
         /\ n >= 10 => n \div 10 < n
         /\ ToString(n % 10) \in DigitChars
         /\ n < 10 => ToString(n) \in DigitChars
<1>1. n % 10 \in 0 .. 9 /\ n \div 10 \in Nat /\ n = (n \div 10) * 10 + (n % 10)
  OBVIOUS
<1>2. n >= 10 => n \div 10 < n
  OBVIOUS
<1>3. ToString(n % 10) \in DigitChars
  BY <1>1, ValueOfDigit
<1>4. n < 10 => ToString(n) \in DigitChars
  BY ValueOfDigit
<1> QED
  BY <1>1, <1>2, <1>3, <1>4

\* Decimal is what its recursive definition says.
LEMMA DecimalWritten == Decimal = Written(Decimal)
<1> DEFINE V == [Nat -> Seq(DigitChars)]
           none == [n \in Nat |-> << >>]
           G == [j \in Nat |-> [h \in V |-> Written(h)]]
<1>1. none \in V
  OBVIOUS
<1>2. ASSUME NEW h \in V
      PROVE  Written(h) \in V
  <2>1. ASSUME NEW n \in Nat
        PROVE  (IF n < 10 THEN << ToString(n) >> ELSE Append(h[n \div 10], ToString(n % 10)))
                  \in Seq(DigitChars)
    <3>1. CASE n < 10
      BY <3>1, DigitOf
    <3>2. CASE ~(n < 10)
      <4>1. h[n \div 10] \in Seq(DigitChars)
        BY DigitOf
      <4>2. Append(h[n \div 10], ToString(n % 10)) \in Seq(DigitChars)
        BY <4>1, DigitOf
      <4> QED
        BY <3>2, <4>2
    <3> QED
      BY <3>1, <3>2
  <2> QED
    BY <2>1 DEF Written
<1>3. G \in [Nat -> [V -> V]]
  <2> HIDE DEF V
  <2> QED
    BY <1>2
<1>4. PICK f : Recursive(f, V, none, G)
  <2> HIDE DEF V, none, G
  <2> QED
    BY <1>1, <1>3, Recursion
<1>5. f \in [Nat -> V] /\ \A n \in Nat : f[n + 1] = Written(f[n])
  <2>1. f \in [Nat -> V] /\ \A n \in Nat : f[n + 1] = G[n + 1][f[n]]
    <3> HIDE DEF G, V, none
    <3> QED
      BY <1>4 DEF Recursive
  <2>2. ASSUME NEW n \in Nat
        PROVE  G[n + 1][f[n]] = Written(f[n])
    <3> HIDE DEF V
    <3>1. f[n] \in V /\ n + 1 \in Nat
      BY <2>1
    <3> QED
      BY <3>1
  <2> HIDE DEF G, V
  <2> QED
    BY <2>1, <2>2
<1> HIDE DEF V, none, G
<1> DEFINE T == {n \in Nat : \A k \in Nat : k < n => f[n + 1][k] = f[n][k]}
<1>6. 0 \in T
  OBVIOUS
<1>7. ASSUME NEW n \in Nat, n \in T
      PROVE  n + 1 \in T
  <2>1. ASSUME NEW k \in Nat, k < n + 1
        PROVE  f[(n + 1) + 1][k] = f[n + 1][k]
    <3>1. f[(n + 1) + 1] = Written(f[n + 1]) /\ f[n + 1] = Written(f[n])
      BY <1>5
    <3>2. CASE k < 10
      BY <3>1, <3>2 DEF Written
    <3>3. CASE ~(k < 10)
      <4>1. k \div 10 \in Nat /\ k \div 10 < n
        BY <2>1, <3>3, DigitOf
      <4>2. f[n + 1][k \div 10] = f[n][k \div 10]
        BY <1>7, <4>1 DEF T
      <4>3. \A h : Written(h)[k] = Append(h[k \div 10], ToString(k % 10))
        BY <3>3 DEF Written
      <4> QED
        BY <3>1, <4>2, <4>3
    <3> QED
      BY <3>2, <3>3
  <2> QED
    BY <2>1
<1> HIDE DEF T
<1>8. Nat \subseteq T
  BY <1>6, <1>7, Induction
<1>9. ASSUME NEW k \in Nat, NEW n \in Nat, k < n
      PROVE  f[n][k] = f[k + 1][k]
  <2> DEFINE U == {m \in Nat : k < m => f[m][k] = f[k + 1][k]}
  <2>1. 0 \in U
    OBVIOUS
  <2>2. ASSUME NEW m \in Nat, m \in U
        PROVE  m + 1 \in U
    <3>1. CASE k < m
      <4>1. f[m + 1][k] = f[m][k]
        BY <1>8, <3>1 DEF T
      <4> QED
        BY <2>2, <3>1, <4>1
    <3>2. CASE k = m
      BY <3>2
    <3>3. CASE k > m
      BY <3>3
    <3> QED
      BY <3>1, <3>2, <3>3
  <2> HIDE DEF U
  <2>3. Nat \subseteq U
    BY <2>1, <2>2, Induction
  <2> QED
    BY <1>9, <2>3 DEF U
<1> DEFINE d == [k \in Nat |-> f[k + 1][k]]
<1>10. d = Written(d)
  <2>1. ASSUME NEW k \in Nat
        PROVE  d[k] = Written(d)[k]
    <3>1. d[k] = f[k + 1][k] /\ f[k + 1] = Written(f[k])
      BY <1>5
    <3>2. CASE k < 10
      BY <3>1, <3>2 DEF Written
    <3>3. CASE ~(k < 10)
      <4>1. k \div 10 \in Nat /\ k \div 10 < k
        BY <3>3, DigitOf
      <4>2. f[k][k \div 10] = d[k \div 10]
        BY <1>9, <4>1
      <4>3. Written(f[k])[k] = Append(f[k][k \div 10], ToString(k % 10))
        BY <3>3 DEF Written
      <4>4. Written(d)[k] = Append(d[k \div 10], ToString(k % 10))
        BY <3>3 DEF Written
      <4> QED
        BY <3>1, <4>2, <4>3, <4>4
    <3> QED
      BY <3>2, <3>3
  <2> QED
    BY <2>1 DEF Written
<1>11. \E h : h = Written(h)
  BY <1>10
<1>12. Decimal = CHOOSE h : h = Written(h)
  BY DEF Decimal, Written
<1> QED
  BY <1>11, <1>12

\* It has digits only, and one at least.
LEMMA DecimalIsDigits ==
  ASSUME NEW n \in Nat
  PROVE  Decimal[n] \in Seq(DigitChars) /\ Decimal[n] # << >>
<1> DEFINE Bad == {k \in Nat : ~(Decimal[k] \in Seq(DigitChars) /\ Decimal[k] # << >>)}
<1>1. ASSUME Bad # {}
      PROVE  FALSE
  <2>1. PICK k \in Bad : \A j \in Bad : k <= j
    BY <1>1, NatMin
  <2>2. CASE k < 10
    <3>1. Decimal[k] = << ToString(k) >>
      BY <2>2, DecimalWritten DEF Written
    <3>2. ToString(k) \in DigitChars
      BY <2>1, <2>2, DigitOf
    <3>3. Decimal[k] \in Seq(DigitChars) /\ Len(Decimal[k]) = 1
      BY <3>1, <3>2
    <3>4. Decimal[k] # << >>
      BY <3>3
    <3> QED
      BY <2>1, <3>3, <3>4
  <2>3. CASE ~(k < 10)
    <3>1. Decimal[k] = Append(Decimal[k \div 10], ToString(k % 10))
      BY <2>3, DecimalWritten DEF Written
    <3>2. Decimal[k \div 10] \in Seq(DigitChars)
      <4>1. k \div 10 \in Nat /\ k \div 10 < k
        BY <2>3, DigitOf
      <4>2. k \div 10 \notin Bad
        BY <2>1, <4>1
      <4> QED
        BY <4>1, <4>2
    <3>3. ToString(k % 10) \in DigitChars
      BY DigitOf
    <3>4. Decimal[k] \in Seq(DigitChars) /\ Len(Decimal[k]) = Len(Decimal[k \div 10]) + 1
      BY <3>1, <3>2, <3>3
    <3>5. Len(Decimal[k \div 10]) \in Nat
      BY <3>2
    <3>6. Decimal[k] # << >>
      BY <3>4, <3>5
    <3> QED
      BY <2>1, <3>4, <3>6
  <2> QED
    BY <2>2, <2>3
<1> QED
  BY <1>1

\* Where the characters of n stand in a text, n is read.
LEMMA DecimalIsRead ==
  ASSUME NEW t, NEW i \in Nat, NEW n \in Nat,
         \A k \in 1 .. Len(Decimal[n]) : t[i + k] = Decimal[n][k]
  PROVE  NumberUpTo(t, i)[i + Len(Decimal[n])] = n
<1> DEFINE Stands(m) == \A k \in 1 .. Len(Decimal[m]) : t[i + k] = Decimal[m][k]
           Bad == {m \in Nat : Stands(m) /\ NumberUpTo(t, i)[i + Len(Decimal[m])] # m}
<1>1. ASSUME Bad # {}
      PROVE  FALSE
  <2>1. PICK m \in Bad : \A j \in Bad : m <= j
    BY <1>1, NatMin
  <2>2. Stands(m) /\ m \in Nat
    BY <2>1
  <2>3. CASE m < 10
    <3>1. Decimal[m] = << ToString(m) >>
      BY <2>3, DecimalWritten DEF Written
    <3>2. t[i + 1] = ToString(m)
      BY <2>2, <3>1
    <3>3. ToString(m) \in DigitChars /\ Value(ToString(m)) = m
      BY <2>2, <2>3, ValueOfDigit
    <3>4. NumberUpTo(t, i)[i + 1] = m
      BY <3>2, <3>3, NumberStep
    <3>5. Len(Decimal[m]) = 1
      BY <3>1
    <3> QED
      BY <2>1, <3>4, <3>5
  <2>4. CASE ~(m < 10)
    <3> DEFINE q == m \div 10
               d == ToString(m % 10)
               l == Len(Decimal[q])
    <3>1. q \in Nat /\ q < m /\ m = q * 10 + (m % 10) /\ m % 10 \in 0 .. 9
      BY <2>4, DigitOf
    <3>2. Decimal[m] = Append(Decimal[q], d)
      BY <2>4, DecimalWritten DEF Written
    <3>3. Decimal[q] \in Seq(DigitChars) /\ l \in Nat
      BY <3>1, DecimalIsDigits
    <3>4. d \in DigitChars /\ Value(d) = m % 10
      BY <3>1, ValueOfDigit
    <3> HIDE DEF q, d
    <3>5. /\ Len(Decimal[m]) = l + 1
          /\ \A k \in 1 .. l : Decimal[m][k] = Decimal[q][k]
          /\ Decimal[m][l + 1] = d
      BY <3>2, <3>3, <3>4, AppendProperties
    <3>6. Stands(q)
      BY <2>2, <3>3, <3>5
    <3>7. NumberUpTo(t, i)[i + l] = q
      <4>1. q \notin Bad
        BY <2>1, <2>2, <3>1
      <4> QED
        BY <3>1, <3>6, <4>1
    <3>8. t[i + (l + 1)] = d
      BY <2>2, <3>3, <3>5
    <3>9. i + l \in Nat /\ i <= i + l /\ (i + l) + 1 = i + (l + 1)
      BY <3>3
    <3>10. NumberUpTo(t, i)[i + (l + 1)] = q * 10 + Value(d)
      <4>1. t[(i + l) + 1] \in DigitChars
        BY <3>4, <3>8, <3>9
      <4>2. NumberUpTo(t, i)[(i + l) + 1] = NumberUpTo(t, i)[i + l] * 10 + Value(t[(i + l) + 1])
        BY <3>9, <4>1, NumberStep
      <4> QED
        BY <3>7, <3>8, <3>9, <4>2
    <3>11. NumberUpTo(t, i)[i + Len(Decimal[m])] = m
      BY <3>1, <3>4, <3>5, <3>10
    <3> QED
      BY <2>1, <3>11
  <2> QED
    BY <2>3, <2>4
<1> QED
  BY <1>1

-----------------------------------------------------------------------------
\* The words of a bitmap are in the order of their bits.
LEMMA WordsInOrder ==
  ASSUME NEW i \in Nat, NEW j \in Nat, i <= j
  PROVE  i \div BITS_PER_LONG \in Nat /\ i \div BITS_PER_LONG <= j \div BITS_PER_LONG
<1>1. PICK u \in Nat \ {0} : u = BITS_PER_LONG
  BY WidthAssumption
<1>2. PICK p, a1 : Leaves(i, u, p, a1) /\ p = i \div u
  BY LeavesRest
<1>3. PICK q, b1 : Leaves(j, u, q, b1) /\ q = j \div u
  BY LeavesRest
<1>4. /\ p \in Nat /\ q \in Nat /\ a1 \in 0 .. u - 1 /\ b1 \in 0 .. u - 1
      /\ i = u * p + a1 /\ j = u * q + b1
  BY <1>2, <1>3 DEF Leaves
<1>5. ASSUME q < p
      PROVE  FALSE
  <2>1. PICK d \in Nat : p = q + 1 + d
    <3>1. p - q - 1 \in Nat
      BY <1>4, <1>5
    <3> QED
      BY <1>4, <3>1
  <2>2. u * p = u * q + u + u * d
    BY <1>4, <2>1
  <2>3. u * d \in Nat /\ u * q \in Nat
    BY <1>4
  <2> QED
    BY <1>4, <2>2, <2>3
<1> QED
  BY <1>1, <1>2, <1>3, <1>4, <1>5

\* find_next_bit() returns the least bit that is not before the offset, or the size.
LEMMA FindNextBit ==
  ASSUME NEW addr, addr \subseteq Bit, NEW offset \in Nat, offset <= nmaskbits
  PROVE  LET n == find_next_bit(addr, nmaskbits, offset)
         IN  /\ n \in offset .. nmaskbits
             /\ n < nmaskbits => n \in addr
             /\ \A i \in addr : i >= offset => n <= i
<1> DEFINE Word(k) == {i \in addr : i \div BITS_PER_LONG = k /\ i >= offset /\ i < nmaskbits}
           Found == {k \in offset \div BITS_PER_LONG .. (nmaskbits - 1) \div BITS_PER_LONG :
                       Word(k) # {}}
           n == find_next_bit(addr, nmaskbits, offset)
<1>0. /\ nmaskbits \in Nat \ {0} /\ nmaskbits - 1 \in Nat
      /\ \A i \in addr : i \in Nat /\ i <= nmaskbits - 1
  BY WidthAssumption DEF Bit
<1>1. n = IF offset >= nmaskbits \/ Found = {} THEN nmaskbits ELSE Min(Word(Min(Found)))
  BY DEF find_next_bit
<1>2. ASSUME NEW i \in addr, i >= offset
      PROVE  i \div BITS_PER_LONG \in Found /\ i \in Word(i \div BITS_PER_LONG)
  <2>1. /\ offset \div BITS_PER_LONG <= i \div BITS_PER_LONG
        /\ i \div BITS_PER_LONG <= (nmaskbits - 1) \div BITS_PER_LONG
        /\ offset \div BITS_PER_LONG \in Nat /\ i \div BITS_PER_LONG \in Nat
        /\ (nmaskbits - 1) \div BITS_PER_LONG \in Nat
    BY <1>0, <1>2, WordsInOrder
  <2>2. i \in Word(i \div BITS_PER_LONG)
    BY <1>0, <1>2
  <2> QED
    BY <2>1, <2>2
<1>3. CASE offset >= nmaskbits
  BY <1>0, <1>1, <1>3
<1>4. CASE offset < nmaskbits /\ Found = {}
  BY <1>0, <1>1, <1>2, <1>4
<1>5. CASE offset < nmaskbits /\ Found # {}
  <2>1. Found \subseteq Nat
    BY <1>0, WordsInOrder
  <2>2. PICK m : m = Min(Found)
    OBVIOUS
  <2>3. m \in Found /\ \A k \in Found : m <= k
    BY <1>5, <2>1, <2>2, MinOfNat
  <2>4. Word(m) # {} /\ Word(m) \subseteq Nat
    BY <1>0, <2>3
  <2>5. n = Min(Word(m))
    <3>1. ~(offset >= nmaskbits)
      BY <1>0, <1>5
    <3> HIDE DEF n, Found
    <3>2. n = Min(Word(Min(Found)))
      BY <1>1, <1>5, <3>1
    <3> QED
      BY <2>2, <3>2
  <2>6. n \in Word(m) /\ \A i \in Word(m) : n <= i
    BY <2>4, <2>5, MinOfNat
  <2> HIDE DEF n, Found
  <2>7. ASSUME NEW i \in addr, i >= offset
        PROVE  n <= i
    <3>1. m <= i \div BITS_PER_LONG /\ i \in Nat /\ i < nmaskbits
      BY <1>0, <1>2, <2>3, <2>7
    <3>2. ASSUME i < n
          PROVE  FALSE
      <4>1. n \in Nat /\ n \div BITS_PER_LONG = m
        BY <1>0, <2>6
      <4>2. i \div BITS_PER_LONG \in Nat /\ i \div BITS_PER_LONG <= n \div BITS_PER_LONG
        BY <3>1, <3>2, <4>1, WordsInOrder
      <4>3. i \div BITS_PER_LONG = m
        BY <3>1, <4>1, <4>2, <2>1, <2>3
      <4>4. i \in Word(m)
        BY <2>7, <3>1, <4>3
      <4> QED
        BY <2>6, <3>1, <3>2, <4>1, <4>4
    <3> QED
      BY <1>0, <2>6, <3>1, <3>2
  <2>8. n \in addr /\ n >= offset /\ n < nmaskbits
    BY <2>6
  <2> QED
    BY <1>0, <2>7, <2>8 DEF n
<1> QED
  BY <1>0, <1>3, <1>4, <1>5

-----------------------------------------------------------------------------
\* STRING, with what the provers do not know to be in it.
Chars == STRING \cup {Separator, "-"}

\* The options of a command line are a sequence.
LEMMA OptionsAreSeq ==
  ASSUME argv \in CommandLines \cup {NoCommand}
  PROVE  /\ Len(argv.options) \in Nat /\ DOMAIN argv.options = 1 .. Len(argv.options)
         /\ \A k \in 1 .. Len(argv.options) :
              LET option == argv.options[k]
              IN  /\ Returned(option.name) \in {"p", "n", "t"} =>
                       option.arg \in [value : Int, rest : BOOLEAN]
                  /\ Returned(option.name) = "e" => option.arg \in Seq(STRING)
<1>1. CASE argv = NoCommand
  BY <1>1 DEF NoCommand
<1>2. CASE argv \in CommandLines
  <2>1. argv.options \in Seq(ToSet(argv.options))
    BY <1>2, OptionAssumption
  <2>2. Len(argv.options) \in Nat /\ DOMAIN argv.options = 1 .. Len(argv.options)
    BY <2>1, LenProperties
  <2>3. ASSUME NEW k \in DOMAIN argv.options
        PROVE  LET option == argv.options[k]
               IN  /\ Returned(option.name) \in {"p", "n", "t"} =>
                        option.arg \in [value : Int, rest : BOOLEAN]
                   /\ Returned(option.name) = "e" => option.arg \in Seq(STRING)
    BY <1>2, OptionAssumption, Zenon
  <2> QED
    BY <2>2, <2>3
<1> QED
  BY <1>1, <1>2

\* An int is in its range.
LEMMA IntRange ==
  ASSUME NEW n \in Int
  PROVE  int(n) \in Int /\ int(n) <= (IntSpan \div 2) - 1
<1>1. PICK m \in Nat : m = IntSpan /\ m > 0 /\ m = 2 * (m \div 2)
  BY CommandLineAssumption
<1>2. (n + m \div 2) % m \in 0 .. m - 1
  BY <1>1
<1> QED
  BY <1>1, <1>2 DEF int

\* The types of CpuList, with the text, and where printing leaves the parser.
ListTypeInv ==
  /\ TypeOK
  /\ text \in Seq(Chars)
  /\ mask = NoMask => ret # "print"
  /\ ret = "print" => pos = 0

\* The locals are of their types before the first step.
LEMMA ListTypesInit ==
  ASSUME Locals, text \in Seq(Chars), mask = NoMask \/ mask \subseteq Bit,
         ret \in {"idle", "print", "parse"}, mask = NoMask => ret # "print"
  PROVE  ListTypeInv
<1>1. nmaskbits \in Nat /\ Unsigned \in Nat \ {0} /\ Len(text) \in Nat
  BY WidthAssumption
<1>2. /\ cur \in 0 .. nmaskbits /\ rbot \in -1 .. nmaskbits /\ pos \in 0 .. Len(text)
      /\ a \in 0 .. Unsigned - 1 /\ b \in 0 .. Unsigned - 1
  BY <1>1 DEF Locals
<1>3. /\ totaldigits \in BOOLEAN /\ exp_digit \in BOOLEAN /\ in_range \in BOOLEAN
      /\ maskp \subseteq Bit
  BY DEF Locals
<1>4. ret = "print" => pos = 0
  BY DEF Locals
<1> QED
  BY <1>2, <1>3, <1>4 DEF ListTypeInv, TypeOK

\* What is printed of a range.
LEMMA EmitTypes ==
  ASSUME text \in Seq(Chars), NEW bot \in Nat, NEW top \in Nat
  PROVE  bscnl_emit(bot, top) \in Seq(Chars)
<1>1. DigitChars \subseteq Chars
  BY DigitAssumption DEF Chars
<1>2. \A n \in Nat : Decimal[n] \in Seq(Chars)
  BY <1>1, DecimalIsDigits, SeqMonotonic
<1>3. Append(text, Separator) \in Seq(Chars) /\ << "-" >> \in Seq(Chars) /\ << >> \in Seq(Chars)
  <2>1. Separator \in Chars /\ "-" \in Chars
    BY DEF Chars
  <2>2. Append(text, Separator) \in Seq(Chars)
    BY <2>1, AppendProperties
  <2>3. (\A e \in Chars : << e >> \in Seq(Chars)) /\ << >> \in Seq(Chars)
    OBVIOUS
  <2> QED
    BY <2>1, <2>2, <2>3, Zenon
<1>4. Decimal[bot] \in Seq(Chars) /\ Decimal[top] \in Seq(Chars)
  BY <1>2
<1>5. << "-" >> \o Decimal[top] \in Seq(Chars)
  BY <1>3, <1>4, ConcatProperties
<1> DEFINE front == IF text = << >> THEN text ELSE Append(text, Separator)
           back == IF bot = top THEN << >> ELSE << "-" >> \o Decimal[top]
<1>6. front \in Seq(Chars) /\ back \in Seq(Chars)
  BY <1>3, <1>5
<1>7. bscnl_emit(bot, top) = front \o Decimal[bot] \o back
  BY DEF bscnl_emit
<1> HIDE DEF front, back
<1> QED
  BY <1>4, <1>6, <1>7, ConcatProperties

\* The end of an item keeps the types: no bit beyond the mask is set (671-678).
LEMMA EndItemTypes ==
  ASSUME ListTypeInv, NEW goesOn, EndItem(goesOn)
  PROVE  /\ a' \in 0 .. Unsigned - 1 /\ b' \in 0 .. Unsigned - 1
         /\ totaldigits' \in BOOLEAN /\ exp_digit' \in BOOLEAN /\ in_range' \in BOOLEAN
         /\ maskp' \subseteq Bit
         /\ ret' \in {"parse", "0", "EINVAL", "ERANGE"}
<1>1. Unsigned \in Nat \ {0} /\ nmaskbits \in Nat
  BY WidthAssumption
<1>2. CASE a > b
  BY <1>2 DEF EndItem, Error, ListTypeInv, TypeOK, numberVars
<1>3. CASE ~(a > b) /\ TooLarge
  BY <1>3 DEF EndItem, Error, ListTypeInv, TypeOK, numberVars
<1>4. CASE ~(a > b) /\ ~TooLarge
  <2>1. a .. b \subseteq Bit
    BY <1>1, <1>4 DEF ListTypeInv, TypeOK, TooLarge, Bit
  <2>2. maskp' = maskp \cup a .. b /\ ret' \in {"parse", "0"} /\ NextItem /\ UNCHANGED totaldigits
    BY <1>4 DEF EndItem
  <2>3. maskp' \subseteq Bit
    BY <2>1, <2>2 DEF ListTypeInv, TypeOK
  <2>4. a' \in 0 .. Unsigned - 1 /\ b' \in 0 .. Unsigned - 1
    BY <1>1, <2>2 DEF NextItem
  <2>5. totaldigits' \in BOOLEAN /\ exp_digit' \in BOOLEAN /\ in_range' \in BOOLEAN
    BY <2>2 DEF ListTypeInv, TypeOK, NextItem
  <2> QED
    BY <2>2, <2>3, <2>4, <2>5, Zenon
<1> QED
  BY <1>2, <1>3, <1>4

\* Every step of the parser and of the printing keeps the types.
LEMMA ListTypesStep ==
  ASSUME ListTypeInv, Next
  PROVE  ListTypeInv'
<1>1. Unsigned \in Nat \ {0} /\ nmaskbits \in Nat \ {0} /\ Len(text) \in Nat
  BY WidthAssumption DEF ListTypeInv
<1>2. CASE FirstBit
  <2>1. mask \subseteq Bit
    BY <1>2 DEF FirstBit, ListTypeInv, TypeOK
  <2>2. find_next_bit(mask, nmaskbits, 0) \in 0 .. nmaskbits
    BY <1>1, <2>1, FindNextBit
  <2>3. cur' \in 0 .. nmaskbits /\ rbot' \in 0 .. nmaskbits
    BY <1>2, <2>2 DEF FirstBit, find_first_bit
  <2> QED
    BY <1>1, <1>2, <2>3 DEF FirstBit, ListTypeInv, TypeOK, parseVars, numberVars
<1>3. CASE NextBit
  <2>1. /\ mask \subseteq Bit /\ cur \in Nat /\ cur + 1 <= nmaskbits
        /\ rbot \in Nat /\ rbot <= nmaskbits
    BY <1>1, <1>3 DEF NextBit, ListTypeInv, TypeOK
  <2>2. cur' \in 0 .. nmaskbits
    <3>1. find_next_bit(mask, nmaskbits, cur + 1) \in cur + 1 .. nmaskbits
      BY <1>1, <2>1, FindNextBit
    <3> QED
      BY <1>3, <2>1, <3>1 DEF NextBit
  <2>3. text' \in Seq(Chars) /\ rbot' \in -1 .. nmaskbits
    <3>1. bscnl_emit(rbot, cur) \in Seq(Chars)
      BY <2>1, EmitTypes DEF ListTypeInv
    <3> QED
      BY <1>3, <2>2, <3>1 DEF NextBit, ListTypeInv, TypeOK
  <2>4. pos = 0 /\ Len(text') \in Nat
    BY <1>3, <2>3 DEF NextBit, ListTypeInv
  <2> QED
    BY <1>1, <1>3, <2>2, <2>3, <2>4 DEF NextBit, ListTypeInv, TypeOK, parseVars, numberVars
<1>4. CASE Printed
  BY <1>1, <1>4 DEF Printed, ListTypeInv, TypeOK, printVars, parseVars, numberVars
<1>5. ASSUME Read
      PROVE  pos' \in 0 .. Len(text') /\ ret = "parse"
  BY <1>1, <1>5 DEF Read, More, ListTypeInv, TypeOK
<1>6. CASE Space
  BY <1>5, <1>6 DEF Space, Read, printVars, numberVars, ListTypeInv, TypeOK
<1>7. CASE EmbeddedSpace
  BY <1>5, <1>7 DEF EmbeddedSpace, Error, Read, printVars, numberVars, ListTypeInv, TypeOK
<1>8. CASE Dash
  BY <1>1, <1>5, <1>8 DEF Dash, ReadJoined, Read, printVars, ListTypeInv, TypeOK
<1>9. CASE BadDash
  BY <1>5, <1>9 DEF BadDash, ReadJoined, Error, Read, printVars, numberVars, ListTypeInv, TypeOK
<1>10. CASE BadChar
  BY <1>5, <1>10 DEF BadChar, ReadJoined, Error, Read, printVars, numberVars, ListTypeInv, TypeOK
<1>11. CASE Digit
  <2>1. b' \in 0 .. Unsigned - 1
    <3>1. Value(Char) \in Nat
      BY <1>11, ValueIsDigit DEF Digit
    <3>2. b * 10 + Value(Char) \in Nat
      BY <3>1 DEF ListTypeInv, TypeOK
    <3> QED
      BY <1>1, <1>11, <3>2 DEF Digit
  <2>2. a' \in 0 .. Unsigned - 1
    BY <1>11, <2>1 DEF Digit, ListTypeInv, TypeOK
  <2> QED
    BY <1>5, <1>11, <2>1, <2>2 DEF Digit, ReadJoined, Read, printVars, ListTypeInv, TypeOK
<1>12. CASE Comma
  <2>1. Read /\ EndItem(pos' < Len(text))
    BY <1>12 DEF Comma, ReadJoined
  <2> QED
    BY <1>5, <2>1, EndItemTypes DEF Read, printVars, ListTypeInv, TypeOK
<1>13. CASE EndOfText
  <2>1. EndItem(FALSE) /\ UNCHANGED << printVars, text, pos, c >>
    BY <1>13 DEF EndOfText
  <2> QED
    BY <2>1, EndItemTypes DEF printVars, ListTypeInv, TypeOK
<1> QED
  BY <1>2, <1>3, <1>4, <1>6, <1>7, <1>8, <1>9, <1>10, <1>11, <1>12, <1>13 DEF Next

-----------------------------------------------------------------------------
\* The characters that the parser looks for are different, and no digits.
LEMMA CharsDiffer ==
  /\ Separator # "-" /\ Separator # Blank /\ "-" # Blank /\ Nul # Blank
  /\ Separator \notin DigitChars /\ "-" \notin DigitChars /\ Blank \notin DigitChars
<1>1. Separator # "-" /\ Separator # Blank /\ "-" # Blank /\ Nul # Blank
  BY Zenon DEF Separator, Blank, Nul
<1> QED
  BY <1>1, DigitAssumption

\* The items of a text that end up to a place.
DoneBy(t, e) == {item \in Items(t) : item[2] <= e}

\* Places after which an item begins and at which one ends.
IsStart(t, i) == i = 0 \/ (i \in 1 .. Len(t) - 1 /\ t[i] = Separator)
IsEnd(t, i) == i = Len(t) + 1 \/ (i \in 1 .. Len(t) /\ t[i] = Separator)

\* The items are the pieces between two neighbouring places of those.
LEMMA ItemPlaces ==
  ASSUME NEW t \in Seq(Chars)
  PROVE  Items(t) = {item \in Nat \X Nat :
                       /\ IsStart(t, item[1]) /\ IsEnd(t, item[2]) /\ item[1] < item[2]
                       /\ \A k \in item[1] + 1 .. item[2] - 1 :
                            k \in 1 .. Len(t) => t[k] # Separator}
<1>1. Len(t) \in Nat /\ DOMAIN t = 1 .. Len(t)
  BY LenProperties
<1>2. Commas(t) = {i \in 1 .. Len(t) : t[i] = Separator}
  BY <1>1 DEF Commas
<1>3. \A i : i \in {0} \cup (Commas(t) \ {Len(t)}) <=> i \in Nat /\ IsStart(t, i)
  BY <1>1, <1>2 DEF IsStart
<1>4. \A i : i \in Commas(t) \cup {Len(t) + 1} <=> i \in Nat /\ IsEnd(t, i)
  BY <1>1, <1>2 DEF IsEnd
<1>5. \A i, j \in Nat : Commas(t) \cap (i + 1 .. j - 1) = {} <=>
                          \A k \in i + 1 .. j - 1 : k \in 1 .. Len(t) => t[k] # Separator
  BY <1>1, <1>2
<1> DEFINE S == {0} \cup (Commas(t) \ {Len(t)})
           E == Commas(t) \cup {Len(t) + 1}
<1>6. S \subseteq Nat /\ E \subseteq Nat
  BY <1>3, <1>4
<1>7. Items(t) = {item \in S \X E : /\ item[1] < item[2]
                                     /\ Commas(t) \cap (item[1] + 1 .. item[2] - 1) = {}}
  BY DEF Items
<1> HIDE DEF S, E
<1>8. \A item \in S \X E : item \in Nat \X Nat /\ item[1] \in S /\ item[2] \in E
  BY <1>6
<1>9. \A item \in Nat \X Nat : item[1] \in S /\ item[2] \in E => item \in S \X E
  OBVIOUS
<1>10. \A i : (i \in S <=> i \in Nat /\ IsStart(t, i)) /\ (i \in E <=> i \in Nat /\ IsEnd(t, i))
  BY <1>3, <1>4 DEF S, E
<1>11. \A item \in Nat \X Nat :
         /\ item[1] \in Nat /\ item[2] \in Nat
         /\ item \in S \X E <=> IsStart(t, item[1]) /\ IsEnd(t, item[2])
  BY <1>8, <1>9, <1>10
<1> QED
  BY <1>5, <1>7, <1>8, <1>11

\* At the end of an item, this one is done and no others that were not.
LEMMA ItemEnds ==
  ASSUME NEW t \in Seq(Chars), NEW i \in Nat, NEW n \in Nat, i <= n, n <= Len(t),
         IsStart(t, i), IsEnd(t, n + 1), \A k \in i + 1 .. n : t[k] # Separator
  PROVE  DoneBy(t, n + 1) = DoneBy(t, i) \cup {<< i, n + 1 >>} /\ << i, n + 1 >> \in Items(t)
<1>1. Len(t) \in Nat
  OBVIOUS
<1>2. << i, n + 1 >> \in Items(t)
  BY ItemPlaces
<1>3. ASSUME NEW item \in Items(t), item[2] <= n + 1, ~(item[2] <= i)
      PROVE  item = << i, n + 1 >>
  <2>1. PICK p \in Nat, q \in Nat : item = << p, q >>
    BY ItemPlaces
  <2>2. /\ IsStart(t, p) /\ IsEnd(t, q) /\ p < q
        /\ \A k \in p + 1 .. q - 1 : k \in 1 .. Len(t) => t[k] # Separator
    BY <2>1, ItemPlaces
  <2>3. q <= n + 1 /\ q > i
    BY <1>3, <2>1
  <2>4. q = n + 1
    <3>1. ASSUME q <= n
          PROVE  FALSE
      <4>1. q # Len(t) + 1 /\ q \in i + 1 .. n
        BY <1>1, <2>3, <3>1
      <4> QED
        BY <2>2, <4>1 DEF IsEnd
    <3> QED
      BY <2>3, <3>1
  <2>5. p = i
    <3>1. ASSUME p > i
          PROVE  FALSE
      <4>1. p # 0 /\ p \in i + 1 .. n
        BY <2>2, <2>4, <3>1
      <4> QED
        BY <2>2, <4>1 DEF IsStart
    <3>2. ASSUME p < i
          PROVE  FALSE
      <4>1. i # 0 /\ i \in p + 1 .. q - 1 /\ i \in 1 .. Len(t)
        BY <1>1, <2>4, <3>2
      <4> QED
        BY <2>2, <4>1 DEF IsStart
    <3> QED
      BY <3>1, <3>2
  <2> QED
    BY <2>1, <2>4, <2>5
<1>4. \A item \in Items(t) : item[2] \in Nat
  BY ItemPlaces
<1>5. \A item \in Items(t) : item[2] <= i => item[2] <= n + 1
  BY <1>4
<1>6. << i, n + 1 >>[2] <= n + 1
  OBVIOUS
<1> QED
  BY <1>2, <1>3, <1>5, <1>6 DEF DoneBy

\* All items are done at the end of the text, or at a comma there.
LEMMA AllDone ==
  ASSUME NEW t \in Seq(Chars), NEW e \in Nat,
         e = Len(t) + 1 \/ (e = Len(t) /\ e # 0 /\ t[e] = Separator)
  PROVE  DoneBy(t, e) = Items(t)
<1>1. Len(t) \in Nat
  OBVIOUS
<1>2. ASSUME NEW item \in Items(t)
      PROVE  item[2] <= e
  <2>1. PICK p \in Nat, q \in Nat : item = << p, q >>
    BY ItemPlaces
  <2>2. /\ IsStart(t, p) /\ IsEnd(t, q) /\ p < q
        /\ \A k \in p + 1 .. q - 1 : k \in 1 .. Len(t) => t[k] # Separator
    BY <2>1, ItemPlaces
  <2>3. q <= Len(t) + 1 /\ p <= Len(t) /\ (p = Len(t) => p = 0)
    BY <1>1, <2>2 DEF IsStart, IsEnd
  <2>4. ASSUME q = Len(t) + 1, e = Len(t), e # 0, t[e] = Separator
        PROVE  FALSE
    <3>1. e \in p + 1 .. q - 1 /\ e \in 1 .. Len(t)
      BY <1>1, <2>3, <2>4
    <3> QED
      BY <2>2, <2>4, <3>1
  <2> QED
    BY <1>1, <2>1, <2>3, <2>4
<1> QED
  BY <1>2 DEF DoneBy

\* Nothing is done at the beginning.
LEMMA NoneDone ==
  ASSUME NEW t \in Seq(Chars)
  PROVE  DoneBy(t, 0) = {}
<1>1. \A item \in Items(t) : item[1] \in Nat /\ item[2] \in Nat /\ item[1] < item[2]
  BY ItemPlaces
<1> QED
  BY <1>1 DEF DoneBy

-----------------------------------------------------------------------------
\* An item that the parser can read: digits and blanks, and a dash that follows a digit.
ItemChars(t, i, n) == \A k \in i + 1 .. n : t[k] \in DigitChars \cup {"-", Blank}
NoDash(t, i, n) == \A k \in i + 1 .. n : t[k] # "-"
OneDash(t, i, d, n) ==
  /\ t[d] = "-" /\ \A k \in i + 1 .. n : t[k] = "-" => k = d
  /\ \E k \in i + 1 .. d : t[k] \in DigitChars

\* An item without a dash is a number.
LEMMA NumberItem ==
  ASSUME NEW t, NEW i \in Nat, NEW n \in Nat, i <= n, ItemChars(t, i, n), NoDash(t, i, n)
  PROVE  LET item == << i, n + 1 >>
         IN  /\ BottomMod(t, item) = NumberMod(t, i, n) /\ TopMod(t, item) = NumberMod(t, i, n)
             /\ ~MalformedMod(t, item)
<1> DEFINE item == << i, n + 1 >>
<1>1. item[1] = i /\ item[2] = n + 1 /\ Inside(item) = i + 1 .. n
  BY DEF Inside
<1> HIDE DEF item
<1>2. Dashes(t, item) = {}
  BY <1>1 DEF Dashes, NoDash
<1>3. Min({n + 1}) = n + 1
  <2>1. {n + 1} \subseteq Int
    OBVIOUS
  <2> QED
    BY <2>1, MinIs
<1>4. Max({i}) = i
  <2>1. {i} \subseteq Int
    OBVIOUS
  <2> QED
    BY <2>1, MaxIs
<1>5. Dashes(t, item) \cup {item[2]} = {n + 1} /\ Dashes(t, item) \cup {item[1]} = {i}
  BY <1>1, <1>2
<1>6. (n + 1) - 1 = n
  OBVIOUS
<1>7. BottomMod(t, item) = NumberMod(t, i, n) /\ TopMod(t, item) = NumberMod(t, i, n)
  BY <1>1, <1>3, <1>4, <1>5, <1>6 DEF BottomMod, TopMod
<1>8. NumberMod(t, i, n) \in Int
  <2>1. NumberMod(t, i, n) \in 0 .. Unsigned - 1
    BY NumberInStep
  <2> QED
    BY <2>1, WidthAssumption
<1>9. ~(BottomMod(t, item) > TopMod(t, item))
  BY <1>7, <1>8
<1>10. ~MalformedMod(t, item)
  BY <1>1, <1>2, <1>9 DEF MalformedMod, ItemChars
<1> QED
  BY <1>7, <1>10 DEF item

\* One with a dash is a range, which may be the wrong way round.
LEMMA RangeItem ==
  ASSUME NEW t, NEW i \in Nat, NEW n \in Nat, NEW d \in i + 1 .. n,
         ItemChars(t, i, n), OneDash(t, i, d, n)
  PROVE  LET item == << i, n + 1 >>
         IN  /\ BottomMod(t, item) = NumberMod(t, i, d - 1) /\ TopMod(t, item) = NumberMod(t, d, n)
             /\ MalformedMod(t, item) <=> NumberMod(t, i, d - 1) > NumberMod(t, d, n)
<1> DEFINE item == << i, n + 1 >>
<1>1. item[1] = i /\ item[2] = n + 1 /\ Inside(item) = i + 1 .. n
  BY DEF Inside
<1> HIDE DEF item
<1>2. Dashes(t, item) = {d}
  BY <1>1 DEF Dashes, OneDash
<1>3. Min({d, n + 1}) = d
  BY MinIs
<1>4. Max({d, i}) = d
  BY MaxIs
<1>5. Dashes(t, item) \cup {item[2]} = {d, n + 1} /\ Dashes(t, item) \cup {item[1]} = {d, i}
  BY <1>1, <1>2
<1>6. (n + 1) - 1 = n
  OBVIOUS
<1>7. BottomMod(t, item) = NumberMod(t, i, d - 1) /\ TopMod(t, item) = NumberMod(t, d, n)
  BY <1>1, <1>3, <1>4, <1>5, <1>6 DEF BottomMod, TopMod
<1>8. MalformedMod(t, item) <=> BottomMod(t, item) > TopMod(t, item)
  BY <1>1, <1>2 DEF MalformedMod, ItemChars, OneDash
<1> QED
  BY <1>7, <1>8 DEF item

-----------------------------------------------------------------------------
\* An item that is accepted, and the bits of those up to a place.
Good(t, item) == ~MalformedMod(t, item) /\ TopMod(t, item) < nmaskbits
BitsBy(t, e) == UNION {BottomMod(t, item) .. TopMod(t, item) : item \in DoneBy(t, e)}

\* The item after place i is being read: what is in a and b.
InNumber(i) ==
  /\ ~in_range
  /\ NoDash(text, i, pos)
  /\ a = NumberMod(text, i, pos) /\ b = NumberMod(text, i, pos)
  /\ exp_digit <=> \A k \in i + 1 .. pos : text[k] \notin DigitChars

InRange(i, d) ==
  /\ in_range
  /\ OneDash(text, i, d, pos)
  /\ a = NumberMod(text, i, d - 1) /\ b = NumberMod(text, d, pos)
  /\ exp_digit <=> \A k \in d + 1 .. pos : text[k] \notin DigitChars

Reading(i) ==
  /\ i = 0 \/ text[i] = Separator
  /\ ItemChars(text, i, pos)
  /\ InNumber(i) \/ \E d \in i + 1 .. pos : InRange(i, d)
  /\ \A item \in DoneBy(text, i) : Good(text, item)
  /\ maskp = BitsBy(text, i)

\* No blank is followed by something else after a digit.
NoBlankInside(n) ==
  \A j \in 2 .. n - 1 : text[j] = Blank /\ text[j + 1] # Blank =>
                          \A i \in 1 .. j : text[i] \notin DigitChars

ParseInv ==
  ret = "parse" =>
    /\ c = IF pos = 0 THEN Nul ELSE text[pos]
    /\ totaldigits <=> \E k \in 1 .. pos : text[k] \in DigitChars
    /\ NoBlankInside(pos)
    /\ pos # 0 /\ pos = Len(text) => text[pos] # Separator
    /\ \E i \in 0 .. pos : Reading(i)

\* The locals of __bitmap_parselist() before the first character.
Starting ==
  /\ pos = 0 /\ c = Nul /\ a = 0 /\ b = 0 /\ maskp = {}
  /\ exp_digit = TRUE /\ in_range = FALSE /\ totaldigits = FALSE

\* The parser starts with the first item.
LEMMA ParseStarts == text \in Seq(Chars) /\ Starting => ParseInv
<1> SUFFICES ASSUME text \in Seq(Chars), Starting
             PROVE  ParseInv
  OBVIOUS
<1>1. DoneBy(text, 0) = {} /\ BitsBy(text, 0) = {}
  BY NoneDone DEF BitsBy
<1>2. NumberMod(text, 0, 0) = 0
  BY NumberInStep
<1>3. InNumber(0)
  BY <1>2 DEF InNumber, NoDash, Starting
<1>4. Reading(0)
  BY <1>1, <1>3 DEF Reading, ItemChars, Starting
<1> QED
  BY <1>4 DEF ParseInv, NoBlankInside, Starting

-----------------------------------------------------------------------------
\* What the list that is read is accepted or refused for.
LEMMA Accepted ==
  ASSUME ret' = "0", WellFormedMod(text'), FitsMod(text'), maskp' = MaskMod(text')
  PROVE  ParsesMod'
BY DEF ParsesMod

\* A text may be refused if it is malformed,
LEMMA Refused ==
  ASSUME ret' = "EINVAL", ~WellFormedMod(text')
  PROVE  ParsesMod'
BY DEF ParsesMod

\* or if it does not fit,
LEMMA OutOfRange ==
  ASSUME ret' = "ERANGE", ~FitsMod(text')
  PROVE  ParsesMod'
BY DEF ParsesMod

\* and nothing is claimed before the end.
LEMMA GoesOn ==
  ASSUME ret' \in {"idle", "print", "parse"}
  PROVE  ParsesMod'
BY DEF ParsesMod

\* The next character is read into the item.
LEMMA ReadOn ==
  ASSUME ListTypeInv, ParseInv, Read
  PROVE  /\ ret = "parse" /\ text \in Seq(Chars) /\ text' = text
         /\ pos \in Nat /\ pos' = pos + 1 /\ pos' \in 1 .. Len(text) /\ Len(text) \in Nat
         /\ Char = text[pos + 1] /\ c' = text[pos'] /\ c' = Char
<1>1. text \in Seq(Chars) /\ Len(text) \in Nat /\ pos \in 0 .. Len(text)
  BY DEF ListTypeInv, TypeOK
<1> QED
  BY <1>1 DEF Read, More, Char

\* An item that contains a character which is none is malformed.
LEMMA ItemOf ==
  ASSUME NEW t \in Seq(Chars), NEW k \in 1 .. Len(t), t[k] # Separator, NEW i \in Nat, i < k,
         IsStart(t, i), \A j \in i + 1 .. k : t[j] # Separator
  PROVE  \E item \in Items(t) : item[1] = i /\ item[2] > k /\ item[2] \in Nat
<1> DEFINE Ends == {e \in Nat : IsEnd(t, e) /\ e > k}
<1>1. Len(t) \in Nat
  OBVIOUS
<1>2. Len(t) + 1 \in Ends
  BY <1>1 DEF IsEnd
<1>3. PICK e \in Ends : \A f \in Ends : e <= f
  BY <1>2, NatMin
<1>4. \A j \in i + 1 .. e - 1 : j \in 1 .. Len(t) => t[j] # Separator
  <2>1. ASSUME NEW j \in i + 1 .. e - 1, j \in 1 .. Len(t), t[j] = Separator
        PROVE  FALSE
    <3>1. j > k
      BY <2>1
    <3>2. j \in Ends
      BY <2>1, <3>1 DEF IsEnd
    <3> QED
      BY <1>3, <3>2
  <2> QED
    BY <2>1
<1>5. << i, e >> \in Items(t)
  <2>1. << i, e >> \in Nat \X Nat /\ IsStart(t, i) /\ IsEnd(t, e) /\ i < e
    BY <1>3
  <2> QED
    BY <1>4, <2>1, ItemPlaces
<1> QED
  BY <1>3, <1>5

\* While a text is read on, the item that is being read has begun properly.
LEMMA ReadingStart ==
  ASSUME ListTypeInv, ParseInv, ret = "parse"
  PROVE  /\ text \in Seq(Chars) /\ Len(text) \in Nat /\ pos \in 0 .. Len(text)
         /\ \E i \in 0 .. pos : /\ Reading(i) /\ IsStart(text, i)
                                /\ \A j \in i + 1 .. pos : text[j] # Separator
<1>1. text \in Seq(Chars) /\ Len(text) \in Nat /\ pos \in 0 .. Len(text)
  BY DEF ListTypeInv, TypeOK
<1>2. PICK i \in 0 .. pos : Reading(i)
  BY DEF ParseInv
<1>3. IsStart(text, i)
  <2>1. CASE i = 0
    BY <2>1 DEF IsStart
  <2>2. CASE i # 0
    <3>1. text[i] = Separator
      BY <1>2, <2>2 DEF Reading
    <3>2. i # Len(text)
      BY <1>1, <2>2, <3>1 DEF ParseInv
    <3> QED
      BY <1>1, <2>2, <3>1, <3>2 DEF IsStart
  <2> QED
    BY <2>1, <2>2
<1>4. \A j \in i + 1 .. pos : text[j] # Separator
  BY <1>2, CharsDiffer DEF Reading, ItemChars
<1> QED
  BY <1>1, <1>2, <1>3, <1>4

-----------------------------------------------------------------------------
\* Blanks before the next character are not inside, unless the parser says so.
LEMMA BlanksStay ==
  ASSUME ListTypeInv, ParseInv, Read, Char = Blank \/ ~Embedded
  PROVE  NoBlankInside(pos + 1)
<1>1. /\ ret = "parse" /\ pos \in Nat /\ Char = text[pos + 1]
  BY ReadOn
<1>2. /\ c = IF pos = 0 THEN Nul ELSE text[pos]
      /\ totaldigits <=> \E k \in 1 .. pos : text[k] \in DigitChars
      /\ NoBlankInside(pos)
  BY <1>1 DEF ParseInv
<1>3. ASSUME NEW j \in 2 .. (pos + 1) - 1, text[j] = Blank, text[j + 1] # Blank,
             NEW i \in 1 .. j
      PROVE  text[i] \notin DigitChars
  <2>1. CASE j = pos
    <3>1. pos # 0 /\ c = Blank /\ Char # Blank
      BY <1>1, <1>2, <1>3, <2>1
    <3>2. ~totaldigits
      BY <3>1 DEF Embedded
    <3> QED
      BY <1>2, <2>1, <3>2
  <2>2. CASE j # pos
    <3>1. j \in 2 .. pos - 1
      BY <1>1, <2>2
    <3> QED
      BY <1>2, <1>3, <3>1 DEF NoBlankInside
  <2> QED
    BY <2>1, <2>2
<1> QED
  BY <1>3 DEF NoBlankInside

\* A character that goes on in the item leaves what was read before as it is.
LEMMA ItemGoesOn ==
  ASSUME ListTypeInv, ParseInv, Read, Char = Blank \/ ~Embedded,
         Char \in DigitChars \cup {"-", Blank}, ret' = "parse", maskp' = maskp,
         totaldigits' <=> totaldigits \/ Char \in DigitChars,
         NEW i \in 0 .. pos, Reading(i),
         InNumber(i)' \/ \E d \in i + 1 .. pos' : InRange(i, d)'
  PROVE  ParseInv'
<1>1. /\ ret = "parse" /\ text' = text /\ pos \in Nat /\ pos' = pos + 1
      /\ Char = text[pos + 1] /\ c' = text[pos']
  BY ReadOn
<1>2. NoBlankInside(pos)'
  BY <1>1, BlanksStay DEF NoBlankInside
<1>3. totaldigits' <=> \E k \in 1 .. pos' : text'[k] \in DigitChars
  <2>1. totaldigits <=> \E k \in 1 .. pos : text[k] \in DigitChars
    BY <1>1 DEF ParseInv
  <2> QED
    BY <1>1, <2>1
<1>4. ItemChars(text, i, pos)'
  BY <1>1 DEF Reading, ItemChars
<1>5. text'[pos'] # Separator
  BY <1>1, CharsDiffer
<1>6. Reading(i)'
  <2>1. i = 0 \/ text'[i] = Separator
    BY <1>1 DEF Reading
  <2>2. \A item \in DoneBy(text', i) : Good(text', item)
    BY <1>1 DEF Reading
  <2>3. maskp' = BitsBy(text', i)
    BY <1>1 DEF Reading
  <2> QED
    BY <1>4, <2>1, <2>2, <2>3 DEF Reading
<1>7. i \in 0 .. pos'
  BY <1>1
<1>8. c' = IF pos' = 0 THEN Nul ELSE text'[pos']
  BY <1>1
<1> QED
  BY <1>2, <1>3, <1>5, <1>6, <1>7, <1>8 DEF ParseInv

\* A blank changes nothing but the place.
LEMMA SpaceReads ==
  ASSUME ListTypeInv, ParseInv, Space
  PROVE  ParseInv' /\ ParsesMod'
<1>1. Read /\ Char = Blank /\ UNCHANGED << numberVars, totaldigits, maskp, ret >>
  BY DEF Space
<1>2. /\ ret = "parse" /\ text' = text /\ pos \in Nat /\ pos' = pos + 1 /\ Char = text[pos']
  BY <1>1, ReadOn
<1>3. PICK i \in 0 .. pos : Reading(i)
  BY <1>2 DEF ParseInv
<1>4. a' = a /\ b' = b /\ exp_digit' = exp_digit /\ in_range' = in_range
  BY <1>1 DEF numberVars
<1>5. text[pos'] \notin DigitChars /\ text[pos'] # "-"
  BY <1>1, <1>2, CharsDiffer
<1>6. ASSUME InNumber(i)
      PROVE  InNumber(i)'
  <2>1. NumberMod(text', i, pos') = NumberMod(text, i, pos)
    BY <1>2, <1>5, NumberInNext
  <2>2. NoDash(text', i, pos')
    BY <1>2, <1>5, <1>6 DEF InNumber, NoDash
  <2>3. (\A k \in i + 1 .. pos : text[k] \notin DigitChars)
          <=> \A k \in i + 1 .. pos' : text'[k] \notin DigitChars
    BY <1>2, <1>5
  <2> QED
    BY <1>4, <1>6, <2>1, <2>2, <2>3, Zenon DEF InNumber
<1>7. ASSUME NEW d \in i + 1 .. pos, InRange(i, d)
      PROVE  InRange(i, d)'
  <2>1. NumberMod(text', d, pos') = NumberMod(text, d, pos)
    BY <1>2, <1>5, NumberInNext
  <2>2. OneDash(text', i, d, pos')
    BY <1>2, <1>5, <1>7 DEF InRange, OneDash
  <2>3. (\A k \in d + 1 .. pos : text[k] \notin DigitChars)
          <=> \A k \in d + 1 .. pos' : text'[k] \notin DigitChars
    BY <1>2, <1>5
  <2> QED
    BY <1>2, <1>4, <1>7, <2>1, <2>2, <2>3, Zenon DEF InRange
<1>8. InNumber(i)' \/ \E d \in i + 1 .. pos' : InRange(i, d)'
  BY <1>2, <1>3, <1>6, <1>7 DEF Reading
<1>9. ret' = "parse" /\ maskp' = maskp /\ totaldigits' = totaldigits
  BY <1>1, <1>2
<1>10. ParseInv'
  BY <1>1, <1>2, <1>3, <1>5, <1>8, <1>9, ItemGoesOn
<1> QED
  BY <1>9, <1>10, GoesOn

\* A digit is read into b, and into a in front of a dash.
LEMMA DigitReads ==
  ASSUME ListTypeInv, ParseInv, Digit
  PROVE  ParseInv' /\ ParsesMod'
<1>1. /\ Read /\ ~Embedded /\ Char \in DigitChars
      /\ b' = (b * 10 + Value(Char)) % Unsigned
      /\ a' = IF in_range THEN a ELSE b'
      /\ exp_digit' = FALSE /\ totaldigits' = TRUE
      /\ in_range' = in_range /\ maskp' = maskp /\ ret' = ret
  BY DEF Digit, ReadJoined
<1>2. /\ ret = "parse" /\ text' = text /\ pos \in Nat /\ pos' = pos + 1 /\ Char = text[pos']
  BY <1>1, ReadOn
<1>3. PICK i \in 0 .. pos : Reading(i)
  BY <1>2 DEF ParseInv
<1>4. text[pos'] \in DigitChars /\ text[pos'] # "-"
  BY <1>1, <1>2, CharsDiffer
<1>5. ASSUME InNumber(i)
      PROVE  InNumber(i)'
  <2>1. NumberMod(text', i, pos') = (NumberMod(text, i, pos) * 10 + Value(text[pos'])) % Unsigned
    BY <1>2, <1>4, NumberInNext
  <2>2. NoDash(text', i, pos')
    BY <1>2, <1>4, <1>5 DEF InNumber, NoDash
  <2>3. b = NumberMod(text, i, pos) /\ ~in_range
    BY <1>5 DEF InNumber
  <2>4. b' = NumberMod(text', i, pos') /\ a' = b'
    BY <1>1, <1>2, <2>1, <2>3, Zenon
  <2>5. ~ \A k \in i + 1 .. pos' : text'[k] \notin DigitChars
    <3>1. pos' \in i + 1 .. pos'
      BY <1>2
    <3> QED
      BY <1>2, <1>4, <3>1
  <2> QED
    BY <1>1, <2>2, <2>3, <2>4, <2>5, Zenon DEF InNumber
<1>6. ASSUME NEW d \in i + 1 .. pos, InRange(i, d)
      PROVE  InRange(i, d)'
  <2>1. NumberMod(text', d, pos') = (NumberMod(text, d, pos) * 10 + Value(text[pos'])) % Unsigned
    BY <1>2, <1>4, NumberInNext
  <2>2. OneDash(text', i, d, pos')
    BY <1>2, <1>4, <1>6 DEF InRange, OneDash
  <2>3. a = NumberMod(text, i, d - 1) /\ b = NumberMod(text, d, pos) /\ in_range
    BY <1>6 DEF InRange
  <2>4. b' = NumberMod(text', d, pos') /\ a' = NumberMod(text', i, d - 1)
    BY <1>1, <1>2, <2>1, <2>3, Zenon
  <2>5. ~ \A k \in d + 1 .. pos' : text'[k] \notin DigitChars
    <3>1. pos' \in d + 1 .. pos'
      BY <1>2
    <3> QED
      BY <1>2, <1>4, <3>1
  <2> QED
    BY <1>1, <2>2, <2>3, <2>4, <2>5, Zenon DEF InRange
<1>7. InNumber(i)' \/ \E d \in i + 1 .. pos' : InRange(i, d)'
  BY <1>2, <1>3, <1>5, <1>6 DEF Reading
<1>8. ParseInv'
  BY <1>1, <1>2, <1>3, <1>7, ItemGoesOn
<1> QED
  BY <1>1, <1>2, <1>8, GoesOn

\* At a dash, the number in a stays, and the next one begins.
LEMMA DashReads ==
  ASSUME ListTypeInv, ParseInv, Dash
  PROVE  ParseInv' /\ ParsesMod'
<1>1. /\ Read /\ ~Embedded /\ Char = "-" /\ ~exp_digit /\ ~in_range
      /\ b' = 0 /\ a' = a
      /\ in_range' = TRUE /\ exp_digit' = TRUE /\ totaldigits' = totaldigits
      /\ maskp' = maskp /\ ret' = ret
  BY DEF Dash, ReadJoined
<1>2. /\ ret = "parse" /\ text' = text /\ pos \in Nat /\ pos' = pos + 1 /\ Char = text[pos']
  BY <1>1, ReadOn
<1>3. PICK i \in 0 .. pos : Reading(i)
  BY <1>2 DEF ParseInv
<1>4. InNumber(i)
  BY <1>1, <1>3 DEF Reading, InRange
<1>5. PICK d : d = pos + 1
  OBVIOUS
<1>6. InRange(i, d)'
  <2>1. NumberMod(text', d, pos') = 0
    <3>1. d \in Nat /\ pos' = d
      BY <1>2, <1>5
    <3> QED
      BY <3>1, NumberInStep
  <2>2. \E k \in i + 1 .. d : text[k] \in DigitChars
    <3>1. PICK k \in i + 1 .. pos : text[k] \in DigitChars
      BY <1>1, <1>4, Zenon DEF InNumber
    <3> QED
      BY <1>2, <1>5, <3>1
  <2>3. NoDash(text, i, pos)
    BY <1>4 DEF InNumber
  <2>4. OneDash(text', i, d, pos')
    BY <1>1, <1>2, <1>5, <2>2, <2>3 DEF NoDash, OneDash
  <2>5. a' = NumberMod(text', i, d - 1)
    <3>1. d - 1 = pos
      BY <1>2, <1>5
    <3> QED
      BY <1>1, <1>2, <1>4, <3>1, Zenon DEF InNumber
  <2>6. \A k \in d + 1 .. pos' : text'[k] \notin DigitChars
    BY <1>2, <1>5
  <2> QED
    BY <1>1, <2>1, <2>4, <2>5, <2>6, Zenon DEF InRange
<1>7. d \in i + 1 .. pos'
  BY <1>2, <1>5
<1>8. \E e \in i + 1 .. pos' : InRange(i, e)'
  BY <1>6, <1>7, Zenon
<1>9. Char \notin DigitChars
  BY <1>1, CharsDiffer
<1>10. ParseInv'
  BY <1>1, <1>2, <1>3, <1>8, <1>9, ItemGoesOn
<1> QED
  BY <1>1, <1>2, <1>10, GoesOn

-----------------------------------------------------------------------------
\* A blank between a digit and something else is refused.
LEMMA EmbeddedSpaceRefused ==
  ASSUME ListTypeInv, ParseInv, EmbeddedSpace
  PROVE  ParseInv' /\ ParsesMod'
<1>1. Read /\ Char # Blank /\ totaldigits /\ c = Blank /\ ret' = "EINVAL"
  BY DEF EmbeddedSpace, Embedded, Error
<1>2. /\ ret = "parse" /\ text' = text /\ pos \in Nat /\ pos + 1 \in 1 .. Len(text)
      /\ Char = text[pos + 1] /\ Len(text) \in Nat
  BY <1>1, ReadOn
<1>3. /\ c = IF pos = 0 THEN Nul ELSE text[pos]
      /\ \E k \in 1 .. pos : text[k] \in DigitChars
  BY <1>1, <1>2 DEF ParseInv
<1>4. PICK k \in 1 .. pos : text[k] \in DigitChars
  BY <1>3
<1>5. pos # 0 /\ text[pos] = Blank
  BY <1>1, <1>3, CharsDiffer
<1>6. k # pos
  BY <1>4, <1>5, CharsDiffer
<1>7. pos \in 2 .. Len(text) - 1
  BY <1>2, <1>4, <1>5, <1>6
<1>8. BlankInside(text)
  BY <1>1, <1>2, <1>4, <1>5, <1>7 DEF BlankInside
<1> QED
  BY <1>1, <1>2, <1>8, Refused DEF ParseInv, WellFormedMod

\* The character after pos is in the item that is being read.
LEMMA NextIsInside ==
  ASSUME ListTypeInv, ParseInv, Read, Char # Separator, NEW i \in 0 .. pos, IsStart(text, i),
         \A j \in i + 1 .. pos : text[j] # Separator
  PROVE  \E item \in Items(text) : item[1] = i /\ i .. pos + 1 \subseteq i .. item[2] - 1
                                   /\ \A j \in i + 1 .. pos + 1 : j \in Inside(item)
<1>1. /\ text \in Seq(Chars) /\ pos \in Nat /\ Char = text[pos + 1] /\ pos + 1 \in 1 .. Len(text)
  BY ReadOn
<1>2. PICK k : k = pos + 1
  OBVIOUS
<1>3. \A j \in i + 1 .. k : text[j] # Separator
  BY <1>1, <1>2
<1>4. \E item \in Items(text) : item[1] = i /\ item[2] > k /\ item[2] \in Nat
  <2>1. i \in Nat /\ i < k /\ k \in 1 .. Len(text) /\ text[k] # Separator
    BY <1>1, <1>2
  <2> QED
    BY <1>1, <1>3, <2>1, ItemOf
<1> QED
  BY <1>1, <1>2, <1>4 DEF Inside

\* So is a dash that is not between two numbers.
LEMMA BadDashRefused ==
  ASSUME ListTypeInv, ParseInv, BadDash
  PROVE  ParseInv' /\ ParsesMod'
<1>1. Read /\ Char = "-" /\ (exp_digit \/ in_range) /\ ret' = "EINVAL"
  BY DEF BadDash, ReadJoined, Error
<1>2. /\ ret = "parse" /\ text' = text /\ pos \in Nat /\ pos + 1 \in 1 .. Len(text)
      /\ Char = text[pos + 1] /\ Len(text) \in Nat
  BY <1>1, ReadOn
<1>3. PICK i \in 0 .. pos : /\ Reading(i) /\ IsStart(text, i)
                            /\ \A j \in i + 1 .. pos : text[j] # Separator
  BY <1>2, ReadingStart
<1>4. PICK item \in Items(text) : /\ item[1] = i
                                  /\ \A j \in i + 1 .. pos + 1 : j \in Inside(item)
  BY <1>1, <1>3, CharsDiffer, NextIsInside
<1>5. pos + 1 \in i + 1 .. pos + 1
  BY <1>2
<1>6. pos + 1 \in Dashes(text, item)
  BY <1>1, <1>2, <1>4, <1>5 DEF Dashes
<1>7. ASSUME InNumber(i)
      PROVE  MalformedMod(text, item)
  <2>1. exp_digit
    BY <1>1, <1>7 DEF InNumber
  <2>2. \A k \in i + 1 .. pos : text[k] \notin DigitChars
    BY <1>7, <2>1 DEF InNumber
  <2>3. \A l \in item[1] + 1 .. pos + 1 : text[l] \notin DigitChars
    BY <1>1, <1>2, <1>4, <2>2, CharsDiffer
  <2> QED
    BY <1>6, <2>3 DEF MalformedMod
<1>8. ASSUME NEW d \in i + 1 .. pos, InRange(i, d)
      PROVE  MalformedMod(text, item)
  <2>1. text[d] = "-" /\ d \in i + 1 .. pos + 1
    BY <1>2, <1>8 DEF InRange, OneDash
  <2>2. d \in Dashes(text, item)
    BY <1>4, <2>1 DEF Dashes
  <2>3. d # pos + 1
    BY <1>2
  <2> QED
    BY <1>6, <2>2, <2>3 DEF MalformedMod
<1>9. MalformedMod(text, item)
  BY <1>3, <1>7, <1>8 DEF Reading
<1> QED
  BY <1>1, <1>2, <1>9, Refused DEF ParseInv, WellFormedMod

\* And every character that a list does not have.
LEMMA BadCharRefused ==
  ASSUME ListTypeInv, ParseInv, BadChar
  PROVE  ParseInv' /\ ParsesMod'
<1>1. Read /\ Char # Blank /\ Char \notin DigitChars \cup {Separator, "-"} /\ ret' = "EINVAL"
  BY DEF BadChar, ReadJoined, Error
<1>2. /\ ret = "parse" /\ text' = text /\ pos \in Nat /\ Char = text[pos + 1]
  BY <1>1, ReadOn
<1>3. PICK i \in 0 .. pos : /\ Reading(i) /\ IsStart(text, i)
                            /\ \A j \in i + 1 .. pos : text[j] # Separator
  BY <1>2, ReadingStart
<1>4. PICK item \in Items(text) : \A j \in i + 1 .. pos + 1 : j \in Inside(item)
  BY <1>1, <1>3, NextIsInside
<1>5. pos + 1 \in Inside(item) /\ text[pos + 1] \notin DigitChars \cup {"-", Blank}
  BY <1>1, <1>2, <1>4
<1>6. MalformedMod(text, item)
  BY <1>5 DEF MalformedMod
<1> QED
  BY <1>1, <1>2, <1>6, Refused DEF ParseInv, WellFormedMod

-----------------------------------------------------------------------------
\* Where an item ends, its numbers are in a and b.
LEMMA ItemIsRead ==
  ASSUME ListTypeInv, ParseInv, ret = "parse", IsEnd(text, pos + 1)
  PROVE  \E i \in 0 .. pos, item \in Items(text) :
           /\ BottomMod(text, item) = a /\ TopMod(text, item) = b
           /\ MalformedMod(text, item) <=> a > b
           /\ DoneBy(text, pos + 1) = DoneBy(text, i) \cup {item}
           /\ \A other \in DoneBy(text, i) : Good(text, other)
           /\ maskp = BitsBy(text, i)
<1>1. text \in Seq(Chars) /\ Len(text) \in Nat /\ pos \in 0 .. Len(text) /\ pos \in Nat
  BY ReadingStart
<1>2. PICK i \in 0 .. pos : /\ Reading(i) /\ IsStart(text, i)
                            /\ \A j \in i + 1 .. pos : text[j] # Separator
  BY ReadingStart
<1>3. PICK item : item = << i, pos + 1 >>
  OBVIOUS
<1>4. DoneBy(text, pos + 1) = DoneBy(text, i) \cup {item} /\ item \in Items(text)
  <2>1. i \in Nat /\ i <= pos /\ pos <= Len(text)
    BY <1>1
  <2> QED
    BY <1>1, <1>2, <1>3, <2>1, ItemEnds
<1>5. ItemChars(text, i, pos) /\ i \in Nat /\ i <= pos
  BY <1>1, <1>2 DEF Reading
<1>6. CASE InNumber(i)
  <2>1. NoDash(text, i, pos) /\ a = NumberMod(text, i, pos) /\ b = NumberMod(text, i, pos)
    BY <1>6 DEF InNumber
  <2>2. BottomMod(text, item) = a /\ TopMod(text, item) = b /\ ~MalformedMod(text, item)
    BY <1>1, <1>3, <1>5, <2>1, NumberItem
  <2>3. ~(a > b)
    <3>1. a = b /\ a \in Int
      BY <2>1, WidthAssumption DEF ListTypeInv, TypeOK
    <3> QED
      BY <3>1
  <2> QED
    BY <1>2, <1>4, <2>2, <2>3 DEF Reading
<1>7. ASSUME NEW d \in i + 1 .. pos, InRange(i, d)
      PROVE  /\ BottomMod(text, item) = a /\ TopMod(text, item) = b
             /\ MalformedMod(text, item) <=> a > b
  <2>1. OneDash(text, i, d, pos) /\ a = NumberMod(text, i, d - 1) /\ b = NumberMod(text, d, pos)
    BY <1>7 DEF InRange
  <2> QED
    BY <1>1, <1>3, <1>5, <2>1, RangeItem
<1>8. CASE \E d \in i + 1 .. pos : InRange(i, d)
  BY <1>2, <1>4, <1>7, <1>8 DEF Reading
<1> QED
  BY <1>2, <1>6, <1>8 DEF Reading

\* Its bits are set, or the text is refused.
LEMMA ItemEnded ==
  ASSUME ListTypeInv, ParseInv, ret = "parse", IsEnd(text, pos + 1), text' = text,
         NEW goesOn, EndItem(goesOn)
  PROVE  \/ ParseInv' /\ ParsesMod'
         \/ /\ ret' = IF goesOn THEN "parse" ELSE "0"
            /\ NextItem /\ totaldigits' = totaldigits
            /\ \A item \in DoneBy(text, pos + 1) : Good(text, item)
            /\ maskp' = BitsBy(text, pos + 1)
<1>1. PICK i \in 0 .. pos, item \in Items(text) :
        /\ BottomMod(text, item) = a /\ TopMod(text, item) = b
        /\ MalformedMod(text, item) <=> a > b
        /\ DoneBy(text, pos + 1) = DoneBy(text, i) \cup {item}
        /\ \A other \in DoneBy(text, i) : Good(text, other)
        /\ maskp = BitsBy(text, i)
  BY ItemIsRead
<1>2. a \in Int /\ b \in Int /\ nmaskbits \in Int
  BY WidthAssumption DEF ListTypeInv, TypeOK
<1>3. CASE a > b
  <2>1. ret' = "EINVAL"
    BY <1>2, <1>3 DEF EndItem, Error
  <2>2. ~WellFormedMod(text')
    BY <1>1, <1>3 DEF WellFormedMod
  <2> QED
    BY <2>1, <2>2, Refused DEF ParseInv
<1>4. CASE a <= b /\ TooLarge
  <2>1. ret' = "ERANGE"
    BY <1>2, <1>4 DEF EndItem, Error
  <2>2. ~FitsMod(text')
    BY <1>1, <1>2, <1>4 DEF FitsMod, TooLarge
  <2> QED
    BY <2>1, <2>2, OutOfRange DEF ParseInv
<1>5. CASE a <= b /\ ~TooLarge
  <2>1. /\ maskp' = maskp \cup a .. b
        /\ ret' = IF goesOn THEN "parse" ELSE "0"
        /\ NextItem /\ totaldigits' = totaldigits
    BY <1>2, <1>5 DEF EndItem
  <2>2. Good(text, item)
    BY <1>1, <1>2, <1>5 DEF Good, TooLarge
  <2>3. maskp' = BitsBy(text, pos + 1)
    BY <1>1, <2>1 DEF BitsBy
  <2> QED
    BY <1>1, <2>1, <2>2, <2>3
<1> QED
  BY <1>2, <1>3, <1>4, <1>5

\* All items were good, and there is no blank inside: the text is accepted.
LEMMA EndAccepted ==
  ASSUME text \in Seq(Chars), text' = text, NEW e \in Nat,
         e = Len(text) + 1 \/ (e = Len(text) /\ e # 0 /\ text[e] = Separator),
         \A item \in DoneBy(text, e) : Good(text, item),
         maskp' = BitsBy(text, e), NoBlankInside(Len(text)), ret' = "0"
  PROVE  ParseInv' /\ ParsesMod'
<1>1. DoneBy(text, e) = Items(text)
  BY AllDone
<1>2. ~BlankInside(text)
  BY DEF BlankInside, NoBlankInside
<1>3. WellFormedMod(text) /\ FitsMod(text)
  BY <1>1, <1>2 DEF WellFormedMod, FitsMod, Good
<1>4. maskp' = MaskMod(text)
  BY <1>1 DEF BitsBy, MaskMod
<1> QED
  BY <1>3, <1>4, Accepted DEF ParseInv

\* After a comma, the text goes on with another item or ends.
LEMMA CommaEnds ==
  ASSUME ListTypeInv, ParseInv, Comma
  PROVE  ParseInv' /\ ParsesMod'
<1>1. Read /\ Char = Separator /\ ~Embedded /\ EndItem(pos' < Len(text))
  BY DEF Comma, ReadJoined
<1>2. /\ ret = "parse" /\ text \in Seq(Chars) /\ text' = text /\ pos \in Nat /\ pos' = pos + 1
      /\ pos' \in 1 .. Len(text) /\ Len(text) \in Nat /\ text[pos + 1] = Separator
      /\ c' = text[pos']
  BY <1>1, ReadOn
<1>3. IsEnd(text, pos + 1)
  BY <1>2 DEF IsEnd
<1>4. NoBlankInside(pos + 1)
  BY <1>1, BlanksStay
<1>5. SUFFICES ASSUME /\ ret' = IF pos' < Len(text) THEN "parse" ELSE "0"
                      /\ NextItem /\ totaldigits' = totaldigits
                      /\ \A item \in DoneBy(text, pos + 1) : Good(text, item)
                      /\ maskp' = BitsBy(text, pos + 1)
               PROVE  ParseInv' /\ ParsesMod'
  <2>1. \/ ParseInv' /\ ParsesMod'
        \/ /\ ret' = IF pos' < Len(text) THEN "parse" ELSE "0"
           /\ NextItem /\ totaldigits' = totaldigits
           /\ \A item \in DoneBy(text, pos + 1) : Good(text, item)
           /\ maskp' = BitsBy(text, pos + 1)
    BY <1>1, <1>2, <1>3, ItemEnded
  <2> QED
    BY <2>1, <1>5, Zenon
<1>6. CASE pos' < Len(text)
  <2>1. PICK e : e = pos + 1
    OBVIOUS
  <2>2. e \in Nat /\ pos' = e /\ ret' = "parse"
    BY <1>2, <1>5, <1>6, <2>1
  <2>3. NumberMod(text', e, pos') = 0
    BY <2>2, NumberInStep
  <2>4. a' = 0 /\ b' = 0 /\ exp_digit' = TRUE /\ in_range' = FALSE
    BY <1>5 DEF NextItem
  <2>5. NoDash(text', e, pos') /\ ItemChars(text', e, pos')
        /\ \A k \in e + 1 .. pos' : text'[k] \notin DigitChars
    BY <2>2 DEF NoDash, ItemChars
  <2>6. InNumber(e)'
    BY <2>3, <2>4, <2>5, Zenon DEF InNumber
  <2>7. text'[e] = Separator
    BY <1>2, <2>1
  <2>8. (\A item \in DoneBy(text', e) : Good(text', item)) /\ maskp' = BitsBy(text', e)
    BY <1>2, <1>5, <2>1
  <2>9. Reading(e)'
    BY <2>5, <2>6, <2>7, <2>8 DEF Reading
  <2>10. totaldigits' <=> \E k \in 1 .. pos' : text'[k] \in DigitChars
    <3>1. totaldigits <=> \E k \in 1 .. pos : text[k] \in DigitChars
      BY <1>2 DEF ParseInv
    <3> QED
      BY <1>2, <1>5, <3>1, CharsDiffer
  <2>11. NoBlankInside(pos)'
    BY <1>2, <1>4 DEF NoBlankInside
  <2>12. e \in 0 .. pos' /\ pos' # Len(text') /\ c' = IF pos' = 0 THEN Nul ELSE text'[pos']
    BY <1>2, <1>6, <2>2
  <2>13. ParseInv'
    BY <2>9, <2>10, <2>11, <2>12 DEF ParseInv
  <2> QED
    BY <2>2, <2>13, GoesOn
<1>7. CASE ~(pos' < Len(text))
  <2>1. pos + 1 = Len(text) /\ pos + 1 \in Nat /\ pos + 1 # 0 /\ ret' = "0"
    BY <1>2, <1>5, <1>7
  <2>2. NoBlankInside(Len(text))
    BY <1>4, <2>1
  <2> QED
    BY <1>2, <1>5, <2>1, <2>2, EndAccepted
<1> QED
  BY <1>6, <1>7

\* Without a comma, the last item ends with the text.
LEMMA EndOfTextEnds ==
  ASSUME ListTypeInv, ParseInv, EndOfText
  PROVE  ParseInv' /\ ParsesMod'
<1>1. ret = "parse" /\ pos = Len(text) /\ EndItem(FALSE) /\ text' = text
  BY DEF EndOfText
<1>2. text \in Seq(Chars) /\ Len(text) \in Nat
  BY DEF ListTypeInv
<1>3. IsEnd(text, pos + 1)
  BY <1>1 DEF IsEnd
<1>4. NoBlankInside(Len(text))
  BY <1>1 DEF ParseInv
<1>5. SUFFICES ASSUME /\ ret' = "0"
                      /\ \A item \in DoneBy(text, pos + 1) : Good(text, item)
                      /\ maskp' = BitsBy(text, pos + 1)
               PROVE  ParseInv' /\ ParsesMod'
  <2>1. \/ ParseInv' /\ ParsesMod'
        \/ /\ ret' = "0"
           /\ \A item \in DoneBy(text, pos + 1) : Good(text, item)
           /\ maskp' = BitsBy(text, pos + 1)
    BY <1>1, <1>3, ItemEnded
  <2> QED
    BY <2>1, <1>5
<1>6. pos + 1 \in Nat /\ pos + 1 = Len(text) + 1
  BY <1>1, <1>2
<1> QED
  BY <1>1, <1>2, <1>4, <1>5, <1>6, EndAccepted

-----------------------------------------------------------------------------
\* What is printed leaves the parser alone.
ListInv ==
  /\ ListTypeInv
  /\ ret = "print" => Starting
  /\ ParseInv
  /\ ParsesMod

\* Every step keeps what was read so far (617-680).
LEMMA ListStep ==
  ASSUME ListInv, Next
  PROVE  ListInv'
<1>1. ListTypeInv' /\ ListTypeInv /\ ParseInv
  BY ListTypesStep DEF ListInv
<1>2. CASE FirstBit \/ NextBit
  <2>1. ret' = "print" /\ Starting
    BY <1>2 DEF FirstBit, NextBit, ListInv
  <2>2. Starting'
    BY <1>2, <2>1 DEF FirstBit, NextBit, Starting, parseVars, numberVars
  <2> QED
    BY <1>1, <2>1, <2>2, GoesOn DEF ListInv, ParseInv
<1>3. CASE Printed
  <2>1. ret' = "parse" /\ Starting
    BY <1>3 DEF Printed, ListInv
  <2>2. Starting'
    BY <1>3, <2>1 DEF Printed, Starting, parseVars, numberVars
  <2>3. (text \in Seq(Chars) /\ Starting => ParseInv)'
    BY ParseStarts, PTL
  <2>4. (text \in Seq(Chars))'
    BY <1>1 DEF ListTypeInv
  <2> QED
    BY <1>1, <2>1, <2>2, <2>3, <2>4, GoesOn DEF ListInv
<1>4. CASE Space \/ EmbeddedSpace \/ Dash \/ BadDash \/ BadChar \/ Digit \/ Comma \/ EndOfText
  <2>1. ParseInv' /\ ParsesMod'
    BY <1>1, <1>4, SpaceReads, EmbeddedSpaceRefused, DashReads, BadDashRefused, BadCharRefused,
       DigitReads, CommaEnds, EndOfTextEnds
  <2>2. ret = "parse"
    BY <1>4 DEF Space, EmbeddedSpace, Dash, BadDash, BadChar, Digit, Comma, EndOfText, ReadJoined,
                Read, More
  <2>3. ret' # "print"
    <3>1. ASSUME NEW goesOn, EndItem(goesOn)
          PROVE  ret' # "print"
      BY <3>1 DEF EndItem, Error
    <3> QED
      BY <1>4, <2>2, <3>1 DEF Space, EmbeddedSpace, Dash, BadDash, BadChar, Digit, Comma, EndOfText,
                              Error
  <2> QED
    BY <1>1, <2>1, <2>3 DEF ListInv
<1> QED
  BY <1>2, <1>3, <1>4 DEF Next

-----------------------------------------------------------------------------
\* A set of numbers up to n has a largest element.
LEMMA MaxUpTo ==
  ASSUME NEW n \in Nat, NEW S, S \subseteq 0 .. n, S # {}
  PROVE  Max(S) \in S
<1> DEFINE T == {n - x : x \in S}
<1>1. T \subseteq Nat /\ T # {}
  <2>1. \A x \in S : n - x \in Nat
    OBVIOUS
  <2>2. PICK x : x \in S
    OBVIOUS
  <2>3. n - x \in T
    BY <2>2
  <2> QED
    BY <2>1, <2>3
<1>2. PICK m \in T : \A y \in T : m <= y
  BY <1>1, NatMin
<1>3. PICK x \in S : m = n - x
  BY <1>2
<1>4. \A y \in S : y <= x
  <2>1. ASSUME NEW y \in S
        PROVE  y <= x
    <3>1. n - y \in T
      OBVIOUS
    <3>2. m <= n - y
      BY <1>2, <3>1
    <3> QED
      BY <1>3, <3>2
  <2> QED
    BY <2>1
<1>5. Max(S) = x
  <2>1. S \subseteq Int
    OBVIOUS
  <2> QED
    BY <1>4, <2>1, MaxIs
<1> QED
  BY <1>5

\* An item says the same in two texts that have the same characters inside it.
LEMMA ItemAgrees ==
  ASSUME NEW t, NEW u, NEW i \in Nat, NEW n \in Nat, i <= n, \A k \in i + 1 .. n : t[k] = u[k]
  PROVE  LET item == << i, n + 1 >>
         IN  /\ BottomMod(t, item) = BottomMod(u, item) /\ TopMod(t, item) = TopMod(u, item)
             /\ MalformedMod(t, item) => MalformedMod(u, item)
<1> DEFINE item == << i, n + 1 >>
<1>1. item[1] = i /\ item[2] = n + 1 /\ Inside(item) = i + 1 .. n
  BY DEF Inside
<1> HIDE DEF item
<1>2. Dashes(t, item) = Dashes(u, item) /\ Dashes(t, item) \subseteq i + 1 .. n
  BY <1>1 DEF Dashes
<1>3. BottomMod(t, item) = BottomMod(u, item)
  <2>1. PICK k : k = Min(Dashes(t, item) \cup {item[2]})
    OBVIOUS
  <2>2. k \in i + 1 .. n + 1
    <3>1. Dashes(t, item) \cup {item[2]} \subseteq Nat /\ item[2] \in i + 1 .. n + 1
      BY <1>1, <1>2
    <3>2. k \in Dashes(t, item) \cup {item[2]}
      BY <2>1, <3>1, MinOfNat
    <3> QED
      BY <1>2, <3>1, <3>2
  <2>3. k - 1 \in Nat /\ i <= k - 1 /\ \A l \in i + 1 .. k - 1 : t[l] = u[l]
    BY <2>2
  <2>4. NumberMod(t, i, k - 1) = NumberMod(u, i, k - 1)
    BY <2>3, NumberInAgrees
  <2> QED
    BY <1>1, <1>2, <2>1, <2>4 DEF BottomMod
<1>4. TopMod(t, item) = TopMod(u, item)
  <2>1. PICK k : k = Max(Dashes(t, item) \cup {item[1]})
    OBVIOUS
  <2>2. k \in i .. n
    <3>1. Dashes(t, item) \cup {item[1]} \subseteq 0 .. n /\ item[1] \in i .. n
      BY <1>1, <1>2
    <3>2. k \in Dashes(t, item) \cup {item[1]}
      BY <2>1, <3>1, MaxUpTo
    <3> QED
      BY <1>2, <3>1, <3>2
  <2>3. k \in Nat /\ k <= n /\ \A l \in k + 1 .. n : t[l] = u[l]
    BY <2>2
  <2>4. NumberMod(t, k, n) = NumberMod(u, k, n)
    BY <2>3, NumberInAgrees
  <2>5. item[2] - 1 = n
    BY <1>1
  <2> QED
    BY <1>2, <2>1, <2>4, <2>5 DEF TopMod
<1>5. ASSUME MalformedMod(t, item)
      PROVE  MalformedMod(u, item)
  <2>1. CASE \E k \in Inside(item) : t[k] \notin DigitChars \cup {"-", Blank}
    BY <1>1, <2>1 DEF MalformedMod
  <2>2. CASE \E k \in Dashes(t, item), l \in Dashes(t, item) : k # l
    BY <1>2, <2>2 DEF MalformedMod
  <2>3. CASE \E k \in Dashes(t, item) : \A l \in item[1] + 1 .. k : t[l] \notin DigitChars
    BY <1>1, <1>2, <2>3 DEF MalformedMod
  <2>4. CASE BottomMod(t, item) > TopMod(t, item)
    BY <1>3, <1>4, <2>4 DEF MalformedMod
  <2> QED
    BY <1>5, <2>1, <2>2, <2>3, <2>4 DEF MalformedMod
<1> QED
  BY <1>3, <1>4, <1>5 DEF item

\* t is what u has before a comma.
Begins(t, u) ==
  /\ Len(t) + 1 < Len(u) /\ u[Len(t) + 1] = Separator
  /\ \A k \in 1 .. Len(t) : u[k] = t[k]

\* The items of a text stay when it goes on after a comma.
LEMMA ItemsStay ==
  ASSUME NEW t \in Seq(Chars), NEW u \in Seq(Chars), Begins(t, u), t # << >>,
         t[Len(t)] # Separator
  PROVE  DoneBy(u, Len(t) + 1) = Items(t)
<1>1. PICK n \in Nat : n = Len(t)
  OBVIOUS
<1>2. PICK l \in Nat : l = Len(u)
  OBVIOUS
<1>3. n # 0 /\ n + 1 < l /\ u[n + 1] = Separator /\ u[n] # Separator
      /\ \A k \in 1 .. n : u[k] = t[k]
  BY <1>1, <1>2, EmptySeq DEF Begins
<1>4. \A i \in Nat : i <= n => (IsStart(t, i) <=> IsStart(u, i))
  BY <1>1, <1>2, <1>3 DEF IsStart
<1>5. \A i \in Nat : i <= n + 1 => (IsEnd(t, i) <=> IsEnd(u, i))
  BY <1>1, <1>2, <1>3 DEF IsEnd
<1>6. \A i \in Nat, j \in Nat : j <= n + 1 =>
        ((\A k \in i + 1 .. j - 1 : k \in 1 .. n => t[k] # Separator)
           <=> (\A k \in i + 1 .. j - 1 : k \in 1 .. l => u[k] # Separator))
  BY <1>3
<1>7. ASSUME NEW item \in Items(t)
      PROVE  item \in DoneBy(u, n + 1)
  <2>1. /\ item \in Nat \X Nat /\ IsStart(t, item[1]) /\ IsEnd(t, item[2]) /\ item[1] < item[2]
        /\ \A k \in item[1] + 1 .. item[2] - 1 : k \in 1 .. n => t[k] # Separator
    BY <1>1, ItemPlaces
  <2>2. item[1] \in Nat /\ item[2] \in Nat /\ item[2] <= n + 1 /\ item[1] <= n
    BY <1>1, <2>1 DEF IsEnd
  <2>3. IsStart(u, item[1]) /\ IsEnd(u, item[2])
    BY <1>4, <1>5, <2>1, <2>2
  <2>4. \A k \in item[1] + 1 .. item[2] - 1 : k \in 1 .. l => u[k] # Separator
    BY <1>6, <2>1, <2>2
  <2>5. item \in Items(u)
    BY <1>2, <2>1, <2>3, <2>4, ItemPlaces
  <2> QED
    BY <2>2, <2>5 DEF DoneBy
<1>8. ASSUME NEW item \in Items(u), item[2] <= n + 1
      PROVE  item \in Items(t)
  <2>1. /\ item \in Nat \X Nat /\ IsStart(u, item[1]) /\ IsEnd(u, item[2]) /\ item[1] < item[2]
        /\ \A k \in item[1] + 1 .. item[2] - 1 : k \in 1 .. l => u[k] # Separator
    BY <1>2, ItemPlaces
  <2>2. item[1] \in Nat /\ item[2] \in Nat /\ item[1] <= n
    BY <1>8, <2>1
  <2>3. IsStart(t, item[1]) /\ IsEnd(t, item[2])
    BY <1>4, <1>5, <1>8, <2>1, <2>2
  <2>4. \A k \in item[1] + 1 .. item[2] - 1 : k \in 1 .. n => t[k] # Separator
    BY <1>6, <1>8, <2>1, <2>2
  <2> QED
    BY <1>1, <2>1, <2>3, <2>4, ItemPlaces
<1> QED
  BY <1>1, <1>7, <1>8 DEF DoneBy

\* The places of three sequences one after the other.
LEMMA Parts ==
  ASSUME NEW S, NEW f \in Seq(S), NEW d \in Seq(S), NEW e \in Seq(S), NEW u, u = f \o d \o e
  PROVE  /\ u \in Seq(S) /\ Len(u) = Len(f) + Len(d) + Len(e)
         /\ \A k \in 1 .. Len(f) : u[k] = f[k]
         /\ \A k \in 1 .. Len(d) : u[Len(f) + k] = d[k]
         /\ \A k \in 1 .. Len(e) : u[Len(f) + Len(d) + k] = e[k]
<1>1. PICK v : v = f \o d
  OBVIOUS
<1>2. /\ v \in Seq(S) /\ Len(v) = Len(f) + Len(d)
      /\ \A k \in 1 .. Len(f) + Len(d) : v[k] = IF k <= Len(f) THEN f[k] ELSE d[k - Len(f)]
  BY <1>1, ConcatProperties
<1>3. /\ u \in Seq(S) /\ Len(u) = Len(v) + Len(e)
      /\ \A k \in 1 .. Len(v) + Len(e) : u[k] = IF k <= Len(v) THEN v[k] ELSE e[k - Len(v)]
  <2>1. u = v \o e
    BY <1>1
  <2>2. v \in Seq(S)
    BY <1>2
  <2>3. /\ v \o e \in Seq(S) /\ Len(v \o e) = Len(v) + Len(e)
        /\ \A k \in 1 .. Len(v) + Len(e) :
             (v \o e)[k] = IF k <= Len(v) THEN v[k] ELSE e[k - Len(v)]
    BY <2>2, ConcatProperties, Zenon
  <2> QED
    BY <2>1, <2>3, Zenon
<1>4. PICK l \in Nat, m \in Nat, n \in Nat : l = Len(f) /\ m = Len(d) /\ n = Len(e)
  BY LenProperties
<1>5. \A k \in 1 .. l : u[k] = f[k]
  BY <1>2, <1>3, <1>4
<1>6. ASSUME NEW k \in 1 .. m
      PROVE  u[l + k] = d[k]
  <2>1. l + k \in 1 .. l + m /\ ~(l + k <= l) /\ (l + k) - l = k /\ l + k \in 1 .. (l + m) + n
    BY <1>4
  <2> QED
    BY <1>2, <1>3, <1>4, <2>1
<1>7. ASSUME NEW k \in 1 .. n
      PROVE  u[l + m + k] = e[k]
  <2>1. /\ l + m + k \in 1 .. (l + m) + n /\ ~(l + m + k <= l + m) /\ (l + m + k) - (l + m) = k
    BY <1>4
  <2> QED
    BY <1>2, <1>3, <1>4, <2>1
<1> QED
  BY <1>2, <1>3, <1>4, <1>5, <1>6, <1>7

\* The characters of a number stand between two places.
Stands(u, i, j, n) ==
  j = i + Len(Decimal[n]) /\ \A k \in 1 .. Len(Decimal[n]) : u[i + k] = Decimal[n][k]

\* Where the characters of a bit's number stand, the parser reads the bit.
LEMMA BitIsRead ==
  ASSUME NEW u, NEW i \in Nat, NEW n \in Bit, NEW j, Stands(u, i, j, n)
  PROVE  NumberMod(u, i, j) = n
<1>1. n \in Nat /\ n < Unsigned /\ Unsigned \in Nat
  BY WidthAssumption DEF Bit
<1>2. NumberUpTo(u, i)[j] = n
  BY <1>1, DecimalIsRead DEF Stands
<1>3. n % Unsigned = n
  BY <1>1
<1> QED
  BY <1>2, <1>3 DEF NumberMod

\* Where bscnl_emit() appends the range, and what it leaves in the buffer.
Place(i) == (text = << >> => i = 0) /\ (text # << >> => i = Len(text) + 1)
Emitted(u, bot, top) == u = bscnl_emit(bot, top)

\* What bscnl_emit() appends is an item with the range, after a comma if it is not the first.
LEMMA EmitReads ==
  ASSUME text \in Seq(Chars), NEW bot \in Bit, NEW top \in Bit, bot <= top,
         NEW u, Emitted(u, bot, top), NEW i \in Nat, Place(i)
  PROVE  /\ u \in Seq(Chars) /\ i < Len(u)
         /\ text # << >> => Begins(text, u)
         /\ \A k \in i + 1 .. Len(u) : u[k] \in DigitChars \cup {"-"}
         /\ u[Len(u)] \in DigitChars
         /\ LET item == << i, Len(u) + 1 >>
            IN  BottomMod(u, item) = bot /\ TopMod(u, item) = top /\ ~MalformedMod(u, item)
<1>1. bot \in Nat /\ top \in Nat
  BY WidthAssumption DEF Bit
<1> DEFINE f == IF text = << >> THEN text ELSE Append(text, Separator)
           d == Decimal[bot]
           e == IF bot = top THEN << >> ELSE << "-" >> \o Decimal[top]
<1>2. u = f \o d \o e
  BY DEF bscnl_emit, Emitted
<1>3. /\ f \in Seq(Chars) /\ Len(f) = i
      /\ text # << >> => /\ i = Len(text) + 1 /\ f[i] = Separator
                         /\ \A k \in 1 .. Len(text) : f[k] = text[k]
  <2>1. CASE text = << >>
    BY <2>1 DEF Place
  <2>2. CASE text # << >>
    <3>1. Separator \in Chars
      BY DEF Chars
    <3> QED
      BY <2>2, <3>1, AppendProperties, LenProperties DEF Place
  <2> QED
    BY <2>1, <2>2
<1>4. /\ DigitChars \subseteq Chars /\ "-" \in Chars
      /\ \A n \in Nat : /\ Decimal[n] \in Seq(Chars) /\ Len(Decimal[n]) \in Nat \ {0}
                        /\ \A k \in 1 .. Len(Decimal[n]) : Decimal[n][k] \in DigitChars
  <2>1. DigitChars \subseteq Chars /\ "-" \in Chars
    BY DigitAssumption DEF Chars
  <2>2. ASSUME NEW n \in Nat
        PROVE  /\ Decimal[n] \in Seq(Chars) /\ Len(Decimal[n]) \in Nat \ {0}
               /\ \A k \in 1 .. Len(Decimal[n]) : Decimal[n][k] \in DigitChars
    <3>1. Decimal[n] \in Seq(DigitChars) /\ Decimal[n] # << >>
      BY DecimalIsDigits
    <3>2. Decimal[n] \in Seq(Chars)
      BY <2>1, <3>1, SeqMonotonic
    <3>3. Len(Decimal[n]) \in Nat \ {0}
      BY <3>1, EmptySeq
    <3>4. \A k \in 1 .. Len(Decimal[n]) : Decimal[n][k] \in DigitChars
      BY <3>1, ElementOfSeq
    <3> QED
      BY <3>2, <3>3, <3>4
  <2> QED
    BY <2>1, <2>2
<1>5. PICK l \in Nat \ {0} : l = Len(d)
  BY <1>1, <1>4
<1>6. d \in Seq(Chars) /\ \A k \in 1 .. l : d[k] \in DigitChars
  BY <1>1, <1>4, <1>5
<1>7. CASE bot = top
  <2>1. e = << >> /\ e \in Seq(Chars) /\ Len(e) = 0
    BY <1>7, EmptySeq
  <2> HIDE DEF f, d, e
  <2>2. /\ u \in Seq(Chars) /\ Len(u) = i + l
        /\ \A k \in 1 .. i : u[k] = f[k]
        /\ \A k \in 1 .. l : u[i + k] = d[k]
    <3>1. /\ u \in Seq(Chars) /\ Len(u) = Len(f) + Len(d) + Len(e)
          /\ \A k \in 1 .. Len(f) : u[k] = f[k]
          /\ \A k \in 1 .. Len(d) : u[Len(f) + k] = d[k]
      <4>1. f \in Seq(Chars) /\ d \in Seq(Chars) /\ e \in Seq(Chars)
        BY <1>3, <1>6, <2>1
      <4> QED
        BY <1>2, <4>1, Parts
    <3> QED
      BY <1>3, <1>5, <2>1, <3>1
  <2>3. \A k \in i + 1 .. i + l : u[k] \in DigitChars
    <3>1. ASSUME NEW k \in i + 1 .. i + l
          PROVE  u[k] \in DigitChars
      <4>1. k - i \in 1 .. l /\ i + (k - i) = k
        BY <1>3
      <4>2. u[i + (k - i)] = d[k - i] /\ d[k - i] \in DigitChars
        BY <1>6, <2>2, <4>1
      <4> QED
        BY <4>1, <4>2
    <3> QED
      BY <3>1
  <2>4. ItemChars(u, i, i + l) /\ NoDash(u, i, i + l)
    BY <2>3, CharsDiffer DEF ItemChars, NoDash
  <2>5. NumberMod(u, i, i + l) = bot
    <3>1. Stands(u, i, i + l, bot)
      BY <1>5, <2>2 DEF Stands, d
    <3>2. NumberMod(u, i, i + l) = bot
      BY <3>1, BitIsRead
    <3> QED
      BY <3>2
  <2>6. LET item == << i, Len(u) + 1 >>
        IN  BottomMod(u, item) = bot /\ TopMod(u, item) = top /\ ~MalformedMod(u, item)
    <3>1. i + l \in Nat /\ i <= i + l
      BY <1>3
    <3>2. LET item == << i, i + l + 1 >>
          IN  BottomMod(u, item) = bot /\ TopMod(u, item) = bot /\ ~MalformedMod(u, item)
      BY <1>3, <2>4, <2>5, <3>1, NumberItem
    <3> QED
      BY <1>7, <2>2, <3>2
  <2>7. i + l \in i + 1 .. i + l /\ i < i + l
    BY <1>3
  <2>8. text # << >> => Begins(text, u)
    BY <1>3, <2>2, <2>7 DEF Begins
  <2> QED
    BY <1>3, <2>2, <2>3, <2>6, <2>7, <2>8
<1>8. CASE bot # top
  <2> DEFINE g == Decimal[top]
  <2>1. PICK m \in Nat \ {0} : m = Len(g)
    BY <1>1, <1>4
  <2>2. g \in Seq(Chars) /\ \A k \in 1 .. m : g[k] \in DigitChars
    BY <1>1, <1>4, <2>1
  <2>3. e = << "-" >> \o g
    BY <1>8
  <2> HIDE DEF f, d, e, g
  <2>4. << "-" >> \in Seq(Chars) /\ Len(<< "-" >>) = 1 /\ << "-" >>[1] = "-"
    BY <1>4
  <2>5. e \in Seq(Chars) /\ Len(e) = 1 + m /\ e[1] = "-" /\ \A k \in 1 .. m : e[1 + k] = g[k]
    <3>1. PICK h : h = << "-" >>
      OBVIOUS
    <3>2. /\ e \in Seq(Chars) /\ Len(e) = 1 + m
          /\ \A k \in 1 .. 1 + m : e[k] = IF k <= 1 THEN h[k] ELSE g[k - 1]
      BY <2>1, <2>2, <2>3, <2>4, <3>1, ConcatProperties
    <3>3. e[1] = "-"
      BY <2>4, <3>1, <3>2
    <3>4. ASSUME NEW k \in 1 .. m
          PROVE  e[1 + k] = g[k]
      <4>1. 1 + k \in 1 .. 1 + m /\ ~(1 + k <= 1) /\ (1 + k) - 1 = k
        OBVIOUS
      <4> QED
        BY <3>2, <4>1
    <3> QED
      BY <3>2, <3>3, <3>4
  <2>6. /\ u \in Seq(Chars) /\ Len(u) = i + l + (1 + m)
        /\ \A k \in 1 .. i : u[k] = f[k]
        /\ \A k \in 1 .. l : u[i + k] = d[k]
        /\ \A k \in 1 .. 1 + m : u[i + l + k] = e[k]
    <3>1. /\ u \in Seq(Chars) /\ Len(u) = Len(f) + Len(d) + Len(e)
          /\ \A k \in 1 .. Len(f) : u[k] = f[k]
          /\ \A k \in 1 .. Len(d) : u[Len(f) + k] = d[k]
          /\ \A k \in 1 .. Len(e) : u[Len(f) + Len(d) + k] = e[k]
      <4>1. f \in Seq(Chars) /\ d \in Seq(Chars) /\ e \in Seq(Chars)
        BY <1>3, <1>6, <2>5
      <4> QED
        BY <1>2, <4>1, Parts
    <3> QED
      BY <1>3, <1>5, <2>5, <3>1
  <2>7. PICK j \in Nat : j = i + l + 1
    <3>1. i + l + 1 \in Nat
      BY <1>3
    <3> QED
      BY <3>1
  <2>8. PICK n \in Nat : n = j + m
    OBVIOUS
  <2>9. u[j] = "-"
    BY <1>3, <2>5, <2>6, <2>7, <2>8
  <2>10. \A k \in i + 1 .. i + l : u[k] \in DigitChars
    <3>1. ASSUME NEW k \in i + 1 .. i + l
          PROVE  u[k] \in DigitChars
      <4>1. k - i \in 1 .. l /\ i + (k - i) = k
        BY <1>3
      <4>2. u[i + (k - i)] = d[k - i] /\ d[k - i] \in DigitChars
        BY <1>6, <2>6, <4>1
      <4> QED
        BY <4>1, <4>2
    <3> QED
      BY <3>1
  <2>11. \A k \in 1 .. m : u[j + k] = g[k]
    <3>1. ASSUME NEW k \in 1 .. m
          PROVE  u[j + k] = g[k]
      <4>1. 1 + k \in 1 .. 1 + m /\ i + l + (1 + k) = j + k
        BY <1>3, <2>7, <2>8
      <4>2. u[i + l + (1 + k)] = e[1 + k]
        BY <2>6, <4>1
      <4> QED
        BY <2>5, <4>1, <4>2
    <3> QED
      BY <3>1
  <2>12. \A k \in j + 1 .. n : u[k] \in DigitChars
    <3>1. ASSUME NEW k \in j + 1 .. n
          PROVE  u[k] \in DigitChars
      <4>1. k - j \in 1 .. m /\ j + (k - j) = k
        BY <1>3, <2>7, <2>8
      <4>2. u[j + (k - j)] = g[k - j] /\ g[k - j] \in DigitChars
        BY <2>2, <2>11, <4>1
      <4> QED
        BY <4>1, <4>2
    <3> QED
      BY <3>1
  <2>13. /\ n = Len(u) /\ j \in i + 1 .. n /\ n \in j + 1 .. n /\ i + 1 \in i + 1 .. j
         /\ i + 1 \in i + 1 .. i + l /\ j - 1 = i + l
    BY <1>3, <2>6, <2>7, <2>8
  <2>14. \A k \in i + 1 .. n : u[k] \in DigitChars \/ (k = j /\ u[k] = "-")
    BY <1>3, <2>7, <2>8, <2>9, <2>10, <2>12
  <2>15. ItemChars(u, i, n) /\ OneDash(u, i, j, n)
    BY <2>9, <2>10, <2>13, <2>14, CharsDiffer DEF ItemChars, OneDash
  <2>16. NumberMod(u, i, j - 1) = bot
    <3>1. Stands(u, i, i + l, bot)
      BY <1>5, <2>6 DEF Stands, d
    <3>2. NumberMod(u, i, i + l) = bot
      BY <3>1, BitIsRead
    <3> QED
      BY <2>13, <3>2
  <2>17. NumberMod(u, j, n) = top
    <3>1. Stands(u, j, n, top)
      BY <2>1, <2>8, <2>11 DEF Stands, g
    <3> QED
      BY <3>1, BitIsRead
  <2>18. LET item == << i, Len(u) + 1 >>
         IN  BottomMod(u, item) = bot /\ TopMod(u, item) = top /\ ~MalformedMod(u, item)
    <3>1. /\ BottomMod(u, << i, n + 1 >>) = NumberMod(u, i, j - 1)
          /\ TopMod(u, << i, n + 1 >>) = NumberMod(u, j, n)
          /\ MalformedMod(u, << i, n + 1 >>) <=> NumberMod(u, i, j - 1) > NumberMod(u, j, n)
      <4>1. j \in i + 1 .. n
        BY <2>13
      <4> QED
        BY <2>15, <4>1, RangeItem, Zenon
    <3>2. ~(bot > top)
      BY <1>1
    <3> QED
      BY <2>13, <2>16, <2>17, <3>1, <3>2
  <2>19. ASSUME text # << >>
         PROVE  Begins(text, u)
    <3>1. PICK p \in Nat : p = Len(text)
      OBVIOUS
    <3>2. i = p + 1 /\ f[i] = Separator /\ \A k \in 1 .. p : f[k] = text[k]
      BY <1>3, <2>19, <3>1
    <3>3. p + 1 < n /\ n = Len(u) /\ i \in 1 .. i /\ \A k \in 1 .. p : k \in 1 .. i
      BY <2>7, <2>8, <2>13, <3>2
    <3>4. u[i] = Separator /\ \A k \in 1 .. p : u[k] = text[k]
      BY <2>6, <3>2, <3>3
    <3> QED
      BY <3>1, <3>2, <3>3, <3>4, Zenon DEF Begins
  <2>20. i < n
    BY <1>3, <2>7, <2>8
  <2> QED
    BY <1>3, <2>6, <2>12, <2>13, <2>14, <2>18, <2>19, <2>20
<1> QED
  BY <1>7, <1>8

-----------------------------------------------------------------------------
\* A text that has been printed so far: the list of the bits of m, which may be continued.
Shows(t, m) ==
  /\ t \in Seq(Chars) /\ \A k \in 1 .. Len(t) : t[k] # Blank
  /\ t = << >> => m = {}
  /\ t # << >> => /\ t[Len(t)] # Separator
                  /\ \A item \in Items(t) : Good(t, item)
                  /\ MaskMod(t) = m

\* A range that is appended is shown, too.
LEMMA EmitShows ==
  ASSUME NEW m, Shows(text, m), NEW bot \in Bit, NEW top \in Bit, bot <= top,
         NEW u, Emitted(u, bot, top)
  PROVE  u # << >> /\ Shows(u, m \cup bot .. top)
<1>1. text \in Seq(Chars) /\ Len(text) \in Nat
  BY DEF Shows
<1>2. PICK i \in Nat : Place(i)
  <2>1. CASE text = << >>
    <3>1. 0 \in Nat
      OBVIOUS
    <3> QED
      BY <2>1, <3>1, Zenon DEF Place
  <2>2. CASE text # << >>
    <3>1. Len(text) + 1 \in Nat
      BY <1>1
    <3> QED
      BY <2>2, <3>1, Zenon DEF Place
  <2> QED
    BY <2>1, <2>2
<1>3. /\ u \in Seq(Chars) /\ i < Len(u)
      /\ text # << >> => Begins(text, u)
      /\ \A k \in i + 1 .. Len(u) : u[k] \in DigitChars \cup {"-"}
      /\ u[Len(u)] \in DigitChars
      /\ LET item == << i, Len(u) + 1 >>
         IN  BottomMod(u, item) = bot /\ TopMod(u, item) = top /\ ~MalformedMod(u, item)
  BY <1>1, <1>2, EmitReads
<1>4. PICK n \in Nat : n = Len(u)
  BY <1>3, LenProperties
<1>5. PICK item : item = << i, n + 1 >>
  OBVIOUS
<1>6. BottomMod(u, item) = bot /\ TopMod(u, item) = top /\ Good(u, item)
  <2>1. BottomMod(u, item) = bot /\ TopMod(u, item) = top /\ ~MalformedMod(u, item)
    BY <1>3, <1>4, <1>5
  <2>2. top < nmaskbits
    BY WidthAssumption DEF Bit
  <2> QED
    BY <2>1, <2>2 DEF Good
<1>7. u # << >> /\ u[n] # Separator
  BY <1>3, <1>4, CharsDiffer
<1>8. \A k \in 1 .. n : u[k] # Blank
  <2>1. ASSUME NEW k \in 1 .. n
        PROVE  u[k] # Blank
    <3>1. CASE k >= i + 1
      BY <1>3, <1>4, <3>1, CharsDiffer
    <3>2. CASE ~(k >= i + 1)
      <4>1. text # << >> /\ k \in 1 .. Len(text) + 1
        BY <1>1, <1>2, <1>3, <3>2 DEF Place
      <4>2. k = Len(text) + 1 => u[k] # Blank
        BY <1>3, <4>1, CharsDiffer DEF Begins
      <4>3. k # Len(text) + 1 => u[k] # Blank
        <5>1. k # Len(text) + 1 => k \in 1 .. Len(text)
          BY <1>1, <4>1
        <5> QED
          BY <1>3, <4>1, <5>1 DEF Begins, Shows
      <4> QED
        BY <4>2, <4>3
    <3> QED
      BY <1>3, <3>1, <3>2
  <2> QED
    BY <2>1
<1>9. Items(u) = DoneBy(u, i) \cup {item}
  <2>1. IsStart(u, i) /\ IsEnd(u, n + 1)
    BY <1>1, <1>2, <1>3, <1>4 DEF IsStart, IsEnd, Begins, Place
  <2>2. i <= n /\ n <= Len(u) /\ \A k \in i + 1 .. n : u[k] # Separator
    BY <1>3, <1>4, CharsDiffer
  <2>3. DoneBy(u, n + 1) = DoneBy(u, i) \cup {item}
    BY <1>3, <1>5, <2>1, <2>2, ItemEnds
  <2>4. n + 1 \in Nat /\ n + 1 = Len(u) + 1
    BY <1>4
  <2>5. DoneBy(u, n + 1) = Items(u)
    BY <1>3, <2>4, AllDone
  <2> QED
    BY <2>3, <2>5
<1>10. CASE text = << >>
  <2>1. i = 0 /\ m = {}
    BY <1>2, <1>10 DEF Shows, Place
  <2>2. Items(u) = {item}
    BY <1>3, <1>9, <2>1, NoneDone
  <2>3. MaskMod(u) = bot .. top
    BY <1>6, <2>2 DEF MaskMod
  <2> QED
    BY <1>3, <1>4, <1>6, <1>7, <1>8, <2>1, <2>2, <2>3 DEF Shows
<1>11. CASE text # << >>
  <2>1. i = Len(text) + 1 /\ Begins(text, u)
    BY <1>2, <1>3, <1>11 DEF Place
  <2>2. DoneBy(u, i) = Items(text)
    BY <1>1, <1>3, <1>11, <2>1, ItemsStay DEF Shows
  <2>3. ASSUME NEW other \in Items(text)
        PROVE  /\ BottomMod(u, other) = BottomMod(text, other)
               /\ TopMod(u, other) = TopMod(text, other)
               /\ Good(u, other)
    <3>1. PICK p \in Nat, q \in Nat : other = << p, q >>
      BY <1>1, ItemPlaces
    <3>2. IsEnd(text, q) /\ p < q
      BY <1>1, <3>1, ItemPlaces
    <3>3. q <= Len(text) + 1
      BY <1>1, <3>2 DEF IsEnd
    <3>4. PICK l \in Nat : l = q - 1
      BY <3>2
    <3>5. p <= l /\ q = l + 1 /\ \A k \in p + 1 .. l : k \in 1 .. Len(text)
      BY <1>1, <3>2, <3>3, <3>4
    <3>6. \A k \in p + 1 .. l : u[k] = text[k]
      BY <2>1, <3>5 DEF Begins
    <3>7. /\ BottomMod(u, other) = BottomMod(text, other) /\ TopMod(u, other) = TopMod(text, other)
          /\ MalformedMod(u, other) => MalformedMod(text, other)
      BY <3>1, <3>5, <3>6, ItemAgrees
    <3>8. Good(text, other)
      BY <1>11 DEF Shows
    <3> QED
      BY <3>7, <3>8 DEF Good
  <2>4. \A other \in Items(u) : Good(u, other)
    BY <1>6, <1>9, <2>2, <2>3
  <2>5. MaskMod(u) = MaskMod(text) \cup bot .. top
    BY <1>6, <1>9, <2>2, <2>3 DEF MaskMod
  <2>6. MaskMod(text) = m
    BY <1>11, Zenon DEF Shows
  <2> QED
    BY <1>3, <1>4, <1>7, <1>8, <2>4, <2>5, <2>6 DEF Shows
<1> QED
  BY <1>10, <1>11

\* What bitmap_scnlistprintf() has printed: the bits before rbot; and from rbot to cur
\* there is no gap.
PrintInv ==
  ret = "print" =>
    /\ rbot = -1 => text = << >>
    /\ rbot # -1 => /\ Shows(text, {i \in mask : i < rbot})
                    /\ rbot <= cur /\ \A i \in rbot .. cur : i < nmaskbits => i \in mask
                    /\ cur = nmaskbits => rbot = nmaskbits

\* The text lists the bits of a mask that has been printed.
RoundInv ==
  mask \notin {NoMask, {}} => /\ ret # "idle"
                              /\ ret # "print" => Shows(text, mask) /\ text # << >>

\* Every step keeps what was printed so far, until it is read again (544-595).
LEMMA PrintStep ==
  ASSUME ListInv, PrintInv, RoundInv, Next
  PROVE  PrintInv' /\ RoundInv'
<1>1. nmaskbits \in Nat \ {0} /\ cur \in 0 .. nmaskbits /\ rbot \in -1 .. nmaskbits
      /\ (ret = "print" => mask \subseteq Bit)
  BY WidthAssumption DEF ListInv, ListTypeInv, TypeOK
<1>2. CASE FirstBit
  <2>1. /\ ret = "print" /\ ret' = "print" /\ text' = text /\ mask' = mask /\ rbot = -1
        /\ cur' = find_next_bit(mask, nmaskbits, 0) /\ rbot' = cur'
    BY <1>2 DEF FirstBit, find_first_bit
  <2>2. /\ cur' \in 0 .. nmaskbits /\ (cur' < nmaskbits => cur' \in mask)
        /\ \A i \in mask : i >= 0 => cur' <= i
    BY <1>1, <2>1, FindNextBit
  <2>3. {i \in mask : i < rbot'} = {}
    BY <1>1, <2>1, <2>2 DEF Bit
  <2>4. Shows(<< >>, {})
    <3>1. << >> \in Seq(Chars) /\ Len(<< >>) = 0
      BY EmptySeq
    <3> QED
      BY <3>1 DEF Shows
  <2>5. text = << >>
    BY <2>1 DEF PrintInv
  <2>6. Shows(text', {i \in mask' : i < rbot'})
    BY <2>1, <2>3, <2>4, <2>5
  <2>7. rbot' <= cur' /\ \A i \in rbot' .. cur' : i < nmaskbits => i \in mask'
    BY <1>1, <2>1, <2>2
  <2> QED
    BY <1>1, <2>1, <2>2, <2>6, <2>7 DEF PrintInv, RoundInv
<1>3. CASE NextBit
  <2>1. /\ ret = "print" /\ ret' = "print" /\ mask' = mask /\ rbot # -1 /\ cur < nmaskbits
        /\ cur' = find_next_bit(mask, nmaskbits, cur + 1)
    BY <1>3 DEF NextBit
  <2>2. /\ cur' \in cur + 1 .. nmaskbits /\ (cur' < nmaskbits => cur' \in mask)
        /\ \A i \in mask : i >= cur + 1 => cur' <= i
    <3>1. cur + 1 \in Nat /\ cur + 1 <= nmaskbits
      BY <1>1, <2>1
    <3> QED
      BY <1>1, <2>1, <3>1, FindNextBit
  <2>3. /\ Shows(text, {i \in mask : i < rbot})
        /\ rbot <= cur /\ \A i \in rbot .. cur : i < nmaskbits => i \in mask
    BY <2>1, Zenon DEF PrintInv
  <2>4. CASE rbot' = cur' /\ text' = bscnl_emit(rbot, cur)
    <3>1. rbot \in Bit /\ cur \in Bit
      BY <1>1, <2>1, <2>3 DEF Bit
    <3>2. Shows(text', {i \in mask : i < rbot} \cup rbot .. cur)
      BY <2>3, <2>4, <3>1, EmitShows DEF Emitted
    <3>3. {i \in mask : i < rbot} \cup rbot .. cur = {i \in mask' : i < rbot'}
      <4>1. \A i \in mask : i \in Nat
        BY <1>1, <2>1 DEF Bit
      <4>2. \A i \in rbot .. cur : i \in mask /\ i < cur'
        BY <1>1, <2>1, <2>2, <2>3
      <4>3. \A i \in mask : i < cur' => i < rbot \/ i \in rbot .. cur
        BY <1>1, <2>1, <2>2, <2>3, <4>1
      <4>4. \A i \in mask : i < rbot => i < cur'
        BY <1>1, <2>1, <2>2, <2>3, <4>1
      <4> QED
        BY <2>1, <2>4, <4>2, <4>3, <4>4
    <3>4. rbot' <= cur' /\ \A i \in rbot' .. cur' : i < nmaskbits => i \in mask'
      BY <1>1, <2>1, <2>2, <2>4
    <3>5. Shows(text', {i \in mask' : i < rbot'})
      BY <3>2, <3>3, Zenon
    <3>6. rbot' # -1 /\ (cur' = nmaskbits => rbot' = nmaskbits)
      BY <1>1, <2>1, <2>2, <2>4
    <3>7. PrintInv'
      BY <3>4, <3>5, <3>6, Zenon DEF PrintInv
    <3> QED
      BY <2>1, <3>7 DEF RoundInv
  <2>5. CASE cur' < nmaskbits /\ cur' = cur + 1 /\ UNCHANGED << text, rbot >>
    <3>1. rbot' <= cur' /\ \A i \in rbot' .. cur' : i < nmaskbits => i \in mask'
      BY <1>1, <2>1, <2>2, <2>3, <2>5
    <3> QED
      BY <1>1, <2>1, <2>3, <2>5, <3>1 DEF PrintInv, RoundInv
  <2> QED
    BY <1>3, <2>4, <2>5 DEF NextBit
<1>4. CASE Printed
  <2>1. /\ ret = "print" /\ ret' = "parse" /\ mask' = mask /\ text' = text
        /\ rbot # -1 /\ cur = nmaskbits
    BY <1>1, <1>4 DEF Printed, printVars
  <2>2. rbot = nmaskbits /\ Shows(text, {i \in mask : i < rbot})
    BY <2>1, Zenon DEF PrintInv
  <2>3. {i \in mask : i < rbot} = mask
    BY <1>1, <2>1, <2>2 DEF Bit
  <2>4. mask # {} => text # << >>
    BY <2>2, <2>3 DEF Shows
  <2> QED
    BY <2>1, <2>2, <2>3, <2>4 DEF PrintInv, RoundInv
<1>5. CASE Space \/ EmbeddedSpace \/ Dash \/ BadDash \/ BadChar \/ Digit \/ Comma \/ EndOfText
  <2>1. ret = "parse" /\ text' = text /\ mask' = mask
    BY <1>5 DEF Space, EmbeddedSpace, Dash, BadDash, BadChar, Digit, Comma, EndOfText, ReadJoined,
                Read, More, printVars
  <2>2. ret' \notin {"print", "idle"}
    <3>1. ASSUME NEW goesOn, EndItem(goesOn)
          PROVE  ret' \notin {"print", "idle"}
      BY <3>1 DEF EndItem, Error
    <3> QED
      BY <1>5, <2>1, <3>1 DEF Space, EmbeddedSpace, Dash, BadDash, BadChar, Digit, Comma, EndOfText,
                              Error
  <2> QED
    BY <2>1, <2>2 DEF PrintInv, RoundInv
<1> QED
  BY <1>2, <1>3, <1>4, <1>5 DEF Next

\* So the text is accepted, and makes the mask again.
LEMMA RoundTripHolds ==
  ASSUME ListInv, RoundInv
  PROVE  RoundTripNonEmpty
<1> SUFFICES ASSUME mask # {}, mask # NoMask, ret \notin {"print", "parse"}
             PROVE  ret = "0" /\ maskp = mask
  BY DEF RoundTripNonEmpty, RoundTrip
<1>1. Shows(text, mask) /\ text # << >> /\ ret # "idle"
  BY Zenon DEF RoundInv
<1>2. /\ text \in Seq(Chars) /\ Len(text) \in Nat /\ \A k \in 1 .. Len(text) : text[k] # Blank
      /\ \A item \in Items(text) : Good(text, item)
      /\ MaskMod(text) = mask
  BY <1>1, LenProperties, Zenon DEF Shows
<1>3. ~BlankInside(text)
  BY <1>2 DEF BlankInside
<1>4. WellFormedMod(text) /\ FitsMod(text)
  BY <1>2, <1>3 DEF WellFormedMod, FitsMod, Good
<1> QED
  BY <1>1, <1>2, <1>4 DEF ListInv, ListTypeInv, TypeOK, ParsesMod

-----------------------------------------------------------------------------
\* The types of the options.
OptionTypes ==
  /\ argv \in CommandLines \cup {NoCommand}
  /\ optind \in 1 .. Len(argv.options) + 1
  /\ ppn \in 0 .. (IntSpan \div 2) - 1 /\ tpp \in 0 .. (IntSpan \div 2) - 1
  /\ verbose \in BOOLEAN
  /\ pc \in {"options", "exclude", "failed", "running"}

\* Every option keeps the types.
LEMMA OptionTypesStep ==
  ASSUME OptionTypes, CommandNext
  PROVE  OptionTypes'
<1>1. Len(argv.options) \in Nat /\ optind \in 1 .. Len(argv.options) + 1
  BY OptionsAreSeq DEF OptionTypes
<1>2. ASSUME NEW chars, Take(chars)
      PROVE  /\ argv' = argv /\ optind' \in 1 .. Len(argv'.options) + 1
             /\ Returned(Option.name) \in chars /\ optind \in 1 .. Len(argv.options)
  BY <1>1, <1>2 DEF Take
<1>3. ASSUME NEW chars, Take(chars), Returned(Option.name) \in {"p", "n", "t"}, Valid(Option.arg)
      PROVE  int(Option.arg.value) \in 0 .. (IntSpan \div 2) - 1
  <2>1. Option.arg \in [value : Int, rest : BOOLEAN]
    BY <1>2, <1>3, OptionsAreSeq DEF OptionTypes, Option
  <2>2. PICK n \in Int : n = Option.arg.value
    BY <2>1
  <2>3. int(n) \in Int /\ int(n) <= (IntSpan \div 2) - 1
    BY IntRange
  <2>4. int(n) > 0
    BY <1>3, <2>2 DEF Valid
  <2>5. IntSpan \div 2 \in Int
    BY CommandLineAssumption
  <2> QED
    BY <2>2, <2>3, <2>4, <2>5
<1>4. CASE \/ pc \in {"exclude", "running"} /\ Next /\ UNCHANGED commandVars
           \/ Excluded \/ SanityChecks
  BY <1>4 DEF OptionTypes, commandVars, Excluded, SanityChecks
<1>5. CASE ProcessesPerNode
  BY <1>2, <1>3, <1>5 DEF ProcessesPerNode, OptionTypes
<1>6. CASE ThreadsPerProcess
  BY <1>2, <1>3, <1>6 DEF ThreadsPerProcess, OptionTypes
<1>7. CASE BadNumber \/ Usage
  BY <1>2, <1>7 DEF BadNumber, Usage, Exit, OptionTypes
<1>8. CASE ExcludeCpus \/ Verbose
  BY <1>2, <1>8 DEF ExcludeCpus, Verbose, OptionTypes
<1> QED
  BY <1>4, <1>5, <1>6, <1>7, <1>8 DEF CommandNext

\* What the invariants of CpuList say, and that no mask is printed before the program runs.
ProgramInv ==
  /\ OptionTypes
  /\ ListInv /\ PrintInv /\ RoundInv
  /\ pc # "running" => mask = NoMask

\* The program starts with nothing read and nothing printed.
LEMMA ProgramStarts ==
  ASSUME CommandInit
  PROVE  ProgramInv
<1>1. OptionTypes
  <2>1. IntSpan \div 2 \in Nat /\ IntSpan \div 2 > 0
    BY CommandLineAssumption
  <2>2. argv \in CommandLines \cup {NoCommand}
    BY DEF CommandInit
  <2>3. Len(argv.options) \in Nat
    BY <2>2, OptionsAreSeq
  <2>4. optind \in 1 .. Len(argv.options) + 1
    BY <2>3 DEF CommandInit
  <2>5. ppn \in 0 .. (IntSpan \div 2) - 1 /\ tpp \in 0 .. (IntSpan \div 2) - 1
    BY <2>1 DEF CommandInit
  <2>6. verbose \in BOOLEAN /\ pc \in {"options", "exclude", "failed", "running"}
    BY DEF CommandInit
  <2> QED
    BY <2>2, <2>4, <2>5, <2>6, Zenon DEF OptionTypes
<1>2. Locals /\ Starting /\ rbot = -1
  BY DEF CommandInit, Init, Locals, Starting
<1>3. /\ text \in Seq(Chars) /\ (mask = NoMask \/ mask \subseteq Bit)
      /\ ret \in {"idle", "print", "parse"} /\ (mask = NoMask => ret # "print")
      /\ ret = "print" => text = << >>
      /\ ret = "idle" => mask = NoMask
      /\ pc # "running" => mask = NoMask
  <2>1. CASE text \in Texts /\ mask = NoMask /\ ret = "parse"
    <3>1. text \in Seq(STRING) /\ STRING \subseteq Chars
      BY <2>1, TextAssumption DEF Chars
    <3>2. text \in Seq(Chars)
      BY <3>1, SeqMonotonic
    <3> QED
      BY <2>1, <3>2
  <2>2. CASE text = << >> /\ mask \in SUBSET Bit /\ ret = "print" /\ pc = "running"
    <3>1. mask # NoMask
      <4>1. -1 \notin Bit
        BY DEF Bit
      <4> QED
        BY <2>2, <4>1 DEF NoMask
    <3> QED
      BY <2>2, <3>1, EmptySeq
  <2>3. CASE text = << >> /\ mask = NoMask /\ ret = "idle"
    BY <2>3, EmptySeq
  <2> QED
    BY <2>1, <2>2, <2>3 DEF CommandInit, Init
<1>4. ListTypeInv
  BY <1>2, <1>3, ListTypesInit
<1>5. ParseInv
  BY <1>2, <1>3, ParseStarts
<1>6. ParsesMod
  BY <1>3 DEF ParsesMod
<1>7. PrintInv
  BY <1>2, <1>3 DEF PrintInv
<1>8. RoundInv
  <2>1. ret = "print" \/ mask = NoMask
    BY DEF CommandInit, Init
  <2> QED
    BY <2>1 DEF RoundInv
<1> QED
  BY <1>1, <1>2, <1>3, <1>4, <1>5, <1>6, <1>7, <1>8 DEF ProgramInv, ListInv

\* The options leave the lists alone.
LEMMA ListsStay ==
  ASSUME ListInv, PrintInv, RoundInv, UNCHANGED vars
  PROVE  ListInv' /\ PrintInv' /\ RoundInv' /\ mask' = mask
<1>1. /\ mask' = mask /\ cur' = cur /\ rbot' = rbot /\ text' = text /\ pos' = pos /\ a' = a
      /\ b' = b /\ c' = c /\ totaldigits' = totaldigits /\ exp_digit' = exp_digit
      /\ in_range' = in_range /\ maskp' = maskp /\ ret' = ret
  BY DEF vars, printVars, parseVars, numberVars
<1>2. ListTypeInv'
  BY <1>1 DEF ListInv, ListTypeInv, TypeOK
<1>3. (ret = "print" => Starting)'
  BY <1>1 DEF ListInv, Starting
<1>4. \A i : Reading(i) => Reading(i)'
  BY <1>1, Zenon DEF Reading, InNumber, InRange
<1>5. ParseInv'
  BY <1>1, <1>4, Zenon DEF ListInv, ParseInv, NoBlankInside
<1>6. ParsesMod'
  BY <1>1, Zenon DEF ListInv, ParsesMod
<1>7. PrintInv'
  BY <1>1, Zenon DEF PrintInv
<1>8. RoundInv'
  BY <1>1, Zenon DEF RoundInv
<1> QED
  BY <1>1, <1>2, <1>3, <1>5, <1>6, <1>7, <1>8 DEF ListInv

\* --exclude-cpus starts the parser anew.
LEMMA ExcludeStarts ==
  ASSUME ProgramInv, ExcludeCpus
  PROVE  ListInv' /\ PrintInv' /\ RoundInv' /\ mask' = mask
<1>1. /\ Take({"e"}) /\ text' = Option.arg /\ pos' = 0 /\ c' = Nul /\ totaldigits' = FALSE
      /\ a' = 0 /\ b' = 0 /\ exp_digit' = TRUE /\ in_range' = FALSE
      /\ maskp' = {} /\ ret' = "parse"
      /\ mask' = mask /\ cur' = cur /\ rbot' = rbot
  BY DEF ExcludeCpus, FreshMask, NextItem, printVars
<1>2. mask = NoMask
  BY <1>1 DEF ProgramInv, Take
<1>3. text' \in Seq(Chars) /\ Len(text') \in Nat
  <2>1. optind \in 1 .. Len(argv.options) /\ Returned(Option.name) = "e"
    <3>1. Len(argv.options) \in Nat
      BY OptionsAreSeq DEF ProgramInv, OptionTypes
    <3> QED
      BY <1>1, <3>1 DEF Take, ProgramInv, OptionTypes
  <2>2. text' \in Seq(STRING) /\ STRING \subseteq Chars
    BY <1>1, <2>1, OptionsAreSeq DEF ProgramInv, OptionTypes, Option, Chars
  <2> QED
    BY <2>2, SeqMonotonic, LenProperties
<1>4. ListTypeInv'
  <2>1. nmaskbits \in Nat /\ Unsigned \in Nat \ {0}
    BY WidthAssumption
  <2>2. /\ pos' \in 0 .. Len(text') /\ a' \in 0 .. Unsigned - 1 /\ b' \in 0 .. Unsigned - 1
    BY <1>1, <1>3, <2>1
  <2>3. /\ mask' = NoMask /\ cur' \in 0 .. nmaskbits /\ rbot' \in -1 .. nmaskbits
    BY <1>1, <1>2 DEF ProgramInv, ListInv, ListTypeInv, TypeOK
  <2>4. /\ totaldigits' \in BOOLEAN /\ exp_digit' \in BOOLEAN /\ in_range' \in BOOLEAN
        /\ maskp' \subseteq Bit /\ ret' # "print" /\ ret' \in {"parse"}
    BY <1>1
  <2> QED
    BY <1>3, <2>2, <2>3, <2>4 DEF ListTypeInv, TypeOK
<1>5. Starting'
  BY <1>1 DEF Starting
<1>6. (text \in Seq(Chars) /\ Starting => ParseInv)'
  BY ParseStarts, PTL
<1>7. ParsesMod'
  BY <1>1, GoesOn
<1> QED
  BY <1>1, <1>2, <1>3, <1>4, <1>5, <1>6, <1>7 DEF ListInv, PrintInv, RoundInv

\* Every step of the program keeps all that.
LEMMA ProgramStep ==
  ASSUME ProgramInv, CommandNext
  PROVE  ProgramInv'
<1>1. OptionTypes'
  BY OptionTypesStep DEF ProgramInv
<1>2. (ListInv /\ PrintInv /\ RoundInv)' /\ mask' = mask
  <2>1. CASE Next
    <3>1. mask' = mask
      BY <2>1 DEF Next, FirstBit, NextBit, Printed, Space, EmbeddedSpace, Dash, BadDash, BadChar,
                  Digit, Comma, EndOfText, ReadJoined, Read, printVars
    <3> QED
      BY <2>1, <3>1, ListStep, PrintStep DEF ProgramInv
  <2>2. CASE ExcludeCpus
    BY <2>2, ExcludeStarts
  <2>3. CASE UNCHANGED vars
    BY <2>3, ListsStay DEF ProgramInv
  <2> QED
    BY <2>1, <2>2, <2>3 DEF CommandNext, ProcessesPerNode, ThreadsPerProcess, BadNumber, Exit,
                            Excluded, Verbose, Usage, SanityChecks
<1>3. pc' # "running" => mask' = NoMask
  <2>1. pc = "running" => pc' = "running"
    BY DEF CommandNext, commandVars, ProcessesPerNode, ThreadsPerProcess, BadNumber, ExcludeCpus,
           Excluded, Verbose, Usage, SanityChecks, Take
  <2> QED
    BY <1>2, <2>1 DEF ProgramInv
<1> QED
  BY <1>1, <1>2, <1>3 DEF ProgramInv

\* The invariant of the parser, of printing and of the options' types.
LEMMA ProgramAlways == CommandSpec => []ProgramInv
<1>1. CommandInit => ProgramInv
  BY ProgramStarts
<1>2. ProgramInv /\ [CommandNext]_<< vars, commandVars >> => ProgramInv'
  <2> SUFFICES ASSUME ProgramInv, [CommandNext]_<< vars, commandVars >>
               PROVE  ProgramInv'
    OBVIOUS
  <2>1. CASE CommandNext
    BY <2>1, ProgramStep
  <2>2. CASE UNCHANGED << vars, commandVars >>
    <3>1. UNCHANGED vars /\ UNCHANGED commandVars
      BY <2>2
    <3>2. OptionTypes'
      BY <3>1 DEF ProgramInv, OptionTypes, commandVars
    <3> QED
      BY <3>1, <3>2, ListsStay DEF ProgramInv, commandVars
  <2> QED
    BY <2>1, <2>2
<1> QED
  BY <1>1, <1>2, PTL DEF CommandSpec

\* Whatever the options and texts, the numbers of processes and threads stay in the range of a
\* positive int, and the parser sets no bit beyond the mask (671-678 of bitmap.c, 1152-1204).
THEOREM CommandTypes == CommandSpec => []CommandTypeOK
<1>1. ProgramInv => CommandTypeOK
  BY DEF ProgramInv, OptionTypes, ListInv, ListTypeInv, CommandTypeOK
<1> QED
  BY <1>1, ProgramAlways, PTL

\* A text whose numbers are there, and fit into unsigned, reads the same as the parser does it.
LEMMA ReadableReads ==
  ASSUME NEW t, Readable(t)
  PROVE  /\ WellFormedMod(t) <=> WellFormed(t)
         /\ FitsMod(t) <=> Fits(t)
         /\ MaskMod(t) = MaskOf(t)
<1>1. \A n \in 0 .. Unsigned - 1 : n % Unsigned = n
  BY WidthAssumption
<1>2. ASSUME NEW item \in Items(t)
      PROVE  /\ BottomMod(t, item) = Bottom(t, item) /\ TopMod(t, item) = Top(t, item)
             /\ MalformedMod(t, item) <=> Malformed(t, item)
  <2>1. Bottom(t, item) \in 0 .. Unsigned - 1 /\ Top(t, item) \in 0 .. Unsigned - 1
    BY DEF Readable
  <2>2. /\ BottomMod(t, item) = Bottom(t, item) % Unsigned
        /\ TopMod(t, item) = Top(t, item) % Unsigned
    BY DEF BottomMod, TopMod, NumberMod, Bottom, Top
  <2>3. BottomMod(t, item) = Bottom(t, item) /\ TopMod(t, item) = Top(t, item)
    BY <1>1, <2>1, <2>2
  <2> QED
    BY <2>3, Zenon DEF MalformedMod, Malformed
<1>3. WellFormedMod(t) <=> WellFormed(t)
  BY <1>2, Zenon DEF WellFormedMod, WellFormed
<1>4. FitsMod(t) <=> Fits(t)
  BY <1>2, Zenon DEF FitsMod, Fits
<1>5. MaskMod(t) = MaskOf(t)
  <2>1. {BottomMod(t, item) .. TopMod(t, item) : item \in Items(t)}
          = {Bottom(t, item) .. Top(t, item) : item \in Items(t)}
    BY <1>2
  <2> QED
    BY <2>1, Zenon DEF MaskMod, MaskOf
<1> QED
  BY <1>3, <1>4, <1>5

\* __bitmap_parselist() accepts a text of any length in which no number is missing or too large
\* for unsigned if and only if it is a list of numbers and ranges that fit into a mask of any
\* size, and sets the bits of these and no others (617-680).
THEOREM ListsAreParsed == CommandSpec => []ParsesLists
<1>1. ASSUME ProgramInv
      PROVE  ParsesLists
  <2> SUFFICES ASSUME Readable(text)
               PROVE  /\ ret = "0" => WellFormed(text) /\ Fits(text) /\ maskp = MaskOf(text)
                      /\ ret = "EINVAL" => ~WellFormed(text)
                      /\ ret = "ERANGE" => ~Fits(text)
    BY DEF ParsesLists
  <2>1. ParsesMod
    BY <1>1 DEF ProgramInv, ListInv
  <2> QED
    BY <2>1, ReadableReads, Zenon DEF ParsesMod
<1>2. ProgramInv => ParsesLists
  BY <1>1
<1> QED
  BY <1>2, ProgramAlways, PTL

\* What bitmap_scnlistprintf() writes of any mask but the empty one, __bitmap_parselist() accepts
\* and reads as the same mask, whatever its size and that of a word (544-680).
THEOREM PrintedListsAreParsed == CommandSpec => []RoundTripNonEmpty
<1>1. ProgramInv => RoundTripNonEmpty
  BY RoundTripHolds DEF ProgramInv
<1> QED
  BY <1>1, ProgramAlways, PTL

-----------------------------------------------------------------------------
\* Those of some options that come before another one, and what the last of them says.
Before(options, n, chars) == {k \in 1 .. n - 1 : Returned(options[k].name) \in chars}

PpnBefore(options, n) ==
  IF Before(options, n, {"p", "n"}) = {} THEN 0
  ELSE int(options[Max(Before(options, n, {"p", "n"}))].arg.value)

ExcludedBefore(options, n) ==
  IF Before(options, n, {"e"}) = {} THEN {}
  ELSE MaskMod(options[Max(Before(options, n, {"e"}))].arg)

\* One option more is the last of its kind, and leaves those of other kinds.
LEMMA BeforeNext ==
  ASSUME NEW options, NEW n \in Nat \ {0}, NEW chars
  PROVE  /\ Returned(options[n].name) \in chars =>
              Before(options, n + 1, chars) # {} /\ Max(Before(options, n + 1, chars)) = n
         /\ Returned(options[n].name) \notin chars =>
              Before(options, n + 1, chars) = Before(options, n, chars)
<1>1. 1 .. (n + 1) - 1 = 1 .. n /\ 1 .. n = (1 .. n - 1) \cup {n} /\ n \in 1 .. n
  OBVIOUS
<1>2. ASSUME Returned(options[n].name) \in chars
      PROVE  Before(options, n + 1, chars) # {} /\ Max(Before(options, n + 1, chars)) = n
  <2>1. n \in Before(options, n + 1, chars)
    BY <1>1, <1>2 DEF Before
  <2>2. Before(options, n + 1, chars) \subseteq 1 .. n
    BY <1>1 DEF Before
  <2>3. /\ Before(options, n + 1, chars) \subseteq Int
        /\ \A x \in Before(options, n + 1, chars) : x <= n
    BY <2>2
  <2> QED
    BY <2>1, <2>3, MaxIs
<1>3. Returned(options[n].name) \notin chars =>
        Before(options, n + 1, chars) = Before(options, n, chars)
  BY <1>1 DEF Before
<1> QED
  BY <1>2, <1>3

\* So a number of processes counts until the next one.
LEMMA NumberNext ==
  ASSUME NEW options, NEW n \in Nat \ {0}
  PROVE  PpnBefore(options, n + 1) = IF Returned(options[n].name) \in {"p", "n"}
                                     THEN int(options[n].arg.value) ELSE PpnBefore(options, n)
<1>1. CASE Returned(options[n].name) \in {"p", "n"}
  <2>1. Before(options, n + 1, {"p", "n"}) # {} /\ Max(Before(options, n + 1, {"p", "n"})) = n
    BY <1>1, BeforeNext
  <2> QED
    BY <1>1, <2>1, Zenon DEF PpnBefore
<1>2. CASE Returned(options[n].name) \notin {"p", "n"}
  <2>1. Before(options, n + 1, {"p", "n"}) = Before(options, n, {"p", "n"})
    BY <1>2, BeforeNext
  <2> QED
    BY <1>2, <2>1, Zenon DEF PpnBefore
<1> QED
  BY <1>1, <1>2

\* And so does a list.
LEMMA ExcludedNext ==
  ASSUME NEW options, NEW n \in Nat \ {0}
  PROVE  ExcludedBefore(options, n + 1) =
           IF Returned(options[n].name) = "e" THEN MaskMod(options[n].arg)
           ELSE ExcludedBefore(options, n)
<1>1. CASE Returned(options[n].name) = "e"
  <2>1. Before(options, n + 1, {"e"}) # {} /\ Max(Before(options, n + 1, {"e"})) = n
    BY <1>1, BeforeNext
  <2> QED
    BY <1>1, <2>1, Zenon DEF ExcludedBefore
<1>2. CASE Returned(options[n].name) # "e"
  <2>1. Before(options, n + 1, {"e"}) = Before(options, n, {"e"})
    BY <1>2, BeforeNext
  <2> QED
    BY <1>2, <2>1, Zenon DEF ExcludedBefore
<1> QED
  BY <1>1, <1>2

\* After all options, these are the numbers and lists that count.
LEMMA LastOptions ==
  OptionTypes => /\ LastPpn = PpnBefore(argv.options, Len(argv.options) + 1)
                 /\ LastExcludedMod = ExcludedBefore(argv.options, Len(argv.options) + 1)
<1> SUFFICES ASSUME OptionTypes
             PROVE  /\ LastPpn = PpnBefore(argv.options, Len(argv.options) + 1)
                    /\ LastExcludedMod = ExcludedBefore(argv.options, Len(argv.options) + 1)
  OBVIOUS
<1>1. DOMAIN argv.options = 1 .. Len(argv.options) /\ Len(argv.options) \in Nat
  BY OptionsAreSeq DEF OptionTypes
<1>2. 1 .. (Len(argv.options) + 1) - 1 = 1 .. Len(argv.options)
  BY <1>1
<1>3. \A chars : Given(chars) = Before(argv.options, Len(argv.options) + 1, chars)
  BY <1>1, <1>2, Zenon DEF Given, Before
<1> QED
  BY <1>3, Zenon DEF LastPpn, LastExcludedMod, LastArg, PpnBefore, ExcludedBefore

\* What each kind of option asks for.
LEMMA AskedIs ==
  ASSUME NEW option
  PROVE  /\ Returned(option.name) \in {"p", "n", "t"} => (AskedMod(option) <=> Valid(option.arg))
         /\ Returned(option.name) = "e" =>
              (AskedMod(option) <=> WellFormedMod(option.arg) /\ FitsMod(option.arg))
         /\ Returned(option.name) = "v" => AskedMod(option)
         /\ Returned(option.name) \in {"h", "0", "?"} => ~AskedMod(option)
BY DEF AskedMod

\* The options before the n-th were understood, and left the number of processes.
ReadBefore(options, n, number) ==
  (\A k \in 1 .. n - 1 : AskedMod(options[k])) /\ number = PpnBefore(options, n)

\* An option that is understood adds to what was read.
LEMMA ReadNext ==
  ASSUME NEW options, NEW n \in Nat \ {0}, NEW number, ReadBefore(options, n, number),
         AskedMod(options[n]), NEW next,
         next = IF Returned(options[n].name) \in {"p", "n"} THEN int(options[n].arg.value)
                ELSE number
  PROVE  ReadBefore(options, n + 1, next)
<1>1. \A k \in 1 .. (n + 1) - 1 : k = n \/ k \in 1 .. n - 1
  OBVIOUS
<1>2. \A k \in 1 .. (n + 1) - 1 : AskedMod(options[k])
  BY <1>1 DEF ReadBefore
<1>3. next = PpnBefore(options, n + 1)
  BY NumberNext, Zenon DEF ReadBefore
<1> QED
  BY <1>2, <1>3, Zenon DEF ReadBefore

\* Where the options leave the program: what was read of them so far, in the variables.
AskedInv ==
  argv # NoCommand =>
    /\ pc = "options" => /\ ReadBefore(argv.options, optind, ppn)
                         /\ maskp = ExcludedBefore(argv.options, optind)
                         /\ ret \notin {"parse", "print"}
    /\ pc = "exclude" => \E n \in 1 .. Len(argv.options) :
                            /\ optind = n + 1 /\ ReadBefore(argv.options, n, ppn)
                            /\ Returned(argv.options[n].name) = "e"
                            /\ text = argv.options[n].arg
                            /\ ret \notin {"print", "idle"}
    /\ pc = "running" => ret \notin {"parse", "print"}
    /\ RunsMod

\* While there are options, the command line may still turn out either way.
LEMMA NotYet ==
  ASSUME pc' \in {"options", "exclude"}
  PROVE  RunsMod'
BY DEF RunsMod

\* An option that is refused fails the command line.
LEMMA RefusedOption ==
  ASSUME OptionTypes, argv' = argv, pc' = "failed", NEW n \in 1 .. Len(argv.options),
         ~AskedMod(argv.options[n])
  PROVE  AskedInv'
<1>1. n \in DOMAIN argv.options
  BY OptionsAreSeq DEF OptionTypes
<1>2. ~(\A k \in DOMAIN argv'.options : AskedMod(argv'.options[k]))
  BY <1>1
<1>3. RunsMod'
  BY <1>2 DEF RunsMod
<1> QED
  BY <1>3 DEF AskedInv

\* An option that is understood, and is no list, takes the program to the next one.
LEMMA UnderstoodOption ==
  ASSUME OptionTypes, AskedInv, NEW chars, Take(chars), argv # NoCommand,
         AskedMod(Option), Returned(Option.name) # "e", pc' = "options", UNCHANGED vars,
         ppn' = IF Returned(Option.name) \in {"p", "n"} THEN int(Option.arg.value) ELSE ppn
  PROVE  AskedInv'
<1>1. PICK n \in Nat \ {0} : n = optind
  BY OptionsAreSeq DEF OptionTypes
<1>2. argv' = argv /\ optind' = n + 1 /\ pc = "options" /\ Option = argv.options[n]
  BY <1>1 DEF Take, Option
<1>3. /\ ReadBefore(argv.options, n, ppn) /\ maskp = ExcludedBefore(argv.options, n)
      /\ ret \notin {"parse", "print"}
  BY <1>1, <1>2, Zenon DEF AskedInv
<1>4. ReadBefore(argv.options, n + 1, ppn')
  BY <1>2, <1>3, ReadNext
<1>5. ExcludedBefore(argv.options, n + 1) = ExcludedBefore(argv.options, n)
  BY <1>2, ExcludedNext
<1>6. maskp' = maskp /\ ret' = ret
  BY DEF vars, parseVars
<1>7. RunsMod'
  BY NotYet
<1> QED
  BY <1>2, <1>3, <1>4, <1>5, <1>6, <1>7 DEF AskedInv

\* Every option, list and check keeps the program at what was asked (1152-1218).
LEMMA AskedStep ==
  ASSUME ProgramInv, AskedInv, CommandNext
  PROVE  AskedInv'
<1>1. argv' = argv
  BY DEF CommandNext, commandVars, ProcessesPerNode, ThreadsPerProcess, BadNumber, ExcludeCpus,
         Excluded, Verbose, Usage, SanityChecks, Take
<1>2. SUFFICES ASSUME argv # NoCommand
               PROVE  AskedInv'
  BY <1>1 DEF AskedInv
<1>3. OptionTypes /\ Len(argv.options) \in Nat
  BY OptionsAreSeq DEF ProgramInv, OptionTypes
<1>4. ASSUME NEW chars, Take(chars)
      PROVE  /\ optind \in 1 .. Len(argv.options) /\ Option = argv.options[optind]
             /\ Returned(Option.name) \in chars /\ pc = "options" /\ optind' = optind + 1
  BY <1>3, <1>4 DEF Take, OptionTypes, Option
<1>5. CASE ProcessesPerNode
  <2>1. /\ Take({"p", "n"}) /\ Valid(Option.arg) /\ ppn' = int(Option.arg.value)
        /\ UNCHANGED vars /\ pc' = pc
    BY <1>5 DEF ProcessesPerNode
  <2>2. Returned(Option.name) \in {"p", "n"} /\ pc = "options"
    BY <1>4, <2>1
  <2>3. AskedMod(Option)
    BY <2>1, <2>2, AskedIs
  <2> QED
    BY <1>2, <1>3, <2>1, <2>2, <2>3, UnderstoodOption
<1>6. CASE ThreadsPerProcess
  <2>1. Take({"t"}) /\ Valid(Option.arg) /\ ppn' = ppn /\ UNCHANGED vars /\ pc' = pc
    BY <1>6 DEF ThreadsPerProcess
  <2>2. Returned(Option.name) = "t" /\ pc = "options"
    BY <1>4, <2>1
  <2>3. AskedMod(Option)
    BY <2>1, <2>2, AskedIs
  <2> QED
    BY <1>2, <1>3, <2>1, <2>2, <2>3, UnderstoodOption
<1>7. CASE Verbose
  <2>1. Take({"v"}) /\ ppn' = ppn /\ UNCHANGED vars /\ pc' = pc
    BY <1>7 DEF Verbose
  <2>2. Returned(Option.name) = "v" /\ pc = "options"
    BY <1>4, <2>1
  <2>3. AskedMod(Option)
    BY <2>2, AskedIs
  <2> QED
    BY <1>2, <1>3, <2>1, <2>2, <2>3, UnderstoodOption
<1>8. CASE BadNumber
  <2>1. Take({"p", "n", "t"}) /\ ~Valid(Option.arg) /\ pc' = "failed"
    BY <1>8 DEF BadNumber, Exit
  <2>2. ~AskedMod(Option)
    BY <1>4, <2>1, AskedIs
  <2> QED
    BY <1>1, <1>3, <1>4, <2>1, <2>2, RefusedOption
<1>9. CASE Usage
  <2>1. Take({"h", "0", "?"}) /\ pc' = "failed"
    BY <1>9 DEF Usage, Exit
  <2>2. ~AskedMod(Option)
    BY <1>4, <2>1, AskedIs
  <2> QED
    BY <1>1, <1>3, <1>4, <2>1, <2>2, RefusedOption
<1>10. CASE ExcludeCpus
  <2>1. /\ Take({"e"}) /\ text' = Option.arg /\ ret' = "parse" /\ pc' = "exclude" /\ ppn' = ppn
    BY <1>10 DEF ExcludeCpus
  <2>2. PICK n \in 1 .. Len(argv.options) : n = optind
    BY <1>4, <2>1
  <2>3. /\ Option = argv.options[n] /\ Returned(argv.options[n].name) = "e" /\ pc = "options"
        /\ optind' = n + 1
    BY <1>4, <2>1, <2>2
  <2>4. ReadBefore(argv.options, n, ppn)
    BY <1>2, <2>2, <2>3 DEF AskedInv
  <2>5. RunsMod'
    BY <2>1, NotYet
  <2> QED
    BY <1>1, <2>1, <2>3, <2>4, <2>5 DEF AskedInv
<1>11. CASE pc = "exclude" /\ Next /\ UNCHANGED commandVars
  <2>1. PICK n \in 1 .. Len(argv.options) :
          /\ optind = n + 1 /\ ReadBefore(argv.options, n, ppn)
          /\ Returned(argv.options[n].name) = "e" /\ text = argv.options[n].arg
          /\ ret \notin {"print", "idle"}
    BY <1>2, <1>11, Zenon DEF AskedInv
  <2>2. text' = text
    BY <1>11, <2>1 DEF Next, FirstBit, NextBit, Printed, Space, EmbeddedSpace, Dash, BadDash,
                       BadChar, Digit, Comma, EndOfText, ReadJoined, Read
  <2>3. ret' \notin {"print", "idle"}
    <3>1. ASSUME NEW goesOn, EndItem(goesOn)
          PROVE  ret' \notin {"print", "idle"}
      BY <3>1 DEF EndItem, Error
    <3> QED
      BY <1>11, <2>1, <3>1 DEF Next, FirstBit, NextBit, Printed, Space, EmbeddedSpace, Dash,
                               BadDash, BadChar, Digit, Comma, EndOfText, Error
  <2>4. optind' = optind /\ ppn' = ppn /\ pc' = "exclude"
    BY <1>11 DEF commandVars
  <2>5. RunsMod'
    BY <2>4, NotYet
  <2> QED
    BY <1>1, <2>1, <2>2, <2>3, <2>4, <2>5, Zenon DEF AskedInv
<1>12. ~(pc = "running" /\ Next)
  <2>1. pc = "running" => ret \notin {"parse", "print"}
    BY <1>2, Zenon DEF AskedInv
  <2> QED
    BY <2>1 DEF Next, FirstBit, NextBit, Printed, Space, EmbeddedSpace, Dash, BadDash, BadChar,
                Digit, Comma, EndOfText, ReadJoined, Read, More
<1>13. CASE Excluded
  <2>1. /\ pc = "exclude" /\ ret # "parse" /\ pc' = IF ret = "0" THEN "options" ELSE "failed"
        /\ UNCHANGED << optind, ppn >> /\ UNCHANGED vars
    BY <1>13 DEF Excluded
  <2>2. PICK n \in 1 .. Len(argv.options) :
          /\ optind = n + 1 /\ ReadBefore(argv.options, n, ppn)
          /\ Returned(argv.options[n].name) = "e" /\ text = argv.options[n].arg
          /\ ret \notin {"print", "idle"}
    BY <1>2, <2>1, Zenon DEF AskedInv
  <2>3. ParsesMod /\ ret \in {"0", "EINVAL", "ERANGE"}
    BY <2>1, <2>2 DEF ProgramInv, ListInv, ListTypeInv, TypeOK
  <2>4. CASE ret = "0"
    <3>1. WellFormedMod(text) /\ FitsMod(text) /\ maskp = MaskMod(text)
      BY <2>3, <2>4 DEF ParsesMod
    <3>2. AskedMod(argv.options[n])
      BY <2>2, <3>1, AskedIs
    <3>3. n \in Nat \ {0}
      OBVIOUS
    <3>4. ReadBefore(argv.options, n + 1, ppn)
      <4>1. ppn = IF Returned(argv.options[n].name) \in {"p", "n"}
                  THEN int(argv.options[n].arg.value) ELSE ppn
        BY <2>2
      <4> QED
        BY <2>2, <3>2, <3>3, <4>1, ReadNext
    <3>5. maskp = ExcludedBefore(argv.options, n + 1)
      BY <2>2, <3>1, <3>3, ExcludedNext
    <3>6. maskp' = maskp /\ ret' = ret /\ optind' = n + 1 /\ ppn' = ppn /\ pc' = "options"
      BY <2>1, <2>2, <2>4 DEF vars, parseVars
    <3>7. RunsMod'
      BY <3>6, NotYet
    <3> QED
      BY <1>1, <2>4, <3>4, <3>5, <3>6, <3>7 DEF AskedInv
  <2>5. CASE ret # "0"
    <3>1. ~(WellFormedMod(text) /\ FitsMod(text))
      BY <2>3, <2>5 DEF ParsesMod
    <3>2. ~AskedMod(argv.options[n]) /\ pc' = "failed"
      BY <2>1, <2>2, <2>5, <3>1, AskedIs
    <3> QED
      BY <1>1, <1>3, <3>2, RefusedOption
  <2> QED
    BY <2>4, <2>5
<1>14. CASE SanityChecks
  <2>1. /\ pc = "options" /\ optind > Len(argv.options)
        /\ pc' = IF Sane THEN "running" ELSE "failed"
        /\ ppn' = ppn /\ UNCHANGED vars
    BY <1>14 DEF SanityChecks
  <2>2. PICK n \in Nat : n = Len(argv.options)
    BY <1>3
  <2>3. optind = n + 1
    BY <1>3, <2>1, <2>2 DEF OptionTypes
  <2>4. /\ ReadBefore(argv.options, n + 1, ppn) /\ maskp = ExcludedBefore(argv.options, n + 1)
        /\ ret \notin {"parse", "print"}
    BY <1>2, <2>1, <2>3, Zenon DEF AskedInv
  <2>5. /\ \A k \in 1 .. (n + 1) - 1 : AskedMod(argv.options[k])
        /\ ppn = PpnBefore(argv.options, n + 1)
    BY <2>4, Zenon DEF ReadBefore
  <2>6. \A k \in DOMAIN argv.options : AskedMod(argv.options[k])
    <3>1. DOMAIN argv.options = 1 .. n
      BY <1>3, <2>2, OptionsAreSeq DEF OptionTypes
    <3> QED
      BY <2>5, <3>1
  <2>7. LastPpn' = ppn /\ LastExcludedMod' = maskp
    <3>1. (OptionTypes => /\ LastPpn = PpnBefore(argv.options, Len(argv.options) + 1)
                          /\ LastExcludedMod = ExcludedBefore(argv.options, Len(argv.options) + 1))'
      BY LastOptions, PTL
    <3>2. OptionTypes'
      BY OptionTypesStep DEF ProgramInv
    <3>3. /\ LastPpn' = PpnBefore(argv'.options, Len(argv'.options) + 1)
          /\ LastExcludedMod' = ExcludedBefore(argv'.options, Len(argv'.options) + 1)
      BY <3>1, <3>2
    <3> QED
      BY <1>1, <2>2, <2>4, <2>5, <3>3, Zenon
  <2>8. maskp' = maskp /\ ret' = ret
    BY <2>1 DEF vars, parseVars
  <2>9. Sane <=> argv.program /\ ppn \in 2 .. MAX_PROCESSES
    <3>1. ppn \in Nat
      <4>1. IntSpan \div 2 \in Int
        BY CommandLineAssumption
      <4> QED
        BY <1>3, <4>1 DEF OptionTypes
    <3> QED
      BY <3>1, CommandLineAssumption DEF Sane
  <2>10. pc' \in {"running", "failed"} /\ (pc' = "running" <=> Sane)
    BY <2>1
  <2>11. RunsMod'
    BY <1>1, <2>1, <2>6, <2>7, <2>8, <2>9, <2>10, Zenon DEF RunsMod
  <2> QED
    BY <2>4, <2>8, <2>10, <2>11 DEF AskedInv
<1> QED
  BY <1>5, <1>6, <1>7, <1>8, <1>9, <1>10, <1>11, <1>12, <1>13, <1>14 DEF CommandNext

\* Before the first option nothing was read.
LEMMA AskedStarts ==
  ASSUME CommandInit
  PROVE  AskedInv
<1> SUFFICES ASSUME argv # NoCommand
             PROVE  AskedInv
  BY DEF AskedInv
<1>1. pc = "options" /\ optind = 1 /\ ppn = 0 /\ maskp = {} /\ ret = "idle"
  BY DEF CommandInit, Locals
<1>2. \A chars : Before(argv.options, 1, chars) = {}
  <2>1. 1 .. 1 - 1 = {}
    OBVIOUS
  <2> QED
    BY <2>1, Zenon DEF Before
<1>3. ppn = PpnBefore(argv.options, 1) /\ maskp = ExcludedBefore(argv.options, 1)
  BY <1>1, <1>2, Zenon DEF PpnBefore, ExcludedBefore
<1>4. ReadBefore(argv.options, 1, ppn)
  BY <1>3 DEF ReadBefore
<1>5. RunsMod
  BY <1>1 DEF RunsMod
<1> QED
  BY <1>1, <1>3, <1>4, <1>5 DEF AskedInv

\* A step that changes nothing keeps what was asked.
LEMMA AskedStays ==
  ASSUME AskedInv, UNCHANGED << vars, commandVars >>
  PROVE  AskedInv'
<1>1. /\ argv' = argv /\ optind' = optind /\ ppn' = ppn /\ pc' = pc
      /\ text' = text /\ ret' = ret /\ maskp' = maskp
  BY DEF vars, parseVars, commandVars
<1>2. LastPpn' = LastPpn /\ LastExcludedMod' = LastExcludedMod
  BY <1>1 DEF LastPpn, LastExcludedMod, LastArg, Given
<1>3. RunsMod => RunsMod'
  BY <1>1, <1>2, Zenon DEF RunsMod
<1> QED
  BY <1>1, <1>3, Zenon DEF AskedInv

\* With plain options only, what was asked for is what the parser makes of it.
LEMMA PlainAsked ==
  ASSUME OptionTypes, RunsMod
  PROVE  RunsAsAsked
<1> SUFFICES ASSUME argv # NoCommand, pc \in {"running", "failed"},
                    \A k \in DOMAIN argv.options : Plain(argv.options[k])
             PROVE  /\ pc = "running" <=> /\ argv.program
                                          /\ LastPpn \in 2 .. MAX_PROCESSES
                                          /\ \A k \in DOMAIN argv.options : Asked(argv.options[k])
                    /\ pc = "running" => ppn = LastPpn /\ maskp = LastExcluded
  BY Zenon DEF RunsAsAsked
<1>1. ASSUME NEW k \in DOMAIN argv.options
      PROVE  AskedMod(argv.options[k]) <=> Asked(argv.options[k])
  <2>1. Returned(argv.options[k].name) = "e" => Readable(argv.options[k].arg)
    BY <1>1 DEF Plain
  <2>2. CASE Returned(argv.options[k].name) = "e"
    <3>1. /\ WellFormedMod(argv.options[k].arg) <=> WellFormed(argv.options[k].arg)
          /\ FitsMod(argv.options[k].arg) <=> Fits(argv.options[k].arg)
      BY <2>1, <2>2, ReadableReads
    <3> QED
      BY <2>2, <3>1 DEF AskedMod, Asked
  <2>3. CASE Returned(argv.options[k].name) # "e"
    BY <2>3 DEF AskedMod, Asked
  <2> QED
    BY <2>2, <2>3
<1>2. LastExcludedMod = LastExcluded
  <2>1. CASE Given({"e"}) = {}
    BY <2>1, Zenon DEF LastExcludedMod, LastExcluded
  <2>2. CASE Given({"e"}) # {}
    <3>1. PICK n \in Nat : n = Len(argv.options) /\ DOMAIN argv.options = 1 .. n
      BY OptionsAreSeq DEF OptionTypes
    <3>2. Given({"e"}) \subseteq 0 .. n
      BY <3>1 DEF Given
    <3>3. Max(Given({"e"})) \in Given({"e"})
      BY <2>2, <3>1, <3>2, MaxUpTo
    <3>4. Readable(LastArg({"e"}))
      BY <3>3 DEF LastArg, Given, Plain
    <3>5. MaskMod(LastArg({"e"})) = MaskOf(LastArg({"e"}))
      BY <3>4, ReadableReads
    <3> QED
      BY <2>2, <3>5, Zenon DEF LastExcludedMod, LastExcluded
  <2> QED
    BY <2>1, <2>2
<1> QED
  BY <1>1, <1>2, Zenon DEF RunsMod

\* mpipin runs if and only if its options are understood and their arguments valid, and then with
\* the last number of processes and without the CPUs of the last list (1152-1218); but for the
\* options that the usage text promises and the code refuses, and lists with numbers that are
\* missing or too large for unsigned.
THEOREM OptionsAreObeyed == CommandSpec => []RunsAsAsked
<1>1. CommandInit => AskedInv
  BY AskedStarts
<1>2. ProgramInv /\ AskedInv /\ [CommandNext]_<< vars, commandVars >> => AskedInv'
  BY AskedStep, AskedStays
<1>3. ProgramInv /\ AskedInv => RunsAsAsked
  <2> SUFFICES ASSUME ProgramInv, AskedInv
               PROVE  RunsAsAsked
    OBVIOUS
  <2>1. OptionTypes
    BY DEF ProgramInv
  <2>2. RunsMod
    BY Zenon DEF AskedInv, RunsMod
  <2> QED
    BY <2>1, <2>2, PlainAsked
<1> QED
  BY <1>1, <1>2, <1>3, ProgramAlways, PTL DEF CommandSpec

=============================================================================
