------------------------------ MODULE Numbers ------------------------------
(***************************************************************************)
(* Facts about natural numbers that the proofs of other modules need:      *)
(* least and largest members of a set, division, and induction.            *)
(*                                                                         *)
(* Induction, Recursion and Descent are about a set of numbers and a       *)
(* function of functions, where the theorems of the library have an        *)
(* operator as a parameter.                                                *)
(***************************************************************************)
EXTENDS Integers, FiniteSetsExt, NaturalsInduction, WellFoundedInduction, TLAPS

\* A set of naturals has a least element.
LEMMA NatMin ==
  ASSUME NEW S, S \subseteq Nat, S # {}
  PROVE  \E m \in S : \A x \in S : m <= x
<1> DEFINE R == OpToRel(<, Nat)
<1>1. IsWellFoundedOn(R, Nat)
  BY NatLessThanWellFounded
<1>2. ASSUME NEW x \in Nat, NEW y \in Nat, x < y
      PROVE  << x, y >> \in R
  BY <1>2 DEF OpToRel
<1> HIDE DEF R
<1>3. PICK m \in S : \A x \in S : ~ (<< x, m >> \in R)
  BY <1>1, WFMin
<1>4. ASSUME NEW x \in S
      PROVE  m <= x
  <2>1. ~(x < m)
    BY <1>2, <1>3
  <2> QED
    BY <2>1
<1> QED
  BY <1>4

\* Min() of a set is its least element, and Max() its largest.
LEMMA MinIs ==
  ASSUME NEW S, S \subseteq Int, NEW m \in S, \A x \in S : m <= x
  PROVE  Min(S) = m
<1>1. \A n \in S : (\A x \in S : n <= x) => n = m
  OBVIOUS
<1> QED
  BY <1>1 DEF Min

\* Likewise the largest one is the Max().
LEMMA MaxIs ==
  ASSUME NEW S, S \subseteq Int, NEW m \in S, \A x \in S : x <= m
  PROVE  Max(S) = m
<1>1. \A n \in S : (\A x \in S : x <= n) => n = m
  OBVIOUS
<1> QED
  BY <1>1 DEF Max

\* The Min() of naturals is one of them, and no other is less.
LEMMA MinOfNat ==
  ASSUME NEW S, S \subseteq Nat, S # {}
  PROVE  Min(S) \in S /\ \A x \in S : Min(S) <= x
<1>1. PICK m \in S : \A x \in S : m <= x
  BY NatMin
<1>2. Min(S) = m
  <2>1. S \subseteq Int
    OBVIOUS
  <2> QED
    BY <1>1, <2>1, MinIs
<1> QED
  BY <1>1, <1>2

\* Induction for a set of numbers.
LEMMA Induction ==
  ASSUME NEW S, 0 \in S, \A n \in Nat : n \in S => n + 1 \in S
  PROVE  Nat \subseteq S
<1> DEFINE Others == Nat \ S
<1>1. ASSUME Others # {}
      PROVE  FALSE
  <2>1. PICK m \in Others : \A x \in Others : m <= x
    BY <1>1, NatMin
  <2>2. m # 0 /\ m - 1 \in Nat
    OBVIOUS
  <2>3. m - 1 \in S
    BY <2>1, <2>2
  <2> QED
    BY <2>2, <2>3
<1> QED
  BY <1>1

\* f starts from base and takes a step from each value to the next.
Recursive(f, V, base, Step) ==
  f \in [Nat -> V] /\ f[0] = base /\ \A n \in Nat : f[n + 1] = Step[n + 1][f[n]]

\* There is such a function.
LEMMA Recursion ==
  ASSUME NEW V, NEW base \in V, NEW Step \in [Nat -> [V -> V]]
  PROVE  \E f : Recursive(f, V, base, Step)
<1> DEFINE Upto(n) == {g \in [0 .. n -> V] : /\ g[0] = base
                                             /\ \A k \in 0 .. n - 1 : g[k + 1] = Step[k + 1][g[k]]}
           S == {n \in Nat : Upto(n) # {}}
<1>1. 0 \in S
  <2>1. [k \in 0 .. 0 |-> base] \in Upto(0)
    OBVIOUS
  <2> QED
    BY <2>1
<1>2. ASSUME NEW n \in Nat, n \in S
      PROVE  n + 1 \in S
  <2>1. PICK g : g \in Upto(n)
    BY <1>2
  <2> DEFINE h == [k \in 0 .. n + 1 |-> IF k = n + 1 THEN Step[n + 1][g[n]] ELSE g[k]]
  <2>2. g[n] \in V /\ Step[n + 1][g[n]] \in V
    BY <2>1
  <2>3. h \in [0 .. n + 1 -> V]
    BY <2>1, <2>2
  <2>4. h[0] = base
    BY <2>1
  <2>5. ASSUME NEW k \in 0 .. (n + 1) - 1
        PROVE  h[k + 1] = Step[k + 1][h[k]]
    <3>1. CASE k = n
      <4>1. h[n + 1] = Step[n + 1][g[n]] /\ h[n] = g[n]
        OBVIOUS
      <4> QED
        BY <3>1, <4>1
    <3>2. CASE k # n
      <4>1. k \in 0 .. n - 1 /\ k + 1 # n + 1 /\ k # n + 1 /\ k + 1 \in 0 .. n + 1
        BY <3>2
      <4>2. h[k + 1] = g[k + 1] /\ h[k] = g[k]
        BY <4>1
      <4>3. g[k + 1] = Step[k + 1][g[k]]
        BY <2>1, <4>1
      <4> QED
        BY <4>2, <4>3
    <3> QED
      BY <3>1, <3>2
  <2> HIDE DEF h
  <2>6. h \in Upto(n + 1)
    BY <2>3, <2>4, <2>5
  <2> QED
    BY <2>6
<1> HIDE DEF S
<1>3. Nat \subseteq S
  BY <1>1, <1>2, Induction
<1> DEFINE g(n) == CHOOSE h : h \in Upto(n)
<1>4. \A n \in Nat : g(n) \in Upto(n)
  BY <1>3 DEF S
<1> HIDE DEF g
<1>5. ASSUME NEW m \in Nat, NEW n \in Nat, m <= n
      PROVE  \A k \in 0 .. m : g(m)[k] = g(n)[k]
  <2> DEFINE T == {k \in Nat : k <= m => g(m)[k] = g(n)[k]}
  <2>1. 0 \in T
    BY <1>4
  <2>2. ASSUME NEW k \in Nat, k \in T
        PROVE  k + 1 \in T
    <3>1. CASE k + 1 <= m
      <4>1. k \in 0 .. m - 1 /\ k \in 0 .. n - 1
        BY <1>5, <3>1
      <4>2. g(m)[k + 1] = Step[k + 1][g(m)[k]] /\ g(n)[k + 1] = Step[k + 1][g(n)[k]]
        BY <1>4, <4>1
      <4>3. g(m)[k] = g(n)[k]
        BY <2>2, <4>1
      <4> QED
        BY <4>2, <4>3
    <3>2. CASE ~(k + 1 <= m)
      BY <3>2
    <3> QED
      BY <3>1, <3>2
  <2> HIDE DEF T
  <2>3. Nat \subseteq T
    BY <2>1, <2>2, Induction
  <2> QED
    BY <2>3 DEF T
<1> DEFINE f == [n \in Nat |-> g(n)[n]]
<1>6. \A n \in Nat : g(n)[n] \in V
  BY <1>4
<1>7. f \in [Nat -> V]
  BY <1>6
<1>8. f[0] = base
  BY <1>4
<1>9. ASSUME NEW n \in Nat
      PROVE  f[n + 1] = Step[n + 1][f[n]]
  <2>1. g(n + 1)[n + 1] = Step[n + 1][g(n + 1)[n]]
    <3>1. n + 1 \in Nat /\ n \in 0 .. (n + 1) - 1
      OBVIOUS
    <3> QED
      BY <1>4, <3>1
  <2>2. g(n)[n] = g(n + 1)[n]
    <3>1. n + 1 \in Nat /\ n <= n + 1 /\ n \in 0 .. n
      OBVIOUS
    <3> QED
      BY <1>5, <3>1
  <2> QED
    BY <2>1, <2>2
<1>10. Recursive(f, V, base, Step)
  BY <1>7, <1>8, <1>9 DEF Recursive
<1> QED
  BY <1>10

-----------------------------------------------------------------------------
\* n divided by u is q and leaves r.
Leaves(n, u, q, r) == q \in Nat /\ r \in 0 .. u - 1 /\ n = u * q + r

\* A larger number has larger multiples.
LEMMA Multiples ==
  ASSUME NEW u \in Nat, NEW x \in Nat, NEW y \in Nat, x < y
  PROVE  u * x + u <= u * y
<1>1. PICK d \in Nat : y = x + 1 + d
  <2>1. y - x - 1 \in Nat
    OBVIOUS
  <2> QED
    BY <2>1
<1>2. u * y = u * x + u + u * d
  BY <1>1
<1>3. u * d \in Nat /\ u * x \in Nat
  OBVIOUS
<1> QED
  BY <1>2, <1>3

\* It leaves one number only.
LEMMA LeavesOne ==
  ASSUME NEW u \in Nat \ {0}, NEW n, NEW p, NEW r, NEW a1, NEW b1,
         Leaves(n, u, p, a1), Leaves(n, u, r, b1)
  PROVE  a1 = b1
<1>0. /\ p \in Nat /\ r \in Nat /\ a1 \in 0 .. u - 1 /\ b1 \in 0 .. u - 1
      /\ u * p + a1 = u * r + b1
  BY DEF Leaves
<1>2. u * p \in Nat /\ u * r \in Nat
  BY <1>0
<1>3. ~(p < r)
  <2>1. ASSUME p < r
        PROVE  FALSE
    <3>1. u * r >= u * p + u
      BY <1>0, <2>1, Multiples
    <3> QED
      BY <1>0, <1>2, <3>1
  <2> QED
    BY <2>1
<1>4. ~(r < p)
  <2>1. ASSUME r < p
        PROVE  FALSE
    <3>1. u * p >= u * r + u
      BY <1>0, <2>1, Multiples
    <3> QED
      BY <1>0, <1>2, <3>1
  <2> QED
    BY <2>1
<1>5. p = r
  BY <1>0, <1>3, <1>4
<1> QED
  BY <1>0, <1>2, <1>5

\* \div and % divide.
LEMMA LeavesRest ==
  ASSUME NEW u \in Nat \ {0}, NEW n \in Nat
  PROVE  Leaves(n, u, n \div u, n % u)
BY DEF Leaves
-----------------------------------------------------------------------------
\* G computes the value at i of a function on 0 .. n from its values further on.
Onwards(G, n, V) ==
  /\ G \in [0 .. n -> [[0 .. n -> V] -> V]]
  /\ \A i \in 0 .. n : \A g \in [0 .. n -> V], h \in [0 .. n -> V] :
       (\A j \in i + 1 .. n : g[j] = h[j]) => G[i][g] = G[i][h]

\* f has the values that G computes.
Computed(f, G, n, V) == f \in [0 .. n -> V] /\ \A i \in 0 .. n : f[i] = G[i][f]

\* There is the function that it computes.
LEMMA Descent ==
  ASSUME NEW n \in Nat, NEW V, V # {}, NEW G, Onwards(G, n, V)
  PROVE  \E f : Computed(f, G, n, V)
<1>0. /\ G \in [0 .. n -> [[0 .. n -> V] -> V]]
      /\ \A i \in 0 .. n : \A g \in [0 .. n -> V], h \in [0 .. n -> V] :
           (\A j \in i + 1 .. n : g[j] = h[j]) => G[i][g] = G[i][h]
  BY DEF Onwards
<1> DEFINE Good(f, k) == \A i \in 0 .. n : i + k > n => f[i] = G[i][f]
           S == {k \in Nat : \E f \in [0 .. n -> V] : Good(f, k)}
<1>1. 0 \in S
  <2>1. PICK v \in V : TRUE
    OBVIOUS
  <2>2. [i \in 0 .. n |-> v] \in [0 .. n -> V]
    OBVIOUS
  <2>3. \A i \in 0 .. n : ~(i + 0 > n)
    OBVIOUS
  <2> QED
    BY <2>2, <2>3
<1>2. ASSUME NEW k \in Nat, k \in S
      PROVE  k + 1 \in S
  <2>1. PICK f \in [0 .. n -> V] : Good(f, k)
    BY <1>2
  <2>2. CASE k > n
    <3>1. Good(f, k + 1)
      <4>1. \A i \in 0 .. n : i + k > n
        BY <2>2
      <4> QED
        BY <2>1, <4>1
    <3> QED
      BY <3>1
  <2>3. CASE k <= n
    <3>1. PICK i \in 0 .. n : i = n - k
      BY <2>3
    <3> DEFINE g == [f EXCEPT ![i] = G[i][f]]
    <3>2. G[i][f] \in V
      BY <1>0
    <3>3. g \in [0 .. n -> V] /\ g[i] = G[i][f] /\ \A j \in 0 .. n : j # i => g[j] = f[j]
      BY <3>2
    <3> HIDE DEF g
    <3>4. ASSUME NEW j \in 0 .. n, j >= i
          PROVE  G[j][g] = G[j][f]
      <4>1. \A l \in j + 1 .. n : g[l] = f[l]
        <5>1. \A l \in j + 1 .. n : l \in 0 .. n /\ l # i
          BY <3>4
        <5> QED
          BY <3>3, <5>1
      <4> QED
        BY <1>0, <3>3, <4>1
    <3>5. ASSUME NEW j \in 0 .. n, j + (k + 1) > n
          PROVE  g[j] = G[j][g]
      <4>1. CASE j = i
        BY <3>3, <3>4, <4>1
      <4>2. CASE j # i
        <5>1. j + k > n /\ j >= i
          BY <3>1, <3>5, <4>2
        <5>2. f[j] = G[j][f]
          BY <2>1, <5>1
        <5> QED
          BY <3>3, <3>4, <4>2, <5>1, <5>2
      <4> QED
        BY <4>1, <4>2
    <3>6. Good(g, k + 1)
      BY <3>5
    <3> QED
      BY <3>3, <3>6
  <2>4. k > n \/ k <= n
    OBVIOUS
  <2> QED
    BY <2>2, <2>3, <2>4, Zenon
<1> HIDE DEF S
<1>3. n + 1 \in S
  <2>1. Nat \subseteq S
    BY <1>1, <1>2, Induction
  <2> QED
    BY <2>1
<1>4. PICK f \in [0 .. n -> V] : Good(f, n + 1)
  BY <1>3 DEF S
<1>5. \A i \in 0 .. n : i + (n + 1) > n
  OBVIOUS
<1>6. Computed(f, G, n, V)
  BY <1>4, <1>5 DEF Computed
<1> QED
  BY <1>6

=============================================================================
