------------------------------- MODULE BitSet -------------------------------
(***************************************************************************)
(* What the bitmap operations promise: a bitmap is a set of numbers below  *)
(* its size, whatever words it is kept in.                                 *)
(*                                                                         *)
(* A call names the function, its numbers n and the other bitmaps it is    *)
(* called with, and each action is the effect of one kind of call.         *)
(***************************************************************************)
EXTENDS Integers, Sequences, FiniteSets, FiniteSetsExt

CONSTANT bits   \* the size of the bitmaps

VARIABLES
  set,     \* the bitmap that is called with
  call,    \* the call that was made, or NoCall between two
  ret      \* what it has returned

vars == << set, call, ret >>

Bit == 0 .. bits - 1
NoCall == [fn |-> "none", n |-> << >>, with |-> << >>]

Init == set \in SUBSET Bit /\ call = NoCall /\ ret = "void"

Fn(name) == call'.fn = name
N(k) == call'.n[k]
With(k) == call'.with[k]

Becomes(s) == set' = s /\ ret' = "void"
Returns(value) == set' = set /\ ret' = value

\* The k-th member of s in ascending order, from 0 on, and the place of a member.
Ord(s, pos) == Cardinality({i \in s : i < pos})
Pos(s, ord) == CHOOSE i \in s : Ord(s, i) = ord

Mapped(bit, old, new) ==
  IF bit \in old /\ new # {} THEN Pos(new, Ord(old, bit) % Cardinality(new)) ELSE bit

FirstOf(s, otherwise) == Min(s \cup {otherwise})

\* The aligned places of 2^order free bits.
Region(pos, order) == pos .. pos + 2^order - 1
FreeRegions(order) ==
  {pos \in Bit : /\ pos % 2^order = 0
                 /\ Region(pos, order) \subseteq Bit \ set}

\* The places where n bits are free, from start on and aligned.
FreeAreas(start, n, align) ==
  {i \in start .. bits - n : i % (align + 1) = 0 /\ (i .. i + n - 1) \cap set = {}}

-----------------------------------------------------------------------------
Algebra ==
  \/ Fn("bitmap_zero") /\ Becomes({})
  \/ Fn("bitmap_fill") /\ Becomes(Bit)
  \/ Fn("bitmap_copy") /\ Becomes(With(1))
  \/ Fn("bitmap_complement") /\ Becomes(Bit \ set)
  \/ Fn("bitmap_or") /\ Becomes(set \cup With(1))
  \/ Fn("bitmap_xor") /\ Becomes((set \ With(1)) \cup (With(1) \ set))
  \/ Fn("bitmap_and") /\ set' = set \cap With(1) /\ ret' = (set' # {})
  \/ Fn("bitmap_andnot") /\ set' = set \ With(1) /\ ret' = (set' # {})

Moves ==
  \/ Fn("bitmap_shift_right") /\ Becomes({i - N(1) : i \in set} \cap Bit)
  \/ Fn("bitmap_shift_left") /\ Becomes({i + N(1) : i \in set} \cap Bit)
  \/ Fn("bitmap_set") /\ Becomes(set \cup (N(1) .. N(1) + N(2) - 1))
  \/ Fn("bitmap_clear") /\ Becomes(set \ (N(1) .. N(1) + N(2) - 1))
  \/ Fn("bitmap_fold") /\ Becomes({i % N(1) : i \in set})
  \/ Fn("bitmap_onto") /\ Becomes({n \in With(1) : Ord(With(1), n) \in set})
  \/ Fn("bitmap_remap") /\ Becomes({Mapped(i, With(1), With(2)) : i \in set})

Questions ==
  \/ Fn("bitmap_empty") /\ Returns(set = {})
  \/ Fn("bitmap_full") /\ Returns(set = Bit)
  \/ Fn("bitmap_weight") /\ Returns(Cardinality(set))
  \/ Fn("bitmap_equal") /\ Returns(set = With(1))
  \/ Fn("bitmap_intersects") /\ Returns(set \cap With(1) # {})
  \/ Fn("bitmap_subset") /\ Returns(set \subseteq With(1))
  \/ Fn("find_first_bit") /\ Returns(FirstOf(set, bits))
  \/ Fn("find_first_zero_bit") /\ Returns(FirstOf(Bit \ set, bits))
  \/ Fn("find_next_bit") /\ Returns(FirstOf({i \in set : i >= N(1)}, bits))
  \/ Fn("find_next_zero_bit") /\ Returns(FirstOf({i \in Bit \ set : i >= N(1)}, bits))
  \/ Fn("bitmap_ord_to_pos") /\ Returns(IF N(1) < Cardinality(set) THEN Pos(set, N(1)) ELSE 0)
  \/ Fn("bitmap_bitremap") /\ Returns(Mapped(N(1), set, With(1)))

\* Of all places the first one is found, and the size is passed if there is none.
Areas ==
  /\ Fn("bitmap_find_next_zero_area")
  /\ LET areas == FreeAreas(N(1), N(2), N(3))
     IN  IF areas # {} THEN Returns(Min(areas))
         ELSE set' = set /\ ret' > bits

Regions ==
  \/ /\ Fn("bitmap_find_free_region")
     /\ LET free == FreeRegions(N(1))
        IN  IF free = {} THEN Returns("ENOMEM")
            ELSE set' = set \cup Region(Min(free), N(1)) /\ ret' = Min(free)
  \/ /\ Fn("bitmap_allocate_region")
     /\ IF N(1) \in FreeRegions(N(2))
        THEN set' = set \cup Region(N(1), N(2)) /\ ret' = 0
        ELSE Returns("EBUSY")
  \/ Fn("bitmap_release_region") /\ Becomes(set \ Region(N(1), N(2)))

Return == call' = NoCall /\ Returns("void")

Next == \/ call = NoCall /\ (Algebra \/ Moves \/ Questions \/ Areas \/ Regions)
        \/ Return

Spec == Init /\ [][Next]_vars
=============================================================================
