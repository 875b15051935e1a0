------------------------------ MODULE MCHexMask ------------------------------
(* An instance of HexMask and Bitmap for TLC: three words of four bits, of which nine bits are
   used; chunks of two digits of one bit each. *)
EXTENDS HexMask

Words(w0, w1, w2) == (0 :> w0) @@ (1 :> w1) @@ (2 :> w2)

\* The unused bits are all clear or all set.
All == {Words(w0, w1, w2) : w0 \in SUBSET InLong, w1 \in SUBSET InLong,
                            w2 \in {u \cup v : u \in SUBSET {0}, v \in {{}, 1 .. 3}}}

Few == { Words({}, {}, {}), Words({}, {}, 1 .. 3), Words(InLong, InLong, InLong),
         Words({1, 2}, {0, 3}, {0}), Words({3}, {0}, {1, 2, 3}) }
\* All texts of up to six characters, and all of up to six chunks of one or two digits.
Chunks == {<< "0" >>, << "1" >>, << "1", "0" >>, << "1", "1" >>}
Joined(pieces) == FoldLeft(LAMBDA t, piece : t \o << "," >> \o piece, Head(pieces), Tail(pieces))
SomeTexts == SeqOf({"0", "1", ",", " ", "x"}, 6)
               \cup {Joined(pieces) : pieces \in SeqOf(Chunks, 6) \ {<< >>}}

BinaryDigits == << "0", "1" >>
=============================================================================
