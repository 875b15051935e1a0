--------------------------- MODULE MCCommandLine ---------------------------
(* Instances of CommandLine and CpuList for TLC. *)
EXTENDS CommandLine

Chars == {"0", "1", "2", ",", "-", " ", "x"}

\* All texts of up to five characters.
ShortTexts == SeqOf(Chars, 5)

\* As strtol() sees "2x", "" and numbers from -1 to more than an int holds.
Args == {[value |-> n, rest |-> FALSE] : n \in {-1, 0, 1, 2, 3, 4, 9, 18}}
          \cup {[value |-> 2, rest |-> TRUE]}

Lists == {<< >>, << "1" >>, << "2", "-", "1" >>, << "0", ",", "2", "-", "3" >>, << "1", "2" >>}

\* Up to three options, of each kind one name.
Options ==
  {[name |-> name, arg |-> arg] : name \in {"-p", "-t"}, arg \in Args}
    \cup {[name |-> "--exclude-cpus", arg |-> list] : list \in Lists}
    \cup {[name |-> name, arg |-> << >>] : name \in {"-v", "-h", "--scatter", "-x"}}

AllCommandLines == [options : SeqOf(Options, 3), program : BOOLEAN]
=============================================================================
