----------------------------- MODULE MCPartExec -----------------------------
(* Instances of PartExec for TLC: each definition below is the value that a .cfg  *)
(* file of this module gives to a constant.                                       *)
EXTENDS PartExecBarrier

Three     == {11, 12, 13}
ThreePpn  == [p \in Three |-> 3]

\* One job of three on a node of seven CPUs, the last of which is excluded.  The MPI
\* runtime bound the processes to one CPU each, the third of them to the excluded one.
JobCPU      == 0 .. 6
JobAffinity == [p \in Three |-> IF p = 13 THEN {6} ELSE {p - 11}]
JobCpuset   == [p \in Three |-> JobCPU]
JobExcluded == [p \in Three |-> {6}]

\* The same on four CPUs, where things may go wrong.
SmallCPU      == 0 .. 3
SmallAffinity == [p \in Three |-> {p - 11}]
SmallCpuset   == [p \in Three |-> SmallCPU]
SmallExcluded == [p \in Three |-> {3}]

\* The third process was started with another --processes-per-node, and is bound to a CPU
\* that the first one may use.  The kernel allows the first one only half of the node.
MixedPpn      == [p \in Three |-> IF p = 13 THEN 3 ELSE 2]
MixedCPU      == 0 .. 5
MixedAffinity == [p \in Three |-> IF p = 13 THEN {3} ELSE {p - 11}]
MixedCpuset   == [p \in Three |-> IF p = 11 THEN {3, 4, 5} ELSE MixedCPU]

\* Two processes, the first of which the kernel allows half of the node.
Two         == {11, 12}
TwoPpn      == [p \in Two |-> 2]
TwoCPU      == 0 .. 3
TwoAffinity == [p \in Two |-> {p - 11}]
TwoCpuset   == [p \in Two |-> IF p = 11 THEN {2, 3} ELSE TwoCPU]
TwoExcluded == [p \in Two |-> {}]

\* Three processes where each says there are two.
ExtraPpn == [p \in Three |-> 2]
NoneExcluded == [p \in Three |-> {}]
=============================================================================
