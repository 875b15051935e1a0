----------------------------- MODULE CpuShares -----------------------------
(***************************************************************************)
(* What partitioning the CPUs of a node amounts to, whatever its topology: *)
(* rank after rank is handed a share out of the free CPUs, of the same     *)
(* size as long as they last.  Partitioning may be given up at any time,   *)
(* and may be started again with what is free.                             *)
(***************************************************************************)
EXTENDS Integers, FiniteSets, FiniteSetsExt

CONSTANTS
  CPU,   \* the CPUs of the node
  Rank   \* the ranks there may be

VARIABLES
  free,    \* the CPUs that can be handed out
  shares,  \* the CPUs of each rank
  next,    \* the rank that is handed its share next
  nr,      \* the number of ranks
  quota    \* the number of CPUs due to each

vars == << free, shares, next, nr, quota >>

Init ==
  /\ free \in SUBSET CPU
  /\ shares = [r \in Rank |-> {}]
  /\ next = 0
  /\ nr \in Nat \ {0}
  /\ quota = Cardinality(free) \div nr

HandOut ==
  /\ next < nr
  /\ \E share \in SUBSET free :
       /\ Cardinality(share) = Min({Cardinality(free), Max({1, quota})})
       /\ free' = free \ share
       /\ shares' = [shares EXCEPT ![next] = share]
  /\ next' = next + 1
  /\ UNCHANGED << nr, quota >>

StartAgain ==
  /\ next >= nr
  /\ next' = 0
  /\ UNCHANGED << free, shares, nr, quota >>

Next == HandOut \/ StartAgain

Spec == Init /\ [][Next]_vars
=============================================================================
