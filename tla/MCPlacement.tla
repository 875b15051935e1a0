---------------------------- MODULE MCPlacement ----------------------------
(* An instance of Placement and Topology for TLC. *)
EXTENDS Placement

Four     == 0 .. 3
Indices  == 0 .. 2
TwoRanks == 0 .. 1

\* Each CPU has a cache of its own, one shared with its neighbour, and one shared by all;
\* neighbours are numbered two apart.
Pairs == [c \in Four |-> [i \in Indices |->
            CASE i = 0 -> {c} [] i = 1 -> {d \in Four : d % 2 = c % 2} [] i = 2 -> Four]]

\* The last CPU has no neighbour, and lacks the cache in the middle.
Uneven == [c \in Four |-> IF c = 3 THEN [i \in 0 .. 1 |-> IF i = 0 THEN {3} ELSE Four]
                          ELSE [Pairs[c] EXCEPT ![1] = @ \ {3}]]

\* Each CPU has only a cache of its own.
Single == [c \in Four |-> [i \in {0} |-> {c}]]

On(count, dirs, number, caches) ==
  [count |-> count, dirs |-> dirs, node |-> [c \in Four |-> number[c % 2]], caches |-> caches]

\* One node, twice; two, twice; two with a gap between their numbers; two, of which one has no
\* memory and is not counted.  The caches of the first machine of each kind nest.
Machines ==
  { On(1, {0}, [k \in 0 .. 1 |-> 0], Pairs),
    On(1, {0}, [k \in 0 .. 1 |-> 0], Uneven),
    On(2, {0, 1}, [k \in 0 .. 1 |-> k], Single),
    On(2, {0, 1}, [k \in 0 .. 1 |-> k], Pairs),
    On(2, {0, 2}, [k \in 0 .. 1 |-> 2 * k], Pairs),
    On(1, {0, 1}, [k \in 0 .. 1 |-> k], Uneven) }
=============================================================================
