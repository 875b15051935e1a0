--------------------------- MODULE MCCpuPartition ---------------------------
(* An instance of CpuPartition for TLC: four kinds of nodes with eight CPUs. *)
EXTENDS CpuPartition

EightCPUs  == 0 .. 7
ThreeRanks == 0 .. 2

\* Two NUMA nodes with a shared cache each, of two cores with two threads, the second
\* threads numbered after all first ones.
Threads ==
  [node   |-> [c \in EightCPUs |-> (c % 4) \div 2],
   caches |-> [c \in EightCPUs |->
                << {d \in EightCPUs : d % 4 = c % 4},
                   {d \in EightCPUs : (d % 4) \div 2 = (c % 4) \div 2} >>],
   known  |-> EightCPUs]

\* CPUs numbered across two NUMA nodes in turn; pairs of CPUs share a cache.
Interleaved ==
  [node   |-> [c \in EightCPUs |-> c % 2],
   caches |-> [c \in EightCPUs |-> << {c}, {d \in EightCPUs : d % 2 = c % 2 /\ d \div 4 = c \div 4} >>],
   known  |-> EightCPUs]

\* No cache is shown, and CPU 5 went offline.
NoCaches ==
  [node   |-> [c \in EightCPUs |-> c \div 4],
   caches |-> [c \in EightCPUs |-> << >>],
   known  |-> EightCPUs \ {5}]

\* Caches that do not nest: pairs of neighbours, then the CPUs with the same remainder, across
\* the nodes; CPU 0 has no second one, though others share theirs with it.
Crossing ==
  [node   |-> [c \in EightCPUs |-> c \div 4],
   caches |-> [c \in EightCPUs |->
                IF c = 0 THEN << {0, 1} >>
                ELSE << {d \in EightCPUs : d \div 2 = c \div 2},
                        {d \in EightCPUs : d % 3 = c % 3} >>],
   known  |-> EightCPUs]

Machines == {Threads, Interleaved, NoCaches, Crossing}
=============================================================================
