---------------------------- MODULE CpuPartition ----------------------------
(***************************************************************************)
(* How the first process of a group partitions the CPUs in pin_process():  *)
(* each rank starts with the first unused CPU, and every further CPU is    *)
(* the nearest to the one before: in the innermost cache it shares, else   *)
(* on its NUMA node, else anywhere.                                        *)
(*                                                                         *)
(* One step is one CPU, that is, one iteration of the inner loop.  All of  *)
(* it runs under the mutex, in one process.                                *)
(***************************************************************************)
EXTENDS Integers, Sequences, FiniteSets, FiniteSetsExt

CONSTANTS
  CPU,          \* the CPUs of the node
  NoCpu,        \* CPU_SETSIZE, what cpuset_first() returns for an empty mask
  Rank,         \* the ranks there may be
  Machine       \* the topologies that collect_topology() may find: for each CPU, m.node
                \* is its NUMA node, m.caches are the CPUs that share its caches, inner
                \* ones first; m.known are the CPUs it found

ASSUME MachineAssumption ==
  /\ CPU \subseteq Nat
  /\ IsFiniteSet(CPU)
  /\ NoCpu \in Nat \ CPU
  /\ \A m \in Machine : /\ m.node \in [CPU -> Nat]
                        /\ m.caches \in [CPU -> Seq(SUBSET CPU)]
                        /\ m.known \in SUBSET CPU

ASSUME RankAssumption ==
  /\ IsFiniteSet(Rank)
  /\ Rank = 0 .. Cardinality(Rank) - 1
  /\ Cardinality(Rank) >= 2

VARIABLES
  machine,                                        \* what collect_topology() has found
  nr_processes, cpus_to_assign,                   \* pe->...
  cpus_available, process_rank, affinities,       \* pe->...
  avail, use, cpu_prev, cpus_assigned,            \* locals; avail is cpus_available
  pc,
  again         \* the group partitions a second time, as it does if rank 0 was refused

given == << machine, nr_processes, cpus_to_assign >>
regionVars == << cpus_available, process_rank, affinities >>
localVars == << avail, use, cpu_prev, cpus_assigned >>
vars == << given, regionVars, localVars, pc, again >>

Init ==
  /\ machine \in Machine
  /\ cpus_available \in SUBSET CPU
  /\ nr_processes \in 2 .. Cardinality(Rank)
  /\ cpus_to_assign = Cardinality(cpus_available) \div nr_processes
  /\ process_rank = 0
  /\ affinities = [r \in Rank |-> {}]
  /\ avail = {} /\ use = {} /\ cpu_prev = NoCpu /\ cpus_assigned = 0
  /\ pc = "rank"
  /\ again = FALSE

cpuset_first(S) == IF S = {} THEN NoCpu ELSE Min(S)

\* CPU_CLR() and CPU_SET(), which ignore CPU_SETSIZE.
Without(S, cpu) == S \ {cpu}

\* Slip: CPU_SET() beyond the mask.
WithAny(S, cpu) == S \cup {cpu}

With(S, cpu) == S \cup ({cpu} \cap CPU)

StartRank ==
  /\ pc = "rank"
  /\ process_rank < nr_processes
  /\ LET cpu == cpuset_first(cpus_available)
     IN  /\ avail' = Without(cpus_available, cpu)
         /\ use' = With({}, cpu)
         /\ cpu_prev' = cpu
  /\ cpus_assigned' = 1
  /\ pc' = "next"
  /\ UNCHANGED << given, regionVars, again >>

Take(cpu) ==
  /\ avail' = Without(avail, cpu)
  /\ use' = With(use, cpu)
  /\ cpu_prev' = cpu
  /\ cpus_assigned' = cpus_assigned + 1
  /\ UNCHANGED << given, regionVars, pc, again >>

Fail ==
  /\ pc' = "failed"
  /\ UNCHANGED << given, regionVars, localVars, again >>

\* Slip: one more.
NotBeyond == cpus_assigned <= cpus_to_assign

Missing == cpus_assigned < cpus_to_assign

\* The loop over the CPUs of a rank goes on, and the last CPU is found in the topology.
Searching == pc = "next" /\ Missing /\ cpu_prev \in machine.known

NoTopology ==
  /\ pc = "next"
  /\ Missing
  /\ cpu_prev \notin machine.known
  /\ Fail

\* The caches of the last CPU that have a CPU left, by their place in its list.
SharedCaches ==
  {k \in DOMAIN machine.caches[cpu_prev] : machine.caches[cpu_prev][k] \cap avail # {}}

\* Slip: the outermost cache comes first.
Farthest(caches) == Max(caches)

Nearest(caches) == Min(caches)

SameCache ==
  /\ Searching
  /\ SharedCaches # {}
  /\ Take(cpuset_first(machine.caches[cpu_prev][Nearest(SharedCaches)] \cap avail))

\* Slip: nodes are not looked at.
UnknownsOnly == avail \ machine.known

\* The search through the unused CPUs ends at one of the same node, or at one that is
\* not in the topology.
NodeStops ==
  {c \in avail : c \in machine.known => machine.node[c] = machine.node[cpu_prev]}

SameNode ==
  /\ Searching
  /\ SharedCaches = {}
  /\ cpuset_first(NodeStops) \in machine.known
  /\ Take(cpuset_first(NodeStops))

NoTopologyOfOther ==
  /\ Searching
  /\ SharedCaches = {}
  /\ NodeStops # {}
  /\ cpuset_first(NodeStops) \notin machine.known
  /\ Fail

AnyCpu ==
  /\ Searching
  /\ SharedCaches = {}
  /\ NodeStops = {}
  /\ Take(cpuset_first(avail))

\* Slip: what was used is not taken out of the region's mask.
UsedStay == cpus_available

Unused == avail

Commit ==
  /\ pc = "next"
  /\ ~Missing
  /\ cpus_available' = Unused
  /\ affinities' = [affinities EXCEPT ![process_rank] = use]
  /\ process_rank' = process_rank + 1
  /\ pc' = "rank"
  /\ UNCHANGED << given, localVars, again >>

Done ==
  /\ pc = "rank"
  /\ process_rank >= nr_processes
  /\ process_rank' = 0
  /\ pc' = "done"
  /\ UNCHANGED << given, cpus_available, affinities, localVars, again >>

\* If the process of rank 0 was refused its CPUs, process_rank is still 0 when the next one
\* has the turn (see Bind in PartExec), and that one partitions what is left.
Again ==
  /\ pc = "done"
  /\ ~again
  /\ again' = TRUE
  /\ pc' = "rank"
  /\ UNCHANGED << given, regionVars, localVars >>

Next ==
  \/ StartRank \/ SameCache \/ SameNode \/ AnyCpu \/ Commit \/ Done \/ Again
  \/ NoTopology \/ NoTopologyOfOther

Spec == Init /\ [][Next]_vars
-----------------------------------------------------------------------------
TypeOK ==
  /\ machine \in Machine
  /\ nr_processes \in Nat /\ cpus_to_assign \in Nat /\ process_rank \in Nat
  /\ cpus_available \subseteq CPU /\ avail \subseteq CPU /\ use \subseteq CPU
  /\ affinities \in [Rank -> SUBSET CPU]
  /\ cpu_prev \in CPU \cup {NoCpu}
  /\ cpus_assigned \in Nat
  /\ pc \in {"rank", "next", "done", "failed"}
  /\ again \in BOOLEAN

\* A CPU that a rank was given is given to no other rank and is not available any more,
\* also if the partitioning is given up or done a second time (970-1070).
NoneTwice ==
  \A r \in Rank : /\ affinities[r] \cap cpus_available = {}
                  /\ \A s \in Rank \ {r} : affinities[r] \cap affinities[s] = {}

\* All CPUs of a cache see it at the same place and are on one node, and the caches further
\* out hold those inside.
Nested(m) ==
  \A c \in CPU : \A k \in DOMAIN m.caches[c] :
    /\ \A d \in m.caches[c][k] : /\ k \in DOMAIN m.caches[d] /\ m.caches[d][k] = m.caches[c][k]
                                 /\ m.node[d] = m.node[c]
    /\ \A j \in DOMAIN m.caches[c] : j < k => m.caches[c][j] \subseteq m.caches[c][k]

\* The sets of CPUs that share a cache, for each place in the lists, and the NUMA nodes.
Levels ==
  LET cache(k) == {machine.caches[c][k] : c \in {d \in CPU : k \in DOMAIN machine.caches[d]}}
      node == {{d \in CPU : machine.node[d] = machine.node[c]} : c \in CPU}
  IN  {cache(k) : k \in UNION {DOMAIN machine.caches[c] : c \in CPU}} \cup {node}

\* Ranks are packed: on a machine whose caches nest, two ranks meet in at most one core, in
\* at most one cache of every other level and on at most one NUMA node (1008-1057).
Packed ==
  pc = "done" /\ ~again /\ Nested(machine) =>
    \A r \in 0 .. nr_processes - 1, s \in 0 .. nr_processes - 1, level \in Levels :
      r # s => Cardinality({d \in level : /\ d \cap affinities[r] # {}
                                         /\ d \cap affinities[s] # {}}) <= 1

\* The partitioning fails only if a CPU of its own is missing in the topology, or if it is
\* repeated and runs out of CPUs (999-1004, 1035-1040).
FailsForCause ==
  pc = "failed" => \/ ~(use \cup avail \subseteq machine.known)
                   \/ again /\ cpu_prev = NoCpu

Shares == INSTANCE CpuShares WITH
  free <- cpus_available, shares <- affinities, next <- process_rank,
  nr <- nr_processes, quota <- cpus_to_assign

\* Whatever the topology, each commit hands the next rank a share of the size that
\* PartExec assumes, out of the available CPUs (970-1075).
ImplementsShares == Shares!Spec
=============================================================================
