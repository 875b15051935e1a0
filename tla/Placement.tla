----------------------------- MODULE Placement -----------------------------
(***************************************************************************)
(* What the first process of a group does with its turn: it collects the   *)
(* topology (Topology) and partitions the CPUs that the processes of the   *)
(* group have discovered among themselves before by what it has found      *)
(* (CpuPartition).                                                         *)
(***************************************************************************)
EXTENDS Topology

CONSTANTS
  NoCpu,        \* CPU_SETSIZE
  Rank          \* the ranks there may be

VARIABLES
  nr_processes, cpus_to_assign,                   \* as in CpuPartition
  cpus_available, process_rank, affinities,
  avail, use, cpu_prev, cpus_assigned,
  step          \* "collect" before the partitioning, then pc of CpuPartition

partitionVars ==
  << nr_processes, cpus_to_assign, cpus_available, process_rank, affinities,
     avail, use, cpu_prev, cpus_assigned, step >>

\* The lists as the partitioning looks at them.
Found ==
  [node   |-> [c \in CPU |-> IF c \in Listed THEN Topo(c).node_id ELSE 0],
   caches |-> [c \in CPU |-> IF c \in Listed
                             THEN [k \in DOMAIN Topo(c).caches |-> Topo(c).caches[k].shared]
                             ELSE << >>],
   known  |-> Listed]

\* One process partitions, once; that it may be done again is a matter of CpuPartition.
P == INSTANCE CpuPartition WITH
  machine <- Found, Machine <- {}, pc <- step, again <- step = "again"

ASSUME PlacementAssumption == P!RankAssumption /\ NoCpu \in Nat \ CPU

PlaceInit ==
  /\ Init
  /\ nr_processes = 0 /\ cpus_to_assign = 0
  /\ cpus_available = {} /\ process_rank = 0
  /\ affinities = [r \in Rank |-> {}]
  /\ avail = {} /\ use = {} /\ cpu_prev = NoCpu /\ cpus_assigned = 0
  /\ step = "collect"

Collect == step = "collect" /\ Next /\ UNCHANGED partitionVars

\* Any CPUs may have been discovered, those too that went offline since.
Partition ==
  /\ step = "collect" /\ pc = "done"
  /\ step' = "rank"
  /\ cpus_available' \in SUBSET CPU
  /\ nr_processes' \in 2 .. Cardinality(Rank)
  /\ cpus_to_assign' = Cardinality(cpus_available') \div nr_processes'
  /\ UNCHANGED << vars, process_rank, affinities, avail, use, cpu_prev, cpus_assigned >>

Place ==
  /\ step # "collect"
  /\ UNCHANGED vars
  /\ \/ P!StartRank \/ P!SameCache \/ P!SameNode \/ P!AnyCpu \/ P!Commit \/ P!Done
     \/ P!NoTopology \/ P!NoTopologyOfOther

PlaceNext == Collect \/ Partition \/ Place

PlaceSpec == PlaceInit /\ [][PlaceNext]_<< vars, partitionVars >>
-----------------------------------------------------------------------------
Discovered == cpus_available \cup UNION {affinities[r] : r \in Rank}

\* The partitioning fails only if a CPU that was discovered was offline at some time since
\* the collection began: any other one is in the list, whatever the reads of sysfs ran into
\* (722-745, 988-1004, 1024-1040).
PlacedUnlessUnplugged == step = "failed" => Discovered \cap unplugged # {}

\* The CPUs that share the cache of some index, and the NUMA nodes, of the hardware.
CachesAt(i) == {machine.caches[c][i] : c \in {d \in CPU : i \in DOMAIN machine.caches[d]}}
Nodes == {{d \in CPU : machine.node[d] = machine.node[c]} : c \in CPU}

Plain == machine.dirs = 0 .. machine.count - 1 /\ P!Nested(machine)

Meet(r, s, level) == {d \in level : d \cap affinities[r] # {} /\ d \cap affinities[s] # {}}

\* If no call failed and no CPU that was discovered went offline, ranks are packed on the
\* hardware itself: of the caches of a level, and of the nodes, two ranks meet in at most
\* one, though CPUs that were not discovered came and went (579-745, 1008-1057).
PackedOnHardware ==
  step = "done" /\ faults = 0 /\ Discovered \cap unplugged = {} /\ Plain =>
    \A level \in {CachesAt(i) : i \in Index} \cup {Nodes} :
      \A r, s \in Rank : r # s => Cardinality(Meet(r, s, level)) <= 1
=============================================================================
