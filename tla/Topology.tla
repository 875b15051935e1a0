------------------------------ MODULE Topology ------------------------------
(***************************************************************************)
(* collect_topology(): what the first process of a group reads from sysfs  *)
(* before it partitions the CPUs.  CPUs may go offline and come back while *)
(* it reads, and calls that allocate memory or open a file may fail.       *)
(*                                                                         *)
(* A directory of sysfs is there or not, and all reads of files in it that *)
(* the code treats alike are one step.                                     *)
(***************************************************************************)
EXTENDS Integers, Sequences, FiniteSets, FiniteSetsExt, SequencesExt

CONSTANTS
  CPU,          \* 0 .. get_nprocs_conf() - 1
  Index,        \* the places in the list of caches that are looked at
  Machine,      \* the machines there are: m.count is numa_num_configured_nodes(), m.dirs
                \* are the nodes with a directory, m.node is the node of each CPU,
                \* m.caches[c] are the CPUs that share each cache of CPU c
  MaxFaults,    \* bounds the calls that fail for want of memory or descriptors
  MaxPlugs      \* bounds the times that a CPU goes offline or comes back

ASSUME TopologyAssumption ==
  /\ IsFiniteSet(CPU) /\ CPU = 0 .. Cardinality(CPU) - 1
  /\ IsFiniteSet(Index) /\ Index = 0 .. Cardinality(Index) - 1
  /\ MaxFaults \in Nat /\ MaxPlugs \in Nat
  /\ \A m \in Machine :
       /\ m.count \in Nat
       /\ m.dirs \subseteq Nat
       /\ m.node \in [CPU -> m.dirs]
       /\ \A c \in CPU : \E levels \in SUBSET Index : m.caches[c] \in [levels -> SUBSET CPU]

VARIABLES
  machine,
  online,               \* the CPUs that are online
  unplugged,            \* those that were offline at some time since the start
  faults, plugs,        \* count the calls that failed and the changes of online
  cpus,                 \* local of collect_topology(): the CPUs to collect
  cpu, node, index,     \* the loops
  p,                    \* the CPU being collected: local of collect_cpu_topology()
  cpu_topology_list,
  node_topology_list,
  pc

sysfs == << machine, online, unplugged, plugs >>
lists == << cpu_topology_list, node_topology_list >>
vars == << sysfs, faults, cpus, cpu, node, index, p, lists, pc >>

NoTopo == [cpu_id |-> -1]
CpuTopo == [cpu_id : CPU, node_id : Nat, caches : Seq([index : Index, shared : SUBSET CPU])]

Init ==
  /\ machine \in Machine
  /\ online \in SUBSET CPU \ {{}}
  /\ unplugged = CPU \ online
  /\ faults = 0 /\ plugs = 0
  /\ cpus = {} /\ cpu = 0 /\ node = 0 /\ index = 0
  /\ p = NoTopo
  /\ cpu_topology_list = << >> /\ node_topology_list = << >>
  /\ pc = "start"

\* malloc(), open() or read() fails though the file is there.
CallFails ==
  /\ faults < MaxFaults
  /\ faults' = faults + 1

\* The functions that read a file: the file is not there, or a call fails.
ReadFails(there) == IF there THEN CallFails ELSE UNCHANGED faults

Goto(from, to) == pc = from /\ pc' = to

Fail(from) ==
  /\ Goto(from, "failed")
  /\ UNCHANGED << sysfs, cpus, cpu, node, index, p, lists >>

-----------------------------------------------------------------------------
\* collect_topology() up to the first loop.  numa_available(), or the reading of the list of
\* online CPUs, fails.
StartFails ==
  /\ Fail("start")
  /\ CallFails

ReadOnline ==
  /\ Goto("start", "cpu")
  /\ cpus' = online
  /\ UNCHANGED << sysfs, faults, cpu, node, index, p, lists >>

SkipCpu ==
  /\ Goto("cpu", "cpu")
  /\ cpu \in CPU \ cpus
  /\ cpu' = cpu + 1
  /\ UNCHANGED << sysfs, faults, cpus, node, index, p, lists >>

-----------------------------------------------------------------------------
\* collect_cpu_topology().

\* Slip: index 0 is passed over.
SecondIndex == 1

FirstIndex == 0

\* memset() to core_id, core_siblings, physical_package_id and thread_siblings.
ReadCpu ==
  /\ Goto("cpu", "node")
  /\ cpu \in cpus \cap online
  /\ p' = [cpu_id |-> cpu, node_id |-> 0, caches |-> << >>]
  /\ UNCHANGED << sysfs, faults, cpus, cpu, node, index, lists >>

ReadCpuFails ==
  /\ cpu \in cpus
  /\ ReadFails(cpu \in online)
  /\ Fail("cpu")

\* One of the names that are tried, node0, node1, ..., is in the directory of CPU c.
HasNode(c) == c \in online /\ machine.node[c] < machine.count

\* Slip: the number is taken after the loop, which then runs to its end.
LastNode(c) == machine.count

NodeId(c) == machine.node[c]

FindNode ==
  /\ Goto("node", "cache")
  /\ HasNode(cpu)
  /\ p' = [p EXCEPT !.node_id = NodeId(cpu)]
  /\ index' = FirstIndex
  /\ UNCHANGED << sysfs, faults, cpus, cpu, node, lists >>

\* stat() fails for every number, for whatever reason: the 0 of memset() stays, and the CPU
\* is collected all the same.
MissNode ==
  /\ Goto("node", "cache")
  /\ ReadFails(HasNode(cpu))
  /\ index' = FirstIndex
  /\ UNCHANGED << sysfs, cpus, cpu, node, p, lists >>

HasCache(c, i) == c \in online /\ i \in DOMAIN machine.caches[c]

\* collect_cache_topology(): "File doesn't exist, it's not an error", and any other reason
\* why "level" cannot be opened is none either.
SkipCache ==
  /\ Goto("cache", "cache")
  /\ index \in Index
  /\ ReadFails(HasCache(cpu, index))
  /\ index' = index + 1
  /\ UNCHANGED << sysfs, cpus, cpu, node, p, lists >>

FindCache ==
  /\ Goto("cache", "read")
  /\ HasCache(cpu, index)
  /\ UNCHANGED << sysfs, faults, cpus, cpu, node, index, p, lists >>

\* Slip: list_add() instead of list_add_tail().
CacheFirst(cache) == << cache >> \o p.caches

WithCache(cache) == Append(p.caches, cache)

\* The files of a cache, of which shared_cpu_map is the last and lists online CPUs.
ReadCache ==
  /\ Goto("read", "cache")
  /\ HasCache(cpu, index)
  /\ p' = [p EXCEPT !.caches =
             WithCache([index |-> index, shared |-> machine.caches[cpu][index] \cap online])]
  /\ index' = index + 1
  /\ UNCHANGED << sysfs, faults, cpus, cpu, node, lists >>

\* Slip: the outer caches are tried all the same.
TryNext == index + 1

GiveUp == Cardinality(Index)

\* There is no memory for the name of the cache's directory, or a file of a cache that was
\* found cannot be read any more: no more caches.
ReadCacheFails ==
  /\ pc' = "cache"
  /\ \/ pc = "cache" /\ index \in Index /\ CallFails
     \/ pc = "read" /\ ReadFails(HasCache(cpu, index))
  /\ index' = GiveUp
  /\ UNCHANGED << sysfs, cpus, cpu, node, p, lists >>

\* Slip: a CPU without caches is not added.
AddedIfCached == IF p.caches = << >> THEN cpu_topology_list ELSE Append(cpu_topology_list, p)

\* With or without all of its caches the CPU is added.
Added == Append(cpu_topology_list, p)

AddCpu ==
  /\ Goto("cache", "cpu")
  /\ index \notin Index
  /\ cpu_topology_list' = Added
  /\ p' = NoTopo
  /\ cpu' = cpu + 1
  /\ UNCHANGED << sysfs, faults, cpus, node, index, node_topology_list >>

-----------------------------------------------------------------------------
\* Slip: one node more.
OneMoreNode == node <= machine.count

MoreNodes == node < machine.count

\* collect_node_topology() for all nodes.
ReadNode ==
  /\ pc' = "cpu" /\ pc = "cpu" /\ cpu \notin CPU
  /\ MoreNodes
  /\ node \in machine.dirs
  /\ node_topology_list' =
       Append(node_topology_list,
              [node_number |-> node, cpumap |-> {c \in online : machine.node[c] = node}])
  /\ node' = node + 1
  /\ UNCHANGED << sysfs, faults, cpus, cpu, index, p, cpu_topology_list >>

ReadNodeFails ==
  /\ cpu \notin CPU
  /\ MoreNodes
  /\ ReadFails(node \in machine.dirs)
  /\ Fail("cpu")

Done ==
  /\ Goto("cpu", "done")
  /\ cpu \notin CPU
  /\ ~MoreNodes
  /\ UNCHANGED << sysfs, faults, cpus, cpu, node, index, p, lists >>

-----------------------------------------------------------------------------
\* Somebody takes a CPU offline, or brings one back.  One CPU stays.
Plug ==
  /\ plugs < MaxPlugs
  /\ pc \notin {"done", "failed"}
  /\ plugs' = plugs + 1
  /\ \/ \E c \in online : /\ online # {c}
                          /\ online' = online \ {c}
                          /\ unplugged' = unplugged \cup {c}
     \/ \E c \in CPU \ online : online' = online \cup {c} /\ UNCHANGED unplugged
  /\ UNCHANGED << machine, faults, cpus, cpu, node, index, p, lists, pc >>

Next ==
  \/ StartFails \/ ReadOnline \/ SkipCpu \/ ReadCpu \/ ReadCpuFails
  \/ FindNode \/ MissNode
  \/ SkipCache \/ FindCache \/ ReadCache \/ ReadCacheFails \/ AddCpu
  \/ ReadNode \/ ReadNodeFails \/ Done
  \/ Plug

Spec == Init /\ [][Next]_vars
-----------------------------------------------------------------------------
TypeOK ==
  /\ machine \in Machine
  /\ online \subseteq CPU /\ unplugged \subseteq CPU /\ cpus \subseteq CPU
  /\ faults \in 0 .. MaxFaults /\ plugs \in 0 .. MaxPlugs
  /\ cpu \in 0 .. Cardinality(CPU) /\ node \in 0 .. machine.count
  /\ index \in 0 .. Cardinality(Index)
  /\ p = NoTopo \/ p \in CpuTopo
  /\ cpu_topology_list \in Seq(CpuTopo)
  /\ node_topology_list \in Seq([node_number : Nat, cpumap : SUBSET CPU])
  /\ pc \in {"start", "cpu", "node", "cache", "read", "done", "failed"}

Topo(c) == CHOOSE t \in ToSet(cpu_topology_list) : t.cpu_id = c

Listed == {t.cpu_id : t \in ToSet(cpu_topology_list)}

\* The nodes of two CPUs are told apart unless one of the nodes has a number that the
\* lookup does not reach, or the lookup went wrong: a stat() that fails is passed over, and
\* the CPU then counts as one of node 0 (649-660).
NodesApart ==
  pc = "done" /\ faults = 0 =>
    \A c, d \in Listed \ unplugged :
      /\ machine.node[c] = machine.node[d] => Topo(c).node_id = Topo(d).node_id
      /\ {machine.node[c], machine.node[d]} \subseteq 0 .. machine.count - 1 =>
           (Topo(c).node_id = Topo(d).node_id => machine.node[c] = machine.node[d])

\* The partitioning goes through the caches "from the most inner one outwards" (1008): they
\* are listed in that order, and a cache that could not be read takes those outside of it
\* with it.  Only an inner cache that could not even be looked up is passed over, at the
\* price of a failed call or of a CPU that was offline (474-479, 490-494, 662-669).
InnermostFirst ==
  \A t \in ToSet(cpu_topology_list) : \A k \in DOMAIN t.caches :
    /\ k > 1 => t.caches[k - 1].index < t.caches[k].index
    /\ t.caches[k].index > k - 1 => faults > 0 \/ t.cpu_id \in unplugged

\* Caches get lost only by failed calls, or with a CPU that was offline (662-674).
CachesComplete ==
  \A t \in ToSet(cpu_topology_list) :
    \/ faults > 0 \/ t.cpu_id \in unplugged
    \/ Len(t.caches) = Cardinality(DOMAIN machine.caches[t.cpu_id])

\* The collection fails only for a cause: a call failed, a CPU went offline after the list
\* of online CPUs was read, or the numbers of the nodes have gaps (717-742).
FailsForCause ==
  pc = "failed" => \/ faults > 0
                   \/ cpus \cap unplugged # {}
                   \/ ~(0 .. machine.count - 1 \subseteq machine.dirs)
=============================================================================
