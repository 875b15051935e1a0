-------------------------- MODULE PlacementProofs --------------------------
(***************************************************************************)
(* What collect_topology() makes of any machine, whichever of its calls    *)
(* fail and whichever CPUs go offline meanwhile; and what the partitioning *)
(* makes of the topology that was collected, on any hardware and whatever  *)
(* happens while the first process of the group reads sysfs.               *)
(*                                                                         *)
(* A CPU that is in the list is there with the caches that were read: all  *)
(* those below the place where the reading stopped, unless something went  *)
(* wrong, and what can go wrong leaves a trace, a call that failed or a    *)
(* CPU that was offline at some time.                                      *)
(*                                                                         *)
(* The lemmas of CpuPartitionProofs hold of any topology, those about the  *)
(* collection say how the one that is found relates to the hardware. What  *)
(* is left is to bring them together: the CPUs that were online all the    *)
(* time are in the list, and their caches and nodes, as the search sees    *)
(* them, are those of the hardware.                                        *)
(***************************************************************************)
EXTENDS Placement, FiniteSetTheorems, SequenceTheorems, TLAPS

\* collect_cpu_topology() is at the caches of a CPU.
InCpu == pc \in {"cache", "read"}

\* What would excuse that a cache of CPU c is missing, or its node.
Excused(c) == faults > 0 \/ c \in unplugged

\* What the loop over the nodes comes to if every stat() tells the truth.
LookedUp(c) == IF machine.node[c] < machine.count THEN machine.node[c] ELSE 0

\* The node of t is that of its CPU.
NodeRead(t) == Excused(t.cpu_id) \/ t.node_id = LookedUp(t.cpu_id)

\* The loops are at a CPU that was online, and at a cache that it had.
LoopInv ==
  /\ CPU \ online \subseteq unplugged
  /\ pc = "node" => cpu \in cpus /\ p = [cpu_id |-> cpu, node_id |-> 0, caches |-> << >>]
  /\ InCpu => cpu \in cpus /\ p \in CpuTopo /\ p.cpu_id = cpu
  /\ pc = "read" => index \in DOMAIN machine.caches[cpu]

\* The caches of t are in the order of their places in sysfs, all of them below end.
Ordered(t, end) ==
  \A k \in DOMAIN t.caches :
    /\ t.caches[k].index < end
    /\ k > 1 => t.caches[k - 1].index < t.caches[k].index

\* t has the caches of its CPU that are below end.
Complete(t, end) ==
  \/ Excused(t.cpu_id)
  \/ Len(t.caches) = Cardinality({i \in DOMAIN machine.caches[t.cpu_id] : i < end})

\* The caches of t stand at their places in sysfs.
InPlace(t) ==
  \/ Excused(t.cpu_id)
  \/ \A k \in DOMAIN t.caches : t.caches[k].index = k - 1

\* The directories of a CPU's caches are numbered without gaps.
ContiguousCaches ==
  \A m \in Machine, c \in CPU : \A i \in DOMAIN m.caches[c] : 0 .. i \subseteq DOMAIN m.caches[c]

\* So it is for the CPU that is being collected, and for those in the list.
InPlaceInv ==
  /\ InCpu => InPlace(p)
  /\ \A n \in DOMAIN cpu_topology_list : InPlace(cpu_topology_list[n])

\* What a CPU that is in the list is listed with.
Fine(t) ==
  /\ Ordered(t, Cardinality(Index)) /\ Complete(t, Cardinality(Index))
  /\ NodeRead(t)

\* What has been collected is in order, and complete unless there is an excuse.
ListInv ==
  /\ InCpu => Ordered(p, index) /\ Complete(p, index) /\ NodeRead(p)
  /\ \A n \in DOMAIN cpu_topology_list : Fine(cpu_topology_list[n])

\* The inductive invariant, of any machine.
TopoInv ==
  /\ TypeOK
  /\ LoopInv
  /\ ListInv
  /\ FailsForCause

\* The caches of t are caches of its CPU, in their order, with all CPUs that share them but
\* for some that were offline.
Genuine(t) ==
  \A k \in DOMAIN t.caches :
    /\ t.caches[k].index \in DOMAIN machine.caches[t.cpu_id]
    /\ t.caches[k].shared \subseteq machine.caches[t.cpu_id][t.caches[k].index]
    /\ machine.caches[t.cpu_id][t.caches[k].index] \ unplugged \subseteq t.caches[k].shared
    /\ \A j \in DOMAIN t.caches : j < k => t.caches[j].index < t.caches[k].index

\* Every cache of its CPU that is below end is among the caches of t.
AllRead(t, end) ==
  \/ Excused(t.cpu_id)
  \/ \A i \in DOMAIN machine.caches[t.cpu_id] :
       i < end => \E k \in DOMAIN t.caches : t.caches[k].index = i

\* What the partitioning may rely on: the CPUs that were online all the time are listed, and
\* with their caches.
ReadInv ==
  /\ InCpu => Genuine(p) /\ AllRead(p, index)
  /\ \A n \in DOMAIN cpu_topology_list :
       Genuine(cpu_topology_list[n]) /\ AllRead(cpu_topology_list[n], Cardinality(Index))
  /\ pc = "start" => cpu = 0
  /\ pc \notin {"start", "failed"} => CPU \ unplugged \subseteq cpus
  /\ \A c \in cpus : c < cpu => c \in Listed
  /\ pc = "done" => cpus \subseteq Listed

-----------------------------------------------------------------------------
\* The sizes of the machine.
LEMMA Sizes ==
  /\ Cardinality(CPU) \in Nat /\ Cardinality(Index) \in Nat
  /\ \A c : c \in CPU <=> c \in Int /\ 0 <= c /\ c < Cardinality(CPU)
  /\ \A i : i \in Index <=> i \in Int /\ 0 <= i /\ i < Cardinality(Index)
  /\ MaxFaults \in Nat /\ MaxPlugs \in Nat
<1>1. Cardinality(CPU) \in Nat /\ Cardinality(Index) \in Nat
  BY TopologyAssumption, FS_CardinalityType
<1>2. CPU = 0 .. Cardinality(CPU) - 1 /\ Index = 0 .. Cardinality(Index) - 1
  BY TopologyAssumption
<1>3. \A c : c \in CPU <=> c \in Int /\ 0 <= c /\ c < Cardinality(CPU)
  BY <1>1, <1>2
<1>4. \A i : i \in Index <=> i \in Int /\ 0 <= i /\ i < Cardinality(Index)
  BY <1>1, <1>2
<1> QED
  BY <1>1, <1>3, <1>4, TopologyAssumption

\* What collect_topology() finds of a machine.
LEMMA MachineTypes ==
  ASSUME TypeOK, NEW c \in CPU
  PROVE  /\ machine.count \in Nat
         /\ machine.node[c] \in Nat
         /\ DOMAIN machine.caches[c] \subseteq Index
         /\ \A i \in DOMAIN machine.caches[c] : machine.caches[c][i] \subseteq CPU
<1>1. machine \in Machine
  BY DEF TypeOK
<1>2. machine.count \in Nat /\ machine.dirs \subseteq Nat /\ machine.node \in [CPU -> machine.dirs]
  BY <1>1, TopologyAssumption
<1>3. \E levels \in SUBSET Index : machine.caches[c] \in [levels -> SUBSET CPU]
  BY <1>1, TopologyAssumption
<1> QED
  BY <1>2, <1>3

\* After the lookup of its node a CPU is there without caches, and with its node unless
\* stat() failed or the CPU was offline.
LEMMA AfterLookUp ==
  ASSUME TopoInv, FindNode \/ MissNode
  PROVE  /\ pc = "node" /\ pc' = "cache" /\ index' = 0
         /\ cpu \in CPU /\ cpu \in cpus
         /\ p' \in CpuTopo /\ p'.cpu_id = cpu /\ p'.caches = << >>
         /\ NodeRead(p)'
         /\ faults' \in 0 .. MaxFaults
         /\ UNCHANGED << sysfs, cpus, cpu, node, lists >>
<1>1. /\ pc = "node" /\ pc' = "cache" /\ index' = 0
      /\ UNCHANGED << sysfs, cpus, cpu, node, lists >>
  BY DEF FindNode, MissNode, Goto, FirstIndex
<1>2. cpu \in cpus /\ p = [cpu_id |-> cpu, node_id |-> 0, caches |-> << >>] /\ cpu \in CPU
      /\ CPU \ online \subseteq unplugged /\ faults \in 0 .. MaxFaults
  BY <1>1 DEF TopoInv, LoopInv, TypeOK
<1>3. machine.node[cpu] \in Nat /\ machine.count \in Nat
  BY <1>2, MachineTypes DEF TopoInv
<1>4. machine' = machine /\ unplugged' = unplugged
  BY <1>1 DEF sysfs
<1>5. << >> \in Seq([index : Index, shared : SUBSET CPU])
  OBVIOUS
<1>6. CASE FindNode
  <2>1. p' = [cpu_id |-> cpu, node_id |-> machine.node[cpu], caches |-> << >>]
        /\ machine.node[cpu] < machine.count /\ faults' = faults
    BY <1>2, <1>6 DEF FindNode, HasNode, NodeId
  <2>2. p' \in CpuTopo
    BY <1>2, <1>3, <1>5, <2>1 DEF CpuTopo
  <2>3. NodeRead(p)'
    BY <1>4, <2>1 DEF NodeRead, LookedUp
  <2> QED
    BY <1>1, <1>2, <2>1, <2>2, <2>3
<1>7. CASE MissNode
  <2>1. p' = p /\ (HasNode(cpu) => faults < MaxFaults /\ faults' = faults + 1)
        /\ (~HasNode(cpu) => faults' = faults)
    BY <1>7 DEF MissNode, ReadFails, CallFails
  <2>2. p' \in CpuTopo
    BY <1>2, <1>5, <2>1 DEF CpuTopo
  <2>3. faults' \in 0 .. MaxFaults /\ (HasNode(cpu) => faults' > 0)
    BY <1>2, <2>1, Sizes
  <2>4. cpu \in unplugged \/ HasNode(cpu) \/ ~(machine.node[cpu] < machine.count)
    BY <1>2 DEF HasNode
  <2>5. NodeRead(p)'
    BY <1>2, <1>4, <2>1, <2>3, <2>4 DEF NodeRead, LookedUp, Excused
  <2> QED
    BY <1>1, <1>2, <2>1, <2>2, <2>3, <2>5
<1> QED
  BY <1>6, <1>7

\* No step leaves the types.
LEMMA TypesKept ==
  ASSUME TopoInv, [Next]_vars
  PROVE  TypeOK'
<1>1. CASE StartFails
  BY <1>1, Sizes DEF TopoInv, TypeOK, StartFails, Fail, Goto, CallFails, sysfs, lists
<1>2. CASE ReadOnline
  BY <1>2, Sizes DEF TopoInv, TypeOK, ReadOnline, Goto, sysfs, lists
<1>3. CASE SkipCpu
  BY <1>3, Sizes DEF TopoInv, TypeOK, SkipCpu, Goto, sysfs, lists
<1>4. CASE ReadCpu
  <2>1. cpu \in CPU /\ << >> \in Seq([index : Index, shared : SUBSET CPU])
    BY <1>4 DEF ReadCpu, TopoInv, TypeOK
  <2>2. p' \in CpuTopo
    BY <1>4, <2>1 DEF ReadCpu, CpuTopo
  <2> QED
    BY <1>4, <2>2 DEF ReadCpu, Goto, TopoInv, TypeOK, sysfs, lists
<1>5. CASE ReadCpuFails
  BY <1>5, Sizes DEF TopoInv, TypeOK, ReadCpuFails, ReadFails, CallFails, Fail, Goto, sysfs,
      lists
<1>6. CASE SkipCache
  BY <1>6, Sizes DEF TopoInv, TypeOK, SkipCache, Goto, ReadFails, CallFails, HasCache, sysfs,
      lists
<1>7. CASE FindCache
  BY <1>7, Sizes DEF TopoInv, TypeOK, FindCache, Goto, HasCache, sysfs, lists
<1>8. CASE ReadCache
  <2> DEFINE cache == [index |-> index, shared |-> machine.caches[cpu][index] \cap online]
  <2>1. /\ pc = "read" /\ pc' = "cache" /\ index' = index + 1
        /\ p' = [p EXCEPT !.caches = Append(p.caches, cache)]
        /\ UNCHANGED << sysfs, faults, cpus, cpu, node, lists >>
    BY <1>8 DEF ReadCache, Goto, WithCache
  <2>2. cpu \in CPU /\ index \in DOMAIN machine.caches[cpu] /\ p \in CpuTopo
    BY <2>1 DEF TopoInv, TypeOK, LoopInv, InCpu
  <2>3. index \in Index /\ machine.caches[cpu][index] \subseteq CPU
    BY <2>2, MachineTypes DEF TopoInv
  <2>4. cache \in [index : Index, shared : SUBSET CPU]
    BY <2>3
  <2>5. p' \in CpuTopo
    BY <2>1, <2>2, <2>4, AppendProperties DEF CpuTopo
  <2>6. index' \in 0 .. Cardinality(Index)
    BY <2>1, <2>3, Sizes
  <2> QED
    BY <2>1, <2>5, <2>6 DEF TopoInv, TypeOK, sysfs, lists
<1>9. CASE ReadCacheFails
  BY <1>9, Sizes DEF TopoInv, TypeOK, ReadCacheFails, ReadFails, CallFails, HasCache, GiveUp,
      sysfs, lists
<1>10. CASE AddCpu
  <2>1. /\ pc = "cache" /\ pc' = "cpu" /\ cpu' = cpu + 1 /\ p' = NoTopo
        /\ cpu_topology_list' = Append(cpu_topology_list, p)
        /\ UNCHANGED << sysfs, faults, cpus, node, index, node_topology_list >>
    BY <1>10 DEF AddCpu, Goto, Added
  <2>2. cpu \in CPU /\ p \in CpuTopo
    BY <2>1 DEF TopoInv, TypeOK, LoopInv, InCpu
  <2>3. cpu' \in 0 .. Cardinality(CPU)
    BY <2>1, <2>2, Sizes
  <2>4. cpu_topology_list' \in Seq(CpuTopo)
    BY <2>1, <2>2, AppendProperties DEF TopoInv, TypeOK
  <2> QED
    BY <2>1, <2>3, <2>4 DEF TopoInv, TypeOK, sysfs
<1>11. CASE ReadNode
  <2> DEFINE n == [node_number |-> node, cpumap |-> {c \in online : machine.node[c] = node}]
  <2>1. /\ node < machine.count /\ node' = node + 1 /\ pc' = "cpu"
        /\ node_topology_list' = Append(node_topology_list, n)
        /\ UNCHANGED << sysfs, faults, cpus, cpu, index, p, cpu_topology_list >>
    BY <1>11 DEF ReadNode, MoreNodes
  <2>2. machine.count \in Nat
    BY TopologyAssumption DEF TopoInv, TypeOK
  <2>3. node \in Nat /\ node' \in 0 .. machine.count
    BY <2>1, <2>2 DEF TopoInv, TypeOK
  <2>4. n \in [node_number : Nat, cpumap : SUBSET CPU]
    BY <2>3 DEF TopoInv, TypeOK
  <2>5. node_topology_list' \in Seq([node_number : Nat, cpumap : SUBSET CPU])
    BY <2>1, <2>4, AppendProperties DEF TopoInv, TypeOK
  <2> QED
    BY <2>1, <2>3, <2>5 DEF TopoInv, TypeOK, sysfs
<1>12. CASE ReadNodeFails
  BY <1>12, Sizes DEF TopoInv, TypeOK, ReadNodeFails, MoreNodes, ReadFails, CallFails, Fail,
      Goto, sysfs, lists
<1>13. CASE Done
  BY <1>13, Sizes DEF TopoInv, TypeOK, Done, Goto, MoreNodes, sysfs, lists
<1>14. CASE Plug
  BY <1>14, Sizes DEF TopoInv, TypeOK, Plug, sysfs, lists
<1>15. CASE UNCHANGED vars
  BY <1>15 DEF TopoInv, TypeOK, vars, sysfs, lists
<1>16. CASE FindNode \/ MissNode
  BY <1>16, AfterLookUp, Sizes DEF TopoInv, TypeOK, sysfs, lists
<1> QED
  BY <1>1, <1>2, <1>3, <1>4, <1>5, <1>6, <1>7, <1>8, <1>9, <1>10, <1>11, <1>12, <1>13,
     <1>14, <1>15, <1>16 DEF Next

\* What has been recorded stays: the machine, the failures, and which CPUs were offline.
LEMMA Recorded ==
  ASSUME TopoInv, [Next]_vars
  PROVE  /\ machine' = machine
         /\ faults \in Nat /\ faults' \in Nat /\ faults <= faults'
         /\ unplugged \subseteq unplugged'
<1>1. faults \in Nat
  BY Sizes DEF TopoInv, TypeOK
<1>2. CASE Plug
  BY <1>1, <1>2 DEF Plug
<1>3. CASE UNCHANGED vars
  BY <1>1, <1>3 DEF vars, sysfs
<1>4. CASE Next /\ ~Plug
  BY <1>1, <1>4
  DEF Next, StartFails, ReadOnline, SkipCpu, ReadCpu, ReadCpuFails, FindNode, MissNode,
      SkipCache, FindCache, ReadCache,
      ReadCacheFails, AddCpu, ReadNode, ReadNodeFails, Done, Fail, ReadFails, CallFails, sysfs
<1> QED
  BY <1>2, <1>3, <1>4

\* A CPU that is complete stays so.
LEMMA CompleteStays ==
  ASSUME TopoInv, [Next]_vars, NEW t, NEW end, Complete(t, end)
  PROVE  Complete(t, end)'
<1>1. CASE Excused(t.cpu_id)
  BY <1>1, Recorded DEF Complete, Excused
<1>2. CASE ~Excused(t.cpu_id)
  BY <1>2, Recorded DEF Complete, Excused
<1> QED
  BY <1>1, <1>2

\* So does one that is listed with its node.
LEMMA NodeReadStays ==
  ASSUME TopoInv, [Next]_vars, NEW t, NodeRead(t)
  PROVE  NodeRead(t)'
BY Recorded DEF NodeRead, Excused, LookedUp

\* The loops stay at CPUs that were online, and at caches that they had.
LEMMA LoopKept ==
  ASSUME TopoInv, [Next]_vars
  PROVE  LoopInv'
<1>1. CASE StartFails
  BY <1>1 DEF TopoInv, TypeOK, LoopInv, InCpu, StartFails, Fail, Goto, CallFails,
      sysfs, lists
<1>2. CASE ReadOnline
  BY <1>2 DEF TopoInv, TypeOK, LoopInv, InCpu, ReadOnline, Goto, sysfs, lists
<1>3. CASE SkipCpu
  BY <1>3 DEF TopoInv, TypeOK, LoopInv, InCpu, SkipCpu, Goto, sysfs, lists
<1>4. CASE ReadCpu
  BY <1>4 DEF TopoInv, TypeOK, LoopInv, InCpu, ReadCpu, Goto, sysfs, lists
<1>5. CASE ReadCpuFails
  BY <1>5 DEF TopoInv, TypeOK, LoopInv, InCpu, ReadCpuFails, ReadFails, CallFails,
      Fail, Goto, sysfs, lists
<1>6. CASE SkipCache
  BY <1>6 DEF TopoInv, TypeOK, LoopInv, InCpu, SkipCache, Goto, ReadFails, CallFails,
      HasCache, sysfs, lists
<1>7. CASE FindCache
  BY <1>7 DEF TopoInv, TypeOK, LoopInv, InCpu, FindCache, Goto, HasCache, sysfs, lists
<1>8. CASE ReadCache
  <2>1. /\ pc = "read" /\ pc' = "cache" /\ \E c : p' = [p EXCEPT !.caches = c]
        /\ UNCHANGED << sysfs, cpus, cpu >>
    BY <1>8 DEF ReadCache, Goto
  <2>2. p \in CpuTopo /\ p.cpu_id = cpu /\ cpu \in cpus
    BY <2>1 DEF TopoInv, LoopInv, InCpu
  <2>3. p'.cpu_id = cpu
    BY <2>1, <2>2 DEF CpuTopo
  <2>4. p' \in CpuTopo
    <3>1. p' = NoTopo \/ p' \in CpuTopo
      BY TypesKept DEF TypeOK
    <3>2. cpu \in Nat
      BY <2>2, Sizes DEF TopoInv, TypeOK
    <3> QED
      BY <2>3, <3>1, <3>2 DEF NoTopo
  <2> QED
    BY <2>1, <2>2, <2>3, <2>4 DEF TopoInv, LoopInv, sysfs
<1>9. CASE ReadCacheFails
  BY <1>9 DEF TopoInv, TypeOK, LoopInv, InCpu, ReadCacheFails, ReadFails, CallFails,
      HasCache, GiveUp, sysfs, lists
<1>10. CASE AddCpu
  BY <1>10 DEF TopoInv, TypeOK, LoopInv, InCpu, AddCpu, Goto, Added, sysfs, lists
<1>11. CASE ReadNode
  BY <1>11 DEF TopoInv, TypeOK, LoopInv, InCpu, ReadNode, MoreNodes, sysfs, lists
<1>12. CASE ReadNodeFails
  BY <1>12 DEF TopoInv, TypeOK, LoopInv, InCpu, ReadNodeFails, MoreNodes, ReadFails,
      CallFails, Fail, Goto, sysfs, lists
<1>13. CASE Done
  BY <1>13 DEF TopoInv, TypeOK, LoopInv, InCpu, Done, Goto, MoreNodes, sysfs, lists
<1>14. CASE Plug
  BY <1>14 DEF TopoInv, TypeOK, LoopInv, InCpu, Plug, sysfs, lists
<1>15. CASE UNCHANGED vars
  BY <1>15 DEF TopoInv, TypeOK, LoopInv, InCpu, vars, sysfs, lists
<1>16. CASE FindNode \/ MissNode
  <2>1. /\ pc' = "cache" /\ p' \in CpuTopo /\ p'.cpu_id = cpu /\ cpu \in cpus
        /\ UNCHANGED << sysfs, cpus, cpu >>
    BY <1>16, AfterLookUp
  <2> QED
    BY <2>1 DEF TopoInv, LoopInv, sysfs
<1> QED
  BY <1>1, <1>2, <1>3, <1>4, <1>5, <1>6, <1>7, <1>8, <1>9, <1>10, <1>11, <1>12, <1>13,
     <1>14, <1>15, <1>16 DEF Next

\* Whatever makes the collection fail leaves a trace.
LEMMA CauseKept ==
  ASSUME TopoInv, [Next]_vars
  PROVE  FailsForCause'
<1>1. CASE StartFails
  BY <1>1, Sizes DEF TopoInv, TypeOK, LoopInv, InCpu, FailsForCause, StartFails, Fail, Goto,
      CallFails, sysfs, lists
<1>2. CASE ReadOnline
  BY <1>2, Sizes DEF TopoInv, TypeOK, LoopInv, InCpu, FailsForCause, ReadOnline, Goto, sysfs,
      lists
<1>3. CASE SkipCpu
  BY <1>3, Sizes DEF TopoInv, TypeOK, LoopInv, InCpu, FailsForCause, SkipCpu, Goto, sysfs,
      lists
<1>4. CASE ReadCpu
  BY <1>4, Sizes DEF TopoInv, TypeOK, LoopInv, InCpu, FailsForCause, ReadCpu, Goto, FirstIndex,
      sysfs, lists
<1>5. CASE ReadCpuFails
  BY <1>5, Sizes DEF TopoInv, TypeOK, LoopInv, InCpu, FailsForCause, ReadCpuFails, ReadFails,
      CallFails, Fail, Goto, sysfs, lists
<1>6. CASE SkipCache
  BY <1>6, Sizes DEF TopoInv, TypeOK, LoopInv, InCpu, FailsForCause, SkipCache, Goto,
      ReadFails, CallFails, HasCache, sysfs, lists
<1>7. CASE FindCache
  BY <1>7, Sizes DEF TopoInv, TypeOK, LoopInv, InCpu, FailsForCause, FindCache, Goto, HasCache,
      sysfs, lists
<1>8. CASE ReadCache
  BY <1>8, Sizes DEF TopoInv, TypeOK, LoopInv, InCpu, FailsForCause, ReadCache, Goto, HasCache,
      WithCache, sysfs, lists
<1>9. CASE ReadCacheFails
  BY <1>9, Sizes DEF TopoInv, TypeOK, LoopInv, InCpu, FailsForCause, ReadCacheFails, ReadFails,
      CallFails, HasCache, GiveUp, sysfs, lists
<1>10. CASE AddCpu
  BY <1>10, Sizes DEF TopoInv, TypeOK, LoopInv, InCpu, FailsForCause, AddCpu, Goto, Added,
      sysfs, lists
<1>11. CASE ReadNode
  BY <1>11, Sizes DEF TopoInv, TypeOK, LoopInv, InCpu, FailsForCause, ReadNode, MoreNodes,
      sysfs, lists
<1>12. CASE ReadNodeFails
  <2>1. machine.count \in Nat
    BY TopologyAssumption DEF TopoInv, TypeOK
  <2>2. node \in 0 .. machine.count - 1 /\ machine' = machine
    BY <1>12, <2>1 DEF ReadNodeFails, MoreNodes, Fail, sysfs, TopoInv, TypeOK
  <2>3. faults' > 0 \/ node \notin machine.dirs
    BY <1>12, Sizes DEF ReadNodeFails, ReadFails, CallFails, TopoInv, TypeOK
  <2> QED
    BY <2>2, <2>3 DEF FailsForCause
<1>13. CASE Done
  BY <1>13, Sizes DEF TopoInv, TypeOK, LoopInv, InCpu, FailsForCause, Done, Goto, MoreNodes,
      sysfs, lists
<1>14. CASE Plug
  BY <1>14, Sizes DEF TopoInv, TypeOK, LoopInv, InCpu, FailsForCause, Plug, sysfs, lists
<1>15. CASE UNCHANGED vars
  BY <1>15 DEF TopoInv, TypeOK, LoopInv, InCpu, FailsForCause, vars, sysfs, lists
<1>16. CASE FindNode \/ MissNode
  BY <1>16, AfterLookUp DEF FailsForCause
<1> QED
  BY <1>1, <1>2, <1>3, <1>4, <1>5, <1>6, <1>7, <1>8, <1>9, <1>10, <1>11, <1>12, <1>13,
     <1>14, <1>15, <1>16 DEF Next

\* Whatever has been listed stays in order and complete, and what is added to the list was
\* read to its end.
LEMMA ListedStay ==
  ASSUME TopoInv, [Next]_vars
  PROVE  (\A n \in DOMAIN cpu_topology_list : Fine(cpu_topology_list[n]))'
<1>1. ASSUME NEW t, Fine(t)
      PROVE  Fine(t)'
  BY <1>1, CompleteStays, NodeReadStays DEF Fine, Ordered
<1>2. \A n \in DOMAIN cpu_topology_list : Fine(cpu_topology_list[n])
  BY DEF TopoInv, ListInv
<1>3. ASSUME AddCpu
      PROVE  \A n \in DOMAIN cpu_topology_list' : Fine(cpu_topology_list'[n])
  <2>1. cpu_topology_list' = Append(cpu_topology_list, p) /\ pc = "cache" /\ index \notin Index
    BY <1>3 DEF AddCpu, Goto, Added
  <2>2. index = Cardinality(Index)
    <3>1. index \in 0 .. Cardinality(Index) /\ Cardinality(Index) \in Nat
      BY Sizes DEF TopoInv, TypeOK
    <3>2. ~(index < Cardinality(Index))
      BY <2>1, <3>1, Sizes
    <3> QED
      BY <3>1, <3>2
  <2>3. p \in CpuTopo /\ cpu_topology_list \in Seq(CpuTopo)
    BY <2>1 DEF TopoInv, TypeOK, LoopInv, InCpu
  <2>4. Fine(p)
    BY <2>1, <2>2 DEF TopoInv, ListInv, LoopInv, InCpu, Fine
  <2>5. \A n \in DOMAIN cpu_topology_list' : \/ cpu_topology_list'[n] = p
                                            \/ /\ n \in DOMAIN cpu_topology_list
                                               /\ cpu_topology_list'[n] = cpu_topology_list[n]
    BY <2>1, <2>3, AppendProperties
  <2> QED
    BY <1>2, <2>4, <2>5
<1>4. cpu_topology_list' = cpu_topology_list \/ AddCpu
  BY DEF Next, StartFails, ReadOnline, SkipCpu, ReadCpu, ReadCpuFails, FindNode, MissNode,
      SkipCache, FindCache,
         ReadCache, ReadCacheFails, ReadNode, ReadNodeFails, Done, Plug, Fail, lists, vars
<1>5. \A n \in DOMAIN cpu_topology_list' :
        \E t : t = cpu_topology_list'[n] /\ Fine(t)
  <2> SUFFICES ASSUME NEW n \in DOMAIN cpu_topology_list'
               PROVE  Fine(cpu_topology_list'[n])
    OBVIOUS
  <2>1. CASE cpu_topology_list' = cpu_topology_list
    BY <1>2, <2>1
  <2>2. CASE AddCpu
    BY <1>3, <2>2
  <2> QED
    BY <1>4, <2>1, <2>2
<1> SUFFICES ASSUME NEW n \in DOMAIN cpu_topology_list'
             PROVE  (Fine(cpu_topology_list[n]))'
  OBVIOUS
<1>6. PICK t : t = cpu_topology_list'[n] /\ Fine(t)
  BY <1>5
<1>7. Fine(t)'
  BY <1>1, <1>6
<1> QED
  BY <1>6, <1>7

\* One cache more is below the next place.
LEMMA Below ==
  ASSUME NEW S \in SUBSET Nat, IsFiniteSet(S), NEW i \in Nat
  PROVE  /\ Cardinality({x \in S : x < i}) \in Nat
         /\ i \in S => Cardinality({x \in S : x < i + 1}) = Cardinality({x \in S : x < i}) + 1
         /\ i \notin S => {x \in S : x < i + 1} = {x \in S : x < i}
         /\ {x \in S : x < 0} = {}
         /\ 0 .. i \subseteq S => Cardinality({x \in S : x < i}) = i
<1> DEFINE T == {x \in S : x < i}
<1>0. \A x \in S : x \in Nat
  OBVIOUS
<1>1. IsFiniteSet(T) /\ Cardinality(T) \in Nat
  BY FS_Subset, FS_CardinalityType
<1>2. ASSUME i \in S
      PROVE  Cardinality({x \in S : x < i + 1}) = Cardinality(T) + 1
  <2> DEFINE U == {x \in S : x < i + 1}
  <2>0. \A x \in S : x < i + 1 <=> x < i \/ x = i
    BY <1>0
  <2>1. \A x : x \in U <=> x \in T \cup {i}
    BY <1>2, <2>0
  <2>2. i \notin T
    OBVIOUS
  <2> HIDE DEF T, U
  <2>3. U = T \cup {i}
    BY <2>1
  <2>4. Cardinality(U) = Cardinality(T) + 1
    BY <1>1, <2>2, <2>3, FS_AddElement
  <2> QED
    BY <2>4 DEF U
<1>3. ASSUME i \notin S
      PROVE  {x \in S : x < i + 1} = T
  <2>1. \A x \in S : x < i + 1 <=> x < i
    BY <1>0, <1>3
  <2> QED
    BY <2>1
<1>4. ASSUME 0 .. i \subseteq S
      PROVE  Cardinality(T) = i
  <2>1. \A x \in S : x \in T <=> x < i
    OBVIOUS
  <2>2. \A x : x \in 0 .. i - 1 => x \in S /\ x < i
    BY <1>4
  <2>3. \A x : x \in T => x \in 0 .. i - 1
    BY <1>0
  <2>4. T = 0 .. i - 1
    <3> HIDE DEF T
    <3> QED
      BY <2>1, <2>2, <2>3
  <2>5. Cardinality(0 .. i - 1) = IF 0 > i - 1 THEN 0 ELSE (i - 1) - 0 + 1
    BY FS_Interval
  <2> HIDE DEF T
  <2> QED
    BY <2>4, <2>5
<1>5. {x \in S : x < 0} = {}
  <2>1. \A x \in S : ~ (x < 0)
    BY <1>0
  <2> QED
    BY <2>1
<1> QED
  BY <1>1, <1>2, <1>3, <1>4, <1>5

\* The caches of the CPU that is being collected.
LEMMA CachesOfCpu ==
  ASSUME TopoInv, InCpu
  PROVE  /\ cpu \in CPU /\ index \in Nat
         /\ DOMAIN machine.caches[cpu] \in SUBSET Nat
         /\ IsFiniteSet(DOMAIN machine.caches[cpu])
         /\ p \in CpuTopo /\ p.cpu_id = cpu
         /\ p.caches \in Seq([index : Index, shared : SUBSET CPU]) /\ Len(p.caches) \in Nat
         /\ DOMAIN p.caches = 1 .. Len(p.caches)
         /\ \A k \in DOMAIN p.caches : p.caches[k].index \in Nat
<1>1. cpu \in CPU /\ index \in Nat /\ p \in CpuTopo /\ p.cpu_id = cpu
  BY Sizes DEF TopoInv, TypeOK, LoopInv
<1>2. DOMAIN machine.caches[cpu] \subseteq Index
  BY <1>1, MachineTypes DEF TopoInv
<1>3. IsFiniteSet(DOMAIN machine.caches[cpu]) /\ DOMAIN machine.caches[cpu] \in SUBSET Nat
  BY <1>2, Sizes, TopologyAssumption, FS_Subset
<1>4. p.caches \in Seq([index : Index, shared : SUBSET CPU])
  BY <1>1 DEF CpuTopo
<1>5. ASSUME NEW k \in DOMAIN p.caches
      PROVE  p.caches[k].index \in Nat
  <2>1. PICK c : c = p.caches
    OBVIOUS
  <2>2. PICK R : R = [index : Index, shared : SUBSET CPU]
    OBVIOUS
  <2>3. c \in Seq(R)
    BY <1>4, <2>1, <2>2
  <2>4. c[k] \in R
    BY <1>5, <2>1, <2>3
  <2>5. p.caches[k] \in [index : Index, shared : SUBSET CPU]
    BY <2>1, <2>2, <2>4
  <2> QED
    BY <2>5, Sizes
<1> QED
  BY <1>1, <1>3, <1>4, <1>5

\* What is in order below one place is in order below any later one.
LEMMA OrderedBelow ==
  ASSUME NEW t, NEW m \in Nat, NEW n \in Nat, m <= n, Ordered(t, m),
         \A k \in DOMAIN t.caches : t.caches[k].index \in Nat
  PROVE  Ordered(t, n)
<1>1. \A k \in DOMAIN t.caches : t.caches[k].index < n
  <2> SUFFICES ASSUME NEW k \in DOMAIN t.caches
               PROVE  t.caches[k].index < n
    OBVIOUS
  <2>1. t.caches[k].index < m /\ t.caches[k].index \in Nat
    BY DEF Ordered
  <2> QED
    BY <2>1
<1> QED
  BY <1>1 DEF Ordered

\* A CPU that is being collected has the caches below the loop, in their order.
LEMMA CollectedKept ==
  ASSUME TopoInv, [Next]_vars, InCpu'
  PROVE  Ordered(p', index') /\ Complete(p, index)'
<1>1. /\ machine' = machine
      /\ faults \in Nat /\ faults' \in Nat /\ faults <= faults'
      /\ unplugged \subseteq unplugged'
  BY Recorded
<1>2. CASE FindNode \/ MissNode
  <2>1. p'.caches = << >> /\ p'.cpu_id = cpu /\ index' = 0 /\ cpu \in CPU
    BY <1>2, AfterLookUp
  <2>2. DOMAIN machine.caches[cpu] \subseteq Nat
    BY <2>1, MachineTypes, Sizes DEF TopoInv
  <2>3. {i \in DOMAIN machine.caches[cpu] : i < 0} = {}
    BY <2>2
  <2>4. Len(p'.caches) =
          Cardinality({i \in DOMAIN machine'.caches[p'.cpu_id] : i < index'})
    BY <1>1, <2>1, <2>3, FS_EmptySet
  <2> QED
    BY <2>1, <2>4 DEF Ordered, Complete
<1>3. CASE InCpu /\ p' = p /\ index' = index
  <2>1. Ordered(p, index) /\ Complete(p, index)
    BY <1>3 DEF TopoInv, ListInv
  <2> QED
    BY <1>1, <1>3, <2>1 DEF Complete, Excused
<1>4. CASE SkipCache
  <2>1. InCpu /\ p' = p /\ index' = index + 1 /\ cpu' = cpu
        /\ (HasCache(cpu, index) => faults' = faults + 1)
    BY <1>4 DEF SkipCache, Goto, InCpu, ReadFails, CallFails
  <2>2. Ordered(p, index) /\ Complete(p, index)
    BY <2>1 DEF TopoInv, ListInv
  <2>3. Ordered(p, index + 1)
    BY <2>1, <2>2, CachesOfCpu, OrderedBelow
  <2>4. Excused(cpu)' \/ index \notin DOMAIN machine.caches[cpu]
    <3>1. cpu \in online \/ cpu \in unplugged
      BY <2>1, CachesOfCpu DEF TopoInv, LoopInv
    <3> QED
      BY <1>1, <2>1, <3>1 DEF HasCache, Excused
  <2>5. Complete(p, index)'
    <3>1. CASE Excused(cpu)'
      BY <2>1, <3>1, CachesOfCpu DEF Complete, Excused
    <3>2. CASE Excused(cpu)
      BY <1>1, <2>1, <3>2, CachesOfCpu DEF Complete, Excused
    <3>3. CASE index \notin DOMAIN machine.caches[cpu] /\ ~Excused(cpu)
      <4>1. Len(p.caches) = Cardinality({i \in DOMAIN machine.caches[cpu] : i < index})
        BY <2>1, <2>2, <3>3, CachesOfCpu DEF Complete
      <4>2. {i \in DOMAIN machine.caches[cpu] : i < index + 1}
              = {i \in DOMAIN machine.caches[cpu] : i < index}
        BY <2>1, <3>3, CachesOfCpu, Below
      <4> QED
        BY <1>1, <2>1, <4>1, <4>2, CachesOfCpu DEF Complete
    <3> QED
      BY <2>4, <3>1, <3>2, <3>3
  <2> QED
    BY <2>1, <2>3, <2>5
<1>5. CASE ReadCache
  <2> DEFINE cache == [index |-> index, shared |-> machine.caches[cpu][index] \cap online]
             q == [p EXCEPT !.caches = Append(p.caches, cache)]
  <2>1. InCpu /\ pc = "read" /\ p' = q /\ index' = index + 1 /\ cpu' = cpu
    BY <1>5 DEF ReadCache, Goto, InCpu, WithCache
  <2>2. index \in DOMAIN machine.caches[cpu] /\ Ordered(p, index) /\ Complete(p, index)
    BY <2>1 DEF TopoInv, LoopInv, ListInv
  <2>3. cache \in [index : Index, shared : SUBSET CPU] /\ cache.index = index
    BY <2>1, <2>2, CachesOfCpu, MachineTypes DEF TopoInv
  <2>4. q.cpu_id = cpu /\ q.caches = Append(p.caches, cache)
    BY <2>1, CachesOfCpu DEF CpuTopo
  <2> HIDE DEF cache, q
  <2>5. /\ Len(q.caches) = Len(p.caches) + 1
        /\ \A k \in 1 .. Len(p.caches) : q.caches[k] = p.caches[k]
        /\ q.caches[Len(p.caches) + 1] = cache
        /\ DOMAIN q.caches = 1 .. Len(p.caches) + 1
    BY <2>1, <2>3, <2>4, CachesOfCpu, AppendProperties
  <2>6. Ordered(q, index + 1)
    <3> SUFFICES ASSUME NEW k \in DOMAIN q.caches
                 PROVE  /\ q.caches[k].index < index + 1
                        /\ k > 1 => q.caches[k - 1].index < q.caches[k].index
      BY DEF Ordered
    <3>1. \A j \in 1 .. Len(p.caches) : p.caches[j].index \in Nat /\ p.caches[j].index < index
      BY <2>1, <2>2, CachesOfCpu, Sizes DEF Ordered
    <3>2. CASE k = Len(p.caches) + 1
      <4>1. Len(p.caches) \in Nat /\ index \in Nat
        BY <2>1, CachesOfCpu
      <4>2. q.caches[k].index = index
        BY <2>3, <2>5, <3>2
      <4>3. k > 1 => k - 1 \in 1 .. Len(p.caches)
        BY <3>2, <4>1
      <4>4. k > 1 => q.caches[k - 1].index < index
        BY <2>5, <3>1, <4>3
      <4> QED
        BY <4>1, <4>2, <4>4
    <3>3. CASE k \in 1 .. Len(p.caches)
      <4>1. k > 1 => p.caches[k - 1].index < p.caches[k].index /\ k - 1 \in 1 .. Len(p.caches)
        BY <2>1, <2>2, <3>3, CachesOfCpu DEF Ordered
      <4>2. q.caches[k] = p.caches[k] /\ p.caches[k].index < index /\ p.caches[k].index \in Nat
        BY <2>5, <3>1, <3>3
      <4>3. k > 1 => q.caches[k - 1] = p.caches[k - 1]
        BY <2>5, <3>3, <4>1
      <4> QED
        BY <2>1, <4>1, <4>2, <4>3, CachesOfCpu
    <3> QED
      BY <2>1, <2>5, <3>2, <3>3, CachesOfCpu
  <2>7. Complete(p, index)'
    <3>1. CASE Excused(cpu)
      BY <1>1, <2>1, <2>4, <3>1 DEF Complete, Excused
    <3>2. CASE ~Excused(cpu)
      <4>1. Len(p.caches) = Cardinality({i \in DOMAIN machine.caches[cpu] : i < index})
        BY <2>1, <2>2, <3>2, CachesOfCpu DEF Complete
      <4>2. Cardinality({i \in DOMAIN machine.caches[cpu] : i < index + 1})
              = Cardinality({i \in DOMAIN machine.caches[cpu] : i < index}) + 1
        BY <2>1, <2>2, CachesOfCpu, Below
      <4>3. Len(q.caches) = Cardinality({i \in DOMAIN machine.caches[cpu] : i < index + 1})
        BY <2>5, <4>1, <4>2
      <4> QED
        BY <1>1, <2>1, <2>4, <4>3 DEF Complete
    <3> QED
      BY <3>1, <3>2
  <2> QED
    BY <2>1, <2>6, <2>7
<1>6. CASE ReadCacheFails
  <2>1. InCpu /\ p' = p /\ index' = Cardinality(Index) /\ cpu' = cpu
        /\ \/ faults' = faults + 1
           \/ pc = "read" /\ ~HasCache(cpu, index)
    BY <1>6 DEF ReadCacheFails, InCpu, GiveUp, ReadFails, CallFails
  <2>2. Ordered(p, index) /\ index <= Cardinality(Index) /\ index \in Nat
    BY <2>1, CachesOfCpu, Sizes DEF TopoInv, ListInv, TypeOK
  <2>3. Ordered(p, Cardinality(Index))
    BY <2>1, <2>2, CachesOfCpu, OrderedBelow, Sizes
  <2>4. cpu \in online \/ cpu \in unplugged
    BY <2>1, CachesOfCpu DEF TopoInv, LoopInv
  <2>5. Excused(cpu)'
    BY <1>1, <2>1, <2>4 DEF Excused, HasCache, TopoInv, LoopInv
  <2> QED
    BY <2>1, <2>3, <2>5, CachesOfCpu DEF Complete, Excused
<1>7. \/ FindNode \/ MissNode \/ (InCpu /\ p' = p /\ index' = index)
      \/ SkipCache \/ ReadCache \/ ReadCacheFails
  BY DEF InCpu, Next, StartFails, ReadOnline, SkipCpu, ReadCpu, ReadCpuFails, FindCache, AddCpu,
         ReadNode, ReadNodeFails, Done, Plug, Fail, Goto, vars
<1> QED
  BY <1>2, <1>3, <1>4, <1>5, <1>6, <1>7

\* The node that was found stays with the CPU.
LEMMA NodeKept ==
  ASSUME TopoInv, [Next]_vars, InCpu'
  PROVE  NodeRead(p)'
<1>1. CASE FindNode \/ MissNode
  BY <1>1, AfterLookUp
<1>2. CASE InCpu /\ p'.cpu_id = p.cpu_id /\ p'.node_id = p.node_id
  <2>1. NodeRead(p)
    BY <1>2 DEF TopoInv, ListInv
  <2> QED
    BY <1>2, <2>1, Recorded DEF NodeRead, Excused, LookedUp
<1>3. CASE ReadCache
  <2>1. InCpu /\ \E c : p' = [p EXCEPT !.caches = c]
    BY <1>3 DEF ReadCache, Goto, InCpu
  <2>2. p \in CpuTopo
    BY <2>1 DEF TopoInv, LoopInv
  <2>3. p'.cpu_id = p.cpu_id /\ p'.node_id = p.node_id
    BY <2>1, <2>2 DEF CpuTopo
  <2> QED
    BY <1>2, <2>1, <2>3
<1>4. FindNode \/ MissNode \/ (InCpu /\ p' = p) \/ ReadCache
  BY DEF InCpu, Next, StartFails, ReadOnline, SkipCpu, ReadCpu, ReadCpuFails, SkipCache,
         FindCache, ReadCacheFails, AddCpu, ReadNode, ReadNodeFails, Done, Plug, Fail, Goto, vars
<1> QED
  BY <1>1, <1>2, <1>3, <1>4

\* In the beginning nothing has been collected.
LEMMA TopoInit == Init => TopoInv
<1> SUFFICES ASSUME Init
             PROVE  TopoInv
  OBVIOUS
<1>1. machine.count \in Nat
  BY TopologyAssumption DEF Init
<1>2. << >> \in Seq(CpuTopo) /\ << >> \in Seq([node_number : Nat, cpumap : SUBSET CPU])
  OBVIOUS
<1>3. TypeOK
  BY <1>1, <1>2, Sizes DEF Init, TypeOK
<1>4. LoopInv /\ ListInv /\ FailsForCause
  BY DEF Init, LoopInv, ListInv, FailsForCause, InCpu
<1> QED
  BY <1>3, <1>4 DEF TopoInv

\* Every step, also of whoever takes CPUs offline, keeps what has been collected in order.
LEMMA TopoStep == TopoInv /\ [Next]_vars => TopoInv'
<1> SUFFICES ASSUME TopoInv, [Next]_vars
             PROVE  TopoInv'
  OBVIOUS
<1>1. InCpu' => Ordered(p', index') /\ Complete(p, index)' /\ NodeRead(p)'
  BY CollectedKept, NodeKept
<1>2. ListInv'
  BY <1>1, ListedStay DEF ListInv, Ordered
<1> QED
  BY <1>2, TypesKept, LoopKept, CauseKept DEF TopoInv

\* The invariant holds in every state.
LEMMA TopoInvariance == Spec => []TopoInv
BY TopoInit, TopoStep, PTL DEF Spec

\* The loops of the collection stay within the CPUs, the nodes and the places of caches that
\* there are, and the lists are of what they find there (560-742).
THEOREM CollectionTypes == Spec => []TypeOK
<1>1. TopoInv => TypeOK
  BY DEF TopoInv
<1> QED
  BY <1>1, TopoInvariance, PTL

\* The collection fails only for a cause that is no part of its own doing: a call failed, a
\* CPU of the list went offline, or the numbers of the nodes have gaps (717-742).
THEOREM CollectionFailsForCause == Spec => []FailsForCause
<1>1. TopoInv => FailsForCause
  BY DEF TopoInv
<1> QED
  BY <1>1, TopoInvariance, PTL

\* A CPU is listed without one of its caches only if a call failed or the CPU was offline at
\* some time, whichever the caches are (662-674).
THEOREM CachesAreComplete == Spec => []CachesComplete
<1>1. ASSUME TopoInv
      PROVE  CachesComplete
  <2> SUFFICES ASSUME NEW t \in ToSet(cpu_topology_list)
               PROVE  \/ faults > 0 \/ t.cpu_id \in unplugged
                      \/ Len(t.caches) = Cardinality(DOMAIN machine.caches[t.cpu_id])
    BY DEF CachesComplete
  <2>1. PICK n \in DOMAIN cpu_topology_list : t = cpu_topology_list[n]
    BY DEF ToSet
  <2>2. Complete(t, Cardinality(Index))
    BY <1>1, <2>1 DEF TopoInv, ListInv, Fine
  <2>3. t \in CpuTopo
    BY <1>1, <2>1 DEF TopoInv, TypeOK
  <2>4. DOMAIN machine.caches[t.cpu_id] \subseteq Index
    BY <1>1, <2>3, MachineTypes DEF TopoInv, CpuTopo
  <2>5. \A i \in DOMAIN machine.caches[t.cpu_id] : i < Cardinality(Index)
    BY <2>4, Sizes
  <2>6. {i \in DOMAIN machine.caches[t.cpu_id] : i < Cardinality(Index)}
          = DOMAIN machine.caches[t.cpu_id]
    BY <2>5
  <2> QED
    BY <2>2, <2>6 DEF Complete, Excused
<1>2. TopoInv => CachesComplete
  BY <1>1
<1> QED
  BY <1>2, TopoInvariance, PTL

\* The node of a listed CPU is the one that the lookup in its directory finds, unless it
\* went wrong.
LEMMA NodesFound ==
  ASSUME TopoInv, NEW c \in Listed
  PROVE  c \in CPU /\ (Excused(c) \/ Topo(c).node_id = LookedUp(c))
<1>1. PICK t \in ToSet(cpu_topology_list) : t.cpu_id = c
  BY DEF Listed
<1>2. Topo(c) \in ToSet(cpu_topology_list) /\ Topo(c).cpu_id = c
  BY <1>1 DEF Topo
<1>3. PICK n \in DOMAIN cpu_topology_list : Topo(c) = cpu_topology_list[n]
  BY <1>2 DEF ToSet
<1>4. Topo(c) \in CpuTopo
  BY <1>3 DEF TopoInv, TypeOK
<1>5. Topo(c).cpu_id \in CPU
  BY <1>4 DEF CpuTopo
<1> QED
  BY <1>2, <1>3, <1>5 DEF TopoInv, ListInv, Fine, NodeRead

\* CPUs that were online all the time are told apart by their nodes as long as no call fails,
\* unless the lookup does not reach the number of one of the nodes: only these leave the 0 of
\* memset() (649-660).
THEOREM NodesAreApart == Spec => []NodesApart
<1>1. ASSUME TopoInv
      PROVE  NodesApart
  <2> SUFFICES ASSUME pc = "done", faults = 0,
                      NEW c \in Listed \ unplugged, NEW d \in Listed \ unplugged
               PROVE  /\ machine.node[c] = machine.node[d] => Topo(c).node_id = Topo(d).node_id
                      /\ {machine.node[c], machine.node[d]} \subseteq 0 .. machine.count - 1 =>
                           (Topo(c).node_id = Topo(d).node_id => machine.node[c] = machine.node[d])
    BY DEF NodesApart
  <2>1. Topo(c).node_id = LookedUp(c) /\ Topo(d).node_id = LookedUp(d) /\ c \in CPU /\ d \in CPU
    BY <1>1, NodesFound DEF Excused
  <2>2. machine.count \in Nat
    BY <1>1, <2>1, MachineTypes DEF TopoInv
  <2>3. machine.node[c] \in 0 .. machine.count - 1 => LookedUp(c) = machine.node[c]
    BY <2>2 DEF LookedUp
  <2>4. machine.node[d] \in 0 .. machine.count - 1 => LookedUp(d) = machine.node[d]
    BY <2>2 DEF LookedUp
  <2>5. machine.node[c] = machine.node[d] => LookedUp(c) = LookedUp(d)
    BY DEF LookedUp
  <2> QED
    BY <2>1, <2>3, <2>4, <2>5
<1>2. TopoInv => NodesApart
  BY <1>1
<1> QED
  BY <1>2, TopoInvariance, PTL

-----------------------------------------------------------------------------
\* Caches that are numbered without gaps are read to their places as long as nothing goes
\* wrong: what was read so far is all there is below.
LEMMA InPlaceStep ==
  ASSUME ContiguousCaches, TopoInv, InPlaceInv, [Next]_vars
  PROVE  InPlaceInv'
<1>1. /\ machine' = machine
      /\ faults \in Nat /\ faults' \in Nat /\ faults <= faults'
      /\ unplugged \subseteq unplugged'
  BY Recorded
<1>2. ASSUME NEW t, InPlace(t)
      PROVE  InPlace(t)'
  <2>1. CASE Excused(t.cpu_id)
    BY <1>1, <2>1 DEF InPlace, Excused
  <2>2. CASE ~Excused(t.cpu_id)
    BY <1>2, <2>2 DEF InPlace, Excused
  <2> QED
    BY <2>1, <2>2
<1>3. ASSUME ReadCache
      PROVE  /\ InCpu' => InPlace(p')
             /\ \A n \in DOMAIN cpu_topology_list' : InPlace(cpu_topology_list'[n])
  <2> DEFINE cache == [index |-> index, shared |-> machine.caches[cpu][index] \cap online]
             q == [p EXCEPT !.caches = Append(p.caches, cache)]
  <2>1. InCpu /\ pc = "read" /\ p' = q /\ cpu_topology_list' = cpu_topology_list
    BY <1>3 DEF ReadCache, Goto, InCpu, WithCache, lists
  <2>2. index \in DOMAIN machine.caches[cpu] /\ Complete(p, index) /\ InPlace(p)
    BY <2>1 DEF TopoInv, LoopInv, ListInv, InPlaceInv
  <2>3. cache \in [index : Index, shared : SUBSET CPU] /\ cache.index = index
    BY <2>1, <2>2, CachesOfCpu, MachineTypes DEF TopoInv
  <2>4. q.cpu_id = cpu /\ q.caches = Append(p.caches, cache)
    BY <2>1, CachesOfCpu DEF CpuTopo
  <2> HIDE DEF cache, q
  <2>5. /\ \A k \in 1 .. Len(p.caches) : q.caches[k] = p.caches[k]
        /\ q.caches[Len(p.caches) + 1] = cache
        /\ DOMAIN q.caches = 1 .. Len(p.caches) + 1
    BY <2>1, <2>3, <2>4, CachesOfCpu, AppendProperties
  <2>6. ASSUME ~Excused(cpu), NEW k \in DOMAIN q.caches
        PROVE  q.caches[k].index = k - 1
    <3>1. Len(p.caches) = Cardinality({i \in DOMAIN machine.caches[cpu] : i < index})
      BY <2>1, <2>2, <2>6, CachesOfCpu DEF Complete
    <3>2. 0 .. index \subseteq DOMAIN machine.caches[cpu]
      BY <2>1, <2>2, CachesOfCpu DEF ContiguousCaches, TopoInv, TypeOK
    <3>3. Cardinality({i \in DOMAIN machine.caches[cpu] : i < index}) = index
      BY <2>1, <3>2, CachesOfCpu, Below
    <3>4. \A j \in 1 .. Len(p.caches) : p.caches[j].index = j - 1
      BY <2>1, <2>2, <2>6, CachesOfCpu DEF InPlace
    <3>5. CASE k = Len(p.caches) + 1
      BY <2>1, <2>3, <2>5, <3>1, <3>3, <3>5, CachesOfCpu
    <3>6. CASE k \in 1 .. Len(p.caches)
      BY <2>5, <3>4, <3>6
    <3> QED
      BY <2>1, <2>5, <2>6, <3>5, <3>6, CachesOfCpu
  <2>7. InPlace(p')
    BY <2>1, <2>4, <2>6 DEF InPlace
  <2> QED
    BY <2>1, <2>7 DEF InPlaceInv
<1>4. ASSUME AddCpu
      PROVE  /\ InCpu' => InPlace(p')
             /\ \A n \in DOMAIN cpu_topology_list' : InPlace(cpu_topology_list'[n])
  <2>1. cpu_topology_list' = Append(cpu_topology_list, p) /\ InCpu /\ ~InCpu'
    BY <1>4 DEF AddCpu, Goto, Added, InCpu
  <2>2. p \in CpuTopo /\ cpu_topology_list \in Seq(CpuTopo)
    BY <2>1 DEF TopoInv, TypeOK, LoopInv
  <2>3. InPlace(p)
    BY <2>1 DEF InPlaceInv
  <2>4. \A n \in DOMAIN cpu_topology_list' : \/ cpu_topology_list'[n] = p
                                            \/ /\ n \in DOMAIN cpu_topology_list
                                               /\ cpu_topology_list'[n] = cpu_topology_list[n]
    BY <2>1, <2>2, AppendProperties
  <2> QED
    BY <2>1, <2>3, <2>4 DEF InPlaceInv
<1>5. ASSUME FindNode \/ MissNode
      PROVE  /\ InCpu' => InPlace(p')
             /\ \A n \in DOMAIN cpu_topology_list' : InPlace(cpu_topology_list'[n])
  <2>1. p'.caches = << >> /\ cpu_topology_list' = cpu_topology_list
    BY <1>5, AfterLookUp DEF lists
  <2> QED
    BY <2>1 DEF InPlaceInv, InPlace
<1>6. ASSUME ~ReadCache, ~AddCpu, ~FindNode, ~MissNode
      PROVE  (InCpu' => InCpu /\ p' = p) /\ cpu_topology_list' = cpu_topology_list
  BY <1>6 DEF InCpu, Next, StartFails, ReadOnline, SkipCpu, ReadCpu, ReadCpuFails,
      SkipCache, FindCache,
              ReadCacheFails, ReadNode, ReadNodeFails, Done, Plug, Fail, Goto, lists, vars
<1>7. /\ InCpu' => InPlace(p')
      /\ \A n \in DOMAIN cpu_topology_list' : InPlace(cpu_topology_list'[n])
  <2>1. CASE ~ReadCache /\ ~AddCpu /\ ~FindNode /\ ~MissNode
    BY <1>6, <2>1 DEF InPlaceInv
  <2> QED
    BY <1>3, <1>4, <1>5, <2>1
<1>8. ASSUME InCpu'
      PROVE  InPlace(p)'
  <2>1. PICK t : t = p'
    OBVIOUS
  <2>2. InPlace(t)'
    BY <1>2, <1>7, <1>8, <2>1
  <2> QED
    BY <2>1, <2>2
<1>9. ASSUME NEW n \in DOMAIN cpu_topology_list'
      PROVE  InPlace(cpu_topology_list[n])'
  <2>1. PICK t : t = cpu_topology_list'[n]
    OBVIOUS
  <2>2. InPlace(t)'
    BY <1>2, <1>7, <2>1
  <2> QED
    BY <2>1, <2>2
<1> QED
  BY <1>8, <1>9 DEF InPlaceInv

\* In the beginning there are no caches.
LEMMA InPlaceInit == Init => InPlaceInv
BY DEF Init, InPlaceInv, InCpu

\* The partitioning finds the caches of a CPU from the innermost one outwards, and one is
\* passed over only at the price of a failed call or of a CPU that was offline, on every
\* machine whose sysfs numbers the caches of a CPU without gaps, as it does: a gap would be
\* passed over like a cache that could not be looked up (474-479, 490-494, 662-669, 1008).
THEOREM CachesInOrder ==
  ASSUME ContiguousCaches
  PROVE  Spec => []InnermostFirst
<1>1. TopoInv /\ InPlaceInv /\ [Next]_vars => InPlaceInv'
  BY InPlaceStep
<1>2. ASSUME TopoInv, InPlaceInv
      PROVE  InnermostFirst
  <2> SUFFICES ASSUME NEW t \in ToSet(cpu_topology_list), NEW k \in DOMAIN t.caches
               PROVE  /\ k > 1 => t.caches[k - 1].index < t.caches[k].index
                      /\ t.caches[k].index > k - 1 => faults > 0 \/ t.cpu_id \in unplugged
    BY DEF InnermostFirst
  <2>1. PICK n \in DOMAIN cpu_topology_list : t = cpu_topology_list[n]
    BY DEF ToSet
  <2>2. Ordered(t, Cardinality(Index)) /\ InPlace(t)
    BY <1>2, <2>1 DEF TopoInv, ListInv, Fine, InPlaceInv
  <2>3. t \in CpuTopo
    BY <1>2, <2>1 DEF TopoInv, TypeOK
  <2>4. t.caches \in Seq([index : Index, shared : SUBSET CPU])
    BY <2>3 DEF CpuTopo
  <2>5. k \in Nat
    BY <2>4
  <2>6. CASE Excused(t.cpu_id)
    BY <2>2, <2>6 DEF Ordered, Excused
  <2>7. CASE \A j \in DOMAIN t.caches : t.caches[j].index = j - 1
    BY <2>2, <2>5, <2>7 DEF Ordered
  <2> QED
    BY <2>2, <2>6, <2>7 DEF InPlace
<1>3. TopoInv /\ InPlaceInv => InnermostFirst
  BY <1>2
<1> QED
  BY <1>1, <1>3, InPlaceInit, TopoInvariance, PTL DEF Spec

-----------------------------------------------------------------------------
\* What was read of a CPU stays true of it.
LEMMA GenuineStays ==
  ASSUME TopoInv, [Next]_vars, NEW t, NEW end
  PROVE  /\ Genuine(t) => Genuine(t)'
         /\ AllRead(t, end) => AllRead(t, end)'
<1>1. /\ machine' = machine
      /\ faults \in Nat /\ faults' \in Nat /\ faults <= faults'
      /\ unplugged \subseteq unplugged'
  BY Recorded
<1>2. Genuine(t) => Genuine(t)'
  BY <1>1 DEF Genuine
<1>3. ASSUME AllRead(t, end)
      PROVE  AllRead(t, end)'
  <2>1. CASE Excused(t.cpu_id)
    BY <1>1, <2>1 DEF AllRead, Excused
  <2>2. CASE ~Excused(t.cpu_id)
    BY <1>1, <1>3, <2>2 DEF AllRead, Excused
  <2> QED
    BY <2>1, <2>2
<1> QED
  BY <1>2, <1>3

\* The cache that has been read is the next one of the CPU.
LEMMA ReadCacheAdds ==
  ASSUME TopoInv, ReadInv, ReadCache
  PROVE  /\ Genuine(p')
         /\ p'.cpu_id = cpu /\ cpu' = cpu /\ index' = index + 1 /\ InCpu
         /\ \A k \in DOMAIN p.caches : k \in DOMAIN p'.caches /\ p'.caches[k] = p.caches[k]
         /\ \E k \in DOMAIN p'.caches : p'.caches[k].index = index
<1> DEFINE cache == [index |-> index, shared |-> machine.caches[cpu][index] \cap online]
           q == [p EXCEPT !.caches = Append(p.caches, cache)]
           last == Len(p.caches) + 1
<1>1. InCpu /\ pc = "read" /\ p' = q /\ index' = index + 1 /\ cpu' = cpu
  BY DEF ReadCache, Goto, InCpu, WithCache
<1>2. index \in DOMAIN machine.caches[cpu] /\ Ordered(p, index) /\ Genuine(p)
  BY <1>1 DEF TopoInv, LoopInv, ListInv, ReadInv
<1>3. cache \in [index : Index, shared : SUBSET CPU] /\ cache.index = index
      /\ cache.shared = machine.caches[cpu][index] \cap online
  BY <1>1, <1>2, CachesOfCpu, MachineTypes DEF TopoInv
<1>4. q.cpu_id = cpu /\ q.caches = Append(p.caches, cache)
  BY <1>1, CachesOfCpu DEF CpuTopo
<1>5. cache.shared \subseteq machine.caches[cpu][index]
      /\ machine.caches[cpu][index] \ unplugged \subseteq cache.shared
  <2>1. CPU \ online \subseteq unplugged
    BY DEF TopoInv, LoopInv
  <2>2. machine.caches[cpu][index] \subseteq CPU
    BY <1>1, <1>2, CachesOfCpu, MachineTypes DEF TopoInv
  <2> QED
    BY <1>3, <2>1, <2>2
<1> HIDE DEF cache, q
<1>6. /\ \A k \in 1 .. Len(p.caches) : q.caches[k] = p.caches[k]
      /\ q.caches[last] = cache
      /\ DOMAIN q.caches = 1 .. last
  BY <1>1, <1>3, <1>4, CachesOfCpu, AppendProperties
<1>7. /\ DOMAIN p.caches = 1 .. Len(p.caches) /\ Len(p.caches) \in Nat
      /\ p.cpu_id = cpu
      /\ \A k \in DOMAIN p.caches : p.caches[k].index < index
  BY <1>1, <1>2, CachesOfCpu DEF Ordered
<1>8. Genuine(q)
  <2> SUFFICES ASSUME NEW k \in DOMAIN q.caches
               PROVE  /\ q.caches[k].index \in DOMAIN machine.caches[cpu]
                      /\ q.caches[k].shared \subseteq machine.caches[cpu][q.caches[k].index]
                      /\ machine.caches[cpu][q.caches[k].index] \ unplugged
                           \subseteq q.caches[k].shared
                      /\ \A j \in DOMAIN q.caches :
                           j < k => q.caches[j].index < q.caches[k].index
    BY <1>4 DEF Genuine
  <2>1. CASE k = last
    <3>1. q.caches[k] = cache
      BY <1>6, <2>1
    <3>2. ASSUME NEW j \in DOMAIN q.caches, j < k
          PROVE  q.caches[j].index < index
      <4>1. j \in 1 .. Len(p.caches)
        BY <1>6, <1>7, <2>1, <3>2
      <4> QED
        BY <1>6, <1>7, <4>1
    <3> QED
      BY <1>2, <1>3, <1>5, <3>1, <3>2
  <2>2. CASE k # last
    <3>1. k \in DOMAIN p.caches /\ q.caches[k] = p.caches[k]
      BY <1>6, <1>7, <2>2
    <3>2. ASSUME NEW j \in DOMAIN q.caches, j < k
          PROVE  j \in DOMAIN p.caches /\ q.caches[j] = p.caches[j]
      BY <1>6, <1>7, <3>1, <3>2
    <3> QED
      BY <1>2, <1>7, <3>1, <3>2 DEF Genuine
  <2> QED
    BY <2>1, <2>2
<1>9. last \in DOMAIN q.caches /\ q.caches[last].index = index
  BY <1>3, <1>6, <1>7
<1>10. \A k \in DOMAIN p.caches : k \in DOMAIN q.caches /\ q.caches[k] = p.caches[k]
  BY <1>6, <1>7
<1> QED
  BY <1>1, <1>4, <1>8, <1>9, <1>10

\* The caches of the CPU that is being collected are its own, and none below the loop is
\* missing without an excuse.
LEMMA CollectedRead ==
  ASSUME TopoInv, ReadInv, [Next]_vars, InCpu'
  PROVE  Genuine(p)' /\ AllRead(p, index)'
<1>1. /\ machine' = machine
      /\ faults \in Nat /\ faults' \in Nat /\ faults <= faults'
      /\ unplugged \subseteq unplugged'
  BY Recorded
<1>2. PICK t : t = p'
  OBVIOUS
<1>3. PICK end : end = index'
  OBVIOUS
<1> SUFFICES Genuine(t)' /\ AllRead(t, end)'
  BY <1>2, <1>3
<1>4. CASE FindNode \/ MissNode
  <2>1. t.caches = << >> /\ t.cpu_id = cpu /\ end = 0 /\ cpu \in CPU
    BY <1>2, <1>3, <1>4, AfterLookUp
  <2>2. \A i \in DOMAIN machine.caches[cpu] : ~ (i < 0)
    BY <2>1, MachineTypes, Sizes DEF TopoInv
  <2> QED
    BY <1>1, <2>1, <2>2 DEF Genuine, AllRead
<1>5. CASE InCpu /\ p' = p /\ index' = index
  <2>1. Genuine(t) /\ AllRead(t, end)
    BY <1>2, <1>3, <1>5 DEF ReadInv
  <2> QED
    BY <2>1, GenuineStays
<1>6. CASE SkipCache
  <2>1. InCpu /\ t = p /\ end = index + 1 /\ cpu' = cpu
        /\ (HasCache(cpu, index) => faults' = faults + 1)
    BY <1>2, <1>3, <1>6 DEF SkipCache, Goto, InCpu, ReadFails, CallFails
  <2>2. Genuine(t)'
    BY <2>1, GenuineStays DEF ReadInv
  <2>3. Excused(cpu)' \/ index \notin DOMAIN machine.caches[cpu]
    <3>1. cpu \in online \/ cpu \in unplugged
      BY <2>1, CachesOfCpu DEF TopoInv, LoopInv
    <3> QED
      BY <1>1, <2>1, <3>1 DEF HasCache, Excused
  <2>4. CASE Excused(cpu) \/ Excused(cpu)'
    BY <1>1, <2>1, <2>2, <2>4, CachesOfCpu DEF AllRead, Excused
  <2>5. CASE ~Excused(cpu) /\ index \notin DOMAIN machine.caches[cpu]
    <3>1. \A i \in DOMAIN machine.caches[cpu] : i < end => i < index
      BY <2>1, <2>5, CachesOfCpu
    <3>2. \A i \in DOMAIN machine.caches[cpu] :
            i < index => \E k \in DOMAIN t.caches : t.caches[k].index = i
      BY <2>1, <2>5, CachesOfCpu DEF ReadInv, AllRead
    <3> QED
      BY <1>1, <2>1, <2>2, <3>1, <3>2, CachesOfCpu DEF AllRead
  <2> QED
    BY <2>3, <2>4, <2>5
<1>7. CASE ReadCache
  <2>1. Genuine(t) /\ t.cpu_id = cpu /\ end = index + 1 /\ InCpu
        /\ (\A k \in DOMAIN p.caches : k \in DOMAIN t.caches /\ t.caches[k] = p.caches[k])
        /\ \E k \in DOMAIN t.caches : t.caches[k].index = index
    BY <1>2, <1>3, <1>7, ReadCacheAdds
  <2>2. AllRead(t, end)
    <3>1. CASE Excused(cpu)
      BY <2>1, <3>1 DEF AllRead
    <3>2. CASE ~Excused(cpu)
      <4>1. \A i \in DOMAIN machine.caches[cpu] :
              i < index => \E k \in DOMAIN p.caches : p.caches[k].index = i
        BY <2>1, <3>2, CachesOfCpu DEF ReadInv, AllRead
      <4>2. \A i \in DOMAIN machine.caches[cpu] : i < end => i < index \/ i = index
        BY <2>1, CachesOfCpu
      <4>3. \A i \in DOMAIN machine.caches[cpu] :
              i < end => \E k \in DOMAIN t.caches : t.caches[k].index = i
        BY <2>1, <4>1, <4>2
      <4> QED
        BY <2>1, <4>3 DEF AllRead
    <3> QED
      BY <3>1, <3>2
  <2> QED
    BY <2>1, <2>2, GenuineStays
<1>8. CASE ReadCacheFails
  <2>1. InCpu /\ t = p /\ cpu' = cpu
        /\ \/ faults' = faults + 1
           \/ pc = "read" /\ ~HasCache(cpu, index)
    BY <1>2, <1>8 DEF ReadCacheFails, InCpu, ReadFails, CallFails
  <2>2. cpu \in online \/ cpu \in unplugged
    BY <2>1, CachesOfCpu DEF TopoInv, LoopInv
  <2>3. Excused(cpu)'
    BY <1>1, <2>1, <2>2 DEF Excused, HasCache, TopoInv, LoopInv
  <2>4. Genuine(t)'
    BY <2>1, GenuineStays DEF ReadInv
  <2> QED
    BY <2>1, <2>3, <2>4, CachesOfCpu DEF AllRead, Excused
<1>9. \/ FindNode \/ MissNode \/ (InCpu /\ p' = p /\ index' = index)
      \/ SkipCache \/ ReadCache \/ ReadCacheFails
  BY DEF InCpu, Next, StartFails, ReadOnline, SkipCpu, ReadCpu, ReadCpuFails, FindCache, AddCpu,
         ReadNode, ReadNodeFails, Done, Plug, Fail, Goto, vars
<1> QED
  BY <1>4, <1>5, <1>6, <1>7, <1>8, <1>9

\* So are those of the CPUs in the list, and the list gets longer.
LEMMA ListedRead ==
  ASSUME TopoInv, ReadInv, [Next]_vars
  PROVE  /\ \A n \in DOMAIN cpu_topology_list' :
              Genuine(cpu_topology_list[n])' /\ AllRead(cpu_topology_list[n], Cardinality(Index))'
         /\ Listed \subseteq Listed'
         /\ AddCpu => cpu \in Listed'
<1>1. ASSUME AddCpu
      PROVE  /\ \A n \in DOMAIN cpu_topology_list' :
                  \/ cpu_topology_list'[n] = p
                  \/ /\ n \in DOMAIN cpu_topology_list
                     /\ cpu_topology_list'[n] = cpu_topology_list[n]
             /\ \A n \in DOMAIN cpu_topology_list :
                  /\ n \in DOMAIN cpu_topology_list'
                  /\ cpu_topology_list'[n] = cpu_topology_list[n]
             /\ \E n \in DOMAIN cpu_topology_list' : cpu_topology_list'[n] = p
             /\ Genuine(p) /\ AllRead(p, Cardinality(Index)) /\ p.cpu_id = cpu
  <2>1. cpu_topology_list' = Append(cpu_topology_list, p) /\ pc = "cache" /\ index \notin Index
    BY <1>1 DEF AddCpu, Goto, Added
  <2>2. index = Cardinality(Index)
    <3>1. index \in 0 .. Cardinality(Index) /\ Cardinality(Index) \in Nat
      BY Sizes DEF TopoInv, TypeOK
    <3>2. ~(index < Cardinality(Index))
      BY <2>1, <3>1, Sizes
    <3> QED
      BY <3>1, <3>2
  <2>3. p \in CpuTopo /\ cpu_topology_list \in Seq(CpuTopo) /\ InCpu
    BY <2>1 DEF TopoInv, TypeOK, LoopInv, InCpu
  <2>4. Genuine(p) /\ AllRead(p, Cardinality(Index)) /\ p.cpu_id = cpu
    BY <2>2, <2>3 DEF ReadInv, TopoInv, LoopInv
  <2>5. /\ Len(cpu_topology_list') = Len(cpu_topology_list) + 1
        /\ \A n \in 1 .. Len(cpu_topology_list) : cpu_topology_list'[n] = cpu_topology_list[n]
        /\ cpu_topology_list'[Len(cpu_topology_list) + 1] = p
        /\ cpu_topology_list' \in Seq(CpuTopo)
        /\ Len(cpu_topology_list) \in Nat
    BY <2>1, <2>3, AppendProperties
  <2>6. /\ DOMAIN cpu_topology_list = 1 .. Len(cpu_topology_list)
        /\ DOMAIN cpu_topology_list' = 1 .. Len(cpu_topology_list) + 1
    BY <2>3, <2>5
  <2> QED
    BY <2>4, <2>5, <2>6
<1>2. cpu_topology_list' = cpu_topology_list \/ AddCpu
  BY DEF Next, StartFails, ReadOnline, SkipCpu, ReadCpu, ReadCpuFails, FindNode, MissNode,
      SkipCache, FindCache,
         ReadCache, ReadCacheFails, ReadNode, ReadNodeFails, Done, Plug, Fail, lists, vars
<1>3. ASSUME NEW n \in DOMAIN cpu_topology_list'
      PROVE  Genuine(cpu_topology_list[n])' /\ AllRead(cpu_topology_list[n], Cardinality(Index))'
  <2>1. PICK t : t = cpu_topology_list'[n]
    OBVIOUS
  <2>2. Genuine(t) /\ AllRead(t, Cardinality(Index))
    <3>1. CASE cpu_topology_list' = cpu_topology_list
      BY <1>3, <2>1, <3>1 DEF ReadInv
    <3>2. CASE AddCpu
      BY <1>1, <1>3, <2>1, <3>2 DEF ReadInv
    <3> QED
      BY <1>2, <3>1, <3>2
  <2>3. Genuine(t)' /\ AllRead(t, Cardinality(Index))'
    BY <2>2, GenuineStays
  <2> QED
    BY <2>1, <2>3
<1>4. Listed \subseteq Listed' /\ (AddCpu => cpu \in Listed')
  <2>1. CASE cpu_topology_list' = cpu_topology_list /\ ~AddCpu
    BY <2>1 DEF Listed
  <2>2. CASE AddCpu
    BY <1>1, <2>2 DEF Listed, ToSet
  <2> QED
    BY <1>2, <2>1, <2>2
<1> QED
  BY <1>3, <1>4

\* Every CPU that the loop has passed is listed.
LEMMA ReadStep == TopoInv /\ ReadInv /\ [Next]_vars => ReadInv'
<1> SUFFICES ASSUME TopoInv, ReadInv, [Next]_vars
             PROVE  ReadInv'
  OBVIOUS
<1> DEFINE Passed == /\ pc = "start" => cpu = 0
                     /\ pc \notin {"start", "failed"} => CPU \ unplugged \subseteq cpus
                     /\ \A c \in cpus : c < cpu => c \in Listed
                     /\ pc = "done" => cpus \subseteq Listed
<1>1. unplugged \subseteq unplugged' /\ Listed \subseteq Listed' /\ (AddCpu => cpu \in Listed')
  BY Recorded, ListedRead
<1>2. cpus \subseteq CPU /\ cpu \in 0 .. Cardinality(CPU) /\ \A c \in cpus : c \in Nat
  BY Sizes DEF TopoInv, TypeOK
<1>3. Passed /\ CPU \ online \subseteq unplugged
  BY DEF ReadInv, TopoInv, LoopInv
<1> HIDE DEF Listed
<1>4. CASE ReadOnline
  <2>1. cpus' = online /\ cpu' = 0 /\ pc' = "cpu" /\ \A c \in online : ~(c < 0)
    <3>1. online \subseteq CPU
      BY DEF TopoInv, TypeOK
    <3> QED
      BY <1>3, <1>4, <3>1, Sizes DEF ReadOnline, Goto
  <2> QED
    BY <1>1, <1>3, <2>1, ListedRead, CollectedRead DEF ReadInv
<1>5. CASE SkipCpu \/ AddCpu
  <2>1. cpus' = cpus /\ cpu' = cpu + 1 /\ pc' = "cpu" /\ pc \in {"cpu", "cache"}
        /\ (cpu \in cpus => cpu \in Listed')
    BY <1>1, <1>5 DEF SkipCpu, AddCpu, Goto
  <2>2. \A c \in cpus : c < cpu + 1 => c < cpu \/ c = cpu
    BY <1>2
  <2>3. \A c \in cpus' : c < cpu' => c \in Listed'
    BY <1>1, <1>3, <2>1, <2>2
  <2> QED
    BY <1>1, <1>3, <2>1, <2>3, ListedRead, CollectedRead DEF ReadInv
<1>6. CASE Done
  <2>1. cpus' = cpus /\ cpu' = cpu /\ pc' = "done" /\ pc = "cpu" /\ cpu \notin CPU
    BY <1>6 DEF Done, Goto
  <2>2. \A c \in cpus : c < cpu
    BY <1>2, <2>1, Sizes
  <2> QED
    BY <1>1, <1>3, <2>1, <2>2, ListedRead, CollectedRead DEF ReadInv
<1>7. \/ ReadOnline \/ SkipCpu \/ AddCpu \/ Done
      \/ /\ cpus' = cpus /\ cpu' = cpu
         /\ \/ pc' = pc
            \/ pc \notin {"start", "failed"} /\ pc' \in {"cpu", "node", "cache", "read"}
            \/ pc' = "failed"
  BY DEF Next, StartFails, ReadCpu, ReadCpuFails, FindNode, MissNode, SkipCache, FindCache,
      ReadCache,
         ReadCacheFails, ReadNode, ReadNodeFails, Plug, Fail, Goto, vars
<1>8. CASE /\ cpus' = cpus /\ cpu' = cpu
           /\ \/ pc' = pc
              \/ pc \notin {"start", "failed"} /\ pc' \in {"cpu", "node", "cache", "read"}
              \/ pc' = "failed"
  <2>1. Passed'
    BY <1>1, <1>3, <1>8
  <2> QED
    BY <2>1, ListedRead, CollectedRead DEF ReadInv
<1> QED
  BY <1>4, <1>5, <1>6, <1>7, <1>8

\* In the beginning nothing has been read.
LEMMA ReadInit == Init => ReadInv
BY DEF Init, ReadInv, InCpu

-----------------------------------------------------------------------------
\* The topologies that may be found.
Founds == [node : [CPU -> Nat], caches : [CPU -> Seq(SUBSET CPU)], known : SUBSET CPU]

\* The partitioning of Placement, with the lemmas about it.
PP == INSTANCE CpuPartitionProofs WITH
  machine <- Found, Machine <- Founds, pc <- step, again <- step = "again"

\* Before the partitioning its variables are as main() has set them up.
Untouched ==
  /\ affinities = [r \in Rank |-> {}] /\ process_rank = 0
  /\ avail = {} /\ use = {} /\ cpu_prev = NoCpu /\ cpus_assigned = 0

\* A rank whose turn has not come has no CPUs.
Blank == step \in {"rank", "next"} => \A r \in Rank : r >= process_rank => affinities[r] = {}

\* The partitioning goes on only after the collection, and as CpuPartition does.
PlacedInv ==
  /\ step \in {"collect", "rank", "next", "done", "failed"}
  /\ step = "collect" => Untouched
  /\ step # "collect" => /\ pc = "done"
                         /\ PP!PartInv
                         /\ nr_processes <= Cardinality(Rank)
                         /\ Blank

\* The levels of the hardware.
HardwareLevels == {CachesAt(i) : i \in Index} \cup {Nodes}

\* Among the CPUs that stayed online the ranks are packed on the hardware.
HardwareInv ==
  step # "collect" /\ faults = 0 /\ Plain /\ Discovered \cap unplugged = {} =>
    \A L \in HardwareLevels : PP!Packing(L, CPU \ unplugged)

-----------------------------------------------------------------------------
\* The instances count as this module does.
LEMMA SameCount == \A S : P!Cardinality(S) = Cardinality(S) /\ PP!Cardinality(S) = Cardinality(S)
BY DEF P!Cardinality, PP!Cardinality, Cardinality

\* What CpuPartition assumes of its constants holds of those it is given.
LEMMA PartitionAssumptions ==
  /\ PP!MachineAssumption /\ PP!RankAssumption
  /\ CPU \subseteq Nat /\ IsFiniteSet(CPU) /\ NoCpu \notin CPU
  /\ Rank = 0 .. Cardinality(Rank) - 1 /\ Cardinality(Rank) \in Nat
<1>1. CPU \subseteq Nat /\ IsFiniteSet(CPU)
  BY Sizes, TopologyAssumption
<1>2. NoCpu \in Nat \ CPU
  BY PlacementAssumption
<1>3. IsFiniteSet(Rank) /\ Rank = 0 .. Cardinality(Rank) - 1 /\ Cardinality(Rank) >= 2
  BY PlacementAssumption, SameCount DEF P!RankAssumption, P!IsFiniteSet, IsFiniteSet
<1>4. PP!MachineAssumption
  BY <1>1, <1>2 DEF PP!MachineAssumption, PP!IsFiniteSet, IsFiniteSet, Founds
<1>5. PP!RankAssumption
  BY <1>3, SameCount DEF PP!RankAssumption, PP!IsFiniteSet, IsFiniteSet
<1> QED
  BY <1>1, <1>2, <1>3, <1>4, <1>5, FS_CardinalityType

\* The steps of the partitioning are those that the lemmas are about.
LEMMA SameSteps ==
  /\ P!StartRank => PP!StartRank
  /\ P!SameCache => PP!SameCache
  /\ P!SameNode => PP!SameNode
  /\ P!AnyCpu => PP!AnyCpu
  /\ P!Commit => PP!Commit
  /\ P!Done => PP!Done
  /\ P!NoTopology => PP!NoTopology
  /\ P!NoTopologyOfOther => PP!NoTopologyOfOther
<1>1. P!StartRank => PP!StartRank
  BY DEF P!StartRank, PP!StartRank, P!cpuset_first, PP!cpuset_first, P!Min, PP!Min,
         P!Without, PP!Without, P!With, PP!With, P!given, PP!given, P!regionVars, PP!regionVars
<1>2. P!SameCache => PP!SameCache
  BY DEF P!SameCache, PP!SameCache, P!Searching, PP!Searching, P!Missing, PP!Missing,
         P!SharedCaches, PP!SharedCaches, P!Nearest, PP!Nearest, P!Take, PP!Take,
         P!cpuset_first, PP!cpuset_first, P!Min, PP!Min,
         P!Without, PP!Without, P!With, PP!With, P!given, PP!given, P!regionVars, PP!regionVars
<1>3. P!SameNode => PP!SameNode
  BY DEF P!SameNode, PP!SameNode, P!Searching, PP!Searching, P!Missing, PP!Missing,
         P!SharedCaches, PP!SharedCaches, P!NodeStops, PP!NodeStops, P!Take, PP!Take,
         P!cpuset_first, PP!cpuset_first, P!Min, PP!Min,
         P!Without, PP!Without, P!With, PP!With, P!given, PP!given, P!regionVars, PP!regionVars
<1>4. P!AnyCpu => PP!AnyCpu
  BY DEF P!AnyCpu, PP!AnyCpu, P!Searching, PP!Searching, P!Missing, PP!Missing,
         P!SharedCaches, PP!SharedCaches, P!NodeStops, PP!NodeStops, P!Take, PP!Take,
         P!cpuset_first, PP!cpuset_first, P!Min, PP!Min,
         P!Without, PP!Without, P!With, PP!With, P!given, PP!given, P!regionVars, PP!regionVars
<1>5. P!Commit => PP!Commit
  BY DEF P!Commit, PP!Commit, P!Missing, PP!Missing, P!Unused, PP!Unused,
         P!given, PP!given, P!localVars, PP!localVars
<1>6. P!Done => PP!Done
  BY DEF P!Done, PP!Done, P!given, PP!given, P!localVars, PP!localVars
<1>7. P!NoTopology => PP!NoTopology
  BY DEF P!NoTopology, PP!NoTopology, P!Missing, PP!Missing, P!Fail, PP!Fail,
         P!given, PP!given, P!regionVars, PP!regionVars, P!localVars, PP!localVars
<1>8. P!NoTopologyOfOther => PP!NoTopologyOfOther
  BY DEF P!NoTopologyOfOther, PP!NoTopologyOfOther, P!Searching, PP!Searching, P!Missing,
         PP!Missing, P!SharedCaches, PP!SharedCaches, P!NodeStops, PP!NodeStops,
         P!cpuset_first, PP!cpuset_first, P!Min, PP!Min, P!Fail, PP!Fail,
         P!given, PP!given, P!regionVars, PP!regionVars, P!localVars, PP!localVars
<1> QED
  BY <1>1, <1>2, <1>3, <1>4, <1>5, <1>6, <1>7, <1>8

\* What the list has of a CPU.
LEMMA ListedCpu ==
  ASSUME TopoInv, NEW c \in Listed
  PROVE  /\ c \in CPU /\ Topo(c).cpu_id = c /\ Topo(c) \in CpuTopo
         /\ Excused(c) \/ Topo(c).node_id = LookedUp(c)
         /\ Topo(c).caches \in Seq([index : Index, shared : SUBSET CPU])
         /\ ReadInv => Genuine(Topo(c)) /\ AllRead(Topo(c), Cardinality(Index))
<1>1. PICK t \in ToSet(cpu_topology_list) : t.cpu_id = c
  BY DEF Listed
<1>2. Topo(c) \in ToSet(cpu_topology_list) /\ Topo(c).cpu_id = c
  BY <1>1 DEF Topo
<1>3. PICK n \in DOMAIN cpu_topology_list : Topo(c) = cpu_topology_list[n]
  BY <1>2 DEF ToSet
<1>4. Topo(c) \in CpuTopo
  BY <1>3 DEF TopoInv, TypeOK
<1>5. ReadInv => Genuine(Topo(c)) /\ AllRead(Topo(c), Cardinality(Index))
  BY <1>3 DEF ReadInv
<1>6. Topo(c).caches \in Seq([index : Index, shared : SUBSET CPU])
  BY <1>4 DEF CpuTopo
<1> QED
  BY <1>2, <1>4, <1>5, <1>6, NodesFound

\* The caches of a CPU as the partitioning looks at them.
LEMMA FoundCaches ==
  ASSUME TopoInv, NEW c \in Listed
  PROVE  /\ Found.caches[c] \in Seq(SUBSET CPU)
         /\ DOMAIN Found.caches[c] = DOMAIN Topo(c).caches
         /\ DOMAIN Found.caches[c] \subseteq Nat
         /\ \A k \in DOMAIN Found.caches[c] : Found.caches[c][k] = Topo(c).caches[k].shared
         /\ Found.node[c] = Topo(c).node_id
<1>1. c \in CPU /\ Topo(c).caches \in Seq([index : Index, shared : SUBSET CPU])
  BY ListedCpu
<1>2. PICK q : q = Topo(c).caches
  OBVIOUS
<1>3. q \in Seq([index : Index, shared : SUBSET CPU])
  BY <1>1, <1>2
<1>4. Len(q) \in Nat /\ DOMAIN q = 1 .. Len(q)
  BY <1>3
<1>5. \A k \in DOMAIN q : q[k] \in [index : Index, shared : SUBSET CPU]
  <2>1. PICK R : R = [index : Index, shared : SUBSET CPU]
    OBVIOUS
  <2>2. q \in Seq(R)
    BY <1>3, <2>1
  <2>3. \A k \in DOMAIN q : q[k] \in R
    BY <2>2
  <2> QED
    BY <2>1, <2>3
<1>6. \A k \in 1 .. Len(q) : q[k].shared \in SUBSET CPU
  BY <1>4, <1>5
<1>7. [k \in 1 .. Len(q) |-> q[k].shared] \in Seq(SUBSET CPU)
  BY <1>4, <1>6, IsASeq
<1>8. Found.caches[c] = [k \in DOMAIN q |-> q[k].shared]
  BY <1>1, <1>2 DEF Found
<1>9. Found.caches[c] \in Seq(SUBSET CPU)
  BY <1>4, <1>7, <1>8
<1>10. DOMAIN Found.caches[c] = DOMAIN q
       /\ \A k \in DOMAIN Found.caches[c] : Found.caches[c][k] = q[k].shared
  BY <1>8
<1>11. Found.node[c] = Topo(c).node_id
  BY <1>1 DEF Found
<1> QED
  BY <1>2, <1>4, <1>9, <1>10, <1>11

\* What is found is a topology.
LEMMA FoundType ==
  ASSUME TopoInv
  PROVE  Found \in Founds
<1>1. ASSUME NEW c \in CPU
      PROVE  (IF c \in Listed THEN Topo(c).node_id ELSE 0) \in Nat
  BY ListedCpu DEF CpuTopo
<1>2. ASSUME NEW c \in CPU
      PROVE  Found.caches[c] \in Seq(SUBSET CPU)
  <2>1. CASE c \in Listed
    BY <2>1, FoundCaches
  <2>2. CASE c \notin Listed
    BY <2>2 DEF Found
  <2> QED
    BY <2>1, <2>2
<1>3. Found.node \in [CPU -> Nat]
  BY <1>1 DEF Found
<1>4. Found.caches \in [CPU -> Seq(SUBSET CPU)]
  <2>1. PICK f : f = Found.caches
    OBVIOUS
  <2>2. f = [c \in CPU |-> f[c]]
    BY <2>1 DEF Found
  <2> QED
    BY <1>2, <2>1, <2>2
<1>5. Listed \in SUBSET CPU
  BY ListedCpu
<1>6. Found = [node |-> Found.node, caches |-> Found.caches, known |-> Listed]
  BY DEF Found
<1> QED
  BY <1>3, <1>4, <1>5, <1>6 DEF Founds

-----------------------------------------------------------------------------
\* A step of Placement is one of the collection or leaves it alone.
LEMMA PlaceNextCollects ==
  ASSUME [PlaceNext]_<< vars, partitionVars >>
  PROVE  [Next]_vars
BY DEF PlaceNext, Collect, Partition, Place

\* What the collection guarantees holds also while the CPUs are partitioned.
LEMMA CollectionHolds == PlaceSpec => [](TopoInv /\ ReadInv)
<1>1. PlaceInit => TopoInv /\ ReadInv
  BY TopoInit, ReadInit DEF PlaceInit
<1>2. TopoInv /\ ReadInv /\ [PlaceNext]_<< vars, partitionVars >> => (TopoInv /\ ReadInv)'
  BY PlaceNextCollects, TopoStep, ReadStep
<1> QED
  BY <1>1, <1>2, PTL DEF PlaceSpec

\* So it is in the next state.
LEMMA FoundTypeNext == TopoInv' => Found' \in Founds
<1> DEFINE OK == Found \in Founds
<1>1. TopoInv => OK
  BY FoundType
<1>2. OK' => Found' \in Founds
  OBVIOUS
<1> HIDE DEF OK
<1> QED
  BY <1>1, <1>2, PTL

\* The invariant of the partitioning, when it begins.
LEMMA PartitionInits == PP!Init' => PP!PartInv'
<1>1. PP!Init => PP!PartInv
  BY PP!PartInit, PartitionAssumptions
<1> QED
  BY <1>1, PTL

\* The first partitioning starts from the CPUs that were discovered.
LEMMA PartitionStarts ==
  ASSUME TopoInv', PlacedInv, Partition
  PROVE  PlacedInv'
<1>1. /\ step = "collect" /\ pc = "done" /\ step' = "rank" /\ pc' = "done"
      /\ cpus_available' \in SUBSET CPU
      /\ nr_processes' \in 2 .. Cardinality(Rank)
      /\ cpus_to_assign' = Cardinality(cpus_available') \div nr_processes'
      /\ UNCHANGED << process_rank, affinities, avail, use, cpu_prev, cpus_assigned >>
  BY DEF Partition, vars
<1>2. Untouched
  BY <1>1 DEF PlacedInv
<1>3. Found' \in Founds
  BY FoundTypeNext
<1>4. PP!Init'
  BY <1>1, <1>2, <1>3, SameCount DEF PP!Init, Untouched
<1>5. PP!PartInv'
  BY <1>4, PartitionInits
<1>6. nr_processes' <= Cardinality(Rank)
  BY <1>1, PartitionAssumptions
<1>7. Blank'
  BY <1>1, <1>2 DEF Untouched, Blank
<1> QED
  BY <1>1, <1>5, <1>6, <1>7 DEF PlacedInv

\* Before its turn a rank has no CPUs, whatever the partitioning does.
LEMMA BlankKept ==
  ASSUME PlacedInv, Place
  PROVE  Blank' /\ step' \in {"rank", "next", "done", "failed"}
<1>1. /\ step \in {"rank", "next", "done", "failed"} /\ Blank
      /\ process_rank \in Nat /\ \A r \in Rank : r \in Nat
      /\ affinities \in [Rank -> SUBSET CPU]
  BY PartitionAssumptions DEF PlacedInv, Place, PP!PartInv, PP!TypeOK
<1>2. CASE P!Commit
  <2>1. /\ step = "next" /\ step' = "rank" /\ process_rank' = process_rank + 1
        /\ affinities' = [affinities EXCEPT ![process_rank] = use]
    BY <1>2 DEF P!Commit
  <2>2. ASSUME NEW r \in Rank, r >= process_rank + 1
        PROVE  r # process_rank /\ r >= process_rank
    BY <1>1, <2>2
  <2>3. \A r \in Rank : r >= process_rank + 1 => affinities'[r] = {}
    BY <1>1, <2>1, <2>2 DEF Blank
  <2> QED
    BY <2>1, <2>3 DEF Blank
<1>3. CASE P!StartRank \/ P!SameCache \/ P!SameNode \/ P!AnyCpu
  BY <1>1, <1>3 DEF P!StartRank, P!SameCache, P!SameNode, P!AnyCpu, P!Searching, P!Take,
                    P!regionVars, Blank
<1>4. CASE P!Done \/ P!NoTopology \/ P!NoTopologyOfOther
  BY <1>4 DEF P!Done, P!NoTopology, P!NoTopologyOfOther, P!Fail, Blank
<1> QED
  BY <1>2, <1>3, <1>4 DEF Place

\* A step of the partitioning is one that the lemmas are about.
LEMMA PlaceSteps ==
  ASSUME Place
  PROVE  \/ PP!StartRank \/ PP!SameCache \/ PP!SameNode \/ PP!AnyCpu \/ PP!Commit \/ PP!Done
         \/ PP!NoTopology \/ PP!NoTopologyOfOther
BY SameSteps DEF Place

\* Placement keeps what CpuPartition does.
LEMMA PlacedStep ==
  ASSUME TopoInv', PlacedInv, [PlaceNext]_<< vars, partitionVars >>
  PROVE  PlacedInv'
<1>1. CASE Collect
  BY <1>1 DEF Collect, partitionVars, PlacedInv, Untouched
<1>2. CASE Partition
  BY <1>2, PartitionStarts
<1>3. CASE Place
  <2>1. step # "collect" /\ pc' = pc /\ PlacedInv
    BY <1>3 DEF Place, vars
  <2>2. PP!Next
    BY <1>3, PlaceSteps DEF PP!Next
  <2>3. PP!PartInv'
    BY <2>1, <2>2, PP!PartStep, PartitionAssumptions DEF PlacedInv
  <2>4. nr_processes' = nr_processes
    BY <1>3 DEF Place, P!StartRank, P!SameCache, P!SameNode, P!AnyCpu, P!Take, P!Commit,
                P!Done, P!NoTopology, P!NoTopologyOfOther, P!Fail, P!given
  <2> QED
    BY <1>3, <2>1, <2>3, <2>4, BlankKept DEF PlacedInv
<1>4. CASE UNCHANGED << vars, partitionVars >>
  <2>1. UNCHANGED << Found, step, pc, nr_processes, cpus_to_assign, cpus_available,
                     process_rank, affinities, avail, use, cpu_prev, cpus_assigned >>
    BY <1>4 DEF vars, lists, partitionVars, Found, Topo, Listed
  <2>2. step # "collect" => PP!PartInv'
    <3>1. step # "collect" => PP!PartInv
      BY DEF PlacedInv
    <3>2. UNCHANGED PP!vars
      BY <2>1 DEF PP!vars, PP!given, PP!regionVars, PP!localVars
    <3> QED
      BY <3>1, <3>2, PP!PartStep, PartitionAssumptions
  <2> QED
    BY <2>1, <2>2 DEF PlacedInv, Untouched, Blank
<1> QED
  BY <1>1, <1>2, <1>3, <1>4 DEF PlaceNext

\* The invariant holds in every state.
LEMMA PlacedInvariance == PlaceSpec => [](TopoInv /\ ReadInv /\ PlacedInv)
<1>1. PlaceInit => PlacedInv
  BY DEF PlaceInit, PlacedInv, Untouched
<1>2. TopoInv' /\ PlacedInv /\ [PlaceNext]_<< vars, partitionVars >> => PlacedInv'
  BY PlacedStep
<1> QED
  BY <1>1, <1>2, CollectionHolds, PTL DEF PlaceSpec

\* The list holds every CPU that was online all the time.
LEMMA OnlineListed ==
  ASSUME TopoInv, ReadInv, pc = "done"
  PROVE  CPU \ unplugged \subseteq Listed
BY DEF ReadInv

\* The partitioning fails only if a CPU that was discovered was offline at some time since
\* the collection began, on any hardware, whichever calls of the collection failed and however
\* the CPUs came and went: a CPU whose caches could not be read is listed all the same
\* (722-745, 988-1004, 1024-1040).
THEOREM FailsOnlyIfUnplugged == PlaceSpec => []PlacedUnlessUnplugged
<1>1. ASSUME TopoInv, ReadInv, PlacedInv, step = "failed"
      PROVE  Discovered \cap unplugged # {}
  <2>1. pc = "done" /\ PP!PartInv
    BY <1>1 DEF PlacedInv
  <2>2. ~(use \cup avail \subseteq Listed)
    BY <1>1, <2>1 DEF PP!PartInv, PP!FailsForCause, Found
  <2>3. use \cup avail \subseteq cpus_available /\ cpus_available \subseteq CPU
    BY <1>1, <2>1 DEF PP!PartInv, PP!ShareInv, PP!CopiesInv
  <2>4. CPU \ unplugged \subseteq Listed
    BY <1>1, <2>1, OnlineListed
  <2> QED
    BY <2>2, <2>3, <2>4 DEF Discovered
<1>2. TopoInv /\ ReadInv /\ PlacedInv => PlacedUnlessUnplugged
  BY <1>1 DEF PlacedUnlessUnplugged
<1> QED
  BY <1>2, PlacedInvariance, PTL

-----------------------------------------------------------------------------
\* If no call failed, a CPU that was online all the time is listed with its node and with all
\* of its caches, each of them holding those of these CPUs that share it.
LEMMA ReadOfHardware ==
  ASSUME TopoInv, ReadInv, pc = "done", faults = 0, NEW c \in CPU \ unplugged
  PROVE  /\ c \in Listed
         /\ \A k \in DOMAIN Found.caches[c] :
              /\ k \in Nat
              /\ Topo(c).caches[k].index \in DOMAIN machine.caches[c]
              /\ Found.caches[c][k] \ unplugged = machine.caches[c][Topo(c).caches[k].index] \ unplugged
              /\ \A j \in DOMAIN Found.caches[c] :
                   j < k => Topo(c).caches[j].index < Topo(c).caches[k].index
         /\ \A i \in DOMAIN machine.caches[c] :
              \E k \in DOMAIN Found.caches[c] : Topo(c).caches[k].index = i
<1>1. c \in Listed
  BY OnlineListed
<1>2. /\ DOMAIN Found.caches[c] = DOMAIN Topo(c).caches
      /\ \A k \in DOMAIN Found.caches[c] :
           k \in Nat /\ Found.caches[c][k] = Topo(c).caches[k].shared
  BY <1>1, FoundCaches
<1>3. Genuine(Topo(c)) /\ AllRead(Topo(c), Cardinality(Index)) /\ Topo(c).cpu_id = c
  BY <1>1, ListedCpu
<1>4. DOMAIN machine.caches[c] \subseteq Index
  BY MachineTypes DEF TopoInv
<1>5. ~Excused(c)
  BY Sizes DEF Excused
<1>6. \A i \in DOMAIN machine.caches[c] : \E k \in DOMAIN Topo(c).caches : Topo(c).caches[k].index = i
  BY <1>3, <1>4, <1>5, Sizes DEF AllRead
<1>7. ASSUME NEW k \in DOMAIN Topo(c).caches
      PROVE  /\ Topo(c).caches[k].index \in DOMAIN machine.caches[c]
             /\ Topo(c).caches[k].shared \ unplugged
                  = machine.caches[c][Topo(c).caches[k].index] \ unplugged
             /\ \A j \in DOMAIN Topo(c).caches :
                  j < k => Topo(c).caches[j].index < Topo(c).caches[k].index
  BY <1>3, <1>7 DEF Genuine
<1> QED
  BY <1>1, <1>2, <1>6, <1>7

\* So the caches and nodes of the hardware are levels of the partitioning.
LEMMA HardwareRespected ==
  ASSUME TopoInv, ReadInv, pc = "done", faults = 0, Plain, NEW L \in HardwareLevels
  PROVE  L \in SUBSET SUBSET CPU /\ PP!Respected(L, CPU \ unplugged)
<1> DEFINE D == CPU \ unplugged
           Node(c) == {d \in CPU : machine.node[d] = machine.node[c]}
<1>1. \A c \in CPU : \A k \in DOMAIN machine.caches[c] : machine.caches[c][k] \in SUBSET CPU
  BY MachineTypes DEF TopoInv
<1>2. \A c \in CPU : \A k \in DOMAIN machine.caches[c] :
        /\ \A d \in machine.caches[c][k] : /\ k \in DOMAIN machine.caches[d]
                                           /\ machine.caches[d][k] = machine.caches[c][k]
                                           /\ machine.node[d] = machine.node[c]
        /\ \A j \in DOMAIN machine.caches[c] : j < k => machine.caches[c][j] \subseteq machine.caches[c][k]
  BY DEF Plain, P!Nested
<1>3. ASSUME NEW c \in D
      PROVE  Found.node[c] = machine.node[c]
  <2>1. Found.node[c] = LookedUp(c)
    <3>1. c \in Listed /\ ~Excused(c)
      BY <1>3, ReadOfHardware DEF Excused
    <3> QED
      BY <3>1, FoundCaches, ListedCpu
  <2>2. machine.node[c] \in 0 .. machine.count - 1 /\ machine.count \in Nat
    BY <1>3, TopologyAssumption DEF Plain, TopoInv, TypeOK
  <2> QED
    BY <2>1, <2>2 DEF LookedUp
<1>4. ASSUME NEW i \in Index, L = CachesAt(i)
      PROVE  L \in SUBSET SUBSET CPU /\ PP!Respected(L, D)
  <2>1. \A d \in L : \E b \in CPU : i \in DOMAIN machine.caches[b] /\ d = machine.caches[b][i]
    BY <1>4 DEF CachesAt
  <2>2. L \in SUBSET SUBSET CPU
    BY <1>1, <2>1
  <2>3. ASSUME NEW d \in L, NEW c \in d
        PROVE  c \in CPU /\ i \in DOMAIN machine.caches[c] /\ machine.caches[c][i] = d
    BY <1>1, <1>2, <2>1, <2>3
  <2>4. ASSUME NEW d \in L, NEW c \in d \cap D
        PROVE  PP!AsCache(d, D, c)
    <3>1. c \in CPU \ unplugged /\ i \in DOMAIN machine.caches[c] /\ machine.caches[c][i] = d
      BY <2>3, <2>4
    <3>2. PICK k \in DOMAIN Found.caches[c] : Topo(c).caches[k].index = i
      BY <3>1, ReadOfHardware
    <3>3. Found.caches[c][k] \ unplugged = d \ unplugged
      BY <3>1, <3>2, ReadOfHardware
    <3>4. \A j \in DOMAIN Found.caches[c] : Found.caches[c][j] \in SUBSET CPU
      BY <3>1, ReadOfHardware, FoundType DEF Founds
    <3>5. Found.caches[c][k] \cap D = d \cap D
      BY <2>2, <3>2, <3>3, <3>4
    <3>6. ASSUME NEW j \in DOMAIN Found.caches[c], j < k
          PROVE  Found.caches[c][j] \cap D \subseteq d
      <4>1. PICK h : h = Topo(c).caches[j].index
        OBVIOUS
      <4>2. h \in DOMAIN machine.caches[c] /\ h < i
            /\ Found.caches[c][j] \ unplugged = machine.caches[c][h] \ unplugged
        BY <3>1, <3>2, <3>6, <4>1, ReadOfHardware
      <4>3. machine.caches[c][h] \subseteq d
        BY <1>2, <3>1, <4>2
      <4> QED
        BY <4>2, <4>3
    <3> QED
      BY <3>2, <3>5, <3>6 DEF PP!AsCache
  <2>5. ASSUME NEW d \in L, NEW e \in L, d # e
        PROVE  d \cap e \cap D = {}
    BY <2>3, <2>5
  <2> HIDE DEF D
  <2> QED
    BY <2>2, <2>4, <2>5 DEF PP!Respected
<1>5. ASSUME L = Nodes
      PROVE  L \in SUBSET SUBSET CPU /\ PP!Respected(L, D)
  <2>1. ASSUME NEW d \in L, NEW c \in d
        PROVE  c \in CPU /\ d = Node(c)
    BY <1>5, <2>1 DEF Nodes
  <2>2. L \in SUBSET SUBSET CPU
    BY <1>5 DEF Nodes
  <2>3. ASSUME NEW d \in L, NEW c \in d \cap D
        PROVE  PP!AsNode(d, D, c)
    <3>1. c \in CPU \ unplugged /\ d = Node(c)
      BY <2>1, <2>3
    <3>2. d \cap D = {e \in D : Found.node[e] = Found.node[c]}
      <4>1. \A e \in D : Found.node[e] = machine.node[e]
        BY <1>3
      <4>2. \A e : e \in d \cap D <=> e \in D /\ machine.node[e] = machine.node[c]
        BY <3>1
      <4> QED
        BY <3>1, <4>1, <4>2
    <3>3. ASSUME NEW j \in DOMAIN Found.caches[c]
          PROVE  Found.caches[c][j] \cap D \subseteq d
      <4>1. PICK h \in DOMAIN machine.caches[c] :
                   Found.caches[c][j] \ unplugged = machine.caches[c][h] \ unplugged
        BY <3>1, <3>3, ReadOfHardware
      <4>2. machine.caches[c][h] \subseteq Node(c)
        BY <1>1, <1>2, <3>1, <4>1
      <4> QED
        BY <3>1, <4>1, <4>2
    <3> QED
      BY <3>2, <3>3 DEF PP!AsNode
  <2>4. ASSUME NEW d \in L, NEW e \in L, d # e
        PROVE  d \cap e \cap D = {}
    BY <2>1, <2>4
  <2> HIDE DEF D, Node
  <2> QED
    BY <2>2, <2>3, <2>4 DEF PP!Respected
<1> QED
  BY <1>4, <1>5 DEF HardwareLevels

\* A rank gets no CPU that was not among those to be shared out.
LEMMA DiscoveredGrows ==
  ASSUME PlacedInv, Place
  PROVE  Discovered \subseteq Discovered'
<1>1. CASE P!Commit
  <2>1. /\ cpus_available' = avail /\ step = "next"
        /\ affinities' = [affinities EXCEPT ![process_rank] = use]
    BY <1>1 DEF P!Commit, P!Unused
  <2>2. /\ PP!PartInv /\ Blank /\ nr_processes <= Cardinality(Rank)
    BY <2>1 DEF PlacedInv
  <2>3. /\ avail = cpus_available \ use /\ affinities \in [Rank -> SUBSET CPU]
        /\ process_rank \in Nat /\ nr_processes \in Nat /\ process_rank < nr_processes
    BY <2>1, <2>2 DEF PP!PartInv, PP!ShareInv, PP!CopiesInv, PP!TypeOK, PP!CountInv
  <2>4. process_rank \in Rank
    BY <2>2, <2>3, PartitionAssumptions
  <2>5. \A r \in Rank : affinities'[r] = IF r = process_rank THEN use ELSE affinities[r]
    BY <2>1, <2>3
  <2>6. affinities[process_rank] = {}
    BY <2>1, <2>2, <2>3, <2>4 DEF Blank
  <2>7. \A r \in Rank : affinities[r] \subseteq affinities'[r]
    BY <2>5, <2>6
  <2>8. cpus_available \subseteq avail \cup affinities'[process_rank]
    BY <2>3, <2>4, <2>5
  <2> QED
    BY <2>1, <2>4, <2>7, <2>8 DEF Discovered
<1>2. CASE ~P!Commit
  <2>1. cpus_available' = cpus_available /\ affinities' = affinities
    BY <1>2 DEF Place, P!StartRank, P!SameCache, P!SameNode, P!AnyCpu, P!Take, P!Done,
                P!NoTopology, P!NoTopologyOfOther, P!Fail, P!regionVars
  <2> QED
    BY <2>1 DEF Discovered
<1> QED
  BY <1>1, <1>2

\* The partitioning keeps the ranks packed on the hardware.
LEMMA HardwareStep ==
  ASSUME TopoInv, ReadInv, PlacedInv, HardwareInv, [PlaceNext]_<< vars, partitionVars >>
  PROVE  HardwareInv'
<1>1. CASE Collect
  BY <1>1 DEF Collect, partitionVars, HardwareInv
<1>2. CASE Partition
  <2> SUFFICES ASSUME Discovered' \cap unplugged' = {}, NEW L \in HardwareLevels'
               PROVE  PP!Packing(L, CPU \ unplugged)'
    BY DEF HardwareInv
  <2>1. /\ cpus_available' \subseteq CPU /\ affinities' = [r \in Rank |-> {}] /\ step' = "rank"
        /\ unplugged' = unplugged
    BY <1>2 DEF Partition, PlacedInv, Untouched, vars, sysfs
  <2>2. cpus_available' \subseteq CPU \ unplugged
    BY <2>1 DEF Discovered
  <2> QED
    BY <2>1, <2>2 DEF PP!Packing, PP!Within, PP!NextPacked, PP!RankPacked, PP!PairPacked
<1>3. CASE Place
  <2> SUFFICES ASSUME faults' = 0, Plain', Discovered' \cap unplugged' = {},
                      NEW L \in HardwareLevels'
               PROVE  PP!Packing(L, CPU \ unplugged)'
    BY DEF HardwareInv
  <2>1. step # "collect" /\ machine' = machine /\ unplugged' = unplugged /\ faults' = faults
    BY <1>3 DEF Place, vars, sysfs
  <2>2. Plain /\ L \in HardwareLevels /\ Discovered \cap unplugged = {}
    <3>1. Plain' <=> Plain
      BY <2>1 DEF Plain, P!Nested
    <3>2. HardwareLevels' = HardwareLevels
      BY <2>1 DEF HardwareLevels, CachesAt, Nodes
    <3> QED
      BY <1>3, <2>1, <3>1, <3>2, DiscoveredGrows
  <2>3. PICK D : D = CPU \ unplugged
    OBVIOUS
  <2>4. PP!Packing(L, D)
    BY <2>1, <2>2, <2>3 DEF HardwareInv
  <2>5. L \in SUBSET SUBSET CPU /\ PP!Respected(L, D)
    BY <2>1, <2>2, <2>3, HardwareRespected DEF PlacedInv
  <2>6. PP!Packing(L, D)'
    BY <1>3, <2>1, <2>4, <2>5, PlaceSteps, PP!PackingStep, PartitionAssumptions DEF PlacedInv
  <2>7. D = CPU \ unplugged'
    BY <2>1, <2>3
  <2> QED
    BY <2>6, <2>7 DEF PP!Packing, PP!Within
<1>4. CASE UNCHANGED << vars, partitionVars >>
  <2>1. UNCHANGED << machine, unplugged, faults, step, cpus_available, affinities, use, avail,
                     cpu_prev >>
    BY <1>4 DEF vars, sysfs, partitionVars
  <2>2. (Plain' <=> Plain) /\ HardwareLevels' = HardwareLevels /\ Discovered' = Discovered
    BY <2>1 DEF Plain, P!Nested, HardwareLevels, CachesAt, Nodes, Discovered
  <2>3. ASSUME NEW L, PP!Packing(L, CPU \ unplugged)
        PROVE  PP!Packing(L, CPU \ unplugged)'
    BY <2>1, <2>3 DEF PP!Packing, PP!Within, PP!NextPacked, PP!RankPacked, PP!PairPacked
  <2> QED
    BY <2>1, <2>2, <2>3 DEF HardwareInv
<1> QED
  BY <1>1, <1>2, <1>3, <1>4 DEF PlaceNext

\* On any machine whose caches nest and whose nodes are numbered without gaps, if no call
\* failed and no CPU that was discovered went offline, the ranks are packed on the hardware
\* itself, though CPUs that were not discovered came and went while sysfs was read (579-745,
\* 1008-1057).
THEOREM RanksPackedOnHardware == PlaceSpec => []PackedOnHardware
<1>1. PlaceInit => HardwareInv
  BY DEF PlaceInit, HardwareInv
<1>2. TopoInv /\ ReadInv /\ PlacedInv /\ HardwareInv /\ [PlaceNext]_<< vars, partitionVars >>
        => HardwareInv'
  BY HardwareStep
<1>3. ASSUME PlacedInv, HardwareInv, step = "done", faults = 0,
             Discovered \cap unplugged = {}, Plain, NEW L \in HardwareLevels,
             NEW r \in Rank, NEW s \in Rank, r # s
      PROVE  Cardinality(Meet(r, s, L)) <= 1
  <2>1. PP!PairPacked(L)
    BY <1>3 DEF HardwareInv, PP!Packing
  <2>2. PP!Cardinality(Meet(r, s, L)) <= 1
    BY <1>3, <2>1, PP!MeetOnce, PartitionAssumptions DEF Meet
  <2> QED
    BY <2>2, SameCount
<1>4. PlacedInv /\ HardwareInv => PackedOnHardware
  BY <1>3 DEF PackedOnHardware, HardwareLevels
<1> QED
  BY <1>1, <1>2, <1>4, PlacedInvariance, PTL DEF PlaceSpec

=============================================================================
