------------------------- MODULE CpuPartitionProofs -------------------------
(***************************************************************************)
(* What the partitioning does on any machine and for any number of ranks:  *)
(* no CPU is given to two ranks, the partitioning fails only for a cause,  *)
(* and it implements CpuShares, whose shares PartExec takes for granted.   *)
(*                                                                         *)
(* NoneTwice speaks of what has been committed.  Before the commit, avail  *)
(* and use are the copies that the loop works on, and the theorem needs    *)
(* that they split the CPUs that are still available.  The other two count *)
(* as well: how many CPUs a rank has, and that those which are left are    *)
(* enough for the ranks to come, the first time the group partitions.      *)
(*                                                                         *)
(* Packed is another argument: where caches nest, the search leaves no     *)
(* cache that it has begun to take from before it is empty, so the ranks   *)
(* before take whole caches but for one, and so with the nodes.            *)
(***************************************************************************)
EXTENDS CpuPartition, FiniteSetTheorems, TLAPS

\* The working copies of a rank in the making.
CopiesInv ==
  pc \in {"next", "failed"} => /\ use \subseteq cpus_available
                              /\ avail = cpus_available \ use

\* What NoneTwice needs, by itself, to be inductive.
ShareInv ==
  /\ cpus_available \subseteq CPU
  /\ affinities \in [Rank -> SUBSET CPU]
  /\ CopiesInv
  /\ NoneTwice

\* A rank has as many CPUs as were counted, or all there are.
CountInv ==
  pc = "next" =>
    /\ process_rank < nr_processes
    /\ cpus_assigned \in Nat \ {0}
    /\ cpus_assigned = 1 \/ cpus_assigned <= cpus_to_assign
    /\ \/ Cardinality(use) = cpus_assigned
       \/ avail = {} /\ Cardinality(use) < cpus_assigned

\* The first time, every rank that is still to come finds its CPUs.
EnoughInv ==
  ~again =>
    /\ pc = "rank" =>
         /\ process_rank <= nr_processes
         /\ Cardinality(cpus_available) >= (nr_processes - process_rank) * cpus_to_assign
    /\ pc = "next" =>
         Cardinality(avail) + cpus_assigned >= (nr_processes - process_rank) * cpus_to_assign

\* The last CPU is one of the rank's, unless there was none left.
PrevInv ==
  pc = "next" => \/ cpu_prev \in use
                 \/ cpu_prev = NoCpu /\ (again \/ ~Missing)

\* The inductive invariant, of any machine.
PartInv ==
  /\ TypeOK
  /\ nr_processes > 0
  /\ ShareInv
  /\ CountInv
  /\ EnoughInv
  /\ PrevInv
  /\ FailsForCause

\* Of the CPUs in D, those of d are a cache of c, and the caches further in lie in it.
AsCache(d, D, c) ==
  \E k \in DOMAIN machine.caches[c] :
    /\ machine.caches[c][k] \cap D = d \cap D
    /\ \A j \in DOMAIN machine.caches[c] : j < k => machine.caches[c][j] \cap D \subseteq d

\* Of the CPUs in D, those of d are the node of c, and all caches of c lie in it.
AsNode(d, D, c) ==
  /\ d \cap D = {e \in D : machine.node[e] = machine.node[c]}
  /\ \A j \in DOMAIN machine.caches[c] : machine.caches[c][j] \cap D \subseteq d

\* The sets of a level are caches or nodes as the CPUs in D see them, and no two overlap.
Respected(L, D) ==
  /\ \A d \in L : \A c \in d \cap D : AsCache(d, D, c) \/ AsNode(d, D, c)
  /\ \A d \in L, e \in L : d # e => d \cap e \cap D = {}

\* The CPUs that are shared out are in D.
Within(D) == cpus_available \subseteq D /\ \A r \in Rank : affinities[r] \subseteq D

\* A set of the level that the rank in the making has begun is left only when it is used up.
NextPacked(L) ==
  pc = "next" => \A d \in L : d \cap use # {} /\ d \cap avail # {} => cpu_prev \in d

\* Of the sets of the level that a rank has CPUs of, at most one is left to the others.
RankPacked(L) ==
  \A r \in Rank : \A d \in L, e \in L :
    d # e /\ d \cap affinities[r] # {} /\ e \cap affinities[r] # {} =>
      d \cap cpus_available = {} \/ e \cap cpus_available = {}

\* Two ranks meet in at most one set of the level.
PairPacked(L) ==
  \A r \in Rank, s \in Rank : r # s =>
    \A d \in L, e \in L :
      d # e /\ d \cap affinities[r] # {} /\ e \cap affinities[r] # {} =>
        d \cap affinities[s] = {} \/ e \cap affinities[s] = {}

\* What the search for near CPUs keeps, for one level and the CPUs in D.
Packing(L, D) == Within(D) /\ NextPacked(L) /\ RankPacked(L) /\ PairPacked(L)

\* The first time, on a machine whose caches nest, it does so for all levels.
PackedInv ==
  /\ nr_processes <= Cardinality(Rank)
  /\ ~again /\ Nested(machine) => \A L \in Levels : Packing(L, CPU)

-----------------------------------------------------------------------------
\* Min() of natural numbers is the least of them.
LEMMA LeastIsMember ==
  ASSUME NEW S \in SUBSET Nat, S # {}
  PROVE  Min(S) \in S /\ \A x \in S : Min(S) <= x
<1> DEFINE R == OpToRel(<, Nat)
<1>2. IsWellFoundedOn(R, Nat)
  BY NatLessThanWellFounded
<1>3. ASSUME NEW x \in Nat, NEW y \in Nat, x < y
      PROVE  << x, y >> \in R
  BY <1>3 DEF OpToRel
<1> HIDE DEF R
<1>4. PICK m \in S : \A x \in S : ~ (<< x, m >> \in R)
  BY <1>2, WFMin
<1>5. ASSUME NEW x \in S
      PROVE  m <= x
  <2>1. ~ (x < m)
    BY <1>3, <1>4
  <2> QED
    BY <2>1
<1> QED
  BY <1>5 DEF Min

\* cpuset_first() (63-67) returns a CPU of the mask, or CPU_SETSIZE, which is no CPU.
LEMMA FirstIsMember ==
  ASSUME NEW S \in SUBSET CPU
  PROVE  /\ S # {} => cpuset_first(S) \in S
         /\ S = {} => cpuset_first(S) = NoCpu
         /\ NoCpu \notin CPU
<1>1. S \in SUBSET Nat
  BY MachineAssumption
<1> QED
  BY <1>1, LeastIsMember, MachineAssumption DEF cpuset_first

\* One iteration of the inner loop (1008-1061): a CPU moves from the one copy to the
\* other, or none does.
LEMMA TakeKeeps ==
  ASSUME ShareInv, pc = "next",
         NEW S \in SUBSET avail, Take(cpuset_first(S))
  PROVE  ShareInv'
<1>1. avail \subseteq CPU /\ S \in SUBSET CPU
  BY DEF ShareInv, CopiesInv
<1>2. cpuset_first(S) \in avail \/ cpuset_first(S) \notin CPU
  BY <1>1, FirstIsMember
<1>3. CopiesInv'
  BY <1>2 DEF ShareInv, CopiesInv, Take, With, Without, regionVars
<1> QED
  BY <1>3 DEF ShareInv, NoneTwice, Take, regionVars

\* Before anybody has been given a CPU there is nothing to share out twice.
LEMMA ShareInit == Init => ShareInv
BY DEF Init, ShareInv, CopiesInv, NoneTwice

\* Every step of the partitioning keeps what is handed out and what is left apart.
LEMMA ShareStep == ShareInv /\ [Next]_vars => ShareInv'
<1> SUFFICES ASSUME ShareInv, [Next]_vars
             PROVE  ShareInv'
  OBVIOUS
<1>1. CASE StartRank
  <2>1. cpus_available \in SUBSET CPU
    BY DEF ShareInv
  <2>2. \/ cpuset_first(cpus_available) \in cpus_available
        \/ cpuset_first(cpus_available) \notin CPU
    BY <2>1, FirstIsMember
  <2>3. CopiesInv'
    BY <1>1, <2>1, <2>2 DEF CopiesInv, StartRank, With, Without, regionVars
  <2> QED
    BY <1>1, <2>3 DEF ShareInv, NoneTwice, StartRank, regionVars
<1>2. CASE SameCache
  <2> DEFINE S == machine.caches[cpu_prev][Nearest(SharedCaches)] \cap avail
  <2>1. S \in SUBSET avail /\ Take(cpuset_first(S)) /\ pc = "next"
    BY <1>2 DEF SameCache, Searching
  <2> QED
    BY <2>1, TakeKeeps
<1>3. CASE SameNode
  <2>1. NodeStops \in SUBSET avail /\ Take(cpuset_first(NodeStops)) /\ pc = "next"
    BY <1>3 DEF SameNode, Searching, NodeStops
  <2> QED
    BY <2>1, TakeKeeps
<1>4. CASE AnyCpu
  <2>1. avail \in SUBSET avail /\ Take(cpuset_first(avail)) /\ pc = "next"
    BY <1>4 DEF AnyCpu, Searching
  <2> QED
    BY <2>1, TakeKeeps
<1>5. CASE Commit
  <2>1. pc = "next" /\ pc' = "rank" /\ cpus_available' = avail
        /\ affinities' = [affinities EXCEPT ![process_rank] = use]
    BY <1>5 DEF Commit, Unused
  <2>2. avail \subseteq cpus_available /\ use \subseteq cpus_available /\ avail \cap use = {}
    BY <2>1 DEF ShareInv, CopiesInv
  <2>3. affinities' \in [Rank -> SUBSET CPU] /\ cpus_available' \subseteq CPU
    BY <2>1, <2>2 DEF ShareInv
  <2>4. \A r \in Rank : affinities'[r] = IF r = process_rank THEN use ELSE affinities[r]
    BY <2>1 DEF ShareInv
  <2>5. NoneTwice'
    BY <2>1, <2>2, <2>4 DEF ShareInv, NoneTwice
  <2>6. CopiesInv'
    BY <2>1 DEF CopiesInv
  <2> QED
    BY <2>3, <2>5, <2>6 DEF ShareInv
<1>6. CASE Done
  BY <1>6 DEF ShareInv, CopiesInv, NoneTwice, Done
<1>7. CASE Again
  BY <1>7 DEF ShareInv, CopiesInv, NoneTwice, Again, regionVars
<1>8. CASE NoTopology \/ NoTopologyOfOther
  BY <1>8 DEF ShareInv, CopiesInv, NoneTwice, NoTopology, NoTopologyOfOther, Searching,
              Fail, regionVars, localVars
<1>9. CASE UNCHANGED vars
  BY <1>9 DEF ShareInv, CopiesInv, NoneTwice, vars, regionVars, localVars
<1> QED
  BY <1>1, <1>2, <1>3, <1>4, <1>5, <1>6, <1>7, <1>8, <1>9 DEF Next

\* Whatever the topology and however the group fails or partitions again, a CPU that was
\* committed to one rank is neither given to another nor left available (970-1070).
THEOREM NoCpuTwice == Spec => []NoneTwice
<1>1. Init => ShareInv
  BY ShareInit
<1>2. ShareInv /\ [Next]_vars => ShareInv'
  BY ShareStep
<1>3. ShareInv => NoneTwice
  BY DEF ShareInv
<1> QED
  BY <1>1, <1>2, <1>3, PTL DEF Spec

-----------------------------------------------------------------------------
\* Sets of CPUs are finite, and CPU_SET() and CPU_CLR() of a CPU count by one.
LEMMA Counting ==
  ASSUME NEW S \in SUBSET CPU
  PROVE  /\ IsFiniteSet(S)
         /\ Cardinality(S) \in Nat
         /\ Cardinality(S) = 0 <=> S = {}
         /\ \A c \in S : Cardinality(S \ {c}) = Cardinality(S) - 1
         /\ \A c \in CPU \ S : Cardinality(S \cup {c}) = Cardinality(S) + 1
<1>1. IsFiniteSet(S)
  BY MachineAssumption, FS_Subset
<1>2. Cardinality(S) \in Nat /\ (Cardinality(S) = 0 <=> S = {})
  BY <1>1, FS_CardinalityType, FS_EmptySet
<1>3. ASSUME NEW c \in S
      PROVE  Cardinality(S \ {c}) = Cardinality(S) - 1
  BY <1>1, FS_RemoveElement
<1>4. ASSUME NEW c \in CPU \ S
      PROVE  Cardinality(S \cup {c}) = Cardinality(S) + 1
  BY <1>1, FS_AddElement
<1> QED
  BY <1>1, <1>2, <1>3, <1>4

\* The first rank gets no more than its part, so what is left is enough for the others.
LEMMA PartsSuffice ==
  ASSUME NEW n \in Nat, NEW m \in Nat, m > 0
  PROVE  n \div m \in Nat /\ m * (n \div m) <= n
OBVIOUS

\* The part of the rank in the making is one of the parts that are left.
LEMMA OnePart ==
  ASSUME NEW q \in Nat, NEW n \in Int, NEW r \in Int, r < n
  PROVE  /\ (n - r) * q \in Int
         /\ (n - r) * q >= q
         /\ (n - (r + 1)) * q = (n - r) * q - q
<1> DEFINE d == n - r
<1>1. d \in Int /\ d >= 1 /\ n - (r + 1) = d - 1
  OBVIOUS
<1> HIDE DEF d
<1>2. d * q \in Int /\ (d - 1) * q = d * q - q /\ (d - 1) * q >= 0
  BY <1>1
<1> QED
  BY <1>1, <1>2 DEF d

\* When the group begins, all its CPUs are there.
LEMMA PartInit == Init => PartInv
<1> SUFFICES ASSUME Init
             PROVE  PartInv
  OBVIOUS
<1>1. Cardinality(cpus_available) \in Nat
  BY Counting DEF Init
<1>2. nr_processes \in Nat /\ nr_processes > 0
  BY RankAssumption, FS_CardinalityType DEF Init
<1>3. cpus_to_assign \in Nat
      /\ nr_processes * cpus_to_assign <= Cardinality(cpus_available)
  BY <1>1, <1>2, PartsSuffice DEF Init
<1>4. TypeOK
  BY <1>2, <1>3 DEF TypeOK, Init
<1>5. EnoughInv
  BY <1>2, <1>3 DEF EnoughInv, Init
<1>6. CountInv /\ PrevInv /\ FailsForCause
  BY DEF CountInv, PrevInv, FailsForCause, Init
<1> QED
  BY <1>2, <1>4, <1>5, <1>6, ShareInit DEF PartInv

\* The first CPU of a rank is there, unless the group partitions again or no CPUs are due.
LEMMA StartRankKeeps ==
  ASSUME PartInv, StartRank
  PROVE  PartInv'
<1> DEFINE cpu == cpuset_first(cpus_available)
<1>1. /\ avail' = cpus_available \ {cpu}
      /\ use' = {cpu} \cap CPU
      /\ cpu_prev' = cpu
      /\ cpus_assigned' = 1
      /\ pc' = "next"
      /\ process_rank < nr_processes
      /\ cpus_available' = cpus_available /\ process_rank' = process_rank
      /\ nr_processes' = nr_processes /\ cpus_to_assign' = cpus_to_assign
      /\ affinities' = affinities /\ machine' = machine /\ again' = again
  BY DEF StartRank, With, Without, given, regionVars
<1>2. pc = "rank" /\ TypeOK /\ ShareInv /\ EnoughInv /\ nr_processes > 0
  BY DEF PartInv, StartRank
<1>3. /\ cpus_available \in SUBSET CPU
      /\ nr_processes \in Nat /\ cpus_to_assign \in Nat /\ process_rank \in Nat
  BY <1>2 DEF TypeOK
<1>4. /\ cpus_available # {} => cpu \in cpus_available
      /\ cpus_available = {} => cpu = NoCpu
      /\ NoCpu \notin CPU
  BY <1>3, FirstIsMember
<1> HIDE DEF cpu
<1>5. ShareInv'
  BY <1>2, ShareStep DEF Next
<1>6. TypeOK'
  BY <1>1, <1>2, <1>3, <1>4 DEF TypeOK
<1>7. /\ Cardinality(cpus_available) \in Nat
      /\ Cardinality(cpus_available) = 0 <=> cpus_available = {}
      /\ \A c \in cpus_available :
           Cardinality(cpus_available \ {c}) = Cardinality(cpus_available) - 1
  BY <1>3, Counting
<1>8. (nr_processes - process_rank) * cpus_to_assign \in Int
      /\ (nr_processes - process_rank) * cpus_to_assign >= cpus_to_assign
  BY <1>1, <1>3, OnePart
<1>9. CASE cpus_available = {}
  <2>1. use' = {} /\ avail' = {}
    BY <1>1, <1>3, <1>4, <1>9
  <2>2. Cardinality(use') = 0 /\ Cardinality(avail') = 0
    BY <2>1, FS_EmptySet
  <2>3. CountInv'
    BY <1>1, <1>3, <2>1, <2>2 DEF CountInv
  <2>4. ASSUME ~again
        PROVE  cpus_to_assign = 0 /\ (nr_processes - process_rank) * cpus_to_assign = 0
    BY <1>2, <1>3, <1>7, <1>8, <1>9, <2>4 DEF EnoughInv
  <2>5. EnoughInv'
    BY <1>1, <2>2, <2>4 DEF EnoughInv
  <2>6. PrevInv'
    BY <1>1, <1>4, <1>9, <2>4 DEF PrevInv, Missing
  <2> QED
    BY <1>1, <1>2, <1>5, <1>6, <2>3, <2>5, <2>6 DEF PartInv, FailsForCause
<1>10. CASE cpus_available # {}
  <2>1. cpu \in cpus_available /\ use' = {cpu} /\ cpu \in CPU
    BY <1>1, <1>3, <1>4, <1>10
  <2>2. Cardinality({} \cup {cpu}) = 1
    BY <2>1, Counting, FS_EmptySet
  <2>3. Cardinality(use') = 1
    BY <2>1, <2>2
  <2>4. Cardinality(avail') = Cardinality(cpus_available) - 1
    BY <1>1, <1>7, <2>1
  <2>5. CountInv'
    BY <1>1, <1>3, <2>3 DEF CountInv
  <2>6. EnoughInv'
    BY <1>1, <1>2, <1>7, <1>8, <2>4 DEF EnoughInv
  <2>7. PrevInv'
    BY <1>1, <2>1 DEF PrevInv
  <2> QED
    BY <1>1, <1>2, <1>5, <1>6, <2>5, <2>6, <2>7 DEF PartInv, FailsForCause
<1> QED
  BY <1>9, <1>10

\* Any CPU that the three searches take counts, and while the group partitions the first
\* time and a CPU is missing there is one to take (1008-1061).
LEMMA TakeCounts ==
  ASSUME PartInv, pc = "next", Missing, [Next]_vars,
         NEW S \in SUBSET avail, S # {} \/ avail = {}, Take(cpuset_first(S))
  PROVE  PartInv'
<1> DEFINE cpu == cpuset_first(S)
<1>1. /\ avail' = avail \ {cpu}
      /\ use' = use \cup ({cpu} \cap CPU)
      /\ cpu_prev' = cpu
      /\ cpus_assigned' = cpus_assigned + 1
      /\ pc' = "next"
      /\ cpus_available' = cpus_available /\ process_rank' = process_rank
      /\ nr_processes' = nr_processes /\ cpus_to_assign' = cpus_to_assign
      /\ affinities' = affinities /\ machine' = machine /\ again' = again
  BY DEF Take, With, Without, given, regionVars
<1>2. TypeOK /\ ShareInv /\ EnoughInv /\ CountInv /\ nr_processes > 0
  BY DEF PartInv
<1>3. /\ avail \in SUBSET CPU /\ use \in SUBSET CPU
      /\ nr_processes \in Nat /\ cpus_to_assign \in Nat /\ process_rank \in Nat
      /\ cpus_assigned \in Nat
  BY <1>2 DEF TypeOK
<1>4. /\ S # {} => cpu \in S
      /\ S = {} => cpu = NoCpu
      /\ NoCpu \notin CPU
  BY <1>3, FirstIsMember
<1> HIDE DEF cpu
<1>5. ShareInv'
  BY <1>2, ShareStep
<1>6. TypeOK'
  BY <1>1, <1>2, <1>3, <1>4 DEF TypeOK
<1>7. /\ Cardinality(avail) \in Nat /\ Cardinality(use) \in Nat
      /\ Cardinality(avail) = 0 <=> avail = {}
      /\ \A c \in avail : Cardinality(avail \ {c}) = Cardinality(avail) - 1
      /\ \A c \in CPU \ use : Cardinality(use \cup {c}) = Cardinality(use) + 1
  BY <1>3, Counting
<1>8. process_rank < nr_processes /\ cpus_assigned < cpus_to_assign
  BY <1>2 DEF CountInv, Missing
<1>9. (nr_processes - process_rank) * cpus_to_assign \in Int
      /\ (nr_processes - process_rank) * cpus_to_assign >= cpus_to_assign
  BY <1>3, <1>8, OnePart
<1>10. CASE avail = {}
  <2>1. again
    BY <1>2, <1>3, <1>7, <1>8, <1>9, <1>10 DEF EnoughInv
  <2>2. use' = use /\ avail' = {} /\ cpu = NoCpu
    <3>1. S = {}
      BY <1>10
    <3>2. cpu = NoCpu /\ {cpu} \cap CPU = {}
      BY <1>4, <3>1
    <3> QED
      BY <1>1, <1>10, <3>2
  <2>3. Cardinality(use) < cpus_assigned + 1 /\ cpus_assigned + 1 \in Nat \ {0}
    BY <1>2, <1>3, <1>7 DEF CountInv
  <2>4. Cardinality(use') < cpus_assigned'
    BY <1>1, <2>2, <2>3
  <2>5. cpus_assigned' <= cpus_to_assign' /\ process_rank' < nr_processes'
        /\ cpus_assigned' \in Nat \ {0}
    BY <1>1, <1>3, <1>8, <2>3
  <2>6. CountInv'
    BY <2>2, <2>4, <2>5 DEF CountInv
  <2>7. EnoughInv' /\ PrevInv'
    BY <1>1, <2>1, <2>2 DEF EnoughInv, PrevInv
  <2> QED
    BY <1>1, <1>2, <1>5, <1>6, <2>6, <2>7 DEF PartInv, FailsForCause
<1>11. CASE avail # {}
  <2>1. cpu \in avail /\ cpu \in CPU /\ cpu \notin use
    BY <1>2, <1>3, <1>4, <1>11 DEF ShareInv, CopiesInv
  <2>2. use' = use \cup {cpu}
    BY <1>1, <2>1
  <2>3. Cardinality(use') = Cardinality(use) + 1 /\ Cardinality(avail') = Cardinality(avail) - 1
    BY <1>1, <1>7, <2>1, <2>2
  <2>4. CountInv'
    BY <1>1, <1>2, <1>3, <1>7, <1>8, <1>11, <2>3 DEF CountInv
  <2>5. EnoughInv'
    BY <1>1, <1>2, <1>3, <1>7, <1>9, <2>3 DEF EnoughInv
  <2>6. PrevInv'
    BY <1>1, <2>2 DEF PrevInv
  <2> QED
    BY <1>1, <1>2, <1>5, <1>6, <2>4, <2>5, <2>6 DEF PartInv, FailsForCause
<1> QED
  BY <1>10, <1>11

\* A rank is given what it has, and what it leaves is enough for those after it.
LEMMA CommitKeeps ==
  ASSUME PartInv, Commit
  PROVE  PartInv'
<1>1. /\ cpus_available' = avail
      /\ affinities' = [affinities EXCEPT ![process_rank] = use]
      /\ process_rank' = process_rank + 1
      /\ pc' = "rank" /\ pc = "next" /\ ~Missing
      /\ nr_processes' = nr_processes /\ cpus_to_assign' = cpus_to_assign
      /\ machine' = machine /\ again' = again
      /\ avail' = avail /\ use' = use /\ cpu_prev' = cpu_prev
      /\ cpus_assigned' = cpus_assigned
  BY DEF Commit, Unused, given, localVars
<1>2. TypeOK /\ ShareInv /\ EnoughInv /\ CountInv /\ nr_processes > 0
  BY DEF PartInv
<1>3. /\ avail \in SUBSET CPU /\ use \in SUBSET CPU
      /\ nr_processes \in Nat /\ cpus_to_assign \in Nat /\ process_rank \in Nat
      /\ cpus_assigned \in Nat
  BY <1>2 DEF TypeOK
<1>4. ShareInv'
  BY <1>2, ShareStep DEF Next
<1>5. TypeOK'
  <2>1. affinities' \in [Rank -> SUBSET CPU]
    BY <1>4 DEF ShareInv
  <2>2. process_rank' \in Nat
    BY <1>1, <1>3
  <2> QED
    BY <1>1, <1>2, <1>3, <2>1, <2>2 DEF TypeOK
<1>6. Cardinality(avail) \in Nat
  BY <1>3, Counting
<1>7. process_rank < nr_processes
      /\ (cpus_assigned = 1 \/ cpus_assigned <= cpus_to_assign)
      /\ cpus_assigned \in Nat \ {0}
  BY <1>1, <1>2 DEF CountInv
<1>8. /\ (nr_processes - process_rank) * cpus_to_assign \in Int
      /\ (nr_processes - process_rank) * cpus_to_assign >= cpus_to_assign
      /\ (nr_processes - (process_rank + 1)) * cpus_to_assign =
           (nr_processes - process_rank) * cpus_to_assign - cpus_to_assign
  BY <1>3, <1>7, OnePart
<1>9. ASSUME ~again
      PROVE  Cardinality(avail) >= (nr_processes - (process_rank + 1)) * cpus_to_assign
  <2>1. Cardinality(avail) + cpus_assigned >= (nr_processes - process_rank) * cpus_to_assign
    BY <1>1, <1>2, <1>9 DEF EnoughInv
  <2>2. CASE cpus_to_assign = 0
    BY <1>3, <1>6, <2>2
  <2>3. CASE cpus_to_assign # 0
    <3>1. cpus_assigned <= cpus_to_assign
      BY <1>3, <1>7, <2>3
    <3> QED
      BY <1>3, <1>6, <1>8, <2>1, <3>1
  <2> QED
    BY <2>2, <2>3
<1>10. EnoughInv'
  BY <1>1, <1>3, <1>7, <1>9 DEF EnoughInv
<1> QED
  BY <1>1, <1>2, <1>4, <1>5, <1>10 DEF PartInv, CountInv, PrevInv, FailsForCause

\* The two ways to fail: the last CPU is not in the topology, or the search ends at one
\* that is not (999-1004, 1035-1040).
LEMMA FailKeeps ==
  ASSUME PartInv, NoTopology \/ NoTopologyOfOther
  PROVE  PartInv'
<1>1. UNCHANGED << given, regionVars, localVars, again >> /\ pc' = "failed" /\ pc = "next"
      /\ Missing
  BY DEF NoTopology, NoTopologyOfOther, Searching, Fail
<1>2. TypeOK /\ ShareInv /\ PrevInv /\ nr_processes > 0
  BY DEF PartInv
<1>3. TypeOK'
  BY <1>1, <1>2 DEF TypeOK, given, regionVars, localVars
<1>4. ShareInv'
  BY <1>2, ShareStep DEF Next
<1>5. \/ ~(use \cup avail \subseteq machine.known)
      \/ again /\ cpu_prev = NoCpu
  <2>1. CASE NoTopology
    BY <1>1, <1>2, <2>1 DEF NoTopology, PrevInv
  <2>2. CASE NoTopologyOfOther
    <3>1. NodeStops # {} /\ cpuset_first(NodeStops) \notin machine.known
      BY <2>2 DEF NoTopologyOfOther
    <3>2. NodeStops \subseteq avail /\ NodeStops \in SUBSET CPU
      BY <1>2 DEF NodeStops, TypeOK
    <3>3. cpuset_first(NodeStops) \in avail
      BY <3>1, <3>2, FirstIsMember
    <3> QED
      BY <3>1, <3>3
  <2> QED
    BY <2>1, <2>2
<1>6. FailsForCause'
  BY <1>1, <1>5 DEF FailsForCause, given, localVars
<1> QED
  BY <1>1, <1>2, <1>3, <1>4, <1>6
  DEF PartInv, CountInv, EnoughInv, PrevInv, given

\* The three searches look for a CPU among those that are left.
LEMMA SearchTakes ==
  ASSUME PartInv, SameCache \/ SameNode \/ AnyCpu
  PROVE  /\ pc = "next" /\ Missing
         /\ \E S \in SUBSET avail : (S # {} \/ avail = {}) /\ Take(cpuset_first(S))
<1>1. TypeOK /\ pc = "next" /\ Missing
  BY DEF PartInv, SameCache, SameNode, AnyCpu, Searching
<1>2. machine \in Machine /\ avail \in SUBSET CPU
  BY <1>1 DEF TypeOK
<1>3. CASE SameCache
  <2> DEFINE S == machine.caches[cpu_prev][Nearest(SharedCaches)] \cap avail
  <2>1. cpu_prev \in CPU
    BY <1>2, <1>3, MachineAssumption DEF SameCache, Searching
  <2>2. machine.caches[cpu_prev] \in Seq(SUBSET CPU)
    BY <1>2, <2>1, MachineAssumption
  <2>3. SharedCaches \in SUBSET Nat /\ SharedCaches # {}
    BY <1>3, <2>2 DEF SharedCaches, SameCache
  <2>4. Nearest(SharedCaches) \in SharedCaches
    BY <2>3, LeastIsMember DEF Nearest
  <2>5. S \in SUBSET avail /\ S # {}
    BY <2>4 DEF SharedCaches
  <2>6. Take(cpuset_first(S))
    BY <1>3 DEF SameCache
  <2> QED
    BY <1>1, <2>5, <2>6
<1>4. CASE SameNode
  <2>1. NodeStops \in SUBSET avail /\ NodeStops \in SUBSET CPU
    BY <1>2 DEF NodeStops
  <2>2. cpuset_first(NodeStops) \in CPU /\ Take(cpuset_first(NodeStops))
    BY <1>2, <1>4, MachineAssumption DEF SameNode
  <2>3. NodeStops # {}
    BY <2>1, <2>2, FirstIsMember
  <2> QED
    BY <1>1, <2>1, <2>2, <2>3
<1>5. CASE AnyCpu
  <2>1. Take(cpuset_first(avail))
    BY <1>5 DEF AnyCpu
  <2> QED
    BY <1>1, <2>1
<1> QED
  BY <1>3, <1>4, <1>5

\* Every step keeps the counts.
LEMMA PartStep == PartInv /\ [Next]_vars => PartInv'
<1> SUFFICES ASSUME PartInv, [Next]_vars
             PROVE  PartInv'
  OBVIOUS
<1>1. TypeOK /\ ShareInv /\ nr_processes > 0
  BY DEF PartInv
<1>2. ShareInv'
  BY <1>1, ShareStep
<1>3. CASE StartRank
  BY <1>3, StartRankKeeps
<1>4. CASE SameCache \/ SameNode \/ AnyCpu
  BY <1>4, SearchTakes, TakeCounts
<1>5. CASE Commit
  BY <1>5, CommitKeeps
<1>6. CASE Done
  BY <1>1, <1>2, <1>6
  DEF PartInv, TypeOK, CountInv, EnoughInv, PrevInv, FailsForCause, Done, given, localVars
<1>7. CASE Again
  BY <1>1, <1>2, <1>7
  DEF PartInv, TypeOK, CountInv, EnoughInv, PrevInv, FailsForCause, Again, given,
      regionVars, localVars
<1>8. CASE NoTopology \/ NoTopologyOfOther
  BY <1>8, FailKeeps
<1>9. CASE UNCHANGED vars
  BY <1>1, <1>2, <1>9
  DEF PartInv, TypeOK, CountInv, EnoughInv, PrevInv, FailsForCause, Missing, vars, given,
      regionVars, localVars
<1> QED
  BY <1>3, <1>4, <1>5, <1>6, <1>7, <1>8, <1>9 DEF Next

\* The counts hold in every state.
LEMMA PartInvariance == Spec => []PartInv
BY PartInit, PartStep, PTL DEF Spec

\* The masks stay within the CPUs of the node: CPU_SETSIZE, which cpuset_first() returns for
\* an empty mask, never gets into one (63-67, 970-1075).
THEOREM PartitionTypes == Spec => []TypeOK
<1>1. PartInv => TypeOK
  BY DEF PartInv
<1> QED
  BY <1>1, PartInvariance, PTL

\* On any machine, the partitioning is given up only if a CPU of the group is missing in
\* the topology, or if the group partitions again and has run out of CPUs: the first time,
\* the shares that follow from the number of processes are always there (964-1075).
THEOREM PartitionFailsForCause == Spec => []FailsForCause
<1>1. PartInv => FailsForCause
  BY DEF PartInv
<1> QED
  BY <1>1, PartInvariance, PTL

-----------------------------------------------------------------------------
\* CpuShares counts and compares as this module does.
LEMMA SharesCount == \A S : Shares!Cardinality(S) = Cardinality(S)
BY DEF Shares!Cardinality, Cardinality

\* Its minimum of two numbers is the smaller one.
LEMMA SharesLeast ==
  ASSUME NEW a \in Nat, NEW b \in Nat
  PROVE  Shares!Min({a, b}) = IF a <= b THEN a ELSE b
BY DEF Shares!Min

\* And its maximum is the larger one.
LEMMA SharesMost ==
  ASSUME NEW a \in Nat, NEW b \in Nat
  PROVE  Shares!Max({a, b}) = IF a >= b THEN a ELSE b
BY DEF Shares!Max

\* A commit hands out a share: all that was due, or all there was (970-1075).
LEMMA CommitHandsOut ==
  ASSUME PartInv, Commit
  PROVE  Shares!HandOut
<1>1. /\ cpus_available' = avail
      /\ affinities' = [affinities EXCEPT ![process_rank] = use]
      /\ process_rank' = process_rank + 1
      /\ pc = "next" /\ ~Missing
      /\ nr_processes' = nr_processes /\ cpus_to_assign' = cpus_to_assign
  BY DEF Commit, Unused, given
<1>2. TypeOK /\ ShareInv /\ CountInv
  BY DEF PartInv
<1>3. /\ cpus_available \in SUBSET CPU /\ use \in SUBSET CPU
      /\ cpus_to_assign \in Nat /\ cpus_assigned \in Nat
  BY <1>2 DEF TypeOK
<1>4. use \subseteq cpus_available /\ avail = cpus_available \ use
  BY <1>1, <1>2 DEF ShareInv, CopiesInv
<1>5. /\ IsFiniteSet(cpus_available)
      /\ Cardinality(cpus_available) \in Nat /\ Cardinality(use) \in Nat
  BY <1>3, Counting
<1>6. Cardinality(use) <= Cardinality(cpus_available)
  BY <1>4, <1>5, FS_Subset
<1>7. /\ process_rank < nr_processes
      /\ cpus_assigned \in Nat \ {0}
      /\ cpus_assigned = 1 \/ cpus_assigned <= cpus_to_assign
      /\ cpus_assigned >= cpus_to_assign
      /\ \/ Cardinality(use) = cpus_assigned
         \/ avail = {} /\ Cardinality(use) < cpus_assigned
  BY <1>1, <1>2, <1>3 DEF CountInv, Missing
<1>8. cpus_assigned = IF 1 >= cpus_to_assign THEN 1 ELSE cpus_to_assign
  BY <1>3, <1>7
<1>9. Shares!Max({1, cpus_to_assign}) = cpus_assigned
  BY <1>3, <1>8, SharesMost
<1>10. avail = {} => use = cpus_available
  BY <1>4
<1>11. Cardinality(use) =
         IF Cardinality(cpus_available) <= cpus_assigned THEN Cardinality(cpus_available)
                                                         ELSE cpus_assigned
  <2>1. CASE Cardinality(use) = cpus_assigned
    BY <1>3, <1>5, <1>6, <2>1
  <2>2. CASE avail = {} /\ Cardinality(use) < cpus_assigned
    BY <1>3, <1>5, <1>10, <2>2
  <2> QED
    BY <1>7, <2>1, <2>2
<1>12. Cardinality(use) = Shares!Min({Cardinality(cpus_available), cpus_assigned})
  BY <1>3, <1>5, <1>11, SharesLeast
<1>13. Shares!Cardinality(use) =
         Shares!Min({Shares!Cardinality(cpus_available), Shares!Max({1, cpus_to_assign})})
  BY <1>9, <1>12, SharesCount
<1> QED
  BY <1>1, <1>4, <1>7, <1>13 DEF Shares!HandOut

\* The first time, CpuShares begins with the CPUs of the group.
LEMMA SharesInit == Init => Shares!Init
<1> SUFFICES ASSUME Init
             PROVE  Shares!Init
  OBVIOUS
<1>1. nr_processes \in Nat \ {0}
  BY RankAssumption, FS_CardinalityType DEF Init
<1>2. cpus_to_assign = Shares!Cardinality(cpus_available) \div nr_processes
  BY SharesCount DEF Init
<1> QED
  BY <1>1, <1>2 DEF Init, Shares!Init

\* Every step hands out a share, starts again, or is none of CpuShares.
LEMMA SharesStep ==
  ASSUME PartInv, [Next]_vars
  PROVE  [Shares!Next]_(Shares!vars)
<1>1. CASE Commit
  BY <1>1, CommitHandsOut DEF Shares!Next
<1>2. CASE Done
  BY <1>2 DEF Done, given, Shares!Next, Shares!StartAgain
<1>3. CASE StartRank
  BY <1>3 DEF StartRank, given, regionVars, Shares!vars
<1>4. CASE SameCache \/ SameNode \/ AnyCpu
  BY <1>4 DEF SameCache, SameNode, AnyCpu, Take, given, regionVars, Shares!vars
<1>5. CASE NoTopology \/ NoTopologyOfOther
  BY <1>5 DEF NoTopology, NoTopologyOfOther, Fail, given, regionVars, Shares!vars
<1>6. CASE Again
  BY <1>6 DEF Again, given, regionVars, Shares!vars
<1>7. CASE UNCHANGED vars
  BY <1>7 DEF vars, given, regionVars, Shares!vars
<1> QED
  BY <1>1, <1>2, <1>3, <1>4, <1>5, <1>6, <1>7 DEF Next

\* Whatever the topology, partitioning is handing out shares of the size that PartExec
\* takes for granted, out of the CPUs that are available: the search for near CPUs decides
\* which CPUs a rank gets, never how many (970-1075).
THEOREM SharesImplemented == Spec => ImplementsShares
<1>1. PartInv /\ [Next]_vars => [Shares!Next]_(Shares!vars)
  BY SharesStep
<1> QED
  BY <1>1, SharesInit, PartInvariance, PTL DEF Spec, ImplementsShares, Shares!Spec

-----------------------------------------------------------------------------
\* The next CPU is taken from any set of a level that the last one is in, as long as CPUs of
\* that set are left (1008-1061): from the innermost cache that has some, which lies in the
\* set, or from the node.
LEMMA NextIsNear ==
  ASSUME PartInv, NEW L \in SUBSET SUBSET CPU, NEW D, Respected(L, D), Within(D),
         SameCache \/ SameNode \/ AnyCpu,
         NEW d \in L, cpu_prev \in d \cap D, d \cap avail # {}
  PROVE  cpu_prev' \in d
<1>1. TypeOK /\ pc = "next" /\ ShareInv
  BY DEF PartInv, SameCache, SameNode, AnyCpu, Searching
<1>2. machine \in Machine /\ avail \in SUBSET CPU /\ cpu_prev \in CPU
  BY <1>1 DEF TypeOK
<1>3. machine.caches[cpu_prev] \in Seq(SUBSET CPU)
  BY <1>2, MachineAssumption
<1>4. avail \subseteq D
  BY <1>1 DEF ShareInv, CopiesInv, Within
<1>5. AsCache(d, D, cpu_prev) \/ AsNode(d, D, cpu_prev)
  BY DEF Respected
<1>6. CASE SameCache
  <2> DEFINE k == Nearest(SharedCaches)
             S == machine.caches[cpu_prev][k] \cap avail
  <2>1. SharedCaches \in SUBSET Nat /\ SharedCaches # {} /\ cpu_prev' = cpuset_first(S)
    BY <1>3, <1>6 DEF SharedCaches, SameCache, Take
  <2>2. k \in SharedCaches /\ \A j \in SharedCaches : k <= j
    BY <2>1, LeastIsMember DEF Nearest
  <2> HIDE DEF k
  <2>3. k \in DOMAIN machine.caches[cpu_prev] /\ S # {} /\ S \in SUBSET CPU
    BY <1>2, <2>2 DEF SharedCaches
  <2>4. cpu_prev' \in S
    BY <2>1, <2>3, FirstIsMember
  <2>5. S \subseteq d
    <3>1. CASE AsCache(d, D, cpu_prev)
      <4>1. PICK j \in DOMAIN machine.caches[cpu_prev] :
                   /\ machine.caches[cpu_prev][j] \cap D = d \cap D
                   /\ \A i \in DOMAIN machine.caches[cpu_prev] :
                        i < j => machine.caches[cpu_prev][i] \cap D \subseteq d
        BY <3>1 DEF AsCache
      <4>2. j \in SharedCaches
        BY <1>4, <4>1 DEF SharedCaches
      <4>3. k = j \/ k < j
        BY <2>1, <2>2, <4>2
      <4> QED
        BY <1>4, <2>3, <4>1, <4>3
    <3>2. CASE AsNode(d, D, cpu_prev)
      BY <1>4, <2>3, <3>2 DEF AsNode
    <3> QED
      BY <1>5, <3>1, <3>2
  <2> QED
    BY <2>4, <2>5
<1>7. CASE (SameNode \/ AnyCpu) /\ SharedCaches = {}
  <2>1. ~AsCache(d, D, cpu_prev)
    BY <1>4, <1>7 DEF AsCache, SharedCaches
  <2>2. d \cap D = {e \in D : machine.node[e] = machine.node[cpu_prev]}
    BY <1>5, <2>1 DEF AsNode
  <2>3. d \cap avail \subseteq NodeStops /\ NodeStops # {}
    BY <1>4, <2>2 DEF NodeStops
  <2>4. SameNode /\ cpu_prev' = cpuset_first(NodeStops)
        /\ cpuset_first(NodeStops) \in machine.known
    BY <1>7, <2>3 DEF SameNode, AnyCpu, Take
  <2>5. NodeStops \in SUBSET CPU /\ NodeStops \subseteq avail
    BY <1>2 DEF NodeStops
  <2>6. cpu_prev' \in NodeStops
    BY <2>3, <2>4, <2>5, FirstIsMember
  <2>7. cpu_prev' \in avail /\ machine.node[cpu_prev'] = machine.node[cpu_prev]
    BY <2>4, <2>6 DEF NodeStops
  <2> QED
    BY <1>4, <2>2, <2>7
<1> QED
  BY <1>6, <1>7 DEF SameNode, AnyCpu

\* So a set of a level that a rank has begun is used up before the next one is begun.
LEMMA SearchPacks ==
  ASSUME PartInv, NEW L \in SUBSET SUBSET CPU, NEW D, Respected(L, D), Packing(L, D),
         SameCache \/ SameNode \/ AnyCpu
  PROVE  Packing(L, D)'
<1>1. PICK S \in SUBSET avail : (S # {} \/ avail = {}) /\ Take(cpuset_first(S))
  BY SearchTakes
<1> DEFINE new == cpuset_first(S)
<1>2. /\ avail' = avail \ {new} /\ use' = use \cup ({new} \cap CPU) /\ cpu_prev' = new
      /\ cpus_available' = cpus_available /\ affinities' = affinities
  BY <1>1 DEF Take, With, Without, regionVars
<1>3. TypeOK /\ ShareInv /\ pc = "next"
  BY SearchTakes DEF PartInv
<1>4. avail \in SUBSET CPU /\ use \subseteq D
  BY <1>3 DEF TypeOK, ShareInv, CopiesInv, Packing, Within
<1>5. S # {} => new \in avail
  BY <1>4, FirstIsMember
<1> HIDE DEF new
<1>6. ASSUME NEW d \in L, d \cap use' # {}, d \cap avail' # {}
      PROVE  new \in d
  <2>1. d \cap avail # {}
    BY <1>2, <1>6
  <2>2. CASE d \cap use # {}
    <3>1. cpu_prev \in d
      BY <1>3, <2>1, <2>2 DEF Packing, NextPacked
    <3>2. cpu_prev \in use
      BY <1>3, <3>1, SearchTakes, MachineAssumption DEF PartInv, PrevInv
    <3> QED
      BY <1>2, <1>4, <2>1, <3>1, <3>2, NextIsNear DEF Packing
  <2>3. CASE d \cap use = {}
    BY <1>2, <1>6, <2>3
  <2> QED
    BY <2>2, <2>3
<1> QED
  BY <1>2, <1>6 DEF Packing, Within, NextPacked, RankPacked, PairPacked

\* Who comes after a rank finds CPUs in at most one of the sets that it has begun.
LEMMA CommitPacks ==
  ASSUME PartInv, NEW L \in SUBSET SUBSET CPU, NEW D, Respected(L, D), Packing(L, D), Commit
  PROVE  Packing(L, D)'
<1>1. /\ cpus_available' = avail /\ pc = "next" /\ pc' = "rank"
      /\ affinities' = [affinities EXCEPT ![process_rank] = use]
  BY DEF Commit, Unused
<1>2. TypeOK /\ ShareInv /\ Within(D)
  BY DEF PartInv, Packing
<1>3. use \subseteq cpus_available /\ avail \subseteq cpus_available /\ cpus_available \subseteq D
  BY <1>1, <1>2 DEF ShareInv, CopiesInv, Within
<1>4. \A r \in Rank : affinities'[r] = IF r = process_rank THEN use ELSE affinities[r]
  BY <1>1, <1>2 DEF TypeOK
<1>5. Within(D)' /\ NextPacked(L)'
  BY <1>1, <1>2, <1>3, <1>4 DEF Within, NextPacked
<1>6. ASSUME NEW d \in L, NEW e \in L, d # e, d \cap use # {}, e \cap use # {}
      PROVE  d \cap avail = {} \/ e \cap avail = {}
  <2> SUFFICES ASSUME d \cap avail # {}, e \cap avail # {}
               PROVE  FALSE
    OBVIOUS
  <2>1. cpu_prev \in d \cap e
    BY <1>1, <1>6 DEF Packing, NextPacked
  <2>2. cpu_prev \in use
    BY <1>1, <2>1, MachineAssumption DEF PartInv, PrevInv
  <2> QED
    BY <1>3, <1>6, <2>1, <2>2 DEF Respected
<1>7. RankPacked(L)'
  <2> SUFFICES ASSUME NEW r \in Rank, NEW d \in L, NEW e \in L, d # e,
                      d \cap affinities'[r] # {}, e \cap affinities'[r] # {}
               PROVE  d \cap avail = {} \/ e \cap avail = {}
    BY <1>1 DEF RankPacked
  <2>1. CASE r = process_rank
    BY <1>4, <1>6, <2>1
  <2>2. CASE r # process_rank
    <3>1. d \cap affinities[r] # {} /\ e \cap affinities[r] # {}
      BY <1>4, <2>2
    <3>2. d \cap cpus_available = {} \/ e \cap cpus_available = {}
      BY <3>1 DEF Packing, RankPacked
    <3> QED
      BY <1>3, <3>2
  <2> QED
    BY <2>1, <2>2
<1>8. PairPacked(L)'
  <2> SUFFICES ASSUME NEW r \in Rank, NEW s \in Rank, r # s, NEW d \in L, NEW e \in L, d # e,
                      d \cap affinities'[r] # {}, e \cap affinities'[r] # {},
                      d \cap affinities'[s] # {}, e \cap affinities'[s] # {}
               PROVE  FALSE
    BY DEF PairPacked
  <2>1. ASSUME NEW t \in Rank, d \cap affinities[t] # {}, e \cap affinities[t] # {}
        PROVE  d \cap use = {} \/ e \cap use = {}
    <3>1. d \cap cpus_available = {} \/ e \cap cpus_available = {}
      BY <2>1 DEF Packing, RankPacked
    <3> QED
      BY <1>3, <3>1
  <2>2. CASE r = process_rank
    BY <1>4, <2>1, <2>2
  <2>3. CASE s = process_rank
    BY <1>4, <2>1, <2>3
  <2>4. CASE r # process_rank /\ s # process_rank
    BY <1>4, <2>4 DEF Packing, PairPacked
  <2> QED
    BY <2>2, <2>3, <2>4
<1> QED
  BY <1>5, <1>7, <1>8 DEF Packing

\* A rank begins with one CPU.
LEMMA StartPacks ==
  ASSUME PartInv, NEW L \in SUBSET SUBSET CPU, NEW D, Packing(L, D), StartRank
  PROVE  Packing(L, D)'
<1>1. /\ cpus_available' = cpus_available /\ affinities' = affinities
      /\ use' = {cpu_prev'} \cap CPU
  BY DEF StartRank, With, regionVars
<1>2. NextPacked(L)'
  BY <1>1 DEF NextPacked
<1> QED
  BY <1>1, <1>2 DEF Packing, Within, RankPacked, PairPacked

\* The steps of a first partitioning keep the ranks packed.
LEMMA PackingStep ==
  ASSUME PartInv, NEW L \in SUBSET SUBSET CPU, NEW D, Respected(L, D), Packing(L, D),
         \/ StartRank \/ SameCache \/ SameNode \/ AnyCpu \/ Commit \/ Done
         \/ NoTopology \/ NoTopologyOfOther
  PROVE  Packing(L, D)'
<1>1. CASE Done
  BY <1>1 DEF Done, Packing, Within, NextPacked, RankPacked, PairPacked
<1>2. CASE NoTopology \/ NoTopologyOfOther
  BY <1>2 DEF NoTopology, NoTopologyOfOther, Fail, regionVars, Packing, Within, NextPacked,
              RankPacked, PairPacked
<1> QED
  BY <1>1, <1>2, StartPacks, SearchPacks, CommitPacks

\* In the beginning no rank has a CPU.
LEMMA PackingInit ==
  ASSUME NEW L, NEW D, cpus_available \subseteq D, affinities = [r \in Rank |-> {}],
         pc # "next"
  PROVE  Packing(L, D)
BY DEF Packing, Within, NextPacked, RankPacked, PairPacked

\* The caches of a level and the nodes are such levels on a machine whose caches nest.
LEMMA LevelsRespected ==
  ASSUME machine \in Machine, Nested(machine), NEW L \in Levels
  PROVE  L \in SUBSET SUBSET CPU /\ Respected(L, CPU)
<1> DEFINE At(k) == {machine.caches[c][k] : c \in {d \in CPU : k \in DOMAIN machine.caches[d]}}
           Node(c) == {d \in CPU : machine.node[d] = machine.node[c]}
<1>1. /\ machine.caches \in [CPU -> Seq(SUBSET CPU)]
      /\ \A c \in CPU : machine.caches[c] \in Seq(SUBSET CPU)
  BY MachineAssumption
<1>2. \A c \in CPU : \A k \in DOMAIN machine.caches[c] : machine.caches[c][k] \in SUBSET CPU
  BY <1>1
<1>3. ASSUME NEW k, L = At(k)
      PROVE  L \in SUBSET SUBSET CPU /\ Respected(L, CPU)
  <2>1. \A d \in L : \E b \in CPU : k \in DOMAIN machine.caches[b] /\ d = machine.caches[b][k]
    BY <1>3
  <2> HIDE DEF At
  <2>2. L \in SUBSET SUBSET CPU
    BY <1>2, <2>1
  <2>3. ASSUME NEW d \in L, NEW c \in d
        PROVE  c \in CPU /\ k \in DOMAIN machine.caches[c] /\ machine.caches[c][k] = d
    BY <1>2, <2>1, <2>3 DEF Nested
  <2>4. ASSUME NEW d \in L, NEW c \in d
        PROVE  AsCache(d, CPU, c)
    <3>1. \A j \in DOMAIN machine.caches[c] : j < k => machine.caches[c][j] \subseteq d
      BY <2>3, <2>4 DEF Nested
    <3> QED
      BY <2>3, <2>4, <3>1 DEF AsCache
  <2>5. ASSUME NEW d \in L, NEW e \in L, d # e
        PROVE  d \cap e \cap CPU = {}
    BY <2>3, <2>5
  <2> QED
    BY <2>2, <2>4, <2>5 DEF Respected
<1>4. ASSUME L = {Node(c) : c \in CPU}
      PROVE  L \in SUBSET SUBSET CPU /\ Respected(L, CPU)
  <2>1. ASSUME NEW d \in L, NEW c \in d
        PROVE  c \in CPU /\ d = Node(c)
    BY <1>4, <2>1
  <2>2. ASSUME NEW d \in L, NEW c \in d
        PROVE  AsNode(d, CPU, c)
    <3>1. \A j \in DOMAIN machine.caches[c] : machine.caches[c][j] \subseteq Node(c)
      BY <1>2, <2>1, <2>2 DEF Nested
    <3> QED
      BY <2>1, <2>2, <3>1 DEF AsNode
  <2>3. L \in SUBSET SUBSET CPU
    BY <1>4
  <2>4. ASSUME NEW d \in L, NEW e \in L, d # e
        PROVE  d \cap e \cap CPU = {}
    BY <2>1, <2>4
  <2> HIDE DEF Node
  <2> QED
    BY <2>2, <2>3, <2>4 DEF Respected
<1>5. (\E k : L = At(k)) \/ L = {Node(c) : c \in CPU}
  BY DEF Levels
<1> QED
  BY <1>3, <1>4, <1>5

\* The levels are the machine's, which stays.
LEMMA PackedStep == PartInv /\ PackedInv /\ [Next]_vars => PackedInv'
<1> SUFFICES ASSUME PartInv, PackedInv, [Next]_vars
             PROVE  PackedInv'
  OBVIOUS
<1>1. machine' = machine /\ nr_processes' = nr_processes
  BY DEF Next, StartRank, SameCache, SameNode, AnyCpu, Take, Commit, Done, Again, NoTopology,
         NoTopologyOfOther, Fail, given, vars
<1>2. Levels' = Levels /\ (Nested(machine)' <=> Nested(machine))
  BY <1>1 DEF Levels, Nested
<1>3. ASSUME ~again', Nested(machine), NEW L \in Levels
      PROVE  Packing(L, CPU)'
  <2>1. ~again
    BY <1>3 DEF Next, StartRank, SameCache, SameNode, AnyCpu, Take, Commit, Done, Again,
                NoTopology, NoTopologyOfOther, Fail, vars
  <2>2. Packing(L, CPU)
    BY <1>3, <2>1 DEF PackedInv
  <2>3. L \in SUBSET SUBSET CPU /\ Respected(L, CPU)
    BY <1>3, LevelsRespected DEF PartInv, TypeOK
  <2>4. CASE UNCHANGED vars
    BY <2>2, <2>4 DEF vars, regionVars, localVars, Packing, Within, NextPacked, RankPacked,
                      PairPacked
  <2>5. CASE Again
    BY <1>3, <2>5 DEF Again
  <2> QED
    BY <2>2, <2>3, <2>4, <2>5, PackingStep DEF Next
<1> QED
  BY <1>1, <1>2, <1>3 DEF PackedInv

\* Before the first rank, nothing is packed.
LEMMA PackedStart == Init => PackedInv
<1> SUFFICES ASSUME Init
             PROVE  PackedInv
  OBVIOUS
<1>1. nr_processes <= Cardinality(Rank)
  BY RankAssumption, FS_CardinalityType DEF Init
<1>2. \A L \in Levels : Packing(L, CPU)
  BY PackingInit DEF Init
<1> QED
  BY <1>1, <1>2 DEF PackedInv

\* Two ranks meet in no more than one set, so there are not more than one.
LEMMA MeetOnce ==
  ASSUME NEW L, NEW r \in Rank, NEW s \in Rank, r # s, PairPacked(L)
  PROVE  Cardinality({d \in L : d \cap affinities[r] # {} /\ d \cap affinities[s] # {}}) <= 1
<1>1. PICK M : M = {d \in L : d \cap affinities[r] # {} /\ d \cap affinities[s] # {}}
  OBVIOUS
<1>2. \A d \in M, e \in M : d = e
  BY <1>1 DEF PairPacked
<1>3. Cardinality(M) = 0 \/ Cardinality(M) = 1
  <2>1. CASE M = {}
    BY <2>1, FS_EmptySet
  <2>2. CASE M # {}
    <3>1. PICK d \in M : TRUE
      BY <2>2
    <3>2. M = {d}
      BY <1>2, <3>1
    <3>3. Cardinality({d}) = 1
      BY FS_Singleton
    <3> QED
      BY <3>2, <3>3
  <2> QED
    BY <2>1, <2>2
<1>4. Cardinality(M) <= 1
  BY <1>3
<1> QED
  BY <1>1, <1>4

\* On every machine whose caches nest, however its CPUs and nodes are numbered and however
\* many ranks share out any of its CPUs, a first partitioning packs them: two ranks meet in
\* at most one cache of each level and on at most one NUMA node (1008-1057).
THEOREM RanksArePacked == Spec => []Packed
<1>1. ASSUME PackedInv, PartInv, pc = "done", ~again, Nested(machine),
             NEW r \in 0 .. nr_processes - 1, NEW s \in 0 .. nr_processes - 1, r # s,
             NEW L \in Levels
      PROVE  Cardinality({d \in L : d \cap affinities[r] # {} /\ d \cap affinities[s] # {}}) <= 1
  <2>1. Cardinality(Rank) \in Nat /\ nr_processes \in Nat /\ nr_processes <= Cardinality(Rank)
    BY <1>1, RankAssumption, FS_CardinalityType DEF PackedInv, PartInv, TypeOK
  <2>2. r \in Rank /\ s \in Rank
    BY <2>1, RankAssumption
  <2>3. PairPacked(L)
    BY <1>1 DEF PackedInv, Packing
  <2> QED
    BY <1>1, <2>2, <2>3, MeetOnce
<1>2. PackedInv /\ PartInv => Packed
  BY <1>1 DEF Packed
<1> QED
  BY <1>2, PackedStart, PackedStep, PartInvariance, PTL DEF Spec
=============================================================================
