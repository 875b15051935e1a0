SPECIFICATION FairSpec
CONSTANTS
  Proc <- Three
  Ppn <- ThreePpn
  MaxProcesses = 5
  CPU <- SmallCPU
  StrayCpu = 4
  Affinity <- SmallAffinity
  Cpuset <- SmallCpuset
  Excluded <- SmallExcluded
  Faults = {"timeout", "spurious", "topology", "memory", "kill"}
  MaxKills = 1
INVARIANTS TypeOK SortedList NobodyLost RankIsPosition DisjointPins
  PartitionAfterDiscovery
PROPERTIES ImplementsBarrier EveryoneReturns
CHECK_DEADLOCK FALSE
