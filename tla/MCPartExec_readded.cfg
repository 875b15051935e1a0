SPECIFICATION FairSpec
CONSTANTS
  Proc <- Three
  Ppn <- MixedPpn
  MaxProcesses = 7
  CPU <- MixedCPU
  StrayCpu = 6
  Affinity <- MixedAffinity
  Cpuset <- MixedCpuset
  Excluded <- NoneExcluded
  Faults = {}
  MaxKills = 0
INVARIANTS DisjointPins
CHECK_DEADLOCK FALSE
