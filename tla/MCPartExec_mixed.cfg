SPECIFICATION FairSpec
CONSTANTS
  Proc <- Three
  Ppn <- MixedPpn
  MaxProcesses = 7
  CPU <- MixedCPU
  StrayCpu = 6
  Affinity <- MixedAffinity
  Cpuset <- MixedCpuset
  Excluded <- NoneExcluded
  Faults = {"timeout"}
  MaxKills = 0
INVARIANTS NobodyLost RanksFollowPids
CHECK_DEADLOCK FALSE
