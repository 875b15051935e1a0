SPECIFICATION FairSpec
CONSTANTS
  Proc <- Three
  Ppn <- ExtraPpn
  MaxProcesses = 5
  CPU <- SmallCPU
  StrayCpu = 4
  Affinity <- SmallAffinity
  Cpuset <- SmallCpuset
  Excluded <- NoneExcluded
  Faults = {"timeout"}
  MaxKills = 0
PROPERTIES EveryoneReturns
CHECK_DEADLOCK FALSE
