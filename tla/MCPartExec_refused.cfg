SPECIFICATION FairSpec
CONSTANTS
  Proc <- Two
  Ppn <- TwoPpn
  MaxProcesses = 5
  CPU <- TwoCPU
  StrayCpu = 4
  Affinity <- TwoAffinity
  Cpuset <- TwoCpuset
  Excluded <- TwoExcluded
  Faults = {}
  MaxKills = 0
INVARIANTS FirstPartitions
