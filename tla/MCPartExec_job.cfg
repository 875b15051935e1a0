SPECIFICATION FairSpec
CONSTANTS
  Proc <- Three
  Ppn <- ThreePpn
  MaxProcesses = 8
  CPU <- JobCPU
  StrayCpu = 7
  Affinity <- JobAffinity
  Cpuset <- JobCpuset
  Excluded <- JobExcluded
  Faults = {}
  MaxKills = 0
INVARIANTS SomeoneToWake FairShare
PROPERTIES AllPinned
