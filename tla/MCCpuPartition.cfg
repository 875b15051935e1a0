SPECIFICATION Spec
CONSTANTS
  CPU <- EightCPUs
  NoCpu = 16
  Rank <- ThreeRanks
  Machine <- Machines
INVARIANTS TypeOK NoneTwice Packed FailsForCause
PROPERTIES ImplementsShares
CHECK_DEADLOCK FALSE
