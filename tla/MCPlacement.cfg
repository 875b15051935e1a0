SPECIFICATION PlaceSpec
CONSTANTS
  CPU <- Four
  Index <- Indices
  Machine <- Machines
  MaxFaults = 1
  MaxPlugs = 1
  NoCpu = 16
  Rank <- TwoRanks
INVARIANTS TypeOK NodesApart InnermostFirst CachesComplete FailsForCause
INVARIANTS PlacedUnlessUnplugged PackedOnHardware
CHECK_DEADLOCK FALSE
