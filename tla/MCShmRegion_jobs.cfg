SPECIFICATION FairSpec
CONSTANTS
  Proc <- Six
  JobOf <- ThreeJobs
  Faults = {"slow", "map", "kill", "kill_locked"}
  Faulty = {1}
INVARIANTS TypeOK InitializedFirst NothingLeft WaitsUnlessKilled SlotsSuffice
PROPERTIES Recovers
CHECK_DEADLOCK FALSE
