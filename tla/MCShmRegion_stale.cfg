SPECIFICATION FairSpec
CONSTANTS
  Proc <- Four
  JobOf <- TwoJobs
  Faults = {"kill"}
  Faulty = {1}
INVARIANTS WaitsForAll
CHECK_DEADLOCK FALSE
