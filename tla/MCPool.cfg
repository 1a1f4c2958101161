CONSTANTS
  MaxFiles = 3
  Jobs <- MCJobs
  Cores = 2
  SizeT = 16
  MaxVector = 6
  ThreadsMayFail = TRUE

SPECIFICATION FairSpec
INVARIANTS TypeOK NoRace SameAsSequential NoWorkerOutlivesMain
PROPERTY Finishes
CHECK_DEADLOCK FALSE
