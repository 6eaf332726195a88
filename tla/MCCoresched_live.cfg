SPECIFICATION RivalSpec
CONSTANTS
  NumCores = 3
  Cpus <- AllCpus
  Siblings <- SiblingsOf
  MaxJobs = 3
  Clients = {}
  Requests <- RivalRequests
  ReserveChoices <- NoReserve
  FaultKinds = {}
  MaxFaults = 0
INVARIANTS NoLeak
PROPERTIES EveryJobRuns

CHECK_DEADLOCK FALSE
