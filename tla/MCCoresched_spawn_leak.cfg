SPECIFICATION Spec
CONSTANTS
  NumCores = 3
  Cpus <- AllCpus
  Siblings <- SiblingsOf
  MaxJobs = 1
  Clients = {}
  Requests <- SharedCoreRequests
  ReserveChoices <- NoReserve
  FaultKinds = {"spawn"}
  MaxFaults = 1
INVARIANTS NoLeak

CHECK_DEADLOCK FALSE
