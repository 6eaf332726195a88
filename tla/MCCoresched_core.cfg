SPECIFICATION Spec
CONSTANTS
  NumCores = 3
  Cpus <- AllCpus
  Siblings <- SiblingsOf
  MaxJobs = 3
  Clients = {}
  Requests <- MixedRequests
  ReserveChoices <- NoReserve
  FaultKinds = {}
  MaxFaults = 0
INVARIANTS TypeOK FullGrant ExclusiveCores Confined QueueServed
PROPERTIES PriorityOrder
CHECK_DEADLOCK FALSE
