SPECIFICATION Spec
CONSTANTS
  NumCores = 3
  Cpus <- AllCpus
  Siblings <- SiblingsOf
  MaxJobs = 3
  Clients = {}
  Requests <- ImpatientRequests
  ReserveChoices <- NoReserve
  FaultKinds = {}
  MaxFaults = 0
INVARIANTS QueueServed

CHECK_DEADLOCK FALSE
