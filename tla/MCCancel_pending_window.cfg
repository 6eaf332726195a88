SPECIFICATION CSpec
CONSTANTS
  NumCores = 3
  Cpus <- AllCpus
  Siblings <- SiblingsOf
  MaxJobs = 2
  Clients = {}
  Requests <- SharedCoreRequests
  ReserveChoices <- ReserveCore0
  FaultKinds = {}
  MaxFaults = 0
  Users = {u1}
  Operations = {"cancel"}
INVARIANT Accounted
CHECK_DEADLOCK FALSE
