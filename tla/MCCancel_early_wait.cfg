SPECIFICATION CSpec
CONSTANTS
  NumCores = 3
  Cpus <- AllCpus
  Siblings <- SiblingsOf
  MaxJobs = 2
  Clients = {"adm"}
  Requests <- SharedCoreRequests
  ReserveChoices <- ReserveCore0
  FaultKinds = {}
  MaxFaults = 0
  Users = {u1}
  Operations = {"wait"}
PROPERTY WaitTruthful
CHECK_DEADLOCK FALSE
