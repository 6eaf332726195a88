SPECIFICATION CSpec
CONSTANTS
  NumCores = 3
  Cpus <- AllCpus
  Siblings <- SiblingsOf
  MaxJobs = 2
  Clients = {"adm"}
  Requests <- SharedCoreRequests
  ReserveChoices <- ReserveCore0
  FaultKinds = {"fork", "crash"}
  MaxFaults = 1
  Users = {u1}
  Operations = {"cancel", "cancel_all", "wait"}
INVARIANTS CTypeOK Booked KeepsCpus WithdrawnNeverRuns EntryAlive
CHECK_DEADLOCK FALSE
