SPECIFICATION FaultsSpec
CONSTANTS
  NumCores = 3
  Cpus <- AllCpus
  Siblings <- SiblingsOf
  MaxJobs = 3
  Clients = {}
  Requests <- CoreZeroRequests
  ReserveChoices <- NoReserve
  FaultKinds = {"fork", "spawn", "pin", "crash", "reboot"}
  MaxFaults = 1
INVARIANTS IInv Booked OnePlace Isolation DispatchOnce QueueFIFO NotForgotten
PROPERTIES ImplementsPool
CHECK_DEADLOCK FALSE
