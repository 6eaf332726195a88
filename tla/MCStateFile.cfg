SPECIFICATION Spec
CONSTANTS
  Procs = {p1, p2, p3}
  FaultKinds = {"lock", "read", "write", "crash"}
  MaxFaults = 2
SYMMETRY Symmetry
INVARIANTS TypeOK NeverTorn Kept FreshIds StartedOnce
PROPERTIES ImplementsStore
CHECK_DEADLOCK FALSE
