SPECIFICATION Spec
CONSTANTS
  Procs = {p1, p2, p3}
  FaultKinds = {"lock", "read", "write", "crash"}
  MaxFaults = 1
SYMMETRY Symmetry
INVARIANT AckedOnce
CHECK_DEADLOCK FALSE
