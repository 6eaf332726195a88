SPECIFICATION Spec
CONSTANTS
  MaxPids = 3
INVARIANTS TypeOK OnlyMissedSurvive StillJobCovered
CHECK_DEADLOCK FALSE
