SPECIFICATION Spec
CONSTANTS
  N = 2
  Workers = {w1, w2}
  Enabled <- LineScan
  MaxFaults = 1
SYMMETRY WorkerSymmetry
INVARIANTS
  TypeOK
  RunningHasOwner
  StartsOnce
CHECK_DEADLOCK FALSE
