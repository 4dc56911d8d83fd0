SPECIFICATION Spec
CONSTANTS
  N = 1
  Workers = {w1, w2}
  Enabled <- ForkScan
  MaxFaults = 0
INVARIANTS
  CompleteMeansStored
CHECK_DEADLOCK FALSE
