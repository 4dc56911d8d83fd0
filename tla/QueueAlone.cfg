SPECIFICATION FairSpec
CONSTANTS
  N = 2
  Workers = {w1}
  Enabled <- ForkScan
  MaxFaults = 1
INVARIANTS
  CompleteMeansStored
PROPERTIES
  CompleteIsFinal
  PendingIsTaken
CHECK_DEADLOCK FALSE
