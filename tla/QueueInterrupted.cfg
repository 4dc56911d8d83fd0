SPECIFICATION FairSpec
CONSTANTS
  N = 1
  Workers = {w1}
  Enabled <- ForkScan
  MaxFaults = 1
PROPERTIES
  RunningEnds
CHECK_DEADLOCK FALSE
