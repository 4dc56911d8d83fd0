SPECIFICATION LoopSpec
CONSTANTS
  Scans <- SmallScans
  StartSteps <- Resumed
  Fallible <- Probes
  DbFaults = FALSE
PROPERTIES
  AbortNoticed
  RunEnds
CHECK_DEADLOCK FALSE
