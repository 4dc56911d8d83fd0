SPECIFICATION Spec
CONSTANTS
  Scans <- SmallScans
  StartSteps <- FromStart
  Fallible <- NoStep
  DbFaults = FALSE
PROPERTIES
  CancelledStaysCancelled
CHECK_DEADLOCK FALSE
