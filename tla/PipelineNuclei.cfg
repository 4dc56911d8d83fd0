SPECIFICATION Spec
CONSTANTS
  Scans <- SmallScans
  StartSteps <- FromStart
  Fallible <- NoStep
  DbFaults = FALSE
INVARIANTS
  NucleiFindingsSurvive
CHECK_DEADLOCK FALSE
