SPECIFICATION Spec
CONSTANTS
  Scans <- FullScan
  StartSteps <- FromStart
  Fallible <- Fingerprint
  DbFaults = TRUE
INVARIANTS
  TypeOK
  UpstreamDone
  CompleteMeansFinished
  CompleteStoresAll
  StoredIsTriaged
PROPERTIES
  CompletedRowStable
  GraphRefined
CHECK_DEADLOCK FALSE
