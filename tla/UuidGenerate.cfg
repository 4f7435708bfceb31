SPECIFICATION FairSpec
CONSTANTS
  Size = 16
  MaxRetries = 9
  RawBytes <- BoundaryBytes
INVARIANTS
  BackoffTotal
  Version4
PROPERTIES
  Terminates
CHECK_DEADLOCK FALSE
