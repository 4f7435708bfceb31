SPECIFICATION Spec
CONSTANTS
  AccessLog = TRUE
  Bugsnag = TRUE
  Statuses <- ThreeStatuses
  MaxSize = 3
INVARIANTS
  HeadersIncluded
CHECK_DEADLOCK FALSE
