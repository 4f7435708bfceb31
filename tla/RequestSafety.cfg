SPECIFICATION SpecAll
CONSTANTS
  AccessLog = TRUE
  Bugsnag = TRUE
  Statuses <- ThreeStatuses
  MaxSize = 3
  Fields <- ThreeFields
  Requests <- ThreeRequests
  RouteVars <- NameVar
INVARIANTS
  StatusTrue
  RecordsSettle
  LinesTrue
  EveryEndLogged
  LoggersCurrent
  LinesAttributed
  ProcessLinesMarked
CHECK_DEADLOCK FALSE
