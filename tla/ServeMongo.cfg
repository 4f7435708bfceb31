SPECIFICATION FairSpecAll
CONSTANTS
  r1 = r1
  r2 = r2
  s1 = s1
  Requests <- TwoRequests
  DrainTimeout = 5
  Sockets <- OneSocket
  NoSocket = NoSocket
INVARIANTS
  AnswerIsFinal
  WorkCutOff
PROPERTIES
  EveryCallEnds
  StopsByItself
CHECK_DEADLOCK FALSE
