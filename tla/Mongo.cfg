SPECIFICATION FairSpec
CONSTANTS
  c1 = c1
  c2 = c2
  c3 = c3
  s1 = s1
  s2 = s2
  Callers <- ThreeCallers
  Sockets <- TwoSockets
  NoSocket = NoSocket
INVARIANTS
  SessionOutlivesF
  NothingLeftBehind
PROPERTIES
  ImplementsSyncCall
  EveryCallReturns
CHECK_DEADLOCK FALSE
