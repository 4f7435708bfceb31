SPECIFICATION FairSpec
CONSTANTS
  r1 = r1
  r2 = r2
  r3 = r3
  r4 = r4
  Requests <- FourRequests
  DrainTimeout = 5
INVARIANTS
  GracefulExit
  GraceRespected
  ServeInv
PROPERTIES
  DrainShrinks
  ImplementsGracefulServer
  TermObeyed
  NoZombie
CHECK_DEADLOCK FALSE
