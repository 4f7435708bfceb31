SPECIFICATION Spec
CONSTANTS
  c1 = c1
  c2 = c2
  c3 = c3
  k1 = k1
  k2 = k2
  k3 = k3
  Clients <- ThreeClients
  First = c1
  Conns <- ThreeConns
  NoConn = NoConn
  Configurations <- LimitedAndDefaults
SYMMETRY Symmetry
INVARIANTS
  NoLeakNoSharing
  HandedOutSetUp
  CountExact
  LimitRespected
CHECK_DEADLOCK FALSE
