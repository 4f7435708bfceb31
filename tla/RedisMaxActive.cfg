SPECIFICATION Spec
CONSTANTS
  c1 = c1
  c2 = c2
  c3 = c3
  k1 = k1
  k2 = k2
  k3 = k3
  Clients <- TwoClients
  First = c1
  Conns <- ThreeConns
  NoConn = NoConn
  Configurations <- OnlyLimited
SYMMETRY Symmetry
INVARIANTS
  BlocksAtLimit
CHECK_DEADLOCK FALSE
