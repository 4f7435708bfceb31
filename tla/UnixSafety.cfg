SPECIFICATION Spec
CONSTANTS
  p1 = p1
  p2 = p2
  p3 = p3
  Procs <- ThreeProcs
  Nothing = Nothing
  OtherFile = OtherFile
  SocketLink = SocketLink
SYMMETRY Symmetry
INVARIANTS
  ListenersReachable
  RestartWorks
PROPERTIES
  OtherFileKept
