SPECIFICATION Spec
CONSTANTS
  Procs <- TwoProcs
  Values <- FourValues
  Unknown = "UNKNOWN"
  Messages <- TwoMessages
  Statuses = {0, 403, 405, 500, 503}
  Groups = {"errcode", "shop"}
  Catalog <- SixEntries
  Less <- Before
  Details = {"detail"}
  NoDetail = NoDetail
INVARIANTS
  GroupsPartition
  WireFaithful
  WireStable
  StatusServed
PROPERTIES
  CodesKept
CHECK_DEADLOCK FALSE
