CONSTANTS
  p1 = p1
  p2 = p2
  i1 = i1
  i2 = i2
  i3 = i3
  Pcbs = {p1, p2}
  Nodes = {i1, i2, i3}
  head = head
  NULL = NULL
  SndCap = 2
  NumSegs = 3
  PoolSize = 2
  KeyEvents = {"NONE", "KEY0"}
SPECIFICATION FairSpec
INVARIANTS
  TypeOK
  ArgsAreLive
  ListIsEstablished
  ResourcesBalanced
  ListWellFormed
  HeapConsistent
  RemoveIsTruthful
  BroadcastReachesAll
PROPERTIES
  ServesInOrder
  LastAckEnds
CHECK_DEADLOCK FALSE
