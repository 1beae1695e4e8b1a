SPECIFICATION MallocSpec
CONSTANTS
  TblSize = 6
  BlkSize = 2
  CountMod = 16
  Sizes <- MCSizes
INVARIANTS
  MallocTypeOK
  RunsDisjoint
  MapIsExact
PROPERTY
  ImplementsPool
