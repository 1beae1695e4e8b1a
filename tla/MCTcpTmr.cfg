SPECIFICATION TmrSpec
CONSTANTS
  p1 = p1
  p2 = p2
  p3 = p3
  Pcbs = {p1, p2, p3}
  NULL = NULL
  CtrMod = 3
INVARIANTS
  TmrTypeOK
  ActiveListExact
  PassServesAll
PROPERTY
  PassEnds
CONSTRAINT
  ThroughTornPass
