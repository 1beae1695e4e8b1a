SPECIFICATION StartSpec
CONSTANTS
  TblSize = 30
  Need <- SmallNeed
  a1 = a1
  a2 = a2
  Leases = {a1, a2}
  STATIC = STATIC
  ZERO = ZERO
  MaxDhcpTries = 4
INVARIANTS
  StartTypeOK
  BoundIsConfigured
  DeclinedNotUsed
  BuffersReady
PROPERTY
  StartUpEnds
