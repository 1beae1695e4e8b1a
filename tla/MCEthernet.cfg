SPECIFICATION DriverSpec
CONSTANTS
  ETH_RXBUFNB = 2
  ETH_TXBUFNB = 2
  f1 = f1
  f2 = f2
  Frames = {f1, f2}
  OWN = OWN
  NONE = NONE
  Late = 1
  Pbufs = 1
CONSTRAINT UntilMixed
INVARIANTS
  DriverTypeOK
  PacketIsThere
  RefusedOnlyWhenFull
PROPERTIES
  RxInOrder
  StreamFlows
  TxInOrder
  TxDrains
