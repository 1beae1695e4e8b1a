SPECIFICATION DriverSpec
CONSTANTS
  ETH_RXBUFNB = 1
  ETH_TXBUFNB = 2
  f1 = f1
  f2 = f2
  Frames = {f1, f2}
  OWN = OWN
  NONE = NONE
  Late = 0
  Pbufs = 2
PROPERTY
  AcceptedIsSent
