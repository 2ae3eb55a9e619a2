SPECIFICATION RxFairSpec
CONSTANTS
  t = t
  CR = CR
  LF = LF
  Colon = Colon
  LineCap = 4
  PayloadCap = 3
  MaxLinkId = 4
  UINT16 = 8
  Text <- MCText
  HeaderIds <- MCHeaderIds
  HeaderLens <- MCHeaderLens
INVARIANTS RxTypeOK BuffersInBounds CountdownSound
PROPERTY PayloadModeEnds
