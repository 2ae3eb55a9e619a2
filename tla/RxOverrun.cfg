SPECIFICATION OverrunSpec
CONSTANTS
  a = a
  b = b
  CR = CR
  LF = LF
  Colon = Colon
  LineCap = 4
  PayloadCap = 5
  MaxLinkId = 4
  UINT16 = 8
  Text <- MCText
  HeaderIds <- MCHeaderIds
  HeaderLens <- MCHeaderLens
  LineTexts <- MCLineTexts
  Payloads <- MCPayloads
  Links <- MCLinks
  MaxInFlight = 2
INVARIANT RequestIsAFrameSent
