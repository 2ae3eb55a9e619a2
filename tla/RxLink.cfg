SPECIFICATION LinkFairSpec
CONSTANTS
  t = t
  CR = CR
  LF = LF
  Colon = Colon
  LineCap = 3
  PayloadCap = 3
  MaxLinkId = 4
  UINT16 = 8
  Text <- MCText
  HeaderIds <- MCHeaderIds
  HeaderLens <- MCHeaderLens
  LineTexts <- MCLineTexts
  Payloads <- MCPayloads
  Links <- MCLinks
  MaxInFlight = 2
INVARIANTS InSync
PROPERTY ImplementsInbox
