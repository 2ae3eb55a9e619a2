SPECIFICATION FairSpec
CONSTANTS
  NoByte = NoByte
  MaxLen = 3
  MaxTexts = 2
INVARIANTS TxTypeOK LosesOnlyTheLast WireKeepsOrder
PROPERTIES AllTransmitted
CHECK_DEADLOCK FALSE
