SPECIFICATION FairSpec
CONSTANTS
  P1 = P1
  P2 = P2
  Ports <- MCPorts
  Stranger = Stranger
  StrangerSends = {"OACK", "ERROR"}
  Zero = Zero
  None = None
  LastBlock = 3
  BlockNumbers = 5
  g_timeout = 2
  MaxRetries = 2
  MaxRequests = 1
INVARIANTS TftpTypeOK SuccessIsWhole
PROPERTY TransferEnds
