SPECIFICATION FairSpec
CONSTANTS
  A = A
  B = B
  None = None
  Servers <- MCServers
  Via <- Direct
  Addresses = {10, 20}
  Refusable = {10, 20}
  MAX_DHCP_RETRY = 2
  DHCP_WAIT_TIME = 1
  LeaseTime = 4
  MaxTick = 3
INVARIANTS DhcpTypeOK OneServer LeasedIsConfigured
PROPERTY NoEndlessWait
