SPECIFICATION CommandSpec
CONSTANTS
  MaxLinkId = 4
  LinkIds <- MCLinkIds
  Modes <- MCModes
  SsidLens <- MCSsidLens
  PasswordLens <- MCPasswordLens
  IpLens <- MCIpLens
  ApSsidLens <- MCShortSsidLens
  Ports <- MCUint16
  Lengths <- MCUint16
  Channels = {1, 4}
  Encryptions = {0, 4}
INVARIANT OwnLine
