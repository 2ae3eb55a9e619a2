SPECIFICATION FairSpec
CONSTANTS
  s1 = s1
  p1 = p1
  p2 = p2
  Empty = Empty
  Erased = Erased
  Torn = Torn
  MaxCredential = 1
  Ssids <- MCSsids
  Passwords <- MCPasswords
  MaxLinkId = 4
  LinkIds <- MCLinkIds
  Modes <- MCModes
  Credentials <- MCCredentials
  StoredImages <- MCStored
  MaxCmds = 1
  MaxLines = 2
  MaxInfo = 1
INVARIANTS DriverTypeOK  ScanSearchesFlash
PROPERTIES AutoJoinUsesSavedPair 
