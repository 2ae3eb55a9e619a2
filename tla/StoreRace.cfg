SPECIFICATION Spec
CONSTANTS
  s1 = s1
  s2 = s2
  s3 = s3
  p1 = p1
  Empty = Empty
  Erased = Erased
  Torn = Torn
  MaxCredential = 3
  Ssids <- MCSsids
  Passwords <- MCPasswords
  StoredImages <- MCStoredImages
  MaxCalls = 2
  MaxInterrupts = 2
INVARIANTS  OneSlotPerSsid
CHECK_DEADLOCK FALSE
