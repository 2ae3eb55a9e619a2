SPECIFICATION Spec
CONSTANTS
  s1 = s1
  s2 = s2
  s3 = s3
  p1 = p1
  Empty = Empty
  Erased = Erased
  Torn = Torn
  Hole = Hole
  MaxCredential = 3
  Ssids <- MCSsids
  Passwords <- MCPasswords
INVARIANTS TypeOK NoDuplicateSsid NoSsidWithoutPassword
PROPERTIES ProgramsErasedFlash ImplementsRing
