----------------------- MODULE CredentialStoreProofs -----------------------
(***************************************************************************)
(* The safety properties of CredentialStore, for every number of slots and *)
(* every set of SSIDs and passwords.  The page may be read after a power   *)
(* loss at any point of a rewrite, so the invariant says what it holds in  *)
(* the middle of one: the fields below the one being programmed are those  *)
(* of the list in RAM, the fields above it are erased.  The same fact makes*)
(* the store implement the ring of recent credentials.                     *)
(***************************************************************************)
EXTENDS CredentialStore, TLAPS

(* image is the start of copy, up to field n, on an erased page; field n   *)
(* may be partly programmed.                                               *)
PrefixOf(image, copy, n) ==
  \A c \in Cells : IF c < n THEN image[c] = copy[c]
                   ELSE image[c] = Erased \/ (c = n /\ image[c] = Torn /\ copy[c] # Erased)

Rewriting == pc \in {"program", "programming"}

StoreInv ==
  /\ TypeOK
  /\ NoDuplicate(flash) /\ Paired(flash)
  /\ pc # "idle" => NoDuplicate(flash_data) /\ Paired(flash_data)
  /\ pc \in {"erase", "program", "programming"} => ~locked
  /\ pc = "programming" => cell \in Cells
  /\ Rewriting => PrefixOf(flash, flash_data, cell)

(* The fields of the slots do not overlap, and a password comes before its *)
(* SSID.                                                                   *)
LEMMA CellFacts ==
  ASSUME NEW i \in Slots, NEW j \in Slots
  PROVE  /\ SsidCell(i) \in Cells /\ PasswordCell(i) \in Cells /\ NextCell \in Cells
         /\ SsidCell(i) # NextCell /\ PasswordCell(i) # NextCell
         /\ PasswordCell(i) < SsidCell(i)
         /\ SsidCell(i) # PasswordCell(j)
         /\ SsidCell(i) = SsidCell(j) => i = j
         /\ PasswordCell(i) = PasswordCell(j) => i = j
  BY CredentialAssumption DEF Slots, Cells, SsidCell, PasswordCell, NextCell

(* The start of a good list is a good list: a slot whose SSID has been     *)
(* programmed has its password.                                            *)
LEMMA PrefixIsGood ==
  ASSUME NEW image, NEW copy, NEW n \in Nat, PrefixOf(image, copy, n),
         NoDuplicate(copy), Paired(copy)
  PROVE  NoDuplicate(image) /\ Paired(image)
<1>1. ASSUME NEW i \in Slots, image[SsidCell(i)] # Erased
      PROVE  /\ image[SsidCell(i)] \in {copy[SsidCell(i)], Torn}
             /\ copy[SsidCell(i)] # Erased
             /\ image[PasswordCell(i)] = copy[PasswordCell(i)]
  <2>1. SsidCell(i) \in Cells /\ PasswordCell(i) \in Cells /\ PasswordCell(i) < SsidCell(i)
    BY CellFacts
  <2>2. SsidCell(i) \in Nat /\ PasswordCell(i) \in Nat
    BY <2>1 DEF Cells
  <2>3. /\ image[SsidCell(i)] \in {copy[SsidCell(i)], Torn} /\ copy[SsidCell(i)] # Erased
        /\ SsidCell(i) <= n
    BY <1>1, <2>1, <2>2 DEF PrefixOf
  <2>4. PasswordCell(i) < n
    BY <2>1, <2>2, <2>3
  <2> QED  BY <2>1, <2>3, <2>4 DEF PrefixOf
<1>2. NoDuplicate(image)
  BY <1>1, CredentialAssumption DEF NoDuplicate, Strings
<1>3. Paired(image)
  BY <1>1 DEF Paired
<1> QED  BY <1>2, <1>3

(* An erased page is the empty start of every list.                        *)
LEMMA ErasedIsPrefix == ASSUME NEW copy PROVE PrefixOf(ErasedImage, copy, 0)
  BY CredentialAssumption DEF PrefixOf, ErasedImage, Cells

(* esp8266_update_credential_list() keeps the list free of duplicates and  *)
(* every SSID with its password.                                           *)
LEMMA UpdatedIsGood ==
  ASSUME NEW image \in Images, NoDuplicate(image), Paired(image),
         NEW ssid \in Ssids, NEW password \in Passwords
  PROVE  LET new == Updated(image, ssid, password)
         IN  new \in Images /\ NoDuplicate(new) /\ Paired(new)
<1> DEFINE new == Updated(image, ssid, password)
<1>0. ssid \in CellValue /\ password \in CellValue
  BY DEF CellValue, Strings
<1>1. CASE Matches(image, ssid) # {}
  <2> DEFINE m == FirstMatch(image, ssid)
  <2>1. PICK i \in Matches(image, ssid) : TRUE
    BY <1>1
  <2>2. \A j \in Matches(image, ssid) : j = i
    BY <2>1 DEF Matches, NoDuplicate
  <2>3. \A j \in Matches(image, ssid) : i <= j
    BY <2>1, <2>2, CredentialAssumption DEF Matches, Slots
  <2>4. m \in Slots
    BY <2>1, <2>3 DEF FirstMatch, Matches
  <2>5. new = [image EXCEPT ![PasswordCell(m)] = password]
    BY <1>1 DEF Updated
  <2>6. PasswordCell(m) \in Cells
    BY <2>4, CellFacts
  <2>7. \A s \in Slots : new[SsidCell(s)] = image[SsidCell(s)]
    BY <2>4, <2>5, CellFacts DEF Images
  <2>8. \A s \in Slots : new[PasswordCell(s)] \in {image[PasswordCell(s)], password}
    BY <2>5, CellFacts DEF Images
  <2>9. new \in Images
    BY <1>0, <2>5, <2>6 DEF Images
  <2>10. NoDuplicate(new)
    BY <2>7 DEF NoDuplicate
  <2>11. Paired(new)
    BY <2>7, <2>8 DEF Paired
  <2> QED  BY <2>9, <2>10, <2>11
<1>2. CASE Matches(image, ssid) = {}
  <2> DEFINE n == NextSlot(image)
  <2>1. n \in Slots
    BY CredentialAssumption DEF NextSlot, Slots
  <2>2. new = [image EXCEPT ![NextCell] = n + 1, ![PasswordCell(n)] = password,
                            ![SsidCell(n)] = ssid]
    BY <1>2 DEF Updated
  <2>3. n + 1 \in CellValue
    BY <2>1, CredentialAssumption DEF Slots, CellValue
  <2>4. \A s \in Slots : new[SsidCell(s)] = IF s = n THEN ssid ELSE image[SsidCell(s)]
    BY <2>1, <2>2, CellFacts DEF Images
  <2>5. \A s \in Slots : new[PasswordCell(s)] = IF s = n THEN password ELSE image[PasswordCell(s)]
    BY <2>1, <2>2, CellFacts DEF Images
  <2>6. new \in Images
    BY <1>0, <2>2, <2>3 DEF Images
  <2>7. NoDuplicate(new)
    BY <1>2, <2>4 DEF NoDuplicate, Matches
  <2>8. Paired(new)
    BY <2>4, <2>5 DEF Paired
  <2> QED  BY <2>6, <2>7, <2>8
<1> QED  BY <1>1, <1>2

(* A blank page.                                                           *)
LEMMA StoreInitInv == Init => StoreInv
<1> SUFFICES ASSUME Init PROVE StoreInv
  OBVIOUS
<1>1. locked \in BOOLEAN
  BY Zenon DEF Init
<1>2. TypeOK
  BY <1>1, CredentialAssumption
  DEF Init, TypeOK, Images, ErasedImage, ZeroImage, CellValue, Strings, Cells
<1>3. \A i \in Slots : flash[SsidCell(i)] = Erased
  BY CellFacts DEF Init, ErasedImage
<1>4. NoDuplicate(flash) /\ Paired(flash)
  BY <1>3, CredentialAssumption DEF NoDuplicate, Paired, Strings
<1>5. pc = "idle"
  BY DEF Init
<1> QED  BY <1>2, <1>4, <1>5 DEF StoreInv, Rewriting

(* The list in RAM becomes the updated one; the page is as it was.         *)
LEMMA UpdateInv ==
  ASSUME StoreInv, NEW ssid \in Ssids, NEW password \in Passwords,
         esp8266_update_credential_list(ssid, password)
  PROVE  StoreInv'
<1>1. flash' = flash /\ locked' = locked /\ cell' = cell /\ pc' = "unlock"
      /\ flash_data' = Updated(flash, ssid, password)
  BY DEF esp8266_update_credential_list
<1>2. flash_data' \in Images /\ NoDuplicate(flash_data') /\ Paired(flash_data')
  BY <1>1, UpdatedIsGood DEF StoreInv, TypeOK
<1> QED  BY <1>1, <1>2 DEF StoreInv, TypeOK, Rewriting, NoDuplicate, Paired

(* Unlocking the controller changes nothing else.                          *)
LEMMA UnlockInv == ASSUME StoreInv, flash_unlock PROVE StoreInv'
<1>1. locked' = FALSE /\ pc' = "erase" /\ pc = "unlock" /\ UNCHANGED <<flash, flash_data, cell>>
  BY DEF flash_unlock
<1>2. locked' \in BOOLEAN /\ ~locked'
  BY <1>1, Zenon
<1> QED  BY <1>1, <1>2 DEF StoreInv, TypeOK, Rewriting, NoDuplicate, Paired

(* The erased page is the empty start of the list in RAM.                  *)
LEMMA EraseInv == ASSUME StoreInv, flash_erase_page PROVE StoreInv'
<1>1. pc = "erase" /\ pc' = "program" /\ cell' = 0 /\ UNCHANGED <<locked, flash_data>>
  BY DEF flash_erase_page
<1>2. ~locked /\ flash' = ErasedImage
  BY <1>1 DEF flash_erase_page, StoreInv
<1>3. flash' \in Images
  BY <1>2 DEF Images, ErasedImage, CellValue
<1>4. PrefixOf(flash', flash_data', 0)
  BY <1>2, ErasedIsPrefix
<1>5. NoDuplicate(flash_data') /\ Paired(flash_data')
  BY <1>1 DEF StoreInv
<1>6. NoDuplicate(flash') /\ Paired(flash')
  BY <1>4, <1>5, PrefixIsGood
<1>7. TypeOK'
  BY <1>1, <1>3, CredentialAssumption DEF StoreInv, TypeOK
<1> QED  BY <1>1, <1>2, <1>4, <1>5, <1>6, <1>7 DEF StoreInv, Rewriting

(* A field that is half programmed does not count as programmed.           *)
LEMMA BeginProgramInv == ASSUME StoreInv, BeginProgram PROVE StoreInv'
<1>1. pc = "program" /\ pc' = "programming" /\ cell \in Cells
      /\ flash' = [flash EXCEPT ![cell] = Begun(flash_data[cell])]
      /\ UNCHANGED <<locked, flash_data, cell>>
  BY DEF BeginProgram, ProgramOrder
<1>2. PrefixOf(flash, flash_data, cell) /\ flash \in Images /\ cell \in Nat
  BY <1>1 DEF StoreInv, Rewriting, TypeOK, Cells
<1>3. PrefixOf(flash', flash_data', cell')
  BY <1>1, <1>2 DEF PrefixOf, Images, Cells, Begun
<1>4. NoDuplicate(flash_data') /\ Paired(flash_data')
  BY <1>1 DEF StoreInv
<1>5. NoDuplicate(flash') /\ Paired(flash')
  BY <1>1, <1>2, <1>3, <1>4, PrefixIsGood
<1>6. TypeOK'
  BY <1>1, <1>2 DEF StoreInv, TypeOK, Images, CellValue, Begun
<1> QED  BY <1>1, <1>3, <1>4, <1>5, <1>6 DEF StoreInv, Rewriting

(* A field that is programmed extends the start of the list.               *)
LEMMA EndProgramInv == ASSUME StoreInv, EndProgram PROVE StoreInv'
<1>1. pc = "programming" /\ pc' = "program" /\ cell' = cell + 1
      /\ flash' = [flash EXCEPT ![cell] = flash_data[cell]] /\ UNCHANGED <<locked, flash_data>>
  BY DEF EndProgram, ProgramOrder
<1>2. /\ PrefixOf(flash, flash_data, cell)
      /\ flash \in Images /\ flash_data \in Images /\ cell \in Cells /\ cell \in Nat
  BY <1>1 DEF StoreInv, Rewriting, TypeOK, Cells
<1>3. PrefixOf(flash', flash_data', cell')
  BY <1>1, <1>2 DEF PrefixOf, Images, Cells
<1>4. NoDuplicate(flash_data') /\ Paired(flash_data')
  BY <1>1 DEF StoreInv
<1>5. cell' \in Nat
  BY <1>1, <1>2
<1>6. NoDuplicate(flash') /\ Paired(flash')
  BY <1>3, <1>4, <1>5, PrefixIsGood
<1>7. flash' \in Images
  BY <1>1, <1>2 DEF Images
<1>8. TypeOK'
  BY <1>1, <1>2, <1>7, CredentialAssumption DEF StoreInv, TypeOK, Cells
<1> QED  BY <1>1, <1>3, <1>4, <1>6, <1>8 DEF StoreInv, Rewriting

(* Locking the controller and losing power leave the page as it is.        *)
LEMMA LockInv == ASSUME StoreInv, flash_lock \/ PowerLoss PROVE StoreInv'
<1>1. locked' = TRUE /\ pc' = "idle" /\ flash' = flash
  BY DEF flash_lock, PowerLoss
<1>2. locked' \in BOOLEAN
  BY <1>1, Zenon
<1>3. ZeroImage \in Images
  BY CredentialAssumption DEF ZeroImage, Images, CellValue, Strings
<1>4. flash_data' \in Images
  BY <1>3 DEF flash_lock, PowerLoss, StoreInv, TypeOK
<1>5. cell' \in 0..(2 * MaxCredential + 1)
  BY CredentialAssumption DEF flash_lock, PowerLoss, StoreInv, TypeOK
<1> QED  BY <1>1, <1>2, <1>4, <1>5 DEF StoreInv, TypeOK, Rewriting, NoDuplicate, Paired

(* No step of the store leaves the invariant.                              *)
LEMMA StoreStepInv == StoreInv /\ [Next]_vars => StoreInv'
<1> SUFFICES ASSUME StoreInv, [Next]_vars PROVE StoreInv'
  OBVIOUS
<1>1. ASSUME NEW ssid \in Ssids, NEW password \in Passwords,
             esp8266_update_credential_list(ssid, password)
      PROVE  StoreInv'
  BY <1>1, UpdateInv
<1>2. CASE eeprom_write
  BY <1>2, UnlockInv, EraseInv, BeginProgramInv, EndProgramInv, LockInv DEF eeprom_write
<1>3. CASE PowerLoss
  BY <1>3, LockInv
<1>4. CASE UNCHANGED vars
  BY <1>4 DEF vars, StoreInv, TypeOK, Rewriting, PrefixOf, NoDuplicate, Paired
<1> QED  BY <1>1, <1>2, <1>3, <1>4 DEF Next

(* The invariant holds at all times, power losses included.                *)
THEOREM StoreInvariant == Spec => []StoreInv
  BY StoreInitInv, StoreStepInv, PTL DEF Spec

(* The page, its copy and the update are type correct.                     *)
THEOREM StoreTypeCorrect == Spec => []TypeOK
<1>1. StoreInv => TypeOK
  BY DEF StoreInv
<1> QED  BY <1>1, StoreInvariant, PTL

(* The page never holds an SSID twice, whenever the power fails.           *)
THEOREM StoreNoDuplicateSsid == Spec => []NoDuplicateSsid
<1>1. StoreInv => NoDuplicateSsid
  BY DEF StoreInv, NoDuplicateSsid
<1> QED  BY <1>1, StoreInvariant, PTL

(* The page never holds an SSID without its password, whenever the power   *)
(* fails.                                                                  *)
THEOREM StoreNoSsidWithoutPassword == Spec => []NoSsidWithoutPassword
<1>1. StoreInv => NoSsidWithoutPassword
  BY DEF StoreInv, NoSsidWithoutPassword
<1> QED  BY <1>1, StoreInvariant, PTL

(* eeprom_write() programs only erased fields, and only with the           *)
(* controller unlocked.                                                    *)
THEOREM StoreProgramsErasedFlash == Spec => ProgramsErasedFlash
<1> DEFINE A == /\ ~locked
                /\ \/ flash' = ErasedImage
                   \/ \A c \in Cells : flash'[c] # flash[c] => flash[c] \in {Erased, Torn}
<1>1. StoreInv /\ [Next]_vars => [A]_flash
  <2> SUFFICES ASSUME StoreInv, Next, flash' # flash PROVE A
    BY DEF vars
  <2>1. CASE flash_erase_page
    BY <2>1 DEF flash_erase_page, StoreInv
  <2>2. ASSUME pc \in {"program", "programming"}, cell \in Cells, NEW v,
               flash' = [flash EXCEPT ![cell] = v]
        PROVE  A
    <3>1. ~locked /\ PrefixOf(flash, flash_data, cell) /\ flash \in Images
      BY <2>2 DEF StoreInv, Rewriting, TypeOK
    <3>2. flash[cell] \in {Erased, Torn}
      BY <2>2, <3>1 DEF PrefixOf, Cells
    <3>3. \A c \in Cells : flash'[c] # flash[c] => c = cell
      BY <2>2, <3>1 DEF Images
    <3> QED  BY <3>1, <3>2, <3>3
  <2>3. CASE BeginProgram \/ EndProgram
    BY <2>2, <2>3 DEF BeginProgram, EndProgram, ProgramOrder, StoreInv
  <2>4. Next => flash_erase_page \/ BeginProgram \/ EndProgram \/ flash' = flash
    BY DEF Next, esp8266_update_credential_list, eeprom_write, flash_unlock, flash_lock, PowerLoss
  <2> QED  BY <2>1, <2>3, <2>4
<1> QED  BY <1>1, StoreInvariant, PTL DEF Spec, ProgramsErasedFlash

-----------------------------------------------------------------------------
(* The list as a ring: the refinement mapping, for any image of it.        *)
RingOf(image) == [k \in Slots |-> EntryAt(image, (NextSlot(image) + k) % MaxCredential)]

(* Until the page is erased, the list in RAM is that in flash with one     *)
(* credential saved.                                                       *)
RingInv ==
  /\ StoreInv
  /\ pc \in {"unlock", "erase"} =>
       \E ssid \in Ssids, password \in Passwords : flash_data = Updated(flash, ssid, password)

(* The place k behind slot n of the ring.                                  *)
LEMMA RingIndex ==
  ASSUME NEW n \in Slots, NEW k \in Slots
  PROVE  /\ (n + k) % MaxCredential =
               IF n + k < MaxCredential THEN n + k ELSE n + k - MaxCredential
         /\ (n + k) % MaxCredential \in Slots
<1>1. MaxCredential \in Nat \ {0}
  BY CredentialAssumption
<1>2. ASSUME NEW x \in 0..(MaxCredential - 1) PROVE x % MaxCredential = x
  BY <1>1
<1>3. ASSUME NEW x \in MaxCredential..(2 * MaxCredential - 1)
      PROVE  x % MaxCredential = x - MaxCredential
  BY <1>1
<1>4. CASE n + k < MaxCredential
  BY <1>1, <1>2, <1>4 DEF Slots
<1>5. CASE n + k >= MaxCredential
  BY <1>1, <1>3, <1>5 DEF Slots
<1> QED  BY <1>1, <1>4, <1>5 DEF Slots

(* The places of the ring are the slots of the list, each once.            *)
LEMMA RingPlaces ==
  ASSUME NEW n \in Slots
  PROVE  /\ \A m \in Slots : \E k \in Slots : (n + k) % MaxCredential = m
         /\ \A j, k \in Slots : (n + j) % MaxCredential = (n + k) % MaxCredential => j = k
<1>1. MaxCredential \in Nat \ {0}
  BY CredentialAssumption
<1>2. ASSUME NEW m \in Slots PROVE \E k \in Slots : (n + k) % MaxCredential = m
  <2> DEFINE k == IF m >= n THEN m - n ELSE m - n + MaxCredential
  <2>1. k \in Slots
    BY <1>1 DEF Slots
  <2>2. (IF n + k < MaxCredential THEN n + k ELSE n + k - MaxCredential) = m
    BY <1>1 DEF Slots
  <2>3. (n + k) % MaxCredential = m
    BY <2>1, <2>2, RingIndex
  <2> QED  BY <2>1, <2>3
<1>3. ASSUME NEW j \in Slots, NEW k \in Slots, (n + j) % MaxCredential = (n + k) % MaxCredential
      PROVE  j = k
  <2>1. /\ (n + j) % MaxCredential = IF n + j < MaxCredential THEN n + j ELSE n + j - MaxCredential
        /\ (n + k) % MaxCredential = IF n + k < MaxCredential THEN n + k ELSE n + k - MaxCredential
    BY RingIndex
  <2> QED  BY <1>1, <1>3, <2>1 DEF Slots
<1> QED  BY <1>2, <1>3

(* Whatever flash holds, a new credential goes to a slot of the list.      *)
LEMMA NextSlotIsSlot == ASSUME NEW image PROVE NextSlot(image) \in Slots
  BY CredentialAssumption DEF NextSlot, Slots

(* Every list of the driver is a ring of credentials and holes.            *)
LEMMA RingOfType ==
  ASSUME NEW image
  PROVE  RingOf(image) \in [Ring!Places -> (Ssids \X Passwords) \cup {Hole}]
<1>1. \A i \in Slots : EntryAt(image, i) \in (Ssids \X Passwords) \cup {Hole}
  BY DEF EntryAt
<1> QED  BY <1>1, NextSlotIsSlot, RingIndex DEF RingOf, Ring!Places, Slots

(* Saving a credential in the list saves it in the ring: a known SSID gets *)
(* its password where it stands, a new one takes the place of the oldest.  *)
LEMMA SaveIsRingSave ==
  ASSUME NEW image \in Images, NoDuplicate(image), Paired(image),
         NEW ssid \in Ssids, NEW password \in Passwords
  PROVE  LET old == RingOf(image)
             new == RingOf(Updated(image, ssid, password))
             known == {i \in Slots : old[i] # Hole /\ old[i][1] = ssid}
         IN  IF known # {}
             THEN \E i \in known : new = [old EXCEPT ![i] = <<ssid, password>>]
             ELSE new = [i \in Slots |-> IF i = MaxCredential - 1 THEN <<ssid, password>>
                                         ELSE old[i + 1]]
<1> DEFINE saved == Updated(image, ssid, password)
           old == RingOf(image)
           new == RingOf(saved)
           known == {i \in Slots : old[i] # Hole /\ old[i][1] = ssid}
           n == NextSlot(image)
           Slot(k) == (n + k) % MaxCredential
<1>1. n \in Slots
  BY NextSlotIsSlot
<1>2. /\ \A k \in Slots : old[k] = EntryAt(image, Slot(k)) /\ Slot(k) \in Slots
      /\ DOMAIN old = Slots
  BY <1>1, RingIndex DEF RingOf
<1>3. <<ssid, password>> # Hole
  BY HoleAssumption
<1>4. CASE Matches(image, ssid) # {}
  <2> DEFINE m == FirstMatch(image, ssid)
  <2>1. PICK i \in Matches(image, ssid) : TRUE
    BY <1>4
  <2>2. \A j \in Matches(image, ssid) : j = i
    BY <2>1 DEF Matches, NoDuplicate
  <2>3. \A j \in Matches(image, ssid) : i <= j
    BY <2>1, <2>2, CredentialAssumption DEF Matches, Slots
  <2>4. m \in Slots /\ image[SsidCell(m)] = ssid
    BY <2>1, <2>3 DEF FirstMatch, Matches
  <2>5. saved = [image EXCEPT ![PasswordCell(m)] = password]
    BY <1>4 DEF Updated
  <2>6. NextSlot(saved) = n
    <3>1. saved[NextCell] = image[NextCell]
      BY <2>4, <2>5, CellFacts DEF Images
    <3> QED  BY <3>1 DEF NextSlot
  <2>7. \A s \in Slots : /\ saved[SsidCell(s)] = image[SsidCell(s)]
                         /\ saved[PasswordCell(s)] = IF s = m THEN password ELSE image[PasswordCell(s)]
    BY <2>4, <2>5, CellFacts DEF Images
  <2>8. \A s \in Slots : EntryAt(saved, s) = IF s = m THEN <<ssid, password>> ELSE EntryAt(image, s)
    BY <2>4, <2>7 DEF EntryAt
  <2>9. PICK k \in Slots : Slot(k) = m
    BY <1>1, <2>4, RingPlaces
  <2>10. \A j \in Slots : Slot(j) = m => j = k
    BY <1>1, <2>9, RingPlaces
  <2>11. k \in known
    <3>1. image[PasswordCell(m)] \in Passwords
      BY <2>4, CredentialAssumption DEF Paired, Strings
    <3>2. old[k] = <<ssid, image[PasswordCell(m)]>>
      BY <1>2, <2>4, <2>9, <3>1 DEF EntryAt
    <3> QED  BY <3>1, <3>2, HoleAssumption
  <2>12. new = [j \in Slots |-> EntryAt(saved, Slot(j))]
    BY <2>6 DEF RingOf
  <2>13. new = [old EXCEPT ![k] = <<ssid, password>>]
    BY <1>2, <2>8, <2>9, <2>10, <2>12
  <2> QED  BY <2>11, <2>13
<1>5. CASE Matches(image, ssid) = {}
  <2>1. saved = [image EXCEPT ![NextCell] = n + 1, ![PasswordCell(n)] = password,
                              ![SsidCell(n)] = ssid]
    BY <1>5 DEF Updated
  <2>2. \A s \in Slots : /\ saved[SsidCell(s)] = IF s = n THEN ssid ELSE image[SsidCell(s)]
                         /\ saved[PasswordCell(s)] = IF s = n THEN password ELSE image[PasswordCell(s)]
    BY <1>1, <2>1, CellFacts DEF Images
  <2>3. saved[NextCell] = n + 1
    BY <1>1, <2>1, CellFacts DEF Images
  <2>4. NextSlot(saved) = IF n + 1 < MaxCredential THEN n + 1 ELSE 0
    BY <1>1, <2>3, CredentialAssumption DEF NextSlot, Slots
  <2>5. \A s \in Slots : EntryAt(saved, s) = IF s = n THEN <<ssid, password>> ELSE EntryAt(image, s)
    BY <2>2 DEF EntryAt
  <2>6. known = {}
    BY <1>2, <1>5 DEF EntryAt, Matches
  <2>7. ASSUME NEW i \in Slots
        PROVE  new[i] = IF i = MaxCredential - 1 THEN <<ssid, password>> ELSE old[i + 1]
    <3> DEFINE next == NextSlot(saved)
               slot == (next + i) % MaxCredential
    <3>1. new[i] = EntryAt(saved, slot) /\ slot \in Slots
      BY NextSlotIsSlot, RingIndex DEF RingOf
    <3>2. slot = IF next + i < MaxCredential THEN next + i ELSE next + i - MaxCredential
      BY NextSlotIsSlot, RingIndex
    <3>3. CASE i = MaxCredential - 1
      <4>1. slot = n
        BY <1>1, <2>4, <3>2, <3>3, CredentialAssumption DEF Slots
      <4> QED  BY <1>1, <2>5, <3>1, <3>3, <4>1
    <3>4. CASE i # MaxCredential - 1
      <4>1. i + 1 \in Slots
        BY <3>4, CredentialAssumption DEF Slots
      <4>2. Slot(i + 1) = IF n + (i + 1) < MaxCredential THEN n + (i + 1)
                          ELSE n + (i + 1) - MaxCredential
        BY <1>1, <4>1, RingIndex
      <4>3. slot = Slot(i + 1) /\ slot # n
        BY <1>1, <2>4, <3>2, <3>4, <4>2, CredentialAssumption DEF Slots
      <4>4. old[i + 1] = EntryAt(image, slot)
        BY <1>2, <4>1, <4>3
      <4> QED  BY <2>5, <3>1, <3>4, <4>3, <4>4
    <3> QED  BY <3>3, <3>4
  <2>8. new = [i \in Slots |-> IF i = MaxCredential - 1 THEN <<ssid, password>> ELSE old[i + 1]]
    BY <2>7 DEF RingOf
  <2> QED  BY <2>6, <2>8
<1> QED  BY <1>4, <1>5

(* The start of a list, on a page that was being rewritten, is the ring of *)
(* that list with holes: if the index of the next slot is not there yet,   *)
(* no credential is.                                                       *)
LEMMA PrefixMakesHoles ==
  ASSUME NEW image, NEW copy, NEW n \in Nat, PrefixOf(image, copy, n)
  PROVE  \A k \in Slots : RingOf(image)[k] \in {Hole, RingOf(copy)[k]}
<1> SUFFICES ASSUME NEW k \in Slots PROVE RingOf(image)[k] \in {Hole, RingOf(copy)[k]}
  OBVIOUS
<1> DEFINE slot == (NextSlot(image) + k) % MaxCredential
<1>1. RingOf(image)[k] = EntryAt(image, slot) /\ slot \in Slots
  BY NextSlotIsSlot, RingIndex DEF RingOf
<1>2. CASE image[SsidCell(slot)] \notin Ssids
  BY <1>1, <1>2 DEF EntryAt
<1>3. CASE image[SsidCell(slot)] \in Ssids
  <2>1. /\ SsidCell(slot) \in Cells /\ PasswordCell(slot) \in Cells /\ NextCell \in Cells
        /\ PasswordCell(slot) < SsidCell(slot)
    BY <1>1, CellFacts
  <2>2. SsidCell(slot) < n /\ image[SsidCell(slot)] = copy[SsidCell(slot)]
    BY <1>3, <2>1, CredentialAssumption DEF PrefixOf, Strings
  <2>3. PasswordCell(slot) < n /\ NextCell < n
    BY <2>1, <2>2 DEF Cells, NextCell
  <2>4. image[PasswordCell(slot)] = copy[PasswordCell(slot)] /\ image[NextCell] = copy[NextCell]
    BY <2>1, <2>3 DEF PrefixOf
  <2>5. NextSlot(copy) = NextSlot(image)
    BY <2>4 DEF NextSlot
  <2>6. RingOf(copy)[k] = EntryAt(copy, slot)
    BY <2>5 DEF RingOf
  <2> QED  BY <1>1, <2>2, <2>4, <2>6 DEF EntryAt
<1> QED  BY <1>2, <1>3

(* The strengthened invariant is inductive.                                *)
LEMMA RingStepInv == ASSUME RingInv, [Next]_vars PROVE RingInv'
<1>1. StoreInv'
  BY StoreStepInv DEF RingInv
<1> DEFINE Saved == pc \in {"unlock", "erase"} =>
             \E ssid \in Ssids, password \in Passwords : flash_data = Updated(flash, ssid, password)
<1>2. ASSUME NEW ssid \in Ssids, NEW password \in Passwords,
             esp8266_update_credential_list(ssid, password)
      PROVE  Saved'
  BY <1>2 DEF esp8266_update_credential_list
<1>3. ASSUME eeprom_write \/ PowerLoss PROVE Saved'
  BY <1>3 DEF eeprom_write, flash_unlock, flash_erase_page, BeginProgram, EndProgram, flash_lock,
              PowerLoss, RingInv
<1>4. ASSUME UNCHANGED vars PROVE Saved'
  BY <1>4 DEF vars, RingInv
<1> QED  BY <1>1, <1>2, <1>3, <1>4 DEF Next, RingInv

(* While the list that counts stays the same, so does the ring.            *)
LEMMA SameCurrent == ASSUME Current' = Current PROVE UNCHANGED RingOf(Current)
  BY DEF RingOf, EntryAt, NextSlot

(* The erasure is the moment at which a credential is saved.               *)
LEMMA EraseSaves ==
  ASSUME RingInv, flash_erase_page
  PROVE  \E ssid \in Ssids, password \in Passwords : Ring!Save(ssid, password)
<1>1. pc = "erase" /\ pc' = "program" /\ flash_data' = flash_data
  BY DEF flash_erase_page
<1>2. PICK ssid \in Ssids, password \in Passwords : flash_data = Updated(flash, ssid, password)
  BY <1>1 DEF RingInv
<1>3. Current = flash /\ Current' = Updated(flash, ssid, password)
  BY <1>1, <1>2 DEF Current
<1>4. flash \in Images /\ NoDuplicate(flash) /\ Paired(flash)
  BY DEF RingInv, StoreInv, TypeOK
<1> DEFINE old == RingOf(Current)
           new == RingOf(Current')
           known == {i \in Slots : old[i] # Hole /\ old[i][1] = ssid}
<1>5. IF known # {}
      THEN \E i \in known : new = [old EXCEPT ![i] = <<ssid, password>>]
      ELSE new = [i \in Slots |-> IF i = MaxCredential - 1 THEN <<ssid, password>> ELSE old[i + 1]]
  BY <1>3, <1>4, SaveIsRingSave
<1>6. Ring!Save(ssid, password)
  BY <1>5 DEF Ring!Save, Ring!Known, Ring!Places, RingOf, Slots
<1> QED  BY <1>6

(* A power loss makes holes while the page is being rewritten, and leaves  *)
(* the ring alone otherwise.                                               *)
LEMMA PowerLossLoses ==
  ASSUME RingInv, PowerLoss
  PROVE  Ring!PowerLoss
<1>1. flash' = flash /\ pc' = "idle"
  BY DEF PowerLoss
<1>2. Current' = flash
  BY <1>1 DEF Current
<1>3. \A k \in Slots : RingOf(flash)[k] \in {Hole, RingOf(Current)[k]}
  <2>1. CASE Rewriting
    <3>1. PrefixOf(flash, flash_data, cell) /\ cell \in Nat /\ Current = flash_data
      BY <2>1 DEF RingInv, StoreInv, TypeOK, Current, Rewriting
    <3> QED  BY <3>1, PrefixMakesHoles
  <2>2. CASE ~Rewriting
    BY <2>2 DEF Current, Rewriting
  <2> QED  BY <2>1, <2>2
<1> DEFINE lost == {k \in Slots : RingOf(flash)[k] = Hole}
<1>4. RingOf(Current') = [k \in Slots |-> IF k \in lost THEN Hole ELSE RingOf(Current)[k]]
  BY <1>2, <1>3 DEF RingOf
<1>5. lost \in SUBSET Ring!Places
  BY DEF Ring!Places, Slots
<1> QED  BY <1>4, <1>5 DEF Ring!PowerLoss, Ring!Places, RingOf, Slots

(* Every step of the store is a step of the ring, or none.                 *)
LEMMA RingStep ==
  ASSUME RingInv, [Next]_vars
  PROVE  Ring!Next \/ UNCHANGED RingOf(Current)
<1>1. ASSUME NEW ssid \in Ssids, NEW password \in Passwords,
             esp8266_update_credential_list(ssid, password)
      PROVE  UNCHANGED RingOf(Current)
  <2>1. Current' = Current
    BY <1>1 DEF esp8266_update_credential_list, Current
  <2> QED  BY <2>1, SameCurrent
<1>2. CASE flash_unlock \/ BeginProgram \/ EndProgram
  <2>1. Current' = Current
    BY <1>2 DEF flash_unlock, BeginProgram, EndProgram, Current
  <2> QED  BY <2>1, SameCurrent
<1>3. CASE flash_erase_page
  BY <1>3, EraseSaves DEF Ring!Next
<1>4. CASE flash_lock
  <2>1. /\ Current = flash_data /\ Current' = flash /\ flash \in Images /\ flash_data \in Images
        /\ PrefixOf(flash, flash_data, cell) /\ cell \in 0..(2 * MaxCredential + 1) /\ cell \notin Cells
    BY <1>4 DEF flash_lock, Current, RingInv, StoreInv, TypeOK, Rewriting
  <2>2. \A c \in Cells : c < cell
    BY <2>1, CredentialAssumption DEF Cells
  <2>3. \A c \in Cells : flash[c] = flash_data[c]
    BY <2>1, <2>2 DEF PrefixOf
  <2>4. flash = flash_data
    BY <2>1, <2>3 DEF Images
  <2> QED  BY <2>1, <2>4, SameCurrent
<1>5. CASE PowerLoss
  BY <1>5, PowerLossLoses DEF Ring!Next
<1>6. CASE UNCHANGED vars
  <2>1. Current' = Current
    BY <1>6 DEF vars, Current
  <2> QED  BY <2>1, SameCurrent
<1> QED  BY <1>1, <1>2, <1>3, <1>4, <1>5, <1>6 DEF Next, eeprom_write

(* The credential store implements the ring of the most recent             *)
(* credentials for every number of slots and every set of SSIDs and        *)
(* passwords: whenever power fails in eeprom_write(), places are lost and  *)
(* none is mixed, revived or moved.                                        *)
THEOREM StoreImplementsRing == Spec => ImplementsRing
<1>1. Init => Ring!Init
  BY RingOfType DEF Ring!Init, RingOf
<1>2. Init => RingInv
  BY StoreInitInv DEF RingInv, Init
<1>3. RingInv /\ [Next]_vars => RingInv'
  BY RingStepInv
<1>4. RingInv /\ [Next]_vars => [Ring!Next]_(RingOf(Current))
  BY RingStep
<1> QED  BY <1>1, <1>2, <1>3, <1>4, PTL DEF Spec, ImplementsRing, Ring!Spec, RingOf
=============================================================================
