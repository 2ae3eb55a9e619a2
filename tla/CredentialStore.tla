-------------------------- MODULE CredentialStore --------------------------
(***************************************************************************)
(* esp8266_update_credential_list() down to the flash page: the list is    *)
(* read into RAM, changed there, and eeprom_write() erases the page and    *)
(* programs it again field by field.  Power may fail between any two       *)
(* steps.  A field takes many half-word writes, so it passes through Torn; *)
(* the erasure of the page is one operation of the flash controller and is *)
(* taken as indivisible (hardware, outside the repository).                *)
(***************************************************************************)
EXTENDS CredentialList

CONSTANT Hole   \* a slot of the list that holds no credential

ASSUME HoleAssumption == Hole \notin Ssids \X Passwords

VARIABLES
  flash,        \* the page at EEPROM_BASE_ADDR
  locked,       \* FLASH_CR_LOCK
  flash_data,   \* the copy in RAM
  pc,           \* where the running update is; "idle" when none is
  cell          \* the field being programmed

vars == <<flash, locked, flash_data, pc, cell>>

Init ==
  /\ flash = ErasedImage
  /\ locked = TRUE
  /\ flash_data = ZeroImage
  /\ pc = "idle"
  /\ cell = 0

-----------------------------------------------------------------------------
(* flash_data = READ_FLASH(flash_data_t), the search and the change in RAM *)
(* (nothing of it survives a power loss, so it is one step).               *)
esp8266_update_credential_list(ssid, password) ==
  /\ pc = "idle"
  /\ flash_data' = Updated(flash, ssid, password)
  /\ pc' = "unlock"
  /\ UNCHANGED <<flash, locked, cell>>

flash_unlock ==
  /\ pc = "unlock"
  /\ locked' = FALSE
  /\ pc' = "erase"
  /\ UNCHANGED <<flash, flash_data, cell>>

(* Mutant of flash_erase_page: the page is not erased.                     *)
flash_erase_skipped ==
  /\ pc = "erase"
  /\ pc' = "program"
  /\ cell' = 0
  /\ UNCHANGED <<flash, locked, flash_data>>

(* The controller ignores an erase request while it is locked.             *)
flash_erase_page ==
  /\ pc = "erase"
  /\ flash' = IF locked THEN flash ELSE ErasedImage
  /\ pc' = "program"
  /\ cell' = 0
  /\ UNCHANGED <<locked, flash_data>>

(* Mutant of ProgramOrder: the SSID of a slot is written before its        *)
(* password.                                                               *)
SsidFirst(c) == IF c = 0 THEN 0 ELSE IF c % 2 = 1 THEN c + 1 ELSE c - 1

(* The field written as the c-th: the loop of eeprom_write() runs upwards  *)
(* over the addresses of the structure.                                    *)
ProgramOrder(c) == c

(* Mutant of BeginProgram: the loop runs one word too far.                 *)
ProgramOneMore ==
  /\ pc = "program"
  /\ cell <= 2 * MaxCredential + 1
  /\ flash' = [flash EXCEPT ![ProgramOrder(cell)] = Torn]
  /\ pc' = "programming"
  /\ UNCHANGED <<locked, flash_data, cell>>

(* The first half-words of a field are written ...                         *)
BeginProgram ==
  /\ pc = "program"
  /\ cell \in Cells
  /\ flash' = [flash EXCEPT ![ProgramOrder(cell)] = Begun(flash_data[ProgramOrder(cell)])]
  /\ pc' = "programming"
  /\ UNCHANGED <<locked, flash_data, cell>>

(* ... and the last ones.                                                  *)
EndProgram ==
  /\ pc = "programming"
  /\ flash' = [flash EXCEPT ![ProgramOrder(cell)] = flash_data[ProgramOrder(cell)]]
  /\ cell' = cell + 1
  /\ pc' = "program"
  /\ UNCHANGED <<locked, flash_data>>

flash_lock ==
  /\ pc = "program"
  /\ cell \notin Cells
  /\ locked' = TRUE
  /\ pc' = "idle"
  /\ UNCHANGED <<flash, flash_data, cell>>

(* eeprom_write(&flash_data, sizeof(flash_data_t))                         *)
eeprom_write == flash_unlock \/ flash_erase_page \/ BeginProgram \/ EndProgram \/ flash_lock

(* Power fails and comes back: flash stays as it is, RAM and the           *)
(* controller start anew.                                                  *)
PowerLoss ==
  /\ locked' = TRUE
  /\ flash_data' = ZeroImage
  /\ pc' = "idle"
  /\ cell' = 0
  /\ UNCHANGED flash

Next ==
  \/ \E ssid \in Ssids, password \in Passwords : esp8266_update_credential_list(ssid, password)
  \/ eeprom_write
  \/ PowerLoss

Spec == Init /\ [][Next]_vars

-----------------------------------------------------------------------------
(* Type correctness of the flash page, its copy in RAM and the update.     *)
TypeOK ==
  /\ flash \in Images
  /\ locked \in BOOLEAN
  /\ flash_data \in Images
  /\ pc \in {"idle", "unlock", "erase", "program", "programming"}
  /\ cell \in 0..(2 * MaxCredential + 1)

(* At no time, in the middle of a rewrite or after a power loss included,  *)
(* does the page hold one SSID in two slots: a scan that finds it has one  *)
(* password to use.                                                        *)
NoDuplicateSsid == NoDuplicate(flash)

(* At no time does the page hold an SSID, or a part of one, without its    *)
(* whole password: the fields are programmed in the order of flash_data_t, *)
(* the password of a slot before its SSID, so a slot cut short by a power  *)
(* loss never matches.                                                     *)
NoSsidWithoutPassword == Paired(flash)

(* Flash discipline (libopencm3, flash.c: "A page must first be fully      *)
(* erased before attempting to program it"): a field changes only from     *)
(* erased to programmed, except when the whole page is erased, and only    *)
(* while the controller is unlocked.                                       *)
ProgramsErasedFlash ==
  [][ /\ ~locked
      /\ \/ flash' = ErasedImage
         \/ \A c \in Cells : flash'[c] # flash[c] => flash[c] \in {Erased, Torn} ]_flash

(* The list the driver goes by once the page has been erased is the one in *)
(* RAM, as long as power holds; before that it is the one in flash.        *)
Current == IF pc \in {"program", "programming"} THEN flash_data ELSE flash

EntryAt(image, i) ==
  IF image[SsidCell(i)] \in Ssids /\ image[PasswordCell(i)] \in Passwords
  THEN <<image[SsidCell(i)], image[PasswordCell(i)]>> ELSE Hole

Ring == INSTANCE CredentialRing WITH
  Size <- MaxCredential,
  ring <- [k \in Slots |-> EntryAt(Current, (NextSlot(Current) + k) % MaxCredential)]

(* The store implements the ring of recent credentials: the write pointer  *)
(* evicts the oldest entry, a password change keeps its place, and a power *)
(* loss at any point of the rewrite only makes holes.                      *)
ImplementsRing == Ring!Spec
=============================================================================
