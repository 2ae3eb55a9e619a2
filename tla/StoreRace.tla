----------------------------- MODULE StoreRace -----------------------------
(***************************************************************************)
(* esp8266_update_credential_list() called by the application, while the   *)
(* same function runs in the interrupt: handle_connect_line() calls it on  *)
(* every OK it takes for the answer to AT+CWJAP.  Both work on the one     *)
(* flash_data and on the one flash controller.  The interrupt runs as a    *)
(* whole between two steps of thread mode, in the middle of the copying of *)
(* a string too, and always saves the empty strings: nothing ever writes   *)
(* g_ssid and g_password.                                                  *)
(*                                                                         *)
(* The flash controller is hardware: locked, it ignores erasing and        *)
(* programming, and it does not program what is not erased.                *)
(***************************************************************************)
EXTENDS CredentialList

CONSTANTS
  StoredImages,    \* what flash may hold from earlier sessions
  MaxCalls,        \* bound: calls by the application
  MaxInterrupts    \* bound: calls in the interrupt

(* No SSID with a name is in two slots.                                    *)
NamedOnce(image) ==
  \A i, j \in Slots :
    image[SsidCell(i)] \in Ssids \ {Empty} /\ image[SsidCell(i)] = image[SsidCell(j)] => i = j

(* Nothing but this function writes the page, and it leaves lists of this  *)
(* kind however it is cut short (CredentialStoreProofs).                   *)
ASSUME StoredAssumption ==
  \A image \in StoredImages : image \in Images /\ NamedOnce(image) /\ Paired(image)

VARIABLES
  flash, locked,
  flash_data,       \* the one copy in RAM
  pc,               \* where the update in thread mode is
  at,               \* what it holds in a register: a field, a slot or next_update
  ssid, password,   \* its arguments
  cut,              \* the interrupt has come since it began to copy a string
  spliced,          \* history: such a copy has changed an SSID of the new list
  calls, interrupts

vars == <<flash, locked, flash_data, pc, at, ssid, password, cut, spliced, calls, interrupts>>

Init ==
  /\ flash \in StoredImages /\ locked = TRUE
  /\ flash_data = ZeroImage
  /\ pc = "idle" /\ at = 0 /\ ssid = Empty /\ password = Empty
  /\ cut = FALSE /\ spliced = FALSE
  /\ calls = 0 /\ interrupts = 0

-----------------------------------------------------------------------------
esp8266_update_credential_list(s, p) ==
  /\ pc = "idle" /\ calls < MaxCalls
  /\ calls' = calls + 1
  /\ ssid' = s /\ password' = p
  /\ pc' = "read" /\ at' = 0
  /\ UNCHANGED <<flash, locked, flash_data, cut, spliced, interrupts>>

Goto(label) == pc' = label /\ UNCHANGED <<flash, locked, ssid, password, calls, interrupts>>
Uncopied    == UNCHANGED <<cut, spliced>>

(* flash_data = READ_FLASH(flash_data_t), field by field.                  *)
READ_FLASH ==
  /\ pc = "read"
  /\ flash_data' = [flash_data EXCEPT ![at] = flash[at]]
  /\ IF at + 1 \in Cells THEN at' = at + 1 /\ Goto("read") ELSE at' = 0 /\ Goto("search")
  /\ Uncopied

(* Mutant of Search: the last slot is not searched.                        *)
SearchOneLess ==
  /\ pc = "search"
  /\ \/ at + 1 \in Slots /\ flash_data[SsidCell(at)] = ssid /\ at' = at /\ Goto("known")
     \/ at + 1 \in Slots /\ flash_data[SsidCell(at)] # ssid /\ at' = at + 1 /\ Goto("search")
     \/ at + 1 \notin Slots /\ at' = at /\ Goto("clamp")
  /\ UNCHANGED flash_data /\ Uncopied

(* One turn of the search loop.                                            *)
Search ==
  /\ pc = "search"
  /\ \/ at \in Slots /\ flash_data[SsidCell(at)] = ssid /\ at' = at /\ Goto("known")
     \/ at \in Slots /\ flash_data[SsidCell(at)] # ssid /\ at' = at + 1 /\ Goto("search")
     \/ at \notin Slots /\ at' = at /\ Goto("clamp")
  /\ UNCHANGED flash_data /\ Uncopied

(* A field in which the start of a string is not the copied one: what the  *)
(* interrupt has put there, up to some byte after the first, and then the  *)
(* rest of the copied string.  "" stays "", and what begins with an erased *)
(* byte goes on to do so; otherwise the bytes may spell any other string.  *)
Spliced(left, strings) ==
  CASE left \in {Empty, Erased} -> {left}
    [] left = Torn             -> (strings \ {Empty}) \cup {Torn}
    [] OTHER                   -> strings \ {Empty}

(* snprintf() into a field of slot n: the first bytes are written ...      *)
BeginCopy(n, field, label) ==
  /\ flash_data' = IF n \in Slots THEN [flash_data EXCEPT ![field] = Torn] ELSE flash_data
  /\ at' = n /\ cut' = FALSE /\ Goto(label)
  /\ UNCHANGED spliced

(* ... and the last ones, at the address computed for the first.  Past the *)
(* list the bytes go to other memory, which is not modelled.               *)
EndCopy(field, string, strings, label) ==
  /\ \/ at \notin Slots /\ UNCHANGED flash_data
     \/ /\ at \in Slots
        /\ \E s \in IF cut THEN Spliced(flash_data[field], strings) ELSE {string} :
             flash_data' = [flash_data EXCEPT ![field] = s]
  /\ at' = at /\ cut' = FALSE /\ Goto(label)

SetPassword ==
  \/ pc = "known" /\ BeginCopy(at, PasswordCell(at), "setting")
  \/ pc = "setting" /\ EndCopy(PasswordCell(at), password, Passwords, "unlock") /\ UNCHANGED spliced

(* if (flash_data.next_update >= MAX_CREDENTIAL) flash_data.next_update = 0 *)
Clamp ==
  /\ \/ pc = "clamp" /\ flash_data[NextCell] \in Slots /\ UNCHANGED flash_data /\ Goto("ssid")
     \/ pc = "clamp" /\ flash_data[NextCell] \notin Slots /\ UNCHANGED flash_data /\ Goto("zero")
     \/ pc = "zero" /\ flash_data' = [flash_data EXCEPT ![NextCell] = 0] /\ Goto("ssid")
  /\ at' = at /\ Uncopied

(* flash_data.next_update is read again for each of the two snprintf().    *)
WriteSsid ==
  \/ pc = "ssid" /\ BeginCopy(flash_data[NextCell], SsidCell(flash_data[NextCell]), "naming")
  \/ /\ pc = "naming" /\ EndCopy(SsidCell(at), ssid, Ssids, "password")
     /\ spliced' = (spliced \/ (cut /\ flash_data' # flash_data))

WritePassword ==
  \/ pc = "password" /\ BeginCopy(flash_data[NextCell], PasswordCell(flash_data[NextCell]), "finishing")
  \/ pc = "finishing" /\ EndCopy(PasswordCell(at), password, Passwords, "load") /\ UNCHANGED spliced

(* flash_data.next_update++                                                *)
Advance ==
  /\ \/ pc = "load" /\ at' = flash_data[NextCell] /\ UNCHANGED flash_data /\ Goto("store")
     \/ pc = "store" /\ flash_data' = [flash_data EXCEPT ![NextCell] = Advanced(at)] /\ at' = at
        /\ Goto("unlock")
  /\ Uncopied

(* eeprom_write() in thread mode.                                          *)
flash_unlock ==
  /\ pc = "unlock"
  /\ locked' = FALSE /\ pc' = "erase"
  /\ UNCHANGED <<flash, flash_data, at, ssid, password, cut, spliced, calls, interrupts>>

flash_erase_page ==
  /\ pc = "erase"
  /\ flash' = IF locked THEN flash ELSE ErasedImage
  /\ pc' = "program" /\ at' = 0
  /\ UNCHANGED <<locked, flash_data, ssid, password, cut, spliced, calls, interrupts>>

(* Mutant of flash_program_word: it goes on although the interrupt has     *)
(* rewritten the page.                                                     *)
program_unlocked ==
  /\ pc \in {"program", "programming"} /\ at \in Cells
  /\ flash' = [flash EXCEPT ![at] = IF pc = "program" THEN Begun(flash_data[at]) ELSE flash_data[at]]
  /\ IF pc = "program" THEN pc' = "programming" /\ at' = at ELSE pc' = "program" /\ at' = at + 1
  /\ UNCHANGED <<locked, flash_data, ssid, password, cut, spliced, calls, interrupts>>

(* A field is programmed with several half-words, hence in two steps.      *)
flash_program_word ==
  /\ pc \in {"program", "programming"} /\ at \in Cells
  /\ flash' = IF locked \/ flash[at] \notin {Erased, Torn} THEN flash
              ELSE [flash EXCEPT ![at] = IF pc = "program" THEN Begun(flash_data[at]) ELSE flash_data[at]]
  /\ IF pc = "program" THEN pc' = "programming" /\ at' = at ELSE pc' = "program" /\ at' = at + 1
  /\ UNCHANGED <<locked, flash_data, ssid, password, cut, spliced, calls, interrupts>>

flash_lock ==
  /\ pc = "program" /\ at \notin Cells
  /\ locked' = TRUE /\ pc' = "idle"
  /\ UNCHANGED <<flash, flash_data, at, ssid, password, cut, spliced, calls, interrupts>>

eeprom_write == flash_unlock \/ flash_erase_page \/ flash_program_word \/ flash_lock

(* The interrupt: the whole function, and eeprom_write() in it.            *)
handle_connect_line ==
  /\ interrupts < MaxInterrupts
  /\ interrupts' = interrupts + 1
  /\ flash_data' = Updated(flash, Empty, Empty)
  /\ flash' = flash_data' /\ locked' = TRUE
  /\ cut' = (pc \in {"setting", "naming", "finishing"})
  /\ UNCHANGED <<pc, at, ssid, password, spliced, calls>>

Next ==
  \/ \E s \in Ssids, p \in Passwords : esp8266_update_credential_list(s, p)
  \/ READ_FLASH \/ Search \/ SetPassword \/ Clamp \/ WriteSsid \/ WritePassword \/ Advance
  \/ eeprom_write
  \/ handle_connect_line

Spec == Init /\ [][Next]_vars

-----------------------------------------------------------------------------
(* Whatever the interrupt does to flash_data and to the flash controller   *)
(* in the middle of an update, the page never holds an SSID without a      *)
(* whole password: what the interrupted call still programs is ignored,    *)
(* because the interrupt has locked the controller.                        *)
PasswordWithSsid == Paired(flash)

(* Nor does it hold one named SSID in two slots: the interrupt replaces    *)
(* the list that was searched, but by one that has none of the SSIDs       *)
(* searched for in addition.  Two cases are excepted.  The empty SSID,     *)
(* which the interrupt itself saves, may get a second slot when the        *)
(* application saves it too.  And an interrupt in the middle of the        *)
(* copying of an SSID leaves the start of the SSID of another list and the *)
(* end of the copied one, which may spell an SSID that is saved already.   *)
OneSlotPerSsid == spliced \/ NamedOnce(flash)
=============================================================================
