--------------------------- MODULE AtDriverProofs ---------------------------
(***************************************************************************)
(* The safety properties of AtDriver, for every list of credentials, every *)
(* pair the application saves and every bound on the wires.                *)
(* NoOrphanPending is inductive once the types are known: each line that   *)
(* could leave nothing behind it is terminal and clears the pending        *)
(* command, an automatic join, during which lines are lost, puts a command *)
(* on the wire itself, and the other losses are noted.  ScanSearchesFlash  *)
(* also needs the state between the reading of the list and the setting of *)
(* the pending command, and that after the interrupt has saved in the      *)
(* middle of the application's rewrite of the page.                        *)
(***************************************************************************)
EXTENDS AtDriver, SequenceTheorems, WellFoundedInduction, TLAPS

LoadedIsFlash ==
  (esp8266_pending_cmd = "SCAN_WIFI" \/ main \in {"loaded", "shut"}) /\ main \notin Updating =>
    flash_data = flash

DriverInv == DriverTypeOK /\ NoOrphanPending /\ LoadedIsFlash

Items == Line \cup {IPD}

(* What is left of a lost item is a line.                                  *)
LEMMA RestIsLine ==
  ASSUME NEW item, NEW r \in Rest(item)
  PROVE  r \in Items
  BY DEF Rest, Items, Line

(* Lines that are lost leave lines.                                        *)
LEMMA LosingLines ==
  ASSUME NEW queue \in Seq(Items), Losing(queue)
  PROVE  lines' \in Seq(Items)
<1>1. PICK k \in 0..Len(queue) :
        \/ lines' = SubSeq(queue, k + 1, Len(queue))
        \/ k > 0 /\ \E r \in Rest(queue[k]) : lines' = <<r>> \o SubSeq(queue, k + 1, Len(queue))
  BY DEF Losing
<1>2. SubSeq(queue, k + 1, Len(queue)) \in Seq(Items)
  OBVIOUS
<1>3. ASSUME NEW r \in Rest(queue[k]), lines' = <<r>> \o SubSeq(queue, k + 1, Len(queue))
      PROVE  lines' \in Seq(Items)
  <2>1. <<r>> \in Seq(Items)
    BY <1>3, RestIsLine
  <2> QED  BY <1>2, <1>3, <2>1
<1> QED  BY <1>1, <1>2, <1>3

(* The fields of a slot.                                                   *)
LEMMA SlotCells ==
  ASSUME NEW i \in Slots
  PROVE  SsidCell(i) \in Cells /\ PasswordCell(i) \in Cells
  BY CredentialAssumption DEF Slots, Cells, SsidCell, PasswordCell

(* A set of numbers has a least one.                                       *)
LEMMA LeastNumber ==
  ASSUME NEW S \in SUBSET Nat, S # {}
  PROVE  \E i \in S : \A j \in S : i <= j
<1> DEFINE R == OpToRel(<, Nat)
<1>1. IsWellFoundedOn(R, Nat)
  BY NatLessThanWellFounded
<1>2. \A x, y \in Nat : x < y => <<x, y>> \in R
  BY DEF OpToRel
<1>3. PICK i \in S : \A j \in S : ~(<<j, i>> \in R)
  <2> HIDE DEF R
  <2> QED  BY <1>1, WFMin
<1> HIDE DEF R
<1>4. \A j \in S : ~(j < i)
  BY <1>2, <1>3, Zenon
<1> QED  BY <1>4

(* A search that finds an SSID finds a slot.                               *)
LEMMA FirstMatchIsSlot ==
  ASSUME NEW image, NEW ssid, Matches(image, ssid) # {}
  PROVE  FirstMatch(image, ssid) \in Slots
<1>1. Matches(image, ssid) \in SUBSET Nat
  BY CredentialAssumption DEF Matches, Slots
<1>2. \E i \in Matches(image, ssid) : \A j \in Matches(image, ssid) : i <= j
  BY <1>1, LeastNumber
<1> QED  BY <1>2 DEF FirstMatch, Matches

(* Updating an image gives an image.                                       *)
LEMMA UpdatedImage ==
  ASSUME NEW image \in Images, NEW ssid \in Ssids, NEW password \in Passwords
  PROVE  Updated(image, ssid, password) \in Images
<1>1. ssid \in CellValue /\ password \in CellValue
  BY DEF CellValue, Strings
<1>2. NextSlot(image) + 1 \in CellValue
  BY CredentialAssumption DEF NextSlot, Slots, CellValue
<1> QED  BY <1>1, <1>2 DEF Updated, Images

(* The list in RAM before it is read, and an erased page.                  *)
LEMMA ConstantImages == ZeroImage \in Images /\ ErasedImage \in Images
  BY CredentialAssumption DEF ZeroImage, ErasedImage, Images, CellValue, Strings

(* No update is under way.                                                 *)
LEMMA NoSaving == <<Empty, Empty, 0>> \in Ssids \X Passwords \X Slots
  BY CredentialAssumption DEF Slots

(* Nothing is pending at power-on.                                         *)
LEMMA DriverInitInv == Init => DriverInv
<1> SUFFICES ASSUME Init PROVE DriverInv
  OBVIOUS
<1>1. split \in BOOLEAN /\ http_request_handler \in BOOLEAN /\ missed \in BOOLEAN
  BY Zenon DEF Init
<1>2. flash_data \in Images /\ flash \in Images
  BY ConstantImages, DriverAssumption DEF Init
<1>3. cmdq \in Seq(Commands) /\ lines \in Seq(Line \cup {IPD})
  BY DEF Init
<1>4. saving \in Ssids \X Passwords \X Slots
  BY NoSaving DEF Init
<1>5. DriverTypeOK
  BY <1>1, <1>2, <1>3, <1>4, DriverAssumption DEF Init, DriverTypeOK, Pending, Sent, Texts
<1> QED  BY <1>5 DEF Init, DriverInv, NoOrphanPending, LoadedIsFlash

(* A call of the application that is about to send.                        *)
LEMMA ArmInv ==
  ASSUME DriverInv, NEW p \in Pending, NEW text \in Sent,
         esp8266_pending_cmd' = p, call' = text, main' = "armed",
         p = "SCAN_WIFI" => flash_data = flash,
         missed' \in BOOLEAN,
         UNCHANGED <<flash_data, http_request_handler, saving, flash, split, moduleVars>>
  PROVE  DriverInv'
<1>1. DriverTypeOK'
  BY DEF DriverInv, DriverTypeOK, moduleVars
<1>2. NoOrphanPending' /\ LoadedIsFlash'
  BY DEF NoOrphanPending, LoadedIsFlash
<1> QED  BY <1>1, <1>2 DEF DriverInv

(* A step of the application that changes neither the pending command nor  *)
(* the wires.                                                              *)
LEMMA QuietInv ==
  ASSUME DriverInv, main \notin {"armed", "sending"},
         flash_data' \in Images, flash' \in Images,
         http_request_handler' \in BOOLEAN,
         main' \in {"idle", "loaded"} \cup Updating,
         saving' \in Ssids \X Passwords \X Slots,
         main' \in Updating \/ flash_data' = flash'
           \/ (UNCHANGED <<flash_data, flash, main>> /\ main = "idle"),
         UNCHANGED <<esp8266_pending_cmd, call, split, moduleVars, missed>>
  PROVE  DriverInv'
<1>1. DriverTypeOK'
  BY DEF DriverInv, DriverTypeOK, moduleVars
<1>2. NoOrphanPending'
  BY DEF DriverInv, NoOrphanPending, TerminalInFlight, moduleVars
<1>3. LoadedIsFlash'
  BY DEF DriverInv, LoadedIsFlash
<1> QED  BY <1>1, <1>2, <1>3 DEF DriverInv

(* The first step of an update by the application.                         *)
LEMMA UpdateCallInv ==
  ASSUME DriverInv, NEW s \in Ssids, NEW p \in Passwords, esp8266_update_credential_list(s, p)
  PROVE  DriverInv'
<1> USE DEF esp8266_update_credential_list
<1>1. flash \in Images /\ http_request_handler \in BOOLEAN /\ 0 \in Slots /\ NextSlot(flash) \in CellValue
  BY CredentialAssumption DEF DriverInv, DriverTypeOK, Slots, NextSlot, CellValue
<1>2. flash_data' \in Images
  BY <1>1 DEF Images
<1>3. saving' \in Ssids \X Passwords \X Slots
  BY <1>1, FirstMatchIsSlot
<1>4. http_request_handler' \in BOOLEAN /\ main' \in Updating
  BY <1>1 DEF Updating
<1> QED  BY <1>1, <1>2, <1>3, <1>4, QuietInv

(* The first step of a call keeps the invariant.                           *)
LEMMA CallInv == ASSUME DriverInv, Call PROVE DriverInv'
<1>0. FALSE \in BOOLEAN /\ missed \in BOOLEAN /\ http_request_handler \in BOOLEAN
      /\ flash \in Images /\ flash_data \in Images /\ saving \in Ssids \X Passwords \X Slots
  BY DEF DriverInv, DriverTypeOK
<1>1. ASSUME NEW p \in Pending \ {"SCAN_WIFI"}, NEW text \in Sent, Arm(p, text) PROVE DriverInv'
  <2>1. missed' \in BOOLEAN
    BY <1>0, <1>1 DEF Arm
  <2> QED  BY <1>1, <2>1, ArmInv DEF Arm
<1>2. CASE SendUntracked
  <2>1. esp8266_pending_cmd \in Pending /\ "plain" \in Sent
    BY DEF DriverInv, DriverTypeOK, Sent
  <2>2. missed' \in BOOLEAN
    BY <1>0, <1>2 DEF SendUntracked
  <2>3. esp8266_pending_cmd = "SCAN_WIFI" => flash_data = flash
    BY <1>2 DEF SendUntracked, DriverInv, LoadedIsFlash, Updating
  <2> QED  BY <1>2, <2>1, <2>2, <2>3, ArmInv DEF SendUntracked
<1>3. CASE ScanLoad
  <2>1. http_request_handler' \in BOOLEAN
    BY <1>0, <1>3 DEF ScanLoad
  <2> QED  BY <1>0, <1>3, <2>1, QuietInv DEF ScanLoad
<1>4. ASSUME NEW registered \in BOOLEAN, esp8266_set_http_request_handler(registered) PROVE DriverInv'
  <2>1. http_request_handler' \in BOOLEAN
    BY <1>4 DEF esp8266_set_http_request_handler
  <2> QED  BY <1>0, <1>4, <2>1, QuietInv DEF esp8266_set_http_request_handler, callVars
<1>5. ASSUME NEW c \in Credentials, esp8266_update_credential_list(c[1], c[2]) PROVE DriverInv'
  <2>1. c[1] \in Ssids /\ c[2] \in Passwords
    BY DriverAssumption
  <2> QED  BY <1>5, <2>1, UpdateCallInv
<1>6. /\ "plain" \in Sent /\ "join" \in Sent
      /\ {"CHECK", "SET_MODE", "CONNECT", "DISCONNECT", "RESET", "GET_IP", "GET_CONNECTION_STATUS"}
           \subseteq Pending \ {"SCAN_WIFI"}
  BY DEF Sent, Pending, SimpleAck, ConnectAck
<1>7. \/ SendUntracked \/ ScanLoad
      \/ \E p \in Pending \ {"SCAN_WIFI"}, text \in Sent : Arm(p, text)
      \/ \E registered \in BOOLEAN : esp8266_set_http_request_handler(registered)
      \/ \E c \in Credentials : esp8266_update_credential_list(c[1], c[2])
  BY <1>6 DEF Call, esp8266_check, esp8266_connect, esp8266_disconnect, esp8266_reset,
              esp8266_get_ip, esp8266_get_connection_status, esp8266_set_mode,
              esp8266_tcp_connect, esp8266_tcp_send, esp8266_tcp_close,
              esp8266_server_start, esp8266_server_stop, esp8266_set_ap_config
<1> QED  BY <1>1, <1>2, <1>3, <1>4, <1>5, <1>7

(* Lines that are lost and noted leave a terminal line, or the note.       *)
LEMMA NoteMissedFacts ==
  ASSUME missed \in BOOLEAN, NoteMissed
  PROVE  /\ missed' \in BOOLEAN
         /\ esp8266_pending_cmd # "NONE" /\ (TerminalInFlight \/ missed) => TerminalInFlight' \/ missed'
  BY Zenon DEF NoteMissed

(* The steps of an update by the application keep the invariant.           *)
LEMMA UpdateInv == ASSUME DriverInv, Update PROVE DriverInv'
<1>0. /\ missed \in BOOLEAN /\ http_request_handler \in BOOLEAN
      /\ flash \in Images /\ flash_data \in Images /\ saving \in Ssids \X Passwords \X Slots
  BY DEF DriverInv, DriverTypeOK
<1>1. ASSUME NEW label \in {"known", "naming", "password"}, NEW image \in Images,
             NEW next \in {"password", "saving"}, Change(label, image, next)
      PROVE  DriverInv'
  <2>1. http_request_handler' \in BOOLEAN
    BY <1>0, <1>1 DEF Change
  <2> QED  BY <1>0, <1>1, <2>1, QuietInv DEF Change, Updating
<1>2. saving[1] \in CellValue /\ saving[2] \in CellValue
  BY <1>0 DEF CellValue, Strings
<1>3. CASE SetPassword
  <2>1. [flash_data EXCEPT ![PasswordCell(saving[3])] = saving[2]] \in Images
    BY <1>0, <1>2 DEF Images
  <2> QED  BY <1>1, <1>3, <2>1 DEF SetPassword
<1>4. CASE WriteSsid
  <2> DEFINE n == flash_data[NextCell]
             image == IF n \in Slots THEN [flash_data EXCEPT ![SsidCell(n)] = saving[1]] ELSE flash_data
  <2>1. image \in Images
    BY <1>0, <1>2 DEF Images
  <2>2. Change("naming", image, "password")
    BY <1>4 DEF WriteSsid
  <2> QED  BY <1>1, <2>1, <2>2
<1>5. CASE WritePassword
  <2> DEFINE n == flash_data[NextCell]
             list == IF n \in Slots THEN [flash_data EXCEPT ![PasswordCell(n)] = saving[2]] ELSE flash_data
  <2>1. list \in Images
    BY <1>0, <1>2 DEF Images
  <2>2. n \in CellValue
    BY <1>0, CredentialAssumption DEF Images, Cells, NextCell
  <2>3. Advanced(n) \in CellValue
    BY <2>2, CredentialAssumption DEF Advanced, Slots, CellValue
  <2>4. [list EXCEPT ![NextCell] = Advanced(n)] \in Images
    BY <2>1, <2>3 DEF Images
  <2>5. Change("password", [list EXCEPT ![NextCell] = Advanced(n)], "saving")
    BY <1>5 DEF WritePassword
  <2> QED  BY <1>1, <2>4, <2>5
<1>6. CASE BeginSave
  <2>1. lines' \in Seq(Line \cup {IPD})
    BY <1>6, LosingLines DEF BeginSave, DriverInv, DriverTypeOK, Items
  <2>2. missed' \in BOOLEAN
        /\ (esp8266_pending_cmd # "NONE" /\ (TerminalInFlight \/ missed) => TerminalInFlight' \/ missed')
    BY <1>0, <1>6, NoteMissedFacts DEF BeginSave
  <2>3. DriverTypeOK'
    BY <1>6, <2>1, <2>2, ConstantImages DEF BeginSave, DriverInv, DriverTypeOK, Updating
  <2>4. NoOrphanPending'
    BY <1>6, <2>2 DEF BeginSave, DriverInv, NoOrphanPending
  <2>5. LoadedIsFlash'
    BY <1>6 DEF BeginSave, LoadedIsFlash, Updating
  <2> QED  BY <2>3, <2>4, <2>5 DEF DriverInv
<1>7. CASE FinishSave
  <2>1. http_request_handler' \in BOOLEAN
    BY <1>0, <1>7 DEF FinishSave
  <2>2. flash_data' = flash' /\ flash' \in Images /\ flash_data' \in Images
    BY <1>0, <1>7 DEF FinishSave, DriverInv, LoadedIsFlash, Updating
  <2> QED  BY <1>7, <2>1, <2>2, NoSaving, QuietInv DEF FinishSave
<1> QED  BY <1>3, <1>4, <1>5, <1>6, <1>7 DEF Update

(* The steps that follow in a call keep the invariant.                     *)
LEMMA ContinueInv == ASSUME DriverInv, Continue PROVE DriverInv'
<1>0. FALSE \in BOOLEAN /\ missed \in BOOLEAN
  BY DEF DriverInv, DriverTypeOK
<1>1. CASE esp8266_setup
  <2>1. esp8266_pending_cmd \in Pending /\ "plain" \in Sent
    BY DEF DriverInv, DriverTypeOK, Sent
  <2>2. missed' \in BOOLEAN
    BY <1>0, <1>1 DEF esp8266_setup
  <2>3. esp8266_pending_cmd = "SCAN_WIFI" => flash_data = flash
    BY <1>1 DEF esp8266_setup, DriverInv, LoadedIsFlash, Updating
  <2> QED  BY <1>1, <2>1, <2>2, <2>3, ArmInv DEF esp8266_setup
<1>2. CASE ScanArm
  <2>1. "SCAN_WIFI" \in Pending /\ "scan" \in Sent
    BY DEF Pending, Sent
  <2>2. missed' \in BOOLEAN
    BY <1>0, <1>2 DEF ScanArm
  <2>3. flash_data = flash
    BY <1>2 DEF ScanArm, DriverInv, LoadedIsFlash, Updating
  <2> QED  BY <1>2, <2>1, <2>2, <2>3, ArmInv DEF ScanArm
<1>3. CASE BeginSend
  <2>1. DriverTypeOK'
    BY <1>3 DEF BeginSend, DriverInv, DriverTypeOK, moduleVars
  <2>2. NoOrphanPending' /\ LoadedIsFlash'
    BY <1>3 DEF BeginSend, DriverInv, NoOrphanPending, LoadedIsFlash, Updating
  <2> QED  BY <2>1, <2>2 DEF DriverInv
<1>4. CASE FinishSend
  <2> DEFINE c == Command(IF split THEN "garbled" ELSE call)
  <2>1. c \in Commands /\ cmdq \in Seq(Commands) /\ cmdq' = Append(cmdq, c)
    BY <1>4 DEF FinishSend, DriverInv, DriverTypeOK, Command, Commands, Texts, Sent
  <2>2. cmdq' \in Seq(Commands) /\ cmdq' # <<>>
    BY <2>1
  <2>3. split' \in BOOLEAN
    BY <1>4, Zenon DEF FinishSend
  <2>4. DriverTypeOK'
    BY <1>4, <2>2, <2>3 DEF FinishSend, DriverInv, DriverTypeOK, Sent
  <2>5. NoOrphanPending' /\ LoadedIsFlash'
    BY <1>4, <2>2 DEF FinishSend, DriverInv, NoOrphanPending, LoadedIsFlash, Updating
  <2> QED  BY <2>4, <2>5 DEF DriverInv
<1> QED  BY <1>1, <1>2, <1>3, <1>4, UpdateInv DEF Continue

(* Handling an item that is not terminal leaves the terminal lines that    *)
(* follow it.                                                              *)
LEMMA TailKeepsTerminal ==
  ASSUME lines \in Seq(Items), lines # <<>>, lines' = Tail(lines),
         ~is_terminal_line(Head(lines)), TerminalInFlight
  PROVE  TerminalInFlight'
<1>1. PICK i \in 1..Len(lines) : lines[i] \in {OK, ErrorLine}
  BY DEF TerminalInFlight
<1>2. i # 1
  BY <1>1 DEF is_terminal_line
<1>3. i - 1 \in 1..Len(lines') /\ lines'[i - 1] = lines[i]
  BY <1>1, <1>2
<1> QED  BY <1>1, <1>3 DEF TerminalInFlight

(* The handling of an item that only clears the pending command when it is *)
(* terminal.                                                               *)
LEMMA AckInv ==
  ASSUME DriverInv, lines # <<>>,
         esp8266_pending_cmd' = IF is_terminal_line(Head(lines)) THEN "NONE" ELSE esp8266_pending_cmd,
         missed' \in BOOLEAN, ~is_terminal_line(Head(lines)) => missed' = missed,
         lines' = Tail(lines),
         UNCHANGED <<flash_data, http_request_handler, callVars, flash, split, cmdq, serving, info>>
  PROVE  DriverInv'
<1> USE DEF callVars
<1>1. lines \in Seq(Items) /\ lines' \in Seq(Line \cup {IPD})
  BY DEF DriverInv, DriverTypeOK, Items
<1>2. DriverTypeOK'
  BY <1>1 DEF DriverInv, DriverTypeOK, Pending
<1>3. CASE is_terminal_line(Head(lines))
  BY <1>2, <1>3 DEF DriverInv, NoOrphanPending, LoadedIsFlash
<1>4. CASE ~is_terminal_line(Head(lines))
  <2>1. NoOrphanPending'
    BY <1>1, <1>4, TailKeepsTerminal DEF DriverInv, NoOrphanPending
  <2>2. LoadedIsFlash'
    BY <1>4 DEF DriverInv, LoadedIsFlash
  <2> QED  BY <1>2, <2>1, <2>2 DEF DriverInv
<1> QED  BY <1>3, <1>4

(* The same, for a line that one of the handlers has given up.             *)
LEMMA ClearInv ==
  ASSUME DriverInv, lines # <<>>, ClearIfTerminal(Head(lines))
  PROVE  DriverInv'
<1>1. missed \in BOOLEAN
  BY DEF DriverInv, DriverTypeOK
<1>2. missed' \in BOOLEAN /\ (~is_terminal_line(Head(lines)) => missed' = missed)
  BY <1>1, Zenon DEF ClearIfTerminal
<1> QED  BY <1>2, AckInv DEF ClearIfTerminal

(* An automatic join keeps the invariant: whatever it makes the receiver   *)
(* lose, its command will be answered.                                     *)
LEMMA JoinInv ==
  ASSUME DriverInv, lines # <<>>, NEW ssid \in CellValue, NEW password \in CellValue,
         connect_no_update(ssid, password)
  PROVE  DriverInv'
<1> DEFINE c == [text |-> IF main = "sending" \/ split THEN "garbled" ELSE "join",
                 saved |-> <<ssid, password>>]
<1>1. c \in Commands /\ cmdq \in Seq(Commands) /\ cmdq' = Append(cmdq, c)
  BY DEF connect_no_update, DriverInv, DriverTypeOK, Commands, Texts, Sent
<1>2. cmdq' \in Seq(Commands) /\ cmdq' # <<>>
  BY <1>1
<1>3. Tail(lines) \in Seq(Items)
  BY DEF DriverInv, DriverTypeOK, Items
<1>4. lines' \in Seq(Line \cup {IPD})
  BY <1>3, LosingLines DEF connect_no_update, Items
<1>5. split' \in BOOLEAN
  BY Zenon DEF connect_no_update
<1>6. UNCHANGED <<esp8266_pending_cmd, flash_data, http_request_handler, main, call, saving,
                  flash, serving, info, missed>>
  BY DEF connect_no_update, driverVars, callVars
<1>7. DriverTypeOK'
  BY <1>2, <1>4, <1>5, <1>6 DEF DriverInv, DriverTypeOK
<1>8. NoOrphanPending' /\ LoadedIsFlash'
  BY <1>2, <1>6 DEF DriverInv, NoOrphanPending, LoadedIsFlash
<1> QED  BY <1>7, <1>8 DEF DriverInv

(* A line handled by handle_connect_line() keeps the invariant: it ends    *)
(* the command, and RAM and flash change together.                         *)
LEMMA ConnectLineInv ==
  ASSUME DriverInv, lines # <<>>, handle_connect_line(Head(lines))
  PROVE  DriverInv'
<1>1. esp8266_pending_cmd' = "NONE" /\ missed' = FALSE
      /\ UNCHANGED <<http_request_handler, call, saving, split, cmdq, serving, info>>
  BY DEF handle_connect_line
<1>2. Tail(lines) \in Seq(Items)
  BY DEF DriverInv, DriverTypeOK, Items
<1>3. lines' \in Seq(Line \cup {IPD})
  BY <1>2, LosingLines DEF handle_connect_line, Items
<1>4. flash_data' \in Images /\ flash' \in Images
  BY UpdatedImage, CredentialAssumption DEF handle_connect_line, DriverInv, DriverTypeOK
<1>5. flash_data' = flash' \/ UNCHANGED <<flash_data, flash, main>>
  BY DEF handle_connect_line
<1>6. main' \in {"boot", "idle", "loaded", "armed", "sending", "shut"} \cup Updating
      /\ (main' = "loaded" => main = "loaded")
  BY DEF handle_connect_line, DriverInv, DriverTypeOK
<1>7. DriverTypeOK'
  BY <1>1, <1>3, <1>4, <1>6 DEF DriverInv, DriverTypeOK, Pending
<1>8. NoOrphanPending' /\ LoadedIsFlash'
  BY <1>1, <1>5 DEF DriverInv, NoOrphanPending, LoadedIsFlash
<1> QED  BY <1>7, <1>8 DEF DriverInv

(* The slots a scanned SSID matches hold a saved credential.               *)
LEMMA SavedSlotFields ==
  ASSUME DriverInv, NEW ssid, NEW i \in SavedSlots(ssid)
  PROVE  /\ i \in Slots
         /\ flash_data[SsidCell(i)] = ssid /\ ssid # Empty
         /\ flash_data[SsidCell(i)] \in CellValue /\ flash_data[PasswordCell(i)] \in CellValue
<1>1. i \in Slots /\ flash_data[SsidCell(i)] = ssid /\ ssid # Empty
  BY DEF SavedSlots, Matches
<1>2. SsidCell(i) \in Cells /\ PasswordCell(i) \in Cells
  BY <1>1, SlotCells
<1> QED  BY <1>1, <1>2 DEF DriverInv, DriverTypeOK, Images

(* esp8266_handle_return() keeps the invariant.                            *)
LEMMA HandleReturnInv == ASSUME DriverInv, esp8266_handle_return PROVE DriverInv'
<1>1. lines # <<>> /\ missed \in BOOLEAN
  BY DEF esp8266_handle_return, DriverInv, DriverTypeOK
<1>2. CASE handle_scan_line(Head(lines))
  <2>1. ASSUME NEW i \in SavedSlots(extract_quoted(Head(lines))),
               connect_no_update(flash_data[SsidCell(i)], flash_data[PasswordCell(i)])
        PROVE  DriverInv'
    BY <1>1, <2>1, SavedSlotFields, JoinInv
  <2> QED  BY <1>1, <1>2, <2>1, ClearInv DEF handle_scan_line
<1>3. CASE handle_connect_line(Head(lines))
  BY <1>1, <1>3, ConnectLineInv
<1>4. CASE handle_simple_ack(Head(lines))
  BY <1>1, <1>4, ClearInv DEF handle_simple_ack
<1>5. CASE /\ esp8266_pending_cmd = "NONE" /\ lines' = Tail(lines)
           /\ UNCHANGED <<driverVars, flash, split, cmdq, serving, info, missed>>
  <2>1. missed' \in BOOLEAN
    BY <1>1, <1>5
  <2> QED  BY <1>1, <1>5, <2>1, AckInv DEF driverVars
<1> QED  BY <1>2, <1>3, <1>4, <1>5 DEF esp8266_handle_return

(* A frame keeps the invariant: what the handler makes the receiver lose   *)
(* is noted.                                                               *)
LEMMA IpdFrameInv == ASSUME DriverInv, handle_ipd_frame PROVE DriverInv'
<1> USE DEF driverVars, callVars
<1>1. /\ lines \in Seq(Items) /\ lines # <<>> /\ Tail(lines) \in Seq(Items)
      /\ missed \in BOOLEAN /\ split \in BOOLEAN /\ cmdq \in Seq(Commands)
      /\ ~is_terminal_line(Head(lines))
  BY DEF handle_ipd_frame, DriverInv, DriverTypeOK, Items, is_terminal_line, IPD, OK, ErrorLine
<1>2. CASE ~http_request_handler
  <2>1. lines' = Tail(lines) /\ UNCHANGED <<cmdq, split, missed>>
        /\ UNCHANGED <<driverVars, flash, serving, info>>
    BY <1>2 DEF handle_ipd_frame
  <2>2. missed' \in BOOLEAN
    BY <1>1, <2>1
  <2> QED  BY <1>1, <2>1, <2>2, AckInv
<1>3. CASE http_request_handler
  <2>1. /\ esp8266_http_send_response \/ UNCHANGED <<cmdq, split>>
        /\ Losing(Tail(lines)) /\ NoteMissed
        /\ UNCHANGED <<driverVars, flash, serving, info>>
    BY <1>3 DEF handle_ipd_frame
  <2>2. lines' \in Seq(Line \cup {IPD})
    BY <1>1, <2>1, LosingLines DEF Items
  <2>3. missed' \in BOOLEAN
        /\ (esp8266_pending_cmd # "NONE" /\ (TerminalInFlight \/ missed) => TerminalInFlight' \/ missed')
    BY <1>1, <2>1, NoteMissedFacts
  <2>4. cmdq' \in Seq(Commands) /\ split' \in BOOLEAN /\ (cmdq # <<>> => cmdq' # <<>>)
    <3>1. CASE UNCHANGED <<cmdq, split>>
      BY <1>1, <3>1
    <3>2. CASE esp8266_http_send_response
      <4> DEFINE c == Command(IF main = "sending" \/ split THEN "garbled" ELSE "plain")
                 pair == <<c, Command("plain")>>
      <4>1. c \in Commands /\ Command("plain") \in Commands
        BY DEF Command, Commands, Texts, Sent
      <4>2. pair \in Seq(Commands) /\ Len(pair) = 2
        BY <4>1
      <4>3. cmdq' = cmdq \o pair
        BY <3>2 DEF esp8266_http_send_response
      <4>4. cmdq' \in Seq(Commands) /\ Len(cmdq') = Len(cmdq) + 2
        BY <1>1, <4>2, <4>3
      <4>5. split' \in BOOLEAN
        BY <3>2, Zenon DEF esp8266_http_send_response
      <4> QED  BY <1>1, <4>4, <4>5
    <3> QED  BY <2>1, <3>1, <3>2
  <2>5. DriverTypeOK'
    BY <2>1, <2>2, <2>3, <2>4 DEF DriverInv, DriverTypeOK
  <2>6. NoOrphanPending'
    BY <2>1, <2>3, <2>4 DEF DriverInv, NoOrphanPending
  <2>7. LoadedIsFlash'
    BY <2>1 DEF DriverInv, LoadedIsFlash
  <2> QED  BY <2>5, <2>6, <2>7 DEF DriverInv
<1> QED  BY <1>2, <1>3

(* An item the module adds leaves the terminal lines before it.            *)
LEMMA SayKeepsTerminal ==
  ASSUME lines \in Seq(Items), NEW line \in Items, Say(line)
  PROVE  /\ lines' \in Seq(Line \cup {IPD})
         /\ TerminalInFlight => TerminalInFlight'
         /\ line \in {OK, ErrorLine} => TerminalInFlight'
<1>1. lines' = Append(lines, line) /\ lines' \in Seq(Items) /\ Len(lines') = Len(lines) + 1
  BY DEF Say
<1>2. \A i \in 1..Len(lines) : lines'[i] = lines[i]
  BY <1>1
<1>3. lines'[Len(lines')] = line
  BY <1>1
<1>4. TerminalInFlight => TerminalInFlight'
  BY <1>1, <1>2 DEF TerminalInFlight
<1>5. line \in {OK, ErrorLine} => TerminalInFlight'
  BY <1>1, <1>3 DEF TerminalInFlight
<1> QED  BY <1>1, <1>4, <1>5 DEF Items

(* The module's steps keep the invariant: a command it takes or refuses    *)
(* leaves one to be answered, and its answer is a terminal line.           *)
LEMMA WifiModuleInv == ASSUME DriverInv, WifiModule PROVE DriverInv'
<1> USE DEF driverVars, callVars
<1>0. lines \in Seq(Items) /\ cmdq \in Seq(Commands) /\ info \in Nat
      /\ {OK, ErrorLine, Other, IPD} \subseteq Items /\ Line \subseteq Items
  BY DriverAssumption DEF DriverInv, DriverTypeOK, Line, Items
<1>1. CASE Accept
  <2>1. Head(cmdq) \in Commands /\ cmdq' \in Seq(Commands)
    BY <1>0, <1>1 DEF Accept
  <2>2. serving' \in Texts /\ "none" \notin Texts
    BY <1>1, <2>1 DEF Accept, Commands, Texts, Sent
  <2>3. DriverTypeOK'
    BY <1>1, <2>1, <2>2, DriverAssumption DEF Accept, DriverInv, DriverTypeOK
  <2>4. NoOrphanPending' /\ LoadedIsFlash'
    BY <1>1, <2>2 DEF Accept, DriverInv, NoOrphanPending, LoadedIsFlash
  <2> QED  BY <2>3, <2>4 DEF DriverInv
<1>2. CASE Refuse
  <2>1. lines' \in Seq(Line \cup {IPD}) /\ cmdq' \in Seq(Commands)
    BY <1>0, <1>2, SayKeepsTerminal DEF Refuse
  <2>2. DriverTypeOK'
    BY <1>2, <2>1 DEF Refuse, DriverInv, DriverTypeOK
  <2>3. NoOrphanPending' /\ LoadedIsFlash'
    BY <1>2 DEF Refuse, DriverInv, NoOrphanPending, LoadedIsFlash
  <2> QED  BY <2>2, <2>3 DEF DriverInv
<1>3. CASE Answers
  <2>1. PICK line \in {OK, ErrorLine} : Answer(line)
    BY <1>3 DEF Answers
  <2>2. lines' \in Seq(Line \cup {IPD}) /\ TerminalInFlight'
    BY <1>0, <2>1, SayKeepsTerminal DEF Answer
  <2>3. DriverTypeOK'
    BY <2>1, <2>2, DriverAssumption DEF Answer, DriverInv, DriverTypeOK
  <2>4. NoOrphanPending' /\ LoadedIsFlash'
    BY <2>1, <2>2 DEF Answer, DriverInv, NoOrphanPending, LoadedIsFlash
  <2> QED  BY <2>3, <2>4 DEF DriverInv
<1>4. CASE Unsolicited \/ Request
  <2>1. lines' \in Seq(Line \cup {IPD}) /\ (TerminalInFlight => TerminalInFlight')
    BY <1>0, <1>4, SayKeepsTerminal DEF Unsolicited, Request
  <2>2. UNCHANGED <<driverVars, flash, split, cmdq, serving, info, missed>>
    BY <1>4 DEF Unsolicited, Request
  <2>3. DriverTypeOK'
    BY <2>1, <2>2 DEF DriverInv, DriverTypeOK
  <2>4. NoOrphanPending' /\ LoadedIsFlash'
    BY <2>1, <2>2 DEF DriverInv, NoOrphanPending, LoadedIsFlash
  <2> QED  BY <2>3, <2>4 DEF DriverInv
<1>5. ASSUME NEW line \in Line, Inform(line) PROVE DriverInv'
  <2>1. lines' \in Seq(Line \cup {IPD})
    BY <1>0, <1>5, SayKeepsTerminal DEF Inform
  <2>2. info' \in 0..MaxInfo
    BY <1>0, <1>5, DriverAssumption DEF Inform
  <2>3. DriverTypeOK'
    BY <1>5, <2>1, <2>2 DEF Inform, DriverInv, DriverTypeOK
  <2>4. NoOrphanPending' /\ LoadedIsFlash'
    BY <1>5 DEF Inform, DriverInv, NoOrphanPending, LoadedIsFlash
  <2> QED  BY <2>3, <2>4 DEF DriverInv
<1> QED  BY <1>1, <1>2, <1>3, <1>4, <1>5 DEF WifiModule

(* A restart forgets the pending command.                                  *)
LEMMA RestartInv == ASSUME DriverInv, Restart PROVE DriverInv'
<1>1. lines' \in Seq(Line \cup {IPD})
  BY LosingLines DEF Restart, DriverInv, DriverTypeOK, Items
<1>2. split' \in BOOLEAN /\ http_request_handler' \in BOOLEAN /\ missed' \in BOOLEAN
  BY Zenon DEF Restart
<1>3. saving' \in Ssids \X Passwords \X Slots
  BY NoSaving DEF Restart
<1>4. DriverTypeOK'
  BY <1>1, <1>2, <1>3, ConstantImages DEF Restart, DriverInv, DriverTypeOK, Pending, Sent
<1>5. NoOrphanPending' /\ LoadedIsFlash'
  BY DEF Restart, NoOrphanPending, LoadedIsFlash
<1> QED  BY <1>4, <1>5 DEF DriverInv

(* No step of the system leaves the invariant.                             *)
LEMMA DriverStepInv == DriverInv /\ [Next]_vars => DriverInv'
<1> SUFFICES ASSUME DriverInv, [Next]_vars PROVE DriverInv'
  OBVIOUS
<1>1. CASE UNCHANGED vars
  BY <1>1 DEF vars, driverVars, callVars, moduleVars, DriverInv, DriverTypeOK, NoOrphanPending,
              LoadedIsFlash, TerminalInFlight
<1> QED  BY <1>1, CallInv, ContinueInv, HandleReturnInv, IpdFrameInv, WifiModuleInv, RestartInv
         DEF Next, Receive

(* The invariant holds at all times.                                       *)
THEOREM DriverInvariant == Spec => []DriverInv
  BY DriverInitInv, DriverStepInv, PTL DEF Spec

(* The driver, the wires and the module are type correct.                  *)
THEOREM DriverTypeCorrect == Spec => []DriverTypeOK
<1>1. DriverInv => DriverTypeOK
  BY DEF DriverInv
<1> QED  BY <1>1, DriverInvariant, PTL

(* Whatever the application calls and is lost to joins and saves in the    *)
(* interrupt, a pending command always has something left that will end    *)
(* it, unless the last terminal line was lost to the HTTP handler or to    *)
(* the application's own rewrite of the page.                              *)
THEOREM DriverNoOrphanPending == Spec => []NoOrphanPending
<1>1. DriverInv => NoOrphanPending
  BY DEF DriverInv
<1> QED  BY <1>1, DriverInvariant, PTL

(* Outside an update by the application, a pending scan searches what      *)
(* flash holds.                                                            *)
THEOREM DriverScanSearchesFlash == Spec => []ScanSearchesFlash
<1>1. DriverInv => ScanSearchesFlash
  BY DEF DriverInv, LoadedIsFlash, ScanSearchesFlash
<1> QED  BY <1>1, DriverInvariant, PTL

(* A step that puts saved credentials at the end of the command queue is   *)
(* an automatic join.                                                      *)
LEMMA JoinsOnlyInScan ==
  ASSUME DriverInv, Next, Len(cmdq') > Len(cmdq), cmdq'[Len(cmdq')].saved # <<>>
  PROVE  /\ esp8266_pending_cmd = "SCAN_WIFI" /\ lines # <<>>
         /\ Head(lines) # IPD /\ Head(lines).kind = "cwlap"
         /\ \E i \in SavedSlots(extract_quoted(Head(lines))) :
              connect_no_update(flash_data[SsidCell(i)], flash_data[PasswordCell(i)])
<1>1. cmdq \in Seq(Commands) /\ cmdq' # cmdq
  BY DEF DriverInv, DriverTypeOK
<1>2. CASE Call
  BY <1>1, <1>2 DEF Call, Arm, SendUntracked, ScanLoad, esp8266_check, esp8266_connect,
     esp8266_disconnect, esp8266_reset, esp8266_get_ip, esp8266_get_connection_status,
     esp8266_set_mode, esp8266_tcp_connect, esp8266_tcp_send, esp8266_tcp_close,
     esp8266_server_start, esp8266_server_stop, esp8266_set_ap_config,
     esp8266_set_http_request_handler, esp8266_update_credential_list, moduleVars
<1>3. CASE Continue
  <2>1. FinishSend
    BY <1>1, <1>3 DEF Continue, esp8266_setup, ScanArm, BeginSend, Update, SetPassword, WriteSsid,
       WritePassword, Change, BeginSave, FinishSave, moduleVars
  <2> DEFINE c == Command(IF split THEN "garbled" ELSE call)
  <2>2. cmdq' = Append(cmdq, c) /\ c.saved = <<>>
    BY <2>1 DEF FinishSend, Command
  <2>3. cmdq'[Len(cmdq')] = c
    BY <1>1, <2>2
  <2> QED  BY <2>2, <2>3
<1>4. CASE WifiModule
  <2>1. Accept \/ Refuse
    BY <1>1, <1>4 DEF WifiModule, Answers, Answer, Unsolicited, Request, Inform
  <2>2. cmdq' = Tail(cmdq) /\ cmdq # <<>>
    BY <2>1 DEF Accept, Refuse
  <2> QED  BY <1>1, <2>2
<1>5. CASE Restart
  BY <1>1, <1>5 DEF Restart
<1>6. CASE handle_ipd_frame
  <2>1. esp8266_http_send_response
    BY <1>1, <1>6 DEF handle_ipd_frame
  <2> DEFINE c == Command(IF main = "sending" \/ split THEN "garbled" ELSE "plain")
             pair == <<c, Command("plain")>>
  <2>2. c \in Commands /\ Command("plain") \in Commands /\ Command("plain").saved = <<>>
    BY DEF Command, Commands, Texts, Sent
  <2>3. pair \in Seq(Commands) /\ Len(pair) = 2 /\ pair[2] = Command("plain")
    BY <2>2
  <2>4. cmdq' = cmdq \o pair
    BY <2>1 DEF esp8266_http_send_response
  <2>5. cmdq'[Len(cmdq')] = pair[2]
    <3> HIDE DEF pair
    <3>0. Len(cmdq \o pair) = Len(cmdq) + Len(pair)
          /\ \A i \in 1..(Len(cmdq) + Len(pair)) :
               (cmdq \o pair)[i] = IF i <= Len(cmdq) THEN cmdq[i] ELSE pair[i - Len(cmdq)]
      BY <1>1, <2>3, ConcatProperties, Zenon
    <3>1. Len(cmdq') = Len(cmdq) + 2 /\ Len(cmdq) \in Nat
          /\ \A i \in 1..(Len(cmdq) + 2) :
               cmdq'[i] = IF i <= Len(cmdq) THEN cmdq[i] ELSE pair[i - Len(cmdq)]
      BY <1>1, <2>3, <2>4, <3>0
    <3>2. cmdq'[Len(cmdq) + 2] = pair[Len(cmdq) + 2 - Len(cmdq)]
      BY <3>1
    <3> QED  BY <3>1, <3>2
  <2> QED  BY <2>2, <2>3, <2>5
<1>7. CASE esp8266_handle_return
  BY <1>1, <1>7 DEF esp8266_handle_return, handle_scan_line, handle_connect_line,
                    handle_simple_ack, ClearIfTerminal
<1> QED  BY <1>2, <1>3, <1>4, <1>5, <1>6, <1>7 DEF Next, Receive

(* The interrupt joins only named networks, and outside an update by the   *)
(* application with the password that flash holds for them.                *)
THEOREM DriverAutoJoin == Spec => AutoJoinUsesSavedPair
<1> DEFINE last == cmdq'[Len(cmdq')]
           A == Len(cmdq') > Len(cmdq) /\ cmdq'[Len(cmdq')].saved # <<>> =>
                  LET joined == cmdq'[Len(cmdq')].saved IN
                  /\ joined[1] \in Ssids \ {Empty}
                  /\ \/ main \in Updating
                     \/ \E i \in Slots : flash[SsidCell(i)] = joined[1] /\ flash[PasswordCell(i)] = joined[2]
<1>1. DriverInv /\ [Next]_vars => [A]_vars
  <2> SUFFICES ASSUME DriverInv, Next, Len(cmdq') > Len(cmdq), last.saved # <<>> PROVE A
    OBVIOUS
  <2>1. /\ esp8266_pending_cmd = "SCAN_WIFI" /\ lines # <<>>
        /\ Head(lines) # IPD /\ Head(lines).kind = "cwlap"
        /\ \E i \in SavedSlots(extract_quoted(Head(lines))) :
             connect_no_update(flash_data[SsidCell(i)], flash_data[PasswordCell(i)])
    BY JoinsOnlyInScan
  <2>2. PICK i \in SavedSlots(extract_quoted(Head(lines))) :
          connect_no_update(flash_data[SsidCell(i)], flash_data[PasswordCell(i)])
    BY <2>1
  <2>3. i \in Slots /\ flash_data[SsidCell(i)] = extract_quoted(Head(lines))
        /\ extract_quoted(Head(lines)) # Empty
    BY <2>2, SavedSlotFields
  <2>4. extract_quoted(Head(lines)) \in Ssids
    <3>1. Head(lines) \in Line
      BY <2>1 DEF DriverInv, DriverTypeOK
    <3> QED  BY <2>1, <3>1 DEF Line, OK, ErrorLine, Other, CWLAP, extract_quoted
  <2>5. last.saved = <<flash_data[SsidCell(i)], flash_data[PasswordCell(i)]>>
    <3> DEFINE c == [text |-> IF main = "sending" \/ split THEN "garbled" ELSE "join",
                     saved |-> <<flash_data[SsidCell(i)], flash_data[PasswordCell(i)]>>]
    <3>1. cmdq \in Seq(Commands) /\ cmdq' = Append(cmdq, c)
      BY <2>2 DEF connect_no_update, DriverInv, DriverTypeOK
    <3>2. last = c
      BY <3>1
    <3> QED  BY <3>2
  <2>6. main \in Updating \/ flash_data = flash
    BY <2>1 DEF DriverInv, LoadedIsFlash
  <2> QED  BY <2>3, <2>4, <2>5, <2>6
<1> QED  BY <1>1, DriverInvariant, PTL DEF Spec, AutoJoinUsesSavedPair
=============================================================================
