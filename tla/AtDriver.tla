------------------------------ MODULE AtDriver ------------------------------
(***************************************************************************)
(* Commands and responses of the ESP8266 driver, sylib/esp8266/esp8266.c.  *)
(* The application calls the esp8266_* functions in thread mode; they note *)
(* the command as pending, send it and return without waiting.  Whole      *)
(* response lines (see RxIsr and RxLink for how they are cut out of the    *)
(* byte stream) are handled by esp8266_handle_return() in the interrupt,   *)
(* which preempts the application between any two of its steps and may     *)
(* itself send a command.  A whole +IPD frame is handled there too, by the *)
(* HTTP handler the application has registered.                            *)
(*                                                                         *)
(* The interrupt blocks while it sends, saves or runs that handler, and    *)
(* the processor stalls while thread mode rewrites a flash page.  What the *)
(* module sends meanwhile is lost; there is no flow control.               *)
(*                                                                         *)
(* The Wi-Fi module is outside the repository.  It takes one command at a  *)
(* time, answers with any number of lines of information and one terminal  *)
(* line, refuses what arrives meanwhile ("busy p..."), answers ERROR to    *)
(* text that is no command, and may send other lines and frames at any     *)
(* time.                                                                   *)
(***************************************************************************)
EXTENDS CredentialList, Sequences

CONSTANTS
  MaxLinkId,      \* ESP8266_MAX_LINK_ID
  LinkIds,        \* the link ids and ...
  Modes,          \* ... the modes the application may pass, and ...
  Credentials,    \* ... the pairs of SSID and password it may save
  StoredImages,   \* what flash may hold from earlier sessions
  MaxCmds,        \* bound: commands on the wire before the application makes a call or ends one
  MaxLines,       \* bound: lines on the wire before the module sends another
  MaxInfo         \* bound: lines of information in one response

ASSUME DriverAssumption ==
  /\ MaxLinkId \in Nat /\ LinkIds \subseteq Nat /\ Modes \subseteq Int
  /\ StoredImages \subseteq Images /\ Credentials \subseteq Ssids \X Passwords
  /\ MaxCmds \in Nat \ {0} /\ MaxLines \in Nat /\ MaxLines >= 2 /\ MaxInfo \in Nat

VARIABLES
  esp8266_pending_cmd,
  flash_data,   \* the copy of the credentials in RAM
  flash,        \* the credentials in flash
  http_request_handler,   \* one is registered
  main,         \* where the application is: before esp8266_setup() ("boot"), outside
                \* the driver ("idle"), in a call that has loaded flash_data
                \* ("loaded"), set the pending command ("armed"), begun to send
                \* ("sending"), or in esp8266_update_credential_list(), see Updating
  call,         \* what that call sends
  saving,       \* ... or saves, with the slot it has found: <<ssid, password, slot>>
  split,        \* the text the module is receiving is not one command
  cmdq,         \* commands on their way to the module
  serving,      \* the command the module is executing, or "none"
  info,         \* lines of information sent for it
  lines,        \* lines on their way to the driver
  missed        \* history: since the pending command was set, the last terminal line
                \* was lost in the HTTP handler or in the application's rewrite of the page

callVars   == <<main, call, saving>>
driverVars == <<esp8266_pending_cmd, flash_data, http_request_handler, callVars>>
moduleVars == <<cmdq, serving, info, lines>>
vars == <<driverVars, flash, split, moduleVars, missed>>

(* The steps of an update by the application that is under way: the        *)
(* password of a known SSID, the SSID and the password of a new one, the   *)
(* erasure and the programming of the page ("shut": the interrupt has      *)
(* saved meanwhile and has locked the controller).                         *)
Updating == {"known", "naming", "password", "saving", "programming"}

SimpleAck  == {"DISCONNECT", "RESET", "GET_IP", "GET_CONNECTION_STATUS"}
ConnectAck == {"CHECK", "SET_MODE", "CONNECT"}
Pending    == {"NONE", "SCAN_WIFI"} \cup SimpleAck \cup ConnectAck

(* A command as the module tells it apart: AT+CWLAP, AT+CWJAP, another     *)
(* command, or text that is no command; with the saved credentials that    *)
(* the interrupt has put into it.                                          *)
Sent     == {"scan", "join", "plain"}
Texts    == Sent \cup {"garbled"}
Commands == [text : Texts, saved : {<<>>} \cup (CellValue \X CellValue)]

Command(text) == [text |-> text, saved |-> <<>>]

(* A response line as the driver tells it apart.  "other" is any line that *)
(* is neither terminal nor +CWLAP with a quoted SSID: an echo, a blank     *)
(* line, "+CWJAP:<error>" (which is only logged), "busy p...", ...         *)
OK           == [kind |-> "ok"]
ErrorLine    == [kind |-> "error"]     \* ERROR... or FAIL...
Other        == [kind |-> "other"]
CWLAP(field) == [kind |-> "cwlap", field |-> field]
Line == {OK, ErrorLine, Other} \cup {CWLAP(f) : f \in Ssids}

(* A frame of data from a client, +IPD.                                    *)
IPD == [kind |-> "ipd"]

Init ==
  /\ esp8266_pending_cmd = "NONE"
  /\ flash_data = ZeroImage
  /\ flash \in StoredImages
  /\ http_request_handler = FALSE
  /\ main = "boot" /\ call = "plain" /\ saving = <<Empty, Empty, 0>> /\ split = FALSE
  /\ cmdq = <<>> /\ serving = "none" /\ info = 0 /\ lines = <<>>
  /\ missed = FALSE

TerminalInFlight == \E i \in 1..Len(lines) : lines[i] \in {OK, ErrorLine}

(* What is left of a lost line means nothing; the data of a frame whose    *)
(* header is lost may read as any line.                                    *)
Rest(item) == IF item = IPD THEN Line ELSE {Other}

(* The bytes that arrive while the interrupt blocks or the processor       *)
(* stalls are lost: the first items on the wire, whole or up to a rest.    *)
Losing(queue) ==
  \E k \in 0..Len(queue) :
    \/ lines' = SubSeq(queue, k + 1, Len(queue))
    \/ k > 0 /\ \E r \in Rest(queue[k]) : lines' = <<r>> \o SubSeq(queue, k + 1, Len(queue))

(* The history variable missed, in a step that loses lines and leaves the  *)
(* pending command as it is.                                               *)
NoteMissed ==
  missed' = (missed \/ (esp8266_pending_cmd # "NONE" /\ TerminalInFlight /\ ~TerminalInFlight'))
-----------------------------------------------------------------------------
(* The application's side.                                                 *)

(* A call that sets the pending command and goes on to send.               *)
Arm(pending, text) ==
  /\ main = "idle"
  /\ esp8266_pending_cmd' = pending /\ missed' = FALSE
  /\ call' = text /\ main' = "armed"
  /\ UNCHANGED <<flash_data, http_request_handler, saving, flash, split, moduleVars>>

(* A call that only sends: its answer is not tracked.  The data that       *)
(* follow AT+CIPSEND go with it (see HttpResponse).                        *)
SendUntracked ==
  /\ main = "idle"
  /\ call' = "plain" /\ main' = "armed"
  /\ UNCHANGED <<esp8266_pending_cmd, flash_data, http_request_handler, saving, flash, split,
                 moduleVars, missed>>

esp8266_check                 == Arm("CHECK", "plain")
esp8266_set_mode(mode)        == mode \in 0..3 /\ Arm("SET_MODE", "plain")
esp8266_connect               == Arm("CONNECT", "join")
esp8266_disconnect            == Arm("DISCONNECT", "plain")
esp8266_reset                 == Arm("RESET", "plain")
esp8266_get_ip                == Arm("GET_IP", "plain")
esp8266_get_connection_status == Arm("GET_CONNECTION_STATUS", "plain")

esp8266_tcp_connect(link_id)  == link_id <= MaxLinkId /\ SendUntracked
esp8266_tcp_send(link_id)     == link_id <= MaxLinkId /\ SendUntracked
esp8266_tcp_close(link_id)    == link_id <= MaxLinkId /\ SendUntracked
esp8266_server_start          == SendUntracked
esp8266_server_stop           == SendUntracked

(* Mutant of esp8266_set_ap_config: it is tracked as ESP8266_CMD_AP, for   *)
(* which esp8266_handle_return() has no case.                              *)
set_ap_config_tracked == Arm("AP", "plain")

esp8266_set_ap_config == SendUntracked

(* A handler, or NULL.                                                     *)
esp8266_set_http_request_handler(registered) ==
  /\ main = "idle"
  /\ http_request_handler' = registered
  /\ UNCHANGED <<esp8266_pending_cmd, flash_data, callVars, flash, split, moduleVars, missed>>

(* The interrupt is enabled, then AT+CIPMUX is sent.                       *)
esp8266_setup ==
  /\ main = "boot"
  /\ call' = "plain" /\ main' = "armed"
  /\ UNCHANGED <<esp8266_pending_cmd, flash_data, http_request_handler, saving, flash, split,
                 moduleVars, missed>>

(* Mutant of ScanLoad: the list is searched as it is in RAM.               *)
ScanLoadNothing ==
  /\ main = "idle"
  /\ main' = "loaded"
  /\ UNCHANGED <<esp8266_pending_cmd, flash_data, http_request_handler, call, saving, flash, split,
                 moduleVars, missed>>

(* esp8266_scan_connect_wifi(): the list is read from flash ...            *)
ScanLoad ==
  /\ main = "idle"
  /\ flash_data' = flash
  /\ main' = "loaded"
  /\ UNCHANGED <<esp8266_pending_cmd, http_request_handler, call, saving, flash, split,
                 moduleVars, missed>>

(* ... and the scan becomes the pending command.                           *)
ScanArm ==
  /\ main = "loaded"
  /\ esp8266_pending_cmd' = "SCAN_WIFI" /\ missed' = FALSE
  /\ call' = "scan" /\ main' = "armed"
  /\ UNCHANGED <<flash_data, http_request_handler, saving, flash, split, moduleVars>>

(* esp8266_update_credential_list(): the list is read from flash and       *)
(* searched.  What an interrupt between the bytes of a string does to it   *)
(* is StoreRace's matter.                                                  *)
esp8266_update_credential_list(s, p) ==
  /\ main = "idle"
  /\ \/ /\ Matches(flash, s) # {}
        /\ flash_data' = flash
        /\ saving' = <<s, p, FirstMatch(flash, s)>> /\ main' = "known"
     \/ /\ Matches(flash, s) = {}
        /\ flash_data' = [flash EXCEPT ![NextCell] = NextSlot(flash)]
        /\ saving' = <<s, p, 0>> /\ main' = "naming"
  /\ UNCHANGED <<esp8266_pending_cmd, http_request_handler, call, flash, split, moduleVars, missed>>

(* A statement of the update that changes flash_data only.                 *)
Change(label, image, next) ==
  /\ main = label /\ main' = next
  /\ flash_data' = image
  /\ UNCHANGED <<esp8266_pending_cmd, http_request_handler, call, saving, flash, split,
                 moduleVars, missed>>

SetPassword == Change("known", [flash_data EXCEPT ![PasswordCell(saving[3])] = saving[2]], "saving")

(* Past the list, where an interrupt's update may have put next_update,    *)
(* the strings go to other memory.                                         *)
WriteSsid ==
  LET n == flash_data[NextCell]
  IN  Change("naming", IF n \in Slots THEN [flash_data EXCEPT ![SsidCell(n)] = saving[1]]
                       ELSE flash_data, "password")

WritePassword ==
  LET n == flash_data[NextCell]
      list == IF n \in Slots THEN [flash_data EXCEPT ![PasswordCell(n)] = saving[2]] ELSE flash_data
  IN  Change("password", [list EXCEPT ![NextCell] = Advanced(n)], "saving")

(* eeprom_write() by the application: the page is erased ...               *)
BeginSave ==
  /\ main = "saving" /\ main' = "programming"
  /\ flash' = ErasedImage
  /\ Losing(lines) /\ NoteMissed
  /\ UNCHANGED <<esp8266_pending_cmd, flash_data, http_request_handler, call, saving, split,
                 cmdq, serving, info>>

(* ... and programmed, unless the interrupt has locked the controller.     *)
(* CredentialStore takes this step apart.                                  *)
FinishSave ==
  /\ main \in {"programming", "shut"} /\ main' = "idle"
  /\ flash' = IF main = "shut" THEN flash ELSE flash_data
  /\ saving' = <<Empty, Empty, 0>>
  /\ UNCHANGED <<esp8266_pending_cmd, flash_data, http_request_handler, call, split,
                 moduleVars, missed>>

(* uart_send_string(): its first test of TXE is done ...                   *)
BeginSend ==
  /\ main = "armed"
  /\ main' = "sending"
  /\ UNCHANGED <<esp8266_pending_cmd, flash_data, http_request_handler, call, saving, flash, split,
                 moduleVars, missed>>

(* ... its last byte is out.  The text is no command if others got into    *)
(* it, or if it follows the remains of one that was cut short.             *)
FinishSend ==
  /\ main = "sending"
  /\ Len(cmdq) < MaxCmds
  /\ cmdq' = Append(cmdq, Command(IF split THEN "garbled" ELSE call))
  /\ split' = FALSE
  /\ main' = "idle" /\ call' = "plain"
  /\ UNCHANGED <<esp8266_pending_cmd, flash_data, http_request_handler, saving, flash,
                 serving, info, lines, missed>>

Call ==
  /\ Len(cmdq) < MaxCmds
  /\ \/ esp8266_check \/ esp8266_connect \/ esp8266_disconnect \/ esp8266_reset
     \/ esp8266_get_ip \/ esp8266_get_connection_status \/ ScanLoad
     \/ \E mode \in Modes : esp8266_set_mode(mode)
     \/ \E link_id \in LinkIds : \/ esp8266_tcp_connect(link_id) \/ esp8266_tcp_send(link_id)
                                 \/ esp8266_tcp_close(link_id)
     \/ esp8266_server_start \/ esp8266_server_stop \/ esp8266_set_ap_config
     \/ \E registered \in BOOLEAN : esp8266_set_http_request_handler(registered)
     \/ \E c \in Credentials : esp8266_update_credential_list(c[1], c[2])

(* What follows in the same call.                                          *)
Update   == SetPassword \/ WriteSsid \/ WritePassword \/ BeginSave \/ FinishSave
Continue == esp8266_setup \/ ScanArm \/ BeginSend \/ FinishSend \/ Update
-----------------------------------------------------------------------------
(* The interrupt's side: esp8266_handle_return() for the next line.        *)

(* Mutant of is_terminal_line: the error answers are forgotten.            *)
IsOkLine(line) == line = OK

is_terminal_line(line) == line \in {OK, ErrorLine}

(* connect_no_update(): sends AT+CWJAP and leaves the pending command.     *)
connect_no_update(ssid, password) ==
  /\ cmdq' = Append(cmdq, [text |-> IF main = "sending" \/ split THEN "garbled" ELSE "join",
                           saved |-> <<ssid, password>>])
  /\ split' = (main = "sending")
  /\ Losing(Tail(lines))
  /\ UNCHANGED <<driverVars, flash, serving, info, missed>>

(* Mutant of SavedSlots: a slot with the empty SSID also matches.          *)
SavedOrEmptySlots(ssid) == Matches(flash_data, ssid)

(* extract_quoted(): the SSID of a +CWLAP line (without one, it matches no *)
(* saved SSID and is an "other" line).                                     *)
extract_quoted(line) == line.field

(* The saved credentials a scanned SSID matches.                           *)
SavedSlots(ssid) == {i \in Matches(flash_data, ssid) : flash_data[SsidCell(i)] # Empty}

(* A terminal line ends the pending command, another changes nothing.      *)
ClearIfTerminal(line) ==
  /\ esp8266_pending_cmd' = IF is_terminal_line(line) THEN "NONE" ELSE esp8266_pending_cmd
  /\ missed' = (missed /\ ~is_terminal_line(line))
  /\ lines' = Tail(lines)
  /\ UNCHANGED <<flash_data, http_request_handler, callVars, flash, split, cmdq, serving, info>>

handle_scan_line(line) ==
  \/ /\ line.kind = "cwlap"
     /\ \E i \in SavedSlots(extract_quoted(line)) :
          /\ \A j \in SavedSlots(extract_quoted(line)) : i <= j
          /\ connect_no_update(flash_data[SsidCell(i)], flash_data[PasswordCell(i)])
  \/ /\ line.kind = "cwlap" => SavedSlots(extract_quoted(line)) = {}
     /\ ClearIfTerminal(line)

(* handle_connect_line(): OK also saves g_ssid and g_password, which       *)
(* nothing ever assigns; every line ends the command.  The rewrite of the  *)
(* page is one step here (CredentialStore takes it apart).  The interrupt  *)
(* blocks while it lasts, and while an error code is written to the debug  *)
(* console.                                                                *)
handle_connect_line(line) ==
  /\ esp8266_pending_cmd' = "NONE" /\ missed' = FALSE
  /\ \/ /\ line = OK
        /\ flash_data' = Updated(flash, Empty, Empty)
        /\ flash' = flash_data'
        /\ main' = IF main = "programming" THEN "shut" ELSE main
     \/ line # OK /\ UNCHANGED <<flash_data, flash, main>>
  /\ Losing(Tail(lines))
  /\ UNCHANGED <<http_request_handler, call, saving, split, cmdq, serving, info>>

handle_simple_ack(line) == ClearIfTerminal(line)

esp8266_handle_return ==
  /\ main # "boot"
  /\ lines # <<>> /\ Head(lines) # IPD
  /\ \/ esp8266_pending_cmd = "SCAN_WIFI" /\ handle_scan_line(Head(lines))
     \/ esp8266_pending_cmd \in ConnectAck /\ handle_connect_line(Head(lines))
     \/ esp8266_pending_cmd \in SimpleAck /\ handle_simple_ack(Head(lines))
     \/ /\ esp8266_pending_cmd = "NONE"
        /\ lines' = Tail(lines)
        /\ UNCHANGED <<driverVars, flash, split, cmdq, serving, info, missed>>

(* esp8266_http_send_response(), called by the handler: AT+CIPSEND with    *)
(* the data, and AT+CIPCLOSE.                                              *)
esp8266_http_send_response ==
  /\ cmdq' = cmdq \o <<Command(IF main = "sending" \/ split THEN "garbled" ELSE "plain"), Command("plain")>>
  /\ split' = (main = "sending")

(* handle_ipd_frame(): the handler blocks, whether it responds or not, and *)
(* nothing is done about the lines that are lost meanwhile.                *)
handle_ipd_frame ==
  /\ main # "boot"
  /\ lines # <<>> /\ Head(lines) = IPD
  /\ \/ /\ http_request_handler
        /\ esp8266_http_send_response \/ UNCHANGED <<cmdq, split>>
        /\ Losing(Tail(lines)) /\ NoteMissed
     \/ ~http_request_handler /\ lines' = Tail(lines) /\ UNCHANGED <<cmdq, split, missed>>
  /\ UNCHANGED <<driverVars, flash, serving, info>>

(* The interrupt, at the end of a line or of a frame.                      *)
Receive == esp8266_handle_return \/ handle_ipd_frame
-----------------------------------------------------------------------------
(* The module's side (external), and resets of the microcontroller.        *)

Say(line) == Len(lines) < MaxLines /\ lines' = Append(lines, line)

Accept ==
  /\ serving = "none" /\ cmdq # <<>>
  /\ serving' = Head(cmdq).text /\ cmdq' = Tail(cmdq) /\ info' = 0
  /\ UNCHANGED <<driverVars, flash, split, lines, missed>>

Refuse ==
  /\ serving # "none" /\ cmdq # <<>>
  /\ cmdq' = Tail(cmdq) /\ Say(Other)
  /\ UNCHANGED <<driverVars, flash, split, serving, info, missed>>

Inform(line) ==
  /\ serving # "none" /\ info < MaxInfo
  /\ line.kind = "cwlap" => serving = "scan"
  /\ Say(line) /\ info' = info + 1
  /\ UNCHANGED <<driverVars, flash, split, cmdq, serving, missed>>

Answer(line) ==
  /\ serving # "none"
  /\ serving = "garbled" => line = ErrorLine
  /\ Say(line) /\ serving' = "none" /\ info' = 0
  /\ UNCHANGED <<driverVars, flash, split, cmdq, missed>>

Unsolicited ==
  /\ Len(lines) < MaxLines - 1
  /\ Say(Other)
  /\ UNCHANGED <<driverVars, flash, split, cmdq, serving, info, missed>>

(* Data of a client.  The bound on commands is for those of a response.    *)
Request ==
  /\ Len(lines) < MaxLines - 1 /\ Len(cmdq) < MaxCmds
  /\ Say(IPD)
  /\ UNCHANGED <<driverVars, flash, split, cmdq, serving, info, missed>>

Answers == \E line \in {OK, ErrorLine} : Answer(line)

WifiModule ==
  \/ Accept \/ Refuse \/ Answers \/ Unsolicited \/ Request
  \/ \E line \in Line \ {OK, ErrorLine} : Inform(line)

(* The microcontroller restarts: RAM starts anew, flash and the module     *)
(* stay, and what arrives before esp8266_setup() is lost.                  *)
Restart ==
  /\ esp8266_pending_cmd' = "NONE"
  /\ flash_data' = ZeroImage /\ http_request_handler' = FALSE
  /\ main' = "boot" /\ call' = "plain" /\ saving' = <<Empty, Empty, 0>>
  /\ split' = (split \/ main = "sending")
  /\ missed' = FALSE
  /\ Losing(lines)
  /\ UNCHANGED <<flash, cmdq, serving, info>>

Next == Call \/ Continue \/ Receive \/ WifiModule \/ Restart

Spec == Init /\ [][Next]_vars

(* The processor runs, the interrupt is taken, and the module takes and    *)
(* answers commands.  Nothing obliges the application to call, the module  *)
(* to say more than the terminal line, or the power to fail.               *)
FairSpec ==
  /\ Spec
  /\ WF_vars(Continue) /\ WF_vars(Receive)
  /\ WF_vars(Accept) /\ WF_vars(Refuse) /\ WF_vars(Answers)
-----------------------------------------------------------------------------
(* Type correctness of the driver, the wires and the module.  The pending  *)
(* command is one that esp8266_handle_return() has a case for, never       *)
(* ESP8266_CMD_AP.                                                         *)
DriverTypeOK ==
  /\ esp8266_pending_cmd \in Pending
  /\ flash_data \in Images /\ flash \in Images
  /\ http_request_handler \in BOOLEAN
  /\ main \in {"boot", "idle", "loaded", "armed", "sending", "shut"} \cup Updating
  /\ call \in Sent
  /\ saving \in Ssids \X Passwords \X Slots
  /\ split \in BOOLEAN
  /\ cmdq \in Seq(Commands)
  /\ serving \in Texts \cup {"none"}
  /\ info \in 0..MaxInfo
  /\ lines \in Seq(Line \cup {IPD})
  /\ missed \in BOOLEAN

(* A command never stays pending with nothing left that could end it: the  *)
(* application is still sending, the module has a command to answer, or a  *)
(* terminal line is on its way.  There is no timeout in the driver, so     *)
(* otherwise it would stay pending until the next call.  The lines lost to *)
(* an automatic join or to a save in the interrupt do not matter.  Those   *)
(* lost to the HTTP handler, or to a rewrite of the page that the          *)
(* application makes while a command is pending, do: missed excepts them.  *)
NoOrphanPending ==
  esp8266_pending_cmd # "NONE" =>
    main \in {"armed", "sending"} \/ cmdq # <<>> \/ serving # "none" \/ TerminalInFlight \/ missed

(* While a scan is pending the list that is searched in RAM is the list in *)
(* flash, in spite of the updates an interrupt may make between the        *)
(* reading of the list and the last line of the scan, and again as soon as *)
(* an update by the application is over.                                   *)
ScanSearchesFlash ==
  esp8266_pending_cmd = "SCAN_WIFI" /\ main \notin Updating => flash_data = flash

(* The interrupt joins only networks with a name, and with the password    *)
(* that flash holds for that name, unless it comes in the middle of an     *)
(* update by the application: a slot that has got its new SSID still has   *)
(* the password of the old one.                                            *)
AutoJoinUsesSavedPair ==
  [][ Len(cmdq') > Len(cmdq) /\ cmdq'[Len(cmdq')].saved # <<>> =>
        LET joined == cmdq'[Len(cmdq')].saved IN
        /\ joined[1] \in Ssids \ {Empty}
        /\ \/ main \in Updating
           \/ \E i \in Slots : flash[SsidCell(i)] = joined[1] /\ flash[PasswordCell(i)] = joined[2] ]_vars

(* A pending command is settled in the end, unless the application makes   *)
(* another call: whatever is refused, garbled or lost to a join or a save  *)
(* in the interrupt, some terminal line reaches the driver.  Not so when   *)
(* the last one is lost to the HTTP handler or to a rewrite of the page by *)
(* the application (missed): nothing times out.  And clients must pause:   *)
(* data that are read as +CWLAP lines make the interrupt join again and    *)
(* again, and lose the answers each time.                                  *)
PendingSettled ==
  <>[](\A i \in 1..Len(lines) : lines[i] # IPD) =>
    (esp8266_pending_cmd # "NONE" ~> esp8266_pending_cmd = "NONE" \/ main # "idle" \/ missed)
=============================================================================
