----------------------------- MODULE AtCommands -----------------------------
(***************************************************************************)
(* The texts of the commands of sylib/esp8266/esp8266.c, in both builds.   *)
(* Each is formatted with snprintf() into an array of its own; what does   *)
(* not fit is cut off at the end, where the line terminator is.  Nothing   *)
(* looks at snprintf()'s result.  The module reads lines, so a text that   *)
(* has lost its terminator swallows the next one.  Of a text only its      *)
(* length matters, of a string argument only its length.                   *)
(***************************************************************************)
EXTENDS Integers, Sequences, FiniteSets

CONSTANTS
  MaxLinkId,          \* ESP8266_MAX_LINK_ID
  LinkIds, Modes,     \* the link ids and modes the application may pass
  SsidLens, PasswordLens, IpLens,
  ApSsidLens,         \* lengths of the SSID of the module's own network
  Ports, Lengths,     \* values of the uint16_t arguments
  Channels, Encryptions

(* The widths of the parameters, and the lengths esp8266.c expects of the  *)
(* strings.                                                                *)
ASSUME CommandAssumption ==
  /\ MaxLinkId \in 0..255 /\ LinkIds \subseteq 0..255 /\ Modes \subseteq Int
  /\ SsidLens \subseteq 0..32 /\ PasswordLens \subseteq 0..63 /\ IpLens \subseteq 0..15
  /\ ApSsidLens \subseteq 0..32
  /\ Ports \subseteq 0..(256 * 256 - 1) /\ Lengths \subseteq 0..(256 * 256 - 1)
  /\ Channels \subseteq 0..255 /\ Encryptions \subseteq 0..255

Builds == {"multi", "single"}

VARIABLES
  build,    \* ESP8266_MULTI_CONNECTION
  unread,   \* commands in the line the module is receiving
  line      \* the commands in the line it has received last

commandVars == <<build, unread, line>>

CommandInit == build \in Builds /\ unread = <<>> /\ line = <<>>

(* Characters of %u and %d, for the values these functions take.           *)
Digits(n) == 1 + Cardinality({p \in {10, 100, 1000, 10000} : p <= n})

(* snprintf(at_cmd_str, size, ...) and uart_send_string(at_cmd_str).  The  *)
(* data behind the text are taken as data if it was a line of its own, and *)
(* as the beginning of a line otherwise.                                   *)
SendWithData(cmd, len, size, length) ==
  LET text == Append(unread, [cmd |-> cmd, len |-> len])
  IN  /\ IF len < size
         THEN /\ line' = text
              /\ unread' = IF length = 0 \/ unread = <<>> THEN <<>> ELSE <<[cmd |-> "data", len |-> length]>>
         ELSE unread' = text /\ UNCHANGED line
      /\ UNCHANGED build

SendCommand(cmd, len, size) == SendWithData(cmd, len, size, 0)

(* The texts that are constant: AT, AT+CWQAP, AT+RST, AT+CIFSR, AT+CWJAP?, *)
(* AT+CWLAP, AT+CIPMUX=0 and 1.                                            *)
ConstantLens == {4, 8, 10, 11, 13}

SendConstant(len) == SendCommand("constant", len, len + 1)

esp8266_set_mode(mode) ==
  mode \in 0..3 /\ SendCommand("CWMODE", 12 + Digits(mode), 16)

esp8266_connect(ssid, password) ==
  SendCommand("CWJAP", 16 + ssid + password, 128)

(* Mutant of esp8266_tcp_connect: the array leaves no room for a long      *)
(* address.                                                                *)
tcp_connect_short(link_id, ip, port) ==
  IF build = "multi"
  THEN link_id <= MaxLinkId /\ SendCommand("CIPSTART", 24 + Digits(link_id) + ip + Digits(port), 40)
  ELSE SendCommand("CIPSTART", 23 + ip + Digits(port), 40)

esp8266_tcp_connect(link_id, ip, port) ==
  IF build = "multi"
  THEN link_id <= MaxLinkId /\ SendCommand("CIPSTART", 24 + Digits(link_id) + ip + Digits(port), 64)
  ELSE SendCommand("CIPSTART", 23 + ip + Digits(port), 64)

esp8266_tcp_send(link_id, length) ==
  IF build = "multi"
  THEN link_id <= MaxLinkId /\ SendWithData("CIPSEND", 14 + Digits(link_id) + Digits(length), 32, length)
  ELSE SendWithData("CIPSEND", 13 + Digits(length), 24, length)

esp8266_tcp_close(link_id) ==
  IF build = "multi"
  THEN link_id <= MaxLinkId /\ SendCommand("CIPCLOSE", 14 + Digits(link_id), 24)
  ELSE SendConstant(13)

esp8266_server_start(port) ==
  build = "multi" /\ SendCommand("CIPSERVER", 17 + Digits(port), 32)

esp8266_server_stop == build = "multi" /\ SendConstant(16)

esp8266_set_ap_config(ssid, password, channel, encryption) ==
  /\ build = "multi"
  /\ SendCommand("CWSAP", 18 + ssid + password + Digits(channel) + Digits(encryption), 96)

SendText ==
  \/ \E len \in ConstantLens : SendConstant(len)
  \/ \E mode \in Modes : esp8266_set_mode(mode)
  \/ \E ssid \in SsidLens, password \in PasswordLens : esp8266_connect(ssid, password)

CommandNext ==
  \/ SendText
  \/ \E link_id \in LinkIds, ip \in IpLens, port \in Ports : esp8266_tcp_connect(link_id, ip, port)
  \/ \E link_id \in LinkIds, length \in Lengths : esp8266_tcp_send(link_id, length)
  \/ \E link_id \in LinkIds : esp8266_tcp_close(link_id)
  \/ \E port \in Ports : esp8266_server_start(port)
  \/ esp8266_server_stop
  \/ \E ssid \in ApSsidLens, password \in PasswordLens, channel \in Channels, encryption \in Encryptions :
       esp8266_set_ap_config(ssid, password, channel, encryption)

CommandSpec == CommandInit /\ [][CommandNext]_commandVars

-----------------------------------------------------------------------------
(* Every line the module reads is one whole command: no text is cut before *)
(* its terminator, so none runs into the next one.                         *)
OwnLine == Len(line) <= 1
=============================================================================
