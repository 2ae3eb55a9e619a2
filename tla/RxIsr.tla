------------------------------- MODULE RxIsr -------------------------------
(***************************************************************************)
(* The receive interrupt of the ESP8266 driver, usart2_isr() in            *)
(* sylib/esp8266/esp8266.c.  The interrupt handler is called once for each *)
(* byte the Wi-Fi module sends and runs to completion, so one call is one  *)
(* step.  It splits the byte stream into AT response lines, which go to    *)
(* esp8266_handle_return(), and "+IPD,<link_id>,<len>:<data>" frames, which*)
(* go to the registered HTTP request handler.                              *)
(*                                                                         *)
(* Data abstraction.  A byte is a terminator (CR, LF), the colon that ends *)
(* a frame header, an ordinary character of Text, or a header text: the    *)
(* characters "+IPD,<id>,<len>" are one symbol <<id, len>>, because the    *)
(* handler only looks at them when the colon arrives.  A malformed header  *)
(* is one whose numbers are out of range, or one followed by other text    *)
(* before its colon.  A buffer is the sequence of symbols below its index. *)
(* buffer_handle is the line of the call it is copied for: nothing reads it*)
(* after esp8266_handle_return() has returned.                             *)
(***************************************************************************)
EXTENDS Integers, Sequences

CONSTANTS
  LineCap,      \* sizeof(buffer_isr) = sizeof(buffer_handle), 512 in the code
  PayloadCap,   \* sizeof(ipd_payload) = ESP8266_HTTP_REQUEST_MAX_LEN, 256
  MaxLinkId,    \* ESP8266_MAX_LINK_ID, 4; it fits a uint8_t
  UINT16,       \* the number of values of a uint16_t, 65536
  Text,         \* ordinary characters
  CR, LF, Colon,
  HeaderIds,    \* the numbers a header text may carry as <link_id> ...
  HeaderLens    \* ... and as <len>

Header == HeaderIds \X HeaderLens
Byte   == Text \cup {CR, LF, Colon} \cup Header

ASSUME CapAssumption  == LineCap \in Nat /\ LineCap >= 3 /\ PayloadCap \in Nat /\ PayloadCap >= 2
ASSUME LinkAssumption == MaxLinkId \in Nat /\ HeaderIds \subseteq Int /\ HeaderLens \subseteq Int
ASSUME WidthAssumption == UINT16 \in Nat /\ UINT16 > 1
ASSUME ByteAssumption ==
  /\ CR # LF /\ CR # Colon /\ LF # Colon
  /\ {CR, LF, Colon} \cap Text = {}
  /\ Header \cap (Text \cup {CR, LF, Colon}) = {}

VARIABLES
  buffer_isr,             \* the first char_index symbols of buffer_isr
  terminated,             \* the last byte outside a payload ended a line
  receiving_ipd_payload,
  ipd_bytes_remaining,    \* uint16_t
  ipd_link_id,
  ipd_payload,            \* the first ipd_payload_len symbols of ipd_payload
  http_request_handler,   \* TRUE when a callback is registered, FALSE for NULL
  upcall                  \* the call the handler made for the last byte, if any

rxVars == <<buffer_isr, terminated, receiving_ipd_payload,
            ipd_bytes_remaining, ipd_link_id, ipd_payload, http_request_handler, upcall>>

NoCall         == [call |-> "none"]
LineCall(line) == [call |-> "line", line |-> line]
FrameCall(link, request) == [call |-> "frame", link |-> link, request |-> request]

Upcall == {NoCall} \cup [call : {"line"}, line : Seq(Byte)]
          \cup [call : {"frame"}, link : 0..MaxLinkId, request : Seq(Byte)]

RxInit ==
  /\ buffer_isr = <<>>
  /\ terminated = FALSE
  /\ receiving_ipd_payload = FALSE
  /\ ipd_bytes_remaining = 0
  /\ ipd_link_id = 0
  /\ ipd_payload = <<>>
  /\ http_request_handler = FALSE
  /\ upcall = NoCall

-----------------------------------------------------------------------------
(* Mutant of Store: the position of the NUL is given to data.              *)
StoreToTheBrim(buffer, c, cap) == IF Len(buffer) < cap THEN Append(buffer, c) ELSE buffer

(* Appends c unless the buffer already holds cap - 1 symbols: the last     *)
(* position is kept for the terminating NUL.                               *)
Store(buffer, c, cap) == IF Len(buffer) < cap - 1 THEN Append(buffer, c) ELSE buffer

(* handle_ipd_frame(): the call made for a complete payload.               *)
handle_ipd_frame(request) ==
  IF http_request_handler THEN FrameCall(ipd_link_id, request) ELSE NoCall

(* Mutant of PayloadByte: only a byte that is stored is counted.           *)
PayloadByteCountsStored(c) ==
  LET stored == Len(ipd_payload) < PayloadCap - 1
      left   == ipd_bytes_remaining - (IF stored THEN 1 ELSE 0)
  IN  /\ receiving_ipd_payload
      /\ ipd_bytes_remaining' = left
      /\ receiving_ipd_payload' = (left # 0)
      /\ ipd_payload' = IF left = 0 THEN <<>> ELSE Store(ipd_payload, c, PayloadCap)
      /\ upcall' = NoCall
      /\ UNCHANGED <<buffer_isr, terminated, ipd_link_id, http_request_handler>>

(* One byte in raw count mode: stored verbatim while there is room, and    *)
(* counted down with the wrap-around of uint16_t.                          *)
PayloadByte(c) ==
  LET payload == Store(ipd_payload, c, PayloadCap)
      left    == (ipd_bytes_remaining - 1) % UINT16
  IN  /\ receiving_ipd_payload
      /\ ipd_bytes_remaining' = left
      /\ receiving_ipd_payload' = (left # 0)
      /\ ipd_payload' = IF left = 0 THEN <<>> ELSE payload
      /\ upcall' = IF left = 0 THEN handle_ipd_frame(payload) ELSE NoCall
      /\ UNCHANGED <<buffer_isr, terminated, ipd_link_id, http_request_handler>>

(* Mutant of TerminatorByte: every terminator dispatches.                  *)
DispatchEveryTerminator(c) ==
  /\ ~receiving_ipd_payload
  /\ c \in {CR, LF}
  /\ terminated' = TRUE
  /\ upcall' = LineCall(buffer_isr)
  /\ buffer_isr' = <<>>
  /\ UNCHANGED <<receiving_ipd_payload, ipd_bytes_remaining, ipd_link_id, ipd_payload,
                 http_request_handler>>

(* CR or LF outside a payload: the first one after other characters ends   *)
(* the line and dispatches it, the ones that follow are ignored.           *)
TerminatorByte(c) ==
  /\ ~receiving_ipd_payload
  /\ c \in {CR, LF}
  /\ terminated' = TRUE
  /\ IF terminated
     THEN /\ upcall' = NoCall
          /\ UNCHANGED buffer_isr
     ELSE /\ upcall' = LineCall(buffer_isr)
          /\ buffer_isr' = <<>>
  /\ UNCHANGED <<receiving_ipd_payload, ipd_bytes_remaining, ipd_link_id, ipd_payload,
                 http_request_handler>>

(* strncmp(buffer_isr, "+IPD,", 5) == 0                                    *)
StartsWithIpd(line) == line # <<>> /\ Head(line) \in Header

(* Mutant of parse_ipd_header: the link id is not checked.                 *)
parse_any_link(line) == Len(line) = 2 /\ line[2] = Colon /\ line[1][2] >= 0

(* parse_ipd_header(): the header text must be followed by its colon, with *)
(* a link id in range and a length that is not negative.                   *)
parse_ipd_header(line) ==
  /\ Len(line) = 2 /\ line[2] = Colon
  /\ line[1][1] \in 0..MaxLinkId
  /\ line[1][2] >= 0

(* *out_len = (uint16_t)len                                                *)
HeaderLen(line) == line[1][2] % UINT16

(* Mutant of EntersPayload: an empty frame also switches to count mode.    *)
EntersOnAnyLength(line) == parse_ipd_header(line)

(* parse_ipd_header(...) && len > 0                                        *)
EntersPayload(line) == parse_ipd_header(line) /\ HeaderLen(line) > 0

(* Any other byte outside a payload.  A colon that completes a line        *)
(* starting with "+IPD," empties the line buffer, and a well-formed header *)
(* of a non-empty frame switches to raw count mode.                        *)
LineByte(c) ==
  LET line == Store(buffer_isr, c, LineCap)
  IN  /\ ~receiving_ipd_payload
      /\ c \notin {CR, LF}
      /\ terminated' = FALSE
      /\ upcall' = NoCall
      /\ IF c = Colon /\ StartsWithIpd(line)
         THEN /\ buffer_isr' = <<>>
              /\ IF EntersPayload(line)
                 THEN /\ ipd_link_id' = line[1][1]
                      /\ ipd_bytes_remaining' = HeaderLen(line)
                      /\ ipd_payload' = <<>>
                      /\ receiving_ipd_payload' = TRUE
                 ELSE UNCHANGED <<ipd_link_id, ipd_bytes_remaining, ipd_payload,
                                  receiving_ipd_payload>>
         ELSE /\ buffer_isr' = line
              /\ UNCHANGED <<ipd_link_id, ipd_bytes_remaining, ipd_payload,
                             receiving_ipd_payload>>
      /\ UNCHANGED http_request_handler

usart2_isr(c) == PayloadByte(c) \/ TerminatorByte(c) \/ LineByte(c)

(* esp8266_set_http_request_handler(), called by the application outside   *)
(* the interrupt; FALSE stands for NULL.                                   *)
esp8266_set_http_request_handler(registered) ==
  /\ http_request_handler' = registered
  /\ UNCHANGED <<buffer_isr, terminated, receiving_ipd_payload,
                 ipd_bytes_remaining, ipd_link_id, ipd_payload, upcall>>

(* The component on its own: the line may carry any bytes whatever, noise  *)
(* and remains of an earlier session included.                             *)
RxNext ==
  \/ \E c \in Byte : usart2_isr(c)
  \/ \E registered \in BOOLEAN : esp8266_set_http_request_handler(registered)

RxSpec == RxInit /\ [][RxNext]_rxVars

(* The module keeps sending: a byte arrives again and again.               *)
RxFairSpec == RxSpec /\ WF_rxVars(\E c \in Byte : usart2_isr(c))

-----------------------------------------------------------------------------
(* Type correctness of the state of the interrupt handler.                 *)
RxTypeOK ==
  /\ buffer_isr \in Seq(Byte)
  /\ terminated \in BOOLEAN
  /\ receiving_ipd_payload \in BOOLEAN
  /\ ipd_bytes_remaining \in 0..(UINT16 - 1)
  /\ ipd_link_id \in 0..MaxLinkId
  /\ ipd_payload \in Seq(Byte)
  /\ http_request_handler \in BOOLEAN
  /\ upcall \in Upcall

(* Whatever bytes arrive, no store of usart2_isr() leaves its array: there *)
(* is always room for the NUL written at char_index or ipd_payload_len,    *)
(* and the copy into buffer_handle fits.                                   *)
BuffersInBounds ==
  /\ Len(buffer_isr) < LineCap
  /\ upcall.call = "line" => Len(upcall.line) < LineCap
  /\ Len(ipd_payload) < PayloadCap

(* The uint16_t countdown of a payload never starts from zero, where the   *)
(* decrement would wrap and swallow 65535 further bytes; between frames    *)
(* nothing is left to count and the payload buffer is empty, so a frame    *)
(* never starts with bytes of the one before it.                           *)
CountdownSound ==
  /\ receiving_ipd_payload => ipd_bytes_remaining > 0
  /\ ~receiving_ipd_payload => ipd_bytes_remaining = 0 /\ ipd_payload = <<>>

(* Raw count mode ends while bytes keep arriving: whatever the header and  *)
(* whatever the payload holds, the handler returns to scanning for lines.  *)
PayloadModeEnds == receiving_ipd_payload ~> ~receiving_ipd_payload
=============================================================================
