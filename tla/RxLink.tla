------------------------------- MODULE RxLink -------------------------------
(***************************************************************************)
(* The receive path end to end: the Wi-Fi module composes messages (AT     *)
(* response lines, blank lines and +IPD frames) and sends them byte by     *)
(* byte; every byte raises usart2_isr() before the next one arrives.  The  *)
(* module is outside the repository and is modelled from what the code in  *)
(* esp8266.c expects of it: a line ends with CR LF and does not start like *)
(* a frame header, and a frame is its header, a colon and exactly the      *)
(* announced number of bytes, which may be any bytes.                      *)
(***************************************************************************)
EXTENDS RxIsr

CONSTANTS
  LineTexts,    \* the texts of the lines the module may send
  Payloads,     \* the data of the frames it may send
  Links,        \* the links it may report
  MaxInFlight   \* bound: messages sent and not yet received in full

ASSUME MessageAssumption ==
  /\ \A s \in LineTexts : s \in Seq(Byte \ {CR, LF}) /\ s # <<>> /\ s[1] \notin Header
  /\ \A d \in Payloads : d \in Seq(Byte) /\ Len(d) \in 1..(UINT16 - 1)
  /\ Links \subseteq 0..MaxLinkId
  /\ MaxInFlight \in Nat
  /\ \A l \in Links, d \in Payloads : <<l, Len(d)>> \in Header

VARIABLES
  queue,    \* messages being sent, the head first
  pos,      \* bytes of the head that have arrived
  handled   \* the latest call usart2_isr() made, with a bit that flips at each one

linkVars == <<rxVars, queue, pos, handled>>

LineMsg(s)     == [kind |-> "line", text |-> s]
FrameMsg(l, d) == [kind |-> "frame", link |-> l, data |-> d]
BlankMsg       == [kind |-> "blank"]
Msg == {LineMsg(s) : s \in LineTexts} \cup {FrameMsg(l, d) : l \in Links, d \in Payloads}
       \cup {BlankMsg}

(* The bytes of a message on the wire.                                     *)
WireLen(m) == CASE m.kind = "line"  -> Len(m.text) + 2
                [] m.kind = "frame" -> Len(m.data) + 2
                [] m.kind = "blank" -> 2

WireByte(m, i) ==
  CASE m.kind = "line"  -> IF i <= Len(m.text) THEN m.text[i]
                           ELSE IF i = Len(m.text) + 1 THEN CR ELSE LF
    [] m.kind = "frame" -> IF i = 1 THEN <<m.link, Len(m.data)>>
                           ELSE IF i = 2 THEN Colon ELSE m.data[i - 2]
    [] m.kind = "blank" -> IF i = 1 THEN CR ELSE LF

LinkInit == RxInit /\ queue = <<>> /\ pos = 0 /\ handled = <<0, NoCall>>

Emit(m) ==
  /\ Len(queue) < MaxInFlight
  /\ queue' = Append(queue, m)
  /\ UNCHANGED <<rxVars, pos, handled>>

Advance ==
  IF pos + 1 = WireLen(Head(queue))
  THEN queue' = Tail(queue) /\ pos' = 0
  ELSE queue' = queue /\ pos' = pos + 1

(* History: the call the interrupt made, if any.                           *)
Record == handled' = IF upcall' = NoCall THEN handled ELSE <<1 - handled[1], upcall'>>

(* The next byte arrives and raises the interrupt.                         *)
Receive ==
  /\ queue # <<>>
  /\ usart2_isr(WireByte(Head(queue), pos + 1))
  /\ Advance
  /\ Record

Register(r) ==
  /\ esp8266_set_http_request_handler(r)
  /\ UNCHANGED <<queue, pos, handled>>

LinkNext ==
  \/ \E m \in Msg : Emit(m)
  \/ Receive
  \/ \E r \in BOOLEAN : Register(r)

LinkSpec == LinkInit /\ [][LinkNext]_linkVars

(* The module sends what it has queued and the interrupt is taken for      *)
(* every byte.                                                             *)
LinkFairSpec == LinkSpec /\ WF_linkVars(Receive)

-----------------------------------------------------------------------------
(* The head of the queue has been handled although bytes of it are still   *)
(* to come: the LF after the CR that ended the line.                       *)
HeadHandled == queue # <<>> /\ Head(queue).kind # "frame" /\ pos + 1 = WireLen(Head(queue))

AbstractInbox == INSTANCE Inbox WITH
  Message    <- Msg,
  LineMax    <- LineCap - 1,
  RequestMax <- PayloadCap - 1,
  inflight   <- IF HeadHandled THEN Tail(queue) ELSE queue,
  registered <- http_request_handler

(* The interrupt handler implements the channel of whole messages: framing *)
(* by terminators and by byte counts never loses, splits, merges or        *)
(* reorders messages, whatever bytes a payload holds, and every message is *)
(* delivered (or dropped, where the channel may) at last.                  *)
ImplementsInbox == AbstractInbox!FairSpec

(* What the byte stream has brought so far, relative to the message being  *)
(* received: the line buffer or the payload buffer holds the part of it    *)
(* that has arrived, and the count of the bytes to come is right.          *)
InSync ==
  IF queue = <<>> THEN pos = 0 /\ ~receiving_ipd_payload /\ buffer_isr = <<>>
  ELSE LET m == Head(queue) IN
    /\ pos \in 0..(WireLen(m) - 1)
    /\ pos = 0 => ~receiving_ipd_payload /\ buffer_isr = <<>>
    /\ m.kind = "line" =>
         /\ ~receiving_ipd_payload
         /\ pos \in 1..Len(m.text) =>
              ~terminated /\ buffer_isr = AbstractInbox!Truncate(SubSeq(m.text, 1, pos), LineCap - 1)
         /\ pos = Len(m.text) + 1 => terminated /\ buffer_isr = <<>>
    /\ m.kind = "blank" => ~receiving_ipd_payload /\ buffer_isr = <<>> /\ (pos = 1 => terminated)
    /\ m.kind = "frame" =>
         /\ pos = 1 => ~receiving_ipd_payload /\ buffer_isr = <<<<m.link, Len(m.data)>>>>
         /\ pos >= 2 =>
              /\ receiving_ipd_payload
              /\ buffer_isr = <<>>
              /\ ipd_link_id = m.link
              /\ ipd_bytes_remaining = WireLen(m) - pos
              /\ ipd_payload = AbstractInbox!Truncate(SubSeq(m.data, 1, pos - 2), PayloadCap - 1)
=============================================================================
