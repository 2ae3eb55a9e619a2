------------------------------ MODULE RxProofs ------------------------------
(***************************************************************************)
(* The safety properties of RxIsr, RxLink and RxOverrun, for every size of *)
(* the buffers.  Those of RxIsr hold of every stream of bytes and are inductive*)
(* together: the countdown is sound because an empty frame never enters    *)
(* count mode, and the buffers stay in bounds because Store() keeps one    *)
(* position free.  On a stream of well-formed messages the handler is in   *)
(* step with the stream, and so implements the channel of whole messages:  *)
(* there is a lemma for each place a byte can have in a message.  When     *)
(* bytes are lost it is not in step with the stream any more, but it still *)
(* implements RxIsr, and what holds of every stream holds of this one.     *)
(***************************************************************************)
EXTENDS RxOverrun, SequenceTheorems, TLAPS

RxInv == RxTypeOK /\ BuffersInBounds /\ CountdownSound

(* A buffer whose index is zero holds nothing.                             *)
LEMMA EmptyBuffer == <<>> \in Seq(Byte)
  OBVIOUS

(* What usart2_isr() stores keeps a buffer a sequence of bytes that leaves *)
(* room for the NUL.                                                       *)
LEMMA StoreInBounds ==
  ASSUME NEW buffer \in Seq(Byte), NEW c \in Byte, NEW cap \in Nat, Len(buffer) < cap
  PROVE  Store(buffer, c, cap) \in Seq(Byte) /\ Len(Store(buffer, c, cap)) < cap
  BY DEF Store

(* A header that parse_ipd_header() accepts names a link in range, and its *)
(* length is a uint16_t.                                                   *)
LEMMA AcceptedHeader ==
  ASSUME NEW line \in Seq(Byte), StartsWithIpd(line), EntersPayload(line)
  PROVE  line[1][1] \in 0..MaxLinkId /\ HeaderLen(line) \in 1..(UINT16 - 1)
<1>1. Head(line) \in Header /\ Head(line) = line[1]
  BY DEF StartsWithIpd
<1>2. line[1][2] \in Int
  BY <1>1, LinkAssumption DEF Header
<1>3. line[1][1] \in 0..MaxLinkId /\ HeaderLen(line) > 0
  BY DEF EntersPayload, parse_ipd_header
<1>4. HeaderLen(line) \in 0..(UINT16 - 1)
  BY <1>2, WidthAssumption DEF HeaderLen
<1> QED  BY <1>3, <1>4, WidthAssumption

(* Initially nothing has been received.                                    *)
LEMMA RxInitInv == RxInit => RxInv
<1> SUFFICES ASSUME RxInit PROVE RxInv
  OBVIOUS
<1>1. terminated \in BOOLEAN /\ receiving_ipd_payload \in BOOLEAN /\ http_request_handler \in BOOLEAN
  BY Zenon DEF RxInit
<1>2. RxTypeOK
  BY <1>1, LinkAssumption, WidthAssumption DEF RxInit, RxTypeOK, Upcall
<1>3. BuffersInBounds
  BY CapAssumption DEF RxInit, BuffersInBounds, NoCall
<1>4. CountdownSound
  BY DEF RxInit, CountdownSound
<1> QED  BY <1>2, <1>3, <1>4 DEF RxInv

(* A byte of a payload keeps the invariant: the count is positive before,  *)
(* so that it does not wrap.                                               *)
LEMMA PayloadByteInv == ASSUME RxInv, NEW c \in Byte, PayloadByte(c) PROVE RxInv'
<1> DEFINE payload == Store(ipd_payload, c, PayloadCap)
           left    == (ipd_bytes_remaining - 1) % UINT16
<1>1. payload \in Seq(Byte) /\ Len(payload) < PayloadCap
  BY StoreInBounds, CapAssumption DEF RxInv, RxTypeOK, BuffersInBounds
<1>2. left = ipd_bytes_remaining - 1 /\ left \in 0..(UINT16 - 1)
  BY WidthAssumption DEF PayloadByte, RxInv, RxTypeOK, CountdownSound
<1>3. upcall' = NoCall \/ upcall' = FrameCall(ipd_link_id, payload)
  BY DEF PayloadByte, handle_ipd_frame
<1>4. ipd_payload' = <<>> \/ ipd_payload' = payload
  BY DEF PayloadByte
<1>5. RxTypeOK'
  BY <1>1, <1>2, <1>3, <1>4
  DEF PayloadByte, RxInv, RxTypeOK, NoCall, Upcall, FrameCall
<1>6. BuffersInBounds'
  BY <1>1, <1>3, <1>4, CapAssumption
  DEF PayloadByte, RxInv, BuffersInBounds, NoCall, Upcall, FrameCall
<1>7. CountdownSound'
  <2>1. CASE left = 0
    <3>1. receiving_ipd_payload' = FALSE /\ ipd_bytes_remaining' = 0 /\ ipd_payload' = <<>>
      BY <2>1, Zenon DEF PayloadByte
    <3> QED  BY <3>1 DEF CountdownSound
  <2>2. CASE left # 0
    <3>1. receiving_ipd_payload' = TRUE /\ ipd_bytes_remaining' = left
      BY <2>2, Zenon DEF PayloadByte
    <3> QED  BY <1>2, <2>2, <3>1 DEF CountdownSound
  <2> QED  BY <2>1, <2>2
<1> QED  BY <1>5, <1>6, <1>7 DEF RxInv

(* The byte that ends a line keeps the invariant: the line that is copied  *)
(* into buffer_handle is within its bounds.                                *)
LEMMA TerminatorByteInv == ASSUME RxInv, NEW c \in Byte, TerminatorByte(c) PROVE RxInv'
<1>1. upcall' = NoCall \/ upcall' = LineCall(buffer_isr)
  BY DEF TerminatorByte
<1>2. buffer_isr' = <<>> \/ buffer_isr' = buffer_isr
  BY DEF TerminatorByte
<1>3. RxTypeOK'
  <2>1. upcall' \in Upcall
    BY <1>1 DEF RxInv, RxTypeOK, Upcall, LineCall
  <2>2. terminated' \in BOOLEAN /\ receiving_ipd_payload' \in BOOLEAN /\ http_request_handler' \in BOOLEAN
    BY Zenon DEF TerminatorByte, RxInv, RxTypeOK
  <2>3. buffer_isr' \in Seq(Byte)
    BY <1>2, EmptyBuffer DEF RxInv, RxTypeOK
  <2>4. UNCHANGED <<ipd_bytes_remaining, ipd_link_id, ipd_payload>>
    BY DEF TerminatorByte
  <2> QED  BY <2>1, <2>2, <2>3, <2>4 DEF RxInv, RxTypeOK
<1>4. BuffersInBounds'
  BY <1>1, <1>2, CapAssumption
  DEF TerminatorByte, RxInv, BuffersInBounds, NoCall, Upcall, LineCall
<1>5. CountdownSound'
  BY DEF TerminatorByte, RxInv, CountdownSound
<1> QED  BY <1>3, <1>4, <1>5 DEF RxInv

(* Any other byte keeps the invariant: count mode is entered only with a   *)
(* positive count and an empty payload buffer.                             *)
LEMMA LineByteInv == ASSUME RxInv, NEW c \in Byte, LineByte(c) PROVE RxInv'
<1> DEFINE line == Store(buffer_isr, c, LineCap)
<1>1. line \in Seq(Byte) /\ Len(line) < LineCap
  BY StoreInBounds, CapAssumption DEF RxInv, RxTypeOK, BuffersInBounds
<1>2. ~receiving_ipd_payload /\ upcall' = NoCall /\ terminated' = FALSE
      /\ http_request_handler' = http_request_handler
  BY DEF LineByte
<1>3. terminated' \in BOOLEAN /\ receiving_ipd_payload' \in BOOLEAN /\ http_request_handler' \in BOOLEAN
  BY Zenon DEF LineByte, RxInv, RxTypeOK
<1>4. CASE c = Colon /\ StartsWithIpd(line) /\ EntersPayload(line)
  <2>1. line[1][1] \in 0..MaxLinkId /\ HeaderLen(line) \in 1..(UINT16 - 1)
    BY <1>1, <1>4, AcceptedHeader
  <2>2. /\ buffer_isr' = <<>> /\ ipd_link_id' = line[1][1] /\ ipd_payload' = <<>>
        /\ ipd_bytes_remaining' = HeaderLen(line) /\ receiving_ipd_payload' = TRUE
    BY <1>4 DEF LineByte
  <2>3. RxTypeOK'
    BY <1>2, <1>3, <2>1, <2>2 DEF RxInv, RxTypeOK, Upcall
  <2>4. BuffersInBounds'
    BY <1>2, <2>2, CapAssumption DEF BuffersInBounds, NoCall
  <2>5. CountdownSound'
    BY <2>1, <2>2 DEF CountdownSound
  <2> QED  BY <2>3, <2>4, <2>5 DEF RxInv
<1>5. CASE ~(c = Colon /\ StartsWithIpd(line) /\ EntersPayload(line))
  <2>1. buffer_isr' = <<>> \/ buffer_isr' = line
    BY DEF LineByte
  <2>2. UNCHANGED <<ipd_link_id, ipd_bytes_remaining, ipd_payload, receiving_ipd_payload>>
    BY <1>5 DEF LineByte
  <2>3. RxTypeOK'
    <3>1. buffer_isr' \in Seq(Byte)
      BY <1>1, <2>1, EmptyBuffer
    <3> QED  BY <1>2, <1>3, <2>2, <3>1 DEF RxInv, RxTypeOK, Upcall
  <2>4. BuffersInBounds'
    BY <1>1, <1>2, <2>1, <2>2, CapAssumption DEF RxInv, BuffersInBounds, NoCall
  <2>5. CountdownSound'
    BY <2>2 DEF RxInv, CountdownSound
  <2> QED  BY <2>3, <2>4, <2>5 DEF RxInv
<1> QED  BY <1>4, <1>5

(* No step of the component leaves the invariant.                          *)
LEMMA RxStepInv == RxInv /\ [RxNext]_rxVars => RxInv'
<1> SUFFICES ASSUME RxInv, [RxNext]_rxVars PROVE RxInv'
  OBVIOUS
<1>1. ASSUME NEW c \in Byte, usart2_isr(c) PROVE RxInv'
  BY <1>1, PayloadByteInv, TerminatorByteInv, LineByteInv DEF usart2_isr
<1>2. ASSUME NEW registered \in BOOLEAN, esp8266_set_http_request_handler(registered)
      PROVE RxInv'
  BY <1>2 DEF esp8266_set_http_request_handler, RxInv, RxTypeOK, BuffersInBounds, CountdownSound
<1>3. CASE UNCHANGED rxVars
  BY <1>3 DEF rxVars, RxInv, RxTypeOK, BuffersInBounds, CountdownSound
<1> QED  BY <1>1, <1>2, <1>3 DEF RxNext

(* The state of usart2_isr() is type correct whatever bytes arrive.        *)
THEOREM RxTypeCorrect == RxSpec => []RxTypeOK
<1>1. RxInv => RxTypeOK
  BY DEF RxInv
<1> QED  BY <1>1, RxInitInv, RxStepInv, PTL DEF RxSpec

(* No byte stream makes usart2_isr() write outside its buffers.            *)
THEOREM RxBuffersInBounds == RxSpec => []BuffersInBounds
<1>1. RxInv => BuffersInBounds
  BY DEF RxInv
<1> QED  BY <1>1, RxInitInv, RxStepInv, PTL DEF RxSpec

(* No byte stream makes the 16-bit countdown of a payload wrap.            *)
THEOREM RxCountdownSound == RxSpec => []CountdownSound
<1>1. RxInv => CountdownSound
  BY DEF RxInv
<1> QED  BY <1>1, RxInitInv, RxStepInv, PTL DEF RxSpec

-----------------------------------------------------------------------------
(* What the receive path keeps between two bytes.                          *)
LinkInv == RxInv /\ queue \in Seq(Msg) /\ pos \in Nat /\ InSync

(* The messages the handler has not delivered: the refinement mapping.     *)
Undelivered == IF HeadHandled THEN Tail(queue) ELSE queue

Truncate(s, n) == AbstractInbox!Truncate(s, n)

(* A prefix that a buffer holds up to its capacity, and the byte after it, *)
(* make what the buffer should hold of the longer prefix.                  *)
LEMMA TruncateStore ==
  ASSUME NEW s \in Seq(Byte), NEW i \in 0..(Len(s) - 1), NEW n \in Nat
  PROVE  Truncate(SubSeq(s, 1, i + 1), n) = Store(Truncate(SubSeq(s, 1, i), n), s[i + 1], n + 1)
<1> DEFINE old == SubSeq(s, 1, i)
           new == SubSeq(s, 1, i + 1)
<1>1. /\ old \in Seq(Byte) /\ Len(old) = i /\ \A j \in 1..i : old[j] = s[j]
      /\ new \in Seq(Byte) /\ Len(new) = i + 1 /\ \A j \in 1..(i + 1) : new[j] = s[j]
  OBVIOUS
<1>2. CASE i < n
  <2>1. Truncate(old, n) = old /\ Truncate(new, n) = new
    BY <1>1, <1>2 DEF Truncate, AbstractInbox!Truncate
  <2>2. new = Append(old, s[i + 1])
    BY <1>1, SeqEqual
  <2>3. ASSUME NEW b \in Seq(Byte), Len(b) = i
        PROVE  Store(b, s[i + 1], n + 1) = Append(b, s[i + 1])
    BY <1>2, <2>3 DEF Store
  <2> QED  BY <1>1, <2>1, <2>2, <2>3, Zenon
<1>3. CASE i >= n
  <2>1. /\ Truncate(old, n) \in Seq(Byte) /\ Len(Truncate(old, n)) = n
        /\ \A j \in 1..n : Truncate(old, n)[j] = s[j]
    BY <1>1, <1>3 DEF Truncate, AbstractInbox!Truncate
  <2>2. /\ Truncate(new, n) \in Seq(Byte) /\ Len(Truncate(new, n)) = n
        /\ \A j \in 1..n : Truncate(new, n)[j] = s[j]
    BY <1>1, <1>3 DEF Truncate, AbstractInbox!Truncate
  <2>3. Truncate(new, n) = Truncate(old, n)
    BY <2>1, <2>2, SeqEqual
  <2> QED  BY <2>1, <2>3 DEF Store
<1> QED  BY <1>2, <1>3

(* What a buffer with room for one symbol holds of a non-empty prefix      *)
(* starts like it.                                                         *)
LEMMA TruncateHead ==
  ASSUME NEW s \in Seq(Byte), NEW i \in 1..Len(s), NEW n \in Nat, n >= 1
  PROVE  Truncate(SubSeq(s, 1, i), n) # <<>> /\ Head(Truncate(SubSeq(s, 1, i), n)) = s[1]
<1>1. /\ SubSeq(s, 1, i) \in Seq(Byte) /\ Len(SubSeq(s, 1, i)) >= 1 /\ SubSeq(s, 1, i)[1] = s[1]
  OBVIOUS
<1>2. ASSUME NEW b \in Seq(Byte), Len(b) >= 1
      PROVE  Truncate(b, n) # <<>> /\ Head(Truncate(b, n)) = b[1]
  <2>1. CASE Len(b) <= n
    BY <1>2, <2>1 DEF Truncate, AbstractInbox!Truncate
  <2>2. CASE Len(b) > n
    <3>1. SubSeq(b, 1, n) \in Seq(Byte) /\ Len(SubSeq(b, 1, n)) = n /\ SubSeq(b, 1, n)[1] = b[1]
      BY <2>2
    <3> QED  BY <2>2, <3>1 DEF Truncate, AbstractInbox!Truncate
  <2> QED  BY <2>1, <2>2
<1> QED  BY <1>1, <1>2, Zenon

(* The messages of the module, by kind.                                    *)
LEMMA MessageFacts ==
  ASSUME NEW m \in Msg
  PROVE  /\ m.kind \in {"line", "frame", "blank"}
         /\ m.kind = "line" => /\ m.text \in Seq(Byte \ {CR, LF}) /\ m.text \in Seq(Byte)
                               /\ Len(m.text) \in Nat /\ Len(m.text) >= 1 /\ m.text[1] \notin Header
         /\ m.kind = "frame" => /\ m.data \in Seq(Byte) /\ Len(m.data) \in 1..(UINT16 - 1)
                                /\ m.link \in 0..MaxLinkId /\ <<m.link, Len(m.data)>> \in Header
         /\ WireLen(m) \in Nat /\ WireLen(m) >= 2
<1>1. ASSUME NEW s \in LineTexts, m = LineMsg(s)
      PROVE  /\ m.kind = "line" /\ m.text = s /\ s \in Seq(Byte \ {CR, LF}) /\ s \in Seq(Byte)
             /\ Len(s) \in Nat /\ Len(s) >= 1 /\ s[1] \notin Header
  <2>1. s \in Seq(Byte \ {CR, LF}) /\ s # <<>> /\ s[1] \notin Header
    BY MessageAssumption
  <2>2. s \in Seq(Byte)
    BY <2>1, SeqMonotonic
  <2> QED  BY <1>1, <2>1, <2>2 DEF LineMsg
<1>2. ASSUME NEW l \in Links, NEW d \in Payloads, m = FrameMsg(l, d)
      PROVE  /\ m.kind = "frame" /\ m.link = l /\ m.data = d /\ d \in Seq(Byte)
             /\ Len(d) \in 1..(UINT16 - 1) /\ l \in 0..MaxLinkId /\ <<l, Len(d)>> \in Header
  BY <1>2, MessageAssumption DEF FrameMsg
<1>3. CASE m = BlankMsg
  BY <1>3 DEF BlankMsg, WireLen
<1>4. ASSUME NEW s \in LineTexts, m = LineMsg(s)
      PROVE  WireLen(m) = Len(s) + 2
  BY <1>1, <1>4 DEF WireLen
<1>5. ASSUME NEW l \in Links, NEW d \in Payloads, m = FrameMsg(l, d)
      PROVE  WireLen(m) = Len(d) + 2
  BY <1>2, <1>5 DEF WireLen
<1>6. CASE \E s \in LineTexts : m = LineMsg(s)
  <2>1. PICK s \in LineTexts : m = LineMsg(s)
    BY <1>6
  <2> QED  BY <1>1, <1>4, <2>1
<1>7. CASE \E l \in Links, d \in Payloads : m = FrameMsg(l, d)
  <2>1. PICK l \in Links, d \in Payloads : m = FrameMsg(l, d)
    BY <1>7
  <2>2. WireLen(m) \in Nat /\ WireLen(m) >= 2
    BY <1>2, <1>5, <2>1, WidthAssumption
  <2> QED  BY <1>2, <2>1, <2>2
<1> QED  BY <1>3, <1>6, <1>7 DEF Msg

(* Every symbol on the wire is one the interrupt handler may be given.     *)
LEMMA WireBytes ==
  ASSUME NEW m \in Msg, NEW i \in 1..WireLen(m)
  PROVE  WireByte(m, i) \in Byte
<1>1. CASE m.kind = "line"
  <2>1. WireLen(m) = Len(m.text) + 2 /\ m.text \in Seq(Byte)
    BY <1>1, MessageFacts DEF WireLen
  <2> QED  BY <1>1, <2>1 DEF WireByte, Byte
<1>2. CASE m.kind = "frame"
  <2>1. WireLen(m) = Len(m.data) + 2 /\ m.data \in Seq(Byte) /\ <<m.link, Len(m.data)>> \in Byte
    BY <1>2, MessageFacts DEF WireLen, Byte
  <2>2. Colon \in Byte
    BY DEF Byte
  <2> QED  BY <1>2, <2>1, <2>2 DEF WireByte
<1>3. CASE m.kind = "blank"
  BY <1>3 DEF WireByte, Byte
<1> QED  BY <1>1, <1>2, <1>3, MessageFacts

(* What holds whenever a byte arrives.                                     *)
LEMMA ReceiveFacts ==
  ASSUME LinkInv, Receive
  PROVE  /\ queue # <<>> /\ Head(queue) \in Msg /\ Tail(queue) \in Seq(Msg)
         /\ pos \in 0..(WireLen(Head(queue)) - 1)
         /\ WireByte(Head(queue), pos + 1) \in Byte
         /\ usart2_isr(WireByte(Head(queue), pos + 1)) /\ Advance /\ Record
         /\ http_request_handler' = http_request_handler
         /\ RxInv'
<1>1. queue # <<>> /\ queue \in Seq(Msg) /\ Head(queue) \in Msg /\ Tail(queue) \in Seq(Msg)
  BY HeadTailProperties DEF LinkInv, Receive
<1>2. pos \in 0..(WireLen(Head(queue)) - 1)
  BY <1>1 DEF LinkInv, InSync
<1>3. pos + 1 \in 1..WireLen(Head(queue))
  <2>1. WireLen(Head(queue)) \in Nat
    BY <1>1, MessageFacts, Zenon
  <2> QED  BY <1>2, <2>1
<1>4. WireByte(Head(queue), pos + 1) \in Byte
  BY <1>1, <1>3, WireBytes
<1>5. usart2_isr(WireByte(Head(queue), pos + 1)) /\ Advance /\ Record
  BY DEF Receive
<1>6. http_request_handler' = http_request_handler
  BY <1>5 DEF usart2_isr, PayloadByte, TerminatorByte, LineByte
<1>7. RxInv'
  BY <1>4, <1>5, PayloadByteInv, TerminatorByteInv, LineByteInv DEF usart2_isr, LinkInv
<1> QED  BY <1>1, <1>2, <1>4, <1>5, <1>6, <1>7

(* Between two messages nothing is buffered and nothing is counted: the    *)
(* handler is in step with whatever message comes next, all of which is    *)
(* still to be delivered.                                                  *)
LEMMA AtBoundary ==
  ASSUME queue' \in Seq(Msg), pos' = 0, ~receiving_ipd_payload', buffer_isr' = <<>>
  PROVE  InSync' /\ Undelivered' = queue'
<1>1. CASE queue' = <<>>
  BY <1>1 DEF InSync, Undelivered, HeadHandled
<1>2. CASE queue' # <<>>
  <2>1. Head(queue') \in Msg
    BY <1>2, HeadTailProperties
  <2>2. /\ WireLen(Head(queue')) \in Nat /\ WireLen(Head(queue')) >= 2
        /\ Head(queue').kind = "line" => Len(Head(queue').text) \in Nat /\ Len(Head(queue').text) >= 1
    BY <2>1, MessageFacts, Zenon
  <2>3. ~HeadHandled'
    BY <2>2 DEF HeadHandled
  <2>4. InSync'
    BY <1>2, <2>2 DEF InSync
  <2> QED  BY <2>3, <2>4 DEF Undelivered
<1> QED  BY <1>1, <1>2

(* A byte of the text of a line joins the line buffer, and nothing is      *)
(* delivered: a colon ends no header, since the line starts like none.     *)
LEMMA ReceiveText ==
  ASSUME LinkInv, Receive, Head(queue).kind = "line", pos < Len(Head(queue).text)
  PROVE  InSync' /\ UNCHANGED <<Undelivered, http_request_handler, handled>>
<1> DEFINE m == Head(queue)
           c == m.text[pos + 1]
           line == Truncate(SubSeq(m.text, 1, pos + 1), LineCap - 1)
<1>1. /\ m \in Msg /\ m.text \in Seq(Byte \ {CR, LF}) /\ m.text \in Seq(Byte)
      /\ Len(m.text) \in Nat /\ Len(m.text) >= 1 /\ m.text[1] \notin Header
  BY ReceiveFacts, MessageFacts, Zenon
<1>2. pos \in 0..(Len(m.text) - 1) /\ WireLen(m) = Len(m.text) + 2
  BY <1>1 DEF WireLen, LinkInv
<1>3. WireByte(m, pos + 1) = c /\ c \in Byte /\ c \notin {CR, LF}
  BY <1>1, <1>2 DEF WireByte
<1>4. queue' = queue /\ pos' = pos + 1
  BY <1>2, ReceiveFacts DEF Advance
<1>5. ~receiving_ipd_payload /\ buffer_isr = Truncate(SubSeq(m.text, 1, pos), LineCap - 1)
  <2>1. CASE pos = 0
    <3>1. SubSeq(m.text, 1, 0) = <<>> /\ Truncate(<<>>, LineCap - 1) = <<>>
      BY <1>1, CapAssumption DEF Truncate, AbstractInbox!Truncate
    <3> QED  BY <2>1, <3>1, ReceiveFacts DEF LinkInv, InSync
  <2>2. CASE pos \in 1..Len(m.text)
    BY <2>2, ReceiveFacts DEF LinkInv, InSync, Truncate
  <2> QED  BY <1>2, <2>1, <2>2
<1>6. line = Store(buffer_isr, c, LineCap)
  <2>1. LineCap - 1 \in Nat /\ (LineCap - 1) + 1 = LineCap
    BY CapAssumption
  <2> QED  BY <1>1, <1>2, <1>5, <2>1, TruncateStore
<1>7. ~StartsWithIpd(line)
  BY <1>1, <1>2, TruncateHead, CapAssumption DEF StartsWithIpd
<1>8. LineByte(c)
  BY <1>3, <1>5, ReceiveFacts DEF usart2_isr, PayloadByte, TerminatorByte
<1>9. /\ buffer_isr' = line /\ terminated' = FALSE /\ upcall' = NoCall
      /\ receiving_ipd_payload' = receiving_ipd_payload
  BY <1>6, <1>7, <1>8 DEF LineByte
<1>10. handled' = handled /\ http_request_handler' = http_request_handler
  BY <1>9, ReceiveFacts DEF Record
<1>11. ~HeadHandled /\ ~HeadHandled'
  BY <1>2, <1>4 DEF HeadHandled
<1>12. InSync'
  BY <1>1, <1>2, <1>4, <1>5, <1>9, ReceiveFacts DEF InSync, Truncate
<1> QED  BY <1>4, <1>10, <1>11, <1>12 DEF Undelivered

(* The CR after the text of a line hands the line over: the channel        *)
(* delivers it.                                                            *)
LEMMA ReceiveLineEnd ==
  ASSUME LinkInv, Receive, Head(queue).kind = "line", pos = Len(Head(queue).text)
  PROVE  InSync' /\ AbstractInbox!Deliver
<1> DEFINE m == Head(queue)
<1>1. /\ m \in Msg /\ m.text \in Seq(Byte) /\ queue # <<>>
      /\ Len(m.text) \in Nat /\ Len(m.text) >= 1
  BY ReceiveFacts, MessageFacts, Zenon
<1>2. WireLen(m) = Len(m.text) + 2 /\ WireByte(m, pos + 1) = CR
  BY <1>1 DEF WireLen, WireByte
<1>3. queue' = queue /\ pos' = pos + 1
  BY <1>1, <1>2, ReceiveFacts DEF Advance
<1>4. ~receiving_ipd_payload /\ ~terminated /\ buffer_isr = Truncate(m.text, LineCap - 1)
  <2>1. SubSeq(m.text, 1, pos) = m.text
    BY <1>1, SubSeqFull
  <2>2. pos \in 1..Len(m.text)
    BY <1>1
  <2>3. /\ ~receiving_ipd_payload /\ ~terminated
        /\ buffer_isr = Truncate(SubSeq(m.text, 1, pos), LineCap - 1)
    BY <1>1, <2>2 DEF LinkInv, InSync, Truncate
  <2> QED  BY <2>1, <2>3, Zenon
<1>5. TerminatorByte(CR)
  BY <1>2, <1>4, ReceiveFacts DEF usart2_isr, PayloadByte, LineByte
<1>6. /\ buffer_isr' = <<>> /\ terminated' = TRUE /\ upcall' = LineCall(buffer_isr)
      /\ receiving_ipd_payload' = receiving_ipd_payload
  BY <1>4, <1>5 DEF TerminatorByte
<1>7. /\ handled' = <<1 - handled[1], LineCall(buffer_isr)>>
      /\ http_request_handler' = http_request_handler
  BY <1>6, ReceiveFacts DEF Record, LineCall, NoCall
<1>8. ~HeadHandled /\ HeadHandled'
  BY <1>1, <1>2, <1>3 DEF HeadHandled
<1>9. InSync'
  BY <1>1, <1>2, <1>3, <1>4, <1>6 DEF InSync
<1>10. LineCall(buffer_isr) = AbstractInbox!Delivery(m)
  BY <1>4 DEF LineCall, Truncate, AbstractInbox!Delivery
<1>11. AbstractInbox!Deliver
  BY <1>1, <1>3, <1>7, <1>8, <1>10 DEF AbstractInbox!Deliver, AbstractInbox!MayDeliver
<1> QED  BY <1>9, <1>11

(* The LF that ends a message is ignored.                                  *)
LEMMA ReceiveLastTerminator ==
  ASSUME LinkInv, Receive, Head(queue).kind # "frame", pos + 1 = WireLen(Head(queue))
  PROVE  InSync' /\ UNCHANGED <<Undelivered, http_request_handler, handled>>
<1> DEFINE m == Head(queue)
<1>1. m \in Msg /\ queue # <<>> /\ m.kind \in {"line", "blank"} /\ pos \in Nat
  BY ReceiveFacts, MessageFacts DEF LinkInv
<1>2. m.kind = "line" => Len(m.text) \in Nat /\ Len(m.text) >= 1
  BY <1>1, MessageFacts, Zenon
<1>3. m.kind = "line" => pos = Len(m.text) + 1
  BY <1>1, <1>2 DEF WireLen
<1>4. m.kind = "blank" => pos = 1
  BY <1>1 DEF WireLen
<1>5. WireByte(m, pos + 1) = LF
  BY <1>1, <1>2, <1>3, <1>4 DEF WireByte
<1>6. ~receiving_ipd_payload /\ terminated /\ buffer_isr = <<>>
  BY <1>1, <1>3, <1>4 DEF LinkInv, InSync
<1>7. TerminatorByte(LF)
  BY <1>5, <1>6, ReceiveFacts DEF usart2_isr, PayloadByte, LineByte
<1>8. buffer_isr' = <<>> /\ upcall' = NoCall /\ receiving_ipd_payload' = receiving_ipd_payload
  BY <1>6, <1>7 DEF TerminatorByte
<1>9. handled' = handled /\ http_request_handler' = http_request_handler
  BY <1>8, ReceiveFacts DEF Record
<1>10. queue' = Tail(queue) /\ pos' = 0 /\ queue' \in Seq(Msg)
  BY ReceiveFacts DEF Advance
<1>11. InSync' /\ Undelivered' = Tail(queue)
  BY <1>6, <1>8, <1>10, AtBoundary
<1>12. Undelivered = Tail(queue)
  BY <1>1 DEF Undelivered, HeadHandled
<1> QED  BY <1>9, <1>11, <1>12

(* The CR of a blank line is ignored after another terminator and reported *)
(* as an empty line otherwise: the channel may do either.                  *)
LEMMA ReceiveBlank ==
  ASSUME LinkInv, Receive, Head(queue).kind = "blank", pos = 0
  PROVE  InSync' /\ (AbstractInbox!Deliver \/ AbstractInbox!Vanish)
<1> DEFINE m == Head(queue)
<1>1. m \in Msg /\ queue # <<>>
  BY ReceiveFacts
<1>2. WireLen(m) = 2 /\ WireByte(m, pos + 1) = CR
  BY DEF WireLen, WireByte
<1>3. queue' = queue /\ pos' = 1
  BY <1>2, ReceiveFacts DEF Advance
<1>4. ~receiving_ipd_payload /\ buffer_isr = <<>>
  BY <1>1 DEF LinkInv, InSync
<1>5. TerminatorByte(CR)
  BY <1>2, <1>4, ReceiveFacts DEF usart2_isr, PayloadByte, LineByte
<1>6. buffer_isr' = <<>> /\ terminated' = TRUE /\ receiving_ipd_payload' = receiving_ipd_payload
  BY <1>4, <1>5 DEF TerminatorByte
<1>7. ~HeadHandled /\ HeadHandled'
  BY <1>1, <1>2, <1>3 DEF HeadHandled
<1>8. InSync'
  BY <1>1, <1>2, <1>3, <1>4, <1>6 DEF InSync
<1>9. CASE terminated
  <2>1. upcall' = NoCall
    BY <1>5, <1>9 DEF TerminatorByte
  <2>2. handled' = handled /\ http_request_handler' = http_request_handler
    BY <2>1, ReceiveFacts DEF Record
  <2>3. AbstractInbox!Vanish
    BY <1>1, <1>3, <1>7, <2>2 DEF AbstractInbox!Vanish, AbstractInbox!MayVanish
  <2> QED  BY <1>8, <2>3
<1>10. CASE ~terminated
  <2>1. upcall' = LineCall(<<>>)
    BY <1>4, <1>5, <1>10 DEF TerminatorByte
  <2>2. /\ handled' = <<1 - handled[1], LineCall(<<>>)>>
        /\ http_request_handler' = http_request_handler
    BY <2>1, ReceiveFacts DEF Record, LineCall, NoCall
  <2>3. LineCall(<<>>) = AbstractInbox!Delivery(m)
    BY DEF LineCall, AbstractInbox!Delivery
  <2>4. AbstractInbox!Deliver
    BY <1>1, <1>3, <1>7, <2>2, <2>3 DEF AbstractInbox!Deliver, AbstractInbox!MayDeliver
  <2> QED  BY <1>8, <2>4
<1> QED  BY <1>9, <1>10

(* The text "+IPD,<link>,<len>" of a frame fills the line buffer.          *)
LEMMA ReceiveHeader ==
  ASSUME LinkInv, Receive, Head(queue).kind = "frame", pos = 0
  PROVE  InSync' /\ UNCHANGED <<Undelivered, http_request_handler, handled>>
<1> DEFINE m == Head(queue)
           c == <<m.link, Len(m.data)>>
<1>1. m \in Msg /\ queue # <<>> /\ c \in Header /\ Len(m.data) \in 1..(UINT16 - 1)
  BY ReceiveFacts, MessageFacts, Zenon
<1>2. WireLen(m) = Len(m.data) + 2 /\ WireByte(m, pos + 1) = c
  BY <1>1 DEF WireLen, WireByte
<1>3. queue' = queue /\ pos' = 1
  BY <1>1, <1>2, ReceiveFacts, WidthAssumption DEF Advance
<1>4. ~receiving_ipd_payload /\ buffer_isr = <<>>
  BY <1>1 DEF LinkInv, InSync
<1>5. c \notin {CR, LF, Colon}
  BY <1>1, ByteAssumption
<1>6. LineByte(c)
  BY <1>2, <1>4, <1>5, ReceiveFacts DEF usart2_isr, PayloadByte, TerminatorByte
<1>7. Store(buffer_isr, c, LineCap) = <<c>>
  BY <1>4, CapAssumption DEF Store
<1>8. buffer_isr' = <<c>> /\ upcall' = NoCall /\ receiving_ipd_payload' = receiving_ipd_payload
  BY <1>5, <1>6, <1>7 DEF LineByte
<1>9. handled' = handled /\ http_request_handler' = http_request_handler
  BY <1>8, ReceiveFacts DEF Record
<1>10. ~HeadHandled /\ ~HeadHandled'
  BY <1>3 DEF HeadHandled
<1>11. InSync'
  BY <1>1, <1>2, <1>3, <1>4, <1>8, WidthAssumption DEF InSync
<1> QED  BY <1>3, <1>9, <1>10, <1>11 DEF Undelivered

(* The colon completes the header: the handler counts the announced bytes  *)
(* from here on, and its payload buffer is empty.                          *)
LEMMA ReceiveColon ==
  ASSUME LinkInv, Receive, Head(queue).kind = "frame", pos = 1
  PROVE  InSync' /\ UNCHANGED <<Undelivered, http_request_handler, handled>>
<1> DEFINE m == Head(queue)
           c == <<m.link, Len(m.data)>>
           line == <<c, Colon>>
<1>1. /\ m \in Msg /\ queue # <<>> /\ c \in Header /\ Len(m.data) \in 1..(UINT16 - 1)
      /\ m.data \in Seq(Byte) /\ m.link \in 0..MaxLinkId
  BY ReceiveFacts, MessageFacts, Zenon
<1>2. WireLen(m) = Len(m.data) + 2 /\ WireByte(m, pos + 1) = Colon
  BY <1>1 DEF WireLen, WireByte
<1>3. queue' = queue /\ pos' = 2
  BY <1>1, <1>2, ReceiveFacts, WidthAssumption DEF Advance
<1>4. ~receiving_ipd_payload /\ buffer_isr = <<c>>
  BY <1>1 DEF LinkInv, InSync
<1>5. LineByte(Colon)
  BY <1>2, <1>4, ByteAssumption, ReceiveFacts DEF usart2_isr, PayloadByte, TerminatorByte
<1>6. Store(buffer_isr, Colon, LineCap) = line
  <2>1. ASSUME NEW d \in Byte PROVE Store(<<d>>, Colon, LineCap) = <<d, Colon>>
    <3>1. <<d>> \in Seq(Byte) /\ Len(<<d>>) = 1 /\ <<d>>[1] = d
      OBVIOUS
    <3>2. <<d, Colon>> \in Seq(Byte) /\ Len(<<d, Colon>>) = 2
      BY DEF Byte
    <3>3. /\ Append(<<d>>, Colon) \in Seq(Byte) /\ Len(Append(<<d>>, Colon)) = 2
          /\ Append(<<d>>, Colon)[1] = d /\ Append(<<d>>, Colon)[2] = Colon
      BY <3>1, AppendProperties DEF Byte
    <3>4. \A i \in 1..2 : Append(<<d>>, Colon)[i] = <<d, Colon>>[i]
      BY <3>3
    <3>5. Append(<<d>>, Colon) = <<d, Colon>>
      <4> DEFINE x == Append(<<d>>, Colon)
                 y == <<d, Colon>>
      <4>1. x \in Seq(Byte) /\ y \in Seq(Byte) /\ Len(x) = Len(y) /\ \A i \in 1..Len(x) : x[i] = y[i]
        BY <3>2, <3>3, <3>4
      <4> HIDE DEF x, y
      <4>2. x = y
        BY <4>1, SeqEqual
      <4> QED  BY <4>2 DEF x, y
    <3> QED  BY <3>1, <3>5, CapAssumption DEF Store
  <2>2. c \in Byte
    BY <1>1 DEF Byte
  <2> QED  BY <1>4, <2>1, <2>2, Zenon
<1>7. StartsWithIpd(line)
  BY <1>1 DEF StartsWithIpd
<1>8. HeaderLen(line) = Len(m.data)
  <2>1. ASSUME NEW n \in 1..(UINT16 - 1) PROVE n % UINT16 = n
    BY WidthAssumption
  <2>2. line[1][2] = Len(m.data)
    OBVIOUS
  <2> QED  BY <1>1, <2>1, <2>2, Zenon DEF HeaderLen
<1>9. EntersPayload(line)
  BY <1>1, <1>8 DEF EntersPayload, parse_ipd_header
<1>10. /\ buffer_isr' = <<>> /\ upcall' = NoCall /\ receiving_ipd_payload' = TRUE
       /\ ipd_link_id' = m.link /\ ipd_bytes_remaining' = Len(m.data) /\ ipd_payload' = <<>>
  BY <1>5, <1>6, <1>7, <1>8, <1>9 DEF LineByte
<1>11. handled' = handled /\ http_request_handler' = http_request_handler
  BY <1>10, ReceiveFacts DEF Record
<1>12. ~HeadHandled /\ ~HeadHandled'
  BY <1>3 DEF HeadHandled
<1>13. Truncate(SubSeq(m.data, 1, 0), PayloadCap - 1) = <<>>
  BY <1>1, CapAssumption DEF Truncate, AbstractInbox!Truncate
<1>14. InSync'
  BY <1>1, <1>2, <1>3, <1>10, <1>13, WidthAssumption DEF InSync, Truncate
<1> QED  BY <1>3, <1>11, <1>12, <1>14 DEF Undelivered

(* A byte of the data of a frame is counted, and stored while there is     *)
(* room, whatever byte it is.                                              *)
LEMMA DataByte ==
  ASSUME LinkInv, Receive, Head(queue).kind = "frame", pos >= 2
  PROVE  LET m == Head(queue)
             payload == Truncate(SubSeq(m.data, 1, pos - 1), PayloadCap - 1)
             left == WireLen(m) - (pos + 1)
         IN  /\ WireLen(m) = Len(m.data) + 2 /\ left \in Nat
             /\ ipd_bytes_remaining' = left
             /\ receiving_ipd_payload' = (left # 0)
             /\ ipd_payload' = IF left = 0 THEN <<>> ELSE payload
             /\ upcall' = IF left = 0 THEN handle_ipd_frame(payload) ELSE NoCall
             /\ buffer_isr' = <<>>
             /\ ipd_link_id' = m.link /\ ipd_link_id = m.link
<1> DEFINE m == Head(queue)
           c == m.data[pos - 1]
           payload == Truncate(SubSeq(m.data, 1, pos - 1), PayloadCap - 1)
           left == WireLen(m) - (pos + 1)
<1>1. /\ m \in Msg /\ queue # <<>> /\ Len(m.data) \in 1..(UINT16 - 1) /\ m.data \in Seq(Byte)
  BY ReceiveFacts, MessageFacts, Zenon
<1>2. WireLen(m) = Len(m.data) + 2
  BY <1>1 DEF WireLen
<1>3. pos \in Nat /\ pos - 2 \in 0..(Len(m.data) - 1) /\ left \in 0..(UINT16 - 2)
  <2>1. pos \in 0..(WireLen(m) - 1)
    BY ReceiveFacts, Zenon
  <2> QED  BY <1>1, <1>2, <2>1, WidthAssumption
<1>4. WireByte(m, pos + 1) = c
  BY <1>1, <1>3 DEF WireByte
<1>5. /\ receiving_ipd_payload /\ buffer_isr = <<>> /\ ipd_link_id = m.link
      /\ ipd_bytes_remaining = left + 1
      /\ ipd_payload = Truncate(SubSeq(m.data, 1, pos - 2), PayloadCap - 1)
  BY <1>1, <1>2, <1>3 DEF LinkInv, InSync, Truncate
<1>6. PayloadByte(c)
  BY <1>4, <1>5, ReceiveFacts DEF usart2_isr, TerminatorByte, LineByte
<1>7. Store(ipd_payload, c, PayloadCap) = payload
  <2>1. PayloadCap - 1 \in Nat /\ (PayloadCap - 1) + 1 = PayloadCap /\ (pos - 2) + 1 = pos - 1
    BY <1>3, CapAssumption
  <2> QED  BY <1>1, <1>3, <1>5, <2>1, TruncateStore
<1>8. (ipd_bytes_remaining - 1) % UINT16 = left
  <2>1. ASSUME NEW n \in 0..(UINT16 - 2) PROVE ((n + 1) - 1) % UINT16 = n
    BY WidthAssumption
  <2> QED  BY <1>3, <1>5, <2>1, Zenon
<1>9. /\ ipd_bytes_remaining' = left /\ buffer_isr' = <<>> /\ ipd_link_id' = m.link
      /\ receiving_ipd_payload' = (left # 0)
      /\ ipd_payload' = IF left = 0 THEN <<>> ELSE payload
      /\ upcall' = IF left = 0 THEN handle_ipd_frame(payload) ELSE NoCall
  BY <1>5, <1>6, <1>7, <1>8, Zenon DEF PayloadByte
<1> QED  BY <1>2, <1>3, <1>5, <1>9

(* A byte of the data that is not the last one delivers nothing.           *)
LEMMA ReceiveData ==
  ASSUME LinkInv, Receive, Head(queue).kind = "frame", pos >= 2, pos + 1 # WireLen(Head(queue))
  PROVE  InSync' /\ UNCHANGED <<Undelivered, http_request_handler, handled>>
<1> DEFINE m == Head(queue)
           left == WireLen(m) - (pos + 1)
<1>1. queue # <<>> /\ pos \in 0..(WireLen(m) - 1) /\ http_request_handler' = http_request_handler
  BY ReceiveFacts, Zenon
<1>2. WireLen(m) \in Nat /\ left # 0
  <2>1. WireLen(m) \in Nat
    BY ReceiveFacts, MessageFacts, Zenon
  <2> QED  BY <1>1, <2>1
<1>3. queue' = queue /\ pos' = pos + 1
  BY ReceiveFacts DEF Advance
<1>4. /\ WireLen(m) = Len(m.data) + 2 /\ ipd_bytes_remaining' = left /\ ipd_link_id' = m.link
      /\ receiving_ipd_payload' = TRUE /\ upcall' = NoCall /\ buffer_isr' = <<>>
      /\ ipd_payload' = Truncate(SubSeq(m.data, 1, pos - 1), PayloadCap - 1)
  BY <1>2, DataByte, Zenon
<1>5. handled' = handled
  BY <1>4, ReceiveFacts DEF Record
<1>6. ~HeadHandled /\ ~HeadHandled'
  BY <1>3 DEF HeadHandled
<1>7. InSync'
  <2>1. pos' \in 0..(WireLen(m) - 1) /\ pos' >= 2 /\ pos' - 2 = pos - 1 /\ left = WireLen(m) - pos'
    BY <1>1, <1>2, <1>3
  <2>2. Head(queue') = m /\ queue' # <<>>
    BY <1>1, <1>3
  <2>3. pos' # 0 /\ pos' # 1
    BY <2>1
  <2> QED  BY <1>4, <2>1, <2>2, <2>3, Zenon DEF InSync, Truncate
<1> QED  BY <1>1, <1>3, <1>5, <1>6, <1>7 DEF Undelivered

(* The last byte of the data hands the frame over, or drops it while no    *)
(* handler is registered; the next byte is the first one of a message.     *)
LEMMA ReceiveFrameEnd ==
  ASSUME LinkInv, Receive, Head(queue).kind = "frame", pos >= 2, pos + 1 = WireLen(Head(queue))
  PROVE  InSync' /\ (AbstractInbox!Deliver \/ AbstractInbox!Vanish)
<1> DEFINE m == Head(queue)
           left == WireLen(m) - (pos + 1)
           payload == Truncate(m.data, PayloadCap - 1)
<1>1. /\ queue # <<>> /\ m \in Msg /\ m.data \in Seq(Byte) /\ pos \in 0..(WireLen(m) - 1)
      /\ WireLen(m) \in Nat /\ http_request_handler' = http_request_handler
  BY ReceiveFacts, MessageFacts, Zenon
<1>2. left = 0
  BY <1>1
<1>3. queue' = Tail(queue) /\ pos' = 0 /\ queue' \in Seq(Msg)
  BY ReceiveFacts DEF Advance
<1>4. /\ WireLen(m) = Len(m.data) + 2 /\ ipd_link_id = m.link
      /\ receiving_ipd_payload' = FALSE /\ buffer_isr' = <<>>
      /\ upcall' = handle_ipd_frame(Truncate(SubSeq(m.data, 1, pos - 1), PayloadCap - 1))
  BY <1>2, DataByte, Zenon
<1>5. SubSeq(m.data, 1, pos - 1) = m.data
  <2>1. pos - 1 = Len(m.data)
    BY <1>1, <1>4
  <2> QED  BY <1>1, <2>1, SubSeqFull, Zenon
<1>6. upcall' = handle_ipd_frame(payload)
  BY <1>4, <1>5, Zenon
<1>7. InSync' /\ Undelivered' = Tail(queue)
  BY <1>3, <1>4, AtBoundary
<1>8. Undelivered = queue
  BY DEF Undelivered, HeadHandled
<1>9. CASE http_request_handler
  <2>1. upcall' = FrameCall(m.link, payload)
    BY <1>4, <1>6, <1>9 DEF handle_ipd_frame
  <2>2. handled' = <<1 - handled[1], FrameCall(m.link, payload)>>
    BY <2>1, ReceiveFacts DEF Record, FrameCall, NoCall
  <2>3. FrameCall(m.link, payload) = AbstractInbox!Delivery(m)
    BY DEF FrameCall, Truncate, AbstractInbox!Delivery
  <2>4. AbstractInbox!Deliver
    BY <1>1, <1>7, <1>8, <1>9, <2>2, <2>3
    DEF AbstractInbox!Deliver, AbstractInbox!MayDeliver, Undelivered
  <2> QED  BY <1>7, <2>4
<1>10. CASE ~http_request_handler
  <2>1. handled' = handled
    BY <1>6, <1>10, ReceiveFacts DEF Record, handle_ipd_frame
  <2>2. AbstractInbox!Vanish
    BY <1>1, <1>7, <1>8, <1>10, <2>1
    DEF AbstractInbox!Vanish, AbstractInbox!MayVanish, Undelivered
  <2> QED  BY <1>7, <2>2
<1> QED  BY <1>9, <1>10

(* A byte that arrives keeps the handler in step with the stream, and is   *)
(* one delivery of the channel or none.                                    *)
LEMMA ReceiveStep ==
  ASSUME LinkInv, Receive
  PROVE  LinkInv' /\ (\/ AbstractInbox!Deliver \/ AbstractInbox!Vanish
                      \/ UNCHANGED <<Undelivered, http_request_handler, handled>>)
<1> DEFINE m == Head(queue)
           Goal == InSync' /\ (\/ AbstractInbox!Deliver \/ AbstractInbox!Vanish
                               \/ UNCHANGED <<Undelivered, http_request_handler, handled>>)
<1>1. m \in Msg /\ m.kind \in {"line", "frame", "blank"} /\ pos \in 0..(WireLen(m) - 1)
  BY ReceiveFacts, MessageFacts, Zenon
<1>2. ASSUME m.kind = "line" PROVE Goal
  <2>1. WireLen(m) = Len(m.text) + 2 /\ Len(m.text) \in Nat
    BY <1>1, <1>2, MessageFacts DEF WireLen
  <2>2. pos < Len(m.text) \/ pos = Len(m.text) \/ pos + 1 = WireLen(m)
    BY <1>1, <2>1
  <2> QED  BY <1>2, <2>2, ReceiveText, ReceiveLineEnd, ReceiveLastTerminator
<1>3. ASSUME m.kind = "blank" PROVE Goal
  <2>1. WireLen(m) = 2
    BY <1>3 DEF WireLen
  <2>2. pos = 0 \/ pos + 1 = WireLen(m)
    BY <1>1, <2>1
  <2> QED  BY <1>3, <2>2, ReceiveBlank, ReceiveLastTerminator
<1>4. ASSUME m.kind = "frame" PROVE Goal
  <2>1. pos = 0 \/ pos = 1 \/ (pos >= 2 /\ pos + 1 # WireLen(m)) \/ (pos >= 2 /\ pos + 1 = WireLen(m))
    BY <1>1
  <2> QED  BY <1>4, <2>1, ReceiveHeader, ReceiveColon, ReceiveData, ReceiveFrameEnd
<1>5. Goal
  BY <1>1, <1>2, <1>3, <1>4
<1>6. queue' \in Seq(Msg) /\ pos' \in Nat /\ RxInv'
  BY ReceiveFacts DEF Advance, LinkInv
<1> QED  BY <1>5, <1>6 DEF LinkInv

(* The handler starts in step with the stream.                             *)
LEMMA LinkInitInv == LinkInit => LinkInv
<1> SUFFICES ASSUME LinkInit PROVE LinkInv
  OBVIOUS
<1>1. RxInv
  BY RxInitInv DEF LinkInit
<1>2. queue \in Seq(Msg) /\ pos \in Nat
  BY DEF LinkInit
<1>3. InSync
  BY Zenon DEF LinkInit, RxInit, InSync
<1> QED  BY <1>1, <1>2, <1>3 DEF LinkInv

(* Composing a message leaves the handler alone: the channel takes the     *)
(* message at its end.                                                     *)
LEMMA EmitStep ==
  ASSUME LinkInv, NEW m \in Msg, Emit(m)
  PROVE  LinkInv' /\ AbstractInbox!Send(m)
<1>1. queue' = Append(queue, m) /\ UNCHANGED <<rxVars, pos, handled>> /\ queue \in Seq(Msg)
  BY DEF Emit, LinkInv
<1>2. queue' \in Seq(Msg) /\ queue' # <<>>
  BY <1>1, AppendProperties
<1>3. queue # <<>> => Head(queue') = Head(queue) /\ Tail(queue') = Append(Tail(queue), m)
  BY <1>1, HeadTailAppend
<1>4. RxInv' /\ pos' \in Nat
  BY <1>1 DEF LinkInv, RxInv, RxTypeOK, BuffersInBounds, CountdownSound, rxVars
<1>5. /\ UNCHANGED <<pos, receiving_ipd_payload, buffer_isr, terminated, http_request_handler>>
      /\ UNCHANGED <<ipd_link_id, ipd_bytes_remaining, ipd_payload, handled>>
  BY <1>1 DEF rxVars
<1>6. CASE queue = <<>>
  <2>1. pos' = 0 /\ ~receiving_ipd_payload' /\ buffer_isr' = <<>>
    BY <1>5, <1>6 DEF LinkInv, InSync
  <2>2. InSync' /\ Undelivered' = Append(queue, m)
    BY <1>1, <1>2, <2>1, AtBoundary
  <2>3. Undelivered = queue
    BY <1>6 DEF Undelivered, HeadHandled
  <2>4. AbstractInbox!Send(m)
    BY <1>5, <2>2, <2>3 DEF AbstractInbox!Send, Undelivered
  <2> QED  BY <1>2, <1>4, <2>2, <2>4 DEF LinkInv
<1>7. CASE queue # <<>>
  <2>1. HeadHandled' = HeadHandled
    BY <1>2, <1>3, <1>5, <1>7 DEF HeadHandled
  <2>2. InSync'
    BY <1>2, <1>3, <1>5, <1>7 DEF LinkInv, InSync
  <2>3. AbstractInbox!Send(m)
    BY <1>1, <1>3, <1>5, <1>7, <2>1 DEF AbstractInbox!Send
  <2> QED  BY <1>2, <1>4, <2>2, <2>3 DEF LinkInv
<1> QED  BY <1>6, <1>7

(* Registering a request handler, between any two bytes.                   *)
LEMMA RegisterStep ==
  ASSUME LinkInv, NEW r \in BOOLEAN, Register(r)
  PROVE  LinkInv' /\ AbstractInbox!Register(r)
<1>1. /\ http_request_handler' = r /\ UNCHANGED <<queue, pos, handled>>
      /\ UNCHANGED <<buffer_isr, terminated, receiving_ipd_payload>>
      /\ UNCHANGED <<ipd_bytes_remaining, ipd_link_id, ipd_payload, upcall>>
  BY DEF Register, esp8266_set_http_request_handler
<1>2. RxInv'
  BY <1>1 DEF LinkInv, RxInv, RxTypeOK, BuffersInBounds, CountdownSound
<1>3. InSync'
  BY <1>1 DEF LinkInv, InSync
<1>4. HeadHandled' = HeadHandled
  BY <1>1 DEF HeadHandled
<1>5. AbstractInbox!Register(r)
  BY <1>1, <1>4 DEF AbstractInbox!Register
<1> QED  BY <1>1, <1>2, <1>3, <1>5 DEF LinkInv

(* Every step keeps the invariant and is a step of the channel, or none.   *)
LEMMA LinkStep ==
  ASSUME LinkInv, [LinkNext]_linkVars
  PROVE  LinkInv' /\ [AbstractInbox!Next]_(AbstractInbox!inboxVars)
<1>1. ASSUME NEW m \in Msg, Emit(m)
      PROVE LinkInv' /\ [AbstractInbox!Next]_(AbstractInbox!inboxVars)
  BY <1>1, EmitStep DEF AbstractInbox!Next
<1>2. ASSUME Receive
      PROVE LinkInv' /\ [AbstractInbox!Next]_(AbstractInbox!inboxVars)
  BY <1>2, ReceiveStep DEF AbstractInbox!Next, AbstractInbox!inboxVars, Undelivered
<1>3. ASSUME NEW r \in BOOLEAN, Register(r)
      PROVE LinkInv' /\ [AbstractInbox!Next]_(AbstractInbox!inboxVars)
  BY <1>3, RegisterStep DEF AbstractInbox!Next
<1>4. ASSUME UNCHANGED linkVars
      PROVE LinkInv' /\ [AbstractInbox!Next]_(AbstractInbox!inboxVars)
  <2>1. UNCHANGED <<rxVars, queue, pos, handled>>
    BY <1>4 DEF linkVars
  <2>2. LinkInv'
    BY <2>1 DEF LinkInv, RxInv, RxTypeOK, BuffersInBounds, CountdownSound, InSync, rxVars
  <2>3. UNCHANGED AbstractInbox!inboxVars
    BY <2>1 DEF AbstractInbox!inboxVars, HeadHandled, rxVars
  <2> QED  BY <2>2, <2>3
<1> QED  BY <1>1, <1>2, <1>3, <1>4 DEF LinkNext

(* The initial states are initial states of the channel.                   *)
LEMMA LinkInitInbox == LinkInit => AbstractInbox!Init
<1> SUFFICES ASSUME LinkInit PROVE AbstractInbox!Init
  OBVIOUS
<1>1. queue = <<>> /\ ~HeadHandled /\ handled = <<0, NoCall>>
  BY DEF LinkInit, HeadHandled
<1>2. http_request_handler = FALSE
  BY Zenon DEF LinkInit, RxInit
<1> QED  BY <1>1, <1>2, Zenon DEF AbstractInbox!Init, AbstractInbox!NoDelivery, NoCall

(* usart2_isr() is always in step with the byte stream: for every set of   *)
(* messages, every size of the buffers and every bound on what is in       *)
(* flight, the buffers hold the part of the current message that has       *)
(* arrived, and the count of the bytes to come is right.                   *)
THEOREM LinkInSync == LinkSpec => []InSync
<1>1. LinkInv /\ [LinkNext]_linkVars => LinkInv'
  BY LinkStep
<1>2. LinkInv => InSync
  BY DEF LinkInv
<1> QED  BY <1>1, <1>2, LinkInitInv, PTL DEF LinkSpec

(* The interrupt handler implements the channel of whole messages: it      *)
(* loses, splits, merges, duplicates or reorders none, whatever bytes the  *)
(* payloads hold and whenever the application changes its handler.  (That  *)
(* every message is delivered at last is left to the model checker.)       *)
THEOREM LinkImplementsInbox == LinkSpec => AbstractInbox!Spec
<1>1. LinkInv /\ [LinkNext]_linkVars => LinkInv'
  BY LinkStep
<1>2. LinkInv /\ [LinkNext]_linkVars => [AbstractInbox!Next]_(AbstractInbox!inboxVars)
  BY LinkStep
<1> QED  BY <1>1, <1>2, LinkInitInv, LinkInitInbox, PTL DEF LinkSpec, AbstractInbox!Spec

-----------------------------------------------------------------------------
(* Receive overruns.                                                       *)

(* The module is somewhere in its messages, and what waits in the data     *)
(* register is one byte of them.                                           *)
OverrunInv ==
  /\ queue \in Seq(Msg)
  /\ IF queue = <<>> THEN pos = 0 ELSE pos \in 0..(WireLen(Head(queue)) - 1)
  /\ rdr = <<>> \/ \E c \in Byte : rdr = <<c>>

(* The next byte on the wire is one the interrupt may be given, and the    *)
(* stream goes on behind it.                                               *)
LEMMA NextWireByte ==
  ASSUME OverrunInv, queue # <<>>
  PROVE  /\ WireByte(Head(queue), pos + 1) \in Byte
         /\ Advance => /\ queue' \in Seq(Msg)
                       /\ IF queue' = <<>> THEN pos' = 0 ELSE pos' \in 0..(WireLen(Head(queue')) - 1)
<1>1. Head(queue) \in Msg /\ Tail(queue) \in Seq(Msg)
  BY HeadTailProperties DEF OverrunInv
<1>2. WireLen(Head(queue)) \in Nat /\ pos \in 0..(WireLen(Head(queue)) - 1)
  BY <1>1, MessageFacts, Zenon DEF OverrunInv
<1>3. pos + 1 \in 1..WireLen(Head(queue))
  BY <1>2
<1>4. WireByte(Head(queue), pos + 1) \in Byte
  BY <1>1, <1>3, WireBytes
<1>5. CASE pos + 1 = WireLen(Head(queue)) /\ Advance
  <2>1. queue' = Tail(queue) /\ pos' = 0
    BY <1>5, Zenon DEF Advance
  <2>2. queue' # <<>> => WireLen(Head(queue')) \in Nat /\ WireLen(Head(queue')) >= 2
    <3> SUFFICES ASSUME Tail(queue) # <<>>
                 PROVE  WireLen(Head(Tail(queue))) \in Nat /\ WireLen(Head(Tail(queue))) >= 2
      BY <2>1
    <3>1. Head(Tail(queue)) \in Msg
      BY <1>1, HeadTailProperties
    <3> QED  BY <3>1, MessageFacts, Zenon
  <2> QED  BY <1>1, <1>4, <2>1, <2>2
<1>6. CASE pos + 1 # WireLen(Head(queue)) /\ Advance
  <2>1. queue' = queue /\ pos' = pos + 1
    BY <1>6, Zenon DEF Advance
  <2> QED  BY <1>2, <1>4, <1>6, <2>1 DEF OverrunInv
<1> QED  BY <1>4, <1>5, <1>6

(* Whatever is lost, what the interrupt does is a step of RxIsr.           *)
LEMMA OverrunStep ==
  ASSUME OverrunInv, [OverrunNext]_overrunVars
  PROVE  OverrunInv' /\ [RxNext]_rxVars
<1>1. CASE ReceiveInTime
  <2>1. queue # <<>> /\ usart2_isr(WireByte(Head(queue), pos + 1)) /\ Advance /\ rdr' = rdr
    BY <1>1 DEF ReceiveInTime, Receive
  <2>2. WireByte(Head(queue), pos + 1) \in Byte
    BY <2>1, NextWireByte
  <2>3. RxNext
    BY <2>1, <2>2, Zenon DEF RxNext
  <2>4. OverrunInv'
    BY <2>1, NextWireByte, Zenon DEF OverrunInv
  <2> QED  BY <2>3, <2>4
<1>2. CASE Hold
  <2>1. queue # <<>> /\ Advance /\ rdr' = <<WireByte(Head(queue), pos + 1)>> /\ UNCHANGED rxVars
    BY <1>2 DEF Hold
  <2>2. OverrunInv'
    BY <2>1, NextWireByte, Zenon DEF OverrunInv
  <2> QED  BY <2>1, <2>2
<1>3. CASE Overrun
  <2>1. queue # <<>> /\ Advance /\ rdr' = rdr /\ UNCHANGED rxVars
    BY <1>3 DEF Overrun
  <2>2. OverrunInv'
    BY <2>1, NextWireByte, Zenon DEF OverrunInv
  <2> QED  BY <2>1, <2>2
<1>4. CASE ReceiveHeld
  <2>1. rdr # <<>> /\ usart2_isr(rdr[1]) /\ rdr' = <<>> /\ UNCHANGED <<queue, pos>>
    BY <1>4 DEF ReceiveHeld
  <2>2. rdr[1] \in Byte
    BY <2>1 DEF OverrunInv
  <2>3. RxNext
    BY <2>1, <2>2, Zenon DEF RxNext
  <2>4. OverrunInv'
    BY <2>1 DEF OverrunInv
  <2> QED  BY <2>3, <2>4
<1>5. ASSUME NEW m \in Msg, Emit(m), UNCHANGED rdr PROVE OverrunInv' /\ [RxNext]_rxVars
  <2>1. queue' = Append(queue, m) /\ pos' = pos /\ rdr' = rdr /\ UNCHANGED rxVars /\ queue \in Seq(Msg)
    BY <1>5 DEF Emit, OverrunInv
  <2>2. queue' \in Seq(Msg) /\ queue' # <<>>
    BY <2>1, AppendProperties
  <2>3. pos' \in 0..(WireLen(Head(queue')) - 1)
    <3>1. CASE queue = <<>>
      <4>1. Head(queue') = m /\ pos' = 0
        BY <2>1, <3>1 DEF OverrunInv
      <4>2. WireLen(m) \in Nat /\ WireLen(m) >= 2
        BY MessageFacts, Zenon
      <4> QED  BY <4>1, <4>2
    <3>2. CASE queue # <<>>
      <4>1. Head(queue') = Head(queue)
        BY <2>1, <3>2, HeadTailAppend
      <4> QED  BY <2>1, <3>2, <4>1, Zenon DEF OverrunInv
    <3> QED  BY <3>1, <3>2
  <2>4. OverrunInv'
    BY <2>1, <2>2, <2>3, Zenon DEF OverrunInv
  <2> QED  BY <2>1, <2>4
<1>6. ASSUME NEW r \in BOOLEAN, Register(r), UNCHANGED rdr PROVE OverrunInv' /\ [RxNext]_rxVars
  <2>1. esp8266_set_http_request_handler(r) /\ UNCHANGED <<queue, pos, rdr>>
    BY <1>6 DEF Register
  <2>2. RxNext
    BY <2>1, Zenon DEF RxNext
  <2>3. OverrunInv'
    BY <2>1 DEF OverrunInv
  <2> QED  BY <2>2, <2>3
<1>7. CASE UNCHANGED overrunVars
  <2>1. UNCHANGED rxVars /\ UNCHANGED <<queue, pos, rdr>>
    BY <1>7 DEF overrunVars, linkVars
  <2>2. OverrunInv'
    BY <2>1 DEF OverrunInv
  <2> QED  BY <2>1, <2>2
<1> QED  BY <1>1, <1>2, <1>3, <1>4, <1>5, <1>6, <1>7, Zenon DEF OverrunNext

(* Nothing has been sent, nothing is held.                                 *)
LEMMA OverrunInitInv == OverrunInit => OverrunInv /\ RxInit
  BY DEF OverrunInit, LinkInit, OverrunInv

(* With bytes lost in overruns the receive path still implements RxIsr:    *)
(* the interrupt only sees another stream of bytes.                        *)
THEOREM OverrunImplementsRx == OverrunSpec => RxSpec
<1>1. OverrunInv /\ [OverrunNext]_overrunVars => OverrunInv' /\ [RxNext]_rxVars
  BY OverrunStep
<1> QED  BY <1>1, OverrunInitInv, PTL DEF OverrunSpec, RxSpec

(* So an overrun may garble a request (RequestIsAFrameSent is violated),   *)
(* but it never makes the interrupt write outside its buffers or count     *)
(* down from zero.                                                         *)
THEOREM OverrunMemorySafe == OverrunSpec => [](BuffersInBounds /\ CountdownSound)
  BY OverrunImplementsRx, RxBuffersInBounds, RxCountdownSound, PTL
=============================================================================
