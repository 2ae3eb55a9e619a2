----------------------------- MODULE RxOverrun -----------------------------
(***************************************************************************)
(* RxLink with the receive overruns of the USART.  The HTTP request handler*)
(* runs inside usart2_isr() and its response is transmitted with the       *)
(* blocking uart_send_char().  Meanwhile the USART holds one received byte *)
(* in its data register and loses the bytes that follow; the interrupt is  *)
(* then taken for the byte that was held.  The handler tests only          *)
(* USART_SR_RXNE, never the overrun flag.                                  *)
(***************************************************************************)
EXTENDS RxLink

VARIABLE rdr   \* the byte held in the data register while a request is answered

overrunVars == <<linkVars, rdr>>

OverrunInit == LinkInit /\ rdr = <<>>

(* No byte waits: the next one is handled when it arrives.                 *)
ReceiveInTime == rdr = <<>> /\ Receive /\ UNCHANGED rdr

(* The request handler is still transmitting when a byte arrives ...       *)
Hold ==
  /\ upcall.call = "frame"
  /\ rdr = <<>>
  /\ queue # <<>>
  /\ rdr' = <<WireByte(Head(queue), pos + 1)>>
  /\ Advance
  /\ UNCHANGED <<rxVars, handled>>

(* ... and another one, for which there is no room.                        *)
Overrun ==
  /\ rdr # <<>>
  /\ queue # <<>>
  /\ Advance
  /\ UNCHANGED <<rxVars, handled, rdr>>

(* The request handler has returned.                                       *)
ReceiveHeld ==
  /\ rdr # <<>>
  /\ usart2_isr(rdr[1])
  /\ rdr' = <<>>
  /\ Record
  /\ UNCHANGED <<queue, pos>>

OverrunNext ==
  \/ ReceiveInTime
  \/ Hold
  \/ Overrun
  \/ ReceiveHeld
  \/ \E m \in Msg : Emit(m) /\ UNCHANGED rdr
  \/ \E r \in BOOLEAN : rdr = <<>> /\ Register(r) /\ UNCHANGED rdr

OverrunSpec == OverrunInit /\ [][OverrunNext]_overrunVars

(* What esp8266.h:73-77 says of the HTTP request handler: it is called once*)
(* a full +IPD frame has been received, so the request is the data of a    *)
(* frame that was sent, cut at the capacity of the buffer.                 *)
RequestIsAFrameSent ==
  upcall.call = "frame" =>
    \E d \in Payloads : upcall.request = AbstractInbox!Truncate(d, PayloadCap - 1)
=============================================================================
