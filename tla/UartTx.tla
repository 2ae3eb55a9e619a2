------------------------------- MODULE UartTx -------------------------------
(***************************************************************************)
(* uart_send_string() of sylib/esp8266/esp8266.c, down to the data and     *)
(* shift registers of the USART.  Thread mode and the receive interrupt    *)
(* both transmit, with nothing to keep them apart: usart_send_blocking()   *)
(* waits for TXE and then writes the data register, and the interrupt may  *)
(* come, transmit and return in between.  The interrupt is not preempted.  *)
(***************************************************************************)
EXTENDS Integers, Sequences

CONSTANTS
  MaxLen,     \* bound: bytes of a text
  MaxTexts,   \* bound: texts each context sends
  NoByte

Contexts == {"main", "isr"}

(* A byte is identified by its text and by the number of bytes behind it.  *)
Byte == [from : Contexts, text : 1..MaxTexts, left : 0..(MaxLen - 1)]

ASSUME TxAssumption == MaxLen \in Nat /\ MaxTexts \in Nat /\ NoByte \notin Byte

VARIABLES
  texts,    \* texts each context has begun
  left,     \* bytes of its text that each context has not written yet
  ready,    \* the context has seen TXE set and writes the data register next
  running,  \* the interrupt handler is running
  dr,       \* the data register, NoByte when TXE is set
  shift,    \* the shift register
  wire,     \* history: what has been transmitted
  lost      \* history: the bytes overwritten in the data register

vars == <<texts, left, ready, running, dr, shift, wire, lost>>

Init ==
  /\ texts = [c \in Contexts |-> 0] /\ left = [c \in Contexts |-> 0]
  /\ ready = [c \in Contexts |-> FALSE]
  /\ running = FALSE
  /\ dr = NoByte /\ shift = NoByte /\ wire = <<>> /\ lost = {}

(* The context that executes: thread mode stands still in an interrupt.    *)
Executes(c) == c = "isr" <=> running

BeginText(c, n) ==
  /\ left[c] = 0 /\ texts[c] < MaxTexts
  /\ texts' = [texts EXCEPT ![c] = @ + 1]
  /\ left' = [left EXCEPT ![c] = n]

(* uart_send_string() in thread mode.                                      *)
SendString(n) ==
  /\ ~running
  /\ BeginText("main", n)
  /\ UNCHANGED <<ready, running, dr, shift, wire, lost>>

(* The interrupt: connect_no_update() or a request handler transmits.      *)
Interrupt(n) ==
  /\ ~running
  /\ BeginText("isr", n)
  /\ running' = TRUE
  /\ UNCHANGED <<ready, dr, shift, wire, lost>>

(* Mutant of usart_wait_send_ready: it does not wait.                      *)
wait_send_skipped(c) ==
  /\ Executes(c) /\ left[c] > 0 /\ ~ready[c]
  /\ ready' = [ready EXCEPT ![c] = TRUE]
  /\ UNCHANGED <<texts, left, running, dr, shift, wire, lost>>

(* Mutant of usart_wait_send_ready: it waits as long as TXE is set.        *)
wait_send_inverted(c) ==
  /\ Executes(c) /\ left[c] > 0 /\ ~ready[c]
  /\ dr # NoByte
  /\ ready' = [ready EXCEPT ![c] = TRUE]
  /\ UNCHANGED <<texts, left, running, dr, shift, wire, lost>>

(* while ((USART_SR(usart) & USART_SR_TXE) == 0);                          *)
usart_wait_send_ready(c) ==
  /\ Executes(c) /\ left[c] > 0 /\ ~ready[c]
  /\ dr = NoByte
  /\ ready' = [ready EXCEPT ![c] = TRUE]
  /\ UNCHANGED <<texts, left, running, dr, shift, wire, lost>>

(* Mutant of usart_send: the pointer does not move on to the next byte.    *)
usart_send_repeats(c) ==
  /\ Executes(c) /\ ready[c]
  /\ dr' = [from |-> c, text |-> texts[c], left |-> left[c] - 1]
  /\ lost' = IF dr = NoByte THEN lost ELSE lost \cup {dr}
  /\ \/ left' = [left EXCEPT ![c] = @ - 1]
     \/ UNCHANGED left
  /\ ready' = [ready EXCEPT ![c] = FALSE]
  /\ UNCHANGED <<texts, running, shift, wire>>

(* Mutant of usart_send: the string is not tested for its end after the    *)
(* last byte.                                                              *)
usart_send_again(c) ==
  /\ Executes(c) /\ ready[c]
  /\ dr' = [from |-> c, text |-> texts[c], left |-> left[c] - 1]
  /\ lost' = IF dr = NoByte THEN lost ELSE lost \cup {dr}
  /\ left' = [left EXCEPT ![c] = @ - 1]
  /\ ready' = [ready EXCEPT ![c] = left[c] = 1]
  /\ UNCHANGED <<texts, running, shift, wire>>

(* USART_DR(usart) = data, whatever the register holds by now.             *)
usart_send(c) ==
  /\ Executes(c) /\ ready[c]
  /\ dr' = [from |-> c, text |-> texts[c], left |-> left[c] - 1]
  /\ lost' = IF dr = NoByte THEN lost ELSE lost \cup {dr}
  /\ left' = [left EXCEPT ![c] = @ - 1]
  /\ ready' = [ready EXCEPT ![c] = FALSE]
  /\ UNCHANGED <<texts, running, shift, wire>>

InterruptReturn ==
  /\ running /\ left["isr"] = 0
  /\ running' = FALSE
  /\ UNCHANGED <<texts, left, ready, dr, shift, wire, lost>>

(* The USART moves a byte to the shift register, and sends it.             *)
Load ==
  /\ dr # NoByte /\ shift = NoByte
  /\ shift' = dr /\ dr' = NoByte
  /\ UNCHANGED <<texts, left, ready, running, wire, lost>>

Transmit ==
  /\ shift # NoByte
  /\ wire' = Append(wire, shift) /\ shift' = NoByte
  /\ UNCHANGED <<texts, left, ready, running, dr, lost>>

uart_send_string(c) == usart_wait_send_ready(c) \/ usart_send(c)

Processor == InterruptReturn \/ \E c \in Contexts : uart_send_string(c)

Next ==
  \/ \E n \in 1..MaxLen : SendString(n) \/ Interrupt(n)
  \/ Processor
  \/ Load \/ Transmit

Spec == Init /\ [][Next]_vars

(* The processor executes and the USART transmits.  Nothing obliges the    *)
(* application to send or the interrupt to come.                           *)
FairSpec == Spec /\ WF_vars(Processor) /\ WF_vars(Load) /\ WF_vars(Transmit)

-----------------------------------------------------------------------------
(* Type correctness of the two contexts and of the USART.                  *)
TxTypeOK ==
  /\ texts \in [Contexts -> 0..MaxTexts] /\ left \in [Contexts -> 0..MaxLen]
  /\ ready \in [Contexts -> BOOLEAN] /\ running \in BOOLEAN
  /\ dr \in Byte \cup {NoByte} /\ shift \in Byte \cup {NoByte}
  /\ wire \in Seq(Byte) /\ lost \subseteq Byte

(* A byte of thread mode is never lost to the race for the data register,  *)
(* and of an interrupt's text only the last one may be: the LF that ends   *)
(* its command.                                                            *)
LosesOnlyTheLast == \A b \in lost : b.from = "isr" /\ b.left = 0

Before(a, b) == a.text < b.text \/ (a.text = b.text /\ a.left > b.left)

(* On the wire the bytes of each context keep their order and appear once, *)
(* and an interrupt's text is in one piece; thread mode's may be cut apart.*)
WireKeepsOrder ==
  \A i, j \in 1..Len(wire) : i < j =>
    /\ wire[i].from = wire[j].from => Before(wire[i], wire[j])
    /\ wire[i].from = "isr" /\ wire[j].from = "isr" /\ wire[i].text = wire[j].text =>
         \A k \in i..j : wire[k].from = "isr"

(* The two contexts never wait for each other for ever: whatever has been  *)
(* begun is written and transmitted.                                       *)
AllTransmitted ==
  []<>(left = [c \in Contexts |-> 0] /\ ~running /\ dr = NoByte /\ shift = NoByte)
=============================================================================
