--------------------------- MODULE TransmitProofs ---------------------------
(***************************************************************************)
(* The transmit side of the driver.                                        *)
(*                                                                         *)
(* UartTx: only the last byte of an interrupt's text can be lost, however  *)
(* long the texts are and however often the interrupt comes.  What has to  *)
(* be known for that is what the data register may hold when thread mode   *)
(* has seen it empty and not yet written it.  What reaches the wire keeps  *)
(* its order because the registers behind it are a pipe that only grows at *)
(* its end.                                                                *)
(*                                                                         *)
(* HttpResponse: when every header fits its buffer, the driver and the     *)
(* module stay in step, for every set of responses and whatever the module *)
(* refuses.  The invariant says how many bytes the module waits for at     *)
(* each step.                                                              *)
(***************************************************************************)
EXTENDS UartTx, HttpResponse, TLAPS

(* A text that is being written has been begun; an interrupt has seen the  *)
(* data register empty, and nobody has come in between.                    *)
WriterKnows ==
  /\ \A c \in Contexts : left[c] > 0 => texts[c] > 0
  /\ \A c \in Contexts : ready[c] => left[c] > 0
  /\ left["isr"] > 0 => running
  /\ ready["isr"] => dr = NoByte

(* Thread mode has seen the data register empty: what it holds now is the  *)
(* byte the interrupt has written last, or the end of an earlier text.     *)
OnlyIsrInBetween ==
  ready["main"] /\ dr # NoByte => dr.from = "isr" /\ (dr.left = 0 \/ dr.left = left["isr"])

TxInv == TxTypeOK /\ WriterKnows /\ OnlyIsrInBetween /\ LosesOnlyTheLast

(* Nothing has been begun.                                                 *)
LEMMA TxInitInv == Init => TxInv
<1> SUFFICES ASSUME Init PROVE TxInv
  OBVIOUS
<1>1. TxTypeOK
  <2>1. running \in BOOLEAN
    BY Zenon DEF Init
  <2>2. ready \in [Contexts -> BOOLEAN]
    BY Zenon DEF Init
  <2>3. wire \in Seq(Byte) /\ lost \subseteq Byte
    BY DEF Init
  <2>4. dr \in Byte \cup {NoByte} /\ shift \in Byte \cup {NoByte}
    BY DEF Init
  <2>5. texts \in [Contexts -> 0..MaxTexts] /\ left \in [Contexts -> 0..MaxLen]
    BY TxAssumption DEF Init
  <2> QED  BY <2>1, <2>2, <2>3, <2>4, <2>5 DEF TxTypeOK
<1>2. WriterKnows
  BY DEF Init, WriterKnows, Contexts
<1> QED  BY <1>1, <1>2 DEF Init, TxInv, OnlyIsrInBetween, LosesOnlyTheLast

(* A new text disturbs neither registers nor losses.                       *)
LEMMA BeginInv ==
  ASSUME TxInv, NEW n \in 1..MaxLen, SendString(n) \/ Interrupt(n)
  PROVE  TxInv'
<1> USE TxAssumption DEF TxInv, Contexts
<1>1. TxTypeOK'
  <2>1. running' \in BOOLEAN
    BY Zenon DEF TxTypeOK, SendString, Interrupt
  <2>2. texts' \in [Contexts -> 0..MaxTexts] /\ left' \in [Contexts -> 0..MaxLen]
    BY DEF TxTypeOK, SendString, Interrupt, BeginText
  <2> QED  BY <2>1, <2>2 DEF TxTypeOK, SendString, Interrupt
<1>2. WriterKnows'
  BY DEF TxTypeOK, WriterKnows, SendString, Interrupt, BeginText
<1>3. OnlyIsrInBetween'
  <2>1. CASE SendString(n)
    BY <2>1 DEF TxTypeOK, OnlyIsrInBetween, SendString, BeginText
  <2>2. CASE Interrupt(n)
    <3>1. left["isr"] = 0 /\ ready' = ready /\ dr' = dr
      BY <2>2 DEF Interrupt, BeginText
    <3> QED  BY <3>1 DEF OnlyIsrInBetween
  <2> QED  BY <2>1, <2>2
<1>4. LosesOnlyTheLast'
  BY DEF LosesOnlyTheLast, SendString, Interrupt
<1> QED  BY <1>1, <1>2, <1>3, <1>4

(* The wait for TXE: the data register is empty when it ends.              *)
LEMMA WaitInv ==
  ASSUME TxInv, NEW c \in Contexts, usart_wait_send_ready(c)
  PROVE  TxInv'
<1> USE DEF TxInv, Contexts
<1>1. TxTypeOK'
  BY DEF TxTypeOK, usart_wait_send_ready
<1>2. WriterKnows'
  BY DEF TxTypeOK, WriterKnows, usart_wait_send_ready
<1>3. OnlyIsrInBetween' /\ LosesOnlyTheLast'
  BY DEF OnlyIsrInBetween, LosesOnlyTheLast, usart_wait_send_ready
<1> QED  BY <1>1, <1>2, <1>3

(* The write: thread mode can only overwrite the end of an interrupt's     *)
(* text, because the interrupt has returned.                               *)
LEMMA SendInv ==
  ASSUME TxInv, NEW c \in Contexts, usart_send(c)
  PROVE  TxInv'
<1> USE TxAssumption DEF TxInv, Contexts
<1>0. left[c] \in 1..MaxLen /\ texts[c] \in 1..MaxTexts /\ left' = [left EXCEPT ![c] = left[c] - 1]
  BY DEF TxTypeOK, WriterKnows, usart_send
<1>1. dr' = [from |-> c, text |-> texts[c], left |-> left[c] - 1] /\ dr' \in Byte /\ dr' # NoByte
  BY <1>0 DEF usart_send, Byte
<1>2. TxTypeOK'
  BY <1>0, <1>1 DEF TxTypeOK, usart_send
<1>3. WriterKnows'
  BY <1>0 DEF TxTypeOK, WriterKnows, usart_send, Executes
<1>4. OnlyIsrInBetween'
  <2>1. CASE c = "main"
    BY <2>1 DEF OnlyIsrInBetween, TxTypeOK, usart_send
  <2>2. CASE c = "isr"
    BY <2>2, <1>0, <1>1 DEF OnlyIsrInBetween, TxTypeOK
  <2> QED  BY <2>1, <2>2
<1>5. LosesOnlyTheLast'
  <2>1. CASE dr = NoByte
    BY <2>1 DEF LosesOnlyTheLast, usart_send
  <2>2. CASE dr # NoByte
    <3>1. c = "main" /\ left["isr"] = 0
      BY <2>2 DEF WriterKnows, usart_send, Executes, TxTypeOK
    <3>2. dr.from = "isr" /\ dr.left = 0
      BY <2>2, <3>1 DEF OnlyIsrInBetween, usart_send
    <3> QED  BY <2>2, <3>2 DEF LosesOnlyTheLast, usart_send
  <2> QED  BY <2>1, <2>2
<1> QED  BY <1>2, <1>3, <1>4, <1>5

(* The interrupt returns, and the USART moves bytes on.                    *)
LEMMA HardwareInv ==
  ASSUME TxInv, InterruptReturn \/ Load \/ Transmit
  PROVE  TxInv'
<1> USE DEF TxInv
<1>1. TxTypeOK'
  <2>1. running' \in BOOLEAN
    BY Zenon DEF TxTypeOK, InterruptReturn, Load, Transmit
  <2>2. CASE InterruptReturn
    BY <2>1, <2>2 DEF TxTypeOK, InterruptReturn
  <2>3. CASE Load
    BY <2>1, <2>3 DEF TxTypeOK, Load
  <2>4. CASE Transmit
    BY <2>1, <2>4 DEF TxTypeOK, Transmit
  <2> QED  BY <2>2, <2>3, <2>4
<1>2. WriterKnows'
  BY DEF TxTypeOK, WriterKnows, InterruptReturn, Load, Transmit, Contexts
<1>3. OnlyIsrInBetween' /\ LosesOnlyTheLast'
  BY DEF OnlyIsrInBetween, LosesOnlyTheLast, InterruptReturn, Load, Transmit
<1> QED  BY <1>1, <1>2, <1>3

(* No step of the two contexts or of the USART leaves the invariant.       *)
LEMMA TxStepInv == TxInv /\ [Next]_vars => TxInv'
<1> SUFFICES ASSUME TxInv, [Next]_vars PROVE TxInv'
  OBVIOUS
<1>1. CASE UNCHANGED vars
  BY <1>1 DEF vars, TxInv, TxTypeOK, WriterKnows, OnlyIsrInBetween, LosesOnlyTheLast
<1>2. CASE Next
  <2>1. CASE \E n \in 1..MaxLen : SendString(n) \/ Interrupt(n)
    BY <2>1, BeginInv
  <2>2. CASE \E c \in Contexts : uart_send_string(c)
    BY <2>2, WaitInv, SendInv DEF uart_send_string
  <2>3. CASE InterruptReturn \/ Load \/ Transmit
    BY <2>3, HardwareInv
  <2> QED  BY <1>2, <2>1, <2>2, <2>3 DEF Next, Processor
<1> QED  BY <1>1, <1>2

(* The invariant holds at all times.                                       *)
LEMMA TxInvariance == Spec => []TxInv
BY TxInitInv, TxStepInv, PTL DEF Spec

(* The two contexts and the USART are type correct, for every length and   *)
(* number of texts.                                                        *)
THEOREM TxTypeCorrect == Spec => []TxTypeOK
<1>1. TxInv => TxTypeOK
  BY DEF TxInv
<1> QED  BY <1>1, TxInvariance, PTL

(* The race of usart_send_blocking() in the two contexts can lose the last *)
(* byte of an interrupt's text and no other, for every length and number   *)
(* of texts.                                                               *)
THEOREM TxLosesOnlyTheLast == Spec => []LosesOnlyTheLast
<1>1. TxInv => LosesOnlyTheLast
  BY DEF TxInv
<1> QED  BY <1>1, TxInvariance, PTL

-----------------------------------------------------------------------------
(* What the wire will carry of the bytes written so far: those that have   *)
(* left the data register, and the one that is in it.                      *)
Sent == IF shift = NoByte THEN wire ELSE Append(wire, shift)
Pipe == IF dr = NoByte THEN Sent ELSE Append(Sent, dr)

(* The bytes of a context are in order, and those of an interrupt's text   *)
(* are in one piece.                                                       *)
InOrder(s) == \A i, j \in 1..Len(s) : i < j /\ s[i].from = s[j].from => Before(s[i], s[j])
OnePiece(s) ==
  \A i, j, k \in 1..Len(s) :
    i < k /\ k < j /\ s[i].from = "isr" /\ s[j].from = "isr" /\ s[i].text = s[j].text =>
      s[k].from = "isr"

(* The next byte of each context comes after those it has written.         *)
Written(s) ==
  \A i \in 1..Len(s) : \/ s[i].text < texts[s[i].from]
                       \/ s[i].text = texts[s[i].from] /\ s[i].left >= left[s[i].from]

(* An interrupt's text that a byte of thread mode follows is complete.     *)
Closed(s) ==
  \A i, k \in 1..Len(s) :
    i < k /\ s[i].from = "isr" /\ s[k].from = "main" => s[i].text < texts["isr"] \/ left["isr"] = 0

PipeInv == InOrder(Pipe) /\ OnePiece(Pipe) /\ Written(Pipe) /\ Closed(Pipe)

(* The pipe is a sequence of bytes that begins with the wire.              *)
LEMMA PipeType ==
  ASSUME TxTypeOK
  PROVE  /\ Sent \in Seq(Byte) /\ Pipe \in Seq(Byte)
         /\ Len(wire) <= Len(Pipe) /\ \A i \in 1..Len(wire) : wire[i] = Pipe[i]
         /\ Len(Sent) <= Len(Pipe) /\ \A i \in 1..Len(Sent) : Sent[i] = Pipe[i]
<1>1. wire \in Seq(Byte) /\ (shift # NoByte => shift \in Byte) /\ (dr # NoByte => dr \in Byte)
  BY DEF TxTypeOK
<1>2. /\ Sent \in Seq(Byte) /\ Len(wire) <= Len(Sent) /\ \A i \in 1..Len(wire) : wire[i] = Sent[i]
  BY <1>1 DEF Sent
<1>3. /\ Pipe \in Seq(Byte) /\ Len(Sent) <= Len(Pipe) /\ \A i \in 1..Len(Sent) : Sent[i] = Pipe[i]
  BY <1>1, <1>2 DEF Pipe
<1>4. Len(wire) \in Nat /\ Len(Sent) \in Nat /\ Len(Pipe) \in Nat
  BY <1>1, <1>2, <1>3
<1>5. \A i \in 1..Len(wire) : i \in 1..Len(Sent)
  BY <1>2, <1>4
<1> QED  BY <1>2, <1>3, <1>4, <1>5

(* The order of the pipe is the order of every beginning of it.            *)
LEMMA PrefixKeepsOrder ==
  ASSUME NEW s \in Seq(Byte), NEW p \in Seq(Byte),
         Len(s) <= Len(p), \A i \in 1..Len(s) : s[i] = p[i],
         InOrder(p), OnePiece(p), Written(p), Closed(p)
  PROVE  InOrder(s) /\ OnePiece(s) /\ Written(s) /\ Closed(s)
<1>1. \A i \in 1..Len(s) : i \in 1..Len(p)
  OBVIOUS
<1>2. InOrder(s)
  BY <1>1 DEF InOrder
<1>3. OnePiece(s)
  BY <1>1 DEF OnePiece
<1>4. Written(s)
  BY <1>1 DEF Written
<1>5. Closed(s)
  BY <1>1 DEF Closed
<1> QED  BY <1>2, <1>3, <1>4, <1>5

(* A context writes the byte that comes after all it has written; thread   *)
(* mode writes only while the interrupt has nothing left to write.         *)
LEMMA SendKeepsOrder ==
  ASSUME TxInv, PipeInv, NEW c \in Contexts, usart_send(c)
  PROVE  PipeInv'
<1> DEFINE b == [from |-> c, text |-> texts[c], left |-> left[c] - 1]
           new == Append(Sent, b)
<1>1. /\ left[c] \in 1..MaxLen /\ texts[c] \in 1..MaxTexts /\ texts' = texts
      /\ left' = [left EXCEPT ![c] = left[c] - 1]
  BY TxAssumption DEF TxInv, TxTypeOK, WriterKnows, usart_send
<1>2. b \in Byte /\ b # NoByte
  BY <1>1, TxAssumption DEF Byte
<1>3. Sent \in Seq(Byte) /\ InOrder(Sent) /\ OnePiece(Sent) /\ Written(Sent) /\ Closed(Sent)
  BY PipeType, PrefixKeepsOrder DEF TxInv, PipeInv
<1>4. Pipe' = new
  BY <1>2 DEF usart_send, Pipe, Sent
<1>5. /\ new \in Seq(Byte) /\ Len(new) = Len(Sent) + 1 /\ Len(Sent) \in Nat
      /\ new[Len(Sent) + 1] = b /\ \A i \in 1..Len(Sent) : new[i] = Sent[i]
  BY <1>2, <1>3
<1>6. \A i \in 1..Len(new) : i \in 1..Len(Sent) \/ i = Len(Sent) + 1
  BY <1>5
<1>7. b.from = c /\ b.text = texts[c] /\ b.left = left[c] - 1
  OBVIOUS
<1>8. /\ left' \in [Contexts -> 0..MaxLen] /\ left \in [Contexts -> 0..MaxLen]
      /\ texts \in [Contexts -> 0..MaxTexts]
      /\ left'[c] = left[c] - 1 /\ \A d \in Contexts : d # c => left'[d] = left[d]
  BY <1>1, TxAssumption DEF TxInv, TxTypeOK
<1>9. \A i \in 1..Len(Sent) :
         /\ Sent[i] \in Byte /\ Sent[i].from \in Contexts
         /\ Sent[i].text \in Nat /\ Sent[i].left \in Nat
  <2>1. \A i \in 1..Len(Sent) : Sent[i] \in Byte
    BY <1>3
  <2>2. \A x \in Byte : x.from \in Contexts /\ x.text \in Nat /\ x.left \in Nat
    BY TxAssumption DEF Byte
  <2> QED  BY <2>1, <2>2
<1> HIDE DEF b, new
<1>10. InOrder(new)
  <2> SUFFICES ASSUME NEW i \in 1..Len(new), NEW j \in 1..Len(new), i < j, new[i].from = new[j].from
               PROVE  Before(new[i], new[j])
    BY DEF InOrder
  <2>1. i \in 1..Len(Sent)
    BY <1>5
  <2>2. CASE j \in 1..Len(Sent)
    BY <1>3, <1>5, <2>1, <2>2 DEF InOrder
  <2>3. CASE j = Len(Sent) + 1
    <3>1. new[j] = b /\ new[i] = Sent[i] /\ Sent[i].from = c
      BY <1>5, <1>7, <2>1, <2>3
    <3>2. Sent[i].text < texts[c] \/ (Sent[i].text = texts[c] /\ Sent[i].left >= left[c])
      BY <1>3, <2>1, <3>1 DEF Written
    <3> QED  BY <1>1, <1>7, <1>9, <2>1, <3>1, <3>2 DEF Before
  <2> QED  BY <1>6, <2>2, <2>3
<1>11. OnePiece(new)
  <2> SUFFICES ASSUME NEW i \in 1..Len(new), NEW j \in 1..Len(new), NEW k \in 1..Len(new),
                      i < k, k < j, new[i].from = "isr", new[j].from = "isr", new[i].text = new[j].text
               PROVE  new[k].from = "isr"
    BY DEF OnePiece
  <2>1. i \in 1..Len(Sent) /\ k \in 1..Len(Sent)
    BY <1>5
  <2>2. CASE j \in 1..Len(Sent)
    BY <1>3, <1>5, <2>1, <2>2 DEF OnePiece
  <2>3. CASE j = Len(Sent) + 1
    <3>1. c = "isr" /\ Sent[i].from = "isr" /\ Sent[i].text = texts["isr"] /\ new[k] = Sent[k]
      BY <1>5, <1>7, <2>1, <2>3
    <3>2. ~(Sent[i].text < texts["isr"]) /\ left["isr"] # 0
      BY <1>1, <1>9, <2>1, <3>1
    <3>3. Sent[k].from # "main"
      BY <1>3, <2>1, <3>1, <3>2 DEF Closed
    <3> QED  BY <1>9, <2>1, <3>1, <3>3 DEF Contexts
  <2> QED  BY <1>6, <2>2, <2>3
<1>12. Written(Pipe)'
  <2> SUFFICES ASSUME NEW i \in 1..Len(new)
               PROVE  \/ new[i].text < texts[new[i].from]
                      \/ new[i].text = texts[new[i].from] /\ new[i].left >= left'[new[i].from]
    BY <1>1, <1>4 DEF Written
  <2>1. CASE i = Len(Sent) + 1
    BY <1>1, <1>5, <1>7, <1>8, <2>1
  <2>2. CASE i \in 1..Len(Sent)
    <3>1. new[i] = Sent[i] /\ Sent[i].from \in Contexts /\ Sent[i].left \in Nat
      BY <1>5, <1>9, <2>2
    <3>2. left'[Sent[i].from] <= left[Sent[i].from]
      BY <1>1, <1>8, <3>1
    <3>3. left'[Sent[i].from] \in Int /\ left[Sent[i].from] \in Int
      BY <1>8, <3>1
    <3> QED  BY <1>3, <2>2, <3>1, <3>2, <3>3 DEF Written
  <2> QED  BY <1>6, <2>1, <2>2
<1>13. Closed(Pipe)'
  <2> SUFFICES ASSUME NEW i \in 1..Len(new), NEW k \in 1..Len(new), i < k,
                      new[i].from = "isr", new[k].from = "main"
               PROVE  new[i].text < texts["isr"] \/ left'["isr"] = 0
    BY <1>1, <1>4 DEF Closed
  <2>1. i \in 1..Len(Sent) /\ new[i] = Sent[i]
    BY <1>5
  <2>2. CASE c = "main"
    <3>1. left["isr"] = 0
      BY <1>8, <2>2 DEF TxInv, WriterKnows, usart_send, Executes, Contexts
    <3> QED  BY <1>8, <2>2, <3>1 DEF Contexts
  <2>3. CASE c = "isr"
    <3>1. k \in 1..Len(Sent) /\ new[k] = Sent[k]
      BY <1>5, <1>6, <1>7, <2>3
    <3>2. Sent[i].text < texts["isr"]
      BY <1>1, <1>3, <2>1, <2>3, <3>1 DEF Closed
    <3> QED  BY <2>1, <3>2
  <2> QED  BY <2>2, <2>3 DEF Contexts
<1> QED  BY <1>4, <1>10, <1>11, <1>12, <1>13 DEF PipeInv, InOrder, OnePiece

(* A new text comes after all that its context has written.                *)
LEMMA BeginKeepsOrder ==
  ASSUME TxInv, PipeInv, NEW n \in 1..MaxLen, SendString(n) \/ Interrupt(n)
  PROVE  PipeInv'
<1>1. PICK c \in Contexts :
         /\ texts' = [texts EXCEPT ![c] = @ + 1] /\ left' = [left EXCEPT ![c] = n] /\ left[c] = 0
         /\ UNCHANGED <<dr, shift, wire>>
  BY DEF SendString, Interrupt, BeginText, Contexts
<1>2. Pipe' = Pipe
  BY <1>1 DEF Pipe, Sent
<1>3. texts \in [Contexts -> 0..MaxTexts] /\ left \in [Contexts -> 0..MaxLen] /\ Pipe \in Seq(Byte)
  BY PipeType DEF TxInv, TxTypeOK
<1>4. \A i \in 1..Len(Pipe) : Pipe[i].from \in Contexts /\ Pipe[i].text \in Nat
  <2>1. \A x \in Byte : x.from \in Contexts /\ x.text \in Nat
    BY TxAssumption DEF Byte
  <2> QED  BY <1>3, <2>1
<1>5. \A d \in Contexts : /\ texts[d] \in Nat
                          /\ texts'[d] = IF d = c THEN texts[d] + 1 ELSE texts[d]
                          /\ left'[d] = IF d = c THEN n ELSE left[d]
  BY <1>1, <1>3, TxAssumption
<1>6. Written(Pipe)'
  <2> SUFFICES ASSUME NEW i \in 1..Len(Pipe)
               PROVE  \/ Pipe[i].text < texts'[Pipe[i].from]
                      \/ Pipe[i].text = texts'[Pipe[i].from] /\ Pipe[i].left >= left'[Pipe[i].from]
    BY <1>2 DEF Written
  <2>1. \/ Pipe[i].text < texts[Pipe[i].from]
        \/ Pipe[i].text = texts[Pipe[i].from] /\ Pipe[i].left >= left[Pipe[i].from]
    BY DEF PipeInv, Written
  <2> QED  BY <1>4, <1>5, <2>1
<1>7. Closed(Pipe)'
  <2> SUFFICES ASSUME NEW i \in 1..Len(Pipe), NEW k \in 1..Len(Pipe), i < k,
                      Pipe[i].from = "isr", Pipe[k].from = "main"
               PROVE  Pipe[i].text < texts'["isr"] \/ left'["isr"] = 0
    BY <1>2 DEF Closed
  <2>1. Pipe[i].text < texts["isr"] \/ left["isr"] = 0
    BY DEF PipeInv, Closed
  <2>2. Pipe[i].text <= texts["isr"]
    BY <1>4, <1>5 DEF PipeInv, Written
  <2> QED  BY <1>4, <1>5, <2>1, <2>2 DEF Contexts
<1> QED  BY <1>2, <1>6, <1>7 DEF PipeInv, InOrder, OnePiece

(* The USART moves bytes on and keeps their order; waiting and returning   *)
(* write nothing.                                                          *)
LEMMA HardwareKeepsOrder ==
  ASSUME TxInv, PipeInv,
         \/ Load \/ Transmit \/ InterruptReturn \/ UNCHANGED vars
         \/ \E c \in Contexts : usart_wait_send_ready(c)
  PROVE  PipeInv'
<1>1. UNCHANGED <<texts, left>>
  BY DEF Load, Transmit, InterruptReturn, usart_wait_send_ready, vars
<1>2. Pipe' = Pipe
  <2>1. CASE Load
    BY <2>1 DEF Load, Pipe, Sent
  <2>2. CASE Transmit
    BY <2>2 DEF Transmit, Pipe, Sent
  <2>3. CASE UNCHANGED <<dr, shift, wire>>
    BY <2>3 DEF Pipe, Sent
  <2> QED  BY <2>1, <2>2, <2>3 DEF InterruptReturn, usart_wait_send_ready, vars
<1> QED  BY <1>1, <1>2 DEF PipeInv, InOrder, OnePiece, Written, Closed

(* On the wire the bytes of each context keep their order and appear once, *)
(* and an interrupt's text is in one piece, for every length and number of *)
(* texts and wherever the interrupt cuts into uart_send_string().          *)
THEOREM TxWireKeepsOrder == Spec => []WireKeepsOrder
<1> DEFINE OrderInv == TxInv /\ PipeInv
<1>1. Init => OrderInv
  <2> SUFFICES ASSUME Init PROVE PipeInv
    BY TxInitInv
  <2>1. Pipe = <<>>
    BY DEF Init, Pipe, Sent
  <2> QED  BY <2>1 DEF PipeInv, InOrder, OnePiece, Written, Closed
<1>2. OrderInv /\ [Next]_vars => OrderInv'
  <2> SUFFICES ASSUME TxInv, PipeInv, [Next]_vars PROVE PipeInv'
    BY TxStepInv
  <2>1. CASE \E n \in 1..MaxLen : SendString(n) \/ Interrupt(n)
    BY <2>1, BeginKeepsOrder
  <2>2. CASE \E c \in Contexts : usart_send(c)
    BY <2>2, SendKeepsOrder
  <2>3. CASE \/ Load \/ Transmit \/ InterruptReturn \/ UNCHANGED vars
             \/ \E c \in Contexts : usart_wait_send_ready(c)
    BY <2>3, HardwareKeepsOrder
  <2> QED  BY <2>1, <2>2, <2>3 DEF Next, Processor, uart_send_string
<1>3. OrderInv => WireKeepsOrder
  <2> SUFFICES ASSUME TxInv, PipeInv PROVE WireKeepsOrder
    OBVIOUS
  <2>1. wire \in Seq(Byte) /\ InOrder(wire) /\ OnePiece(wire)
    BY PipeType, PrefixKeepsOrder DEF TxInv, TxTypeOK, PipeInv
  <2> SUFFICES ASSUME NEW i \in 1..Len(wire), NEW j \in 1..Len(wire), i < j
               PROVE  /\ wire[i].from = wire[j].from => Before(wire[i], wire[j])
                      /\ wire[i].from = "isr" /\ wire[j].from = "isr" /\ wire[i].text = wire[j].text =>
                           \A k \in i..j : wire[k].from = "isr"
    BY DEF WireKeepsOrder
  <2>2. wire[i].from = wire[j].from => Before(wire[i], wire[j])
    BY <2>1 DEF InOrder
  <2>3. ASSUME wire[i].from = "isr", wire[j].from = "isr", wire[i].text = wire[j].text, NEW k \in i..j
        PROVE  wire[k].from = "isr"
    <3>1. k \in 1..Len(wire) /\ (k = i \/ k = j \/ (i < k /\ k < j))
      BY <2>1
    <3> QED  BY <2>1, <2>3, <3>1 DEF OnePiece
  <2> QED  BY <2>2, <2>3
<1> QED  BY <1>1, <1>2, <1>3, PTL DEF Spec

-----------------------------------------------------------------------------
(* HttpResponse: no header is longer than the array it is written into.    *)
HeadersFit == \A r \in Responses : HeaderLen(r) < HeaderCap

(* What is still owed to the module before each step.                      *)
Owed == CASE step = "header" -> Announced(response)
          [] step = "body" -> BodyLen(response)
          [] OTHER -> 0

HttpInv ==
  /\ HttpTypeOK
  /\ expecting = IF accepted THEN Owed ELSE 0
  /\ accepted => misread = 0 /\ response.link <= MaxLinkId
  /\ step = "announce" => misread = 0
  /\ step = "idle" /\ accepted => closed

(* The lengths are natural numbers, and the whole header is written.       *)
LEMMA Lengths ==
  ASSUME HeadersFit, NEW r \in Responses
  PROVE  /\ BodyLen(r) \in Nat /\ HeaderLen(r) \in Nat
         /\ HeaderWritten(r) = HeaderLen(r)
         /\ Announced(r) = HeaderLen(r) + BodyLen(r)
         /\ Announced(r) \in Nat /\ AnnounceLen(r) \in Nat /\ CloseLen(r) \in Nat
         /\ r.link \in Nat
<1>1. ASSUME NEW n PROVE Digits(n) \in Nat
  BY SMT DEF Digits
<1>2. StatusTextLen(r.status) \in Nat
  BY SMT DEF StatusTextLen
<1>3. TypeLen(r) \in Nat /\ BodyLen(r) \in Nat /\ r.link \in Nat
  BY ResponseAssumption DEF Responses, TypeLen, BodyLen
<1>4. HeaderLen(r) \in Nat
  BY <1>1, <1>2, <1>3, SMT DEF HeaderLen
<1>5. HeaderWritten(r) = HeaderLen(r)
  BY DEF HeadersFit, HeaderWritten
<1>6. AnnounceLen(r) \in Nat /\ CloseLen(r) \in Nat
  BY <1>1, SMT DEF AnnounceLen, CloseLen
<1> QED  BY <1>3, <1>4, <1>5, <1>6 DEF Announced

(* Nothing is owed before the first response.                              *)
LEMMA HttpInitInv == HttpInit => HttpInv
<1> SUFFICES ASSUME HttpInit PROVE HttpInv
  OBVIOUS
<1>1. busy \in BOOLEAN /\ accepted \in BOOLEAN /\ closed \in BOOLEAN /\ ~accepted
  BY Zenon DEF HttpInit
<1> QED  BY <1>1 DEF HttpInit, HttpInv, HttpTypeOK

(* No step leaves the invariant.                                           *)
LEMMA HttpStepInv == ASSUME HeadersFit, HttpInv, [HttpNext]_httpVars PROVE HttpInv'
<1>0. /\ response \in Responses /\ expecting \in Nat /\ misread \in Nat
      /\ BodyLen(response) \in Nat /\ HeaderLen(response) \in Nat
      /\ HeaderWritten(response) = HeaderLen(response)
      /\ Announced(response) = HeaderLen(response) + BodyLen(response)
      /\ AnnounceLen(response) \in Nat /\ CloseLen(response) \in Nat /\ response.link \in Nat
  BY Lengths DEF HttpInv, HttpTypeOK
<1>1. ASSUME NEW r \in Responses, Respond(r) PROVE HttpInv'
  <2>1. accepted' \in BOOLEAN /\ ~accepted' /\ closed' \in BOOLEAN /\ busy' \in BOOLEAN
    BY <1>1, Zenon DEF Respond, HttpInv, HttpTypeOK
  <2>2. expecting = 0
    BY <1>1 DEF Respond, HttpInv, Owed
  <2> QED  BY <1>1, <2>1, <2>2 DEF Respond, HttpInv, HttpTypeOK
<1>2. ASSUME NEW clean \in BOOLEAN, Announce(clean) PROVE HttpInv'
  <2>1. expecting = 0 /\ misread' = misread /\ response' = response /\ step' = "header"
    BY <1>2 DEF Announce, HttpInv, Owed
  <2>2. accepted' \in BOOLEAN /\ closed' \in BOOLEAN /\ busy' \in BOOLEAN
    BY <1>2, Zenon DEF Announce, HttpInv, HttpTypeOK
  <2>3. accepted' => response.link <= MaxLinkId
    BY <1>2, Zenon DEF Announce
  <2>4. expecting' = IF accepted' THEN Announced(response) ELSE 0
    BY <1>0, <1>2, <2>1 DEF Announce, TakenAsData
  <2>5. step = "announce"
    BY <1>2 DEF Announce
  <2> QED  BY <1>0, <2>1, <2>2, <2>3, <2>4, <2>5 DEF HttpInv, HttpTypeOK, Owed
<1>3. CASE SendHeader
  BY <1>0, <1>3 DEF SendHeader, TakenAsData, HttpInv, HttpTypeOK, Owed
<1>4. CASE SendBody
  BY <1>0, <1>4 DEF SendBody, TakenAsData, HttpInv, HttpTypeOK, Owed
<1>5. CASE esp8266_tcp_close
  <2>1. expecting = 0 /\ step' = "idle" /\ UNCHANGED <<response, busy, misread, accepted>>
    BY <1>5 DEF esp8266_tcp_close, HttpInv, Owed
  <2>2. expecting' = 0
    BY <1>0, <1>5, <2>1 DEF esp8266_tcp_close, TakenAsData
  <2>3. closed' \in BOOLEAN
    BY <1>5, Zenon DEF esp8266_tcp_close, HttpInv, HttpTypeOK
  <2>4. accepted => closed'
    <3>1. accepted => ~(response.link > MaxLinkId)
      BY <1>0, ResponseAssumption DEF HttpInv
    <3> QED  BY <1>5, <2>1, <3>1, Zenon DEF esp8266_tcp_close
  <2> QED  BY <2>1, <2>2, <2>3, <2>4 DEF HttpInv, HttpTypeOK, Owed
<1>6. CASE OtherCommand
  BY <1>0, <1>6 DEF OtherCommand, HttpInv, HttpTypeOK, Owed
<1>7. CASE UNCHANGED httpVars
  BY <1>7 DEF httpVars, HttpInv, HttpTypeOK, Owed
<1> QED  BY <1>1, <1>2, <1>3, <1>4, <1>5, <1>6, <1>7 DEF HttpNext

(* As long as every header fits its buffer, an accepted response is taken  *)
(* as data to its last byte and the connection is closed after it.         *)
THEOREM FittingHeadersDelimited == HeadersFit => (HttpSpec => []ResponseDelimited)
<1> SUFFICES ASSUME HeadersFit PROVE HttpSpec => []ResponseDelimited
  OBVIOUS
<1>1. HttpInv /\ [HttpNext]_httpVars => HttpInv'
  BY HttpStepInv
<1>2. HttpInv => ResponseDelimited
  BY DEF HttpInv, ResponseDelimited
<1> QED  BY HttpInitInv, <1>1, <1>2, PTL DEF HttpSpec

(* As long as every header fits its buffer, no response leaves the module  *)
(* waiting for data.                                                       *)
THEOREM FittingHeadersOweNothing == HeadersFit => (HttpSpec => []NothingOwed)
<1> SUFFICES ASSUME HeadersFit PROVE HttpSpec => []NothingOwed
  OBVIOUS
<1>1. HttpInv /\ [HttpNext]_httpVars => HttpInv'
  BY HttpStepInv
<1>2. HttpInv => NothingOwed
  BY DEF HttpInv, NothingOwed, Owed
<1> QED  BY HttpInitInv, <1>1, <1>2, PTL DEF HttpSpec
=============================================================================
