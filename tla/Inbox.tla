------------------------------- MODULE Inbox -------------------------------
(***************************************************************************)
(* What the receive path promises its users: a first-in first-out channel  *)
(* of whole messages.  A line reaches esp8266_handle_return() and a frame  *)
(* reaches the HTTP request handler exactly once, complete up to the       *)
(* capacity of its buffer, in the order the module sent them; frames are   *)
(* dropped while no handler is registered, and a blank line may or may not *)
(* be reported as an empty one.                                            *)
(***************************************************************************)
EXTENDS Integers, Sequences

CONSTANTS Message,     \* the messages the module may send
          LineMax,     \* longest line delivered
          RequestMax   \* longest request delivered

VARIABLES inflight,    \* messages sent and not yet delivered
          registered,  \* whether an HTTP request handler is registered
          handled      \* the latest delivery, with a bit that flips at each one

NoDelivery == [call |-> "none"]

inboxVars == <<inflight, registered, handled>>

Truncate(s, n) == IF Len(s) <= n THEN s ELSE SubSeq(s, 1, n)

Delivery(m) ==
  CASE m.kind = "line"  -> [call |-> "line",  line |-> Truncate(m.text, LineMax)]
    [] m.kind = "blank" -> [call |-> "line",  line |-> <<>>]
    [] m.kind = "frame" -> [call |-> "frame", link |-> m.link,
                            request |-> Truncate(m.data, RequestMax)]

MayVanish(m) == m.kind = "blank" \/ (m.kind = "frame" /\ ~registered)
MayDeliver(m) == m.kind # "frame" \/ registered

Init == inflight = <<>> /\ handled = <<0, NoDelivery>> /\ registered = FALSE

Send(m) == inflight' = Append(inflight, m) /\ UNCHANGED <<registered, handled>>

Register(r) == registered' = r /\ UNCHANGED <<inflight, handled>>

Deliver ==
  /\ inflight # <<>>
  /\ MayDeliver(Head(inflight))
  /\ handled' = <<1 - handled[1], Delivery(Head(inflight))>>
  /\ inflight' = Tail(inflight)
  /\ UNCHANGED registered

Vanish ==
  /\ inflight # <<>>
  /\ MayVanish(Head(inflight))
  /\ inflight' = Tail(inflight)
  /\ UNCHANGED <<registered, handled>>

Next ==
  \/ \E m \in Message : Send(m)
  \/ \E r \in BOOLEAN : Register(r)
  \/ Deliver
  \/ Vanish

Spec == Init /\ [][Next]_inboxVars

(* Every message is delivered or dropped at last.                          *)
FairSpec == Spec /\ WF_inboxVars(Deliver \/ Vanish)
=============================================================================
