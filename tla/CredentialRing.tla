--------------------------- MODULE CredentialRing ---------------------------
(***************************************************************************)
(* What the credential store promises: a ring of the most recent           *)
(* credentials, oldest first.  Saving a known SSID replaces its password   *)
(* where it stands; saving a new one drops the oldest place.  A power loss *)
(* may turn places into holes, but never mixes, revives or reorders what   *)
(* is left.                                                                *)
(***************************************************************************)
EXTENDS Integers

CONSTANTS Size, Ssids, Passwords, Hole

VARIABLE ring

Places == 0..(Size - 1)

Init == ring \in [Places -> (Ssids \X Passwords) \cup {Hole}]

Known(ssid) == {i \in Places : ring[i] # Hole /\ ring[i][1] = ssid}

Save(ssid, password) ==
  IF Known(ssid) # {}
  THEN \E i \in Known(ssid) : ring' = [ring EXCEPT ![i] = <<ssid, password>>]
  ELSE ring' = [i \in Places |-> IF i = Size - 1 THEN <<ssid, password>> ELSE ring[i + 1]]

PowerLoss == \E lost \in SUBSET Places : ring' = [i \in Places |-> IF i \in lost THEN Hole ELSE ring[i]]

Next == PowerLoss \/ \E ssid \in Ssids, password \in Passwords : Save(ssid, password)

Spec == Init /\ [][Next]_ring
=============================================================================
