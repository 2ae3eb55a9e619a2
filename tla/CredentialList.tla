--------------------------- MODULE CredentialList ---------------------------
(***************************************************************************)
(* The saved Wi-Fi credentials, flash_data_t of sylib/esp8266/esp8266.h,   *)
(* and what esp8266_update_credential_list() does to them.                 *)
(*                                                                         *)
(* An image of the structure is a function from its fields, numbered in    *)
(* the order of their addresses: next_update first, then the password and  *)
(* the SSID of each slot.  That order is the order in which flash is       *)
(* programmed.  Strings are abstract values (Empty is ""), short enough    *)
(* for their arrays; a field that flash holds may also be Erased (it       *)
(* begins with a byte 0xFF) or Torn (partly programmed).  Neither compares *)
(* equal to a string: both contain a byte 0xFF before any NUL.             *)
(***************************************************************************)
EXTENDS Integers

CONSTANTS
  MaxCredential,    \* MAX_CREDENTIAL, 10 in the code
  Ssids,            \* SSIDs, Empty among them
  Passwords,        \* passwords, Empty among them
  Empty, Erased, Torn

Slots == 0..(MaxCredential - 1)
Cells == 0..(2 * MaxCredential)

NextCell        == 0
PasswordCell(i) == 2 * i + 1
SsidCell(i)     == 2 * i + 2

Strings   == Ssids \cup Passwords
CellValue == Nat \cup Strings \cup {Erased, Torn}
Images    == [Cells -> CellValue]

ASSUME CredentialAssumption ==
  /\ MaxCredential \in Nat \ {0}
  /\ Empty \in Ssids /\ Empty \in Passwords
  /\ Erased \notin Strings /\ Torn \notin Strings /\ Erased # Torn
  /\ Strings \cap Nat = {} /\ Erased \notin Nat /\ Torn \notin Nat

(* flash_data = {0}: every string is empty.                                *)
ZeroImage == [c \in Cells |-> IF c = NextCell THEN 0 ELSE Empty]

(* A page after flash_erase_page().                                        *)
ErasedImage == [c \in Cells |-> Erased]

(* A field of the page when the first half-words of a value are written;   *)
(* an erased one that is programmed with ones stays as it is.              *)
Begun(value) == IF value = Erased THEN Erased ELSE Torn

(* The slots a search for an SSID with strcmp() finds, and the first.      *)
Matches(image, ssid) == {i \in Slots : image[SsidCell(i)] = ssid}
FirstMatch(image, ssid) ==
  CHOOSE i \in Matches(image, ssid) : \A j \in Matches(image, ssid) : i <= j

(* The slot a new credential goes to: an index that is out of range, which *)
(* includes an erased or half-programmed word, counts as zero.             *)
NextSlot(image) == IF image[NextCell] \in Slots THEN image[NextCell] ELSE 0

(* next_update++: all ones wrap around to zero.  Every index past the list *)
(* is treated alike, a half-programmed word too, so they are not told      *)
(* apart (the wrap after 2^32 such steps is not modelled).                 *)
Advanced(next) == IF next \in Slots THEN next + 1 ELSE IF next = Erased THEN 0 ELSE next

(* Mutant of Updated: a known SSID is stored a second time.                *)
UpdatedAlwaysNew(image, ssid, password) ==
  LET n == NextSlot(image)
  IN  [image EXCEPT ![NextCell] = n + 1, ![PasswordCell(n)] = password, ![SsidCell(n)] = ssid]

(* Mutant of Updated: the ring pointer is not advanced.                    *)
UpdatedInPlace(image, ssid, password) ==
  IF Matches(image, ssid) # {}
  THEN [image EXCEPT ![PasswordCell(FirstMatch(image, ssid))] = password]
  ELSE LET n == NextSlot(image)
       IN  [image EXCEPT ![NextCell] = n, ![PasswordCell(n)] = password, ![SsidCell(n)] = ssid]

(* esp8266_update_credential_list() in RAM: a known SSID gets the new      *)
(* password, a new one takes the next slot of the ring.                    *)
Updated(image, ssid, password) ==
  IF Matches(image, ssid) # {}
  THEN [image EXCEPT ![PasswordCell(FirstMatch(image, ssid))] = password]
  ELSE LET n == NextSlot(image)
       IN  [image EXCEPT ![NextCell] = n + 1, ![PasswordCell(n)] = password, ![SsidCell(n)] = ssid]

(* No SSID is stored in two slots.                                         *)
NoDuplicate(image) ==
  \A i, j \in Slots : image[SsidCell(i)] \in Ssids /\ image[SsidCell(i)] = image[SsidCell(j)] => i = j

(* A slot whose SSID is written, be it in part, has a whole password.      *)
Paired(image) ==
  \A i \in Slots : image[SsidCell(i)] # Erased => image[PasswordCell(i)] \in Passwords
=============================================================================
