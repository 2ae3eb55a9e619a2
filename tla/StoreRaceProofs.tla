-------------------------- MODULE StoreRaceProofs --------------------------
(***************************************************************************)
(* What the page holds when esp8266_update_credential_list() runs in       *)
(* thread mode and in the interrupt, for every number of slots, every set  *)
(* of SSIDs and passwords, every stored list and any number of calls and   *)
(* interrupts.  The invariant follows the interrupted call: what it has    *)
(* found out about the list in RAM stays true of the one the interrupt     *)
(* puts in its place, a string that is half copied when that happens ends  *)
(* up in a slot that has a password, and what the call programs extends    *)
(* the start of a good list or is ignored.                                 *)
(***************************************************************************)
EXTENDS StoreRace, WellFoundedInduction, TLAPS

IsImage(image) == image = [c \in Cells |-> image[c]]

(* A good list, but for a splice.                                          *)
Good(image, exempt) == (exempt \/ NamedOnce(image)) /\ Paired(image)

(* The same, but for the password of slot n.                               *)
GoodBut(image, n, exempt) ==
  /\ exempt \/ NamedOnce(image)
  /\ \A i \in Slots : i # n /\ image[SsidCell(i)] # Erased => image[PasswordCell(i)] \in Passwords

(* No slot has the SSID that thread mode is saving, unless that is "".     *)
Absent(image) == ssid # Empty => \A i \in Slots : image[SsidCell(i)] # ssid

(* image is the start of copy, up to field n, on an erased page; field n   *)
(* may be partly programmed.                                               *)
PrefixOf(image, copy, n) ==
  \A c \in Cells : IF c < n THEN image[c] = copy[c]
                   ELSE image[c] = Erased \/ (c = n /\ image[c] = Torn /\ copy[c] # Erased)

Labels == {"idle", "read", "search", "known", "setting", "clamp", "zero", "ssid", "naming",
           "password", "finishing", "load", "store", "unlock", "erase", "program", "programming"}

(* The flash page and the arguments of the call.                           *)
PageInv ==
  /\ IsImage(flash) /\ IsImage(flash_data) /\ Good(flash, spliced)
  /\ pc \in Labels
  /\ pc # "idle" => ssid \in Ssids /\ password \in Passwords

(* While the list is read and searched it is that of the page.             *)
SearchInv ==
  /\ pc = "read" => at \in Cells /\ \A c \in Cells : c < at => flash_data[c] = flash[c]
  /\ pc \in {"search", "known", "clamp"} => flash_data = flash
  /\ pc = "search" => /\ at \in 0..MaxCredential
                      /\ ssid # Empty => \A i \in Slots : i < at => flash_data[SsidCell(i)] # ssid
  /\ pc \in {"known", "setting"} => at \in Slots

(* While it is changed, only the slot being filled may lack its password,  *)
(* unless the interrupt has replaced the list.                             *)
ChangeInv ==
  /\ pc \in {"clamp", "zero", "ssid"} =>
       Absent(flash) /\ Absent(flash_data) /\ Good(flash_data, spliced)
  /\ pc \in {"setting", "naming", "finishing"} =>
       IF cut THEN Good(flash_data, spliced) ELSE GoodBut(flash_data, at, spliced)
  /\ pc = "naming" /\ ~cut => Absent(flash_data) /\ at = flash_data[NextCell]
  /\ pc = "password" => GoodBut(flash_data, flash_data[NextCell], spliced)
  /\ pc \in {"load", "store", "unlock", "erase", "program", "programming"} =>
       Good(flash_data, spliced)

(* While it is programmed, the page is the start of it, unless the         *)
(* interrupt has come and locked the controller.                           *)
ProgramInv ==
  pc \in {"program", "programming"} => at \in Nat /\ (~locked => PrefixOf(flash, flash_data, at))

RaceInv == PageInv /\ SearchInv /\ ChangeInv /\ ProgramInv

(* The fields of the slots do not overlap, and a password comes before its *)
(* SSID.                                                                   *)
LEMMA CellFacts ==
  ASSUME NEW i \in Slots, NEW j \in Slots
  PROVE  /\ SsidCell(i) \in Cells /\ PasswordCell(i) \in Cells /\ NextCell \in Cells
         /\ SsidCell(i) # NextCell /\ PasswordCell(i) # NextCell
         /\ PasswordCell(i) < SsidCell(i)
         /\ SsidCell(i) # PasswordCell(j)
         /\ SsidCell(i) = SsidCell(j) => i = j
         /\ PasswordCell(i) = PasswordCell(j) => i = j
  BY CredentialAssumption DEF Slots, Cells, SsidCell, PasswordCell, NextCell

(* Whether a list is good depends on its slots only.                       *)
LEMMA SameSlots ==
  ASSUME NEW a, NEW b, NEW exempt, Good(a, exempt),
         \A i \in Slots : b[SsidCell(i)] = a[SsidCell(i)] /\ b[PasswordCell(i)] = a[PasswordCell(i)]
  PROVE  Good(b, exempt)
  BY DEF Good, NamedOnce, Paired

(* The start of a good list is a good list.                                *)
LEMMA PrefixIsGood ==
  ASSUME NEW image, NEW copy, NEW n \in Nat, NEW exempt,
         PrefixOf(image, copy, n), Good(copy, exempt)
  PROVE  Good(image, exempt)
<1>1. ASSUME NEW i \in Slots, image[SsidCell(i)] # Erased
      PROVE  /\ image[SsidCell(i)] \in {copy[SsidCell(i)], Torn}
             /\ copy[SsidCell(i)] # Erased
             /\ image[PasswordCell(i)] = copy[PasswordCell(i)]
  <2>1. /\ SsidCell(i) \in Cells /\ PasswordCell(i) \in Cells /\ PasswordCell(i) < SsidCell(i)
        /\ SsidCell(i) \in Nat /\ PasswordCell(i) \in Nat
    BY CellFacts DEF Cells
  <2>2. /\ image[SsidCell(i)] \in {copy[SsidCell(i)], Torn} /\ copy[SsidCell(i)] # Erased
        /\ SsidCell(i) <= n
    BY <1>1, <2>1 DEF PrefixOf
  <2>3. PasswordCell(i) < n
    BY <2>1, <2>2
  <2> QED  BY <2>1, <2>2, <2>3 DEF PrefixOf
<1>2. exempt \/ NamedOnce(image)
  BY <1>1, CredentialAssumption DEF Good, NamedOnce, Strings
<1>3. Paired(image)
  BY <1>1 DEF Good, Paired
<1> QED  BY <1>2, <1>3 DEF Good

(* A set of natural numbers has a least one.                               *)
LEMMA LeastNumber ==
  ASSUME NEW S \in SUBSET Nat, S # {}
  PROVE  \E i \in S : \A j \in S : i <= j
<1> DEFINE R == OpToRel(<, Nat)
<1>1. IsWellFoundedOn(R, Nat)
  BY NatLessThanWellFounded
<1>2. \A x, y \in Nat : x < y => <<x, y>> \in R
  BY DEF OpToRel
<1>3. PICK i \in S : \A j \in S : ~(<<j, i>> \in R)
  <2> HIDE DEF R
  <2> QED  BY <1>1, WFMin
<1> HIDE DEF R
<1>4. \A j \in S : ~(j < i)
  BY <1>2, <1>3, Zenon
<1>5. \A j \in S : i <= j
  BY <1>4
<1> QED  BY <1>5

(* A whole update, as the interrupt makes it: the list stays good, and no  *)
(* slot has an SSID that is neither "" nor its own.                        *)
LEMMA UpdatedIsGood ==
  ASSUME NEW image, NEW exempt, IsImage(image), Good(image, exempt)
  PROVE  LET new == Updated(image, Empty, Empty)
         IN  /\ IsImage(new) /\ Good(new, exempt)
             /\ \A i \in Slots : new[SsidCell(i)] \in {image[SsidCell(i)], Empty}
<1> DEFINE new == Updated(image, Empty, Empty)
<1>0. Empty \in Ssids /\ Empty \in Passwords
  BY CredentialAssumption
<1>1. CASE Matches(image, Empty) # {}
  <2> DEFINE m == FirstMatch(image, Empty)
  <2>1. Matches(image, Empty) \in SUBSET Nat
    BY CredentialAssumption DEF Matches, Slots
  <2>2. \E i \in Matches(image, Empty) : \A j \in Matches(image, Empty) : i <= j
    BY <1>1, <2>1, LeastNumber
  <2>3. m \in Slots
    BY <2>2 DEF FirstMatch, Matches
  <2>4. new = [image EXCEPT ![PasswordCell(m)] = Empty]
    BY <1>1 DEF Updated
  <2>5. IsImage(new) /\ \A d \in Cells : new[d] = IF d = PasswordCell(m) THEN Empty ELSE image[d]
    <3>1. PasswordCell(m) \in Cells
      BY <2>3, CellFacts
    <3> QED  BY <2>4, <3>1 DEF IsImage
  <2>6. \A j \in Slots : /\ new[SsidCell(j)] = image[SsidCell(j)]
                         /\ new[PasswordCell(j)] \in {Empty, image[PasswordCell(j)]}
    BY <2>3, <2>5, CellFacts
  <2> QED  BY <1>0, <2>5, <2>6 DEF Good, NamedOnce, Paired
<1>2. CASE Matches(image, Empty) = {}
  <2> DEFINE n == NextSlot(image)
  <2>1. n \in Slots
    BY CredentialAssumption DEF NextSlot, Slots
  <2>2. new = [image EXCEPT ![NextCell] = n + 1, ![PasswordCell(n)] = Empty, ![SsidCell(n)] = Empty]
    BY <1>2 DEF Updated
  <2>3. IsImage(new)
    BY <2>2 DEF IsImage
  <2>4. \A j \in Slots : /\ new[SsidCell(j)] = IF j = n THEN Empty ELSE image[SsidCell(j)]
                         /\ new[PasswordCell(j)] = IF j = n THEN Empty ELSE image[PasswordCell(j)]
    BY <2>1, <2>2, CellFacts DEF IsImage
  <2>5. Good(new, exempt)
    BY <1>0, <2>4 DEF Good, NamedOnce, Paired
  <2> QED  BY <2>3, <2>4, <2>5
<1> QED  BY <1>1, <1>2

(* The list of earlier sessions is good.                                   *)
LEMMA RaceInitInv == Init => RaceInv
<1> SUFFICES ASSUME Init PROVE RaceInv
  OBVIOUS
<1>1. IsImage(flash) /\ Good(flash, spliced)
  BY StoredAssumption DEF Init, IsImage, Good, Images
<1>2. IsImage(flash_data)
  BY DEF Init, IsImage, ZeroImage
<1>3. pc = "idle"
  BY DEF Init
<1> QED  BY <1>1, <1>2, <1>3 DEF RaceInv, PageInv, SearchInv, ChangeInv, ProgramInv, Labels

(* The application calls the function.                                     *)
LEMMA CallInv ==
  ASSUME RaceInv, NEW s \in Ssids, NEW p \in Passwords,
         esp8266_update_credential_list(s, p)
  PROVE  RaceInv'
<1>1. /\ pc' = "read" /\ at' = 0 /\ ssid' = s /\ password' = p
      /\ UNCHANGED <<flash, locked, flash_data, cut, spliced>>
  BY DEF esp8266_update_credential_list
<1>2. PageInv'
  BY <1>1 DEF RaceInv, PageInv, Labels
<1>3. SearchInv'
  BY <1>1, CredentialAssumption DEF SearchInv, Cells
<1> QED  BY <1>1, <1>2, <1>3 DEF RaceInv, ChangeInv, ProgramInv

(* Each field that is read makes the copy longer.                          *)
LEMMA ReadInv == ASSUME RaceInv, READ_FLASH PROVE RaceInv'
<1>1. /\ pc = "read" /\ flash_data' = [flash_data EXCEPT ![at] = flash[at]]
      /\ UNCHANGED <<flash, locked, ssid, password, cut, spliced>>
      /\ IF at + 1 \in Cells THEN at' = at + 1 /\ pc' = "read" ELSE at' = 0 /\ pc' = "search"
  BY DEF READ_FLASH, Goto, Uncopied
<1>2. at \in Cells /\ \A c \in Cells : c < at => flash_data[c] = flash[c]
  BY <1>1 DEF RaceInv, SearchInv
<1>3. /\ IsImage(flash_data')
      /\ \A d \in Cells : flash_data'[d] = IF d = at THEN flash[at] ELSE flash_data[d]
  BY <1>1, <1>2 DEF RaceInv, PageInv, IsImage
<1>4. PageInv'
  BY <1>1, <1>3 DEF RaceInv, PageInv, Labels
<1>5. SearchInv'
  <2>1. CASE at + 1 \in Cells
    BY <1>1, <1>2, <1>3, <2>1 DEF SearchInv, Cells
  <2>2. CASE at + 1 \notin Cells
    <3>1. at = 2 * MaxCredential
      BY <1>2, <2>2, CredentialAssumption DEF Cells
    <3>2. \A d \in Cells : flash_data'[d] = flash[d]
      BY <1>2, <1>3, <3>1, CredentialAssumption DEF Cells
    <3>3. flash_data' = flash'
      BY <1>1, <1>3, <3>2 DEF RaceInv, PageInv, IsImage
    <3> QED  BY <1>1, <2>2, <3>3, CredentialAssumption DEF SearchInv, Slots
  <2> QED  BY <2>1, <2>2
<1> QED  BY <1>1, <1>4, <1>5 DEF RaceInv, ChangeInv, ProgramInv

(* The search ends at a slot that has the SSID, or with none that has it.  *)
LEMMA SearchStepInv == ASSUME RaceInv, Search PROVE RaceInv'
<1>1. /\ pc = "search" /\ UNCHANGED <<flash_data, flash, locked, ssid, password, cut, spliced>>
      /\ \/ at \in Slots /\ at' = at /\ pc' = "known"
         \/ at \in Slots /\ flash_data[SsidCell(at)] # ssid /\ at' = at + 1 /\ pc' = "search"
         \/ at \notin Slots /\ at' = at /\ pc' = "clamp"
  BY DEF Search, Goto, Uncopied
<1>2. /\ flash_data = flash /\ at \in 0..MaxCredential
      /\ ssid # Empty => \A i \in Slots : i < at => flash_data[SsidCell(i)] # ssid
  BY <1>1 DEF RaceInv, SearchInv
<1>3. PageInv'
  BY <1>1 DEF RaceInv, PageInv, Labels
<1>4. SearchInv'
  BY <1>1, <1>2, CredentialAssumption DEF SearchInv, Slots
<1>5. ChangeInv'
  <2>1. CASE pc' = "clamp"
    <3>1. at = MaxCredential
      BY <1>1, <1>2, <2>1, CredentialAssumption DEF Slots
    <3>2. Absent(flash_data)
      BY <1>2, <3>1, CredentialAssumption DEF Absent, Slots
    <3>3. Good(flash_data, spliced)
      BY <1>2 DEF RaceInv, PageInv
    <3> QED  BY <1>1, <1>2, <2>1, <3>2, <3>3 DEF ChangeInv, Absent
  <2>2. CASE pc' # "clamp"
    BY <1>1, <2>2 DEF ChangeInv
  <2> QED  BY <2>1, <2>2
<1> QED  BY <1>1, <1>3, <1>4, <1>5 DEF RaceInv, ProgramInv

(* The first bytes of a string: one field of one slot is Torn.             *)
LEMMA BeginCopyFacts ==
  ASSUME NEW n, NEW field, NEW label, IsImage(flash_data), BeginCopy(n, field, label),
         n \in Slots => field \in {SsidCell(n), PasswordCell(n)}
  PROVE  /\ pc' = label /\ at' = n /\ cut' = FALSE /\ IsImage(flash_data')
         /\ UNCHANGED <<flash, locked, ssid, password, spliced>>
         /\ \A d \in Cells : flash_data'[d] = IF n \in Slots /\ d = field THEN Torn ELSE flash_data[d]
<1>1. n \in Slots => field \in Cells
  BY CellFacts
<1> QED  BY <1>1 DEF BeginCopy, Goto, IsImage

(* The last ones: the field is the whole string, or a splice of it.        *)
LEMMA EndCopyFacts ==
  ASSUME NEW field, NEW string, NEW strings, NEW label, IsImage(flash_data),
         EndCopy(field, string, strings, label),
         at \in Slots => field \in {SsidCell(at), PasswordCell(at)}
  PROVE  /\ pc' = label /\ at' = at /\ IsImage(flash_data')
         /\ UNCHANGED <<flash, locked, ssid, password>>
         /\ at \notin Slots => flash_data' = flash_data
         /\ at \in Slots =>
              \E s \in IF cut THEN Spliced(flash_data[field], strings) ELSE {string} :
                \A d \in Cells : flash_data'[d] = IF d = field THEN s ELSE flash_data[d]
<1>1. at \in Slots => field \in Cells
  BY CellFacts
<1> QED  BY <1>1 DEF EndCopy, Goto, IsImage

(* A splice of a whole string is a whole string, and what begins with an   *)
(* erased byte stays as it is.                                             *)
LEMMA SplicedFacts ==
  ASSUME NEW left, NEW strings, Empty \in strings, Erased \notin strings, Torn \notin strings,
         NEW s \in Spliced(left, strings)
  PROVE  (left = Erased => s = Erased) /\ (left \in strings => s \in strings)
<1>1. Erased # Torn /\ Empty # Erased /\ Empty # Torn
  BY CredentialAssumption DEF Strings
<1>2. CASE left \in {Empty, Erased}
  BY <1>1, <1>2 DEF Spliced
<1>3. CASE left \notin {Empty, Erased}
  BY <1>1, <1>3 DEF Spliced
<1> QED  BY <1>2, <1>3

(* A list in which the passwords of some slots are replaced by whole ones  *)
(* stays good, and one that lacked a password is completed.                *)
LEMMA PasswordsChanged ==
  ASSUME NEW a, NEW b, NEW exempt, exempt \/ NamedOnce(a),
         \A i \in Slots : /\ b[SsidCell(i)] = a[SsidCell(i)]
                          /\ a[SsidCell(i)] # Erased => b[PasswordCell(i)] \in Passwords
  PROVE  Good(b, exempt)
  BY DEF Good, NamedOnce, Paired

(* A password is written to a slot, in whatever list stands there by now:  *)
(* its first bytes ...                                                     *)
LEMMA BeginPasswordInv ==
  ASSUME RaceInv, NEW n, NEW label \in {"setting", "finishing"},
         BeginCopy(n, PasswordCell(n), label), GoodBut(flash_data, n, spliced), pc # "idle",
         label = "setting" => n \in Slots
  PROVE  RaceInv'
<1>1. IsImage(flash_data)
  BY DEF RaceInv, PageInv
<1>2. /\ pc' = label /\ at' = n /\ cut' = FALSE /\ IsImage(flash_data')
      /\ UNCHANGED <<flash, locked, ssid, password, spliced>>
      /\ \A d \in Cells : flash_data'[d] = IF n \in Slots /\ d = PasswordCell(n) THEN Torn
                                            ELSE flash_data[d]
  BY <1>1, BeginCopyFacts
<1>3. \A i \in Slots : /\ flash_data'[SsidCell(i)] = flash_data[SsidCell(i)]
                       /\ i # n => flash_data'[PasswordCell(i)] = flash_data[PasswordCell(i)]
  BY <1>2, CellFacts
<1>4. GoodBut(flash_data', at', spliced')
  BY <1>2, <1>3 DEF GoodBut, NamedOnce
<1>5. PageInv'
  BY <1>2 DEF RaceInv, PageInv, Labels
<1> QED  BY <1>2, <1>4, <1>5 DEF RaceInv, SearchInv, ChangeInv, ProgramInv

(* ... and the last ones.                                                  *)
LEMMA EndPasswordInv ==
  ASSUME RaceInv, pc \in {"setting", "finishing"}, NEW label \in {"unlock", "load"},
         EndCopy(PasswordCell(at), password, Passwords, label), UNCHANGED spliced
  PROVE  RaceInv'
<1>1. /\ IsImage(flash_data) /\ password \in Passwords
      /\ IF cut THEN Good(flash_data, spliced) ELSE GoodBut(flash_data, at, spliced)
  BY DEF RaceInv, PageInv, ChangeInv
<1>2. /\ pc' = label /\ IsImage(flash_data') /\ UNCHANGED <<flash, locked, ssid, password>>
      /\ at \notin Slots => flash_data' = flash_data
      /\ at \in Slots =>
           \E s \in IF cut THEN Spliced(flash_data[PasswordCell(at)], Passwords) ELSE {password} :
             \A d \in Cells : flash_data'[d] = IF d = PasswordCell(at) THEN s ELSE flash_data[d]
  BY <1>1, EndCopyFacts
<1>3. Good(flash_data', spliced)
  <2>1. CASE at \notin Slots
    BY <1>1, <1>2, <2>1 DEF Good, GoodBut, Paired
  <2>2. CASE at \in Slots
    <3>1. PICK s \in IF cut THEN Spliced(flash_data[PasswordCell(at)], Passwords) ELSE {password} :
            \A d \in Cells : flash_data'[d] = IF d = PasswordCell(at) THEN s ELSE flash_data[d]
      BY <1>2, <2>2
    <3>2. \A i \in Slots :
            /\ flash_data'[SsidCell(i)] = flash_data[SsidCell(i)]
            /\ flash_data'[PasswordCell(i)] = IF i = at THEN s ELSE flash_data[PasswordCell(i)]
      BY <2>2, <3>1, CellFacts
    <3>3. cut /\ flash_data[PasswordCell(at)] \in Passwords => s \in Passwords
      BY <3>1, SplicedFacts, CredentialAssumption DEF Strings
    <3>4. ~cut => s \in Passwords
      BY <1>1, <3>1
    <3>5. \A i \in Slots : flash_data[SsidCell(i)] # Erased => flash_data'[PasswordCell(i)] \in Passwords
      BY <1>1, <2>2, <3>2, <3>3, <3>4 DEF Good, GoodBut, Paired
    <3>6. spliced \/ NamedOnce(flash_data)
      BY <1>1 DEF Good, GoodBut
    <3> QED  BY <3>2, <3>5, <3>6, PasswordsChanged
  <2> QED  BY <2>1, <2>2
<1>4. PageInv'
  BY <1>2 DEF RaceInv, PageInv, Labels
<1> QED  BY <1>2, <1>3, <1>4 DEF RaceInv, SearchInv, ChangeInv, ProgramInv

(* A known SSID gets its password.                                         *)
LEMMA SetPasswordInv == ASSUME RaceInv, SetPassword PROVE RaceInv'
<1>1. CASE pc = "known" /\ BeginCopy(at, PasswordCell(at), "setting")
  <2>1. at \in Slots /\ GoodBut(flash_data, at, spliced)
    BY <1>1 DEF RaceInv, PageInv, SearchInv, Good, GoodBut, Paired
  <2> QED  BY <1>1, <2>1, BeginPasswordInv
<1>2. CASE pc = "setting" /\ EndCopy(PasswordCell(at), password, Passwords, "unlock") /\ UNCHANGED spliced
  BY <1>2, EndPasswordInv
<1> QED  BY <1>1, <1>2 DEF SetPassword

(* The slot that may have lacked a password gets one.                      *)
LEMMA WritePasswordInv == ASSUME RaceInv, WritePassword PROVE RaceInv'
<1>1. CASE pc = "password" /\ BeginCopy(flash_data[NextCell], PasswordCell(flash_data[NextCell]), "finishing")
  <2>1. GoodBut(flash_data, flash_data[NextCell], spliced)
    BY <1>1 DEF RaceInv, ChangeInv
  <2> QED  BY <1>1, <2>1, BeginPasswordInv
<1>2. CASE pc = "finishing" /\ EndCopy(PasswordCell(at), password, Passwords, "load") /\ UNCHANGED spliced
  BY <1>2, EndPasswordInv
<1> QED  BY <1>1, <1>2 DEF WritePassword

(* The index of the next slot is tested and brought into range.            *)
LEMMA ClampInv == ASSUME RaceInv, Clamp PROVE RaceInv'
<1>1. /\ pc \in {"clamp", "zero"} /\ pc' \in {"zero", "ssid"}
      /\ UNCHANGED <<flash, locked, ssid, password, cut, spliced>>
      /\ flash_data' \in {flash_data, [flash_data EXCEPT ![NextCell] = 0]}
  BY DEF Clamp, Goto, Uncopied
<1>2. IsImage(flash_data) /\ Good(flash_data, spliced) /\ Absent(flash) /\ Absent(flash_data)
  BY <1>1 DEF RaceInv, PageInv, ChangeInv
<1>3. IsImage(flash_data') /\ \A d \in Cells : d # NextCell => flash_data'[d] = flash_data[d]
  BY <1>1, <1>2 DEF IsImage
<1>4. \A i \in Slots : /\ flash_data'[SsidCell(i)] = flash_data[SsidCell(i)]
                       /\ flash_data'[PasswordCell(i)] = flash_data[PasswordCell(i)]
  BY <1>3, CellFacts
<1>5. Good(flash_data', spliced)
  BY <1>2, <1>4, SameSlots
<1>6. ChangeInv'
  BY <1>1, <1>2, <1>4, <1>5 DEF ChangeInv, Absent
<1>7. PageInv'
  BY <1>1, <1>3 DEF RaceInv, PageInv, Labels
<1> QED  BY <1>1, <1>6, <1>7 DEF RaceInv, SearchInv, ProgramInv

(* A new SSID is in no other slot, and what a splice makes of one stands   *)
(* in a slot with a password.                                              *)
LEMMA WriteSsidInv == ASSUME RaceInv, WriteSsid PROVE RaceInv'
<1>0. IsImage(flash_data)
  BY DEF RaceInv, PageInv
<1>1. CASE pc = "ssid" /\ BeginCopy(flash_data[NextCell], SsidCell(flash_data[NextCell]), "naming")
  <2> DEFINE n == flash_data[NextCell]
  <2>1. Good(flash_data, spliced) /\ Absent(flash_data)
    BY <1>1 DEF RaceInv, ChangeInv
  <2>2. /\ pc' = "naming" /\ at' = n /\ cut' = FALSE /\ IsImage(flash_data')
        /\ UNCHANGED <<flash, locked, ssid, password, spliced>>
        /\ \A d \in Cells : flash_data'[d] = IF n \in Slots /\ d = SsidCell(n) THEN Torn
                                              ELSE flash_data[d]
    BY <1>0, <1>1, BeginCopyFacts
  <2>3. /\ flash_data'[NextCell] = n
        /\ \A i \in Slots :
             /\ flash_data'[SsidCell(i)] = IF i = n THEN Torn ELSE flash_data[SsidCell(i)]
             /\ flash_data'[PasswordCell(i)] = flash_data[PasswordCell(i)]
    <3>1. NextCell \in Cells
      BY CredentialAssumption DEF NextCell, Cells
    <3> QED  BY <2>2, <3>1, CellFacts
  <2>4. GoodBut(flash_data', at', spliced')
    BY <2>1, <2>2, <2>3, CredentialAssumption DEF Good, GoodBut, NamedOnce, Paired, Strings
  <2>5. PageInv'
    BY <1>1, <2>2 DEF RaceInv, PageInv, Labels
  <2>6. Absent(flash_data)'
    BY <2>1, <2>2, <2>3, <2>5, CredentialAssumption DEF Absent, PageInv, Strings
  <2> QED  BY <2>2, <2>3, <2>4, <2>5, <2>6 DEF RaceInv, SearchInv, ChangeInv, ProgramInv
<1>2. CASE /\ pc = "naming" /\ EndCopy(SsidCell(at), ssid, Ssids, "password")
           /\ spliced' = (spliced \/ (cut /\ flash_data' # flash_data))
  <2>1. /\ ssid \in Ssids /\ Empty \in Ssids /\ Erased \notin Ssids /\ Torn \notin Ssids
        /\ cut => Good(flash_data, spliced)
        /\ ~cut => /\ GoodBut(flash_data, at, spliced)
                   /\ Absent(flash_data) /\ at = flash_data[NextCell]
    BY <1>2, CredentialAssumption DEF RaceInv, PageInv, ChangeInv, Strings
  <2>2. /\ pc' = "password" /\ IsImage(flash_data') /\ UNCHANGED <<flash, locked, ssid, password>>
        /\ at \notin Slots => flash_data' = flash_data
        /\ at \in Slots =>
             \E s \in IF cut THEN Spliced(flash_data[SsidCell(at)], Ssids) ELSE {ssid} :
               \A d \in Cells : flash_data'[d] = IF d = SsidCell(at) THEN s ELSE flash_data[d]
    BY <1>0, <1>2, EndCopyFacts
  <2>3. spliced => spliced'
    BY <1>2
  <2>4. GoodBut(flash_data', flash_data'[NextCell], spliced')
    <3>1. CASE flash_data' = flash_data
      BY <2>1, <2>3, <3>1 DEF Good, GoodBut, Paired
    <3>2. CASE flash_data' # flash_data
      <4>1. at \in Slots
        BY <2>2, <3>2
      <4>2. PICK s \in IF cut THEN Spliced(flash_data[SsidCell(at)], Ssids) ELSE {ssid} :
              \A d \in Cells : flash_data'[d] = IF d = SsidCell(at) THEN s ELSE flash_data[d]
        BY <2>2, <4>1
      <4>3. /\ flash_data'[NextCell] = flash_data[NextCell]
            /\ \A i \in Slots :
                 /\ flash_data'[SsidCell(i)] = IF i = at THEN s ELSE flash_data[SsidCell(i)]
                 /\ flash_data'[PasswordCell(i)] = flash_data[PasswordCell(i)]
        BY <4>1, <4>2, CellFacts
      <4>4. CASE cut
        <5>1. spliced'
          BY <1>2, <3>2, <4>4
        <5>2. flash_data[SsidCell(at)] = Erased => s = Erased
          BY <2>1, <4>2, <4>4, SplicedFacts
        <5> QED  BY <2>1, <4>1, <4>3, <4>4, <5>1, <5>2 DEF Good, GoodBut, Paired
      <4>5. CASE ~cut
        <5>1. s = ssid
          BY <4>2, <4>5
        <5>2. spliced \/ NamedOnce(flash_data')
          BY <2>1, <4>1, <4>3, <4>5, <5>1 DEF GoodBut, NamedOnce, Absent
        <5> QED  BY <2>1, <2>3, <4>1, <4>3, <4>5, <5>2 DEF GoodBut
      <4> QED  BY <4>4, <4>5
    <3> QED  BY <3>1, <3>2
  <2>5. PageInv'
    BY <1>2, <2>2, <2>3 DEF RaceInv, PageInv, Labels, Good
  <2> QED  BY <2>2, <2>4, <2>5 DEF RaceInv, SearchInv, ChangeInv, ProgramInv
<1> QED  BY <1>1, <1>2 DEF WriteSsid

(* The index moves on.                                                     *)
LEMMA AdvanceInv == ASSUME RaceInv, Advance PROVE RaceInv'
<1>1. /\ pc \in {"load", "store"} /\ pc' \in {"store", "unlock"}
      /\ UNCHANGED <<flash, locked, ssid, password, cut, spliced>>
      /\ flash_data' \in {flash_data, [flash_data EXCEPT ![NextCell] = Advanced(at)]}
  BY DEF Advance, Goto, Uncopied
<1>2. IsImage(flash_data) /\ Good(flash_data, spliced)
  BY <1>1 DEF RaceInv, PageInv, ChangeInv
<1>3. IsImage(flash_data') /\ \A d \in Cells : d # NextCell => flash_data'[d] = flash_data[d]
  BY <1>1, <1>2 DEF IsImage
<1>4. \A i \in Slots : /\ flash_data'[SsidCell(i)] = flash_data[SsidCell(i)]
                       /\ flash_data'[PasswordCell(i)] = flash_data[PasswordCell(i)]
  BY <1>3, CellFacts
<1>5. Good(flash_data', spliced)
  BY <1>2, <1>4, SameSlots
<1>6. PageInv'
  BY <1>1, <1>3 DEF RaceInv, PageInv, Labels
<1> QED  BY <1>1, <1>5, <1>6 DEF RaceInv, SearchInv, ChangeInv, ProgramInv

(* Unlocking and locking the controller, and the erasure, which is ignored *)
(* when the interrupt has locked it in between.                            *)
LEMMA EraseInv == ASSUME RaceInv, flash_unlock \/ flash_erase_page \/ flash_lock PROVE RaceInv'
<1>1. CASE flash_unlock
  <2>1. pc = "unlock" /\ pc' = "erase" /\ UNCHANGED <<flash, flash_data, at, ssid, password, cut, spliced>>
    BY <1>1 DEF flash_unlock
  <2> QED  BY <2>1 DEF RaceInv, PageInv, Labels, SearchInv, ChangeInv, ProgramInv
<1>2. CASE flash_erase_page
  <2>1. /\ pc = "erase" /\ pc' = "program" /\ at' = 0
        /\ UNCHANGED <<locked, flash_data, ssid, password, cut, spliced>>
        /\ flash' = IF locked THEN flash ELSE ErasedImage
    BY <1>2 DEF flash_erase_page
  <2>2. Good(flash_data, spliced)
    BY <2>1 DEF RaceInv, ChangeInv
  <2>3. PrefixOf(ErasedImage, flash_data, 0)
    BY CredentialAssumption DEF PrefixOf, ErasedImage, Cells
  <2>4. IsImage(ErasedImage) /\ Good(ErasedImage, spliced)
    BY <2>2, <2>3, PrefixIsGood DEF IsImage, ErasedImage
  <2>5. IsImage(flash') /\ Good(flash', spliced) /\ (~locked' => PrefixOf(flash', flash_data', at'))
    BY <2>1, <2>3, <2>4 DEF RaceInv, PageInv
  <2>6. PageInv'
    BY <2>1, <2>5 DEF RaceInv, PageInv, Labels
  <2> QED  BY <2>1, <2>2, <2>5, <2>6 DEF RaceInv, SearchInv, ChangeInv, ProgramInv
<1>3. CASE flash_lock
  <2>1. pc' = "idle" /\ UNCHANGED <<flash, flash_data, at, ssid, password, cut, spliced>>
    BY <1>3 DEF flash_lock
  <2> QED  BY <2>1 DEF RaceInv, PageInv, Labels, SearchInv, ChangeInv, ProgramInv
<1> QED  BY <1>1, <1>2, <1>3

(* A field is programmed after the ones before it, or not at all.          *)
LEMMA ProgramStepInv == ASSUME RaceInv, flash_program_word PROVE RaceInv'
<1> DEFINE v == IF pc = "program" THEN Begun(flash_data[at]) ELSE flash_data[at]
<1>1. /\ pc \in {"program", "programming"} /\ at \in Cells
      /\ UNCHANGED <<locked, flash_data, ssid, password, cut, spliced>>
      /\ flash' = IF locked \/ flash[at] \notin {Erased, Torn} THEN flash
                  ELSE [flash EXCEPT ![at] = v]
      /\ IF pc = "program" THEN pc' = "programming" /\ at' = at ELSE pc' = "program" /\ at' = at + 1
  BY DEF flash_program_word
<1>2. /\ Good(flash_data, spliced) /\ Good(flash, spliced) /\ IsImage(flash) /\ at \in Nat
      /\ ~locked => PrefixOf(flash, flash_data, at)
  BY <1>1 DEF RaceInv, PageInv, ChangeInv, ProgramInv
<1>3. at' \in Nat
  BY <1>1, <1>2
<1>4. IsImage(flash') /\ Good(flash', spliced) /\ (~locked => PrefixOf(flash', flash_data, at'))
  <2>1. CASE locked
    BY <1>1, <1>2, <2>1
  <2>2. CASE ~locked
    <3>1. flash[at] \in {Erased, Torn}
      BY <1>1, <1>2, <2>2 DEF PrefixOf
    <3>2. flash' = [flash EXCEPT ![at] = v]
      BY <1>1, <2>2, <3>1
    <3>3. IsImage(flash') /\ \A d \in Cells : flash'[d] = IF d = at THEN v ELSE flash[d]
      BY <1>1, <1>2, <3>2 DEF IsImage
    <3>4. PrefixOf(flash', flash_data, at')
      <4>1. CASE pc = "program"
        BY <1>1, <1>2, <2>2, <3>3, <4>1 DEF PrefixOf, Cells, Begun
      <4>2. CASE pc = "programming"
        BY <1>1, <1>2, <2>2, <3>3, <4>2 DEF PrefixOf, Cells
      <4> QED  BY <1>1, <4>1, <4>2
    <3>5. Good(flash', spliced)
      BY <1>2, <1>3, <3>4, PrefixIsGood
    <3> QED  BY <3>3, <3>4, <3>5
  <2> QED  BY <2>1, <2>2
<1>5. PageInv'
  BY <1>1, <1>4 DEF RaceInv, PageInv, Labels
<1>6. pc' \in {"program", "programming"}
  BY <1>1
<1> QED  BY <1>1, <1>2, <1>3, <1>4, <1>5, <1>6 DEF RaceInv, SearchInv, ChangeInv, ProgramInv

(* The interrupt: what the interrupted call has found out about the list   *)
(* holds of the new one, because it differs by the empty SSID at most, and *)
(* the controller is locked when it returns.                               *)
LEMMA InterruptInv == ASSUME RaceInv, handle_connect_line PROVE RaceInv'
<1>1. /\ flash' = Updated(flash, Empty, Empty) /\ flash_data' = flash' /\ locked' = TRUE
      /\ UNCHANGED <<pc, at, ssid, password, spliced>>
      /\ cut' = (pc \in {"setting", "naming", "finishing"})
  BY DEF handle_connect_line
<1>2. /\ IsImage(flash') /\ Good(flash', spliced)
      /\ \A i \in Slots : flash'[SsidCell(i)] \in {flash[SsidCell(i)], Empty}
  <2>1. IsImage(flash) /\ Good(flash, spliced)
    BY DEF RaceInv, PageInv
  <2> QED  BY <1>1, <2>1, UpdatedIsGood
<1>3. PageInv'
  BY <1>1, <1>2 DEF RaceInv, PageInv
<1>4. SearchInv'
  BY <1>1, <1>2 DEF RaceInv, PageInv, SearchInv
<1>5. ChangeInv'
  <2>1. pc \in {"clamp", "zero", "ssid"} => Absent(flash')
    BY <1>1, <1>2 DEF RaceInv, PageInv, ChangeInv, Absent
  <2> QED  BY <1>1, <1>2, <2>1 DEF ChangeInv, Absent, Good, GoodBut, Paired
<1>6. ProgramInv'
  BY <1>1 DEF RaceInv, ProgramInv
<1> QED  BY <1>3, <1>4, <1>5, <1>6 DEF RaceInv

(* No step of thread mode or of the interrupt leaves the invariant.        *)
LEMMA RaceStepInv == RaceInv /\ [Next]_vars => RaceInv'
<1> SUFFICES ASSUME RaceInv, [Next]_vars PROVE RaceInv'
  OBVIOUS
<1>1. CASE UNCHANGED vars
  BY <1>1 DEF vars, RaceInv, PageInv, SearchInv, ChangeInv, ProgramInv, Absent
<1>2. ASSUME NEW s \in Ssids, NEW p \in Passwords, esp8266_update_credential_list(s, p)
      PROVE  RaceInv'
  BY <1>2, CallInv
<1>3. CASE READ_FLASH \/ Search \/ SetPassword \/ Clamp \/ WriteSsid \/ WritePassword \/ Advance
  BY <1>3, ReadInv, SearchStepInv, SetPasswordInv, ClampInv, WriteSsidInv, WritePasswordInv, AdvanceInv
<1>4. CASE eeprom_write
  BY <1>4, EraseInv, ProgramStepInv DEF eeprom_write
<1>5. CASE handle_connect_line
  BY <1>5, InterruptInv
<1> QED  BY <1>1, <1>2, <1>3, <1>4, <1>5 DEF Next

(* The page never holds an SSID without its whole password, wherever the   *)
(* interrupt of handle_connect_line() cuts into an update by the           *)
(* application and however often.                                          *)
THEOREM RacePasswordWithSsid == Spec => []PasswordWithSsid
<1>1. RaceInv => PasswordWithSsid
  BY DEF RaceInv, PageInv, Good, PasswordWithSsid
<1> QED  BY <1>1, RaceInitInv, RaceStepInv, PTL DEF Spec

(* The page never holds a named SSID in two slots, although the interrupt  *)
(* replaces the list that the application has searched, as long as no      *)
(* interrupt has cut the copying of an SSID in two.                        *)
THEOREM RaceOneSlotPerSsid == Spec => []OneSlotPerSsid
<1>1. RaceInv => OneSlotPerSsid
  BY DEF RaceInv, PageInv, Good, OneSlotPerSsid
<1> QED  BY <1>1, RaceInitInv, RaceStepInv, PTL DEF Spec
=============================================================================
