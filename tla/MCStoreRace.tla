---------------------------- MODULE MCStoreRace ----------------------------
(***************************************************************************)
(* StoreRace with three slots, which the calls by the application and      *)
(* those in the interrupt fill and wrap around, on a page that is erased,  *)
(* full, or cut short by a power loss.                                     *)
(***************************************************************************)
EXTENDS StoreRace

CONSTANTS s1, s2, s3, p1

MCSsids     == {Empty, s1, s2, s3}
MCPasswords == {Empty, p1}

(* A list with these SSIDs, each with the password p1.                     *)
Stored(next, a, b, c) ==
  [f \in Cells |-> CASE f = NextCell -> next [] f = SsidCell(0) -> a [] f = SsidCell(1) -> b
                     [] f = SsidCell(2) -> c [] OTHER -> p1]

(* The last slot has got no further than its password.                     *)
CutShort(image) == [image EXCEPT ![SsidCell(2)] = Erased, ![PasswordCell(2)] = Torn]

MCStoredImages ==
  {ErasedImage, Stored(3, s1, s2, s3), Stored(1, s1, s2, Empty), Stored(1, Empty, s1, s2),
   Stored(2, Empty, s1, Torn), CutShort(Stored(2, Empty, s1, s2))}
=============================================================================
