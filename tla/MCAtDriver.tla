----------------------------- MODULE MCAtDriver -----------------------------
(***************************************************************************)
(* AtDriver with one network that is known, whose password the application *)
(* may change, and one that is hidden (its SSID is listed as empty).  They *)
(* share one slot: a save by the interrupt evicts the known network, and   *)
(* one by the application brings it back.                                  *)
(***************************************************************************)
EXTENDS AtDriver

CONSTANTS s1, p1, p2

MCSsids       == {Empty, s1}
MCPasswords   == {Empty, p1, p2}
MCLinkIds     == {MaxLinkId, MaxLinkId + 1}
MCModes       == {3, 4}
MCCredentials == {<<s1, p2>>}
MCStored      == {Updated(ErasedImage, s1, p1)}
=============================================================================
