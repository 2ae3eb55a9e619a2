------------------------- MODULE MCCredentialStore -------------------------
(***************************************************************************)
(* CredentialStore with 3 slots for 4 SSIDs (one of them empty), so that   *)
(* the ring wraps and evicts, and two passwords.                           *)
(***************************************************************************)
EXTENDS CredentialStore

CONSTANTS s1, s2, s3, p1

MCSsids     == {Empty, s1, s2, s3}
MCPasswords == {Empty, p1}
=============================================================================
