---------------------------- MODULE MCAtCommands ----------------------------
(***************************************************************************)
(* Every length of a string argument the driver's comments allow (SSID at  *)
(* most 32 bytes, password at most 63, an IPv4 address), and the numbers   *)
(* at which the number of digits changes.                                  *)
(***************************************************************************)
EXTENDS AtCommands

MCSsidLens     == 0..32
MCPasswordLens == 0..63
MCIpLens       == 7..15
MCUint16       == {0, 9, 10, 99, 100, 999, 1000, 9999, 10000, 65535}
MCModes        == -1..4
MCLinkIds      == 0..5

(* The SSIDs that fit beside the longest password.                         *)
MCShortSsidLens == 0..12
=============================================================================
