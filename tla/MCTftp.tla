------------------------------- MODULE MCTftp -------------------------------
(***************************************************************************)
(* A server that may serve two transfers at once, and a stranger.          *)
(***************************************************************************)
EXTENDS Tftp

CONSTANTS P1, P2
MCPorts == {P1, P2}
=============================================================================
