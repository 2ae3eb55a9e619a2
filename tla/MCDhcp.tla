------------------------------- MODULE MCDhcp -------------------------------
(***************************************************************************)
(* Two servers and two addresses; the times are the shortest that differ.  *)
(***************************************************************************)
EXTENDS Dhcp

CONSTANTS A, B

MCServers == {A, B}

(* The servers' messages arrive from their own addresses.                  *)
Direct == [s \in Servers |-> s]
=============================================================================
