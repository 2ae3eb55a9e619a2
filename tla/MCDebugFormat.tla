---------------------------- MODULE MCDebugFormat ----------------------------
(***************************************************************************)
(* Two items to a format; words of eight bits, among them the least and    *)
(* the greatest and those where the number of digits changes.              *)
(***************************************************************************)
EXTENDS DebugFormat

MCValues == {-128, -10, -1, 0, 10, 127}
=============================================================================
