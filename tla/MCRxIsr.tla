------------------------------ MODULE MCRxIsr ------------------------------
(***************************************************************************)
(* RxIsr on a small instance: a line buffer of 3 and a payload buffer of 2 *)
(* usable symbols, headers with a valid and an invalid link, and lengths   *)
(* below zero, zero, fitting, overflowing the payload buffer, and beyond   *)
(* a uint16_t, which is narrowed to 8 values (8 wraps to 0, 10 to 2).      *)
(***************************************************************************)
EXTENDS RxIsr

CONSTANT t

MCText       == {t}
MCHeaderIds  == {0, 5}
MCHeaderLens == {-1, 0, 2, 4, UINT16, UINT16 + 2}
=============================================================================
