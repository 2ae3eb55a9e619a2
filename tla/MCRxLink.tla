------------------------------ MODULE MCRxLink ------------------------------
(***************************************************************************)
(* RxLink on a small instance.  With two usable symbols in the line buffer *)
(* and in the payload buffer there are lines and payloads that fit and     *)
(* that overflow; a line holds a colon (like "+CWLAP:(...)") or the text   *)
(* of a header, and payloads hold CR, LF and what looks like a header.     *)
(***************************************************************************)
EXTENDS RxLink

CONSTANT t

MCText       == {t}
MCHeaderIds  == {0, 4}
MCHeaderLens == 1..4
MCLineTexts  == {<<t>>, <<t, Colon>>, <<t, <<0, 2>>, Colon>>}
MCPayloads   == {<<t>>, <<CR, LF>>, <<<<4, 3>>, Colon, t>>, <<t, CR, <<0, 1>>, Colon>>}
MCLinks      == {0, 4}
=============================================================================
