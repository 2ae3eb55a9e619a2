---------------------------- MODULE MCRxOverrun ----------------------------
(***************************************************************************)
(* RxOverrun with one kind of frame, whose data is of two lines and quotes *)
(* the text of a frame header (a log of the module, say).                  *)
(***************************************************************************)
EXTENDS RxOverrun

CONSTANTS a, b

MCText       == {a, b}
MCHeaderIds  == {0}
MCHeaderLens == {1, 4}
MCLineTexts  == {<<a>>}
MCPayloads   == {<<CR, <<0, 1>>, Colon, b>>}
MCLinks      == {0}
=============================================================================
