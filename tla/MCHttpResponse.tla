--------------------------- MODULE MCHttpResponse ---------------------------
(***************************************************************************)
(* HttpResponse with the sizes of the code.  The content types are those   *)
(* of utc_clock/main.c, none, and the longest one with which all these     *)
(* headers fit.                                                            *)
(***************************************************************************)
EXTENDS HttpResponse

MCLinks      == {0, MaxLinkId + 1}
MCStatus     == {200, 404, 500, 65535}
ShortTypes   == {NULL, 9, 10, 32}
MCBodies     == {NULL, 9, 25, 1024}
=============================================================================
