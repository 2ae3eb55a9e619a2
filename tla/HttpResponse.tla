---------------------------- MODULE HttpResponse ----------------------------
(***************************************************************************)
(* esp8266_http_send_response() of sylib/esp8266/esp8266.c: the response   *)
(* is announced with AT+CIPSEND=<link_id>,<count>, its bytes follow at     *)
(* once, and AT+CIPCLOSE ends the connection.  The module takes <count>    *)
(* bytes as data, whatever they are, and everything else as commands, so   *)
(* the two sides stay in step only if the count is right.                  *)
(*                                                                         *)
(* Texts are represented by their lengths, which is all that snprintf()'s  *)
(* truncation and the module's counting depend on.  The function runs in   *)
(* the receive interrupt: the application may have been interrupted in the *)
(* middle of sending a command, and the module may be busy with another.   *)
(***************************************************************************)
EXTENDS Integers

CONSTANTS
  HeaderCap,      \* sizeof(header), 128 in the code
  MaxLinkId,      \* ESP8266_MAX_LINK_ID
  Links,          \* link ids,
  StatusCodes,    \* status codes,
  TypeLens,       \* lengths of the content type (NULL for a null pointer)
  BodyLens,       \* and of the body (NULL likewise) the handler may pass
  NULL

ASSUME ResponseAssumption ==
  /\ HeaderCap \in Nat \ {0} /\ MaxLinkId \in Nat
  /\ Links \subseteq Nat /\ StatusCodes \subseteq Nat
  /\ TypeLens \subseteq Nat \cup {NULL} /\ BodyLens \subseteq Nat \cup {NULL}
  /\ NULL \notin Nat

Responses == [link : Links, status : StatusCodes, type : TypeLens, body : BodyLens]

VARIABLES
  step,       \* what the function does next; "idle" when it is not running
  response,   \* its arguments
  busy,       \* the module is executing a command
  expecting,  \* bytes of data the module still waits for
  accepted,   \* history, for the latest response: AT+CIPSEND was read as a command,
  misread,    \* the number of its data bytes that were read as commands,
  closed      \* and AT+CIPCLOSE was read as a command

httpVars == <<step, response, busy, expecting, accepted, misread, closed>>

(* Decimal digits of "%u": no string of the program is longer than its     *)
(* 64 KB of flash, and status codes have 16 bits.                          *)
Digits(n) == CASE n < 10 -> 1
               [] n \in 10..99 -> 2
               [] n \in 100..999 -> 3
               [] n \in 1000..9999 -> 4
               [] OTHER -> 5

(* The switch over status_code.                                            *)
StatusTextLen(code) ==
  CASE code = 200 -> 2      \* OK
    [] code = 204 -> 10     \* No Content
    [] code = 400 -> 11     \* Bad Request
    [] code = 404 -> 9      \* Not Found
    [] code = 500 -> 21     \* Internal Server Error
    [] OTHER -> 0

TypeLen(r) == IF r.type = NULL THEN 9 ELSE r.type       \* text/html
BodyLen(r) == IF r.body = NULL THEN 0 ELSE r.body

(* header_len, what snprintf() returns: the length of the whole header.    *)
HeaderLen(r) == 67 + Digits(r.status) + StatusTextLen(r.status) + TypeLen(r) + Digits(BodyLen(r))

(* strlen(header), what snprintf() has written.                            *)
HeaderWritten(r) == IF HeaderLen(r) < HeaderCap THEN HeaderLen(r) ELSE HeaderCap - 1

(* Mutant of Announced: the header is not counted.                         *)
AnnouncedBodyOnly(r) == BodyLen(r)

(* The count in AT+CIPSEND.                                                *)
Announced(r) == HeaderLen(r) + BodyLen(r)

HttpInit ==
  /\ step = "idle"
  /\ response \in Responses
  /\ busy = FALSE /\ expecting = 0
  /\ accepted = FALSE /\ misread = 0 /\ closed = FALSE

(* The lengths of AT+CIPSEND=<link_id>,<count> and AT+CIPCLOSE=<link_id>.  *)
AnnounceLen(r) == 14 + Digits(r.link) + Digits(Announced(r))
CloseLen(r)    == 14 + Digits(r.link)

(* Of n bytes sent, those the module takes as data: as many as it still    *)
(* waits for.  The rest is read as commands.                               *)
TakenAsData(n, expected) == IF n <= expected THEN n ELSE expected

(* The HTTP request handler calls the function.                            *)
Respond(r) ==
  /\ step = "idle"
  /\ step' = "announce" /\ response' = r
  /\ accepted' = FALSE /\ misread' = 0 /\ closed' = FALSE
  /\ UNCHANGED <<busy, expecting>>

(* AT+CIPSEND is sent, whatever the link id.  The module reads it as a     *)
(* command unless it waits for data; it executes it if it is free, the     *)
(* link exists and the text does not follow the start of another command.  *)
Announce(clean) ==
  /\ step = "announce"
  /\ step' = "header"
  /\ accepted' = (expecting = 0 /\ clean /\ ~busy /\ response.link <= MaxLinkId)
  /\ expecting' = IF accepted' THEN Announced(response)
                   ELSE expecting - TakenAsData(AnnounceLen(response), expecting)
  /\ UNCHANGED <<response, busy, misread, closed>>

(* Mutant of SendHeader: the header is left to the body's write.           *)
SkipHeader ==
  /\ step = "header"
  /\ step' = "body"
  /\ UNCHANGED <<response, busy, expecting, misread, accepted, closed>>

SendHeader ==
  LET taken == TakenAsData(HeaderWritten(response), expecting)
  IN  /\ step = "header"
      /\ step' = "body"
      /\ expecting' = expecting - taken
      /\ misread' = misread + HeaderWritten(response) - taken
      /\ UNCHANGED <<response, busy, accepted, closed>>

SendBody ==
  LET taken == TakenAsData(BodyLen(response), expecting)
  IN  /\ step = "body"
      /\ step' = "close"
      /\ expecting' = expecting - taken
      /\ misread' = misread + BodyLen(response) - taken
      /\ UNCHANGED <<response, busy, accepted, closed>>

(* esp8266_tcp_close(), which sends nothing for a link out of range.       *)
esp8266_tcp_close ==
  /\ step = "close"
  /\ step' = "idle"
  /\ IF response.link > MaxLinkId
     THEN UNCHANGED <<expecting, closed>>
     ELSE /\ closed' = (expecting = 0)
          /\ expecting' = expecting - TakenAsData(CloseLen(response), expecting)
  /\ UNCHANGED <<response, busy, misread, accepted>>

(* The module starts or ends the execution of another command.             *)
OtherCommand ==
  /\ expecting = 0
  /\ busy' = ~busy
  /\ UNCHANGED <<step, response, expecting, accepted, misread, closed>>

HttpNext ==
  \/ \E r \in Responses : Respond(r)
  \/ \E clean \in BOOLEAN : Announce(clean)
  \/ SendHeader \/ SendBody \/ esp8266_tcp_close
  \/ OtherCommand

HttpSpec == HttpInit /\ [][HttpNext]_httpVars

-----------------------------------------------------------------------------
(* Type correctness; the module never waits for a negative number of bytes.*)
HttpTypeOK ==
  /\ step \in {"idle", "announce", "header", "body", "close"}
  /\ response \in Responses
  /\ busy \in BOOLEAN /\ accepted \in BOOLEAN /\ closed \in BOOLEAN
  /\ expecting \in Nat /\ misread \in Nat

(* esp8266.h, 89-94: the response is sent over the link, "then closes the  *)
(* connection": once AT+CIPSEND has been accepted, every byte of the       *)
(* response is taken as data and AT+CIPCLOSE as a command.                 *)
ResponseDelimited == step = "idle" /\ accepted => misread = 0 /\ closed

(* The module never waits for data when a response begins: none of its     *)
(* predecessors, accepted, refused or garbled, has left it waiting, where  *)
(* it would swallow the commands that follow.                              *)
NothingOwed == step \in {"idle", "announce"} => expecting = 0
=============================================================================
