-------------------------------- MODULE Dhcp --------------------------------
(***************************************************************************)
(* The DHCP client of sylib/ioLibrary_Driver/Internet/DHCP/dhcp.c, with    *)
(* the default callbacks.  DHCP_run() is called again and again; each call *)
(* takes at most one message from the socket, and every message that       *)
(* passes the filter has its options taken over before the state is looked *)
(* at.                                                                     *)
(*                                                                         *)
(* The servers and the network are external: a message may be lost,        *)
(* delayed, repeated or overtaken, so what can be received is any answer   *)
(* to anything ever sent.  Gateway, mask and DNS address go with the       *)
(* address and are left out; every lease is for LeaseTime seconds.         *)
(***************************************************************************)
EXTENDS Integers

CONSTANTS
  Servers,         \* server identifiers
  Via,             \* the address from which a server's messages arrive: its own,
                   \* or that of a relay agent
  Addresses,       \* addresses to be leased
  Refusable,       \* those a server may answer with NAK when asked for
  None,            \* 0.0.0.0
  MAX_DHCP_RETRY, DHCP_WAIT_TIME, LeaseTime,
  MaxTick          \* bound: dhcp_tick_1s is not counted further; past both limits

ASSUME DhcpAssumption ==
  /\ None \notin Servers \cup Addresses
  /\ MAX_DHCP_RETRY \in Nat /\ DHCP_WAIT_TIME \in Nat /\ LeaseTime \in Nat
  /\ MaxTick \in Nat /\ MaxTick > DHCP_WAIT_TIME /\ MaxTick > LeaseTime \div 2
  /\ DOMAIN Via = Servers /\ \A s \in Servers : Via[s] # None

VARIABLES
  dhcp_state,
  DHCP_SIP,            \* the server identifier in the last message accepted, and ...
  DHCP_REAL_SIP,       \* ... the address it came from
  DHCP_allocated_ip,
  dhcp_tick_1s, dhcp_retry_count,
  SIPR,                \* the source address register of the chip
  ret,                 \* what DHCP_run() returned last
  asked,               \* history: the DISCOVERs (None) and REQUESTs sent
  offeredBy            \* history: the server that offered DHCP_allocated_ip

vars == <<dhcp_state, DHCP_SIP, DHCP_REAL_SIP, DHCP_allocated_ip, dhcp_tick_1s, dhcp_retry_count,
          SIPR, ret, asked, offeredBy>>

States  == {"INIT", "DISCOVER", "REQUEST", "LEASED", "REREQUEST", "STOP"}
Returns == {"FAILED", "RUNNING", "IP_LEASED", "STOPPED"}
Message == [type : {"OFFER", "ACK", "NAK"}, id : Servers, yiaddr : Addresses]

(* What the network may deliver, or nothing.                               *)
Deliverable ==
  {m \in Message : \/ m.type = "OFFER" /\ None \in asked
                   \/ m.type = "ACK" /\ <<m.id, m.yiaddr>> \in asked
                   \/ m.type = "NAK" /\ <<m.id, m.yiaddr>> \in asked /\ m.yiaddr \in Refusable}

Init ==
  /\ dhcp_state = "INIT" /\ ret = "RUNNING"
  /\ DHCP_SIP = None /\ DHCP_REAL_SIP = None
  /\ DHCP_allocated_ip = None /\ SIPR = None
  /\ dhcp_tick_1s = 0 /\ dhcp_retry_count = 0
  /\ asked = {} /\ offeredBy = None

-----------------------------------------------------------------------------
(* Mutant of Accepts: no server is singled out.                            *)
AcceptsAnyServer(m) == TRUE

(* Once a server is known, only what comes from its address, or from the   *)
(* address its message came from.                                          *)
Accepts(m) == DHCP_SIP # None => Via[m.id] \in {DHCP_SIP, DHCP_REAL_SIP}

(* parseDHCPMSG(): the type of the message, 0 when there is none or it is  *)
(* not accepted, and the server known from then on.                        *)
parseDHCPMSG ==
  {[type |-> "0", sip |-> DHCP_SIP, real_sip |-> DHCP_REAL_SIP, yiaddr |-> None]} \cup
  {[type |-> m.type, sip |-> m.id, real_sip |-> Via[m.id], yiaddr |-> m.yiaddr] :
     m \in {d \in Deliverable : Accepts(d)}}

KnowServer(p) == DHCP_SIP' = p.sip /\ DHCP_REAL_SIP' = p.real_sip

send_DHCP_DISCOVER ==
  /\ DHCP_SIP' = None /\ DHCP_REAL_SIP' = None
  /\ asked' = asked \cup {None}

send_DHCP_REQUEST(p, ip) ==
  /\ KnowServer(p)
  /\ asked' = asked \cup {<<p.sip, ip>>}

reset_DHCP_timeout == dhcp_tick_1s' = 0 /\ dhcp_retry_count' = 0

(* Mutant of SendAgain: the retry is not counted.                          *)
SendAgainUncounted(p) ==
  /\ dhcp_retry_count < MAX_DHCP_RETRY /\ dhcp_tick_1s > DHCP_WAIT_TIME
  /\ IF dhcp_state = "DISCOVER" THEN send_DHCP_DISCOVER ELSE send_DHCP_REQUEST(p, DHCP_allocated_ip)
  /\ dhcp_tick_1s' = 0
  /\ ret' = "RUNNING"
  /\ UNCHANGED <<dhcp_state, dhcp_retry_count>>

(* Mutant of SendAgain: one retry too many.                                *)
SendAgainOnceMore(p) ==
  /\ dhcp_retry_count <= MAX_DHCP_RETRY /\ dhcp_tick_1s > DHCP_WAIT_TIME
  /\ IF dhcp_state = "DISCOVER" THEN send_DHCP_DISCOVER ELSE send_DHCP_REQUEST(p, DHCP_allocated_ip)
  /\ dhcp_tick_1s' = 0 /\ dhcp_retry_count' = dhcp_retry_count + 1
  /\ ret' = "RUNNING"
  /\ UNCHANGED dhcp_state

(* check_DHCP_timeout(), when no message moves the state on: wait, ...     *)
Wait(p) ==
  /\ dhcp_retry_count < MAX_DHCP_RETRY /\ dhcp_tick_1s <= DHCP_WAIT_TIME
  /\ KnowServer(p)
  /\ ret' = "RUNNING"
  /\ UNCHANGED <<dhcp_state, dhcp_tick_1s, dhcp_retry_count, asked>>

(* ... send again, ...                                                     *)
SendAgain(p) ==
  /\ dhcp_retry_count < MAX_DHCP_RETRY /\ dhcp_tick_1s > DHCP_WAIT_TIME
  /\ IF dhcp_state = "DISCOVER" THEN send_DHCP_DISCOVER ELSE send_DHCP_REQUEST(p, DHCP_allocated_ip)
  /\ dhcp_tick_1s' = 0 /\ dhcp_retry_count' = dhcp_retry_count + 1
  /\ ret' = "RUNNING"
  /\ UNCHANGED dhcp_state

(* ... or give up.                                                         *)
GiveUp(p) ==
  /\ dhcp_retry_count >= MAX_DHCP_RETRY
  /\ reset_DHCP_timeout
  /\ IF dhcp_state = "DISCOVER"
     THEN dhcp_state' = "INIT" /\ ret' = "FAILED" /\ KnowServer(p) /\ UNCHANGED asked
     ELSE dhcp_state' = "DISCOVER" /\ ret' = "RUNNING" /\ send_DHCP_DISCOVER

check_DHCP_timeout(p) ==
  /\ Wait(p) \/ SendAgain(p) \/ GiveUp(p)
  /\ UNCHANGED <<DHCP_allocated_ip, SIPR, offeredBy>>

(* A NAK starts again, without a DISCOVER.                                 *)
Refused(p) ==
  /\ p.type = "NAK"
  /\ reset_DHCP_timeout
  /\ KnowServer(p)
  /\ dhcp_state' = "DISCOVER"
  /\ UNCHANGED <<DHCP_allocated_ip, SIPR, asked, offeredBy>>

-----------------------------------------------------------------------------
(* DHCP_run(), by state.                                                   *)

RunInit(p) ==
  /\ dhcp_state = "INIT"
  /\ DHCP_allocated_ip' = None /\ offeredBy' = None
  /\ send_DHCP_DISCOVER
  /\ dhcp_state' = "DISCOVER" /\ ret' = "RUNNING"
  /\ UNCHANGED <<dhcp_tick_1s, dhcp_retry_count, SIPR>>

RunDiscover(p) ==
  /\ dhcp_state = "DISCOVER"
  /\ \/ /\ p.type = "OFFER"
        /\ DHCP_allocated_ip' = p.yiaddr /\ offeredBy' = p.sip
        /\ send_DHCP_REQUEST(p, p.yiaddr)
        /\ dhcp_state' = "REQUEST" /\ ret' = "RUNNING"
        /\ UNCHANGED <<dhcp_tick_1s, dhcp_retry_count, SIPR>>
     \/ p.type # "OFFER" /\ check_DHCP_timeout(p)

(* Mutant of RunRequest: a declined address is assigned all the same.      *)
RunRequestUnchecked(p) ==
  /\ dhcp_state = "REQUEST"
  /\ \/ /\ p.type = "ACK"
        /\ SIPR' = DHCP_allocated_ip \/ UNCHANGED SIPR
        /\ dhcp_state' = "LEASED"
        /\ ret' = "RUNNING"
        /\ reset_DHCP_timeout /\ KnowServer(p)
        /\ UNCHANGED <<DHCP_allocated_ip, asked, offeredBy>>
     \/ Refused(p) /\ ret' = "RUNNING"
     \/ p.type \notin {"ACK", "NAK"} /\ check_DHCP_timeout(p)

(* Whether the address is free: no host answers for it.  If one does, a    *)
(* DECLINE is sent, which nobody answers.                                  *)
check_DHCP_leasedIP == {TRUE, FALSE}

default_ip_assign   == SIPR' = DHCP_allocated_ip
default_ip_conflict == SIPR' = None                  \* the chip is reset

RunRequest(p) ==
  /\ dhcp_state = "REQUEST"
  /\ \/ /\ p.type = "ACK"
        /\ \E free \in check_DHCP_leasedIP :
             \/ free /\ default_ip_assign /\ dhcp_state' = "LEASED"
             \/ ~free /\ default_ip_conflict /\ dhcp_state' = "INIT"
        /\ ret' = "RUNNING"
        /\ reset_DHCP_timeout /\ KnowServer(p)
        /\ UNCHANGED <<DHCP_allocated_ip, asked, offeredBy>>
     \/ Refused(p) /\ ret' = "RUNNING"
     \/ p.type \notin {"ACK", "NAK"} /\ check_DHCP_timeout(p)

RunLeased(p) ==
  /\ dhcp_state = "LEASED"
  /\ ret' = "IP_LEASED"
  /\ \/ /\ LeaseTime \div 2 < dhcp_tick_1s
        /\ send_DHCP_REQUEST(p, DHCP_allocated_ip)
        /\ reset_DHCP_timeout
        /\ dhcp_state' = "REREQUEST"
     \/ /\ LeaseTime \div 2 >= dhcp_tick_1s
        /\ KnowServer(p)
        /\ UNCHANGED <<dhcp_state, dhcp_tick_1s, dhcp_retry_count, asked>>
  /\ UNCHANGED <<DHCP_allocated_ip, SIPR, offeredBy>>

(* The address in the ACK is not looked at: DHCP_allocated_ip is compared  *)
(* with its own copy, so dhcp_ip_update() is never called.                 *)
RunRerequest(p) ==
  /\ dhcp_state = "REREQUEST"
  /\ \/ /\ p.type = "ACK"
        /\ reset_DHCP_timeout /\ KnowServer(p)
        /\ dhcp_state' = "LEASED" /\ ret' = "IP_LEASED"
        /\ UNCHANGED <<DHCP_allocated_ip, SIPR, asked, offeredBy>>
     \/ Refused(p) /\ ret' = "IP_LEASED"
     \/ p.type \notin {"ACK", "NAK"} /\ check_DHCP_timeout(p)

RunStopped ==
  /\ dhcp_state = "STOP" /\ ret' = "STOPPED"
  /\ UNCHANGED <<dhcp_state, DHCP_SIP, DHCP_REAL_SIP, DHCP_allocated_ip, dhcp_tick_1s,
                 dhcp_retry_count, SIPR, asked, offeredBy>>

DHCP_run ==
  \/ \E p \in parseDHCPMSG :
       RunInit(p) \/ RunDiscover(p) \/ RunRequest(p) \/ RunLeased(p) \/ RunRerequest(p)
  \/ RunStopped

DHCP_stop ==
  /\ dhcp_state' = "STOP"
  /\ UNCHANGED <<DHCP_SIP, DHCP_REAL_SIP, DHCP_allocated_ip, dhcp_tick_1s, dhcp_retry_count,
                 SIPR, ret, asked, offeredBy>>

DHCP_init ==
  /\ SIPR' = None
  /\ reset_DHCP_timeout
  /\ dhcp_state' = "INIT"
  /\ UNCHANGED <<DHCP_SIP, DHCP_REAL_SIP, DHCP_allocated_ip, ret, asked, offeredBy>>

(* The interrupt of the timer, once a second.                              *)
DHCP_time_handler ==
  /\ dhcp_tick_1s < MaxTick
  /\ dhcp_tick_1s' = dhcp_tick_1s + 1
  /\ UNCHANGED <<dhcp_state, DHCP_SIP, DHCP_REAL_SIP, DHCP_allocated_ip, dhcp_retry_count,
                 SIPR, ret, asked, offeredBy>>

Next == DHCP_run \/ DHCP_stop \/ DHCP_init \/ DHCP_time_handler

Spec == Init /\ [][Next]_vars

(* dhcp.h: DHCP_run() "is always called by you main task", and the timer   *)
(* runs.  No message need ever arrive.                                     *)
FairSpec == Spec /\ WF_vars(DHCP_run) /\ WF_vars(DHCP_time_handler)

-----------------------------------------------------------------------------
(* Type correctness of the client.                                         *)
DhcpTypeOK ==
  /\ dhcp_state \in States /\ ret \in Returns
  /\ DHCP_SIP \in Servers \cup {None}
  /\ DHCP_REAL_SIP \in {Via[s] : s \in Servers} \cup {None}
  /\ DHCP_allocated_ip \in Addresses \cup {None} /\ SIPR \in Addresses \cup {None}
  /\ dhcp_tick_1s \in 0..MaxTick /\ dhcp_retry_count \in 0..MAX_DHCP_RETRY
  /\ asked \subseteq ({None} \cup ((Servers \cup {None}) \X Addresses))
  /\ offeredBy \in Servers \cup {None}

(* From the offer on the client speaks with the server that made it: the   *)
(* server it asks for an address, and asks again when the lease runs out,  *)
(* is the one that offered that address, whatever other servers send and   *)
(* however late.  (dhcp.c, 195: DHCP_REAL_SIP is kept "For extract my DHCP *)
(* server in a few DHCP server".)                                          *)
OneServer == dhcp_state \in {"REQUEST", "LEASED", "REREQUEST"} => DHCP_SIP = offeredBy

(* An address that is leased is the one the chip sends from; a conflict, a *)
(* refusal or a restart on the way never leaves the two apart.             *)
LeasedIsConfigured ==
  dhcp_state \in {"LEASED", "REREQUEST"} => SIPR = DHCP_allocated_ip /\ SIPR # None

(* No answer is waited for for ever, even if every message is lost: each   *)
(* of the waiting states is left in the end.                               *)
NoEndlessWait ==
  \A s \in {"DISCOVER", "REQUEST", "REREQUEST"} : dhcp_state = s ~> dhcp_state # s
=============================================================================
