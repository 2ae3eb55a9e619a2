----------------------------- MODULE DhcpProofs -----------------------------
(***************************************************************************)
(* Safety of the DHCP client for every number of servers, addresses and    *)
(* retries and every time.  The invariant says what is known of a message  *)
(* that passes the filter, from which the rest follows action by action.   *)
(***************************************************************************)
EXTENDS Dhcp, TLAPS

Bound == {"REQUEST", "LEASED", "REREQUEST"}

(* An address has been offered as long as one is asked for or leased.      *)
HasAddress == dhcp_state \in Bound => DHCP_allocated_ip \in Addresses /\ DHCP_SIP \in Servers

DhcpInv == DhcpTypeOK /\ HasAddress /\ LeasedIsConfigured

(* What parseDHCPMSG() hands to DHCP_run().                                *)
ParseType ==
  [type : {"0", "OFFER", "ACK", "NAK"}, sip : Servers \cup {None},
   real_sip : {Via[s] : s \in Servers} \cup {None}, yiaddr : Addresses \cup {None}]

(* What parseDHCPMSG() may return.                                         *)
LEMMA ParseResult ==
  ASSUME DhcpTypeOK, NEW p \in parseDHCPMSG
  PROVE  /\ p \in ParseType
         /\ p.type = "0" => p.sip = DHCP_SIP /\ p.real_sip = DHCP_REAL_SIP
         /\ p.type # "0" => /\ p.sip \in Servers /\ p.yiaddr \in Addresses
                            /\ p.real_sip = Via[p.sip]
                            /\ DHCP_SIP # None => Via[p.sip] \in {DHCP_SIP, DHCP_REAL_SIP}
<1>1. CASE p = [type |-> "0", sip |-> DHCP_SIP, real_sip |-> DHCP_REAL_SIP, yiaddr |-> None]
  BY <1>1 DEF DhcpTypeOK, ParseType
<1>2. CASE \E m \in Deliverable : Accepts(m) /\
             p = [type |-> m.type, sip |-> m.id, real_sip |-> Via[m.id], yiaddr |-> m.yiaddr]
  <2> PICK m \in Deliverable : Accepts(m) /\
             p = [type |-> m.type, sip |-> m.id, real_sip |-> Via[m.id], yiaddr |-> m.yiaddr]
    BY <1>2
  <2>1. m.type \in {"OFFER", "ACK", "NAK"} /\ m.id \in Servers /\ m.yiaddr \in Addresses
    BY DEF Deliverable, Message
  <2> QED  BY <2>1 DEF Accepts, ParseType
<1> QED  BY <1>1, <1>2 DEF parseDHCPMSG

(* The client has neither an address nor a server.                         *)
LEMMA DhcpInitInv == Init => DhcpInv
BY DhcpAssumption DEF Init, DhcpInv, DhcpTypeOK, HasAddress, LeasedIsConfigured, States, Returns, Bound

(* The timeout keeps what is known about the address.                      *)
LEMMA TimeoutInv ==
  ASSUME DhcpInv, NEW p \in ParseType, p.type = "0" => p.sip = DHCP_SIP, p.type # "0" => p.sip \in Servers,
         dhcp_state \in {"DISCOVER", "REQUEST", "REREQUEST"}, check_DHCP_timeout(p)
  PROVE  DhcpInv'
<1> USE DhcpAssumption DEF DhcpInv, check_DHCP_timeout, KnowServer, ParseType
<1>1. CASE Wait(p)
  BY <1>1 DEF Wait, DhcpTypeOK, HasAddress, LeasedIsConfigured, Bound, States, Returns
<1>2. CASE SendAgain(p)
  <2>1. CASE dhcp_state = "DISCOVER"
    BY <1>2, <2>1 DEF SendAgain, send_DHCP_DISCOVER, DhcpTypeOK, HasAddress, LeasedIsConfigured, Bound, States, Returns
  <2>2. CASE dhcp_state # "DISCOVER"
    <3>1. p.sip \in Servers /\ DHCP_allocated_ip \in Addresses
      BY <2>2 DEF HasAddress, Bound
    <3> QED
      BY <1>2, <2>2, <3>1 DEF SendAgain, send_DHCP_REQUEST, DhcpTypeOK, HasAddress, LeasedIsConfigured, Bound, States, Returns
  <2> QED  BY <2>1, <2>2
<1>3. CASE GiveUp(p)
  BY <1>3 DEF GiveUp, send_DHCP_DISCOVER, reset_DHCP_timeout, DhcpTypeOK, HasAddress, LeasedIsConfigured, Bound, States, Returns
<1> QED  BY <1>1, <1>2, <1>3

(* A refusal of the server keeps the invariant.                            *)
LEMMA RefusedInv ==
  ASSUME DhcpInv, NEW p \in ParseType, Refused(p), ret' \in Returns
  PROVE  DhcpInv'
BY DhcpAssumption DEF DhcpInv, Refused, KnowServer, reset_DHCP_timeout, ParseType, DhcpTypeOK, HasAddress,
                      LeasedIsConfigured, Bound, States

(* DHCP_run(), state by state.                                             *)
LEMMA RunInv ==
  ASSUME DhcpInv, NEW p \in parseDHCPMSG,
         RunInit(p) \/ RunDiscover(p) \/ RunRequest(p) \/ RunLeased(p) \/ RunRerequest(p)
  PROVE  DhcpInv'
<1> USE DhcpAssumption
<1>0. /\ p \in ParseType
      /\ p.type = "0" => p.sip = DHCP_SIP
      /\ p.type # "0" => p.sip \in Servers /\ p.yiaddr \in Addresses
  BY ParseResult DEF DhcpInv
<1>1. CASE RunInit(p)
  BY <1>1 DEF RunInit, send_DHCP_DISCOVER, DhcpInv, DhcpTypeOK, HasAddress, LeasedIsConfigured, Bound, States, Returns
<1>2. CASE RunDiscover(p)
  <2>1. CASE p.type = "OFFER"
    BY <1>0, <1>2, <2>1 DEF RunDiscover, send_DHCP_REQUEST, KnowServer, DhcpInv, DhcpTypeOK, HasAddress,
                            LeasedIsConfigured, Bound, States, Returns, ParseType
  <2>2. CASE p.type # "OFFER"
    BY <1>0, <1>2, <2>2, TimeoutInv DEF RunDiscover
  <2> QED  BY <2>1, <2>2
<1>3. CASE RunRequest(p)
  <2>1. CASE p.type = "ACK"
    <3>1. DHCP_allocated_ip \in Addresses /\ p.sip \in Servers
      BY <1>0, <1>3, <2>1 DEF RunRequest, DhcpInv, HasAddress, Bound
    <3> QED
      BY <1>0, <1>3, <2>1, <3>1 DEF RunRequest, check_DHCP_leasedIP, default_ip_assign,
                                    default_ip_conflict, Refused, reset_DHCP_timeout, KnowServer, DhcpInv, DhcpTypeOK, HasAddress,
                                    LeasedIsConfigured, Bound, States, Returns, ParseType
  <2>2. CASE p.type = "NAK"
    BY <1>0, <1>3, <2>2, RefusedInv DEF RunRequest, Returns
  <2>3. CASE p.type \notin {"ACK", "NAK"}
    BY <1>0, <1>3, <2>3, TimeoutInv DEF RunRequest, Refused
  <2> QED  BY <2>1, <2>2, <2>3
<1>4. CASE RunLeased(p)
  <2>1. DHCP_allocated_ip \in Addresses /\ p.sip \in Servers
    BY <1>0, <1>4 DEF RunLeased, DhcpInv, HasAddress, Bound
  <2> QED
    BY <1>0, <1>4, <2>1 DEF RunLeased, send_DHCP_REQUEST, reset_DHCP_timeout, KnowServer, DhcpInv, DhcpTypeOK,
                            HasAddress, LeasedIsConfigured, Bound, States, Returns, ParseType
<1>5. CASE RunRerequest(p)
  <2>1. CASE p.type = "ACK"
    BY <1>0, <1>5, <2>1 DEF RunRerequest, Refused, reset_DHCP_timeout, KnowServer, DhcpInv, DhcpTypeOK, HasAddress,
                            LeasedIsConfigured, Bound, States, Returns, ParseType
  <2>2. CASE p.type = "NAK"
    BY <1>0, <1>5, <2>2, RefusedInv DEF RunRerequest, Returns
  <2>3. CASE p.type \notin {"ACK", "NAK"}
    BY <1>0, <1>5, <2>3, TimeoutInv DEF RunRerequest, Refused
  <2> QED  BY <2>1, <2>2, <2>3
<1> QED  BY <1>1, <1>2, <1>3, <1>4, <1>5

(* No step of the client, the timer or the servers leaves the invariant.   *)
LEMMA DhcpStepInv == DhcpInv /\ [Next]_vars => DhcpInv'
<1> SUFFICES ASSUME DhcpInv, [Next]_vars PROVE DhcpInv'
  OBVIOUS
<1> USE DhcpAssumption
<1>1. CASE \E p \in parseDHCPMSG :
             RunInit(p) \/ RunDiscover(p) \/ RunRequest(p) \/ RunLeased(p) \/ RunRerequest(p)
  BY <1>1, RunInv
<1>2. CASE RunStopped \/ DHCP_stop \/ DHCP_init \/ DHCP_time_handler \/ UNCHANGED vars
  BY <1>2 DEF RunStopped, DHCP_stop, DHCP_init, DHCP_time_handler, reset_DHCP_timeout, vars,
              DhcpInv, DhcpTypeOK, HasAddress, LeasedIsConfigured, Bound, States, Returns
<1> QED  BY <1>1, <1>2 DEF Next, DHCP_run

(* The invariant holds at all times.                                       *)
LEMMA DhcpInvariance == Spec => []DhcpInv
BY DhcpInitInv, DhcpStepInv, PTL DEF Spec

(* The client is type correct; in particular the retries stay within       *)
(* MAX_DHCP_RETRY.                                                         *)
THEOREM DhcpTypeCorrect == Spec => []DhcpTypeOK
<1>1. DhcpInv => DhcpTypeOK
  BY DEF DhcpInv
<1> QED  BY <1>1, DhcpInvariance, PTL

(* The chip sends from the address that is leased, whatever the servers    *)
(* and the network do.                                                     *)
THEOREM DhcpLeasedIsConfigured == Spec => []LeasedIsConfigured
<1>1. DhcpInv => LeasedIsConfigured
  BY DEF DhcpInv
<1> QED  BY <1>1, DhcpInvariance, PTL

-----------------------------------------------------------------------------
(* Without relay agents every server is heard under its own address.       *)
NoRelay == \A s \in Servers : Via[s] = s

ServerInv == OneServer /\ DHCP_REAL_SIP = DHCP_SIP

(* Once a server is known, a message that passes the filter is from it.    *)
LEMMA SameServer ==
  ASSUME NoRelay, DhcpInv, ServerInv, NEW p \in parseDHCPMSG
  PROVE  p.real_sip = p.sip /\ (DHCP_SIP # None => p.sip = DHCP_SIP)
BY ParseResult DEF DhcpInv, NoRelay, ServerInv

(* Without relays the source of the messages stays the server asked.       *)
LEMMA ServerStepInv ==
  ASSUME NoRelay, DhcpInv, ServerInv, [Next]_vars
  PROVE  ServerInv'
<1>1. ASSUME NEW p \in parseDHCPMSG,
             RunInit(p) \/ RunDiscover(p) \/ RunRequest(p) \/ RunLeased(p) \/ RunRerequest(p)
      PROVE  ServerInv'
  <2>1. p.real_sip = p.sip /\ (dhcp_state \in Bound => p.sip = DHCP_SIP)
    BY <1>1, SameServer, DhcpAssumption DEF DhcpInv, HasAddress
  <2>2. CASE RunInit(p)
    BY <2>2 DEF RunInit, send_DHCP_DISCOVER, ServerInv, OneServer
  <2>3. ASSUME check_DHCP_timeout(p), dhcp_state \in {"DISCOVER", "REQUEST", "REREQUEST"} PROVE ServerInv'
    BY <2>1, <2>3 DEF check_DHCP_timeout, Wait, SendAgain, GiveUp, send_DHCP_DISCOVER, send_DHCP_REQUEST,
                      KnowServer, ServerInv, OneServer, Bound
  <2>4. CASE RunDiscover(p)
    BY <2>1, <2>3, <2>4 DEF RunDiscover, send_DHCP_REQUEST, KnowServer, ServerInv, OneServer
  <2>5. CASE RunRequest(p)
    BY <2>1, <2>3, <2>5 DEF RunRequest, default_ip_assign, default_ip_conflict, Refused, KnowServer, ServerInv, OneServer, Bound
  <2>6. CASE RunLeased(p)
    BY <2>1, <2>6 DEF RunLeased, send_DHCP_REQUEST, KnowServer, ServerInv, OneServer, Bound
  <2>7. CASE RunRerequest(p)
    BY <2>1, <2>3, <2>7 DEF RunRerequest, Refused, KnowServer, ServerInv, OneServer, Bound
  <2> QED  BY <1>1, <2>2, <2>4, <2>5, <2>6, <2>7
<1>2. CASE RunStopped \/ DHCP_stop \/ DHCP_init \/ DHCP_time_handler \/ UNCHANGED vars
  BY <1>2 DEF RunStopped, DHCP_stop, DHCP_init, DHCP_time_handler, vars, ServerInv, OneServer
<1> QED  BY <1>1, <1>2 DEF Next, DHCP_run

(* Where no relay agent stands between them, the client asks the server    *)
(* that made the offer and no other, however many servers answer and       *)
(* however late.                                                           *)
THEOREM DhcpOneServer == NoRelay /\ Spec => []OneServer
<1> SUFFICES ASSUME NoRelay PROVE Spec => []OneServer
  OBVIOUS
<1>1. Init => ServerInv
  BY DEF Init, ServerInv, OneServer
<1>2. DhcpInv /\ ServerInv /\ [Next]_vars => ServerInv'
  BY ServerStepInv
<1>3. ServerInv => OneServer
  BY DEF ServerInv
<1> QED  BY <1>1, <1>2, <1>3, DhcpInvariance, PTL DEF Spec
=============================================================================
