----------------------------- MODULE TftpProofs -----------------------------
(***************************************************************************)
(* Safety of the TFTP client for every length of the file below the wrap   *)
(* of block numbers, every number of transfers and every timeout.          *)
(***************************************************************************)
EXTENDS Tftp, TLAPS

(* Block numbers are those of the blocks: the file is shorter than a wrap. *)
LEMMA WireIsBlock == ASSUME NEW b \in 0..LastBlock PROVE Wire(b) = b
BY TftpAssumption DEF Wire

(* Nothing has been requested.                                             *)
LEMMA TftpInitType == TftpInit => TftpTypeOK
<1> SUFFICES ASSUME TftpInit PROVE TftpTypeOK
  OBVIOUS
<1>1. net \subseteq Packet
  BY TftpAssumption DEF TftpInit, Packet, Pkt
<1>2. saved \in Seq((1..LastBlock) \X Hosts)
  BY DEF TftpInit
<1>3. sent \in [Ports -> 0..Idle]
  BY TftpAssumption DEF TftpInit, Idle
<1>4. ClientTypeOK
  <2>1. TimeoutRuns
    BY Zenon DEF TftpInit, TimeoutRuns
  <2> QED  BY <2>1, TftpAssumption DEF TftpInit, ClientTypeOK, States
<1>5. open \in BOOLEAN
  BY Zenon DEF TftpInit
<1>6. at \in {"idle", "receive"} /\ rcv_buf \in Packet \cup {None} /\ requests \in 0..MaxRequests /\ acks = {}
  BY TftpAssumption DEF TftpInit
<1> QED  BY <1>1, <1>2, <1>3, <1>4, <1>5, <1>6 DEF TftpTypeOK

(* init_tftp() leaves the client without a transfer.                       *)
LEMMA InitTftpType ==
  ASSUME NEW result \in {"PROGRESS", "FAIL", "SUCCESS"}, init_tftp(result)
  PROVE  ClientTypeOK'
<1>1. TimeoutRuns'
  BY Zenon DEF init_tftp, TimeoutRuns
<1> QED  BY <1>1, TftpAssumption DEF init_tftp, ClientTypeOK, States

AckType == (0..LastBlock) \X (Ports \cup {Zero, Stranger})
SavedType == Seq((1..LastBlock) \X Hosts)

(* A block of data that arrives, saved or not.                             *)
LEMMA DataType ==
  ASSUME TftpTypeOK, NEW p \in Packet, NEW short \in BOOLEAN,
         NEW port \in Ports \cup {Zero, Stranger}, recv_tftp_data(p, short, port)
  PROVE  ClientTypeOK' /\ saved' \in SavedType /\ acks' \subseteq AckType
<1> USE TftpAssumption
<1>0. p.block \in 1..LastBlock /\ Wire(p.block) = p.block
  <2>1. p.block \in 1..LastBlock
    BY DEF Packet
  <2> QED  BY <2>1, WireIsBlock
<1>1. saved' \in SavedType /\ acks' \subseteq AckType
  <2>1. <<p.block, IpOf(p)>> \in (1..LastBlock) \X Hosts
    BY <1>0 DEF IpOf, Hosts
  <2>2. saved' \in SavedType
    <3> DEFINE S == (1..LastBlock) \X Hosts
               x == <<p.block, IpOf(p)>>
    <3>1. saved' = Append(saved, x) \/ saved' = saved
      BY DEF recv_tftp_data
    <3>2. saved \in Seq(S) /\ x \in S
      BY <2>1 DEF TftpTypeOK
    <3> HIDE DEF S, x
    <3>3. saved' \in Seq(S)
      BY <3>1, <3>2
    <3> QED  BY <3>3 DEF S, SavedType
  <2>3. acks' \subseteq AckType
    BY <1>0 DEF recv_tftp_data, send_tftp_ack, TftpTypeOK, AckType
  <2> QED  BY <2>2, <2>3
<1>2. ClientTypeOK'
  <2>1. CASE g_tftp_state = "NONE"
    BY <2>1 DEF recv_tftp_data, client, TftpTypeOK, ClientTypeOK, TimeoutRuns
  <2>2. CASE g_tftp_state # "NONE" /\ short
    BY <2>2, InitTftpType DEF recv_tftp_data
  <2>3. CASE g_tftp_state # "NONE" /\ ~short
    <3>1. TimeoutRuns'
      <4>1. g_tftp_state' # "NONE"
        BY <2>3 DEF recv_tftp_data
      <4>2. g_resend_flag' = TRUE
        BY <2>3 DEF recv_tftp_data, tftp_reg_timeout
      <4> QED  BY <4>1, <4>2, Zenon DEF TimeoutRuns
    <3> QED
      BY <1>0, <2>3, <3>1 DEF recv_tftp_data, tftp_reg_timeout, TftpTypeOK, ClientTypeOK, States
  <2> QED  BY <2>1, <2>2, <2>3
<1> QED  BY <1>1, <1>2

(* Any packet the client reads, whatever its opcode and sender.            *)
LEMMA PacketType ==
  ASSUME TftpTypeOK, NEW p \in Packet \cup {None}, NEW short \in BOOLEAN,
         NEW from_ip, NEW from_port \in Ports \cup {Stranger},
         recv_tftp_packet(p, short, from_ip, from_port)
  PROVE  ClientTypeOK' /\ saved' \in SavedType /\ acks' \subseteq AckType
<1> DEFINE port == IF g_tftp_state = "RRQ" THEN from_port ELSE g_server_port
<1>0. port \in Ports \cup {Zero, Stranger}
  BY DEF TftpTypeOK, ClientTypeOK
<1>1. CASE UNCHANGED <<client, saved, acks>>
  BY <1>1 DEF client, TftpTypeOK, ClientTypeOK, TimeoutRuns, SavedType, AckType
<1>2. CASE p = None /\ g_server_port' = port /\
           UNCHANGED <<g_tftp_state, g_block_num, g_server_ip, g_resend_flag, tftp_time_cnt,
                       tftp_retry_cnt, g_progress_state, saved, acks>>
  BY <1>0, <1>2 DEF TftpTypeOK, ClientTypeOK, TimeoutRuns, SavedType, AckType
<1>3. CASE p # None /\ p.op = "DATA" /\ recv_tftp_data(p, short, port)
  BY <1>0, <1>3, DataType
<1>4. CASE recv_tftp_oack(port)
  <2>1. CASE g_tftp_state = "RRQ"
    <3>1. g_tftp_state' = "OACK" /\ g_resend_flag' = TRUE
      BY <1>4, <2>1 DEF recv_tftp_oack, tftp_reg_timeout
    <3>2. TimeoutRuns'
      BY <3>1, Zenon DEF TimeoutRuns
    <3>3. ClientTypeOK'
      BY <1>0, <1>4, <2>1, <3>1, <3>2, TftpAssumption
         DEF recv_tftp_oack, tftp_reg_timeout, TftpTypeOK, ClientTypeOK, States
    <3>4. acks' \subseteq AckType
      BY <1>0, <1>4, <2>1, TftpAssumption DEF recv_tftp_oack, send_tftp_ack, TftpTypeOK, AckType
    <3> QED  BY <1>4, <2>1, <3>3, <3>4 DEF recv_tftp_oack, TftpTypeOK, SavedType
  <2>2. CASE g_tftp_state # "RRQ"
    BY <1>1, <1>4, <2>2 DEF recv_tftp_oack
  <2> QED  BY <2>1, <2>2
<1>5. CASE recv_tftp_error
  BY <1>5, InitTftpType DEF recv_tftp_error, TftpTypeOK, SavedType, AckType
<1> QED  BY <1>1, <1>2, <1>3, <1>4, <1>5 DEF recv_tftp_packet

(* The receiving half of TFTP_run(), with a packet or without.             *)
LEMMA ReceiveType ==
  ASSUME TftpTypeOK, TFTP_run_receive
  PROVE  TftpTypeOK'
<1>1. ClientTypeOK' /\ saved' \in SavedType /\ acks' \subseteq AckType /\ rcv_buf' \in Packet \cup {None}
  <2>1. CASE ReceivePacket
    <3> PICK p \in net : /\ recv_tftp_packet(p, p.block = LastBlock, IpOf(p), p.port)
                         /\ rcv_buf' = LeftOver(p, IpOf(p))
      BY <2>1 DEF ReceivePacket
    <3>1. p \in Packet /\ p.port \in Ports \cup {Stranger}
      BY DEF TftpTypeOK, Packet
    <3>2. (p.block = LastBlock) \in BOOLEAN
      OBVIOUS
    <3> HIDE DEF recv_tftp_packet
    <3>3. ClientTypeOK' /\ saved' \in SavedType /\ acks' \subseteq AckType
      BY <3>1, <3>2, PacketType
    <3> QED  BY <3>1, <3>3 DEF LeftOver
  <2>2. CASE ReceiveNothing
    <3> PICK from_ip \in Hosts \cup {Zero}, from_port \in Ports \cup {Stranger} :
            /\ recv_tftp_packet(rcv_buf, FALSE, from_ip, from_port)
            /\ rcv_buf' = LeftOver(rcv_buf, from_ip)
      BY <2>2 DEF ReceiveNothing
    <3>1. rcv_buf \in Packet \cup {None} /\ FALSE \in BOOLEAN
      BY DEF TftpTypeOK
    <3>2. ClientTypeOK' /\ saved' \in SavedType /\ acks' \subseteq AckType
      BY <3>1, PacketType
    <3> QED  BY <3>1, <3>2 DEF LeftOver
  <2> QED  BY <2>1, <2>2 DEF TFTP_run_receive
<1>2. UNCHANGED <<open, requests, net, sent>> /\ at' = "idle"
  BY DEF TFTP_run_receive, server
<1> QED  BY <1>1, <1>2 DEF TftpTypeOK, SavedType, AckType

(* The server sends; the client does nothing.                              *)
LEMMA ServeType ==
  ASSUME TftpTypeOK, NEW port \in Ports, Serve(port)
  PROVE  TftpTypeOK'
<1> USE TftpAssumption
<1>1. sent' \in [Ports -> 0..Idle]
  BY DEF Serve, TftpTypeOK, Idle
<1>2. net' \subseteq Packet
  <2>1. \A op \in {"DATA", "OACK", "ERROR"}, b \in 1..LastBlock : Pkt(op, b, port) \in Packet
    BY DEF Pkt, Packet
  <2>2. sent[port] \in Nat
    BY DEF TftpTypeOK, Idle
  <2> QED  BY <2>1, <2>2 DEF Serve, TftpTypeOK
<1>3. UNCHANGED <<open, at, client, rcv_buf, saved, requests, acks>>
  BY DEF Serve
<1>4. ClientTypeOK'
  BY <1>3 DEF client, TftpTypeOK, ClientTypeOK, TimeoutRuns
<1> QED  BY <1>1, <1>2, <1>3, <1>4 DEF TftpTypeOK

(* No step of the client, the timer or the server leaves the types.        *)
LEMMA TftpStepType == TftpTypeOK /\ [Next]_vars => TftpTypeOK'
<1> SUFFICES ASSUME TftpTypeOK, [Next]_vars PROVE TftpTypeOK'
  OBVIOUS
<1> USE TftpAssumption
<1>1. CASE TFTP_init \/ TFTP_exit
  <2>1. ClientTypeOK'
    BY <1>1, InitTftpType DEF TFTP_init, TFTP_exit
  <2>2. open' \in BOOLEAN
    BY <1>1, Zenon DEF TFTP_init, TFTP_exit
  <2> QED  BY <1>1, <2>1, <2>2 DEF TFTP_init, TFTP_exit, server, TftpTypeOK
<1>2. CASE TFTP_read_request
  <2>1. ClientTypeOK'
    <3>1. g_tftp_state' = "RRQ" /\ g_resend_flag' = TRUE
      BY <1>2 DEF TFTP_read_request, tftp_reg_timeout
    <3>2. TimeoutRuns'
      BY <3>1, Zenon DEF TimeoutRuns
    <3> QED
      BY <1>2, <3>2 DEF TFTP_read_request, tftp_reg_timeout, TftpTypeOK, ClientTypeOK, States
  <2>2. saved' \in Seq((1..LastBlock) \X Hosts) /\ requests' \in 0..MaxRequests
    BY <1>2 DEF TFTP_read_request, TftpTypeOK
  <2> QED  BY <1>2, <2>1, <2>2 DEF TFTP_read_request, server, TftpTypeOK
<1>3. CASE tftp_timeout_handler
  <2>1. ClientTypeOK'
    BY <1>3 DEF tftp_timeout_handler, TftpTypeOK, ClientTypeOK, TimeoutRuns
  <2> QED  BY <1>3, <2>1 DEF tftp_timeout_handler, server, TftpTypeOK
<1>4. CASE TFTP_run
  <2>1. ClientTypeOK'
    <3>1. CASE init_tftp("FAIL")
      BY <3>1, InitTftpType
    <3>2. CASE ~init_tftp("FAIL")
      BY <1>4, <3>2 DEF TFTP_run, Resend, CountRetry, client, TftpTypeOK, ClientTypeOK, TimeoutRuns
    <3> QED  BY <3>1, <3>2
  <2>2. acks' \subseteq AckType
    BY <1>4 DEF TFTP_run, Resend, send_tftp_ack, TftpTypeOK, ClientTypeOK, AckType
  <2> QED  BY <1>4, <2>1, <2>2 DEF TFTP_run, server, TftpTypeOK, AckType
<1>5. CASE TFTP_run_receive
  BY <1>5, ReceiveType
<1>6. CASE \E port \in Ports : Serve(port)
  BY <1>6, ServeType
<1>7. CASE UNCHANGED vars
  BY <1>7 DEF vars, client, server, TftpTypeOK, ClientTypeOK, TimeoutRuns
<1> QED  BY <1>1, <1>2, <1>3, <1>4, <1>5, <1>6, <1>7 DEF Next

(* The client is type correct; in particular a transfer that is not over   *)
(* has its timeout running, and the retries stay below their limit.        *)
THEOREM TftpTypeCorrect == Spec => []TftpTypeOK
BY TftpInitType, TftpStepType, PTL DEF Spec
-----------------------------------------------------------------------------
(* No other host sends data to the port of the client.                     *)
NoStrangerData == "DATA" \notin StrangerSends

IsData(p) == p # None /\ p.op = "DATA"
Active == g_tftp_state # "NONE"

(* What is saved are the first blocks of the file; while the transfer goes *)
(* on they are those up to g_block_num, and the last one is missing.       *)
FirstBlocks == \A i \in 1..Len(saved) : saved[i] = <<i, "server">>

Counted ==
  /\ g_tftp_state \in {"RRQ", "OACK"} => Len(saved) = 0 /\ g_block_num = 0
  /\ g_tftp_state = "DATA" => Len(saved) = g_block_num
  /\ Active => Len(saved) < LastBlock
  /\ g_progress_state = "SUCCESS" => Len(saved) = LastBlock

PrefixSaved == FirstBlocks /\ Counted

(* Nothing but what is saved is acknowledged, so the server is at most one *)
(* block ahead, in every one of its transfers.                             *)
OneAhead ==
  /\ \A a \in acks : a[1] <= Len(saved)
  /\ \A port \in Ports : sent[port] # Idle => sent[port] <= Len(saved) + 1
  /\ \A p \in net : IsData(p) => p.port # Stranger /\ p.block <= Len(saved) + 1

(* Before the request there is nothing, and while the transfer goes on no  *)
(* data that was left in the buffer is handled again.                      *)
BufferSpent == (requests = 0 \/ Active) => ~IsData(rcv_buf)
NotBegun    == requests = 0 => /\ ~Active /\ g_block_num = 0 /\ acks = {} /\ saved = <<>>
                               /\ g_progress_state # "SUCCESS"
                               /\ \A port \in Ports : sent[port] = Idle
                               /\ \A p \in net : ~IsData(p)
GoesToServer == Active => g_server_ip = "server"

TransferInv == requests <= 1 => PrefixSaved /\ OneAhead /\ BufferSpent /\ NotBegun /\ GoesToServer

(* Before any request nothing is saved and no data is on its way.          *)
LEMMA TransferInit == ASSUME NoStrangerData, TftpInit PROVE TransferInv
<1>1. \A p \in net : ~IsData(p)
  BY DEF TftpInit, NoStrangerData, IsData, Pkt
<1> QED
  BY <1>1, TftpAssumption DEF TftpInit, TransferInv, PrefixSaved, FirstBlocks, Counted, OneAhead, BufferSpent, NotBegun, GoesToServer, Active, IsData

(* A packet of data that is handled is the next block or an old one, and   *)
(* it is short when it is the last.                                        *)
LEMMA DataTransfer ==
  ASSUME TftpTypeOK, PrefixSaved, NEW p \in Packet, p.port # Stranger, p.block <= Len(saved) + 1,
         NEW port, recv_tftp_data(p, p.block = LastBlock, port)
  PROVE  PrefixSaved' /\ (\A a \in acks' : a \in acks \/ a[1] <= Len(saved')) /\ Len(saved') >= Len(saved)
<1> USE TftpAssumption
<1>0. /\ p.block \in 1..LastBlock /\ Wire(p.block) = p.block
      /\ Len(saved) \in Nat /\ g_block_num \in Nat /\ IpOf(p) = "server"
      /\ g_tftp_state \in {"NONE", "RRQ", "OACK", "DATA"}
  <2>1. p.block \in 1..LastBlock
    BY DEF Packet
  <2> QED  BY <2>1, WireIsBlock DEF TftpTypeOK, ClientTypeOK, IpOf, States
<1>a. FirstBlocks /\ Counted /\ LastBlock \in Nat
  BY DEF PrefixSaved
<1>1. CASE g_tftp_state = "NONE"
  <2>1. /\ saved' = saved /\ g_tftp_state' = g_tftp_state /\ g_block_num' = g_block_num
        /\ g_progress_state' = g_progress_state /\ acks' = acks
    BY <1>1 DEF recv_tftp_data, client
  <2>2. FirstBlocks' /\ Counted'
    BY <1>a, <2>1 DEF FirstBlocks, Counted, Active
  <2> QED  BY <1>0, <2>1, <2>2 DEF PrefixSaved
<1>2. CASE g_tftp_state # "NONE" /\ IsNext(p)
  <2>1. p.block = Len(saved) + 1
    BY <1>0, <1>a, <1>2 DEF IsNext, Counted
  <2>2. saved' = Append(saved, <<p.block, "server">>) /\ acks' = acks \cup {<<p.block, port>>}
    BY <1>0, <1>2 DEF recv_tftp_data, send_tftp_ack
  <2>3. Len(saved') = Len(saved) + 1 /\ FirstBlocks'
    <3> DEFINE x == <<p.block, "server">>
               S == (1..LastBlock) \X Hosts
    <3>1. saved \in Seq(S) /\ x \in S
      BY <1>0 DEF TftpTypeOK, Hosts
    <3>2. x = <<Len(saved) + 1, "server">> /\ saved' = Append(saved, x)
      BY <2>1, <2>2
    <3> HIDE DEF x, S
    <3>3. /\ Len(Append(saved, x)) = Len(saved) + 1
          /\ \A i \in 1..Len(saved) : Append(saved, x)[i] = saved[i]
          /\ Append(saved, x)[Len(saved) + 1] = x
      BY <3>1
    <3>4. ASSUME NEW i \in 1..Len(saved') PROVE saved'[i] = <<i, "server">>
      <4>1. CASE i \in 1..Len(saved)
        BY <1>a, <3>2, <3>3, <4>1 DEF FirstBlocks
      <4>2. CASE i = Len(saved) + 1
        BY <3>2, <3>3, <4>2
      <4> QED  BY <1>0, <3>2, <3>3, <4>1, <4>2
    <3> QED  BY <3>2, <3>3, <3>4 DEF FirstBlocks
  <2>4. CASE p.block = LastBlock
    <3>1. g_tftp_state' = "NONE" /\ g_progress_state' = "SUCCESS"
      BY <1>2, <2>4 DEF recv_tftp_data, init_tftp
    <3>2. Counted'
      BY <1>0, <2>1, <2>3, <2>4, <3>1 DEF Counted, Active
    <3> QED  BY <1>0, <2>1, <2>2, <2>3, <3>2 DEF PrefixSaved
  <2>5. CASE p.block # LastBlock
    <3>1. g_tftp_state' = "DATA" /\ g_block_num' = p.block /\ g_progress_state' = g_progress_state
      BY <1>0, <1>2, <2>5 DEF recv_tftp_data
    <3>2. g_progress_state # "SUCCESS"
      BY <1>0, <1>a, <1>2 DEF Counted, Active
    <3>3. Counted'
      BY <1>0, <2>1, <2>3, <2>5, <3>1, <3>2 DEF Counted, Active
    <3> QED  BY <1>0, <2>1, <2>2, <2>3, <3>3 DEF PrefixSaved
  <2> QED  BY <2>4, <2>5
<1>3. CASE g_tftp_state # "NONE" /\ ~IsNext(p)
  <2>1. p.block <= Len(saved) /\ p.block < LastBlock
    BY <1>0, <1>a, <1>3 DEF IsNext, Counted, Active
  <2>2. /\ saved' = saved /\ g_tftp_state' = g_tftp_state /\ g_block_num' = g_block_num
        /\ g_progress_state' = g_progress_state /\ acks' = acks \cup {<<p.block, port>>}
    BY <1>0, <1>3, <2>1 DEF recv_tftp_data, send_tftp_ack
  <2>3. FirstBlocks' /\ Counted'
    BY <1>a, <2>2 DEF FirstBlocks, Counted, Active
  <2> QED  BY <1>0, <2>1, <2>2, <2>3 DEF PrefixSaved
<1> QED  BY <1>0, <1>1, <1>2, <1>3

(* Steps that change neither what is saved nor the server nor the buffer.  *)
LEMMA QuietTransfer ==
  ASSUME TftpTypeOK, TransferInv, requests' = requests, saved' = saved, rcv_buf' = rcv_buf, UNCHANGED server,
         \/ UNCHANGED <<g_tftp_state, g_block_num, g_progress_state, g_server_ip>>
         \/ g_tftp_state' = "NONE" /\ g_block_num' = 0 /\ g_progress_state' \in {"PROGRESS", "FAIL"},
         acks' = acks \/ (requests <= 1 /\ Active /\ \A a \in acks' : a \in acks \/ a[1] <= Len(saved))
  PROVE  TransferInv'
<1> SUFFICES ASSUME requests <= 1 PROVE TransferInv'
  BY DEF TransferInv
<1>0. PrefixSaved /\ OneAhead /\ BufferSpent /\ NotBegun /\ GoesToServer
  BY DEF TransferInv
<1>1. FirstBlocks'
  BY <1>0 DEF PrefixSaved, FirstBlocks
<1>2. Counted'
  BY <1>0 DEF PrefixSaved, Counted, Active
<1>3. OneAhead'
  BY <1>0 DEF OneAhead, server, IsData
<1>4. BufferSpent' /\ NotBegun' /\ GoesToServer'
  BY <1>0 DEF BufferSpent, NotBegun, GoesToServer, Active, IsData, server
<1> QED  BY <1>1, <1>2, <1>3, <1>4 DEF TransferInv, PrefixSaved

(* What handling a packet does to a transfer.                              *)
Handled ==
  /\ PrefixSaved'
  /\ \A a \in acks' : a \in acks \/ a[1] <= Len(saved')
  /\ Len(saved') >= Len(saved)
  /\ Active' => Active /\ g_server_ip' = g_server_ip
  /\ requests = 0 => acks' = acks /\ saved' = saved /\ g_progress_state' # "SUCCESS" /\ g_block_num' = 0

(* A packet, received or left over: data is handled as it was received.    *)
LEMMA PacketHandled ==
  ASSUME TftpTypeOK, TransferInv, requests <= 1,
         NEW p \in Packet \cup {None}, NEW short \in BOOLEAN, NEW from_ip, NEW from_port,
         recv_tftp_packet(p, short, from_ip, from_port),
         IsData(p) /\ Active => p \in net /\ short = (p.block = LastBlock),
         IsData(p) => requests # 0
  PROVE  Handled
<1> DEFINE port == IF g_tftp_state = "RRQ" THEN from_port ELSE g_server_port
<1>0. PrefixSaved /\ OneAhead /\ NotBegun /\ Len(saved) \in Nat
  BY DEF TransferInv, TftpTypeOK
<1>a. ASSUME UNCHANGED <<g_tftp_state, g_block_num, g_progress_state, g_server_ip, saved, acks>> PROVE Handled
  <2>1. PrefixSaved'
    BY <1>0, <1>a DEF PrefixSaved, FirstBlocks, Counted, Active
  <2> QED  BY <1>0, <1>a, <2>1 DEF Handled, NotBegun, Active
<1>1. CASE UNCHANGED <<client, saved, acks>>
  BY <1>1, <1>a DEF client
<1>2. CASE UNCHANGED <<g_tftp_state, g_block_num, g_server_ip, g_resend_flag, tftp_time_cnt,
                       tftp_retry_cnt, g_progress_state, saved, acks>>
  BY <1>2, <1>a
<1>3. CASE p # None /\ p.op = "DATA" /\ recv_tftp_data(p, short, port)
  <2>1. CASE ~Active
    BY <1>1, <1>3, <2>1 DEF recv_tftp_data, Active
  <2>2. CASE Active
    <3>1. p \in net /\ short = (p.block = LastBlock) /\ p \in Packet
      BY <1>3, <2>2 DEF IsData
    <3>2. p.port # Stranger /\ p.block <= Len(saved) + 1
      BY <1>0, <1>3, <3>1 DEF OneAhead, IsData
    <3> HIDE DEF port
    <3>3. recv_tftp_data(p, p.block = LastBlock, port)
      BY <1>3, <3>1
    <3>4. /\ PrefixSaved' /\ Len(saved') >= Len(saved)
          /\ \A a \in acks' : a \in acks \/ a[1] <= Len(saved')
      BY <1>0, <3>1, <3>2, <3>3, DataTransfer
    <3>5. Active' => Active /\ g_server_ip' = g_server_ip
      BY <2>2, <3>3 DEF recv_tftp_data, init_tftp, Active
    <3>6. requests # 0
      BY <1>3 DEF IsData
    <3> QED  BY <3>4, <3>5, <3>6 DEF Handled
  <2> QED  BY <2>1, <2>2
<1>4. CASE recv_tftp_oack(port)
  <2>1. CASE g_tftp_state # "RRQ"
    BY <1>1, <1>4, <2>1 DEF recv_tftp_oack
  <2>2. CASE g_tftp_state = "RRQ"
    <3>1. /\ g_tftp_state' = "OACK" /\ acks' = acks \cup {<<0, port>>}
          /\ UNCHANGED <<g_block_num, g_server_ip, g_progress_state, saved>>
      BY <1>4, <2>2 DEF recv_tftp_oack, send_tftp_ack
    <3>2. PrefixSaved'
      BY <1>0, <2>2, <3>1 DEF PrefixSaved, FirstBlocks, Counted, Active
    <3>3. requests # 0 /\ Active
      BY <1>0, <2>2 DEF NotBegun, Active
    <3> HIDE DEF port
    <3> QED  BY <1>0, <3>1, <3>2, <3>3 DEF Handled
  <2> QED  BY <2>1, <2>2
<1>5. CASE recv_tftp_error
  <2>1. g_tftp_state' = "NONE" /\ g_block_num' = 0 /\ g_progress_state' = "FAIL" /\ UNCHANGED <<saved, acks>>
    BY <1>5 DEF recv_tftp_error, init_tftp
  <2>2. PrefixSaved'
    BY <1>0, <2>1 DEF PrefixSaved, FirstBlocks, Counted, Active
  <2> QED  BY <1>0, <2>1, <2>2 DEF Handled, Active
<1> QED  BY <1>1, <1>2, <1>3, <1>4, <1>5 DEF recv_tftp_packet

(* A packet that is read saves the next block of the file or none.         *)
LEMMA ReceiveTransfer ==
  ASSUME TftpTypeOK, TransferInv, TFTP_run_receive
  PROVE  TransferInv'
<1>u. requests' = requests /\ net' = net /\ sent' = sent
  BY DEF TFTP_run_receive, server
<1> SUFFICES ASSUME requests <= 1 PROVE TransferInv'
  BY <1>u DEF TransferInv
<1>0. OneAhead /\ BufferSpent /\ NotBegun /\ GoesToServer
  BY DEF TransferInv
<1>1. Handled /\ ((requests = 0 \/ Active) => ~IsData(rcv_buf'))
  <2>1. CASE ReceivePacket
    <3> PICK p \in net : /\ recv_tftp_packet(p, p.block = LastBlock, IpOf(p), p.port)
                         /\ rcv_buf' = LeftOver(p, IpOf(p))
      BY <2>1 DEF ReceivePacket
    <3>1. p \in Packet /\ (p.block = LastBlock) \in BOOLEAN
      BY DEF TftpTypeOK
    <3>2. IsData(p) => requests # 0 /\ IpOf(p) = "server"
      BY <1>0 DEF NotBegun, OneAhead, IpOf
    <3>3. Handled
      BY <3>1, <3>2, PacketHandled
    <3> QED  BY <1>0, <3>2, <3>3 DEF LeftOver, GoesToServer, IsData
  <2>2. CASE ReceiveNothing
    <3> PICK from_ip \in Hosts \cup {Zero}, from_port \in Ports \cup {Stranger} :
            /\ recv_tftp_packet(rcv_buf, FALSE, from_ip, from_port)
            /\ rcv_buf' = LeftOver(rcv_buf, from_ip)
      BY <2>2 DEF ReceiveNothing
    <3>1. rcv_buf \in Packet \cup {None} /\ FALSE \in BOOLEAN
      BY DEF TftpTypeOK
    <3>2. Handled
      BY <1>0, <3>1, PacketHandled DEF BufferSpent
    <3> QED  BY <1>0, <3>2 DEF LeftOver, BufferSpent, IsData
  <2> QED  BY <2>1, <2>2 DEF TFTP_run_receive
<1>2. TftpTypeOK'
  BY ReceiveType
<1>3. Len(saved) \in Nat /\ Len(saved') \in Nat
  BY <1>2 DEF TftpTypeOK
<1>4. OneAhead'
  <2>1. \A a \in acks' : a[1] <= Len(saved')
    <3> SUFFICES ASSUME NEW a \in acks' PROVE a[1] <= Len(saved')
      OBVIOUS
    <3>1. a[1] \in Nat
      BY <1>2, TftpAssumption DEF TftpTypeOK
    <3> QED  BY <1>0, <1>1, <1>3, <3>1 DEF Handled, OneAhead
  <2>2. \A port \in Ports : sent'[port] # Idle => sent'[port] <= Len(saved') + 1
    <3>1. \A port \in Ports : sent[port] \in Nat
      BY TftpAssumption DEF TftpTypeOK, Idle
    <3> QED  BY <1>0, <1>1, <1>3, <1>u, <3>1 DEF Handled, OneAhead
  <2>3. \A p \in net' : IsData(p) => p.port # Stranger /\ p.block <= Len(saved') + 1
    <3>1. \A p \in net : p.block \in Nat
      BY TftpAssumption DEF TftpTypeOK, Packet
    <3> QED  BY <1>0, <1>1, <1>3, <1>u, <3>1 DEF Handled, OneAhead
  <2> QED  BY <2>1, <2>2, <2>3 DEF OneAhead, IsData
<1>5. BufferSpent' /\ NotBegun' /\ GoesToServer'
  BY <1>0, <1>1, <1>u DEF Handled, BufferSpent, NotBegun, GoesToServer, IsData
<1> QED  BY <1>1, <1>4, <1>5 DEF Handled, TransferInv

(* The server moves on only when its block is acknowledged.                *)
LEMMA ServeTransfer ==
  ASSUME TftpTypeOK, TransferInv, NEW port \in Ports, Serve(port)
  PROVE  TransferInv'
<1>u. UNCHANGED <<client, rcv_buf, saved, requests, acks>>
  BY DEF Serve
<1> SUFFICES ASSUME requests <= 1 PROVE TransferInv'
  BY <1>u DEF TransferInv
<1>0. PrefixSaved /\ OneAhead /\ BufferSpent /\ NotBegun /\ GoesToServer
  BY DEF TransferInv
<1>1. /\ Len(saved) \in Nat /\ sent \in [Ports -> 0..Idle] /\ LastBlock \in Nat \ {0} /\ Stranger # port
      /\ Idle \in Nat
  BY TftpAssumption DEF TftpTypeOK, Idle
<1>2. PrefixSaved' /\ BufferSpent' /\ GoesToServer'
  BY <1>0, <1>u DEF client, PrefixSaved, FirstBlocks, Counted, BufferSpent, GoesToServer, Active, IsData
<1>3. requests # 0
  <2>1. ASSUME requests = 0 PROVE FALSE
    BY <1>0, <1>1, <2>1 DEF NotBegun, Serve, Idle
  <2> QED  BY <2>1
<1>4. /\ \A q \in Ports : sent'[q] # Idle => sent'[q] <= Len(saved) + 1
      /\ \A p \in net' : p \in net \/ (IsData(p) => p.port # Stranger /\ p.block <= Len(saved) + 1)
  <2>1. CASE sent[port] = Idle /\ sent' = [sent EXCEPT ![port] = 0] /\ net' = net \cup {Pkt("OACK", 1, port)}
    BY <1>0, <1>1, <2>1 DEF OneAhead, Pkt, IsData
  <2>2. CASE sent[port] = Idle /\ sent' = [sent EXCEPT ![port] = 1] /\ net' = net \cup {Pkt("DATA", 1, port)}
    BY <1>0, <1>1, <2>2 DEF OneAhead, Pkt, IsData
  <2>3. CASE /\ sent[port] < LastBlock /\ <<Wire(sent[port]), port>> \in acks
             /\ sent' = [sent EXCEPT ![port] = @ + 1]
             /\ net' = net \cup {Pkt("DATA", sent[port] + 1, port)}
    <3>1. sent[port] \in 0..LastBlock
      BY <1>1, <2>3
    <3>2. sent[port] <= Len(saved)
      BY <1>0, <2>3, <3>1, WireIsBlock DEF OneAhead
    <3>3. sent[port] + 1 <= Len(saved) + 1
      BY <1>1, <3>1, <3>2
    <3> QED  BY <1>0, <1>1, <2>3, <3>1, <3>3 DEF OneAhead, Pkt, IsData
  <2>4. CASE UNCHANGED sent /\ net' = net \cup {Pkt("ERROR", 1, port)}
    BY <1>0, <1>1, <2>4 DEF OneAhead, Pkt, IsData
  <2> QED  BY <2>1, <2>2, <2>3, <2>4 DEF Serve
<1>5. OneAhead'
  BY <1>0, <1>4, <1>u DEF OneAhead, IsData
<1>6. NotBegun'
  BY <1>3, <1>u DEF NotBegun
<1> QED  BY <1>2, <1>5, <1>6 DEF TransferInv

(* No step leaves the invariant of a transfer.                             *)
LEMMA TransferStep ==
  ASSUME TftpTypeOK, TransferInv, [Next]_vars
  PROVE  TransferInv'
<1>1. CASE TFTP_init \/ TFTP_exit
  BY <1>1, QuietTransfer DEF TFTP_init, TFTP_exit, init_tftp
<1>2. CASE TFTP_read_request
  <2>u. /\ requests' = requests + 1 /\ saved' = <<>> /\ g_tftp_state' = "RRQ" /\ g_server_ip' = "server"
        /\ g_progress_state' = "PROGRESS" /\ UNCHANGED <<g_block_num, rcv_buf, acks, net, sent>>
    BY <1>2 DEF TFTP_read_request, server
  <2>1. CASE requests # 0
    BY <2>u, <2>1 DEF TftpTypeOK, TransferInv
  <2>2. CASE requests = 0
    <3>1. NotBegun /\ BufferSpent
      BY <2>2 DEF TransferInv
    <3>2. /\ g_block_num = 0 /\ acks = {} /\ \A port \in Ports : sent[port] = Idle
          /\ \A p \in net : ~IsData(p)
      BY <2>2, <3>1 DEF NotBegun
    <3>3. ~IsData(rcv_buf)
      BY <2>2, <3>1 DEF BufferSpent
    <3>4. PrefixSaved'
      BY <2>u, <3>2, TftpAssumption DEF PrefixSaved, FirstBlocks, Counted, Active
    <3>5. OneAhead'
      BY <2>u, <3>2 DEF OneAhead, IsData
    <3> QED
      BY <2>2, <2>u, <3>3, <3>4, <3>5 DEF TransferInv, BufferSpent, NotBegun, GoesToServer, IsData
  <2> QED  BY <2>1, <2>2
<1>3. CASE tftp_timeout_handler
  BY <1>3, QuietTransfer DEF tftp_timeout_handler, server
<1>4. CASE TFTP_run
  <2>u. requests' = requests /\ saved' = saved /\ rcv_buf' = rcv_buf /\ UNCHANGED server
    BY <1>4 DEF TFTP_run
  <2>1. CASE UNCHANGED <<client, acks>>
    BY <2>u, <2>1, QuietTransfer DEF client
  <2>2. CASE Resend
    <3>1. CASE requests > 1
      BY <2>u, <3>1 DEF TransferInv, TftpTypeOK
    <3>2. CASE requests <= 1
      <4>1. acks' = acks \/ (Active /\ \A a \in acks' : a \in acks \/ a[1] <= Len(saved))
        <5>1. Counted /\ Len(saved) \in Nat
          BY <3>2 DEF TransferInv, PrefixSaved, TftpTypeOK
        <5>2. g_tftp_state \in {"OACK", "DATA"} => Active /\ g_block_num <= Len(saved)
          BY <5>1 DEF Counted, Active
        <5> QED  BY <2>2, <5>2 DEF Resend, send_tftp_ack
      <4>2. \/ UNCHANGED <<g_tftp_state, g_block_num, g_progress_state, g_server_ip>>
            \/ g_tftp_state' = "NONE" /\ g_block_num' = 0 /\ g_progress_state' \in {"PROGRESS", "FAIL"}
        BY <2>2 DEF Resend, CountRetry, init_tftp
      <4> QED  BY <2>u, <3>2, <4>1, <4>2, QuietTransfer
    <3> QED  BY <3>1, <3>2 DEF TftpTypeOK
  <2> QED  BY <1>4, <2>1, <2>2 DEF TFTP_run
<1>5. CASE TFTP_run_receive
  BY <1>5, ReceiveTransfer
<1>6. CASE \E port \in Ports : Serve(port)
  BY <1>6, ServeTransfer
<1>7. CASE UNCHANGED vars
  BY <1>7, QuietTransfer DEF vars, client
<1> QED  BY <1>1, <1>2, <1>3, <1>4, <1>5, <1>6, <1>7 DEF Next

(* A success is reported after the last block: all are saved then.         *)
LEMMA WholeFile ==
  ASSUME TftpTypeOK, TransferInv
  PROVE  SuccessIsWhole
<1> SUFFICES ASSUME g_progress_state = "SUCCESS", requests = 1
             PROVE  saved = [i \in 1..LastBlock |-> <<i, "server">>]
  BY DEF SuccessIsWhole
<1>1. FirstBlocks /\ Len(saved) = LastBlock
  BY DEF TransferInv, PrefixSaved, Counted
<1>2. saved \in Seq((1..LastBlock) \X Hosts)
  BY DEF TftpTypeOK
<1>3. saved = [i \in 1..Len(saved) |-> saved[i]]
  BY <1>2
<1> QED  BY <1>1, <1>3 DEF FirstBlocks

(* What the client reports as a success is the whole file, for every file  *)
(* of fewer blocks than there are block numbers, however packets are lost, *)
(* repeated and reordered and however often the request is served, where   *)
(* no other host sends data to the client.                                 *)
THEOREM TftpSuccessIsWhole == NoStrangerData /\ Spec => []SuccessIsWhole
<1> SUFFICES ASSUME NoStrangerData PROVE Spec => []SuccessIsWhole
  OBVIOUS
<1>1. TftpInit => TransferInv
  BY TransferInit
<1>2. TftpTypeOK /\ TransferInv /\ [Next]_vars => TransferInv'
  BY TransferStep
<1>3. TftpTypeOK /\ TransferInv => SuccessIsWhole
  BY WholeFile
<1> QED  BY <1>1, <1>2, <1>3, TftpTypeCorrect, PTL DEF Spec
=============================================================================
