-------------------------------- MODULE Tftp --------------------------------
(***************************************************************************)
(* The TFTP client of sylib/ioLibrary_Driver/Internet/TFTP/tftp.c, in the  *)
(* build with F_STORAGE, reading one file.  TFTP_run() is called again and *)
(* again: it resends what has gone unanswered and then handles a packet;   *)
(* the timer interrupt may come in between, so the two are two steps.      *)
(*                                                                         *)
(* The server and the network are external.  The server answers a read     *)
(* request, and every repetition of it that reaches it, with a transfer    *)
(* from a port of its own, one block ahead of what was acknowledged; a     *)
(* packet may be lost, delayed, repeated or overtaken.                     *)
(*                                                                         *)
(* TFTP_run() means to return when nothing was received, but the length    *)
(* it tests for being negative is unsigned: it handles what its buffer     *)
(* still holds, as if 65535 bytes had come from an address and a port that *)
(* are uninitialised variables.                                            *)
(***************************************************************************)
EXTENDS Naturals, Sequences

CONSTANTS
  LastBlock,       \* blocks of the file; the last one is shorter than TFTP_BLK_SIZE
  BlockNumbers,    \* 2^16: block numbers on the wire are modulo this
  g_timeout,       \* ticks before something is sent again
  MaxRetries,      \* the literal 5 of TFTP_run()
  Ports,           \* the ports of the server, one for each transfer
  Stranger,        \* another host, which is not the server, and its port
  StrangerSends,   \* the opcodes of the packets it may send
  Zero,            \* no address, no port
  None,            \* a buffer whose first two bytes are no opcode that is handled
  MaxRequests      \* bound: calls of TFTP_read_request()

ASSUME TftpAssumption ==
  /\ LastBlock \in Nat \ {0} /\ BlockNumbers \in Nat /\ BlockNumbers > LastBlock
  /\ g_timeout \in Nat /\ MaxRetries \in Nat \ {0} /\ MaxRequests \in Nat
  /\ Stranger \notin Ports /\ Zero \notin Ports
  /\ StrangerSends \subseteq {"DATA", "OACK", "ERROR"}

VARIABLES
  open,                        \* TFTP_init() has been called, and not TFTP_exit()
  at,                          \* where TFTP_run() is: "idle", or about to "receive"
  g_tftp_state, g_block_num,
  g_server_ip, g_server_port,
  g_resend_flag, tftp_time_cnt, tftp_retry_cnt,
  g_progress_state,
  rcv_buf,                     \* what g_tftp_rcv_buf points to
  saved,                       \* external: the blocks given to save_data() since the request
  requests,                    \* calls of TFTP_read_request()
  net,                         \* external: the packets sent to the client ...
  acks,                        \* ... and the acknowledgements it sent
  sent                         \* external: the last block of each transfer of the server

client  == <<g_tftp_state, g_block_num, g_server_ip, g_server_port, g_resend_flag,
             tftp_time_cnt, tftp_retry_cnt, g_progress_state>>
server  == <<net, sent>>
vars    == <<open, at, client, rcv_buf, saved, requests, acks, server>>

States == {"NONE", "RRQ", "DATA", "OACK"}
Hosts  == {"server", Stranger}
Packet == [op : {"DATA", "OACK", "ERROR"}, block : 1..LastBlock, port : Ports \cup {Stranger}]

Wire(b)  == b % BlockNumbers
IpOf(p)  == IF p.port = Stranger THEN Stranger ELSE "server"
Pkt(op, b, port) == [op |-> op, block |-> b, port |-> port]
Idle == LastBlock + 1          \* of sent: the transfer has not begun

TftpInit ==
  /\ open = FALSE /\ at = "idle" /\ rcv_buf = None
  /\ g_tftp_state = "NONE" /\ g_block_num = 0 /\ g_server_ip = Zero /\ g_server_port = Zero
  /\ g_resend_flag = FALSE /\ tftp_time_cnt = 0 /\ tftp_retry_cnt = 0
  /\ g_progress_state = "PROGRESS"
  /\ saved = <<>> /\ requests = 0 /\ acks = {}
  /\ net = {Pkt(op, 1, Stranger) : op \in StrangerSends}
  /\ sent = [p \in Ports |-> Idle]
-----------------------------------------------------------------------------
(* Everything forgotten, with the result that is reported afterwards.      *)
init_tftp(result) ==
  /\ g_tftp_state' = "NONE" /\ g_block_num' = 0
  /\ g_server_ip' = Zero /\ g_server_port' = Zero
  /\ g_resend_flag' = FALSE /\ tftp_time_cnt' = 0 /\ tftp_retry_cnt' = 0
  /\ g_progress_state' = result

(* Mutant: every acknowledgement starts the timeout anew.                  *)
reg_timeout_anew(cancelled) == g_resend_flag' = TRUE /\ tftp_time_cnt' = 0 /\ tftp_retry_cnt' = 0

(* tftp_reg_timeout(), after tftp_cancel_timeout() or not: a timeout that  *)
(* is already running goes on.                                             *)
tftp_reg_timeout(cancelled) ==
  /\ g_resend_flag' = TRUE
  /\ IF cancelled \/ ~g_resend_flag THEN tftp_time_cnt' = 0 /\ tftp_retry_cnt' = 0
                                    ELSE UNCHANGED <<tftp_time_cnt, tftp_retry_cnt>>

send_tftp_ack(block, port) == acks' = acks \cup {<<block, port>>}

TFTP_init ==
  /\ ~open /\ open' = TRUE
  /\ init_tftp("PROGRESS")
  /\ UNCHANGED <<at, rcv_buf, saved, requests, acks, server>>

TFTP_exit ==
  /\ open /\ at = "idle" /\ open' = FALSE
  /\ init_tftp("PROGRESS")
  /\ UNCHANGED <<at, rcv_buf, saved, requests, acks, server>>

TFTP_read_request ==
  /\ open /\ at = "idle" /\ requests < MaxRequests
  /\ requests' = requests + 1
  /\ g_server_ip' = "server" /\ g_progress_state' = "PROGRESS" /\ g_tftp_state' = "RRQ"
  /\ tftp_reg_timeout(FALSE)
  /\ saved' = <<>>
  /\ UNCHANGED <<open, at, g_block_num, g_server_port, rcv_buf, acks, server>>

tftp_timeout_handler ==
  /\ g_resend_flag /\ tftp_time_cnt < g_timeout      \* counted no further
  /\ tftp_time_cnt' = tftp_time_cnt + 1
  /\ UNCHANGED <<open, at, g_tftp_state, g_block_num, g_server_ip, g_server_port, g_resend_flag,
                 tftp_retry_cnt, g_progress_state, rcv_buf, saved, requests, acks,
                 server>>
-----------------------------------------------------------------------------
(* Mutant: one retry too many.                                             *)
CountRetryLate ==
  IF tftp_retry_cnt >= MaxRetries
  THEN init_tftp("FAIL")
  ELSE /\ tftp_time_cnt' = 0 /\ tftp_retry_cnt' = tftp_retry_cnt + 1
       /\ UNCHANGED <<g_tftp_state, g_block_num, g_server_ip, g_server_port, g_resend_flag,
                      g_progress_state>>

(* TFTP_run(), first part: the last packet is sent again, and after so     *)
(* many times the transfer is given up.  A request sent again is no        *)
(* different from one delivered again.                                     *)
CountRetry ==
  IF tftp_retry_cnt + 1 >= MaxRetries
  THEN init_tftp("FAIL")
  ELSE /\ tftp_time_cnt' = 0 /\ tftp_retry_cnt' = tftp_retry_cnt + 1
       /\ UNCHANGED <<g_tftp_state, g_block_num, g_server_ip, g_server_port, g_resend_flag,
                      g_progress_state>>

Resend ==
  /\ g_resend_flag /\ tftp_time_cnt >= g_timeout
  /\ IF g_tftp_state \in {"OACK", "DATA"} THEN send_tftp_ack(g_block_num, g_server_port)
                                          ELSE UNCHANGED acks
  /\ CountRetry

TFTP_run ==
  /\ open /\ at = "idle" /\ at' = "receive"
  /\ \/ Resend
     \/ ~(g_resend_flag /\ tftp_time_cnt >= g_timeout) /\ UNCHANGED <<client, acks>>
  /\ UNCHANGED <<open, rcv_buf, saved, requests, server>>
-----------------------------------------------------------------------------
(* Mutant: the number of the block is not looked at.                       *)
IsNextAlways(p) == Wire(p.block) >= 1

(* A data packet p, taken to be whole or short.  It is the next block when *)
(* its number is one more than the last; the sum is that of two ints.  It  *)
(* is acknowledged in any case, and a short one ends the transfer.         *)
IsNext(p) == Wire(p.block) = IF g_tftp_state \in {"RRQ", "OACK"} THEN 1 ELSE g_block_num + 1

recv_tftp_data(p, short, port) ==
  \/ /\ g_tftp_state \in {"RRQ", "OACK", "DATA"}
     /\ saved' = IF IsNext(p) THEN Append(saved, <<p.block, IpOf(p)>>) ELSE saved
     /\ send_tftp_ack(Wire(p.block), port)
     /\ IF short
        THEN init_tftp("SUCCESS")
        ELSE /\ g_tftp_state' = IF IsNext(p) THEN "DATA" ELSE g_tftp_state
             /\ g_block_num' = IF IsNext(p) THEN Wire(p.block) ELSE g_block_num
             /\ tftp_reg_timeout(IsNext(p))
             /\ g_server_port' = port
             /\ UNCHANGED <<g_server_ip, g_progress_state>>
  \/ g_tftp_state = "NONE" /\ UNCHANGED <<client, saved, acks>>

recv_tftp_oack(port) ==
  \/ /\ g_tftp_state = "RRQ" /\ g_tftp_state' = "OACK"
     /\ g_server_port' = port
     /\ tftp_reg_timeout(TRUE)
     /\ send_tftp_ack(0, port)
     /\ UNCHANGED <<g_block_num, g_server_ip, g_progress_state, saved>>
  \/ g_tftp_state # "RRQ" /\ UNCHANGED <<client, saved, acks>>

recv_tftp_error == init_tftp("FAIL") /\ UNCHANGED <<saved, acks>>

(* The port of the server is taken from the packets that come before the   *)
(* first block; p is None when the buffer holds nothing that is handled.   *)
recv_tftp_packet(p, short, from_ip, from_port) ==
  LET port == IF g_tftp_state = "RRQ" THEN from_port ELSE g_server_port IN
  \/ from_ip # g_server_ip /\ UNCHANGED <<client, saved, acks>>
  \/ /\ from_ip = g_server_ip
     /\ \/ /\ p = None /\ g_server_port' = port
           /\ UNCHANGED <<g_tftp_state, g_block_num, g_server_ip, g_resend_flag, tftp_time_cnt,
                          tftp_retry_cnt, g_progress_state, saved, acks>>
        \/ p # None /\ p.op = "DATA"  /\ recv_tftp_data(p, short, port)
        \/ p # None /\ p.op = "OACK"  /\ recv_tftp_oack(port)
        \/ p # None /\ p.op = "ERROR" /\ recv_tftp_error

(* What is left in the buffer: data and errors have their opcode turned    *)
(* into one of the host's byte order, in place, which no one knows later.  *)
LeftOver(p, from_ip) ==
  IF p # None /\ from_ip = g_server_ip /\ p.op \in {"DATA", "ERROR"} THEN None ELSE p

(* TFTP_run(), second part, with a packet and without one.                 *)
ReceivePacket ==
  \E p \in net :
    /\ recv_tftp_packet(p, p.block = LastBlock, IpOf(p), p.port)
    /\ rcv_buf' = LeftOver(p, IpOf(p))

ReceiveNothing ==
  \E from_ip \in Hosts \cup {Zero}, from_port \in Ports \cup {Stranger} :
    /\ recv_tftp_packet(rcv_buf, FALSE, from_ip, from_port)
    /\ rcv_buf' = LeftOver(rcv_buf, from_ip)

TFTP_run_receive ==
  /\ at = "receive" /\ at' = "idle"
  /\ ReceivePacket \/ ReceiveNothing
  /\ UNCHANGED <<open, requests, server>>
-----------------------------------------------------------------------------
(* The server begins a transfer for a request that has reached it, sends   *)
(* the block after the one acknowledged, or gives up.                      *)
Serve(port) ==
  /\ \/ /\ requests > 0 /\ sent[port] = Idle
        /\ \/ sent' = [sent EXCEPT ![port] = 0] /\ net' = net \cup {Pkt("OACK", 1, port)}
           \/ sent' = [sent EXCEPT ![port] = 1] /\ net' = net \cup {Pkt("DATA", 1, port)}
     \/ /\ sent[port] < LastBlock /\ <<Wire(sent[port]), port>> \in acks
        /\ sent' = [sent EXCEPT ![port] = @ + 1]
        /\ net' = net \cup {Pkt("DATA", sent[port] + 1, port)}
     \/ /\ sent[port] # Idle /\ UNCHANGED sent
        /\ net' = net \cup {Pkt("ERROR", 1, port)}
  /\ UNCHANGED <<open, at, client, rcv_buf, saved, requests, acks>>

Next ==
  \/ TFTP_init \/ TFTP_exit \/ TFTP_read_request \/ tftp_timeout_handler
  \/ TFTP_run \/ TFTP_run_receive
  \/ \E port \in Ports : Serve(port)

Spec == TftpInit /\ [][Next]_vars

(* The application keeps calling TFTP_run() and the timer keeps ticking;   *)
(* of the server and the network nothing is expected.                      *)
FairSpec == Spec /\ WF_vars(TFTP_run) /\ WF_vars(TFTP_run_receive) /\ WF_vars(tftp_timeout_handler)
-----------------------------------------------------------------------------
TimeoutRuns == g_resend_flag \in BOOLEAN /\ (g_resend_flag <=> g_tftp_state # "NONE")

ClientTypeOK ==
  /\ g_tftp_state \in States /\ g_block_num \in 0..LastBlock
  /\ g_server_ip \in {Zero, "server"} /\ g_server_port \in Ports \cup {Zero, Stranger}
  /\ TimeoutRuns
  /\ tftp_time_cnt \in 0..g_timeout /\ tftp_retry_cnt \in 0..(MaxRetries - 1)
  /\ g_progress_state \in {"PROGRESS", "FAIL", "SUCCESS"}

(* Types.  The retries stay below the limit, and a transfer always has its *)
(* timeout running: tftp_reg_timeout() follows every change of state.      *)
TftpTypeOK ==
  /\ open \in BOOLEAN /\ at \in {"idle", "receive"}
  /\ ClientTypeOK
  /\ rcv_buf \in Packet \cup {None}
  /\ saved \in Seq((1..LastBlock) \X Hosts) /\ requests \in 0..MaxRequests
  /\ net \subseteq Packet
  /\ acks \subseteq ((0..LastBlock) \X (Ports \cup {Zero, Stranger}))
  /\ sent \in [Ports -> 0..Idle]

(* What recv_tftp_data() reports as TFTP_SUCCESS is the whole file: the    *)
(* blocks saved are all blocks of the file, each once and in order, with   *)
(* any packet lost, repeated, late or overtaken, the request served twice, *)
(* and old packets handled again.  For the first request after the start:  *)
(* later ones may meet packets of earlier transfers.                       *)
SuccessIsWhole ==
  g_progress_state = "SUCCESS" /\ requests = 1 =>
    saved = [i \in 1..LastBlock |-> <<i, "server">>]

(* A transfer comes to an end: packets that bring nothing new do not keep  *)
(* it alive, because tftp_reg_timeout() leaves a running timeout alone.    *)
TransferEnds == g_tftp_state # "NONE" ~> g_tftp_state = "NONE"
=============================================================================
