------------------------------- MODULE TftpWrq -------------------------------
(***************************************************************************)
(* A write request of the TFTP server: the child process that runs         *)
(* wrq_handler (Assignment_3/lib.c), the client that sends the file and    *)
(* the UDP path between them.  The file is N chunks, each filling a packet *)
(* but the last one, which is shorter.                                     *)
(*                                                                         *)
(* mode is what strcmp makes of the request's mode, as in TftpRrq.         *)
(***************************************************************************)
EXTENDS Datagram

CONSTANTS
    N,           \* chunks of the client's file, the short last one included
    Wrap,        \* block_num is a uint16_t: 65536 in the code
    MaxRetry,    \* MAX_RETRY in config.h
    ClientRetry, \* retransmissions after which the client gives up
    Modes        \* transfer modes a request may name

ASSUME WrqAssumption ==
    /\ N \in Nat \ {0}
    /\ Wrap \in Nat \ {0, 1}
    /\ MaxRetry \in Nat \ {0}
    /\ ClientRetry \in Nat
    /\ Modes \subseteq {"octet", "netascii", "mail"}

VARIABLES
    \* The child process
    pc,             \* "start", "send" (top of the loop), "wait" (in select) or how it returned
    mode,           \* the mode of the request
    block_num,      \* the number of the last DATA packet received
    last_block_ack, \* the number acknowledged last
    _EOF,           \* a short packet was received
    timeout_counter,
    written,        \* the chunks appended to the file
    \* The network
    data,           \* packets on their way to the child
    acks,           \* packets on their way to the client
    \* The client
    cpc,            \* "active", "done", "refused", "gaveup" or "gone"
    cur,            \* the chunk it sends; 0 while the request is unanswered
    retries         \* its retransmissions of that chunk

child   == <<pc, mode, block_num, last_block_ack, _EOF, timeout_counter, written>>
network == <<data, acks>>
client  == <<cpc, cur, retries>>
vars == <<child, network, client>>

Exits == {"ok", "exists", "noopen", "initfail", "timedout", "peererror", "unknown"}

Supported == mode \in {"octet", "netascii"}

\* Packets, as in TftpRrq: "OTHER" is every opcode wrq_handler has no case for.
Packet(op, n, c) == [op |-> op, block |-> n, chunk |-> c]
Data(n, c)  == Packet("DATA", n, c)
Ack(n)      == Packet("ACK", n, 0)
Error(code) == Packet("ERROR", code, 0)
Other       == Packet("OTHER", 0, 0)
FILE_EXISTS == 6

\* A chunk of less than 512 bytes.
Short(c) == c >= N

\* The number chunk c travels under: the client counts in 16 bits as well.
Number(c) == c % Wrap

\* The test that tells a new block from a repeated one.
\* (Variants named Faulty... seed a fault and are used by no action.)
FaultyNewer(b, last) == b >= last
Newer(b, last) == b > last

\* The timeouts of a transfer are counted up to MAX_RETRY and never reset.
FaultyCount(t) == t
CountTimeout(t) == t + 1

GiveUp(t) == t = MaxRetry

\* write_data_to_file: appends in the modes it knows, and its result is ignored.
FaultyWrite(w, c) == IF w = <<>> THEN w ELSE Append(w, c)
write_data_to_file(w, c) == IF Supported THEN Append(w, c) ELSE w

\* The number acknowledged: the one of the packet received last, new or not.
\* (The faulty variant asks for the next block after a timeout.)
FaultyAckNumber(b) == IF timeout_counter > 0 THEN (b + 1) % Wrap ELSE b
AckNumber(b) == b

\* A timer of the child or of the client may fire.  Over a prompt network that
\* is only when nobody has anything left to send or to receive.
TimerMayFire == Prompt => data = <<>> /\ acks = <<>> /\ pc \notin {"start", "send"}

Init ==
    /\ pc = "start"
    /\ mode \in Modes
    /\ block_num = 0
    /\ last_block_ack = 0
    /\ _EOF = FALSE
    /\ timeout_counter = 0
    /\ written = <<>>
    /\ data = <<>>
    /\ acks = <<>>
    /\ cpc = "active"
    /\ cur = 0
    /\ retries = 0

-----------------------------------------------------------------------------
(* The child process *)

\* wrq_handler up to its loop.
StartOk ==
    /\ pc = "start"
    /\ pc' = "send"
    /\ UNCHANGED <<mode, block_num, last_block_ack, _EOF, timeout_counter, written,
                   network, client>>

StartExists ==
    /\ pc = "start"
    /\ acks' = SendTo(acks, Error(FILE_EXISTS))
    /\ pc' = "exists"
    /\ UNCHANGED <<mode, block_num, last_block_ack, _EOF, timeout_counter, written,
                   data, client>>

StartFail ==
    /\ pc = "start"
    /\ pc' \in {"initfail", "noopen"}
    /\ UNCHANGED <<mode, block_num, last_block_ack, _EOF, timeout_counter, written,
                   network, client>>

\* Top of the loop: acknowledge block_num, and return after the last block.
SendAck ==
    /\ pc = "send"
    /\ acks' = SendTo(acks, Ack(AckNumber(block_num)))
    /\ last_block_ack' = block_num
    /\ pc' = IF _EOF THEN "ok" ELSE "wait"
    /\ UNCHANGED <<mode, block_num, _EOF, timeout_counter, written, data, client>>

\* select returned 0: count it, then give up or loop back.
Timeout ==
    /\ pc = "wait"
    /\ TimerMayFire
    /\ timeout_counter' = CountTimeout(timeout_counter)
    /\ pc' = IF GiveUp(timeout_counter') THEN "timedout" ELSE "send"
    /\ UNCHANGED <<mode, block_num, last_block_ack, _EOF, written, network, client>>

\* tftp_recvfrom returned the packet p.
Receive(p) ==
    /\ pc = "wait"
    /\ \E i \in Arrivals(data) : p = data[i] /\ data' \in AfterArrival(data, i)
    /\ UNCHANGED <<mode, last_block_ack, timeout_counter, acks, client>>

\* block_num takes the number of any DATA packet; only its payload is filtered.
ReceiveData(p) ==
    /\ Receive(p)
    /\ p.op = "DATA"
    /\ block_num' = p.block
    /\ written' = IF Newer(p.block, last_block_ack)
                  THEN write_data_to_file(written, p.chunk) ELSE written
    /\ _EOF' = (_EOF \/ Short(p.chunk))
    /\ pc' = "send"

ReceiveOther(p) ==
    /\ Receive(p)
    /\ p.op # "DATA"
    /\ pc' = IF p.op = "ERROR" THEN "peererror" ELSE "unknown"
    /\ UNCHANGED <<block_num, _EOF, written>>

Server ==
    \/ StartOk \/ StartExists \/ StartFail
    \/ SendAck
    \/ Timeout
    \/ \E p \in Range(data) : ReceiveData(p) \/ ReceiveOther(p)

-----------------------------------------------------------------------------
(* The client and the network: a client of RFC 1350 that sends chunk after  *)
(* chunk, each when the one before is acknowledged, and repeats the current *)
(* one on a timer or, if it likes, on a repeated acknowledgement.           *)

Resend == IF cur = 0 THEN data ELSE SendTo(data, Data(Number(cur), cur))

ClientReceive(p) ==
    /\ cpc = "active"
    /\ \E i \in Arrivals(acks) : p = acks[i] /\ acks' \in AfterArrival(acks, i)
    /\ UNCHANGED child

ClientNext(p) ==
    /\ ClientReceive(p)
    /\ p.op = "ACK" /\ p.block = Number(cur) /\ cur < N
    /\ cur' = cur + 1
    /\ data' = SendTo(data, Data(Number(cur'), cur'))
    /\ retries' = 0
    /\ UNCHANGED cpc

ClientDone(p) ==
    /\ ClientReceive(p)
    /\ p.op = "ACK" /\ p.block = Number(cur) /\ cur = N
    /\ cpc' = "done"
    /\ UNCHANGED <<data, cur, retries>>

ClientDuplicate(p) ==
    /\ ClientReceive(p)
    /\ p.op = "ACK" /\ p.block # Number(cur)
    /\ data' \in {data, Resend}
    /\ UNCHANGED client

ClientRefused(p) ==
    /\ ClientReceive(p)
    /\ p.op = "ERROR"
    /\ cpc' = "refused"
    /\ UNCHANGED <<data, cur, retries>>

\* The client's own timer: repeat the current chunk, or give up.
ClientTimeout ==
    /\ cpc = "active"
    /\ TimerMayFire
    /\ IF retries < ClientRetry
       THEN retries' = retries + 1 /\ data' = Resend /\ UNCHANGED cpc
       ELSE cpc' = "gaveup" /\ UNCHANGED <<retries, data>>
    /\ UNCHANGED <<child, acks, cur>>

\* The client's user stops it: it sends an ERROR packet, one the child does not
\* know, or nothing at all.
ClientQuit ==
    /\ cpc = "active"
    /\ cpc' = "gone"
    /\ data' \in {data, SendTo(data, Error(0)), SendTo(data, Other)}
    /\ UNCHANGED <<child, acks, cur, retries>>

Client ==
    \/ \E p \in Range(acks) :
        ClientNext(p) \/ ClientDone(p) \/ ClientDuplicate(p) \/ ClientRefused(p)
    \/ ClientTimeout
    \/ ClientQuit

Lose ==
    /\ \/ data' \in AfterLoss(data) /\ UNCHANGED acks
       \/ acks' \in AfterLoss(acks) /\ UNCHANGED data
    /\ UNCHANGED <<child, client>>

Next == Server \/ Client \/ Lose

\* The child is scheduled, its timer included.  Nothing is assumed of the client
\* or of the network.
Spec == Init /\ [][Next]_vars /\ WF_vars(Server)

-----------------------------------------------------------------------------
(* Properties *)

\* When the child or the client reports success, the whole file is written.
SuccessMeansWhole ==
    Supported /\ (pc = "ok" \/ cpc = "done") => written = [i \in 1..N |-> i]

\* The child has received the client's current chunk or the one before it.
LockStep == block_num \in {Number(cur), Number(cur + Wrap - 1)}

\* README.md:33 counts on uint16_t overflow for files of more than 65535 blocks.
\* When block numbers roll over, exactly the chunks numbered 0 are missing: the
\* file is what the client has sent so far without them.
RolloverDropsZero ==
    Supported => \E k \in {cur - 1, cur} :
        /\ Range(written) = {c \in 1..k : Number(c) # 0}
        /\ \A i, j \in DOMAIN written : i < j => written[i] < written[j]

\* The child returns from wrq_handler: its timeouts are counted over the whole
\* transfer, and a client that goes on sending reaches its last chunk.
ChildReturns == <>(pc \in Exits)

\* The file at the server is a file transfer in the sense of FileTransfer.
Transfer == INSTANCE FileTransfer WITH
    copy    <- written,
    outcome <- CASE pc \in {"start", "send", "wait"} -> "running"
                 [] pc = "ok"                        -> "complete"
                 [] OTHER                            -> "aborted"

\* What the child stores implements FileTransfer.
ImplementsTransfer == Transfer!Spec
=============================================================================
