------------------------------- MODULE TftpRrq -------------------------------
(***************************************************************************)
(* A read request of the TFTP server: the child process that runs          *)
(* rrq_handler (Assignment_3/lib.c), the client that asked for the file    *)
(* and the UDP path between them.                                          *)
(*                                                                         *)
(* A file is its sequence of N read_block results: chunk i < N fills a     *)
(* packet, chunk N is the first shorter one, and N+1 stands for the empty  *)
(* result of every read beyond it.                                         *)
(*                                                                         *)
(* mode is what strcmp makes of the request's mode.  parse_trail_buf copies *)
(* "netascii" into all 8 bytes of its array, without a terminator, so such *)
(* a request may also be taken for an unknown mode, as "mail" is.  A file  *)
(* read in netascii is taken to hold no byte 0xFF, which read_block takes  *)
(* for the end of the file.                                                *)
(***************************************************************************)
EXTENDS Datagram

CONSTANTS
    N,          \* chunks of the file, the short last one included
    Wrap,       \* block_num is a uint16_t: 65536 in the code
    MaxRetry,   \* MAX_RETRY in config.h
    ClientRetry, \* retransmissions after which the client gives up
    Modes       \* transfer modes a request may name

ASSUME RrqAssumption ==
    /\ N \in Nat \ {0}
    /\ Wrap \in Nat \ {0, 1}
    /\ MaxRetry \in Nat \ {0}
    /\ ClientRetry \in Nat
    /\ Modes \subseteq {"octet", "netascii", "mail"}

VARIABLES
    \* The child process
    pc,         \* "start", "send" (top of the loop), "wait" (in select) or how it returned
    mode,       \* the mode of the request
    block_num,
    pos,        \* the last chunk read from fp
    is_EOF,
    timeout_counter,
    \* The network
    data,       \* packets on their way to the client
    acks,       \* packets on their way to the child
    \* The client
    cpc,        \* "active", "done", "refused" (got an ERROR packet), "gaveup" (timed
                \* out) or "gone" (stopped by its user)
    received,   \* the chunks the client stored
    retries,    \* its retransmissions since it last stored a chunk
    \* History
    resends     \* times the child looped back without having advanced block_num

child   == <<pc, mode, block_num, pos, is_EOF, timeout_counter>>
network == <<data, acks>>
client  == <<cpc, received, retries>>
vars == <<child, network, client, resends>>

Exits == {"ok", "notfound", "noopen", "initfail", "timedout", "peererror"}

Supported == mode \in {"octet", "netascii"}

\* Packets.  ERROR packets carry their code where others carry a block number,
\* and "OTHER" stands for every opcode the receiver has no case for.
Packet(op, n, c) == [op |-> op, block |-> n, chunk |-> c]
Data(n, c)  == Packet("DATA", n, c)
Ack(n)      == Packet("ACK", n, 0)
Error(code) == Packet("ERROR", code, 0)
Other       == Packet("OTHER", 0, 0)
FILE_NOT_FOUND == 1

\* read_block: the next chunk, and empty reads once the file is exhausted.
\* (Variants named Faulty... seed a fault and are used by no action.)
FaultyRewind(p) == IF p <= N THEN p + 1 ELSE 1
FaultySkip(p)   == IF p < N THEN p + 2 ELSE N + 1
read_block(p) == IF p <= N THEN p + 1 ELSE p

\* A chunk of less than 512 bytes.
FaultyShort(c) == c >= N - 1
Short(c) == c >= N

\* uint16_t increment.
FaultyIncrement(b) == IF b + 1 = Wrap THEN 1 ELSE b + 1
Increment(b) == (b + 1) % Wrap

\* parse_ack_packet.
FaultyAck(p, b) == p.block <= b
parse_ack_packet(p, b) == p.block = b

\* The timeouts of a transfer are counted up to MAX_RETRY and never reset.
FaultyCount(t) == t
CountTimeout(t) == t + 1

FaultyGiveUp(t) == t > MaxRetry
GiveUp(t) == t = MaxRetry

\* The history counter of loop-backs stops at N + 1, where it loses its meaning:
\* by then every chunk may have been skipped.
Count(r) == IF r <= N THEN r + 1 ELSE r

\* A timer of the child or of the client may fire.  Over a prompt network that
\* is only when nobody has anything left to send or to receive.
TimerMayFire == Prompt => data = <<>> /\ acks = <<>> /\ pc \notin {"start", "send"}

Init ==
    /\ pc = "start"
    /\ mode \in Modes
    /\ block_num = 1
    /\ pos = 0
    /\ is_EOF = FALSE
    /\ timeout_counter = 0
    /\ data = <<>>
    /\ acks = <<>>
    /\ cpc = "active"
    /\ received = <<>>
    /\ retries = 0
    /\ resends = 0

-----------------------------------------------------------------------------
(* The child process *)

\* rrq_handler up to its loop.  Whether the socket, the file and fopen are
\* there is up to the system it runs on.
StartOk ==
    /\ pc = "start"
    /\ pc' = "send"
    /\ UNCHANGED <<mode, block_num, pos, is_EOF, timeout_counter, network, client, resends>>

StartNotFound ==
    /\ pc = "start"
    /\ data' = SendTo(data, Error(FILE_NOT_FOUND))
    /\ pc' = "notfound"
    /\ UNCHANGED <<mode, block_num, pos, is_EOF, timeout_counter, acks, client, resends>>

StartFail ==
    /\ pc = "start"
    /\ pc' \in {"initfail", "noopen"}
    /\ UNCHANGED <<mode, block_num, pos, is_EOF, timeout_counter, network, client, resends>>

\* Top of the loop: read the next chunk, send it as block_num.  An unsupported
\* mode reads nothing: numbytes is (size_t)-1, so the chunk is not taken for the
\* last one and 3 zero bytes of buf_send are sent.
SendBlock ==
    /\ pc = "send"
    /\ IF Supported
       THEN /\ pos' = read_block(pos)
            /\ is_EOF' = Short(pos')
            /\ data' = SendTo(data, Data(block_num, pos'))
       ELSE /\ is_EOF' = FALSE
            /\ data' = SendTo(data, Other)
            /\ UNCHANGED pos
    /\ pc' = "wait"
    /\ UNCHANGED <<mode, block_num, timeout_counter, acks, client, resends>>

\* select returned 0: count it, then give up or loop back.
Timeout ==
    /\ pc = "wait"
    /\ TimerMayFire
    /\ timeout_counter' = CountTimeout(timeout_counter)
    /\ IF GiveUp(timeout_counter')
       THEN pc' = "timedout" /\ UNCHANGED resends
       ELSE pc' = "send" /\ resends' = Count(resends)
    /\ UNCHANGED <<mode, block_num, pos, is_EOF, network, client>>

\* tftp_recvfrom returned the packet p.
Receive(p) ==
    /\ pc = "wait"
    /\ \E i \in Arrivals(acks) : p = acks[i] /\ acks' \in AfterArrival(acks, i)
    /\ UNCHANGED <<mode, pos, is_EOF, timeout_counter, data, client>>

ReceiveAck(p) ==
    /\ Receive(p)
    /\ p.op = "ACK" /\ parse_ack_packet(p, block_num)
    /\ block_num' = Increment(block_num)
    /\ pc' = IF is_EOF THEN "ok" ELSE "send"
    /\ UNCHANGED resends

ReceiveError(p) ==
    /\ Receive(p)
    /\ p.op = "ERROR"
    /\ pc' = "peererror"
    /\ UNCHANGED <<block_num, resends>>

\* A wrong block number, or an opcode that is neither ACK nor ERROR.
ReceiveOther(p) ==
    /\ Receive(p)
    /\ p.op # "ERROR"
    /\ ~ (p.op = "ACK" /\ parse_ack_packet(p, block_num))
    /\ pc' = "send"
    /\ resends' = Count(resends)
    /\ UNCHANGED block_num

Server ==
    \/ StartOk \/ StartNotFound \/ StartFail
    \/ SendBlock
    \/ Timeout
    \/ \E p \in Range(acks) : ReceiveAck(p) \/ ReceiveError(p) \/ ReceiveOther(p)

-----------------------------------------------------------------------------
(* The client and the network.  launch_tests.sh runs the system's tftp      *)
(* client; here it is a client of RFC 1350 that stores block after block,   *)
(* acknowledges duplicates again and repeats its last ACK on a timer.       *)

\* The number of the last block the client stored.
LastBlock == Len(received) % Wrap

ClientReceive(p) ==
    /\ cpc = "active"
    /\ \E i \in Arrivals(data) : p = data[i] /\ data' \in AfterArrival(data, i)
    /\ UNCHANGED <<child, resends>>

ClientStore(p) ==
    /\ ClientReceive(p)
    /\ p.op = "DATA" /\ p.block = Increment(LastBlock)
    /\ received' = Append(received, p.chunk)
    /\ acks' = SendTo(acks, Ack(p.block))
    /\ cpc' = IF Short(p.chunk) THEN "done" ELSE "active"
    /\ retries' = 0

ClientDuplicate(p) ==
    /\ ClientReceive(p)
    /\ p.op = "DATA" /\ p.block = LastBlock /\ received # <<>>
    /\ acks' = SendTo(acks, Ack(p.block))
    /\ UNCHANGED client

ClientIgnore(p) ==
    /\ ClientReceive(p)
    /\ \/ p.op = "OTHER"
       \/ p.op = "DATA" /\ p.block \notin {LastBlock, Increment(LastBlock)}
    /\ UNCHANGED <<acks, client>>

ClientRefused(p) ==
    /\ ClientReceive(p)
    /\ p.op = "ERROR"
    /\ cpc' = "refused"
    /\ UNCHANGED <<acks, received, retries>>

\* The client's own timer: repeat the last ACK, or give up.
ClientTimeout ==
    /\ cpc = "active"
    /\ TimerMayFire
    /\ IF retries < ClientRetry
       THEN /\ retries' = retries + 1
            /\ acks' = IF received = <<>> THEN acks ELSE SendTo(acks, Ack(LastBlock))
            /\ UNCHANGED cpc
       ELSE /\ cpc' = "gaveup"
            /\ UNCHANGED <<retries, acks>>
    /\ UNCHANGED <<child, data, received, resends>>

\* The client stops, with an ERROR packet, with one the child does not know,
\* or with nothing at all.
ClientQuit ==
    /\ cpc = "active"
    /\ cpc' = "gone"
    /\ acks' \in {acks, SendTo(acks, Error(0)), SendTo(acks, Other)}
    /\ UNCHANGED <<child, data, received, retries, resends>>

Client ==
    \/ \E p \in Range(data) :
        ClientStore(p) \/ ClientDuplicate(p) \/ ClientIgnore(p) \/ ClientRefused(p)
    \/ ClientTimeout
    \/ ClientQuit

Lose ==
    /\ \/ data' \in AfterLoss(data) /\ UNCHANGED acks
       \/ acks' \in AfterLoss(acks) /\ UNCHANGED data
    /\ UNCHANGED <<child, client, resends>>

Next == Server \/ Client \/ Lose

\* The child is scheduled, its timer included.  Nothing is assumed of the client
\* or of the network.
Spec == Init /\ [][Next]_vars /\ WF_vars(Server)

\* The client keeps running too.
FairSpec == Spec /\ WF_vars(Client)

-----------------------------------------------------------------------------
(* Properties *)

ServerPackets == [op : {"DATA"}, block : 0..(Wrap - 1), chunk : 1..(N + 1)]
                   \cup {Error(FILE_NOT_FOUND), Other}
ClientPackets == [op : {"ACK"}, block : 0..(Wrap - 1), chunk : {0}]
                   \cup {Error(0), Other}

\* Every variable keeps to the values rrq_handler and its client give it.
TypeOK ==
    /\ pc \in {"start", "send", "wait"} \cup Exits
    /\ mode \in Modes
    /\ block_num \in 0..(Wrap - 1)
    /\ pos \in 0..(N + 1)
    /\ is_EOF \in BOOLEAN
    /\ timeout_counter \in 0..MaxRetry
    /\ data \in Seq(ServerPackets)
    /\ acks \in Seq(ClientPackets)
    /\ cpc \in {"active", "done", "refused", "gaveup", "gone"}
    /\ received \in Seq(1..(N + 1))
    /\ retries \in 0..ClientRetry
    /\ resends \in 0..(N + 1)

\* The client's copy never holds a chunk twice or out of order, whatever the
\* network loses, repeats or reorders: a block number is advanced only when the
\* chunk stored under it was read before every chunk sent under the next.
InOrder == \A i, j \in DOMAIN received : i < j => received[i] < received[j]

\* Server and client stay within one block of each other: the child never moves
\* past a number the client has not stored, and it reports success only when the
\* client has stored the last number it sent.
LockStep ==
    /\ block_num \in {LastBlock, Increment(LastBlock)}
    /\ pc = "ok" => block_num = Increment(LastBlock)

\* The copy lacks at most one chunk for every time the child looped back without
\* an acknowledgement: each loop-back reads on, and so skips one chunk at most.
LossBounded == \A i \in DOMAIN received : received[i] <= i + resends

\* If the child never looped back, success means that the client has the whole
\* file.
CleanTransfer ==
    pc = "ok" /\ resends = 0 => cpc = "done" /\ received = [i \in 1..N |-> i]

\* The child returns from rrq_handler, because its timeouts are counted over the
\* whole transfer and every loop-back takes it nearer to the end of the file.
ChildReturns == <>(pc \in Exits)

\* Over a prompt network without loss the client ends with the whole file unless
\* its user stopped it or the child could not start.
Transferred ==
    <>(\/ cpc = "done" /\ received = [i \in 1..N |-> i]
       \/ cpc \in {"refused", "gone"}
       \/ pc \in {"initfail", "noopen"})

\* The client's copy is a file transfer in the sense of FileTransfer.
Transfer == INSTANCE FileTransfer WITH
    copy    <- received,
    outcome <- CASE cpc = "active" -> "running"
                 [] cpc = "done"   -> "complete"
                 [] OTHER          -> "aborted"

\* What the client gets over a prompt network implements FileTransfer.
ImplementsTransfer == Transfer!Spec

\* lib.c:451 says of a timeout "try to resend": packets in flight under one
\* block number would carry one chunk.
ResendsSameBlock ==
    \A p, q \in Range(data) :
        p.op = "DATA" /\ q.op = "DATA" /\ p.block = q.block => p.chunk = q.chunk
=============================================================================
