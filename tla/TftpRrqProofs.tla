--------------------------- MODULE TftpRrqProofs ---------------------------
(***************************************************************************)
(* Proofs about TftpRrq for every file, every bound and every network.     *)
(***************************************************************************)
EXTENDS TftpRrq, ListProofs

-----------------------------------------------------------------------------
(* The channel *)

\* A packet sent is added to those in flight, or dropped.
LEMMA SentTo ==
    ASSUME NEW S, NEW ch \in Seq(S), NEW m \in S
    PROVE  /\ SendTo(ch, m) \in Seq(S)
           /\ Range(SendTo(ch, m)) \subseteq Range(ch) \cup {m}
<1>1. SendTo(ch, m) = Append(ch, m) \/ SendTo(ch, m) = ch
  BY DEF SendTo
<1>2. QED
  BY <1>1, Putting

\* It is behind all others.
LEMMA SentBehind ==
    ASSUME NEW S, NEW ch \in Seq(S), NEW m \in S
    PROVE  LET new == SendTo(ch, m) IN
           /\ \A i \in 1..Len(new) : new[i] = m \/ (i \in 1..Len(ch) /\ new[i] = ch[i])
           /\ \A i, j \in 1..Len(new) : i < j => i \in 1..Len(ch) /\ new[i] = ch[i]
<1>1. SendTo(ch, m) = Append(ch, m) \/ SendTo(ch, m) = ch
  BY DEF SendTo
<1>2. QED
  BY <1>1, Putting

\* A delivery takes a packet in flight, the first one if there is no reordering, and
\* leaves only packets that were, in their order.
LEMMA Delivered ==
    ASSUME NEW S, NEW ch \in Seq(S), NEW i \in Arrivals(ch),
           NEW left \in AfterArrival(ch, i)
    PROVE  /\ ch[i] \in S /\ ch[i] \in Range(ch) /\ i \in 1..Len(ch)
           /\ left \in Seq(S) /\ Range(left) \subseteq Range(ch)
           /\ Thinned(left, ch)
           /\ ~ Reordering => i = 1
<1>1. i \in DOMAIN ch /\ (~ Reordering => i = 1)
  BY DEF Arrivals
<1>2. left = RemoveAt(ch, i) \/ left = ch
  BY DEF AfterArrival
<1>3. QED
  BY <1>1, <1>2, Taking

\* So does a loss.
LEMMA Dropped ==
    ASSUME NEW S, NEW ch \in Seq(S), NEW left \in AfterLoss(ch)
    PROVE  /\ left \in Seq(S) /\ Range(left) \subseteq Range(ch)
           /\ Thinned(left, ch)
<1>1. PICK i \in DOMAIN ch : left = RemoveAt(ch, i)
  BY DEF AfterLoss
<1>2. QED
  BY <1>1, Taking

-----------------------------------------------------------------------------
(* Packets and numbers *)

\* What the constructors of packets build.
LEMMA PacketTypes ==
    /\ \A n \in 0..(Wrap - 1), c \in 1..(N + 1) : Data(n, c) \in ServerPackets
    /\ \A n \in 0..(Wrap - 1) : Ack(n) \in ClientPackets
    /\ Error(FILE_NOT_FOUND) \in ServerPackets /\ Other \in ServerPackets
    /\ Error(0) \in ClientPackets /\ Other \in ClientPackets
  BY DEF ServerPackets, ClientPackets, Data, Ack, Error, Other, Packet

\* What the fields of packets hold.
LEMMA PacketFields ==
    /\ \A n, c : Data(n, c).op = "DATA" /\ Data(n, c).block = n /\ Data(n, c).chunk = c
    /\ \A n : Ack(n).op = "ACK" /\ Ack(n).block = n
    /\ \A n : Error(n).op = "ERROR"
    /\ Other.op = "OTHER"
    /\ \A p \in ServerPackets : p.op = "DATA" =>
            p.block \in 0..(Wrap - 1) /\ p.chunk \in 1..(N + 1)
    /\ \A p \in ClientPackets : p.op = "ACK" => p.block \in 0..(Wrap - 1)
  BY DEF ServerPackets, ClientPackets, Data, Ack, Error, Other, Packet

\* Block numbers are 16-bit numbers, and the smaller ones stand for themselves.
LEMMA Numbers ==
    /\ \A k \in Nat : k % Wrap \in 0..(Wrap - 1)
    /\ \A k \in 0..(Wrap - 1) : k % Wrap = k
    /\ \A k \in Nat : Increment(k) \in 0..(Wrap - 1)
    /\ \A k \in Nat : k + 1 < Wrap => Increment(k) = k + 1
  BY RrqAssumption DEF Increment

\* Block numbers of chunks that follow each other, across roll-overs too.
LEMMA NumbersFollow ==
    ASSUME NEW k \in Nat
    PROVE  /\ Increment(k % Wrap) = (k + 1) % Wrap
           /\ Increment(k % Wrap) # k % Wrap
<1> DEFINE q == k \div Wrap
           r == k % Wrap
           x == k + 1
           q1 == IF r + 1 < Wrap THEN q ELSE q + 1
           r1 == IF r + 1 < Wrap THEN r + 1 ELSE 0
<1>1. Wrap \in Nat \ {0, 1}
  BY RrqAssumption
<1>2. q \in Nat /\ r \in 0..(Wrap - 1) /\ k = Wrap * q + r
  BY <1>1, Dividing
<1> HIDE DEF q, r
<1>3. x \in Nat /\ q1 \in Nat /\ r1 \in 0..(Wrap - 1)
  BY <1>1, <1>2
<1>4. x = Wrap * q1 + r1
  <2>1. CASE r + 1 < Wrap
    BY <1>1, <1>2, <2>1
  <2>2. CASE ~ (r + 1 < Wrap)
    <3>1. r = Wrap - 1 /\ q1 = q + 1 /\ r1 = 0
      BY <1>1, <1>2, <2>2
    <3>2. Wrap * (q + 1) = Wrap * q + Wrap
      BY <1>1, <1>2
    <3>3. QED
      BY <1>1, <1>2, <3>1, <3>2
  <2>3. QED
    BY <2>1, <2>2
<1>5. Increment(r) = r1
  <2> DEFINE y == r + 1
             q2 == IF r + 1 < Wrap THEN 0 ELSE 1
  <2>1. y \in Nat /\ q2 \in Nat /\ y = Wrap * q2 + r1
    BY <1>1, <1>2
  <2>2. Increment(r) = y % Wrap
    BY DEF Increment
  <2> HIDE DEF y, q2, r1
  <2>3. QED
    BY <2>1, <2>2, <1>1, <1>3, Dividing
<1>6. Increment(r) # r
  BY <1>1, <1>2, <1>5
<1> HIDE DEF x, q1, r1
<1>7. x % Wrap = r1
  BY <1>1, <1>3, <1>4, Dividing
<1>8. QED
  BY <1>5, <1>6, <1>7 DEF r, x

\* Elements of a sequence.
LEMMA Elements ==
    ASSUME NEW S, NEW s \in Seq(S), NEW i \in DOMAIN s
    PROVE  i \in 1..Len(s) /\ i \in Nat /\ s[i] \in S
<1>1. i \in 1..Len(s) /\ i \in Nat
  BY LenProperties
<1>2. QED
  BY <1>1, ElementOfSeq

\* The chunks read_block returns, and those sent as short.
LEMMA Chunks ==
    ASSUME TypeOK, NEW i \in DOMAIN received
    PROVE  i \in 1..Len(received) /\ i \in Nat /\ received[i] \in 1..(N + 1)
<1>1. received \in Seq(1..(N + 1))
  BY DEF TypeOK
<1>2. QED
  BY <1>1, Elements

-----------------------------------------------------------------------------
(* What each kind of step does to the channels *)

\* What a packet received by the child was, and what stays in flight.
LEMMA ServerReceives ==
    ASSUME TypeOK, NEW p, Receive(p)
    PROVE  /\ p \in ClientPackets /\ p \in Range(acks)
           /\ acks' \in Seq(ClientPackets)
           /\ Range(acks') \subseteq Range(acks)
<1>1. acks \in Seq(ClientPackets)
  BY DEF TypeOK
<1>2. PICK i \in Arrivals(acks) : p = acks[i] /\ acks' \in AfterArrival(acks, i)
  BY DEF Receive
<1>3. QED
  BY <1>1, <1>2, Delivered

\* What a packet received by the client was, and what stays in flight.
LEMMA ClientReceives ==
    ASSUME TypeOK, NEW p, ClientReceive(p)
    PROVE  /\ p \in ServerPackets /\ p \in Range(data)
           /\ data' \in Seq(ServerPackets)
           /\ Range(data') \subseteq Range(data)
<1>1. data \in Seq(ServerPackets)
  BY DEF TypeOK
<1>2. PICK i \in Arrivals(data) : p = data[i] /\ data' \in AfterArrival(data, i)
  BY DEF ClientReceive
<1>3. QED
  BY <1>1, <1>2, Delivered

\* A packet sent leaves a channel of packets of its kind.
LEMMA Sending ==
    ASSUME TypeOK
    PROVE  /\ \A m \in ServerPackets : /\ SendTo(data, m) \in Seq(ServerPackets)
                                     /\ Range(SendTo(data, m)) \subseteq Range(data) \cup {m}
           /\ \A m \in ClientPackets : /\ SendTo(acks, m) \in Seq(ClientPackets)
                                     /\ Range(SendTo(acks, m)) \subseteq Range(acks) \cup {m}
  BY SentTo DEF TypeOK

\* A loss leaves channels of the packets they held.
LEMMA NetworkLoses ==
    ASSUME TypeOK, Lose
    PROVE  /\ data' \in Seq(ServerPackets)
           /\ Range(data') \subseteq Range(data)
           /\ acks' \in Seq(ClientPackets)
           /\ Range(acks') \subseteq Range(acks)
<1>1. data \in Seq(ServerPackets) /\ acks \in Seq(ClientPackets)
  BY DEF TypeOK
<1>2. CASE data' \in AfterLoss(data) /\ UNCHANGED acks
  BY <1>1, <1>2, Dropped
<1>3. CASE acks' \in AfterLoss(acks) /\ UNCHANGED data
  BY <1>1, <1>3, Dropped
<1>4. QED
  BY <1>2, <1>3 DEF Lose

-----------------------------------------------------------------------------
(* Type correctness *)

\* TypeOK is not inductive: a timeout is counted only while another may follow.
TypeInv ==
    /\ TypeOK
    /\ pc \in {"start", "send", "wait"} => timeout_counter < MaxRetry

\* The initial states are typed.
LEMMA TypeInit == Init => TypeInv
<1> SUFFICES ASSUME Init PROVE TypeInv
  OBVIOUS
<1>1. data \in Seq(ServerPackets) /\ acks \in Seq(ClientPackets) /\ received \in Seq(1..(N + 1))
  BY EmptySeq DEF Init
<1>2. /\ pc \in {"start", "send", "wait"} \cup Exits
      /\ mode \in Modes /\ cpc = "active" /\ is_EOF \in BOOLEAN
  BY DEF Init
<1>3. /\ block_num \in 0..(Wrap - 1)
      /\ pos \in 0..(N + 1)
      /\ timeout_counter \in 0..MaxRetry /\ timeout_counter < MaxRetry
      /\ retries \in 0..ClientRetry
      /\ resends \in 0..(N + 1)
  BY RrqAssumption DEF Init
<1>4. QED
  BY <1>1, <1>2, <1>3 DEF TypeInv, TypeOK

\* The steps of rrq_handler before its loop keep the types.
LEMMA TypeStart ==
    ASSUME TypeInv, StartOk \/ StartNotFound \/ StartFail
    PROVE  TypeInv'
<1> USE DEF TypeInv, TypeOK, Exits, child, network, client
<1>1. CASE StartOk
  BY <1>1 DEF StartOk
<1>2. CASE StartNotFound
  <2>1. data' \in Seq(ServerPackets)
    BY <1>2, PacketTypes, Sending DEF StartNotFound
  <2>2. QED
    BY <1>2, <2>1 DEF StartNotFound
<1>3. CASE StartFail
  BY <1>3 DEF StartFail
<1>4. QED
  BY <1>1, <1>2, <1>3

\* Reading and sending a chunk keeps the types.
LEMMA TypeSend ==
    ASSUME TypeInv, SendBlock
    PROVE  TypeInv'
<1> USE RrqAssumption DEF TypeInv, TypeOK, Exits, child, network, client
<1>1. pos' \in 0..(N + 1) /\ (Supported => pos' \in 1..(N + 1))
  BY DEF SendBlock, read_block
<1>2. data' \in Seq(ServerPackets)
  <2>1. \E m \in ServerPackets : data' = SendTo(data, m)
    <3>1. CASE Supported
      BY <3>1, <1>1, PacketTypes DEF SendBlock
    <3>2. CASE ~ Supported
      BY <3>2, PacketTypes DEF SendBlock
    <3>3. QED
      BY <3>1, <3>2
  <2>2. QED
    BY <2>1, Sending
<1>3. is_EOF' \in BOOLEAN
  <2>1. CASE Supported
    BY <2>1, <1>1 DEF SendBlock, Short
  <2>2. CASE ~ Supported
    BY <2>2 DEF SendBlock
  <2>3. QED
    BY <2>1, <2>2
<1>4. QED
  BY <1>1, <1>2, <1>3 DEF SendBlock

\* A timeout keeps the types: the counter stops at MAX_RETRY.
LEMMA TypeTimeout ==
    ASSUME TypeInv, Timeout
    PROVE  TypeInv'
  BY RrqAssumption DEF Timeout, GiveUp, CountTimeout, Count,
     TypeInv, TypeOK, Exits, child, network, client

\* Receiving a packet keeps the types.
LEMMA TypeReceive ==
    ASSUME TypeInv, NEW p, ReceiveAck(p) \/ ReceiveError(p) \/ ReceiveOther(p)
    PROVE  TypeInv'
<1> USE RrqAssumption DEF TypeInv, TypeOK, Exits, child, network, client
<1>1. Receive(p)
  BY DEF ReceiveAck, ReceiveError, ReceiveOther
<1>2. acks' \in Seq(ClientPackets)
  BY <1>1, ServerReceives
<1>3. /\ block_num' \in 0..(Wrap - 1)
      /\ resends' \in 0..(N + 1)
      /\ pc' \in {"ok", "send", "peererror"}
  <2>1. CASE ReceiveAck(p)
    BY <2>1, Numbers DEF ReceiveAck
  <2>2. CASE ReceiveError(p)
    BY <2>2 DEF ReceiveError
  <2>3. CASE ReceiveOther(p)
    BY <2>3 DEF ReceiveOther, Count
  <2>4. QED
    BY <2>1, <2>2, <2>3
<1>4. QED
  BY <1>1, <1>2, <1>3 DEF Receive

\* The client's steps keep the types.
LEMMA TypeClient ==
    ASSUME TypeInv, Client
    PROVE  TypeInv'
<1> USE RrqAssumption DEF TypeInv, TypeOK, Exits, child, network, client
<1>0. LastBlock \in 0..(Wrap - 1)
  BY Numbers DEF LastBlock
<1>1. ASSUME NEW p, ClientStore(p)
      PROVE  TypeInv'
  <2>1. ClientReceive(p) /\ p \in ServerPackets /\ p.op = "DATA"
        /\ data' \in Seq(ServerPackets)
    BY <1>1, ClientReceives DEF ClientStore
  <2>2. p.block \in 0..(Wrap - 1) /\ p.chunk \in 1..(N + 1)
    BY <2>1, PacketFields
  <2>3. acks' \in Seq(ClientPackets)
    BY <1>1, <2>2, PacketTypes, Sending DEF ClientStore
  <2>4. received' \in Seq(1..(N + 1))
    BY <1>1, <2>2 DEF ClientStore
  <2>5. QED
    BY <1>1, <2>1, <2>3, <2>4 DEF ClientStore, ClientReceive
<1>2. ASSUME NEW p, ClientDuplicate(p)
      PROVE  TypeInv'
  <2>1. ClientReceive(p) /\ data' \in Seq(ServerPackets)
    BY <1>2, ClientReceives DEF ClientDuplicate
  <2>2. acks' \in Seq(ClientPackets)
    BY <1>0, <1>2, PacketTypes, Sending DEF ClientDuplicate
  <2>3. QED
    BY <1>2, <2>1, <2>2 DEF ClientDuplicate, ClientReceive
<1>3. ASSUME NEW p, ClientIgnore(p) \/ ClientRefused(p)
      PROVE  TypeInv'
  <2>1. ClientReceive(p) /\ data' \in Seq(ServerPackets)
    BY <1>3, ClientReceives DEF ClientIgnore, ClientRefused
  <2>2. QED
    BY <1>3, <2>1 DEF ClientIgnore, ClientRefused, ClientReceive
<1>4. CASE ClientTimeout
  <2>1. acks' \in Seq(ClientPackets)
    BY <1>0, <1>4, PacketTypes, Sending DEF ClientTimeout
  <2>2. QED
    BY <1>4, <2>1 DEF ClientTimeout
<1>5. CASE ClientQuit
  <2>1. acks' \in Seq(ClientPackets)
    BY <1>5, PacketTypes, Sending DEF ClientQuit
  <2>2. QED
    BY <1>5, <2>1 DEF ClientQuit
<1>6. QED
  BY <1>1, <1>2, <1>3, <1>4, <1>5 DEF Client

\* Every step keeps the types.
LEMMA TypeStep == TypeInv /\ [Next]_vars => TypeInv'
<1> SUFFICES ASSUME TypeInv, [Next]_vars PROVE TypeInv'
  OBVIOUS
<1>1. CASE Server
  BY <1>1, TypeStart, TypeSend, TypeTimeout, TypeReceive DEF Server
<1>2. CASE Client
  BY <1>2, TypeClient
<1>3. CASE Lose
  <2>1. data' \in Seq(ServerPackets) /\ acks' \in Seq(ClientPackets)
    BY <1>3, NetworkLoses DEF TypeInv
  <2>2. QED
    BY <1>3, <2>1 DEF Lose, TypeInv, TypeOK, child, client
<1>4. CASE UNCHANGED vars
  BY <1>4 DEF TypeInv, TypeOK, vars, child, network, client,
     ServerPackets, ClientPackets
<1>5. QED
  BY <1>1, <1>2, <1>3, <1>4 DEF Next

\* Every variable of the transfer keeps its type.
THEOREM TypeCorrect == Spec => []TypeOK
<1>1. Spec => []TypeInv
  BY TypeInit, TypeStep, PTL DEF Spec
<1>2. QED
  BY <1>1, PTL DEF TypeInv
-----------------------------------------------------------------------------
(* The safety invariants: over any network, for files whose blocks can be    *)
(* numbered without rolling over; and over networks that keep packets in     *)
(* their order, for every file                                               *)

Fits == N + 1 < Wrap

Sent  == {p \in Range(data) : p.op = "DATA"}
Acked == {p \in Range(acks) : p.op = "ACK"}
Stored == Len(received)
NextBlock == Increment(LastBlock)

\* The block the child is at, counted without rolling over.
Reached == IF block_num = LastBlock THEN Stored ELSE Stored + 1

\* The child is at the block stored last or at the one after it, and reports
\* success only when no packet in flight can be stored any more.
Window ==
    /\ block_num \in {LastBlock, NextBlock}
    /\ pc = "ok" => block_num = NextBlock /\ \A p \in Sent : p.block # NextBlock

\* Packets in flight carry chunks already read; one that the client would store
\* carries a chunk it does not have.
InFlight ==
    \A p \in Sent :
        /\ p.chunk <= pos
        /\ p.block = NextBlock =>
            /\ p.chunk <= Stored + 1 + resends
            /\ cpc = "active" => \A i \in DOMAIN received : received[i] < p.chunk

\* The reads of the child run ahead of its blocks by its loop-backs.
Reads ==
    /\ Reached >= 1
    /\ pc \in {"start", "send"} => pos + 1 <= Reached + resends
    /\ pos <= Reached + resends
    /\ is_EOF => pos >= N

\* The copy is increasing, within what was read, and short of the end until the
\* client is done.
Copy ==
    /\ Stored <= N
    /\ cpc = "active" => Stored < N
    /\ \A i \in DOMAIN received :
        /\ i <= received[i] /\ received[i] <= pos /\ received[i] <= i + resends
        /\ cpc # "done" => received[i] < N
    /\ InOrder

\* Block numbers that do not roll over: only blocks stored are acknowledged, and only
\* blocks reached are sent.
Bounded ==
    /\ \A p \in Acked : p.block <= Stored
    /\ \A p \in Sent : p.block <= block_num

\* Packets that keep their order.  DATA in flight are of the block the child is at, or,
\* before those, of the one stored last.
DataInOrder ==
    /\ \A p \in Sent : p.block \in {LastBlock, block_num}
    /\ \A i, j \in 1..Len(data) :
        i < j /\ data[i].op = "DATA" /\ data[j].op = "DATA" /\ data[i].block = NextBlock =>
            data[j].block = NextBlock

\* ACKs in flight are of the block stored last, or, before those, of the one before it,
\* as long as the child is behind.
AcksInOrder ==
    /\ \A p \in Acked : \/ p.block = LastBlock
                        \/ block_num = LastBlock /\ Increment(p.block) = LastBlock
    /\ \A i, j \in 1..Len(acks) :
        i < j /\ acks[i].op = "ACK" /\ acks[j].op = "ACK" /\ acks[i].block = LastBlock =>
            acks[j].block = LastBlock

Paths ==
    /\ Fits => Bounded
    /\ ~ Reordering => DataInOrder /\ AcksInOrder

SafetyInv == TypeInv /\ Window /\ InFlight /\ Reads /\ Copy /\ Paths /\ CleanTransfer

\* The numbers of the block stored last and of the next one.
LEMMA Advancing ==
    ASSUME TypeOK
    PROVE  /\ Stored \in Nat /\ LastBlock \in 0..(Wrap - 1) /\ NextBlock \in 0..(Wrap - 1)
           /\ LastBlock = Stored % Wrap /\ NextBlock = (Stored + 1) % Wrap
           /\ NextBlock # LastBlock
<1>1. Stored \in Nat
  BY LenProperties DEF TypeOK, Stored
<1>2. LastBlock = Stored % Wrap
  BY DEF LastBlock, Stored
<1>3. NextBlock = (Stored + 1) % Wrap /\ NextBlock # LastBlock
  BY <1>1, <1>2, NumbersFollow DEF NextBlock
<1>4. QED
  BY <1>1, <1>2, <1>3, Numbers

\* Within a file that fits block numbers stand for themselves.
LEMMA SmallNumbers ==
    ASSUME Fits, TypeOK, Copy
    PROVE  /\ Stored \in Nat /\ Stored <= N
           /\ LastBlock = Stored /\ NextBlock = Stored + 1
<1>1. Stored \in Nat /\ Stored <= N /\ Stored \in 0..(Wrap - 1)
  BY Advancing, RrqAssumption DEF Fits, Copy
<1>2. LastBlock = Stored
  BY <1>1, Numbers DEF LastBlock, Stored
<1>3. Increment(Stored) = Stored + 1
  BY <1>1, Numbers, RrqAssumption DEF Fits
<1>4. QED
  BY <1>1, <1>2, <1>3 DEF NextBlock

\* The invariant holds before anything is sent.
LEMMA SafetyInit == Init => SafetyInv
<1> SUFFICES ASSUME Init PROVE SafetyInv
  OBVIOUS
<1>1. TypeInv /\ TypeOK
  BY TypeInit DEF TypeInv
<1>2. /\ Range(data) = {} /\ Range(acks) = {} /\ Stored = 0 /\ DOMAIN received = {}
      /\ Len(data) = 0 /\ Len(acks) = 0
  BY DEF Init, Range, Stored
<1>3. LastBlock = 0 /\ NextBlock = 1 /\ Reached = 1
  <2>1. LastBlock = 0 /\ Increment(0) = 1
    BY <1>1, <1>2, Advancing, Numbers, RrqAssumption
  <2>2. QED
    BY <2>1, <1>2 DEF NextBlock, Reached, Init
<1>4. Window /\ InFlight
  BY <1>2, <1>3 DEF Init, Window, InFlight, Sent
<1>5. Reads
  BY <1>3 DEF Init, Reads
<1>6. Copy
  BY <1>2, RrqAssumption DEF Init, Copy, InOrder
<1>7. Paths
  BY <1>2 DEF Paths, Bounded, DataInOrder, AcksInOrder, Sent, Acked
<1>8. QED
  BY <1>1, <1>4, <1>5, <1>6, <1>7 DEF SafetyInv, CleanTransfer, Init

-----------------------------------------------------------------------------
(* The order of packets *)

\* The packets with opcode op that are left in a channel were in it, in this order.
Kept(left, ch, op) ==
    /\ \A j \in 1..Len(left) : left[j].op = op => \E a \in 1..Len(ch) : left[j] = ch[a]
    /\ \A j, k \in 1..Len(left) : j < k /\ left[j].op = op /\ left[k].op = op =>
            \E a, b \in 1..Len(ch) : a < b /\ left[j] = ch[a] /\ left[k] = ch[b]

\* A packet m is behind the others, or was dropped.
Behind(new, ch, m) ==
    /\ \A i \in 1..Len(new) : new[i] = m \/ (i \in 1..Len(ch) /\ new[i] = ch[i])
    /\ \A i, j \in 1..Len(new) : i < j => i \in 1..Len(ch) /\ new[i] = ch[i]

\* What is thinned keeps all packets in their order; a packet sent keeps the others.
LEMMA Keeping ==
    /\ \A left, ch, op : Thinned(left, ch) => Kept(left, ch, op)
    /\ \A new, ch, m, op : Behind(new, ch, m) /\ m.op # op => Kept(new, ch, op)
<1>1. ASSUME NEW left, NEW ch, NEW op, Thinned(left, ch)
      PROVE  Kept(left, ch, op)
  BY <1>1 DEF Thinned, Kept
<1>2. ASSUME NEW new, NEW ch, NEW m, NEW op, Behind(new, ch, m), m.op # op
      PROVE  Kept(new, ch, op)
  <2>1. \A i \in 1..Len(new) : new[i].op = op => i \in 1..Len(ch) /\ new[i] = ch[i]
    BY <1>2 DEF Behind
  <2>2. QED
    BY <2>1 DEF Kept
<1>3. QED
  BY <1>1, <1>2

\* Sending, with the channels of a transfer.
LEMMA SendingBehind ==
    ASSUME TypeOK
    PROVE  /\ \A m \in ServerPackets : Behind(SendTo(data, m), data, m)
           /\ \A m \in ClientPackets : Behind(SendTo(acks, m), acks, m)
<1>1. data \in Seq(ServerPackets) /\ acks \in Seq(ClientPackets)
  BY DEF TypeOK
<1>2. ASSUME NEW m \in ServerPackets
      PROVE  Behind(SendTo(data, m), data, m)
  BY <1>1, SentBehind DEF Behind
<1>3. ASSUME NEW m \in ClientPackets
      PROVE  Behind(SendTo(acks, m), acks, m)
  BY <1>1, SentBehind DEF Behind
<1>4. QED
  BY <1>2, <1>3

\* Without reordering the first packet is received, and the others keep their order.
LEMMA ReceivesFirst ==
    ASSUME TypeOK, ~ Reordering
    PROVE  /\ \A p : Receive(p) => /\ 1 \in 1..Len(acks) /\ p = acks[1]
                                   /\ Thinned(acks', acks)
           /\ \A p : ClientReceive(p) => /\ 1 \in 1..Len(data) /\ p = data[1]
                                         /\ Thinned(data', data)
<1>1. data \in Seq(ServerPackets) /\ acks \in Seq(ClientPackets)
  BY DEF TypeOK
<1>2. ASSUME NEW p, Receive(p)
      PROVE  1 \in 1..Len(acks) /\ p = acks[1] /\ Thinned(acks', acks)
  <2>1. PICK i \in Arrivals(acks) : p = acks[i] /\ acks' \in AfterArrival(acks, i)
    BY <1>2 DEF Receive
  <2>2. QED
    BY <1>1, <2>1, Delivered
<1>3. ASSUME NEW p, ClientReceive(p)
      PROVE  1 \in 1..Len(data) /\ p = data[1] /\ Thinned(data', data)
  <2>1. PICK i \in Arrivals(data) : p = data[i] /\ data' \in AfterArrival(data, i)
    BY <1>3 DEF ClientReceive
  <2>2. QED
    BY <1>1, <2>1, Delivered
<1>4. QED
  BY <1>2, <1>3

\* Channels that are not used stay as they are.
LEMMA StaysSame ==
    ASSUME TypeOK
    PROVE  /\ data' = data => Thinned(data', data)
           /\ acks' = acks => Thinned(acks', acks)
  BY SameThins DEF TypeOK

\* Packets in flight are at some position.
LEMMA InChannel ==
    ASSUME TypeOK
    PROVE  /\ \A p \in Sent : p.op = "DATA" /\ p \in ServerPackets
                              /\ \E i \in 1..Len(data) : p = data[i]
           /\ \A i \in 1..Len(data) : data[i].op = "DATA" => data[i] \in Sent
           /\ \A p \in Acked : p.op = "ACK" /\ p \in ClientPackets
                               /\ \E i \in 1..Len(acks) : p = acks[i]
           /\ \A i \in 1..Len(acks) : acks[i].op = "ACK" => acks[i] \in Acked
  BY LenProperties DEF TypeOK, Sent, Acked, Range

\* DATA packets that are left keep to their order.
LEMMA DataKept ==
    ASSUME TypeOK, TypeOK', DataInOrder, Kept(data', data, "DATA"),
           LastBlock' = LastBlock, block_num' = block_num
    PROVE  DataInOrder'
<1>1. NextBlock' = NextBlock
  BY DEF NextBlock, Increment
<1>2. \A p \in Sent' : p \in Sent
  <2> SUFFICES ASSUME NEW p \in Sent' PROVE p \in Sent
    OBVIOUS
  <2>1. PICK i \in 1..Len(data') : p = data'[i] /\ p.op = "DATA"
    BY LenProperties DEF TypeOK, Sent, Range
  <2>2. PICK a \in 1..Len(data) : p = data[a]
    BY <2>1 DEF Kept
  <2>3. QED
    BY <2>1, <2>2, InChannel
<1>3. ASSUME NEW i \in 1..Len(data'), NEW j \in 1..Len(data'), i < j,
             data'[i].op = "DATA", data'[j].op = "DATA", data'[i].block = NextBlock
      PROVE  data'[j].block = NextBlock
  <2>1. PICK a \in 1..Len(data), b \in 1..Len(data) :
            a < b /\ data'[i] = data[a] /\ data'[j] = data[b]
    BY <1>3 DEF Kept
  <2>2. QED
    BY <1>3, <2>1 DEF DataInOrder
<1>4. QED
  BY <1>1, <1>2, <1>3 DEF DataInOrder

\* So do ACK packets that are left, or have one of the block stored last behind them.
LEMMA AcksKept ==
    ASSUME TypeOK, TypeOK', AcksInOrder, LastBlock' = LastBlock, block_num' = block_num,
           Kept(acks', acks, "ACK") \/ Behind(acks', acks, Ack(LastBlock))
    PROVE  AcksInOrder'
<1>1. Ack(LastBlock).op = "ACK" /\ Ack(LastBlock).block = LastBlock
  BY PacketFields
<1>2. \A p \in Acked' : p \in Acked \/ p.block = LastBlock
  <2> SUFFICES ASSUME NEW p \in Acked' PROVE p \in Acked \/ p.block = LastBlock
    OBVIOUS
  <2>1. PICK i \in 1..Len(acks') : p = acks'[i] /\ p.op = "ACK"
    BY LenProperties DEF TypeOK, Acked, Range
  <2>2. CASE Kept(acks', acks, "ACK")
    <3>1. PICK a \in 1..Len(acks) : p = acks[a]
      BY <2>1, <2>2 DEF Kept
    <3>2. QED
      BY <2>1, <3>1, InChannel
  <2>3. CASE Behind(acks', acks, Ack(LastBlock))
    BY <2>1, <2>3, <1>1, InChannel DEF Behind
  <2>4. QED
    BY <2>2, <2>3
<1>3. ASSUME NEW i \in 1..Len(acks'), NEW j \in 1..Len(acks'), i < j,
             acks'[i].op = "ACK", acks'[j].op = "ACK", acks'[i].block = LastBlock
      PROVE  acks'[j].block = LastBlock
  <2>1. CASE Kept(acks', acks, "ACK")
    <3>1. PICK a \in 1..Len(acks), b \in 1..Len(acks) :
              a < b /\ acks'[i] = acks[a] /\ acks'[j] = acks[b]
      BY <1>3, <2>1 DEF Kept
    <3>2. QED
      BY <1>3, <3>1 DEF AcksInOrder
  <2>2. CASE Behind(acks', acks, Ack(LastBlock))
    <3>1. i \in 1..Len(acks) /\ acks'[i] = acks[i]
      BY <1>3, <2>2 DEF Behind
    <3>2. acks'[j] = Ack(LastBlock) \/ (j \in 1..Len(acks) /\ acks'[j] = acks[j])
      BY <1>3, <2>2 DEF Behind
    <3>3. QED
      BY <1>1, <1>3, <3>1, <3>2 DEF AcksInOrder
  <2>3. QED
    BY <2>1, <2>2, <1>3
<1>4. QED
  BY <1>2, <1>3 DEF AcksInOrder

\* The acknowledgement that advances the child is of the block stored last, and no
\* packet in flight is of the next one.
LEMMA AckTells ==
    ASSUME Fits \/ ~ Reordering, SafetyInv, NEW p, ReceiveAck(p)
    PROVE  /\ block_num = LastBlock /\ block_num' = NextBlock
           /\ \A q \in Sent : q.block # NextBlock
<1>1. TypeOK /\ Window /\ Copy /\ Paths
  BY DEF SafetyInv, TypeInv
<1>2. Receive(p) /\ p.op = "ACK" /\ p.block = block_num /\ block_num' = Increment(block_num)
  BY DEF ReceiveAck, parse_ack_packet
<1>3. p \in Acked
  BY <1>1, <1>2, ServerReceives DEF Acked
<1>4. block_num = LastBlock
  <2>1. CASE Fits
    BY <1>1, <1>2, <1>3, <2>1, SmallNumbers DEF Paths, Bounded, Window
  <2>2. CASE ~ Reordering
    BY <1>1, <1>2, <1>3, <2>2, Advancing DEF Paths, AcksInOrder, Window
  <2>3. QED
    BY <2>1, <2>2
<1>5. ASSUME NEW q \in Sent
      PROVE  q.block # NextBlock
  <2>1. q.block \in 0..(Wrap - 1)
    BY <1>1, InChannel, PacketFields
  <2>2. CASE Fits
    BY <1>1, <1>4, <2>1, <2>2, SmallNumbers, RrqAssumption DEF Paths, Bounded
  <2>3. CASE ~ Reordering
    BY <1>1, <1>4, <2>3, Advancing DEF Paths, DataInOrder
  <2>4. QED
    BY <2>2, <2>3
<1>6. QED
  BY <1>2, <1>4, <1>5 DEF NextBlock

\* The number of blocks stored grows by one with a chunk.
LEMMA Storing ==
    ASSUME TypeOK, NEW p, ClientStore(p)
    PROVE  /\ p \in Sent /\ p.op = "DATA" /\ p.block = NextBlock /\ p.chunk \in 1..(N + 1)
           /\ received \in Seq(1..(N + 1)) /\ Stored' = Stored + 1
           /\ LastBlock' = NextBlock /\ NextBlock' = Increment(NextBlock)
           /\ Sent' \subseteq Sent
<1>1. /\ ClientReceive(p) /\ p.op = "DATA" /\ p.block = NextBlock
      /\ received' = Append(received, p.chunk)
  BY DEF ClientStore, NextBlock
<1>2. p \in ServerPackets /\ p \in Sent /\ Sent' \subseteq Sent
  BY <1>1, ClientReceives DEF Sent
<1>3. received \in Seq(1..(N + 1)) /\ p.chunk \in 1..(N + 1)
  BY <1>1, <1>2, PacketFields DEF TypeOK
<1>4. Len(received') = Len(received) + 1
  BY <1>1, <1>3, AppendProperties
<1>5. LastBlock' = NextBlock
  BY <1>4, Advancing DEF LastBlock, Stored
<1>6. QED
  BY <1>1, <1>2, <1>3, <1>4, <1>5 DEF Stored, NextBlock, Increment

\* The child is at the block the client stores, and no packet left in flight is of
\* the one after it.
LEMMA StoreTells ==
    ASSUME Fits \/ ~ Reordering, SafetyInv, TypeOK', NEW p, ClientStore(p)
    PROVE  /\ block_num = NextBlock /\ pc # "ok"
           /\ block_num' = LastBlock'
           /\ \A q \in Sent' : q.block # NextBlock'
<1>1. TypeOK /\ Window /\ Copy /\ Paths
  BY DEF SafetyInv, TypeInv
<1>2. /\ p \in Sent /\ p.op = "DATA" /\ p.block = NextBlock
      /\ LastBlock' = NextBlock /\ NextBlock' = Increment(NextBlock) /\ Sent' \subseteq Sent
  BY <1>1, Storing
<1>3. ClientReceive(p) /\ block_num' = block_num /\ cpc = "active"
  BY DEF ClientStore, ClientReceive, child
<1>4. block_num = NextBlock
  <2>1. CASE Fits
    BY <1>1, <1>2, <2>1, SmallNumbers DEF Paths, Bounded, Window
  <2>2. CASE ~ Reordering
    BY <1>1, <1>2, <2>2, Advancing DEF Paths, DataInOrder, Window
  <2>3. QED
    BY <2>1, <2>2
<1>5. ASSUME NEW q \in Sent'
      PROVE  q.block # NextBlock'
  <2>1. q \in Sent /\ q.block \in 0..(Wrap - 1)
    BY <1>1, <1>2, InChannel, PacketFields
  <2>2. CASE Fits
    <3>1. NextBlock = Stored + 1 /\ Stored < N
      BY <1>1, <1>3, <2>2, SmallNumbers DEF Copy
    <3>2. NextBlock' = Stored + 2
      BY <1>1, <1>2, <2>2, <3>1, Advancing, Numbers, RrqAssumption DEF Fits
    <3>3. QED
      BY <1>1, <1>4, <2>1, <2>2, <3>1, <3>2, Advancing DEF Paths, Bounded
  <2>3. CASE ~ Reordering
    <3>1. q.block = NextBlock
      <4>1. 1 \in 1..Len(data) /\ p = data[1] /\ Thinned(data', data)
        BY <1>1, <1>3, <2>3, ReceivesFirst
      <4>2. PICK j \in 1..Len(data) : q = data[j]
        BY <1>1, <2>1, InChannel
      <4>3. q.op = "DATA"
        BY <2>1 DEF Sent
      <4>4. j \in Nat /\ (j = 1 \/ 1 < j)
        BY <4>2
      <4>5. QED
        BY <1>1, <1>2, <2>3, <4>1, <4>2, <4>3, <4>4 DEF Paths, DataInOrder
    <3>2. NextBlock' # LastBlock'
      <4>1. \A k \in Nat : Increment(k % Wrap) # k % Wrap
        BY NumbersFollow
      <4>2. QED
        BY <1>1, <1>2, <4>1, Advancing
    <3>3. QED
      BY <1>2, <3>1, <3>2
  <2>4. QED
    BY <2>2, <2>3
<1>6. QED
  BY <1>1, <1>2, <1>3, <1>4, <1>5 DEF Window

\* Storing a chunk keeps the packets in order: what was acknowledged is of the block before
\* it, and its own acknowledgement is the last.
LEMMA StorePaths ==
    ASSUME Fits \/ ~ Reordering, SafetyInv, TypeOK', NEW p, ClientStore(p)
    PROVE  Paths'
<1>1. TypeOK /\ Paths /\ Copy /\ Stored \in Nat
  BY Advancing DEF SafetyInv, TypeInv
<1>2. /\ p \in Sent /\ p.op = "DATA" /\ p.block = NextBlock /\ Stored' = Stored + 1
      /\ LastBlock' = NextBlock /\ NextBlock' = Increment(NextBlock) /\ Sent' \subseteq Sent
  BY <1>1, Storing
<1>3. /\ block_num = NextBlock /\ block_num' = LastBlock' /\ NextBlock # LastBlock
      /\ \A q \in Sent' : q.block # NextBlock'
  BY <1>1, StoreTells, Advancing
<1>4. /\ ClientReceive(p) /\ acks' = SendTo(acks, Ack(NextBlock)) /\ block_num' = block_num
      /\ cpc = "active"
  BY <1>2 DEF ClientStore, ClientReceive, child
<1>5. /\ Ack(NextBlock) \in ClientPackets
      /\ Ack(NextBlock).op = "ACK" /\ Ack(NextBlock).block = NextBlock
  BY <1>1, Advancing, PacketTypes, PacketFields
<1>6. \A q \in Acked' : q \in Acked \/ q.block = NextBlock
  BY <1>1, <1>4, <1>5, Sending DEF Acked
<1>7. Fits => Bounded'
  <2> SUFFICES ASSUME Fits PROVE Bounded'
    OBVIOUS
  <2>1. LastBlock = Stored /\ NextBlock = Stored + 1
    BY <1>1, SmallNumbers
  <2>2. ASSUME NEW q \in Acked'
        PROVE  q.block <= Stored + 1
    <3>1. CASE q \in Acked
      <4>1. q.block \in 0..(Wrap - 1) /\ q.block <= Stored
        BY <1>1, <3>1, InChannel, PacketFields DEF Paths, Bounded
      <4>2. QED
        BY <4>1, <1>1, RrqAssumption
    <3>2. QED
      BY <1>1, <1>6, <2>1, <3>1
  <2>3. QED
    BY <1>1, <1>2, <1>4, <2>2 DEF Paths, Bounded
<1>8. ~ Reordering => DataInOrder'
  <2> SUFFICES ASSUME ~ Reordering PROVE DataInOrder'
    OBVIOUS
  <2>1. 1 \in 1..Len(data) /\ p = data[1]
    BY <1>1, <1>4, ReceivesFirst
  <2>2. ASSUME NEW q \in Sent'
        PROVE  q.block = NextBlock
    <3>1. PICK j \in 1..Len(data) : q = data[j] /\ q.op = "DATA"
      BY <1>1, <1>2, InChannel
    <3>2. j \in Nat /\ (j = 1 \/ 1 < j)
      BY <3>1
    <3>3. QED
      BY <1>1, <1>2, <2>1, <3>1, <3>2 DEF Paths, DataInOrder
  <2>3. \A i \in 1..Len(data') : data'[i].op = "DATA" => data'[i] \in Sent'
    BY LenProperties DEF Sent, Range, TypeOK
  <2>4. QED
    BY <1>2, <1>3, <2>2, <2>3 DEF DataInOrder
<1>9. ~ Reordering => AcksInOrder'
  <2> SUFFICES ASSUME ~ Reordering PROVE AcksInOrder'
    OBVIOUS
  <2>1. \A q \in Acked : q.block = LastBlock
    BY <1>1, <1>3 DEF Paths, AcksInOrder
  <2>2. \A q \in Acked' : q.block = LastBlock' \/ Increment(q.block) = LastBlock'
    BY <1>2, <1>6, <2>1 DEF NextBlock
  <2>3. Behind(acks', acks, Ack(NextBlock))
    BY <1>1, <1>4, <1>5, SendingBehind
  <2>4. ASSUME NEW i \in 1..Len(acks'), NEW j \in 1..Len(acks'), i < j,
               acks'[i].op = "ACK", acks'[i].block = NextBlock
        PROVE  FALSE
    <3>1. i \in 1..Len(acks) /\ acks'[i] = acks[i]
      BY <2>3, <2>4 DEF Behind
    <3>2. acks[i] \in Acked
      BY <1>1, <2>4, <3>1, InChannel
    <3>3. QED
      BY <1>3, <2>1, <2>4, <3>1, <3>2
  <2>5. /\ \A q \in Acked' : \/ q.block = LastBlock'
                             \/ block_num' = LastBlock' /\ Increment(q.block) = LastBlock'
    BY <1>3, <2>2
  <2>6. \A i, j \in 1..Len(acks') :
            i < j /\ acks'[i].op = "ACK" /\ acks'[j].op = "ACK"
                  /\ acks'[i].block = LastBlock' => acks'[j].block = LastBlock'
    BY <1>2, <2>4
  <2>7. QED
    BY <2>5, <2>6 DEF AcksInOrder, Increment
<1>10. QED
  BY <1>7, <1>8, <1>9 DEF Paths

-----------------------------------------------------------------------------
(* The steps *)

\* Most steps read no chunk, advance no number and store nothing.
Quiet ==
    /\ UNCHANGED <<block_num, pos, is_EOF, received>>
    /\ \A p \in Range(data') : p.op = "DATA" => p \in Range(data)
    /\ \A p \in Range(acks') : p.op = "ACK" => p \in Range(acks) \/ p.block = LastBlock
    /\ ~ Reordering =>
        /\ Kept(data', data, "DATA")
        /\ Kept(acks', acks, "ACK") \/ Behind(acks', acks, Ack(LastBlock))
    /\ \/ /\ UNCHANGED resends
          /\ pc' = pc \/ (pc = "start" /\ pc' = "send") \/ pc' \in Exits \ {"ok"}
       \/ /\ pc = "wait" /\ pc' = "send"
          /\ resends' = Count(resends)
    /\ cpc' = cpc \/ (cpc = "active" /\ cpc' \notin {"active", "done"})

\* A quiet step keeps the invariant.
LEMMA QuietSafe ==
    ASSUME SafetyInv, TypeInv', Quiet
    PROVE  SafetyInv'
<1> USE DEF Quiet
<1>1. /\ resends \in 0..(N + 1) /\ resends' \in Nat /\ resends' >= resends
      /\ pos \in 0..(N + 1) /\ block_num \in Nat
      /\ received \in Seq(1..(N + 1)) /\ TypeOK /\ TypeOK' /\ Stored \in Nat
      /\ data \in Seq(ServerPackets) /\ acks \in Seq(ClientPackets)
  BY RrqAssumption, Advancing DEF SafetyInv, TypeInv, TypeOK, Count
<1>2. /\ Stored' = Stored /\ Sent' \subseteq Sent
      /\ \A p \in Acked' : p \in Acked \/ p.block = LastBlock
      /\ LastBlock' = LastBlock /\ NextBlock' = NextBlock /\ Reached' = Reached
  BY DEF Stored, Sent, Acked, LastBlock, NextBlock, Increment, Reached
<1>3. pc' = "ok" => pc = "ok" /\ resends' = resends
  BY DEF Exits
<1>4. Window'
  BY <1>2, <1>3 DEF SafetyInv, Window
<1>5. Paths'
  <2>1. Fits => Bounded'
    <3> SUFFICES ASSUME Fits PROVE Bounded'
      OBVIOUS
    <3>1. LastBlock = Stored /\ Bounded
      BY <1>1, SmallNumbers DEF SafetyInv, Paths
    <3>2. QED
      BY <1>1, <1>2, <3>1 DEF Bounded
  <2>2. ~ Reordering => DataInOrder' /\ AcksInOrder'
    <3> SUFFICES ASSUME ~ Reordering PROVE DataInOrder' /\ AcksInOrder'
      OBVIOUS
    <3>1. DataInOrder /\ AcksInOrder
      BY DEF SafetyInv, Paths
    <3>2. DataInOrder'
      BY <1>1, <1>2, <3>1, DataKept
    <3>3. AcksInOrder'
      BY <1>1, <1>2, <3>1, AcksKept
    <3>4. QED
      BY <3>2, <3>3
  <2>3. QED
    BY <2>1, <2>2 DEF Paths
<1>6. InFlight'
  <2> SUFFICES ASSUME NEW p \in Sent'
               PROVE  /\ p.chunk <= pos
                      /\ p.block = NextBlock =>
                           /\ p.chunk <= Stored + 1 + resends'
                           /\ cpc' = "active" =>
                                \A i \in DOMAIN received : received[i] < p.chunk
    BY <1>2 DEF InFlight
  <2>1. p \in Sent /\ p \in ServerPackets /\ p.op = "DATA"
    BY <1>1, <1>2 DEF Sent, Range
  <2>2. p.chunk \in Nat /\ p.block \in Nat
    BY <2>1, PacketFields, RrqAssumption
  <2>3. QED
    BY <1>1, <2>1, <2>2 DEF SafetyInv, InFlight
<1>7. Reads'
  <2>1. /\ pc \in {"start", "send"} => pos + 1 <= Reached + resends
        /\ pos <= Reached + resends /\ Reached \in Nat /\ Reached >= 1
        /\ is_EOF => pos >= N
    BY <1>1 DEF SafetyInv, Reads, Reached
  <2>2. CASE UNCHANGED resends /\ (pc' = pc \/ (pc = "start" /\ pc' = "send") \/ pc' \in Exits)
    BY <1>1, <1>2, <2>1, <2>2 DEF Reads, Exits
  <2>3. CASE pc = "wait" /\ pc' = "send" /\ resends' = Count(resends)
    <3>1. pos + 1 <= Reached + resends'
      BY <1>1, <2>1, <2>3, RrqAssumption DEF Count
    <3>2. QED
      BY <1>1, <1>2, <2>1, <2>3, <3>1 DEF Reads
  <2>4. QED
    BY <2>2, <2>3
<1>8. Copy'
  <2>1. Copy /\ InOrder'
    BY DEF SafetyInv, Copy, InOrder
  <2>2. ASSUME NEW i \in DOMAIN received
        PROVE  /\ i <= received[i] /\ received[i] <= pos /\ received[i] <= i + resends'
               /\ cpc' # "done" => received[i] < N
    <3>1. i \in Nat /\ received[i] \in 1..(N + 1)
      BY Chunks DEF SafetyInv, TypeInv
    <3>2. /\ i <= received[i] /\ received[i] <= pos /\ received[i] <= i + resends
          /\ cpc # "done" => received[i] < N
      BY <2>1 DEF Copy
    <3>3. received[i] <= i + resends'
      BY <1>1, <3>1, <3>2, RrqAssumption
    <3>4. QED
      BY <3>2, <3>3
  <2>3. QED
    BY <1>2, <2>1, <2>2 DEF Copy
<1>9. CleanTransfer'
  BY <1>3 DEF SafetyInv, CleanTransfer
<1>10. QED
  BY <1>4, <1>5, <1>6, <1>7, <1>8, <1>9 DEF SafetyInv

\* What SendBlock sends is behind the packets in flight.
LEMMA DataSent ==
    ASSUME SafetyInv, TypeOK', SendBlock, DataInOrder
    PROVE  DataInOrder'
<1>1. TypeOK /\ Window
  BY DEF SafetyInv, TypeInv
<1>2. UNCHANGED <<block_num, received>>
  BY DEF SendBlock, client
<1>3. LastBlock' = LastBlock /\ NextBlock' = NextBlock
  BY <1>2 DEF LastBlock, NextBlock, Increment
<1>4. PICK m \in ServerPackets : /\ data' = SendTo(data, m)
                                 /\ m.op # "DATA" \/ m.block = block_num
  <2>1. CASE Supported
    <3>1. pos' \in 1..(N + 1) /\ block_num \in 0..(Wrap - 1)
      BY <1>1, <2>1, RrqAssumption DEF SendBlock, read_block, TypeOK
    <3>2. Data(block_num, pos') \in ServerPackets
      BY <3>1, PacketTypes
    <3>3. QED
      BY <2>1, <3>2, PacketFields DEF SendBlock
  <2>2. CASE ~ Supported
    BY <2>2, PacketTypes, PacketFields DEF SendBlock
  <2>3. QED
    BY <2>1, <2>2
<1>5. Behind(data', data, m)
  BY <1>1, <1>4, SendingBehind
<1>6. CASE m.op # "DATA"
  BY <1>1, <1>2, <1>3, <1>5, <1>6, Keeping, DataKept
<1>7. CASE m.op = "DATA" /\ m.block = block_num
  <2>1. \A p \in Sent' : p \in Sent \/ p.block = block_num
    BY <1>1, <1>4, <1>7, Sending DEF Sent
  <2>2. ASSUME NEW i \in 1..Len(data'), NEW j \in 1..Len(data'), i < j,
               data'[i].op = "DATA", data'[j].op = "DATA", data'[i].block = NextBlock
        PROVE  data'[j].block = NextBlock
    <3>1. i \in 1..Len(data) /\ data'[i] = data[i]
      BY <1>5, <2>2 DEF Behind
    <3>2. block_num = NextBlock
      <4>1. data[i] \in Sent
        BY <1>1, <2>2, <3>1, InChannel
      <4>2. QED
        BY <1>1, <2>2, <3>1, <4>1, Advancing DEF DataInOrder
    <3>3. data'[j] = m \/ (j \in 1..Len(data) /\ data'[j] = data[j])
      BY <1>5, <2>2 DEF Behind
    <3>4. QED
      BY <1>7, <2>2, <3>1, <3>2, <3>3 DEF DataInOrder
  <2>3. QED
    BY <1>2, <1>3, <2>1, <2>2 DEF DataInOrder
<1>8. QED
  BY <1>4, <1>6, <1>7

\* Reading on and sending the chunk as block_num.
LEMMA SendSafe ==
    ASSUME SafetyInv, TypeInv', SendBlock
    PROVE  SafetyInv'
<1>1. /\ resends \in 0..(N + 1) /\ pos \in 0..(N + 1) /\ pos' \in 0..(N + 1)
      /\ block_num \in 0..(Wrap - 1)
      /\ received \in Seq(1..(N + 1))
      /\ data \in Seq(ServerPackets) /\ TypeOK /\ TypeOK'
  BY DEF SafetyInv, TypeInv, TypeOK
<1>2. UNCHANGED <<block_num, resends, received, acks, cpc>> /\ pc = "send" /\ pc' = "wait"
  BY DEF SendBlock, client
<1>3. /\ Stored' = Stored /\ Acked' = Acked
      /\ LastBlock' = LastBlock /\ NextBlock' = NextBlock /\ Reached' = Reached
      /\ Window /\ Paths /\ Copy /\ Reads /\ InFlight
  BY <1>2 DEF Stored, Acked, LastBlock, NextBlock, Increment, Reached, SafetyInv
<1>4. Stored \in Nat /\ Reached \in Nat /\ (block_num = NextBlock => Reached = Stored + 1)
  BY <1>1, Advancing DEF Reached
<1>5. /\ pos' >= pos /\ pos' <= pos + 1
      /\ Supported => pos' \in 1..(N + 1) /\ (pos' = pos + 1 \/ pos' = N + 1)
  BY <1>1, RrqAssumption DEF SendBlock, read_block
<1>6. \A p \in Sent' : p \in Sent \/ (Supported /\ p = Data(block_num, pos'))
  <2>1. CASE Supported
    <3>1. Data(block_num, pos') \in ServerPackets
      BY <2>1, <1>1, <1>5, PacketTypes
    <3>2. Range(data') \subseteq Range(data) \cup {Data(block_num, pos')}
      BY <2>1, <3>1, <1>1, Sending DEF SendBlock
    <3>3. QED
      BY <2>1, <3>2 DEF Sent
  <2>2. CASE ~ Supported
    <3>1. Range(data') \subseteq Range(data) \cup {Other} /\ Other.op # "DATA"
      BY <2>2, <1>1, Sending, PacketTypes, PacketFields DEF SendBlock
    <3>2. QED
      BY <3>1 DEF Sent
  <2>3. QED
    BY <2>1, <2>2
<1>7. Window'
  BY <1>2, <1>3 DEF Window
<1>8. pos' <= Reached + resends
  BY <1>1, <1>2, <1>3, <1>4, <1>5, RrqAssumption DEF Reads
<1>9. InFlight'
  <2> SUFFICES ASSUME NEW p \in Sent'
               PROVE  /\ p.chunk <= pos'
                      /\ p.block = NextBlock =>
                           /\ p.chunk <= Stored + 1 + resends
                           /\ cpc = "active" =>
                                \A i \in DOMAIN received : received[i] < p.chunk
    BY <1>2, <1>3 DEF InFlight
  <2>1. CASE p \in Sent
    <3>1. p \in ServerPackets /\ p.op = "DATA"
      BY <2>1, <1>1, Elements DEF Sent, Range
    <3>2. p.chunk \in Nat
      BY <3>1, PacketFields, RrqAssumption
    <3>3. /\ p.chunk <= pos
          /\ p.block = NextBlock =>
               /\ p.chunk <= Stored + 1 + resends
               /\ cpc = "active" =>
                    \A i \in DOMAIN received : received[i] < p.chunk
      BY <2>1, <1>3 DEF InFlight
    <3>4. p.chunk <= pos'
      BY <3>2, <3>3, <1>1, <1>5, RrqAssumption
    <3>5. QED
      BY <3>3, <3>4
  <2>2. CASE Supported /\ p = Data(block_num, pos')
    <3>1. p.block = block_num /\ p.chunk = pos'
      BY <2>2, PacketFields
    <3>2. ASSUME cpc = "active", NEW i \in DOMAIN received
          PROVE  received[i] < pos'
      <4>1. received[i] \in 1..(N + 1) /\ received[i] <= pos /\ received[i] < N
        BY <3>2, <1>1, <1>3, Chunks DEF Copy
      <4>2. QED
        BY <4>1, <2>2, <1>1, <1>5, RrqAssumption
    <3>3. QED
      BY <3>1, <3>2, <1>4, <1>8, <1>1, RrqAssumption
  <2>3. QED
    BY <2>1, <2>2, <1>6
<1>10. Reads'
  <2>1. CASE Supported
    BY <2>1, <1>2, <1>3, <1>8 DEF Reads, SendBlock, Short
  <2>2. CASE ~ Supported
    BY <2>2, <1>2, <1>3, <1>8 DEF Reads, SendBlock
  <2>3. QED
    BY <2>1, <2>2
<1>11. Copy'
  <2>1. ASSUME NEW i \in DOMAIN received
        PROVE  received[i] <= pos'
    <3>1. received[i] \in 1..(N + 1) /\ received[i] <= pos
      BY <1>1, <1>3, Chunks DEF Copy
    <3>2. QED
      BY <3>1, <1>1, <1>5, RrqAssumption
  <2>2. QED
    BY <2>1, <1>2, <1>3 DEF Copy, InOrder
<1>12. CleanTransfer'
  BY <1>2 DEF CleanTransfer
<1>13. Paths'
  <2>1. Fits => Bounded'
    <3> SUFFICES ASSUME Fits PROVE Bounded'
      OBVIOUS
    <3>1. \A p \in Sent' : p \in Sent \/ p.block = block_num
      BY <1>6, PacketFields
    <3>2. QED
      BY <3>1, <1>1, <1>2, <1>3 DEF Paths, Bounded
  <2>2. ~ Reordering => AcksInOrder'
    BY <1>2, <1>3 DEF Paths, AcksInOrder, Increment
  <2>3. ~ Reordering => DataInOrder'
    BY <1>1, <1>2, <1>3, DataSent DEF Paths, SafetyInv
  <2>4. QED
    BY <2>1, <2>2, <2>3 DEF Paths
<1>14. QED
  BY <1>7, <1>9, <1>10, <1>11, <1>12, <1>13 DEF SafetyInv

\* The acknowledgement of block_num: advance, and return after the last block.
LEMMA AckSafe ==
    ASSUME Fits \/ ~ Reordering, SafetyInv, TypeInv', NEW p, ReceiveAck(p)
    PROVE  SafetyInv'
<1>1. /\ resends \in 0..(N + 1) /\ pos \in 0..(N + 1) /\ TypeOK /\ TypeOK'
      /\ received \in Seq(1..(N + 1)) /\ data \in Seq(ServerPackets) /\ Stored \in Nat
  BY Advancing DEF SafetyInv, TypeInv, TypeOK
<1>2. Receive(p) /\ p.op = "ACK" /\ p.block = block_num /\ pc = "wait"
      /\ UNCHANGED <<pos, is_EOF, data, cpc, received, resends>>
      /\ pc' = IF is_EOF THEN "ok" ELSE "send"
  BY DEF ReceiveAck, Receive, parse_ack_packet, client
<1>3. /\ Stored' = Stored /\ Sent' = Sent /\ LastBlock' = LastBlock /\ NextBlock' = NextBlock
      /\ Window /\ Paths /\ Copy /\ Reads /\ InFlight
  BY <1>2 DEF Stored, Sent, LastBlock, NextBlock, Increment, SafetyInv
<1>4. /\ block_num = LastBlock /\ block_num' = NextBlock
      /\ \A q \in Sent : q.block # NextBlock
  BY AckTells
<1>5. NextBlock # LastBlock /\ Reached = Stored /\ Reached' = Stored + 1
  BY <1>1, <1>3, <1>4, Advancing DEF Reached
<1>6. Window'
  BY <1>3, <1>4 DEF Window
<1>7. Paths'
  <2>1. p \in Range(acks) /\ Range(acks') \subseteq Range(acks) /\ Acked' \subseteq Acked
    BY <1>1, <1>2, ServerReceives DEF Acked
  <2>2. Fits => Bounded'
    <3> SUFFICES ASSUME Fits PROVE Bounded'
      OBVIOUS
    <3>1. LastBlock = Stored /\ NextBlock = Stored + 1
      BY <1>1, <1>3, SmallNumbers
    <3>2. ASSUME NEW q \in Sent
          PROVE  q.block <= block_num'
      <4>1. q.block \in 0..(Wrap - 1) /\ q.block <= block_num
        BY <1>1, <1>3, InChannel, PacketFields DEF Paths, Bounded
      <4>2. QED
        BY <4>1, <3>1, <1>1, <1>4, RrqAssumption
    <3>3. QED
      BY <1>3, <2>1, <3>2 DEF Paths, Bounded
  <2>3. ~ Reordering => DataInOrder'
    BY <1>2, <1>3, <1>4, <1>1, InChannel DEF Paths, DataInOrder
  <2>4. ~ Reordering => AcksInOrder'
    <3> SUFFICES ASSUME ~ Reordering PROVE AcksInOrder'
      OBVIOUS
    <3>1. AcksInOrder
      BY <1>3 DEF Paths
    <3>2. 1 \in 1..Len(acks) /\ p = acks[1]
      BY <1>1, <1>2, ReceivesFirst
    <3>3. ASSUME NEW q \in Acked
          PROVE  q.block = LastBlock
      <4>1. PICK j \in 1..Len(acks) : q = acks[j] /\ q.op = "ACK"
        BY <1>1, InChannel
      <4>2. j \in Nat /\ (j = 1 \/ 1 < j)
        BY <4>1
      <4>3. QED
        BY <1>2, <1>4, <3>1, <3>2, <4>1, <4>2 DEF AcksInOrder
    <3>4. \A i \in 1..Len(acks') : acks'[i].op = "ACK" => acks'[i] \in Acked'
      BY <1>1, LenProperties DEF Acked, Range, TypeOK
    <3>5. QED
      BY <1>3, <2>1, <3>3, <3>4 DEF AcksInOrder
  <2>5. QED
    BY <2>2, <2>3, <2>4 DEF Paths
<1>8. InFlight'
  BY <1>2, <1>3, <1>4 DEF InFlight
<1>9. Reads'
  <2>1. pc' = "send" => pos <= Stored + resends
    BY <1>3, <1>5 DEF Reads
  <2>2. QED
    BY <1>1, <1>2, <1>3, <1>5, RrqAssumption DEF Reads
<1>10. Copy'
  BY <1>2, <1>3 DEF Copy, InOrder
<1>11. CleanTransfer'
  <2> SUFFICES ASSUME is_EOF, resends = 0
               PROVE  cpc = "done" /\ received = [i \in 1..N |-> i]
    BY <1>2 DEF CleanTransfer
  <2>1. Stored = N /\ pos = N
    BY <1>1, <1>3, <1>5, RrqAssumption DEF Reads, Copy
  <2>2. DOMAIN received = 1..N
    BY <1>1, <2>1, LenProperties DEF Stored
  <2>3. ASSUME NEW i \in 1..N
        PROVE  received[i] = i
    <3>1. i <= received[i] /\ received[i] <= i + resends /\ received[i] \in 1..(N + 1)
      BY <1>1, <1>3, <2>2, Chunks DEF Copy
    <3>2. QED
      BY <3>1, RrqAssumption
  <2>4. received = [i \in 1..N |-> i]
    BY <1>1, <2>2, <2>3
  <2>5. cpc = "done"
    <3>1. N \in DOMAIN received /\ received[N] = N
      BY <2>2, <2>3, RrqAssumption
    <3>2. QED
      BY <1>3, <3>1, RrqAssumption DEF Copy
  <2>6. QED
    BY <2>4, <2>5
<1>12. QED
  BY <1>6, <1>7, <1>8, <1>9, <1>10, <1>11 DEF SafetyInv

\* The client stores the packet p.
LEMMA StoreSafe ==
    ASSUME Fits \/ ~ Reordering, SafetyInv, TypeInv', NEW p, ClientStore(p)
    PROVE  SafetyInv'
<1> DEFINE c == p.chunk
<1>1. /\ resends \in 0..(N + 1) /\ pos \in 0..(N + 1) /\ TypeOK /\ TypeOK'
      /\ received \in Seq(1..(N + 1)) /\ data \in Seq(ServerPackets)
      /\ Stored \in Nat
  BY Advancing DEF SafetyInv, TypeInv, TypeOK
<1>2. /\ ClientReceive(p)
      /\ received' = Append(received, c)
      /\ acks' = SendTo(acks, Ack(p.block))
      /\ cpc = "active" /\ cpc' = IF Short(c) THEN "done" ELSE "active"
      /\ UNCHANGED <<pc, block_num, pos, is_EOF, resends>>
  BY DEF ClientStore, ClientReceive, child
<1>3. Window /\ Paths /\ Copy /\ Reads /\ InFlight
  BY DEF SafetyInv
<1>4. /\ p \in Sent /\ p.op = "DATA" /\ p.block = NextBlock /\ c \in 1..(N + 1)
      /\ Stored' = Stored + 1 /\ LastBlock' = NextBlock /\ NextBlock' = Increment(NextBlock)
      /\ Sent' \subseteq Sent
  BY <1>1, Storing
<1>5. /\ block_num = NextBlock /\ pc # "ok" /\ block_num' = LastBlock'
      /\ \A q \in Sent' : q.block # NextBlock'
  BY <1>1, StoreTells
<1>6. Stored < N /\ NextBlock # LastBlock /\ Reached = Stored + 1 /\ Reached' = Stored + 1
  BY <1>1, <1>2, <1>3, <1>4, <1>5, Advancing DEF Copy, Reached
<1>7. /\ DOMAIN received = 1..Stored /\ DOMAIN received' = 1..(Stored + 1)
      /\ \A i \in 1..Stored : received'[i] = received[i]
      /\ received'[Stored + 1] = c
  BY <1>1, <1>2, <1>4, AppendProperties, LenProperties DEF Stored
<1>8. /\ c <= pos /\ c <= Stored + 1 + resends
      /\ \A i \in 1..Stored : received[i] < c
  BY <1>2, <1>3, <1>4, <1>7 DEF InFlight
<1>9. Window'
  BY <1>2, <1>5 DEF Window
<1>10. Paths'
  BY <1>1, <1>4, <1>5, <1>6, StorePaths DEF SafetyInv
<1>11. InFlight'
  BY <1>2, <1>3, <1>4, <1>5 DEF InFlight
<1>12. Reads'
  BY <1>2, <1>3, <1>6 DEF Reads
<1>13. c >= Stored + 1
  <2>1. CASE Stored = 0
    BY <2>1, <1>4
  <2>2. CASE Stored > 0
    <3>1. Stored \in DOMAIN received /\ Stored <= received[Stored] /\ received[Stored] < c
          /\ received[Stored] \in 1..(N + 1)
      BY <2>2, <1>1, <1>3, <1>7, <1>8, Chunks DEF Copy
    <3>2. QED
      BY <3>1, <1>1, <1>4, RrqAssumption
  <2>3. QED
    BY <2>1, <2>2, <1>1
<1>14. Copy'
  <2>1. Stored + 1 <= N
    BY <1>1, <1>6, RrqAssumption
  <2>2. cpc' # "done" => Stored + 1 < N /\ c < N
    BY <1>1, <1>2, <1>4, <1>13, RrqAssumption DEF Short
  <2>3. ASSUME NEW i \in 1..(Stored + 1)
        PROVE  /\ i <= received'[i] /\ received'[i] <= pos /\ received'[i] <= i + resends
               /\ cpc' # "done" => received'[i] < N
    <3>1. CASE i = Stored + 1
      BY <3>1, <2>2, <1>7, <1>8, <1>13
    <3>2. CASE i \in 1..Stored
      BY <3>2, <1>2, <1>3, <1>7 DEF Copy
    <3>3. QED
      BY <3>1, <3>2, <1>1
  <2>4. ASSUME NEW i \in 1..(Stored + 1), NEW j \in 1..(Stored + 1), i < j
        PROVE  received'[i] < received'[j]
    <3>1. i \in 1..Stored
      BY <2>4, <1>1
    <3>2. CASE j = Stored + 1
      BY <3>1, <3>2, <1>7, <1>8
    <3>3. CASE j \in 1..Stored
      BY <3>1, <3>3, <2>4, <1>3, <1>7 DEF Copy, InOrder
    <3>4. QED
      BY <3>2, <3>3, <1>1
  <2>5. QED
    BY <2>1, <2>2, <2>3, <2>4, <1>2, <1>4, <1>7 DEF Copy, InOrder
<1>15. CleanTransfer'
  BY <1>2, <1>5 DEF CleanTransfer
<1>16. QED
  BY <1>9, <1>10, <1>11, <1>12, <1>14, <1>15 DEF SafetyInv

\* Every other step is quiet.
LEMMA QuietServer ==
    ASSUME SafetyInv,
           StartOk \/ StartNotFound \/ StartFail \/ Timeout
             \/ \E p \in Range(acks) : ReceiveError(p) \/ ReceiveOther(p)
    PROVE  Quiet
<1> USE DEF Quiet, Exits, child, network, client
<1>1. TypeOK
  BY DEF SafetyInv, TypeInv
<1>2. /\ data' = data => Kept(data', data, "DATA")
      /\ acks' = acks => Kept(acks', acks, "ACK")
  BY <1>1, StaysSame, Keeping
<1>3. CASE StartOk
  BY <1>2, <1>3 DEF StartOk
<1>4. CASE StartFail
  BY <1>2, <1>4 DEF StartFail
<1>5. CASE StartNotFound
  <2>1. Range(data') \subseteq Range(data) \cup {Error(FILE_NOT_FOUND)}
    BY <1>1, <1>5, Sending, PacketTypes DEF StartNotFound
  <2>2. Kept(data', data, "DATA")
    <3>1. Behind(data', data, Error(FILE_NOT_FOUND))
      BY <1>1, <1>5, SendingBehind, PacketTypes DEF StartNotFound
    <3>2. Error(FILE_NOT_FOUND).op # "DATA"
      BY PacketFields
    <3>3. QED
      BY <3>1, <3>2, Keeping
  <2>3. QED
    BY <1>2, <1>5, <2>1, <2>2, PacketFields DEF StartNotFound
<1>6. CASE Timeout
  BY <1>2, <1>6 DEF Timeout
<1>7. ASSUME NEW p, ReceiveError(p) \/ ReceiveOther(p)
      PROVE  Quiet
  <2>1. Receive(p) /\ Range(acks') \subseteq Range(acks)
    BY <1>1, <1>7, ServerReceives DEF ReceiveError, ReceiveOther
  <2>2. ~ Reordering => Kept(acks', acks, "ACK")
    BY <1>1, <2>1, ReceivesFirst, Keeping
  <2>3. QED
    BY <1>2, <1>7, <2>1, <2>2 DEF ReceiveError, ReceiveOther, Receive
<1>8. QED
  BY <1>3, <1>4, <1>5, <1>6, <1>7

\* The steps of the client that store nothing, and losses, are quiet.
LEMMA QuietClient ==
    ASSUME SafetyInv,
           ClientTimeout \/ ClientQuit
             \/ \E p \in Range(data) : ClientDuplicate(p) \/ ClientIgnore(p) \/ ClientRefused(p)
    PROVE  Quiet
<1> USE DEF Quiet, child, network, client
<1>1. TypeOK
  BY DEF SafetyInv, TypeInv
<1>2. /\ data' = data => Kept(data', data, "DATA")
      /\ acks' = acks => Kept(acks', acks, "ACK")
  BY <1>1, StaysSame, Keeping
<1>3. Ack(LastBlock) \in ClientPackets /\ Ack(LastBlock).block = LastBlock
  BY <1>1, Advancing, PacketTypes, PacketFields
<1>4. acks' = SendTo(acks, Ack(LastBlock)) =>
        /\ Range(acks') \subseteq Range(acks) \cup {Ack(LastBlock)}
        /\ Behind(acks', acks, Ack(LastBlock))
  BY <1>1, <1>3, Sending, SendingBehind
<1>5. \A p : ClientReceive(p) =>
        /\ Range(data') \subseteq Range(data)
        /\ ~ Reordering => Kept(data', data, "DATA")
  BY <1>1, ClientReceives, ReceivesFirst, Keeping
<1>6. ASSUME NEW p, ClientDuplicate(p)
      PROVE  Quiet
  <2>1. ClientReceive(p) /\ acks' = SendTo(acks, Ack(LastBlock)) /\ UNCHANGED client
    BY <1>6 DEF ClientDuplicate
  <2>2. QED
    BY <1>3, <1>4, <1>5, <2>1 DEF ClientReceive
<1>7. ASSUME NEW p, ClientIgnore(p) \/ ClientRefused(p)
      PROVE  Quiet
  <2>1. ClientReceive(p)
    BY <1>7 DEF ClientIgnore, ClientRefused
  <2>2. QED
    BY <1>2, <1>5, <1>7, <2>1 DEF ClientIgnore, ClientRefused, ClientReceive
<1>8. CASE ClientTimeout
  <2>1. acks' = acks \/ acks' = SendTo(acks, Ack(LastBlock))
    BY <1>8 DEF ClientTimeout
  <2>2. QED
    BY <1>2, <1>3, <1>4, <1>8, <2>1 DEF ClientTimeout
<1>9. CASE ClientQuit
  <2>1. /\ Range(acks') \subseteq Range(acks) \cup {Error(0), Other}
        /\ Kept(acks', acks, "ACK")
    <3>1. CASE acks' = acks
      BY <1>2, <3>1
    <3>2. ASSUME NEW m \in {Error(0), Other}, acks' = SendTo(acks, m)
          PROVE  /\ Range(acks') \subseteq Range(acks) \cup {Error(0), Other}
                 /\ Kept(acks', acks, "ACK")
      <4>1. m \in ClientPackets /\ m.op # "ACK"
        BY PacketTypes, PacketFields
      <4>2. Range(acks') \subseteq Range(acks) \cup {m} /\ Behind(acks', acks, m)
        BY <1>1, <3>2, <4>1, Sending, SendingBehind
      <4>3. QED
        BY <4>1, <4>2, Keeping
    <3>3. QED
      BY <1>9, <3>1, <3>2 DEF ClientQuit
  <2>2. QED
    BY <1>2, <1>9, <2>1, PacketFields DEF ClientQuit
<1>10. QED
  BY <1>6, <1>7, <1>8, <1>9

\* A loss is quiet.
LEMMA QuietLoss == ASSUME SafetyInv, Lose PROVE Quiet
<1>1. TypeOK /\ data \in Seq(ServerPackets) /\ acks \in Seq(ClientPackets)
  BY DEF SafetyInv, TypeInv, TypeOK
<1>2. Kept(data', data, "DATA") /\ Kept(acks', acks, "ACK")
  <2>1. CASE data' \in AfterLoss(data) /\ acks' = acks
    BY <1>1, <2>1, Dropped, StaysSame, Keeping
  <2>2. CASE acks' \in AfterLoss(acks) /\ data' = data
    BY <1>1, <2>2, Dropped, StaysSame, Keeping
  <2>3. QED
    BY <2>1, <2>2 DEF Lose
<1>3. QED
  BY <1>1, <1>2, NetworkLoses DEF Quiet, Lose, child, client

\* Every step keeps the invariant.
LEMMA SafetyStep ==
    ASSUME Fits \/ ~ Reordering
    PROVE  SafetyInv /\ [Next]_vars => SafetyInv'
<1> SUFFICES ASSUME SafetyInv, [Next]_vars PROVE SafetyInv'
  OBVIOUS
<1>1. TypeInv'
  BY TypeStep DEF SafetyInv
<1>2. CASE Server
  BY <1>1, <1>2, QuietServer, QuietSafe, SendSafe, AckSafe DEF Server
<1>3. CASE Client
  <2>1. TypeOK'
    BY <1>1 DEF TypeInv
  <2>2. QED
    BY <1>1, <1>3, <2>1, QuietClient, QuietSafe, StoreSafe DEF Client
<1>4. CASE Lose
  BY <1>1, <1>4, QuietLoss, QuietSafe
<1>5. CASE UNCHANGED vars
  <2>1. Kept(data', data, "DATA") /\ Kept(acks', acks, "ACK")
    BY <1>5, StaysSame, Keeping DEF vars, network, SafetyInv, TypeInv
  <2>2. Quiet
    BY <1>5, <2>1 DEF Quiet, vars, child, network, client
  <2>3. QED
    BY <1>1, <2>2, QuietSafe
<1>6. QED
  BY <1>2, <1>3, <1>4, <1>5 DEF Next

\* The invariant holds throughout every transfer whose block numbers do not roll over,
\* and throughout every transfer over a path that keeps the order.
LEMMA Safe == ASSUME Fits \/ ~ Reordering PROVE Spec => []SafetyInv
  BY SafetyInit, SafetyStep, PTL DEF Spec

\* The client's copy never holds a chunk twice or out of order: whatever the network does
\* as long as the block numbers do not roll over, and across roll-overs, too, if packets
\* do not overtake each other.
THEOREM CopyInOrder == ASSUME Fits \/ ~ Reordering PROVE Spec => []InOrder
<1>1. SafetyInv => InOrder
  BY DEF SafetyInv, Copy
<1>2. QED
  BY <1>1, Safe, PTL

\* The child and the client stay within one block of each other.
THEOREM StopAndWait == ASSUME Fits \/ ~ Reordering PROVE Spec => []LockStep
<1>1. SafetyInv => LockStep
  BY DEF SafetyInv, Window, LockStep, NextBlock
<1>2. QED
  BY <1>1, Safe, PTL

\* The copy lacks at most one chunk for every time the child looped back.
THEOREM OneChunkPerResend == ASSUME Fits \/ ~ Reordering PROVE Spec => []LossBounded
<1>1. SafetyInv => LossBounded
  BY DEF SafetyInv, Copy, LossBounded
<1>2. QED
  BY <1>1, Safe, PTL

\* A child that never looped back reports success only for a whole file.
THEOREM CleanSuccess == ASSUME Fits \/ ~ Reordering PROVE Spec => []CleanTransfer
<1>1. SafetyInv => CleanTransfer
  BY DEF SafetyInv
<1>2. QED
  BY <1>1, Safe, PTL
-----------------------------------------------------------------------------
(* Prompt networks, that lose and duplicate nothing, and files of any length *)

\* One packet at most is in flight, and it is clear who is to move: the child, if there
\* is none; the client, if it is a chunk or an ERROR; the child, if it is an ACK.  The
\* client may also be left without an answer by a child that could not start.
Turns ==
    \/ /\ pc \in {"start", "send"} /\ data = <<>> /\ acks = <<>>
       /\ pos = Stored /\ pos < N /\ block_num = Increment(LastBlock)
       /\ pc = "start" => received = <<>>
    \/ /\ pc = "wait" /\ acks = <<>> /\ data = <<Data(block_num, pos)>>
       /\ pos = Stored + 1 /\ pos <= N /\ block_num = Increment(LastBlock)
       /\ is_EOF = Short(pos)
    \/ /\ pc = "wait" /\ data = <<>> /\ acks = <<Ack(block_num)>>
       /\ pos = Stored /\ pos < N /\ block_num = LastBlock /\ ~ is_EOF
    \/ /\ pc = "notfound" /\ acks = <<>> /\ received = <<>>
       /\ data = <<Error(FILE_NOT_FOUND)>>
    \/ /\ pc \in {"initfail", "noopen"} /\ received = <<>> /\ data = <<>> /\ acks = <<>>

PromptInv ==
    /\ Supported
    /\ cpc = "active" => Turns

\* The network of the run rrq_prompt, which may as well deliver in any order.
Faultless == Prompt /\ ~ Lossy /\ ~ Duplicating

\* A packet sent on an empty channel is alone on it.
LEMMA SentAlone == \A m : SendTo(<<>>, m) = <<m>>
  BY DatagramAssumption DEF SendTo

\* A packet that was alone and arrived leaves none behind.
LEMMA LastArrival ==
    ASSUME ~ Duplicating, NEW m, NEW i \in Arrivals(<<m>>),
           NEW left, left \in AfterArrival(<<m>>, i)
    PROVE  <<m>>[i] = m /\ left = <<>>
<1> DEFINE ch == <<m>>
<1>1. ch \in Seq({m}) /\ Len(ch) = 1 /\ DOMAIN ch = {1} /\ ch[1] = m
  OBVIOUS
<1>2. left = RemoveAt(ch, i) /\ i \in DOMAIN ch
  BY DEF AfterArrival, Arrivals
<1> HIDE DEF ch
<1>3. RemoveAt(ch, i) \in Seq({m}) /\ Len(RemoveAt(ch, i)) = 0
  BY <1>1, <1>2, RemoveAtKeeps
<1>4. left = <<>>
  BY <1>2, <1>3, EmptySeq
<1>5. QED
  BY <1>1, <1>2, <1>4 DEF ch

\* What the child receives is the ACK in flight.
LEMMA AckArrives ==
    ASSUME Faultless, Turns, NEW p, Receive(p)
    PROVE  /\ pc = "wait" /\ data = <<>> /\ acks = <<Ack(block_num)>>
           /\ pos = Stored /\ pos < N /\ block_num = LastBlock /\ ~ is_EOF
           /\ p = Ack(block_num) /\ acks' = <<>>
<1>1. PICK i \in Arrivals(acks) : p = acks[i] /\ acks' \in AfterArrival(acks, i)
  BY DEF Receive
<1>2. acks # <<>> /\ pc = "wait"
  BY <1>1 DEF Arrivals, Receive
<1>3. /\ pc = "wait" /\ data = <<>> /\ acks = <<Ack(block_num)>>
      /\ pos = Stored /\ pos < N /\ block_num = LastBlock /\ ~ is_EOF
  BY <1>2 DEF Turns
<1>4. p = Ack(block_num) /\ acks' = <<>>
  BY <1>1, <1>3, LastArrival DEF Faultless
<1>5. QED
  BY <1>3, <1>4

\* What the client receives is the chunk in flight, or an ERROR before the first.
LEMMA ChunkArrives ==
    ASSUME Faultless, Turns, NEW p, ClientReceive(p)
    PROVE  /\ data' = <<>> /\ acks = <<>>
           /\ \/ /\ pc = "wait" /\ p = Data(block_num, pos)
                 /\ pos = Stored + 1 /\ pos <= N /\ block_num = Increment(LastBlock)
                 /\ is_EOF = Short(pos)
              \/ p = Error(FILE_NOT_FOUND)
<1>1. PICK i \in Arrivals(data) : p = data[i] /\ data' \in AfterArrival(data, i)
  BY DEF ClientReceive
<1>2. data # <<>>
  BY <1>1 DEF Arrivals
<1>3. CASE /\ pc = "wait" /\ acks = <<>> /\ data = <<Data(block_num, pos)>>
           /\ pos = Stored + 1 /\ pos <= N /\ block_num = Increment(LastBlock)
           /\ is_EOF = Short(pos)
  <2>1. p = Data(block_num, pos) /\ data' = <<>>
    BY <1>1, <1>3, LastArrival DEF Faultless
  <2>2. QED
    BY <1>3, <2>1
<1>4. CASE acks = <<>> /\ data = <<Error(FILE_NOT_FOUND)>>
  <2>1. p = Error(FILE_NOT_FOUND) /\ data' = <<>>
    BY <1>1, <1>4, LastArrival DEF Faultless
  <2>2. QED
    BY <1>4, <2>1
<1>5. QED
  BY <1>2, <1>3, <1>4 DEF Turns

\* A client of a faultless network receives and stores the next chunk, or an ERROR.
LEMMA NextChunk ==
    ASSUME Faultless, TypeOK, Turns, NEW p,
           ClientStore(p) \/ ClientDuplicate(p) \/ ClientIgnore(p)
    PROVE  /\ ClientStore(p) /\ p = Data(block_num, pos) /\ p.chunk = pos
           /\ pos = Stored + 1 /\ pos <= N
           /\ pc' = "wait" /\ data' = <<>> /\ acks' = <<Ack(block_num)>>
           /\ received' = Append(received, pos) /\ Stored' = pos
           /\ block_num = LastBlock' /\ is_EOF' = Short(pos)
           /\ UNCHANGED <<pos, block_num, mode>>
           /\ cpc = "active" /\ cpc' = IF Short(pos) THEN "done" ELSE "active"
<1>1. ClientReceive(p) /\ p.op \in {"DATA", "OTHER"}
  BY DEF ClientStore, ClientDuplicate, ClientIgnore
<1>2. /\ data' = <<>> /\ acks = <<>>
      /\ pc = "wait" /\ p = Data(block_num, pos)
      /\ pos = Stored + 1 /\ pos <= N /\ block_num = Increment(LastBlock)
      /\ is_EOF = Short(pos)
  BY <1>1, ChunkArrives, PacketFields
<1>3. p.op = "DATA" /\ p.block = block_num /\ p.chunk = pos
  BY <1>2, PacketFields
<1>4. received \in Seq(1..(N + 1)) /\ Stored \in Nat
  BY LenProperties DEF TypeOK, Stored
<1>5. Increment(LastBlock) # LastBlock /\ Increment(LastBlock) = (Stored + 1) % Wrap
  BY <1>4, NumbersFollow DEF LastBlock, Stored
<1>6. ClientStore(p)
  BY <1>2, <1>3, <1>5 DEF ClientDuplicate, ClientIgnore
<1>7. /\ UNCHANGED child /\ received' = Append(received, pos) /\ acks' = <<Ack(block_num)>>
      /\ cpc = "active" /\ cpc' = IF Short(pos) THEN "done" ELSE "active"
  BY <1>2, <1>3, <1>6, SentAlone DEF ClientStore, ClientReceive
<1>8. Stored' = Stored + 1
  BY <1>4, <1>7 DEF Stored
<1>9. LastBlock' = block_num
  BY <1>2, <1>5, <1>8 DEF LastBlock, Stored
<1>10. QED
  BY <1>2, <1>3, <1>6, <1>7, <1>8, <1>9 DEF child

\* The turns change as they should, until the client stops.
LEMMA TurnsStep ==
    ASSUME Faultless, TypeOK, PromptInv, [Next]_vars, cpc' = "active"
    PROVE  cpc = "active" /\ Turns'
<1>0. Stored \in Nat /\ pos \in Nat
  BY LenProperties DEF TypeOK, Stored
<1>1. cpc = "active"
  BY DEF Next, Server, Client, Lose, StartOk, StartNotFound, StartFail, SendBlock, Timeout,
         ReceiveAck, ReceiveError, ReceiveOther, Receive, ClientStore, ClientDuplicate,
         ClientIgnore, ClientRefused, ClientReceive, ClientTimeout, ClientQuit, vars, client
<1>2. Turns /\ Supported
  BY <1>1 DEF PromptInv
<1> SUFFICES Turns'
  BY <1>1
<1>3. CASE StartOk \/ StartNotFound \/ StartFail
  <2>1. /\ data = <<>> /\ acks = <<>> /\ pos = Stored /\ pos < N
        /\ block_num = Increment(LastBlock) /\ received = <<>>
    BY <1>2, <1>3 DEF Turns, StartOk, StartNotFound, StartFail
  <2>2. UNCHANGED <<pos, block_num, acks, received>>
    BY <1>3 DEF StartOk, StartNotFound, StartFail, network, client
  <2>3. CASE StartOk
    BY <2>1, <2>2, <2>3 DEF StartOk, Turns, Stored, LastBlock, Increment, network
  <2>4. CASE StartNotFound
    BY <2>1, <2>2, <2>4, SentAlone DEF StartNotFound, Turns, Error, Packet, FILE_NOT_FOUND
  <2>5. CASE StartFail
    BY <2>1, <2>2, <2>5 DEF StartFail, Turns, network
  <2>6. QED
    BY <1>3, <2>3, <2>4, <2>5
<1>4. CASE SendBlock
  <2>1. /\ data = <<>> /\ acks = <<>> /\ pos = Stored /\ pos < N
        /\ block_num = Increment(LastBlock)
    BY <1>2, <1>4 DEF Turns, SendBlock
  <2>2. /\ pc' = "wait" /\ pos' = pos + 1 /\ is_EOF' = Short(pos')
        /\ data' = <<Data(block_num, pos')>>
        /\ UNCHANGED <<block_num, acks, received>>
    BY <1>0, <1>2, <1>4, <2>1, SentAlone, RrqAssumption DEF SendBlock, read_block, client
  <2>3. Stored' = Stored /\ LastBlock' = LastBlock /\ pos' <= N
    BY <1>0, <2>1, <2>2, RrqAssumption DEF Stored, LastBlock
  <2>4. QED
    BY <2>1, <2>2, <2>3 DEF Turns, Data, Packet, Increment, Short
<1>5. CASE Timeout
  <2>1. pc = "wait" /\ data = <<>> /\ acks = <<>>
    BY <1>5 DEF Timeout, TimerMayFire, Faultless
  <2>2. QED
    BY <1>2, <2>1 DEF Turns
<1>6. ASSUME NEW p, ReceiveAck(p) \/ ReceiveError(p) \/ ReceiveOther(p) PROVE Turns'
  <2>1. Receive(p)
    BY <1>6 DEF ReceiveAck, ReceiveError, ReceiveOther
  <2>2. /\ data = <<>> /\ pos = Stored /\ pos < N /\ block_num = LastBlock /\ ~ is_EOF
        /\ p = Ack(block_num) /\ acks' = <<>>
    BY <1>2, <2>1, AckArrives
  <2>3. p.op = "ACK" /\ p.block = block_num
    BY <2>2, PacketFields
  <2>4. ReceiveAck(p)
    BY <1>6, <2>3 DEF ReceiveError, ReceiveOther, parse_ack_packet
  <2>5. /\ block_num' = Increment(block_num) /\ pc' = "send"
        /\ UNCHANGED <<data, pos, received>>
    BY <2>2, <2>4 DEF ReceiveAck, Receive, client
  <2>6. QED
    BY <2>2, <2>5 DEF Turns, Stored, LastBlock
<1>7. ASSUME NEW p, ClientStore(p) \/ ClientDuplicate(p) \/ ClientIgnore(p) PROVE Turns'
  <2>1. /\ pos = Stored + 1 /\ pos <= N
        /\ pc' = "wait" /\ data' = <<>> /\ acks' = <<Ack(block_num)>>
        /\ Stored' = pos /\ block_num = LastBlock' /\ is_EOF' = Short(pos)
        /\ UNCHANGED <<pos, block_num>>
        /\ cpc' = IF Short(pos) THEN "done" ELSE "active"
    BY <1>2, <1>7, NextChunk
  <2>2. ~ Short(pos) /\ pos < N
    BY <1>0, <2>1, RrqAssumption DEF Short
  <2>3. QED
    BY <2>1, <2>2 DEF Turns, Ack, Packet, Short
<1>8. ASSUME NEW p, ClientRefused(p) PROVE FALSE
  BY <1>8 DEF ClientRefused
<1>9. CASE ClientTimeout
  <2>1. data = <<>> /\ acks = <<>> /\ pc \notin {"start", "send"}
    BY <1>9 DEF ClientTimeout, TimerMayFire, Faultless
  <2>2. pc \in {"initfail", "noopen"} /\ received = <<>>
    BY <1>2, <2>1 DEF Turns
  <2>3. UNCHANGED <<pc, received, data, acks>>
    BY <1>9, <2>2 DEF ClientTimeout, child
  <2>4. QED
    BY <2>1, <2>2, <2>3 DEF Turns
<1>10. CASE ClientQuit
  BY <1>10 DEF ClientQuit
<1>11. CASE Lose
  BY <1>11 DEF Lose, AfterLoss, Faultless
<1>12. CASE UNCHANGED vars
  BY <1>2, <1>12 DEF vars, child, network, client, Turns, Stored, LastBlock
<1>13. QED
  BY <1>3, <1>4, <1>5, <1>6, <1>7, <1>8, <1>9, <1>10, <1>11, <1>12 DEF Next, Server, Client

\* At the start nothing is in flight, and the mode never changes.
LEMMA PromptInvariance ==
    ASSUME Faultless, Modes \subseteq {"octet", "netascii"}
    PROVE  Spec => []PromptInv
<1>1. Init => PromptInv
  <2> SUFFICES ASSUME Init PROVE PromptInv
    OBVIOUS
  <2>1. Stored = 0
    BY DEF Init, Stored
  <2>2. 1 = Increment(LastBlock)
    <3>1. 0 % Wrap = 0 /\ 1 % Wrap = 1
      BY RrqAssumption
    <3>2. QED
      BY <3>1, <2>1 DEF Increment, LastBlock, Stored
  <2>3. Supported
    BY DEF Init, Supported
  <2>4. Turns
    BY <2>1, <2>2, RrqAssumption DEF Init, Turns
  <2>5. QED
    BY <2>3, <2>4 DEF PromptInv
<1>2. TypeOK /\ PromptInv /\ [Next]_vars => PromptInv'
  <2> SUFFICES ASSUME TypeOK, PromptInv, [Next]_vars PROVE PromptInv'
    OBVIOUS
  <2>1. UNCHANGED mode
    BY DEF Next, Server, Client, Lose, StartOk, StartNotFound, StartFail, SendBlock, Timeout,
           ReceiveAck, ReceiveError, ReceiveOther, Receive, ClientStore, ClientDuplicate,
           ClientIgnore, ClientRefused, ClientReceive, ClientTimeout, ClientQuit, vars, child
  <2>2. Supported'
    BY <2>1 DEF PromptInv, Supported
  <2>3. cpc' = "active" => Turns'
    BY TurnsStep
  <2>4. QED
    BY <2>2, <2>3 DEF PromptInv
<1>3. QED
  BY <1>1, <1>2, TypeCorrect, PTL DEF Spec

\* Where no timer fires early and nothing is lost or doubled, what the client gets
\* implements FileTransfer, also when block numbers roll over: a step maps to the next
\* block delivered, to giving up, or to none.
THEOREM Implementation ==
    ASSUME Faultless, Modes \subseteq {"octet", "netascii"}
    PROVE  Spec => ImplementsTransfer
<1>1. Init => Transfer!Init
  BY DEF Init, Transfer!Init
<1>2. ASSUME TypeOK, PromptInv, [Next]_vars PROVE [Transfer!Next]_(Transfer!vars)
  <2>1. CASE UNCHANGED <<cpc, received>>
    BY <2>1 DEF Transfer!vars
  <2>2. CASE cpc = "active" /\ cpc' \in {"refused", "gaveup", "gone"} /\ received' = received
    BY <2>2 DEF Transfer!Next, Transfer!Abort
  <2>3. CASE Server \/ Lose \/ UNCHANGED vars
    <3>1. UNCHANGED <<cpc, received>>
      BY <2>3 DEF Server, Lose, StartOk, StartNotFound, StartFail, SendBlock, Timeout,
                  ReceiveAck, ReceiveError, ReceiveOther, Receive, vars, client
    <3>2. QED
      BY <3>1, <2>1
  <2>4. ASSUME NEW p, ClientStore(p) \/ ClientDuplicate(p) \/ ClientIgnore(p)
        PROVE  [Transfer!Next]_(Transfer!vars)
    <3>1. Turns
      BY <1>2, <2>4 DEF PromptInv, ClientStore, ClientDuplicate, ClientIgnore, ClientReceive
    <3>2. /\ pos = Len(received) + 1 /\ pos <= N
          /\ received' = Append(received, pos) /\ Len(received') = pos
          /\ cpc = "active" /\ cpc' = IF Short(pos) THEN "done" ELSE "active"
      BY <1>2, <2>4, <3>1, NextChunk DEF Stored
    <3>3. Len(received) \in Nat /\ N \in Nat
      BY <1>2, LenProperties, RrqAssumption DEF TypeOK
    <3>4. Len(received) < N /\ received' = Append(received, Len(received) + 1)
      BY <3>2, <3>3
    <3>5. cpc' = "active" \/ (cpc' = "done" /\ Len(received') = N)
      BY <3>2, <3>3 DEF Short
    <3>6. QED
      BY <3>2, <3>4, <3>5 DEF Transfer!Next, Transfer!Deliver
  <2>5. ASSUME NEW p, ClientRefused(p) PROVE [Transfer!Next]_(Transfer!vars)
    BY <2>5, <2>2 DEF ClientRefused, ClientReceive
  <2>6. CASE ClientTimeout
    BY <2>6, <2>1, <2>2 DEF ClientTimeout
  <2>7. CASE ClientQuit
    BY <2>7, <2>2 DEF ClientQuit
  <2>8. QED
    BY <1>2, <2>3, <2>4, <2>5, <2>6, <2>7 DEF Next, Client
<1>3. QED
  BY <1>1, <1>2, TypeCorrect, PromptInvariance, PTL DEF Spec, ImplementsTransfer, Transfer!Spec
=============================================================================
