---------------------------- MODULE TftpWrqProofs ----------------------------
(***************************************************************************)
(* Proofs about TftpWrq for every file and every bound, over a network     *)
(* that may lose and duplicate packets but delivers them in order.         *)
(***************************************************************************)
EXTENDS TftpWrq, ListProofs

\* Packets of the client: block numbers and chunks belong together.
DataPackets == {Data(Number(c), c) : c \in 1..N} \cup {Error(0), Other}

\* Packets of the child.
AckPackets == {Ack(n) : n \in 0..(Wrap - 1)} \cup {Error(FILE_EXISTS)}

\* The types of what the proofs are about.
Typed ==
    /\ pc \in {"start", "send", "wait"} \cup Exits
    /\ cur \in 0..N
    /\ written \in Seq(1..N)
    /\ data \in Seq(DataPackets) /\ acks \in Seq(AckPackets)

\* The chunk the child received last, 0 before the first: the client's current
\* one, or the one before it.
Got == IF block_num = Number(cur) THEN cur ELSE cur - 1

\* Where the child is: in select it has acknowledged what it received last, and
\* a short packet was the last chunk.
Position ==
    /\ Got \in 0..N /\ block_num = Number(Got)
    /\ pc = "wait" => last_block_ack = block_num
    /\ _EOF => Got = N
    /\ pc = "ok" => _EOF
    /\ cpc = "done" => Got = N

\* The DATA packets in flight are of the chunk received last and of the one the
\* client sends, in this order.
DataInOrder ==
    /\ \A i \in 1..Len(data) : data[i].op = "DATA" => data[i].chunk \in Got..cur
    /\ \A i, j \in 1..Len(data) :
        i < j /\ data[i].op = "DATA" /\ data[j].op = "DATA" =>
            data[i].chunk <= data[j].chunk

\* The acknowledgements in flight are of the chunk before the client's, then of its
\* current one, if the child has received that.
AcksInOrder ==
    /\ \A i \in 1..Len(acks) : acks[i].op = "ACK" =>
        \/ cur > 0 /\ acks[i].block = Number(cur - 1)
        \/ Got = cur /\ acks[i].block = Number(cur)
    /\ \A i, j \in 1..Len(acks) :
        i < j /\ acks[i].op = "ACK" /\ acks[j].op = "ACK" /\ acks[i].block = Number(cur) =>
            acks[j].block = Number(cur)

\* What is stored of the chunks received: those not numbered 0, in order.
Stored == Supported =>
    /\ Range(written) = {c \in 1..Got : Number(c) # 0}
    /\ \A i, j \in DOMAIN written : i < j => written[i] < written[j]

\* Before block numbers roll over none is numbered 0, and the file is what was received.
Prefix == Supported /\ N < Wrap =>
    Len(written) = Got /\ \A i \in 1..Got : written[i] = i

IInv == Typed /\ Position /\ DataInOrder /\ AcksInOrder /\ Stored /\ Prefix

-----------------------------------------------------------------------------
(* The channel *)

\* A packet sent is added to those in flight, or dropped.
LEMMA SentTo ==
    ASSUME NEW S, NEW ch \in Seq(S), NEW m \in S
    PROVE  /\ SendTo(ch, m) \in Seq(S)
           /\ Range(SendTo(ch, m)) \subseteq Range(ch) \cup {m}
<1>1. SendTo(ch, m) = Append(ch, m) \/ SendTo(ch, m) = ch
  BY DEF SendTo
<1>2. QED
  BY <1>1, Putting

\* It is behind all others.
LEMMA SentBehind ==
    ASSUME NEW S, NEW ch \in Seq(S), NEW m \in S
    PROVE  LET new == SendTo(ch, m) IN
           /\ \A i \in 1..Len(new) : new[i] = m \/ (i \in 1..Len(ch) /\ new[i] = ch[i])
           /\ \A i, j \in 1..Len(new) : i < j => i \in 1..Len(ch) /\ new[i] = ch[i]
<1>1. SendTo(ch, m) = Append(ch, m) \/ SendTo(ch, m) = ch
  BY DEF SendTo
<1>2. QED
  BY <1>1, Putting

\* A delivery takes a packet in flight, the first one if there is no reordering, and
\* leaves only packets that were, in their order.
LEMMA Delivered ==
    ASSUME NEW S, NEW ch \in Seq(S), NEW i \in Arrivals(ch),
           NEW left \in AfterArrival(ch, i)
    PROVE  /\ ch[i] \in S /\ ch[i] \in Range(ch) /\ i \in 1..Len(ch)
           /\ left \in Seq(S) /\ Range(left) \subseteq Range(ch)
           /\ Thinned(left, ch)
           /\ ~ Reordering => i = 1
<1>1. i \in DOMAIN ch /\ (~ Reordering => i = 1)
  BY DEF Arrivals
<1>2. left = RemoveAt(ch, i) \/ left = ch
  BY DEF AfterArrival
<1>3. QED
  BY <1>1, <1>2, Taking

\* So does a loss.
LEMMA Dropped ==
    ASSUME NEW S, NEW ch \in Seq(S), NEW left \in AfterLoss(ch)
    PROVE  /\ left \in Seq(S) /\ Range(left) \subseteq Range(ch)
           /\ Thinned(left, ch)
<1>1. PICK i \in DOMAIN ch : left = RemoveAt(ch, i)
  BY DEF AfterLoss
<1>2. QED
  BY <1>1, Taking

-----------------------------------------------------------------------------
(* Numbers and packets *)

\* Chunks that follow each other have different numbers, and the number grows but
\* for a chunk numbered 0.
LEMMA Numbers ==
    ASSUME NEW k \in Nat
    PROVE  /\ Number(k) \in 0..(Wrap - 1)
           /\ Number(k + 1) # Number(k)
           /\ Number(k + 1) > Number(k) <=> Number(k + 1) # 0
           /\ k < Wrap => Number(k) = k
<1>1. Wrap \in Nat \ {0, 1}
  BY WrqAssumption
<1> DEFINE q == k \div Wrap
           r == k % Wrap
<1>2. q \in Nat /\ r \in 0..(Wrap - 1) /\ k = Wrap * q + r
  BY <1>1, Dividing
<1>3. Number(k) = r
  BY DEF Number
<1> HIDE DEF q, r
<1>4. k < Wrap => Number(k) = k
  <2>1. SUFFICES ASSUME k < Wrap PROVE k % Wrap = k
    BY DEF Number
  <2>2. 0 \in Nat /\ k \in 0..(Wrap - 1) /\ k = Wrap * 0 + k
    BY <1>1, <2>1
  <2>3. QED
    BY <1>1, <2>2, Dividing
<1>5. Number(k + 1) = IF r + 1 < Wrap THEN r + 1 ELSE 0
  <2> DEFINE x == k + 1
             q1 == IF r + 1 < Wrap THEN q ELSE q + 1
             r1 == IF r + 1 < Wrap THEN r + 1 ELSE 0
  <2>1. x \in Nat /\ q1 \in Nat /\ r1 \in 0..(Wrap - 1)
    BY <1>1, <1>2
  <2>2. x = Wrap * q1 + r1
    <3>1. CASE r + 1 < Wrap
      BY <1>1, <1>2, <3>1
    <3>2. CASE ~ (r + 1 < Wrap)
      <4>1. r = Wrap - 1 /\ q1 = q + 1 /\ r1 = 0
        BY <1>1, <1>2, <3>2
      <4>2. Wrap * (q + 1) = Wrap * q + Wrap
        BY <1>1, <1>2
      <4>3. QED
        BY <1>1, <1>2, <4>1, <4>2
    <3>3. QED
      BY <3>1, <3>2
  <2>3. Number(x) = x % Wrap
    BY DEF Number
  <2> HIDE DEF x, q1, r1
  <2>4. x % Wrap = r1
    BY <1>1, <2>1, <2>2, Dividing
  <2>5. QED
    BY <2>3, <2>4 DEF x, r1
<1>6. QED
  BY <1>1, <1>2, <1>3, <1>4, <1>5

\* Numbers come again after Wrap chunks.
LEMMA NumbersRepeat ==
    ASSUME NEW k \in Nat
    PROVE  Number(k + Wrap) = Number(k)
<1>1. Wrap \in Nat \ {0}
  BY WrqAssumption
<1> DEFINE q  == k \div Wrap
           q1 == q + 1
           r  == k % Wrap
           x  == k + Wrap
<1>2. q \in Nat /\ r \in 0..(Wrap - 1) /\ k = Wrap * q + r
  BY <1>1, Dividing
<1>3. Number(k) = r /\ Number(x) = x % Wrap
  BY DEF Number
<1> HIDE DEF q, r
<1>4. q1 \in Nat /\ Wrap * q1 = Wrap * q + Wrap /\ x \in Nat
  BY <1>1, <1>2
<1>5. x = Wrap * q1 + r
  BY <1>1, <1>2, <1>4
<1> HIDE DEF q1, x
<1>6. x % Wrap = r
  BY <1>1, <1>2, <1>4, <1>5, Dividing
<1>7. QED
  BY <1>3, <1>6 DEF x

\* The bounds of a transfer.
LEMMA Sizes == N \in Nat \ {0} /\ Wrap \in Nat \ {0, 1} /\ 0 \in 0..N
  BY WrqAssumption

\* What the constructors of packets build.
LEMMA PacketFields ==
    /\ \A n, c : Data(n, c).op = "DATA" /\ Data(n, c).block = n /\ Data(n, c).chunk = c
    /\ \A n : Ack(n).op = "ACK" /\ Ack(n).block = n
    /\ \A n : Error(n).op = "ERROR"
    /\ Other.op = "OTHER"
  BY DEF Data, Ack, Error, Other, Packet

\* The fields of the packets in flight.
LEMMA PacketSets ==
    /\ \A c \in 1..N : Data(Number(c), c) \in DataPackets
    /\ Error(0) \in DataPackets /\ Other \in DataPackets
    /\ \A n \in 0..(Wrap - 1) : Ack(n) \in AckPackets
    /\ Error(FILE_EXISTS) \in AckPackets
    /\ \A p \in DataPackets : p.op = "DATA" => p.chunk \in 1..N /\ p.block = Number(p.chunk)
    /\ \A p \in AckPackets : p.op = "ACK" => p.block \in 0..(Wrap - 1)
  BY PacketFields DEF DataPackets, AckPackets

\* Where the chunk received last is, and what identifies it.
LEMMA GotFacts ==
    ASSUME Typed, Position
    PROVE  /\ Got \in 0..N /\ cur \in 0..N /\ N \in Nat
           /\ Got \in {cur - 1, cur}
           /\ \A c \in 1..N : c \in Got..cur => c = Got \/ (c = Got + 1 /\ c = cur)
  BY Sizes DEF Typed, Position, Got

-----------------------------------------------------------------------------
(* What a step does to the channels *)

\* A delivery or a loss keeps the packets in order.
LEMMA DataThins ==
    ASSUME DataInOrder, Thinned(data', data), UNCHANGED <<cur, block_num>>
    PROVE  DataInOrder'
<1>1. Got' = Got
  BY DEF Got, Number
<1>2. \A i \in 1..Len(data') : data'[i].op = "DATA" => data'[i].chunk \in Got..cur
  BY DEF DataInOrder, Thinned
<1>3. ASSUME NEW i \in 1..Len(data'), NEW j \in 1..Len(data'), i < j,
             data'[i].op = "DATA", data'[j].op = "DATA"
      PROVE  data'[i].chunk <= data'[j].chunk
  <2>1. PICK a \in 1..Len(data), b \in 1..Len(data) :
            a < b /\ data'[i] = data[a] /\ data'[j] = data[b]
    BY <1>3 DEF Thinned
  <2>2. QED
    BY <1>3, <2>1 DEF DataInOrder
<1>4. QED
  BY <1>1, <1>2, <1>3 DEF DataInOrder

\* The same for the acknowledgements.
LEMMA AcksThin ==
    ASSUME AcksInOrder, Thinned(acks', acks), UNCHANGED <<cur, block_num>>
    PROVE  AcksInOrder'
<1>1. Got' = Got /\ Number(cur)' = Number(cur) /\ Number(cur - 1)' = Number(cur - 1)
  BY DEF Got, Number
<1>2. \A i \in 1..Len(acks') : acks'[i].op = "ACK" =>
        \/ cur > 0 /\ acks'[i].block = Number(cur - 1)
        \/ Got = cur /\ acks'[i].block = Number(cur)
  BY DEF AcksInOrder, Thinned
<1>3. ASSUME NEW i \in 1..Len(acks'), NEW j \in 1..Len(acks'), i < j,
             acks'[i].op = "ACK", acks'[j].op = "ACK", acks'[i].block = Number(cur)
      PROVE  acks'[j].block = Number(cur)
  <2>1. PICK a \in 1..Len(acks), b \in 1..Len(acks) :
            a < b /\ acks'[i] = acks[a] /\ acks'[j] = acks[b]
    BY <1>3 DEF Thinned
  <2>2. QED
    BY <1>3, <2>1 DEF AcksInOrder
<1>4. QED
  BY <1>1, <1>2, <1>3 DEF AcksInOrder

\* Sending the current chunk, or a packet that is no DATA, keeps the order.
LEMMA DataSent ==
    ASSUME Typed, Position, DataInOrder, UNCHANGED <<cur, block_num>>,
           NEW m \in DataPackets, m.op = "DATA" => m.chunk = cur,
           data' = SendTo(data, m)
    PROVE  data' \in Seq(DataPackets) /\ DataInOrder'
<1>1. data \in Seq(DataPackets) /\ Got' = Got /\ Got \in 0..cur /\ cur \in Nat
  BY GotFacts, Sizes DEF Typed, Got, Number
<1>2. /\ data' \in Seq(DataPackets)
      /\ \A i \in 1..Len(data') : data'[i] = m \/ (i \in 1..Len(data) /\ data'[i] = data[i])
      /\ \A i, j \in 1..Len(data') : i < j => i \in 1..Len(data) /\ data'[i] = data[i]
  <2> DEFINE new == SendTo(data, m)
  <2>1. new \in Seq(DataPackets)
    BY <1>1, SentTo
  <2>2. /\ \A i \in 1..Len(new) : new[i] = m \/ (i \in 1..Len(data) /\ new[i] = data[i])
        /\ \A i, j \in 1..Len(new) : i < j => i \in 1..Len(data) /\ new[i] = data[i]
    BY <1>1, SentBehind
  <2>3. QED
    BY <2>1, <2>2
<1>3. \A i \in 1..Len(data') : data'[i].op = "DATA" => data'[i].chunk \in Got..cur
  BY <1>1, <1>2 DEF DataInOrder
<1>4. ASSUME NEW i \in 1..Len(data'), NEW j \in 1..Len(data'), i < j,
             data'[i].op = "DATA", data'[j].op = "DATA"
      PROVE  data'[i].chunk <= data'[j].chunk
  <2>1. i \in 1..Len(data) /\ data'[i] = data[i]
    BY <1>2, <1>4
  <2>2. CASE data'[j] = m
    BY <2>1, <2>2, <1>1, <1>3, <1>4
  <2>3. CASE j \in 1..Len(data) /\ data'[j] = data[j]
    BY <2>1, <2>3, <1>4 DEF DataInOrder
  <2>4. QED
    BY <1>2, <2>2, <2>3
<1>5. QED
  BY <1>1, <1>2, <1>3, <1>4 DEF DataInOrder

\* Acknowledging the chunk received last, or sending a packet that is no ACK, does too.
LEMMA AckSent ==
    ASSUME Typed, Position, AcksInOrder, UNCHANGED <<cur, block_num>>,
           NEW m \in AckPackets, m.op = "ACK" => m.block = block_num,
           acks' = SendTo(acks, m)
    PROVE  acks' \in Seq(AckPackets) /\ AcksInOrder'
<1>1. /\ acks \in Seq(AckPackets) /\ Got' = Got
      /\ Number(cur)' = Number(cur) /\ Number(cur - 1)' = Number(cur - 1)
  BY DEF Typed, Got, Number
<1>2. /\ acks' \in Seq(AckPackets)
      /\ \A i \in 1..Len(acks') : acks'[i] = m \/ (i \in 1..Len(acks) /\ acks'[i] = acks[i])
      /\ \A i, j \in 1..Len(acks') : i < j => i \in 1..Len(acks) /\ acks'[i] = acks[i]
  <2> DEFINE new == SendTo(acks, m)
  <2>1. new \in Seq(AckPackets)
    BY <1>1, SentTo
  <2>2. /\ \A i \in 1..Len(new) : new[i] = m \/ (i \in 1..Len(acks) /\ new[i] = acks[i])
        /\ \A i, j \in 1..Len(new) : i < j => i \in 1..Len(acks) /\ new[i] = acks[i]
    BY <1>1, SentBehind
  <2>3. QED
    BY <2>1, <2>2
<1>3. m.op = "ACK" => /\ \/ cur > 0 /\ m.block = Number(cur - 1)
                         \/ Got = cur /\ m.block = Number(cur)
                      /\ Got = cur => m.block = Number(cur)
  BY GotFacts DEF Position
<1>4. \A i \in 1..Len(acks') : acks'[i].op = "ACK" =>
        \/ cur > 0 /\ acks'[i].block = Number(cur - 1)
        \/ Got = cur /\ acks'[i].block = Number(cur)
  BY <1>2, <1>3 DEF AcksInOrder
<1>5. \A i \in 1..Len(acks) : acks[i].op = "ACK" /\ acks[i].block = Number(cur) => Got = cur
  <2>1. cur > 0 => Number(cur - 1) # Number(cur)
    <3>1. cur > 0 => cur - 1 \in Nat /\ (cur - 1) + 1 = cur
      BY GotFacts
    <3>2. QED
      BY <3>1, Numbers
  <2>2. QED
    BY <2>1 DEF AcksInOrder
<1>6. ASSUME NEW i \in 1..Len(acks'), NEW j \in 1..Len(acks'), i < j,
             acks'[i].op = "ACK", acks'[j].op = "ACK", acks'[i].block = Number(cur)
      PROVE  acks'[j].block = Number(cur)
  <2>1. i \in 1..Len(acks) /\ acks'[i] = acks[i]
    BY <1>2, <1>6
  <2>2. CASE acks'[j] = m
    BY <2>1, <2>2, <1>3, <1>5, <1>6
  <2>3. CASE j \in 1..Len(acks) /\ acks'[j] = acks[j]
    BY <2>1, <2>3, <1>6 DEF AcksInOrder
  <2>4. QED
    BY <1>2, <2>2, <2>3
<1>7. QED
  BY <1>1, <1>2, <1>4, <1>6 DEF AcksInOrder

\* A packet the child receives is the first in flight.
LEMMA ChildReceives ==
    ASSUME ~ Reordering, Typed, NEW p, Receive(p)
    PROVE  /\ p \in DataPackets /\ 1 \in 1..Len(data) /\ p = data[1]
           /\ data' \in Seq(DataPackets) /\ Thinned(data', data)
<1>1. data \in Seq(DataPackets)
  BY DEF Typed
<1>2. PICK i \in Arrivals(data) : p = data[i] /\ data' \in AfterArrival(data, i)
  BY DEF Receive
<1>3. QED
  BY <1>1, <1>2, Delivered

\* So is a packet the client receives.
LEMMA ClientReceives ==
    ASSUME ~ Reordering, Typed, NEW p, ClientReceive(p)
    PROVE  /\ p \in AckPackets /\ 1 \in 1..Len(acks) /\ p = acks[1]
           /\ acks' \in Seq(AckPackets) /\ Thinned(acks', acks)
<1>1. acks \in Seq(AckPackets)
  BY DEF Typed
<1>2. PICK i \in Arrivals(acks) : p = acks[i] /\ acks' \in AfterArrival(acks, i)
  BY DEF ClientReceive
<1>3. QED
  BY <1>1, <1>2, Delivered

-----------------------------------------------------------------------------
(* The steps *)

\* A step that neither receives a chunk nor goes on to the next one.
LEMMA QuietStep ==
    ASSUME IInv, UNCHANGED <<cur, block_num, mode, written, _EOF>>,
           Typed', DataInOrder', AcksInOrder',
           pc' = "wait" => last_block_ack' = block_num,
           pc' = "ok" => _EOF,
           cpc' = "done" => Got = N
    PROVE  IInv'
<1>1. Got' = Got /\ Supported' = Supported /\ \A c : Number(c)' = Number(c)
  BY DEF Got, Number, Supported
<1>2. Position'
  BY <1>1 DEF IInv, Position
<1>3. Stored' /\ Prefix'
  BY <1>1 DEF IInv, Stored, Prefix
<1>4. QED
  BY <1>2, <1>3 DEF IInv

\* wrq_handler before its loop.
LEMMA StartStep == ASSUME IInv, StartOk \/ StartExists \/ StartFail PROVE IInv'
<1> USE DEF child, network, client
<1>1. /\ UNCHANGED <<cur, block_num, mode, written, _EOF, data, cpc>>
      /\ pc' \in {"send", "exists", "noopen", "initfail"}
  BY DEF StartOk, StartExists, StartFail
<1>2. acks' \in Seq(AckPackets) /\ AcksInOrder'
  <2>1. CASE StartExists
    <3>1. Error(FILE_EXISTS) \in AckPackets /\ Error(FILE_EXISTS).op = "ERROR"
      BY PacketSets, PacketFields
    <3>2. QED
      BY <2>1, <3>1, <1>1, AckSent DEF IInv, StartExists
  <2>2. CASE StartOk \/ StartFail
    <3>1. UNCHANGED acks
      BY <2>2 DEF StartOk, StartFail
    <3>2. QED
      BY <3>1, <1>1 DEF IInv, Typed, AcksInOrder, Got, Number
  <2>3. QED
    BY <2>1, <2>2
<1>3. Typed' /\ DataInOrder'
  BY <1>1, <1>2 DEF IInv, Typed, Exits, DataInOrder, Got, Number
<1>4. cpc' = "done" => Got = N
  BY <1>1 DEF IInv, Position
<1>5. QED
  BY <1>1, <1>2, <1>3, <1>4, QuietStep

\* The chunk received last is acknowledged.
LEMMA SendAckStep == ASSUME IInv, SendAck PROVE IInv'
<1>1. /\ UNCHANGED <<cur, block_num, mode, written, _EOF, data, cpc>>
      /\ last_block_ack' = block_num
      /\ pc' = IF _EOF THEN "ok" ELSE "wait"
      /\ acks' = SendTo(acks, Ack(block_num))
  BY DEF SendAck, client, AckNumber
<1>2. acks' \in Seq(AckPackets) /\ AcksInOrder'
  <2>1. block_num \in 0..(Wrap - 1)
    BY Numbers DEF IInv, Position
  <2>2. Ack(block_num) \in AckPackets /\ Ack(block_num).block = block_num
    BY <2>1, PacketSets, PacketFields
  <2>3. QED
    BY <2>2, <1>1, AckSent DEF IInv
<1>3. Typed' /\ DataInOrder'
  BY <1>1, <1>2 DEF IInv, Typed, Exits, DataInOrder, Got, Number
<1>4. cpc' = "done" => Got = N
  BY <1>1 DEF IInv, Position
<1>5. QED
  BY <1>1, <1>2, <1>3, <1>4, QuietStep

\* A timeout.
LEMMA TimeoutStep == ASSUME IInv, Timeout PROVE IInv'
<1>1. /\ UNCHANGED <<cur, block_num, mode, written, _EOF, data, acks, cpc>>
      /\ pc' \in {"timedout", "send"}
  BY DEF Timeout, client, network
<1>2. Typed' /\ DataInOrder' /\ AcksInOrder'
  BY <1>1 DEF IInv, Typed, Exits, DataInOrder, AcksInOrder, Got, Number
<1>3. cpc' = "done" => Got = N
  BY <1>1 DEF IInv, Position
<1>4. QED
  BY <1>1, <1>2, <1>3, QuietStep

\* A packet that is no DATA ends the child.
LEMMA ReceiveOtherStep ==
    ASSUME ~ Reordering, IInv, NEW p, ReceiveOther(p)
    PROVE  IInv'
<1>1. /\ UNCHANGED <<cur, block_num, mode, written, _EOF, acks, cpc>>
      /\ pc' \in {"peererror", "unknown"}
      /\ Receive(p)
  BY DEF ReceiveOther, Receive, client
<1>2. data' \in Seq(DataPackets) /\ DataInOrder'
  BY <1>1, ChildReceives, DataThins DEF IInv
<1>3. Typed' /\ AcksInOrder'
  BY <1>1, <1>2 DEF IInv, Typed, Exits, AcksInOrder, Got, Number
<1>4. cpc' = "done" => Got = N
  BY <1>1 DEF IInv, Position
<1>5. QED
  BY <1>1, <1>2, <1>3, <1>4, QuietStep

\* The DATA packet received is of the chunk received last or of the next one, which is
\* the client's; what is behind it is not older; and it is stored when it is new and
\* not numbered 0.
LEMMA Receiving ==
    ASSUME ~ Reordering, IInv, NEW p, ReceiveData(p)
    PROVE  /\ p.chunk \in 1..N /\ p.block = Number(p.chunk)
           /\ p.chunk \in Got..cur /\ (p.chunk = Got \/ (p.chunk = Got + 1 /\ p.chunk = cur))
           /\ Got' = p.chunk
           /\ data' \in Seq(DataPackets) /\ DataInOrder' /\ AcksInOrder'
           /\ written' = IF p.chunk = Got + 1 /\ Number(p.chunk) # 0
                         THEN write_data_to_file(written, p.chunk) ELSE written
<1>1. /\ Receive(p) /\ p.op = "DATA" /\ pc = "wait" /\ block_num' = p.block
      /\ UNCHANGED <<cur, mode, last_block_ack, acks>>
  BY DEF ReceiveData, Receive, client
<1>2. /\ p \in DataPackets /\ 1 \in 1..Len(data) /\ p = data[1]
      /\ data' \in Seq(DataPackets) /\ Thinned(data', data)
  BY <1>1, ChildReceives DEF IInv
<1>3. p.chunk \in 1..N /\ p.block = Number(p.chunk) /\ p.chunk \in Got..cur
  BY <1>1, <1>2, PacketSets DEF IInv, DataInOrder
<1>4. /\ Got \in 0..N /\ cur \in 0..N /\ N \in Nat /\ Got \in {cur - 1, cur}
      /\ p.chunk = Got \/ (p.chunk = Got + 1 /\ p.chunk = cur)
  BY <1>3, GotFacts DEF IInv
<1>5. Got' = p.chunk
  <2>1. Got' = IF Number(p.chunk) = Number(cur) THEN cur ELSE cur - 1
    BY <1>1, <1>3 DEF Got, Number
  <2>2. CASE p.chunk = cur
    BY <2>1, <2>2
  <2>3. CASE p.chunk # cur
    <3>1. p.chunk = cur - 1 /\ p.chunk \in Nat /\ cur = p.chunk + 1
      BY <2>3, <1>3, <1>4
    <3>2. QED
      BY <2>1, <3>1, Numbers
  <2>4. QED
    BY <2>2, <2>3
<1>6. DataInOrder'
  <2>1. ASSUME NEW i \in 1..Len(data'), data'[i].op = "DATA"
        PROVE  data'[i].chunk \in (p.chunk)..cur
    <3>1. PICK a \in 1..Len(data) : data'[i] = data[a]
      BY <1>2 DEF Thinned
    <3>2. data[a].chunk \in Got..cur
      BY <2>1, <3>1 DEF IInv, DataInOrder
    <3>3. p.chunk <= data[a].chunk
      <4>1. CASE a = 1
        BY <4>1, <1>2, <3>2, <1>4
      <4>2. CASE a # 1
        <5>1. 1 < a
          BY <4>2, <1>2
        <5>2. QED
          BY <5>1, <1>1, <1>2, <2>1, <3>1 DEF IInv, DataInOrder
      <4>3. QED
        BY <4>1, <4>2
    <3>4. QED
      BY <3>1, <3>2, <3>3, <1>3, <1>4
  <2>2. ASSUME NEW i \in 1..Len(data'), NEW j \in 1..Len(data'), i < j,
               data'[i].op = "DATA", data'[j].op = "DATA"
        PROVE  data'[i].chunk <= data'[j].chunk
    <3>1. PICK a \in 1..Len(data), b \in 1..Len(data) :
              a < b /\ data'[i] = data[a] /\ data'[j] = data[b]
      BY <1>2, <2>2 DEF Thinned
    <3>2. QED
      BY <2>2, <3>1 DEF IInv, DataInOrder
  <2>3. QED
    BY <2>1, <2>2, <1>1, <1>5 DEF DataInOrder
<1>7. AcksInOrder'
  <2>1. /\ Number(cur)' = Number(cur) /\ Number(cur - 1)' = Number(cur - 1)
        /\ Got = cur => Got' = cur
    BY <1>1, <1>3, <1>4, <1>5 DEF Number
  <2>2. QED
    BY <1>1, <2>1 DEF IInv, AcksInOrder
<1>8. written' = IF p.chunk = Got + 1 /\ Number(p.chunk) # 0
                 THEN write_data_to_file(written, p.chunk) ELSE written
  <2>1. last_block_ack = Number(Got) /\ Number(Got) \in 0..(Wrap - 1) /\ Wrap \in Nat
    BY <1>1, <1>4, Numbers, Sizes DEF IInv, Position
  <2>2. written' = IF Number(p.chunk) > Number(Got)
                   THEN write_data_to_file(written, p.chunk) ELSE written
    BY <1>3, <2>1 DEF ReceiveData, Newer
  <2>3. Number(p.chunk) > Number(Got) <=> p.chunk = Got + 1 /\ Number(p.chunk) # 0
    <3>1. CASE p.chunk = Got
      BY <3>1, <1>4, <2>1
    <3>2. CASE p.chunk = Got + 1
      BY <3>2, <1>4, Numbers
    <3>3. QED
      BY <3>1, <3>2, <1>4
  <2>4. QED
    BY <2>2, <2>3
<1>9. QED
  BY <1>2, <1>3, <1>4, <1>5, <1>6, <1>7, <1>8

\* What is stored when a DATA packet was received.
LEMMA Storing ==
    ASSUME ~ Reordering, IInv, NEW p, ReceiveData(p)
    PROVE  written' \in Seq(1..N) /\ Stored' /\ Prefix'
<1> DEFINE c == p.chunk
<1>1. /\ c \in 1..N /\ (c = Got \/ c = Got + 1) /\ Got' = c
      /\ written' = IF c = Got + 1 /\ Number(c) # 0 THEN write_data_to_file(written, c)
                    ELSE written
  BY Receiving
<1>2. /\ Supported' = Supported /\ \A x : Number(x)' = Number(x)
      /\ written \in Seq(1..N) /\ Got \in 0..N /\ N \in Nat
  BY GotFacts DEF ReceiveData, Receive, Supported, Number, IInv, Typed
<1> HIDE DEF c
<1>3. CASE ~ Supported
  <2>1. written' = written
    BY <1>1, <1>3 DEF write_data_to_file
  <2>2. QED
    BY <1>2, <1>3, <2>1 DEF Stored, Prefix
<1>4. CASE Supported /\ ~ (c = Got + 1 /\ Number(c) # 0)
  <2>1. written' = written
    BY <1>1, <1>4
  <2>2. Stored'
    <3>1. {x \in 1..c : Number(x) # 0} = {x \in 1..Got : Number(x) # 0}
      BY <1>1, <1>2, <1>4
    <3>2. QED
      BY <1>1, <1>2, <1>4, <2>1, <3>1 DEF IInv, Stored
  <2>3. Prefix'
    <3>1. N < Wrap => Number(c) # 0
      <4>1. N < Wrap => c \in Nat /\ c < Wrap /\ c # 0
        BY <1>1, <1>2, Sizes
      <4>2. QED
        BY <4>1, Numbers
    <3>2. N < Wrap => c = Got
      BY <1>1, <1>4, <3>1
    <3>3. QED
      BY <1>1, <1>2, <2>1, <3>2 DEF IInv, Prefix
  <2>4. QED
    BY <1>2, <2>1, <2>2, <2>3
<1>5. CASE Supported /\ c = Got + 1 /\ Number(c) # 0
  <2>1. /\ written' = Append(written, c)
        /\ written' \in Seq(1..N) /\ Len(written) \in Nat
        /\ Len(written') = Len(written) + 1
        /\ \A i \in 1..Len(written) : written'[i] = written[i]
        /\ written'[Len(written) + 1] = c
        /\ Range(written') = Range(written) \cup {c}
        /\ DOMAIN written = 1..Len(written) /\ DOMAIN written' = 1..Len(written')
    <3>1. written' = Append(written, c)
      BY <1>1, <1>5 DEF write_data_to_file
    <3> DEFINE S == 1..N
    <3>2. c \in S /\ written \in Seq(S)
      BY <1>1, <1>2
    <3> HIDE DEF S
    <3>3. /\ Append(written, c) \in Seq(S)
          /\ Len(Append(written, c)) = Len(written) + 1
          /\ \A i \in 1..Len(written) : Append(written, c)[i] = written[i]
          /\ Append(written, c)[Len(written) + 1] = c
          /\ Range(Append(written, c)) = Range(written) \cup {c}
      BY <3>2, Appending
    <3>4. /\ DOMAIN written = 1..Len(written) /\ Len(written) \in Nat
          /\ DOMAIN Append(written, c) = 1..Len(Append(written, c))
      BY <3>2, <3>3, Positions
    <3>5. QED
      BY <3>1, <3>3, <3>4 DEF S
  <2>2. /\ Range(written) = {x \in 1..Got : Number(x) # 0}
        /\ \A i, j \in 1..Len(written) : i < j => written[i] < written[j]
    BY <1>5, <2>1 DEF IInv, Stored
  <2>3. Stored'
    <3>1. Range(written') = {x \in 1..c : Number(x) # 0}
      BY <1>1, <1>2, <1>5, <2>1, <2>2
    <3>2. \A i \in 1..Len(written) : written[i] \in 1..Got
      <4>1. \A i \in 1..Len(written) : written[i] \in Range(written)
        BY <1>2, Positions
      <4>2. QED
        BY <4>1, <2>2
    <3>3. ASSUME NEW i \in 1..Len(written'), NEW j \in 1..Len(written'), i < j
          PROVE  written'[i] < written'[j]
      <4>1. i \in 1..Len(written) /\ written'[i] = written[i]
        BY <3>3, <2>1
      <4>2. CASE j \in 1..Len(written)
        BY <4>1, <4>2, <3>3, <2>1, <2>2
      <4>3. CASE j = Len(written) + 1
        BY <4>1, <4>3, <3>2, <2>1, <1>2, <1>5
      <4>4. QED
        BY <4>2, <4>3, <2>1
    <3>4. QED
      BY <3>1, <3>3, <2>1, <1>1, <1>2 DEF Stored
  <2>4. Prefix'
    <3>1. SUFFICES ASSUME N < Wrap
                   PROVE  Len(written') = c /\ \A i \in 1..c : written'[i] = i
      BY <1>1, <1>2 DEF Prefix
    <3>2. Len(written) = Got /\ \A i \in 1..Got : written[i] = i
      BY <3>1, <1>5 DEF IInv, Prefix
    <3>3. QED
      BY <3>2, <2>1, <1>2, <1>5
  <2>5. QED
    BY <2>1, <2>3, <2>4
<1>6. QED
  BY <1>3, <1>4, <1>5

\* A DATA packet is received.
LEMMA ReceiveDataStep ==
    ASSUME ~ Reordering, IInv, NEW p, ReceiveData(p)
    PROVE  IInv'
<1>1. /\ p.chunk \in 1..N /\ p.block = Number(p.chunk) /\ p.chunk \in Got..cur
      /\ Got' = p.chunk
      /\ data' \in Seq(DataPackets) /\ DataInOrder' /\ AcksInOrder'
  BY Receiving
<1>2. written' \in Seq(1..N) /\ Stored' /\ Prefix'
  BY Storing
<1>3. /\ UNCHANGED <<mode, cur, acks, cpc>>
      /\ pc' = "send" /\ block_num' = p.block
      /\ _EOF' = (_EOF \/ p.chunk >= N)
  BY DEF ReceiveData, Receive, client, Short
<1>4. Typed'
  BY <1>1, <1>2, <1>3 DEF IInv, Typed, Exits
<1>5. Position'
  <2>1. /\ Got \in 0..N /\ cur \in 0..N /\ N \in Nat
    BY GotFacts DEF IInv
  <2>2. Got = N => p.chunk = N
    BY <2>1, <1>1
  <2>3. /\ _EOF' => p.chunk = N
        /\ cpc' = "done" => p.chunk = N
    <3>1. p.chunk >= N => p.chunk = N
      BY <1>1, <2>1
    <3>2. (_EOF \/ cpc = "done") => Got = N
      BY DEF IInv, Position
    <3>3. QED
      BY <1>3, <2>2, <3>1, <3>2
  <2>4. block_num' = Number(p.chunk)'
    BY <1>1, <1>3 DEF Number
  <2>5. QED
    BY <1>1, <1>3, <2>1, <2>3, <2>4 DEF Position, Number
<1>6. QED
  BY <1>1, <1>2, <1>4, <1>5 DEF IInv

\* An acknowledgement of the client's chunk shows that the child has received it, and
\* nothing older is in flight: the client goes on to the next one.
LEMMA ClientNextStep ==
    ASSUME ~ Reordering, IInv, NEW p, ClientNext(p)
    PROVE  IInv'
<1>1. /\ ClientReceive(p) /\ p.op = "ACK" /\ p.block = Number(cur) /\ cur < N
      /\ cur' = cur + 1
      /\ data' = SendTo(data, Data(Number(cur'), cur'))
      /\ UNCHANGED <<cpc, pc, mode, block_num, last_block_ack, _EOF, written>>
  BY DEF ClientNext, ClientReceive, child
<1>2. /\ p \in AckPackets /\ 1 \in 1..Len(acks) /\ p = acks[1]
      /\ acks' \in Seq(AckPackets) /\ Thinned(acks', acks)
  BY <1>1, ClientReceives DEF IInv
<1>3. /\ cur \in 0..N /\ cur \in Nat /\ N \in Nat /\ Got \in 0..N
      /\ cur + 1 \in 1..N
      /\ cur > 0 => Number(cur - 1) # Number(cur)
      /\ Number(cur + 1) # Number(cur)
  <2>1. cur \in 0..N /\ N \in Nat /\ Got \in 0..N
    BY GotFacts DEF IInv
  <2>2. cur > 0 => cur - 1 \in Nat /\ (cur - 1) + 1 = cur
    BY <2>1
  <2>3. cur \in Nat /\ cur + 1 \in 1..N
    BY <2>1, <1>1
  <2>4. QED
    BY <2>1, <2>2, <2>3, Numbers
<1>4. Got = cur
  BY <1>1, <1>2, <1>3 DEF IInv, AcksInOrder
<1>5. Got' = Got /\ cur' - 1 = cur /\ \A c : Number(c)' = Number(c)
  <2>1. block_num' = Number(cur)
    BY <1>1, <1>4 DEF IInv, Position
  <2>2. Got' = IF block_num' = Number(cur + 1) THEN cur + 1 ELSE (cur + 1) - 1
    BY <1>1 DEF Got, Number
  <2>3. QED
    BY <2>1, <2>2, <1>1, <1>3, <1>4 DEF Number
<1>6. \A i \in 1..Len(acks') : acks'[i].op = "ACK" => acks'[i].block = Number(cur)
  <2>1. ASSUME NEW i \in 1..Len(acks'), acks'[i].op = "ACK"
        PROVE  acks'[i].block = Number(cur)
    <3>1. PICK a \in 1..Len(acks) : acks'[i] = acks[a]
      BY <1>2 DEF Thinned
    <3>2. CASE a = 1
      BY <3>1, <3>2, <1>1, <1>2
    <3>3. CASE a # 1
      <4>1. 1 < a
        BY <3>3
      <4>2. QED
        BY <4>1, <3>1, <2>1, <1>1, <1>2 DEF IInv, AcksInOrder
    <3>4. QED
      BY <3>2, <3>3
  <2>2. QED
    BY <2>1
<1>7. AcksInOrder'
  <2>1. cur' > 0 /\ Number(cur' - 1) = Number(cur) /\ Number(cur') # Number(cur)
    BY <1>1, <1>3, <1>5
  <2>2. QED
    BY <1>5, <1>6, <2>1 DEF AcksInOrder
<1>8. data' \in Seq(DataPackets) /\ DataInOrder'
  <2> DEFINE m == Data(Number(cur'), cur')
  <2>1. m \in DataPackets /\ m.op = "DATA" /\ m.chunk = cur + 1
    BY <1>1, <1>3, PacketSets, PacketFields
  <2>2. data \in Seq(DataPackets)
    BY DEF IInv, Typed
  <2>3. data' = SendTo(data, m)
    BY <1>1
  <2> HIDE DEF m
  <2> DEFINE new == SendTo(data, m)
  <2>4. /\ new \in Seq(DataPackets)
        /\ \A i \in 1..Len(new) : new[i] = m \/ (i \in 1..Len(data) /\ new[i] = data[i])
        /\ \A i, j \in 1..Len(new) : i < j => i \in 1..Len(data) /\ new[i] = data[i]
    BY <2>1, <2>2, SentTo, SentBehind
  <2> HIDE DEF new
  <2>5. \A i \in 1..Len(data) : data[i].op = "DATA" => data[i].chunk = cur
    BY <1>3, <1>4 DEF IInv, DataInOrder
  <2>6. \A i \in 1..Len(new) : new[i].op = "DATA" => new[i].chunk \in cur..(cur + 1)
    BY <2>1, <2>4, <2>5, <1>3
  <2>7. ASSUME NEW i \in 1..Len(new), NEW j \in 1..Len(new), i < j,
               new[i].op = "DATA", new[j].op = "DATA"
        PROVE  new[i].chunk <= new[j].chunk
    <3>1. new[i].chunk = cur
      BY <2>4, <2>5, <2>7
    <3>2. QED
      BY <3>1, <2>6, <2>7, <1>3
  <2>8. data' = new
    BY <2>3 DEF new
  <2>9. QED
    BY <2>4, <2>6, <2>7, <2>8, <1>1, <1>4, <1>5 DEF DataInOrder
<1>9. Typed'
  BY <1>1, <1>2, <1>3, <1>8 DEF IInv, Typed
<1>10. Position'
  BY <1>1, <1>5 DEF IInv, Position
<1>11. Stored' /\ Prefix'
  BY <1>1, <1>5 DEF IInv, Stored, Prefix, Supported
<1>12. QED
  BY <1>7, <1>8, <1>9, <1>10, <1>11 DEF IInv

\* The last chunk is acknowledged: the child has it.
LEMMA ClientDoneStep ==
    ASSUME ~ Reordering, IInv, NEW p, ClientDone(p)
    PROVE  IInv'
<1>1. /\ ClientReceive(p) /\ p.op = "ACK" /\ p.block = Number(cur) /\ cur = N
      /\ UNCHANGED <<data, cur, pc, mode, block_num, last_block_ack, _EOF, written>>
  BY DEF ClientDone, ClientReceive, child
<1>2. /\ p \in AckPackets /\ 1 \in 1..Len(acks) /\ p = acks[1]
      /\ acks' \in Seq(AckPackets) /\ AcksInOrder'
  BY <1>1, ClientReceives, AcksThin DEF IInv
<1>3. Got = N
  <2>1. cur > 0 /\ cur - 1 \in Nat /\ (cur - 1) + 1 = cur
    BY <1>1, Sizes
  <2>2. Number(cur - 1) # Number(cur)
    BY <2>1, Numbers
  <2>3. QED
    BY <1>1, <1>2, <2>2 DEF IInv, AcksInOrder
<1>4. Typed' /\ DataInOrder'
  BY <1>1, <1>2 DEF IInv, Typed, DataInOrder, Got, Number
<1>5. QED
  BY <1>1, <1>2, <1>3, <1>4, QuietStep DEF IInv, Position

\* What the client repeats is its current chunk.
LEMMA Resending ==
    ASSUME IInv, UNCHANGED <<cur, block_num>>, data' = Resend
    PROVE  data' \in Seq(DataPackets) /\ DataInOrder'
<1>1. CASE cur = 0
  BY <1>1 DEF Resend, IInv, Typed, DataInOrder, Got, Number
<1>2. CASE cur # 0
  <2>1. cur \in 1..N
    BY <1>2, Sizes DEF IInv, Typed
  <2>2. Data(Number(cur), cur) \in DataPackets /\ Data(Number(cur), cur).chunk = cur
    BY <2>1, PacketSets, PacketFields
  <2>3. data' = SendTo(data, Data(Number(cur), cur))
    BY <1>2 DEF Resend
  <2>4. QED
    BY <2>2, <2>3, DataSent DEF IInv
<1>3. QED
  BY <1>1, <1>2

\* The other steps of the client and the network.
LEMMA OtherClientStep ==
    ASSUME ~ Reordering, IInv,
           \/ \E p : ClientDuplicate(p) \/ ClientRefused(p)
           \/ ClientTimeout \/ ClientQuit \/ Lose
    PROVE  IInv'
<1>1. /\ UNCHANGED <<cur, pc, mode, block_num, last_block_ack, _EOF, written>>
      /\ cpc' = "done" => cpc = "done"
  BY DEF ClientDuplicate, ClientRefused, ClientReceive, ClientTimeout, ClientQuit, Lose,
         child, client
<1>2. acks' \in Seq(AckPackets) /\ AcksInOrder'
  <2>1. CASE UNCHANGED acks
    BY <2>1, <1>1 DEF IInv, Typed, AcksInOrder, Got, Number
  <2>2. ASSUME NEW p, ClientReceive(p)
        PROVE  acks' \in Seq(AckPackets) /\ AcksInOrder'
    BY <2>2, <1>1, ClientReceives, AcksThin DEF IInv
  <2>3. CASE acks' \in AfterLoss(acks)
    <3>1. acks \in Seq(AckPackets)
      BY DEF IInv, Typed
    <3>2. acks' \in Seq(AckPackets) /\ Thinned(acks', acks)
      BY <3>1, <2>3, Dropped
    <3>3. QED
      BY <3>2, <1>1, AcksThin DEF IInv
  <2>4. QED
    BY <2>1, <2>2, <2>3 DEF ClientDuplicate, ClientRefused, ClientTimeout, ClientQuit, Lose
<1>3. data' \in Seq(DataPackets) /\ DataInOrder'
  <2>1. CASE UNCHANGED data
    BY <2>1, <1>1 DEF IInv, Typed, DataInOrder, Got, Number
  <2>2. CASE data' = Resend
    BY <2>2, <1>1, Resending
  <2>3. CASE data' = SendTo(data, Error(0))
    BY <2>3, <1>1, PacketSets, PacketFields, DataSent DEF IInv
  <2>4. CASE data' = SendTo(data, Other)
    BY <2>4, <1>1, PacketSets, PacketFields, DataSent DEF IInv
  <2>5. CASE data' \in AfterLoss(data)
    <3>1. data \in Seq(DataPackets)
      BY DEF IInv, Typed
    <3>2. data' \in Seq(DataPackets) /\ Thinned(data', data)
      BY <3>1, <2>5, Dropped
    <3>3. QED
      BY <3>2, <1>1, DataThins DEF IInv
  <2>6. QED
    BY <2>1, <2>2, <2>3, <2>4, <2>5
       DEF ClientDuplicate, ClientRefused, ClientTimeout, ClientQuit, Lose
<1>4. Typed'
  BY <1>1, <1>2, <1>3 DEF IInv, Typed
<1>5. QED
  BY <1>1, <1>2, <1>3, <1>4, QuietStep DEF IInv, Position

-----------------------------------------------------------------------------
(* The theorems *)

\* It holds at the start.
LEMMA InitIInv == Init => IInv
<1> SUFFICES ASSUME Init PROVE IInv
  OBVIOUS
<1>1. /\ \A S : <<>> \in Seq(S)
      /\ Len(<<>>) = 0 /\ DOMAIN <<>> = {} /\ Range(<<>>) = {}
  BY DEF Range
<1>2. Number(0) = 0 /\ N \in Nat \ {0} /\ Wrap \in Nat \ {0, 1} /\ 0 \in Nat
  BY Sizes, Numbers
<1>3. Got = 0 /\ cur = 0 /\ block_num = 0 /\ written = <<>> /\ data = <<>> /\ acks = <<>>
  BY <1>2 DEF Init, Got
<1>4. Typed
  BY <1>1, <1>2, <1>3 DEF Init, Typed
<1>5. Position
  BY <1>2, <1>3 DEF Init, Position
<1>6. DataInOrder /\ AcksInOrder
  BY <1>1, <1>3 DEF DataInOrder, AcksInOrder
<1>7. Stored /\ Prefix
  BY <1>1, <1>3 DEF Stored, Prefix
<1>8. QED
  BY <1>4, <1>5, <1>6, <1>7 DEF IInv

\* Every step keeps it, when the network keeps the order.
LEMMA NextIInv == ~ Reordering => (IInv /\ [Next]_vars => IInv')
<1> SUFFICES ASSUME ~ Reordering, IInv, [Next]_vars PROVE IInv'
  OBVIOUS
<1>1. CASE Server
  BY <1>1, StartStep, SendAckStep, TimeoutStep, ReceiveDataStep, ReceiveOtherStep DEF Server
<1>2. CASE Client
  BY <1>2, ClientNextStep, ClientDoneStep, OtherClientStep DEF Client
<1>3. CASE Lose
  BY <1>3, OtherClientStep
<1>4. CASE UNCHANGED vars
  <2>1. UNCHANGED <<cur, pc, mode, block_num, last_block_ack, _EOF, written, data, acks, cpc>>
    BY <1>4 DEF vars, child, network, client
  <2>2. Typed' /\ DataInOrder' /\ AcksInOrder'
    BY <2>1 DEF IInv, Typed, DataInOrder, AcksInOrder, Got, Number
  <2>3. QED
    BY <2>1, <2>2, QuietStep DEF IInv, Position
<1>5. QED
  BY <1>1, <1>2, <1>3, <1>4 DEF Next

\* The inductive invariant holds in every transfer over a network that keeps the order.
THEOREM Invariance == ASSUME ~ Reordering PROVE Spec => []IInv
<1>1. IInv /\ [Next]_vars => IInv'
  BY NextIInv
<1>2. QED
  BY <1>1, InitIInv, PTL DEF Spec

\* The child has received the client's current chunk or the one before it, also when
\* packets are lost or doubled and both sides repeat them.
THEOREM StopAndWait == ASSUME ~ Reordering PROVE Spec => []LockStep
<1>1. ASSUME IInv PROVE LockStep
  <2>1. /\ block_num = Number(Got) /\ Got \in {cur - 1, cur} /\ Got \in Nat
        /\ Wrap \in Nat \ {0, 1} /\ cur \in Nat
    BY <1>1, GotFacts, Sizes DEF IInv, Position, Typed
  <2>2. CASE Got = cur
    BY <2>1, <2>2 DEF LockStep
  <2>3. CASE Got = cur - 1
    <3>1. cur + Wrap - 1 = Got + Wrap
      BY <2>1, <2>3
    <3>2. Number(Got + Wrap) = Number(Got)
      BY <2>1, NumbersRepeat
    <3>3. QED
      BY <2>1, <3>1, <3>2 DEF LockStep
  <2>4. QED
    BY <2>1, <2>2, <2>3
<1>2. QED
  BY <1>1, Invariance, PTL

\* Exactly the chunks numbered 0 are missing from the file, however long it is.
THEOREM OnlyZeroDropped == ASSUME ~ Reordering PROVE Spec => []RolloverDropsZero
<1>1. IInv => RolloverDropsZero
  BY GotFacts DEF IInv, Stored, RolloverDropsZero
<1>2. QED
  BY <1>1, Invariance, PTL

\* A file whose blocks can be numbered without rolling over is whole when the child or
\* the client reports success.
THEOREM SuccessIsWhole ==
    ASSUME ~ Reordering, N < Wrap
    PROVE  Spec => []SuccessMeansWhole
<1>1. ASSUME IInv PROVE SuccessMeansWhole
  <2>1. SUFFICES ASSUME Supported, pc = "ok" \/ cpc = "done"
                 PROVE  written = [i \in 1..N |-> i]
    BY DEF SuccessMeansWhole
  <2>2. Got = N
    BY <1>1, <2>1 DEF IInv, Position
  <2>3. Len(written) = N /\ \A i \in 1..N : written[i] = i
    BY <1>1, <2>1, <2>2 DEF IInv, Prefix
  <2>4. written = [i \in 1..Len(written) |-> written[i]]
    BY <1>1 DEF IInv, Typed
  <2>5. QED
    BY <2>3, <2>4
<1>2. QED
  BY <1>1, Invariance, PTL

\* What the child stores implements FileTransfer: a step maps to a block delivered, to
\* the report of a whole copy, to giving up, or to none.
THEOREM Implementation ==
    ASSUME ~ Reordering, N < Wrap, Modes \subseteq {"octet", "netascii"}
    PROVE  Spec => ImplementsTransfer
<1> DEFINE State == CASE pc \in {"start", "send", "wait"} -> "running"
                      [] pc = "ok"                        -> "complete"
                      [] OTHER                            -> "aborted"
<1>1. Init => Transfer!Init
  BY DEF Init, Transfer!Init
<1>2. Init => Supported
  BY DEF Init, Supported
<1>3. Supported /\ [Next]_vars => Supported'
  BY DEF Supported, Next, Server, Client, Lose, StartOk, StartExists, StartFail, SendAck,
         Timeout, ReceiveData, ReceiveOther, Receive, ClientNext, ClientDone,
         ClientDuplicate, ClientRefused, ClientReceive, ClientTimeout, ClientQuit, vars, child
<1>4. ASSUME IInv, Supported, [Next]_vars PROVE [Transfer!Next]_(Transfer!vars)
  <2>1. CASE UNCHANGED <<pc, written>>
    BY <2>1 DEF Transfer!vars
  <2>2. CASE StartOk
    BY <2>2 DEF StartOk, Transfer!vars
  <2>3. CASE StartExists \/ StartFail
    <3>1. pc = "start" /\ pc' \in {"exists", "initfail", "noopen"} /\ written' = written
      BY <2>3 DEF StartExists, StartFail
    <3>2. QED
      BY <3>1 DEF Transfer!Next, Transfer!Abort
  <2>4. CASE SendAck
    <3>1. pc = "send" /\ pc' = (IF _EOF THEN "ok" ELSE "wait") /\ written' = written
      BY <2>4 DEF SendAck
    <3>2. CASE _EOF
      <4>1. Len(written) = N
        BY <1>4, <3>2 DEF IInv, Position, Prefix
      <4>2. QED
        BY <3>1, <3>2, <4>1 DEF Transfer!Next, Transfer!Report
    <3>3. CASE ~ _EOF
      BY <3>1, <3>3 DEF Transfer!vars
    <3>4. QED
      BY <3>2, <3>3
  <2>5. CASE Timeout
    <3>1. pc = "wait" /\ pc' \in {"send", "timedout"} /\ written' = written
      BY <2>5 DEF Timeout
    <3>2. QED
      BY <3>1 DEF Transfer!Next, Transfer!Abort, Transfer!vars
  <2>6. ASSUME NEW p, ReceiveOther(p) PROVE [Transfer!Next]_(Transfer!vars)
    <3>1. pc = "wait" /\ pc' \in {"peererror", "unknown"} /\ written' = written
      BY <2>6 DEF ReceiveOther, Receive
    <3>2. QED
      BY <3>1 DEF Transfer!Next, Transfer!Abort
  <2>7. ASSUME NEW p, ReceiveData(p) PROVE [Transfer!Next]_(Transfer!vars)
    <3>1. pc = "wait" /\ pc' = "send"
      BY <2>7 DEF ReceiveData, Receive
    <3>2. CASE written' = written
      BY <3>1, <3>2 DEF Transfer!vars
    <3>3. CASE written' # written
      <4>1. p.chunk = Got + 1 /\ p.chunk \in 1..N /\ written' = Append(written, p.chunk)
        BY <1>4, <2>7, <3>3, Receiving DEF write_data_to_file
      <4>2. Len(written) = Got
        BY <1>4 DEF IInv, Prefix
      <4>3. Len(written) < N /\ written' = Append(written, Len(written) + 1)
        BY <4>1, <4>2, <1>4, GotFacts DEF IInv
      <4>4. QED
        BY <3>1, <4>3 DEF Transfer!Next, Transfer!Deliver
    <3>4. QED
      BY <3>2, <3>3
  <2>8. CASE Client \/ Lose \/ UNCHANGED vars
    <3>1. UNCHANGED <<pc, written>>
      BY <2>8 DEF Client, Lose, ClientNext, ClientDone, ClientDuplicate, ClientRefused,
                  ClientReceive, ClientTimeout, ClientQuit, vars, child
    <3>2. QED
      BY <3>1, <2>1
  <2>9. QED
    BY <1>4, <2>2, <2>3, <2>4, <2>5, <2>6, <2>7, <2>8 DEF Next, Server
<1>5. QED
  BY <1>1, <1>2, <1>3, <1>4, Invariance, PTL DEF Spec, ImplementsTransfer, Transfer!Spec
=============================================================================
