--------------------------- MODULE SbcpChatProofs ---------------------------
(***************************************************************************)
(* Proofs about SbcpChat for any number of clients, names and lines, any   *)
(* limit and any sizes of a message and of a read.                         *)
(***************************************************************************)
EXTENDS SbcpChat, ListProofs

\* The messages a client may send.
FromClient(c) ==
    {make_msg_join(c, my_name[c]), make_msg_idle_c(c)}
        \cup {make_msg_send(c, i) : i \in 1..MaxLines}

\* TypeOK is not inductive: it does not say that a message on its way to the server
\* is one of the client's, nor that the count in an ACK is bounded.
Typed ==
    /\ TypeOK
    /\ \A c \in Clients : up[c] \in Seq(FromClient(c))
    /\ buf.type = "SEND" => buf.by \in Clients /\ buf.n \in 1..MaxLines

\* Where a connection is: waiting to be accepted, in the list or closed.
Places ==
    /\ IsInjective(list) /\ IsInjective(backlog) /\ IsInjective(todo)
    /\ Range(list) \cap Range(backlog) = {}
    /\ closed \cap (Range(list) \cup Range(backlog)) = {}
    /\ \A c \in Clients : cpc[c] = "off" =>
            c \notin Range(list) \cup Range(backlog) \cup closed

\* What the traversal has still to visit are nodes of the list, but for the one
\* whose message is interpreted, which may have been removed.
Traversal ==
    /\ pc = "select" => todo = <<>>
    /\ pc = "visit" => Range(todo) \subseteq Range(list)
    /\ pc = "parse" =>
        /\ todo # <<>>
        /\ Head(todo) \in Range(list) \cup closed
        /\ Range(Tail(todo)) \subseteq Range(list)

\* A name is that of a connection that was accepted, and its client's.
Named == \A c \in Clients :
    /\ username[c] \in {NoName, my_name[c]}
    /\ username[c] # NoName =>
            c \in Range(list) \cup closed /\ cpc[c] \notin {"off", "connected"}

\* A client sends one JOIN, before anything else, and the server reads it whole.
JoinFirst == \A c \in Clients :
    /\ cpc[c] \in {"off", "connected"} => up[c] = <<>>
    /\ up[c] = <<>> => offset[c] = 0
    /\ \A i \in 1..Len(up[c]) : up[c][i].type = "JOIN" =>
            i = 1 /\ offset[c] = 0 /\ username[c] = NoName

\* A JOIN in the buffer is the one just received from the node visited.
JoinHere == buf.type = "JOIN" =>
    LET c == Head(todo) IN
    /\ pc = "parse" /\ c \in Range(list)
    /\ buf = make_msg_join(c, my_name[c])
    /\ username[c] = NoName
    /\ cpc[c] \notin {"off", "connected"}
    /\ \A i \in 1..Len(up[c]) : up[c][i].type # "JOIN"

\* A line in the buffer is of the node visited, unless that has ended.
SendHere == pc = "parse" /\ buf.type = "SEND" =>
    \/ buf.by = Head(todo)
    \/ Head(todo) \in closed
    \/ peer[Head(todo)] = "broken"

\* A socket is closed by the end of its client only.
Sockets == \A c \in Clients : peer[c] # "alive" => cpc[c] = "exit"

\* A line typed when the server had read everything before it is forwarded, is about
\* to be, or is what the server will read next.
LinePending == \A c \in Clients \ closed : \A i \in alone[c] :
    \/ Dead
    \/ <<c, i>> \in forwarded[c]
    \/ up[c] # <<>> /\ offset[c] = 0 /\ Head(up[c]) = make_msg_send(c, i)
    \/ pc = "parse" /\ Head(todo) = c /\ buf = make_msg_send(c, i)

IInv ==
    /\ Typed /\ Places /\ Traversal /\ Named
    /\ JoinFirst /\ JoinHere /\ SendHere /\ Sockets
    /\ UniqueNames /\ JoinedBound /\ RosterKnown
    /\ LinePending /\ OwnLines

-----------------------------------------------------------------------------
(* Messages and sockets *)

\* The fields of messages and the sets they belong to.
LEMMA MessageFacts ==
    ASSUME Typed
    PROVE  /\ \A c \in Clients : FromClient(c) \subseteq Messages
           /\ \A c \in Clients : \A m \in FromClient(c) :
                /\ m.by = c /\ m.type \in {"JOIN", "SEND", "IDLE"}
                /\ m.type = "JOIN" => m = make_msg_join(c, my_name[c])
                /\ m.type = "SEND" => m.n \in 1..MaxLines /\ m = make_msg_send(c, m.n)
           /\ Noise \in Messages /\ Noise.type = "NONE"
           /\ make_msg_nak \in Messages /\ make_msg_nak.type = "NAK"
           /\ Reply(buf) \in Messages /\ Reply(buf).type = "REPLY"
           /\ \A n \in 0..Cardinality(Clients) :
                make_msg_ack(n) \in Messages /\ make_msg_ack(n).type = "ACK"
           /\ \A x \in Names \cup {NoName} :
                /\ make_msg_offline(x) \in Messages
                /\ make_msg_offline(x).type = "OFFLINE" /\ make_msg_offline(x).name = x
                /\ make_msg_online(x) \in Messages
                /\ make_msg_online(x).type = "ONLINE" /\ make_msg_online(x).name = x
                /\ make_msg_idle_s(x) \in Messages /\ make_msg_idle_s(x).type = "IDLE"
                /\ buf.type = "SEND" => make_msg_fwd(buf, x) \in Messages
                                        /\ make_msg_fwd(buf, x).type = "FWD"
<1>1. MaxLines \in Nat /\ Cardinality(Clients) \in Nat
  BY ChatAssumption, FS_CardinalityType
<1>2. my_name \in [Clients -> Names]
  BY DEF Typed, TypeOK
<1>3. buf.type = "SEND" => buf.by \in Clients /\ buf.n \in 1..MaxLines
  BY DEF Typed
<1> USE <1>1, <1>2, <1>3
    DEF Messages, FromClient, Msg, Nobody, Noise, make_msg_join, make_msg_send, make_msg_idle_c,
        make_msg_nak, Reply, make_msg_ack, make_msg_offline, make_msg_online, make_msg_idle_s,
        make_msg_fwd
<1>4. \A c \in Clients : FromClient(c) \subseteq Messages
  OBVIOUS
<1>5. ASSUME NEW c \in Clients, NEW m \in FromClient(c)
      PROVE  /\ m.by = c /\ m.type \in {"JOIN", "SEND", "IDLE"}
             /\ m.type = "JOIN" => m = make_msg_join(c, my_name[c])
             /\ m.type = "SEND" => m.n \in 1..MaxLines /\ m = make_msg_send(c, m.n)
  BY <1>5
<1>6. /\ Noise \in Messages /\ Noise.type = "NONE"
      /\ make_msg_nak \in Messages /\ make_msg_nak.type = "NAK"
      /\ Reply(buf) \in Messages /\ Reply(buf).type = "REPLY"
  OBVIOUS
<1>7. \A n \in 0..Cardinality(Clients) :
        make_msg_ack(n) \in Messages /\ make_msg_ack(n).type = "ACK"
  OBVIOUS
<1>8. ASSUME NEW x \in Names \cup {NoName}
      PROVE  /\ make_msg_offline(x) \in Messages
             /\ make_msg_offline(x).type = "OFFLINE" /\ make_msg_offline(x).name = x
             /\ make_msg_online(x) \in Messages
             /\ make_msg_online(x).type = "ONLINE" /\ make_msg_online(x).name = x
             /\ make_msg_idle_s(x) \in Messages /\ make_msg_idle_s(x).type = "IDLE"
             /\ buf.type = "SEND" => make_msg_fwd(buf, x) \in Messages
                                     /\ make_msg_fwd(buf, x).type = "FWD"
  BY <1>8
<1>9. QED
  BY <1>4, <1>5, <1>6, <1>7, <1>8

PeerStates == {"alive", "fin", "finreset", "reset", "broken"}

\* What a connection was told of, after message m.
Told(names, m) == CASE m.type = "ONLINE"  -> names \cup {m.name}
                    [] m.type = "OFFLINE" -> names \ {m.name}
                    [] OTHER              -> names

\* What a round of server_write does: it opens no socket, mends no broken one, and
\* tells each connection it writes to.
LEMMA Writing ==
    ASSUME Typed, NEW to \in SUBSET Clients, NEW msg \in [to -> Messages], NEW alive,
           Write(msg, alive)
    PROVE  /\ down' \in [Clients -> Seq(Messages)]
           /\ peer' \in [Clients -> PeerStates]
           /\ \A c \in Clients : /\ peer'[c] = "alive" <=> peer[c] = "alive"
                                 /\ peer[c] = "broken" => peer'[c] = "broken"
           /\ heard' \in [Clients -> SUBSET (Names \cup {NoName})]
           /\ \A c \in to : heard'[c] = Told(heard[c], msg[c])
           /\ \A c \in Clients \ to : heard'[c] = heard[c]
           /\ pc' \in {"sigpipe", alive}
<1>1. /\ down \in [Clients -> Seq(Messages)]
      /\ peer \in [Clients -> PeerStates]
      /\ heard \in [Clients -> SUBSET (Names \cup {NoName})]
  BY DEF Typed, TypeOK, PeerStates
<1>2. DOMAIN msg = to /\ \A c \in to : msg[c] \in Messages
  OBVIOUS
<1>3. down' \in [Clients -> Seq(Messages)]
  <2>1. \A c \in to : Append(down[c], msg[c]) \in Seq(Messages)
    BY <1>1, <1>2, AppendProperties
  <2>2. QED
    BY <2>1, <1>1, <1>2 DEF Write
<1>4. /\ peer' \in [Clients -> PeerStates]
      /\ \A c \in Clients : /\ peer'[c] = "alive" <=> peer[c] = "alive"
                            /\ peer[c] = "broken" => peer'[c] = "broken"
  <2>1. PICK p \in [to -> PeerStates] :
            /\ \A c \in to : p[c] \in AfterSend(peer[c])
            /\ peer' = [c \in Clients |-> IF c \in to THEN p[c] ELSE peer[c]]
    BY <1>2 DEF Write, PeerStates
  <2>2. peer' \in [Clients -> PeerStates]
    BY <2>1, <1>1
  <2>3. ASSUME NEW c \in Clients
        PROVE  /\ peer'[c] = "alive" <=> peer[c] = "alive"
               /\ peer[c] = "broken" => peer'[c] = "broken"
    BY <2>1, <1>1 DEF AfterSend, PeerStates
  <2>4. QED
    BY <2>2, <2>3
<1>5. \A c \in Clients : heard'[c] = IF c \in to THEN Told(heard[c], msg[c]) ELSE heard[c]
  BY <1>2 DEF Write, Told
<1>6. heard' \in [Clients -> SUBSET (Names \cup {NoName})]
  <2>1. \A c \in to : msg[c].name \in Names \cup {NoName}
    BY <1>2 DEF Messages
  <2>2. \A c \in to : Told(heard[c], msg[c]) \in SUBSET (Names \cup {NoName})
    BY <2>1, <1>1 DEF Told
  <2>3. DOMAIN heard' = Clients /\ heard' = [c \in Clients |-> heard'[c]]
    BY <1>2 DEF Write
  <2>4. QED
    BY <2>2, <2>3, <1>1, <1>5
<1>7. pc' \in {"sigpipe", alive}
  BY DEF Write
<1>8. QED
  BY <1>3, <1>4, <1>5, <1>6, <1>7

\* A read takes the first message whole when it starts with it, and stops within
\* a message only if others follow.
LEMMA Reading ==
    ASSUME Typed, NEW c \in Clients, up[c] # <<>>
    PROVE  LET k == Consumed(c) \div MsgLen IN
           /\ k \in 0..Len(up[c])
           /\ Consumed(c) % MsgLen \in 0..(MsgLen - 1)
           /\ k >= 1
           /\ k = Len(up[c]) => Consumed(c) % MsgLen = 0
<1>1. /\ MsgLen \in Nat \ {0} /\ ReadLen \in Nat /\ ReadLen >= MsgLen
      /\ offset[c] \in 0..(MsgLen - 1)
      /\ Len(up[c]) \in Nat \ {0}
  BY ChatAssumption, Positions DEF Typed, TypeOK
<1> DEFINE n == Len(up[c])
           x == Consumed(c)
<1>2. n * MsgLen \in Nat /\ n * MsgLen >= MsgLen
  BY <1>1
<1>3. x \in Nat /\ x <= n * MsgLen /\ x >= MsgLen
  BY <1>1, <1>2 DEF Consumed
<1> HIDE DEF n, x
<1> DEFINE q == x \div MsgLen
           r == x % MsgLen
<1>5. q \in Nat /\ r \in 0..(MsgLen - 1) /\ x = MsgLen * q + r
  BY <1>1, <1>3, Dividing
<1> HIDE DEF q, r
<1>6. q >= 1
  BY <1>1, <1>3, <1>5
<1>7. n \in Nat /\ q <= n
  BY <1>1, <1>2, <1>3, <1>5 DEF n
<1>8. q = n => r = 0
  BY <1>1, <1>3, <1>5, <1>7
<1>9. QED
  BY <1>5, <1>6, <1>7, <1>8 DEF n, x, q, r
-----------------------------------------------------------------------------
(* The steps of the server *)

\* What the client sends does not change with the state.
LEMMA SameMessages ==
    ASSUME UNCHANGED my_name
    PROVE  \A c \in Clients : FromClient(c)' = FromClient(c)
  BY DEF FromClient, make_msg_join, make_msg_idle_c, make_msg_send, Msg

\* The fields of the messages a client sends.
LEMMA SentFields ==
    /\ \A c, i : /\ make_msg_send(c, i).type = "SEND"
                 /\ make_msg_send(c, i).by = c /\ make_msg_send(c, i).n = i
    /\ \A c : make_msg_idle_c(c).type = "IDLE"
    /\ \A c, name : make_msg_join(c, name).type = "JOIN"
    /\ Noise.type = "NONE" /\ Reply(buf).type = "REPLY"
  BY DEF make_msg_send, make_msg_idle_c, make_msg_join, Noise, Reply, Msg

\* The traversal goes on past a node, or ends.
LEMMA SkipStep == ASSUME IInv, Skip PROVE IInv'
<1> USE DEF server, sockets, clients, history
<1>1. todo \in Seq(Clients) /\ IsInjective(todo)
  BY DEF IInv, Typed, TypeOK, Places
<1>2. /\ todo' \in Seq(Clients) /\ IsInjective(todo')
      /\ Range(todo') \subseteq Range(todo)
      /\ pc = "visit"
      /\ pc' = "visit" \/ (pc' = "select" /\ todo' = <<>>)
  <2>1. CASE todo = <<>>
    BY <2>1, <1>1 DEF Skip
  <2>2. CASE todo # <<>>
    <3>1. /\ Tail(todo) \in Seq(Clients) /\ IsInjective(Tail(todo))
          /\ Range(Tail(todo)) \subseteq Range(todo)
      BY <2>2, <1>1, TakingOff
    <3>2. QED
      BY <2>2, <3>1 DEF Skip
  <2>3. QED
    BY <2>1, <2>2
<1>11. Typed'
  BY SameMessages, <1>2 DEF IInv, Skip, Typed, TypeOK
<1>12. Places'
  BY <1>2 DEF IInv, Skip, Places
<1>13. Traversal'
  BY <1>2 DEF IInv, Skip, Traversal
<1>14. Named'
  BY DEF IInv, Skip, Named
<1>15. JoinFirst'
  BY DEF IInv, Skip, JoinFirst
<1>16. JoinHere'
  BY DEF IInv, Skip, JoinHere
<1>17. SendHere'
  BY DEF IInv, Skip, SendHere
<1>18. Sockets'
  BY DEF IInv, Skip, Sockets
<1>19. UniqueNames'
  BY DEF IInv, Skip, UniqueNames, Joined, Node
<1>20. JoinedBound'
  BY DEF IInv, Skip, JoinedBound, Joined, Node
<1>21. RosterKnown'
  BY DEF IInv, Skip, RosterKnown, Joined, Node, Dead
<1>22. LinePending'
  BY DEF IInv, Skip, LinePending, Dead
<1>23. OwnLines'
  BY DEF IInv, Skip, OwnLines
<1>30. QED
  BY <1>11, <1>12, <1>13, <1>14, <1>15, <1>16, <1>17, <1>18, <1>19, <1>20, <1>21, <1>22, <1>23 DEF IInv

\* A message of no known type is passed over.
LEMMA ParseOtherStep == ASSUME IInv, ParseOther PROVE IInv'
<1> USE DEF server, sockets, clients, history
<1>1. /\ todo \in Seq(Clients) /\ IsInjective(todo) /\ todo # <<>>
      /\ Tail(todo) \in Seq(Clients) /\ IsInjective(Tail(todo))
  <2>1. todo \in Seq(Clients) /\ IsInjective(todo) /\ todo # <<>>
    BY DEF IInv, Typed, TypeOK, Places, Traversal, ParseOther
  <2>2. QED
    BY <2>1, TakingOff
<1>11. Typed'
  BY SameMessages, <1>1 DEF IInv, ParseOther, Typed, TypeOK
<1>12. Places'
  BY <1>1 DEF IInv, ParseOther, Places
<1>13. Traversal'
  BY <1>1 DEF IInv, ParseOther, Traversal
<1>14. Named'
  BY DEF IInv, ParseOther, Named
<1>15. JoinFirst'
  BY DEF IInv, ParseOther, JoinFirst
<1>16. JoinHere'
  BY DEF IInv, ParseOther, JoinHere
<1>17. SendHere'
  BY DEF IInv, ParseOther, SendHere
<1>18. Sockets'
  BY DEF IInv, ParseOther, Sockets
<1>19. UniqueNames'
  BY DEF IInv, ParseOther, UniqueNames, Joined, Node
<1>20. JoinedBound'
  BY DEF IInv, ParseOther, JoinedBound, Joined, Node
<1>21. RosterKnown'
  BY DEF IInv, ParseOther, RosterKnown, Joined, Node, Dead
<1>22. LinePending'
  <2>1. ASSUME NEW c \in Clients \ closed, NEW i \in alone[c]
        PROVE  \/ Dead \/ <<c, i>> \in forwarded[c]
               \/ up[c] # <<>> /\ offset[c] = 0 /\ Head(up[c]) = make_msg_send(c, i)
    BY SentFields DEF IInv, LinePending, ParseOther
  <2>2. QED
    BY <2>1 DEF LinePending, ParseOther, Dead
<1>23. OwnLines'
  BY DEF IInv, ParseOther, OwnLines
<1>30. QED
  BY <1>11, <1>12, <1>13, <1>14, <1>15, <1>16, <1>17, <1>18, <1>19, <1>20, <1>21, <1>22, <1>23 DEF IInv

\* A reset is noticed.
LEMMA ReceiveResetStep == ASSUME IInv, ReceiveReset PROVE IInv'
<1> USE DEF server, sockets, clients, history
<1>1. /\ todo \in Seq(Clients) /\ todo # <<>> /\ Head(todo) \in Clients
      /\ Range(Tail(todo)) \subseteq Range(todo) /\ Head(todo) \in Range(todo)
  <2>1. todo \in Seq(Clients) /\ todo # <<>>
    BY DEF IInv, Typed, TypeOK, ReceiveReset
  <2>2. QED
    BY <2>1, TakingOff
<1>2. peer \in [Clients -> PeerStates]
  BY DEF IInv, Typed, TypeOK, PeerStates
<1>11. Typed'
  BY SameMessages, <1>1 DEF IInv, ReceiveReset, Typed, TypeOK
<1>12. Places'
  BY DEF IInv, ReceiveReset, Places
<1>13. Traversal'
  BY <1>1 DEF IInv, ReceiveReset, Traversal
<1>14. Named'
  BY DEF IInv, ReceiveReset, Named
<1>15. JoinFirst'
  BY DEF IInv, ReceiveReset, JoinFirst
<1>16. JoinHere'
  BY DEF IInv, ReceiveReset, JoinHere
<1>17. SendHere'
  BY <1>1, <1>2 DEF IInv, ReceiveReset, SendHere
<1>18. Sockets'
  BY <1>1, <1>2 DEF IInv, ReceiveReset, Sockets
<1>19. UniqueNames'
  BY DEF IInv, ReceiveReset, UniqueNames, Joined, Node
<1>20. JoinedBound'
  BY DEF IInv, ReceiveReset, JoinedBound, Joined, Node
<1>21. RosterKnown'
  BY DEF IInv, ReceiveReset, RosterKnown, Joined, Node, Dead
<1>22. LinePending'
  BY DEF IInv, ReceiveReset, LinePending, Dead
<1>23. OwnLines'
  BY <1>1, <1>2 DEF IInv, ReceiveReset, OwnLines
<1>30. QED
  BY <1>11, <1>12, <1>13, <1>14, <1>15, <1>16, <1>17, <1>18, <1>19, <1>20, <1>21, <1>22, <1>23 DEF IInv

\* A connection is accepted, and a traversal starts.
LEMMA SelectStep == ASSUME IInv, Select PROVE IInv'
<1> USE DEF server, sockets, clients, history
<1> DEFINE new == Head(backlog)
<1>1. /\ list \in Seq(Clients) /\ backlog \in Seq(Clients)
      /\ IsInjective(list) /\ IsInjective(backlog)
      /\ username \in [Clients -> Names \cup {NoName}]
      /\ heard \in [Clients -> SUBSET (Names \cup {NoName})]
      /\ Range(list) \subseteq Clients
  BY Positions DEF IInv, Typed, TypeOK, Places
<1>2. ASSUME backlog # <<>>
      PROVE  /\ new \in Clients /\ new \notin Range(list) \cup closed
             /\ username[new] = NoName
             /\ list' \in Seq(Clients) /\ IsInjective(list')
             /\ Range(list') = Range(list) \cup {new}
             /\ backlog' \in Seq(Clients) /\ IsInjective(backlog')
             /\ Range(backlog') \subseteq Range(backlog) /\ new \notin Range(backlog')
             /\ new \in Range(backlog)
  <2>1. /\ new \in Clients /\ new \in Range(backlog)
        /\ Tail(backlog) \in Seq(Clients) /\ IsInjective(Tail(backlog))
        /\ Range(Tail(backlog)) \subseteq Range(backlog) /\ new \notin Range(Tail(backlog))
    BY <1>1, <1>2, TakingOff
  <2>2. new \notin Range(list) \cup closed
    BY <2>1 DEF IInv, Places
  <2>3. username[new] = NoName
    BY <2>1, <2>2 DEF IInv, Named
  <2>4. /\ Append(list, new) \in Seq(Clients) /\ IsInjective(Append(list, new))
        /\ Range(Append(list, new)) = Range(list) \cup {new}
    BY <1>1, <2>1, <2>2, Appending
  <2>5. list' = Append(list, new) /\ backlog' = Tail(backlog)
    BY <1>2 DEF Select, append_node
  <2>6. QED
    BY <2>1, <2>2, <2>3, <2>4, <2>5
<1>3. backlog = <<>> => UNCHANGED <<backlog, list, heard>>
  BY DEF Select
<1>4. /\ todo' = list' /\ pc = "select" /\ pc' = "visit" /\ buf' \in {buf, Noise}
      /\ readfds' \subseteq Clients
      /\ UNCHANGED <<username, closed, sockets, clients, alone, forwarded>>
  BY <1>1 DEF Select
<1>5. list' \in Seq(Clients) /\ backlog' \in Seq(Clients) /\ IsInjective(list')
  BY <1>1, <1>2, <1>3
<1>6. \A c \in Clients : Joined(c)' <=> Joined(c)
  BY <1>2, <1>3, <1>4 DEF Joined, Node
<1> HIDE DEF new
<1>11. Typed'
  <2>1. heard' \in [Clients -> SUBSET (Names \cup {NoName})]
    <3>1. CASE backlog = <<>>
      BY <3>1, <1>1, <1>3
    <3>2. CASE backlog # <<>>
      <4>1. heard' = [heard EXCEPT ![Head(backlog)] =
                            {username[d] : d \in {e \in Clients : Joined(e)}}]
        BY <3>2 DEF Select
      <4>2. {username[d] : d \in {e \in Clients : Joined(e)}} \in SUBSET (Names \cup {NoName})
        BY <1>1
      <4>3. QED
        BY <4>1, <4>2, <1>1
    <3>3. QED
      BY <3>1, <3>2
  <2>2. buf' \in Messages
    BY <1>4, MessageFacts DEF IInv, Typed, TypeOK
  <2>3. \A c \in Clients : FromClient(c)' = FromClient(c)
    BY <1>4, SameMessages
  <2>4. buf'.type = "SEND" => buf' = buf
    BY <1>4, SentFields
  <2>5. QED
    BY <2>1, <2>2, <2>3, <2>4, <1>4, <1>5 DEF IInv, Typed, TypeOK
<1>12. Places'
  BY <1>1, <1>2, <1>3, <1>4, <1>5 DEF IInv, Places
<1>13. Traversal'
  BY <1>4 DEF Traversal
<1>14. Named'
  BY <1>2, <1>3, <1>4 DEF IInv, Named
<1>15. JoinFirst'
  BY <1>4 DEF IInv, JoinFirst
<1>16. JoinHere'
  BY <1>4, SentFields DEF IInv, JoinHere
<1>17. SendHere'
  BY <1>4 DEF SendHere
<1>18. Sockets'
  BY <1>4 DEF IInv, Sockets
<1>19. UniqueNames'
  BY <1>4, <1>6 DEF IInv, UniqueNames
<1>20. JoinedBound'
  <2>1. {c \in Clients : Joined(c)}' = {c \in Clients : Joined(c)}
    BY <1>6
  <2>2. QED
    BY <2>1 DEF IInv, JoinedBound
<1>21. RosterKnown'
  <2>1. {username[d] : d \in {e \in Clients : Joined(e)}}' =
            {username[d] : d \in {e \in Clients : Joined(e)}}
    BY <1>4, <1>6
  <2>2. ~ Dead
    BY <1>4 DEF Dead
  <2>3. ASSUME NEW c \in Range(list)
        PROVE  heard'[c] \ {my_name[c], NoName} =
                 {username[d] : d \in {e \in Clients : Joined(e)}} \ {my_name[c]}
    <3>1. heard'[c] = heard[c]
      BY <1>1, <1>2, <1>3 DEF Select, new
    <3>2. QED
      BY <3>1, <2>2 DEF IInv, RosterKnown
  <2>4. ASSUME backlog # <<>>
        PROVE  heard'[new] \ {my_name[new], NoName} =
                 {username[d] : d \in {e \in Clients : Joined(e)}} \ {my_name[new]}
    <3>1. heard'[new] = {username[d] : d \in {e \in Clients : Joined(e)}}
      BY <2>4, <1>1, <1>2 DEF Select, new
    <3>2. QED
      BY <3>1 DEF Joined
  <2>5. QED
    BY <2>1, <2>3, <2>4, <1>2, <1>3, <1>4 DEF RosterKnown
<1>22. LinePending'
  BY <1>4 DEF IInv, LinePending, Dead
<1>23. OwnLines'
  BY <1>4 DEF IInv, OwnLines
<1>30. QED
  BY <1>11, <1>12, <1>13, <1>14, <1>15, <1>16, <1>17, <1>18, <1>19, <1>20, <1>21, <1>22, <1>23 DEF IInv

\* Bytes are received, the first of them a message or the rest of one.
LEMMA ReceiveStep == ASSUME IInv, Receive PROVE IInv'
<1> USE DEF server, sockets, clients, history
<1> DEFINE c == Head(todo)
           k == Consumed(c) \div MsgLen
<1>1. /\ todo \in Seq(Clients) /\ todo # <<>> /\ c \in Clients /\ c \in Range(todo)
      /\ Range(Tail(todo)) \subseteq Range(todo)
      /\ c \in Range(list)
  <2>1. todo \in Seq(Clients) /\ todo # <<>> /\ Range(todo) \subseteq Range(list)
    BY DEF IInv, Typed, TypeOK, Receive, Traversal
  <2>2. QED
    BY <2>1, TakingOff
<1>2. /\ up \in [Clients -> Seq(Messages)] /\ offset \in [Clients -> 0..(MsgLen - 1)]
      /\ up[c] # <<>>
      /\ pc = "visit" /\ pc' = "parse"
      /\ buf' = Received(c)
      /\ up' = [up EXCEPT ![c] = SubSeq(@, k + 1, Len(@))]
      /\ offset' = [offset EXCEPT ![c] = Consumed(c) % MsgLen]
      /\ UNCHANGED <<backlog, list, username, readfds, todo, closed, down, peer, clients, history>>
  BY DEF IInv, Typed, TypeOK, Receive
<1>3. /\ k \in 1..Len(up[c])
      /\ Consumed(c) % MsgLen \in 0..(MsgLen - 1)
      /\ k = Len(up[c]) => Consumed(c) % MsgLen = 0
  BY <1>1, <1>2, Reading DEF IInv
<1>4. up[c] \in Seq(FromClient(c)) /\ Len(up[c]) \in Nat /\ up[c] \in Seq(Messages)
  BY <1>1, <1>2, Positions DEF IInv, Typed
<1> DEFINE rest == SubSeq(up[c], k + 1, Len(up[c]))
<1> HIDE DEF k
<1>5. /\ rest \in Seq(FromClient(c)) /\ rest \in Seq(Messages)
      /\ Len(rest) = Len(up[c]) - k
      /\ \A i \in 1..(Len(up[c]) - k) : rest[i] = up[c][k + i]
      /\ rest = <<>> <=> k = Len(up[c])
  <2> DEFINE s == up[c]
             S == FromClient(c)
  <2>1. k \in 0..Len(s) /\ s \in Seq(S) /\ s \in Seq(Messages)
    BY <1>3, <1>4
  <2> HIDE DEF s, S
  <2>2. /\ SubSeq(s, k + 1, Len(s)) \in Seq(S)
        /\ Len(SubSeq(s, k + 1, Len(s))) = Len(s) - k
        /\ \A i \in 1..(Len(s) - k) : SubSeq(s, k + 1, Len(s))[i] = s[k + i]
        /\ SubSeq(s, k + 1, Len(s)) = <<>> <=> k = Len(s)
    BY <2>1, Dropping
  <2>3. SubSeq(s, k + 1, Len(s)) \in Seq(Messages)
    BY <2>1, Dropping
  <2>4. QED
    BY <2>2, <2>3 DEF s, S
<1>6. /\ Head(up[c]) = up[c][1] /\ Head(up[c]) \in FromClient(c) /\ Head(up[c]) \in Messages
      /\ \A i \in 1..Len(up[c]) : up[c][i] \in FromClient(c)
  BY <1>2, <1>4, TakingOff, Positions
<1>7. /\ up'[c] = rest /\ offset'[c] = Consumed(c) % MsgLen
      /\ \A d \in Clients : d # c => up'[d] = up[d] /\ offset'[d] = offset[d]
      /\ DOMAIN up' = Clients /\ DOMAIN offset' = Clients
  BY <1>1, <1>2
<1> HIDE DEF rest
<1>9. \A i \in 1..Len(rest) : rest[i].type # "JOIN"
  <2>1. \A i \in 1..Len(rest) : k + i \in 1..Len(up[c]) /\ k + i # 1
    BY <1>3, <1>4, <1>5
  <2>2. \A i \in 1..Len(up[c]) : up[c][i].type = "JOIN" => i = 1
    BY <1>1 DEF IInv, JoinFirst
  <2>3. QED
    BY <2>1, <2>2, <1>4, <1>5
<1>10. \/ buf' = Head(up[c]) /\ offset[c] = 0
       \/ buf' = Noise /\ buf'.type = "NONE"
  BY <1>2, SentFields DEF Received
<1> HIDE DEF c
<1>11. Typed'
  <2>1. up' \in [Clients -> Seq(Messages)] /\ offset' \in [Clients -> 0..(MsgLen - 1)]
    BY <1>2, <1>3, <1>5, <1>7
  <2>2. buf' \in Messages
    BY <1>6, <1>10, MessageFacts DEF IInv
  <2>3. \A d \in Clients : FromClient(d)' = FromClient(d)
    BY <1>2, SameMessages
  <2>4. \A d \in Clients : up'[d] \in Seq(FromClient(d))
    BY <1>5, <1>7 DEF IInv, Typed
  <2>5. buf'.type = "SEND" => buf'.by \in Clients /\ buf'.n \in 1..MaxLines
    BY <1>1, <1>6, <1>10, MessageFacts DEF IInv
  <2>6. QED
    BY <2>1, <2>2, <2>3, <2>4, <2>5, <1>2 DEF IInv, Typed, TypeOK
<1>12. Places'
  BY <1>2 DEF IInv, Places
<1>13. Traversal'
  BY <1>1, <1>2 DEF IInv, Traversal, c
<1>14. Named'
  BY <1>2 DEF IInv, Named
<1>15. JoinFirst'
  <2>1. \A d \in Clients : cpc[d] \in {"off", "connected"} => d # c
    BY <1>2 DEF IInv, JoinFirst
  <2>2. rest = <<>> => offset'[c] = 0
    BY <1>3, <1>5, <1>7
  <2>3. ASSUME NEW d \in Clients
        PROVE  /\ cpc[d] \in {"off", "connected"} => up'[d] = <<>>
               /\ up'[d] = <<>> => offset'[d] = 0
               /\ \A i \in 1..Len(up'[d]) : up'[d][i].type = "JOIN" =>
                        i = 1 /\ offset'[d] = 0 /\ username[d] = NoName
    <3>1. CASE d = c
      BY <3>1, <2>1, <2>2, <1>7, <1>9
    <3>2. CASE d # c
      BY <3>2, <1>7 DEF IInv, JoinFirst
    <3>3. QED
      BY <3>1, <3>2
  <2>4. QED
    BY <2>3, <1>2 DEF JoinFirst
<1>16. JoinHere'
  <2>1. SUFFICES ASSUME buf'.type = "JOIN"
                 PROVE  /\ buf' = make_msg_join(c, my_name[c]) /\ username[c] = NoName
                        /\ cpc[c] \notin {"off", "connected"}
    BY <1>1, <1>2, <1>7, <1>9 DEF JoinHere, c
  <2>2. buf' = Head(up[c]) /\ offset[c] = 0
    BY <2>1, <1>10
  <2>3. buf' = make_msg_join(c, my_name[c])
    BY <2>1, <2>2, <1>1, <1>6, MessageFacts DEF IInv
  <2>4. username[c] = NoName /\ cpc[c] \notin {"off", "connected"}
    <3>1. 1 \in 1..Len(up[c]) /\ up[c][1].type = "JOIN"
      BY <2>1, <2>2, <1>3, <1>4, <1>6
    <3>2. QED
      BY <3>1, <1>1, <1>2 DEF IInv, JoinFirst
  <2>5. QED
    BY <2>3, <2>4
<1>17. SendHere'
  <2>1. buf'.type = "SEND" => buf'.by = c
    BY <1>1, <1>6, <1>10, MessageFacts DEF IInv
  <2>2. QED
    BY <2>1, <1>2 DEF SendHere, c
<1>18. Sockets'
  BY <1>2 DEF IInv, Sockets
<1>19. UniqueNames'
  BY <1>2 DEF IInv, UniqueNames, Joined, Node
<1>20. JoinedBound'
  BY <1>2 DEF IInv, JoinedBound, Joined, Node
<1>21. RosterKnown'
  BY <1>2 DEF IInv, RosterKnown, Dead, Joined, Node
<1>22. LinePending'
  <2>1. SUFFICES ASSUME NEW d \in Clients \ closed, NEW i \in alone[d]
                 PROVE  \/ <<d, i>> \in forwarded[d]
                        \/ d # c /\ up[d] # <<>> /\ offset[d] = 0
                           /\ Head(up[d]) = make_msg_send(d, i)
                        \/ c = d /\ buf' = make_msg_send(d, i)
    BY <1>2, <1>7 DEF LinePending, c
  <2>2. \/ <<d, i>> \in forwarded[d]
        \/ up[d] # <<>> /\ offset[d] = 0 /\ Head(up[d]) = make_msg_send(d, i)
    BY <1>2 DEF IInv, LinePending, Dead
  <2>3. offset[c] = 0 => buf' = Head(up[c])
    BY <1>2 DEF Received
  <2>4. QED
    BY <2>2, <2>3
<1>23. OwnLines'
  BY <1>2 DEF IInv, OwnLines
<1>30. QED
  BY <1>11, <1>12, <1>13, <1>14, <1>15, <1>16, <1>17, <1>18, <1>19, <1>20, <1>21, <1>22, <1>23 DEF IInv

\* The node that the traversal visits.
LEMMA Visiting ==
    ASSUME IInv, pc = "parse" \/ (pc = "visit" /\ todo # <<>>)
    PROVE  /\ todo \in Seq(Clients) /\ todo # <<>>
           /\ Head(todo) \in Clients /\ Head(todo) \in Range(todo)
           /\ Tail(todo) \in Seq(Clients) /\ IsInjective(todo) /\ IsInjective(Tail(todo))
           /\ Head(todo) \notin Range(Tail(todo)) /\ Range(Tail(todo)) \subseteq Range(todo)
           /\ list \in Seq(Clients) /\ Range(list) \subseteq Clients
           /\ username \in [Clients -> Names \cup {NoName}]
           /\ Audience(Head(todo)) \subseteq Clients
           /\ username[Head(todo)] \in Names \cup {NoName}
<1>1. /\ todo \in Seq(Clients) /\ IsInjective(todo)
      /\ list \in Seq(Clients) /\ username \in [Clients -> Names \cup {NoName}]
  BY DEF IInv, Typed, TypeOK, Places
<1>2. todo # <<>>
  BY DEF IInv, Traversal
<1>3. Range(list) \subseteq Clients
  BY <1>1, Positions
<1>4. QED
  BY <1>1, <1>2, <1>3, TakingOff DEF Audience


\* An IDLE is passed on.
LEMMA ParseIdleStep == ASSUME IInv, ParseIdle PROVE IInv'
<1> USE DEF server, sockets, clients, history
<1> DEFINE c == Head(todo)
<1>1. /\ todo \in Seq(Clients) /\ todo # <<>> /\ c \in Clients /\ c \in Range(todo)
      /\ Tail(todo) \in Seq(Clients) /\ IsInjective(todo) /\ IsInjective(Tail(todo))
      /\ c \notin Range(Tail(todo)) /\ Range(Tail(todo)) \subseteq Range(todo)
      /\ list \in Seq(Clients) /\ Range(list) \subseteq Clients
      /\ username \in [Clients -> Names \cup {NoName}]
      /\ Audience(c) \subseteq Clients /\ username[c] \in Names \cup {NoName}
  BY Visiting DEF ParseIdle
<1> DEFINE to == Audience(c)
           msg == [d \in to |-> make_msg_idle_s(username[c])]
           alive == "visit"
<1>3. make_msg_idle_s(username[c]) \in Messages /\ make_msg_idle_s(username[c]).type \notin {"ONLINE", "OFFLINE"}
  BY <1>1, MessageFacts DEF IInv, ParseIdle
<1>4. /\ down' \in [Clients -> Seq(Messages)] /\ peer' \in [Clients -> PeerStates]
      /\ \A d \in Clients : /\ peer'[d] = "alive" <=> peer[d] = "alive"
                            /\ peer[d] = "broken" => peer'[d] = "broken"
      /\ heard' \in [Clients -> SUBSET (Names \cup {NoName})]
      /\ \A d \in to : heard'[d] = Told(heard[d], msg[d])
      /\ \A d \in Clients \ to : heard'[d] = heard[d]
      /\ pc' \in {"sigpipe", alive}
  <2>1. msg \in [to -> Messages] /\ to \in SUBSET Clients
    BY <1>1, <1>3
  <2>2. Write(msg, alive)
    BY DEF ParseIdle
  <2>3. QED
    BY <2>1, <2>2, Writing DEF IInv
<1>5. \A d \in Clients : heard'[d] = heard[d]
  BY <1>3, <1>4 DEF Told
<1>6. /\ pc = "parse" /\ todo' = Tail(todo) /\ buf.type = "IDLE"
      /\ UNCHANGED <<backlog, list, username, readfds, buf, closed, up, offset, clients, alone>>
      /\ UNCHANGED forwarded
  BY DEF ParseIdle
<1> HIDE DEF to, msg
<1>11. Typed'
  <2>1. \A d \in Clients : FromClient(d)' = FromClient(d)
    BY <1>6, SameMessages
  <2>2. QED
    BY <2>1, <1>1, <1>4, <1>6 DEF IInv, Typed, TypeOK, PeerStates
<1>12. Places'
  BY <1>1, <1>6 DEF IInv, Places
<1>13. Traversal'
  BY <1>1, <1>4, <1>6 DEF IInv, Traversal
<1>14. Named'
  BY <1>6 DEF IInv, Named
<1>15. JoinFirst'
  BY <1>6 DEF IInv, JoinFirst
<1>16. JoinHere'
  BY <1>6 DEF JoinHere
<1>17. SendHere'
  BY <1>6 DEF SendHere
<1>18. Sockets'
  BY <1>4, <1>6 DEF IInv, Sockets
<1>19. UniqueNames'
  BY <1>6 DEF IInv, UniqueNames, Joined, Node
<1>20. JoinedBound'
  BY <1>6 DEF IInv, JoinedBound, Joined, Node
<1>21. RosterKnown'
  <2>1. ~ Dead
    BY <1>6 DEF Dead
  <2>2. QED
    BY <2>1, <1>1, <1>5, <1>6 DEF IInv, RosterKnown, Joined, Node
<1>22. LinePending'
  <2>1. ASSUME NEW d \in Clients \ closed, NEW i \in alone[d]
        PROVE  \/ <<d, i>> \in forwarded[d]
               \/ up[d] # <<>> /\ offset[d] = 0 /\ Head(up[d]) = make_msg_send(d, i)
    BY <1>6, SentFields DEF IInv, LinePending, Dead
  <2>2. QED
    BY <2>1, <1>6 DEF LinePending
<1>23. OwnLines'
  BY <1>4, <1>6 DEF IInv, OwnLines
<1>30. QED
  BY <1>11, <1>12, <1>13, <1>14, <1>15, <1>16, <1>17, <1>18, <1>19, <1>20, <1>21, <1>22, <1>23 DEF IInv

\* A line is passed on, under the name of the node visited.
LEMMA ParseSendStep == ASSUME IInv, ParseSend PROVE IInv'
<1> USE DEF server, sockets, clients, history
<1> DEFINE c == Head(todo)
<1>1. /\ todo \in Seq(Clients) /\ todo # <<>> /\ c \in Clients /\ c \in Range(todo)
      /\ Tail(todo) \in Seq(Clients) /\ IsInjective(todo) /\ IsInjective(Tail(todo))
      /\ c \notin Range(Tail(todo)) /\ Range(Tail(todo)) \subseteq Range(todo)
      /\ list \in Seq(Clients) /\ Range(list) \subseteq Clients
      /\ username \in [Clients -> Names \cup {NoName}]
      /\ Audience(c) \subseteq Clients /\ username[c] \in Names \cup {NoName}
  BY Visiting DEF ParseSend
<1> DEFINE to == Audience(c)
           msg == [d \in to |-> make_msg_fwd(buf, username[c])]
           alive == "visit"
<1>3. make_msg_fwd(buf, username[c]) \in Messages /\ make_msg_fwd(buf, username[c]).type \notin {"ONLINE", "OFFLINE"}
  BY <1>1, MessageFacts DEF IInv, ParseSend
<1>4. /\ down' \in [Clients -> Seq(Messages)] /\ peer' \in [Clients -> PeerStates]
      /\ \A d \in Clients : /\ peer'[d] = "alive" <=> peer[d] = "alive"
                            /\ peer[d] = "broken" => peer'[d] = "broken"
      /\ heard' \in [Clients -> SUBSET (Names \cup {NoName})]
      /\ \A d \in to : heard'[d] = Told(heard[d], msg[d])
      /\ \A d \in Clients \ to : heard'[d] = heard[d]
      /\ pc' \in {"sigpipe", alive}
  <2>1. msg \in [to -> Messages] /\ to \in SUBSET Clients
    BY <1>1, <1>3
  <2>2. Write(msg, alive)
    BY DEF ParseSend
  <2>3. QED
    BY <2>1, <2>2, Writing DEF IInv
<1>5. \A d \in Clients : heard'[d] = heard[d]
  BY <1>3, <1>4 DEF Told
<1>6. /\ pc = "parse" /\ todo' = Tail(todo) /\ buf.type = "SEND"
      /\ UNCHANGED <<backlog, list, username, readfds, buf, closed, up, offset, clients, alone>>
      /\ forwarded' = [forwarded EXCEPT ![c] = @ \cup {<<buf.by, buf.n>>}]
  BY DEF ParseSend
<1> HIDE DEF to, msg
<1>7. forwarded \in [Clients -> SUBSET (Clients \X (1..MaxLines))]
      /\ buf.by \in Clients /\ buf.n \in 1..MaxLines
  BY <1>6 DEF IInv, Typed, TypeOK
<1>8. /\ forwarded' \in [Clients -> SUBSET (Clients \X (1..MaxLines))]
      /\ forwarded'[c] = forwarded[c] \cup {<<buf.by, buf.n>>}
      /\ \A d \in Clients : d # c => forwarded'[d] = forwarded[d]
  BY <1>1, <1>6, <1>7
<1>11. Typed'
  <2>1. \A d \in Clients : FromClient(d)' = FromClient(d)
    BY <1>6, SameMessages
  <2>2. Typed
    BY DEF IInv
  <2>3. \A d \in Clients : up'[d] \in Seq(FromClient(d)')
    BY <2>1, <2>2, <1>6 DEF Typed
  <2>4. buf'.type = "SEND" => buf'.by \in Clients /\ buf'.n \in 1..MaxLines
    BY <1>6, <1>7
  <2>5. TypeOK'
    BY <2>2, <1>1, <1>4, <1>6, <1>8 DEF Typed, TypeOK, PeerStates
  <2>6. QED
    BY <2>3, <2>4, <2>5 DEF Typed
<1>12. Places'
  BY <1>1, <1>6 DEF IInv, Places
<1>13. Traversal'
  BY <1>1, <1>4, <1>6 DEF IInv, Traversal
<1>14. Named'
  BY <1>6 DEF IInv, Named
<1>15. JoinFirst'
  BY <1>6 DEF IInv, JoinFirst
<1>16. JoinHere'
  BY <1>6 DEF JoinHere
<1>17. SendHere'
  BY <1>4, <1>6 DEF SendHere
<1>18. Sockets'
  BY <1>4, <1>6 DEF IInv, Sockets
<1>19. UniqueNames'
  BY <1>6 DEF IInv, UniqueNames, Joined, Node
<1>20. JoinedBound'
  BY <1>6 DEF IInv, JoinedBound, Joined, Node
<1>21. RosterKnown'
  <2>1. ~ Dead
    BY <1>6 DEF Dead
  <2>2. QED
    BY <2>1, <1>1, <1>5, <1>6 DEF IInv, RosterKnown, Joined, Node
<1>22. LinePending'
  <2>1. ASSUME NEW d \in Clients \ closed, NEW i \in alone[d]
        PROVE  \/ <<d, i>> \in forwarded'[d]
               \/ up[d] # <<>> /\ offset[d] = 0 /\ Head(up[d]) = make_msg_send(d, i)
    <3>1. CASE c = d /\ buf = make_msg_send(d, i)
      BY <3>1, <1>8, SentFields
    <3>2. CASE ~ (c = d /\ buf = make_msg_send(d, i))
      BY <3>2, <1>6, <1>8 DEF IInv, LinePending, Dead
    <3>3. QED
      BY <3>1, <3>2
  <2>2. QED
    BY <2>1, <1>6 DEF LinePending
<1>23. OwnLines'
  <2>1. ASSUME NEW d \in Clients \ closed, peer'[d] # "broken", NEW l \in forwarded'[d]
        PROVE  l[1] = d
    <3>1. peer[d] # "broken"
      BY <2>1, <1>4
    <3>2. CASE l \in forwarded[d]
      BY <2>1, <3>1, <3>2 DEF IInv, OwnLines
    <3>3. CASE l \notin forwarded[d]
      <4>1. d = c /\ l = <<buf.by, buf.n>>
        BY <3>3, <2>1, <1>8
      <4>2. buf.by = c
        BY <4>1, <3>1, <2>1, <1>6 DEF IInv, SendHere
      <4>3. QED
        BY <4>1, <4>2
    <3>4. QED
      BY <3>2, <3>3
  <2>2. QED
    BY <2>1, <1>6 DEF OwnLines
<1>30. QED
  BY <1>11, <1>12, <1>13, <1>14, <1>15, <1>16, <1>17, <1>18, <1>19, <1>20, <1>21, <1>22, <1>23 DEF IInv

\* A connection has ended: the others are told, and its node is removed.
LEMMA ReceiveEndStep == ASSUME IInv, ReceiveEnd PROVE IInv'
<1> USE DEF server, sockets, clients, history
<1> DEFINE c == Head(todo)
<1>1. /\ todo \in Seq(Clients) /\ todo # <<>> /\ c \in Clients /\ c \in Range(todo)
      /\ Tail(todo) \in Seq(Clients) /\ IsInjective(todo) /\ IsInjective(Tail(todo))
      /\ c \notin Range(Tail(todo)) /\ Range(Tail(todo)) \subseteq Range(todo)
      /\ list \in Seq(Clients) /\ Range(list) \subseteq Clients
      /\ username \in [Clients -> Names \cup {NoName}]
      /\ Audience(c) \subseteq Clients /\ username[c] \in Names \cup {NoName}
  BY Visiting DEF ReceiveEnd
<1> DEFINE to == Audience(c)
           msg == [d \in to |-> make_msg_offline(username[c])]
           alive == "parse"
<1>3. /\ make_msg_offline(username[c]) \in Messages
      /\ make_msg_offline(username[c]).type = "OFFLINE"
      /\ make_msg_offline(username[c]).name = username[c]
  BY <1>1, MessageFacts DEF IInv
<1>4. /\ down' \in [Clients -> Seq(Messages)] /\ peer' \in [Clients -> PeerStates]
      /\ \A d \in Clients : /\ peer'[d] = "alive" <=> peer[d] = "alive"
                            /\ peer[d] = "broken" => peer'[d] = "broken"
      /\ heard' \in [Clients -> SUBSET (Names \cup {NoName})]
      /\ \A d \in to : heard'[d] = Told(heard[d], msg[d])
      /\ \A d \in Clients \ to : heard'[d] = heard[d]
      /\ pc' \in {"sigpipe", alive}
  <2>1. msg \in [to -> Messages] /\ to \in SUBSET Clients
    BY <1>1, <1>3
  <2>2. Write(msg, alive)
    BY DEF ReceiveEnd
  <2>3. QED
    BY <2>1, <2>2, Writing DEF IInv
<1>5. \A d \in Range(list) \ {c} : heard'[d] = heard[d] \ {username[c]}
  BY <1>1, <1>3, <1>4 DEF Told, Audience
<1>6. /\ pc = "visit" /\ closed' = closed \cup {c} /\ list' = RemoveFirst(list, c)
      /\ UNCHANGED <<backlog, username, readfds, todo, buf, up, offset, clients, alone, forwarded>>
  BY DEF ReceiveEnd, remove_node
<1>7. c \in Range(list)
  BY <1>1, <1>6 DEF IInv, Traversal
<1>8. /\ list' \in Seq(Clients) /\ IsInjective(list')
      /\ Range(list') = Range(list) \ {c}
  BY <1>1, <1>6, Unlinking DEF IInv, Places
<1>9. \A d \in Clients : Joined(d)' <=> Joined(d) /\ d # c
  BY <1>6, <1>8 DEF Joined, Node
<1> HIDE DEF to, msg
<1>11. Typed'
  <2>1. \A d \in Clients : FromClient(d)' = FromClient(d)
    BY <1>6, SameMessages
  <2>2. Typed
    BY DEF IInv
  <2>3. \A d \in Clients : up'[d] \in Seq(FromClient(d)')
    BY <2>1, <2>2, <1>6 DEF Typed
  <2>4. buf'.type = "SEND" => buf'.by \in Clients /\ buf'.n \in 1..MaxLines
    BY <2>2, <1>6 DEF Typed
  <2>5. TypeOK'
    BY <2>2, <1>1, <1>4, <1>6, <1>8 DEF Typed, TypeOK, PeerStates
  <2>6. QED
    BY <2>3, <2>4, <2>5 DEF Typed
<1>12. Places'
  BY <1>1, <1>6, <1>7, <1>8 DEF IInv, Places
<1>13. Traversal'
  <2>1. Range(todo) \subseteq Range(list)
    BY <1>6 DEF IInv, Traversal
  <2>2. QED
    BY <2>1, <1>1, <1>4, <1>6, <1>7, <1>8 DEF Traversal
<1>14. Named'
  BY <1>6, <1>8 DEF IInv, Named
<1>15. JoinFirst'
  BY <1>6 DEF IInv, JoinFirst
<1>16. JoinHere'
  BY <1>6 DEF IInv, JoinHere
<1>17. SendHere'
  BY <1>1, <1>6 DEF SendHere
<1>18. Sockets'
  BY <1>4, <1>6 DEF IInv, Sockets
<1>19. UniqueNames'
  BY <1>6, <1>9 DEF IInv, UniqueNames
<1>20. JoinedBound'
  <2>1. {d \in Clients : Joined(d)}' \subseteq {d \in Clients : Joined(d)}
    BY <1>9
  <2>2. IsFiniteSet({d \in Clients : Joined(d)})
    BY ChatAssumption, FS_Subset
  <2>3. /\ Cardinality({d \in Clients : Joined(d)}') <= Cardinality({d \in Clients : Joined(d)})
        /\ Cardinality({d \in Clients : Joined(d)}') \in Nat
        /\ Cardinality({d \in Clients : Joined(d)}) \in Nat
    BY <2>1, <2>2, FS_Subset, FS_CardinalityType
  <2>4. QED
    BY <2>3, ChatAssumption DEF IInv, JoinedBound
<1>21. RosterKnown'
  <2>1. ~ Dead
    BY <1>6 DEF Dead
  <2>2. {username[d] : d \in {e \in Clients : Joined(e)}}' =
            {username[d] : d \in {e \in Clients : Joined(e)}} \ {username[c]}
    <3>1. ASSUME NEW d \in Clients, Joined(d)
          PROVE  username[d] = username[c] <=> d = c
      <4>1. username[d] = username[c] => Joined(c)
        BY <3>1, <1>7 DEF Joined, Node
      <4>2. QED
        BY <4>1, <3>1, <1>1 DEF IInv, UniqueNames
    <3>2. QED
      BY <3>1, <1>6, <1>9
  <2>3. ASSUME NEW d \in Range(list) \ {c}
        PROVE  heard'[d] \ {my_name[d], NoName} =
            ({username[e] : e \in {f \in Clients : Joined(f)}} \ {username[c]}) \ {my_name[d]}
    <3>1. heard[d] \ {my_name[d], NoName} =
            {username[e] : e \in {f \in Clients : Joined(f)}} \ {my_name[d]}
      BY <2>1, <2>3 DEF IInv, RosterKnown
    <3>2. QED
      BY <3>1, <2>3, <1>5
  <2>4. QED
    BY <2>2, <2>3, <1>6, <1>8 DEF RosterKnown
<1>22. LinePending'
  BY <1>6 DEF IInv, LinePending, Dead
<1>23. OwnLines'
  BY <1>4, <1>6 DEF IInv, OwnLines
<1>30. QED
  BY <1>11, <1>12, <1>13, <1>14, <1>15, <1>16, <1>17, <1>18, <1>19, <1>20, <1>21, <1>22, <1>23 DEF IInv

\* A JOIN is refused: the node is told, if it is open, and removed.
LEMMA JoinRejectStep == ASSUME IInv, JoinReject PROVE IInv'
<1> USE DEF server, sockets, clients, history
<1> DEFINE c == Head(todo)
<1>1. /\ todo \in Seq(Clients) /\ todo # <<>> /\ c \in Clients /\ c \in Range(todo)
      /\ Tail(todo) \in Seq(Clients) /\ IsInjective(todo) /\ IsInjective(Tail(todo))
      /\ c \notin Range(Tail(todo)) /\ Range(Tail(todo)) \subseteq Range(todo)
      /\ list \in Seq(Clients) /\ Range(list) \subseteq Clients
      /\ username \in [Clients -> Names \cup {NoName}]
      /\ Audience(c) \subseteq Clients /\ username[c] \in Names \cup {NoName}
  BY Visiting DEF JoinReject
<1> DEFINE to == {c} \ closed
           msg == [d \in to |-> make_msg_nak]
           alive == "visit"
<1>3. make_msg_nak \in Messages /\ make_msg_nak.type \notin {"ONLINE", "OFFLINE"}
  BY MessageFacts DEF IInv
<1>7. /\ c \in Range(list) /\ username[c] = NoName
      /\ \A i \in 1..Len(up[c]) : up[c][i].type # "JOIN"
  BY DEF IInv, JoinHere, JoinReject
<1>4. /\ down' \in [Clients -> Seq(Messages)] /\ peer' \in [Clients -> PeerStates]
      /\ \A d \in Clients : /\ peer'[d] = "alive" <=> peer[d] = "alive"
                            /\ peer[d] = "broken" => peer'[d] = "broken"
      /\ heard' \in [Clients -> SUBSET (Names \cup {NoName})]
      /\ \A d \in to : heard'[d] = Told(heard[d], msg[d])
      /\ \A d \in Clients \ to : heard'[d] = heard[d]
      /\ pc' \in {"sigpipe", alive}
  <2>1. msg \in [to -> Messages] /\ to \in SUBSET Clients
    BY <1>1, <1>3
  <2>2. Write(msg, IF Node(c) THEN "visit" ELSE "segv")
    BY DEF JoinReject
  <2>3. Write(msg, alive)
    BY <2>2, <1>7 DEF Node
  <2>4. QED
    BY <2>1, <2>3, Writing DEF IInv
<1>5. \A d \in Clients : heard'[d] = heard[d]
  BY <1>3, <1>4 DEF Told
<1>6. /\ pc = "parse" /\ buf.type = "JOIN"
      /\ closed' = closed \cup {c} /\ list' = RemoveFirst(list, c)
      /\ buf' = Reply(buf) /\ todo' = Tail(todo)
      /\ UNCHANGED <<backlog, username, readfds, up, offset, clients, alone, forwarded>>
  BY DEF JoinReject, remove_node
<1>8. /\ list' \in Seq(Clients) /\ IsInjective(list')
      /\ Range(list') = Range(list) \ {c}
  BY <1>1, <1>6, Unlinking DEF IInv, Places
<1>9. \A d \in Clients : Joined(d)' <=> Joined(d)
  BY <1>6, <1>7, <1>8 DEF Joined, Node
<1>10. buf' \in Messages /\ buf'.type = "REPLY"
  BY <1>6, MessageFacts DEF IInv
<1> HIDE DEF to, msg
<1>11. Typed'
  <2>1. \A d \in Clients : FromClient(d)' = FromClient(d)
    BY <1>6, SameMessages
  <2>2. QED
    BY <2>1, <1>1, <1>4, <1>6, <1>8, <1>10 DEF IInv, Typed, TypeOK, PeerStates
<1>12. Places'
  BY <1>1, <1>6, <1>7, <1>8 DEF IInv, Places
<1>13. Traversal'
  <2>1. Range(Tail(todo)) \subseteq Range(list)
    BY <1>6 DEF IInv, Traversal
  <2>2. QED
    BY <2>1, <1>1, <1>4, <1>6, <1>8 DEF Traversal
<1>14. Named'
  BY <1>6, <1>8 DEF IInv, Named
<1>15. JoinFirst'
  BY <1>6 DEF IInv, JoinFirst
<1>16. JoinHere'
  BY <1>10 DEF JoinHere
<1>17. SendHere'
  BY <1>10 DEF SendHere
<1>18. Sockets'
  BY <1>4, <1>6 DEF IInv, Sockets
<1>19. UniqueNames'
  BY <1>6, <1>9 DEF IInv, UniqueNames
<1>20. JoinedBound'
  <2>1. {d \in Clients : Joined(d)}' = {d \in Clients : Joined(d)}
    BY <1>9
  <2>2. QED
    BY <2>1 DEF IInv, JoinedBound
<1>21. RosterKnown'
  <2>1. ~ Dead
    BY <1>6 DEF Dead
  <2>2. {username[d] : d \in {e \in Clients : Joined(e)}}' =
            {username[d] : d \in {e \in Clients : Joined(e)}}
    BY <1>6, <1>9
  <2>3. QED
    BY <2>1, <2>2, <1>1, <1>5, <1>6, <1>8 DEF IInv, RosterKnown
<1>22. LinePending'
  <2>1. ASSUME NEW d \in Clients \ closed, NEW i \in alone[d]
        PROVE  \/ <<d, i>> \in forwarded[d]
               \/ up[d] # <<>> /\ offset[d] = 0 /\ Head(up[d]) = make_msg_send(d, i)
    BY <1>6, SentFields DEF IInv, LinePending, Dead
  <2>2. QED
    BY <2>1, <1>6 DEF LinePending
<1>23. OwnLines'
  BY <1>4, <1>6 DEF IInv, OwnLines
<1>30. QED
  BY <1>11, <1>12, <1>13, <1>14, <1>15, <1>16, <1>17, <1>18, <1>19, <1>20, <1>21, <1>22, <1>23 DEF IInv

\* A JOIN is accepted: the node has its name, and everybody is told.
LEMMA JoinAcceptStep == ASSUME IInv, JoinAccept PROVE IInv'
<1> USE DEF server, sockets, clients, history
<1> DEFINE c == Head(todo)
<1>1. /\ todo \in Seq(Clients) /\ todo # <<>> /\ c \in Clients /\ c \in Range(todo)
      /\ Tail(todo) \in Seq(Clients) /\ IsInjective(todo) /\ IsInjective(Tail(todo))
      /\ c \notin Range(Tail(todo)) /\ Range(Tail(todo)) \subseteq Range(todo)
      /\ list \in Seq(Clients) /\ Range(list) \subseteq Clients
      /\ username \in [Clients -> Names \cup {NoName}]
      /\ Audience(c) \subseteq Clients /\ username[c] \in Names \cup {NoName}
  BY Visiting DEF JoinAccept
<1> DEFINE to == ({c} \ closed) \cup Audience(c)
           name == my_name[c]
           msg == [d \in to |-> IF d = c THEN make_msg_ack(client_count - 1)
                                ELSE make_msg_online(name)]
           alive == "visit"
<1>2. /\ c \in Range(list) /\ c \notin closed /\ username[c] = NoName
      /\ \A i \in 1..Len(up[c]) : up[c][i].type # "JOIN"
      /\ cpc[c] \notin {"off", "connected"}
      /\ Username(buf) = name
      /\ name \in Names /\ name # NoName
  <2>1. buf.type = "JOIN"
    BY DEF JoinAccept
  <2>2. make_msg_join(c, name).name = name
    BY DEF make_msg_join, Msg
  <2>3. my_name \in [Clients -> Names] /\ NoName \notin Names
    BY ChatAssumption DEF IInv, Typed, TypeOK
  <2>4. QED
    BY <2>1, <2>2, <2>3, <1>1 DEF IInv, JoinHere, Places, Username
<1>3. /\ client_count - 1 \in 0..Cardinality(Clients)
      /\ client_count - 1 < MaxClients
      /\ Cardinality(Range(list)) = client_count
      /\ client_count \in Nat
  <2>1. Cardinality(Range(list)) = Len(list) /\ Len(list) \in Nat
    BY <1>1, Counting, Positions DEF IInv, Places
  <2>2. Len(list) # 0
    BY <1>1, <1>2, Positions
  <2>3. Cardinality(Range(list)) <= Cardinality(Clients) /\ Cardinality(Clients) \in Nat
    BY <1>1, ChatAssumption, FS_Subset, FS_CardinalityType
  <2>4. ~ (client_count - 1 >= MaxClients)
    BY DEF JoinAccept, Full
  <2>5. QED
    BY <2>1, <2>2, <2>3, <2>4, ChatAssumption DEF client_count
<1>4a. /\ make_msg_ack(client_count - 1) \in Messages
      /\ make_msg_ack(client_count - 1).type = "ACK"
      /\ make_msg_online(name) \in Messages
      /\ make_msg_online(name).type = "ONLINE" /\ make_msg_online(name).name = name
  BY <1>2, <1>3, MessageFacts DEF IInv
<1>4. /\ down' \in [Clients -> Seq(Messages)] /\ peer' \in [Clients -> PeerStates]
      /\ \A d \in Clients : /\ peer'[d] = "alive" <=> peer[d] = "alive"
                            /\ peer[d] = "broken" => peer'[d] = "broken"
      /\ heard' \in [Clients -> SUBSET (Names \cup {NoName})]
      /\ \A d \in to : heard'[d] = Told(heard[d], msg[d])
      /\ \A d \in Clients \ to : heard'[d] = heard[d]
      /\ pc' \in {"sigpipe", alive}
  <2>1. msg \in [to -> Messages] /\ to \in SUBSET Clients
    BY <1>1, <1>4a
  <2>2. Write(msg, alive)
    BY <1>2 DEF JoinAccept
  <2>3. QED
    BY <2>1, <2>2, Writing DEF IInv
<1>5. /\ heard'[c] = heard[c]
      /\ \A d \in Range(list) \ {c} : heard'[d] = heard[d] \cup {name}
  <2>1. c \in to /\ msg[c] = make_msg_ack(client_count - 1)
    BY <1>2
  <2>2. \A d \in Range(list) \ {c} : d \in to /\ msg[d] = make_msg_online(name)
    BY DEF Audience
  <2>3. heard'[c] = Told(heard[c], make_msg_ack(client_count - 1))
    BY <2>1, <1>4
  <2>4. \A d \in Range(list) \ {c} : heard'[d] = Told(heard[d], make_msg_online(name))
    BY <2>2, <1>4
  <2>5. QED
    BY <2>3, <2>4, <1>4a DEF Told
<1>6. /\ pc = "parse" /\ buf.type = "JOIN"
      /\ username' = [username EXCEPT ![c] = name]
      /\ buf' = Reply(buf) /\ todo' = Tail(todo)
      /\ UNCHANGED <<backlog, list, readfds, closed, up, offset, clients, alone, forwarded>>
  BY <1>2 DEF JoinAccept
<1>7. \A d \in Range(list) : username[d] # name
  BY <1>2 DEF JoinAccept, is_duplicate_name
<1>8. username'[c] = name /\ \A d \in Clients : d # c => username'[d] = username[d]
  BY <1>1, <1>6
<1>9. \A d \in Clients : Joined(d)' <=> Joined(d) \/ d = c
  BY <1>2, <1>6, <1>8 DEF Joined, Node
<1>10. buf' \in Messages /\ buf'.type = "REPLY"
  BY <1>6, MessageFacts DEF IInv
<1> HIDE DEF to, msg
<1>11. Typed'
  <2>1. \A d \in Clients : FromClient(d)' = FromClient(d)
    BY <1>6, SameMessages
  <2>2. username' \in [Clients -> Names \cup {NoName}]
    BY <1>1, <1>2, <1>6
  <2>3. QED
    BY <2>1, <2>2, <1>1, <1>4, <1>6, <1>10 DEF IInv, Typed, TypeOK, PeerStates
<1>12. Places'
  BY <1>1, <1>6 DEF IInv, Places
<1>13. Traversal'
  BY <1>1, <1>4, <1>6 DEF IInv, Traversal
<1>14. Named'
  BY <1>1, <1>2, <1>6, <1>8 DEF IInv, Named
<1>15. JoinFirst'
  BY <1>2, <1>6, <1>8 DEF IInv, JoinFirst
<1>16. JoinHere'
  BY <1>10 DEF JoinHere
<1>17. SendHere'
  BY <1>10 DEF SendHere
<1>18. Sockets'
  BY <1>4, <1>6 DEF IInv, Sockets
<1>19. UniqueNames'
  BY <1>2, <1>7, <1>8, <1>9 DEF IInv, UniqueNames, Joined, Node
<1>20. JoinedBound'
  <2>1. {d \in Clients : Joined(d)}' \subseteq Range(list)
    BY <1>2, <1>9 DEF Joined, Node
  <2>2. IsFiniteSet(Range(list))
    BY <1>1, ChatAssumption, FS_Subset
  <2>3. /\ Cardinality({d \in Clients : Joined(d)}') <= Cardinality(Range(list))
        /\ Cardinality({d \in Clients : Joined(d)}') \in Nat
    BY <2>1, <2>2, FS_Subset, FS_CardinalityType
  <2>4. QED
    BY <2>3, <1>3, ChatAssumption DEF JoinedBound
<1>21. RosterKnown'
  <2>1. ~ Dead
    BY <1>6 DEF Dead
  <2>2. {username[d] : d \in {e \in Clients : Joined(e)}}' =
            {username[d] : d \in {e \in Clients : Joined(e)}} \cup {name}
    <3>1. \A d \in Clients : Joined(d) => d # c
      BY <1>2 DEF Joined
    <3>2. QED
      BY <3>1, <1>1, <1>8, <1>9
  <2>3. ASSUME NEW d \in Range(list)
        PROVE  heard'[d] \ {my_name[d], NoName} =
            ({username[e] : e \in {f \in Clients : Joined(f)}} \cup {name}) \ {my_name[d]}
    <3>1. heard[d] \ {my_name[d], NoName} =
            {username[e] : e \in {f \in Clients : Joined(f)}} \ {my_name[d]}
      BY <2>1, <2>3 DEF IInv, RosterKnown
    <3>2. CASE d = c
      BY <3>1, <3>2, <1>5
    <3>3. CASE d # c
      BY <3>1, <3>3, <2>3, <1>2, <1>5
    <3>4. QED
      BY <3>2, <3>3
  <2>4. QED
    BY <2>2, <2>3, <1>6 DEF RosterKnown
<1>22. LinePending'
  <2>1. ASSUME NEW d \in Clients \ closed, NEW i \in alone[d]
        PROVE  \/ <<d, i>> \in forwarded[d]
               \/ up[d] # <<>> /\ offset[d] = 0 /\ Head(up[d]) = make_msg_send(d, i)
    BY <1>6, SentFields DEF IInv, LinePending, Dead
  <2>2. QED
    BY <2>1, <1>6 DEF LinePending
<1>23. OwnLines'
  BY <1>4, <1>6 DEF IInv, OwnLines
<1>30. QED
  BY <1>11, <1>12, <1>13, <1>14, <1>15, <1>16, <1>17, <1>18, <1>19, <1>20, <1>21, <1>22, <1>23 DEF IInv

-----------------------------------------------------------------------------
(* The steps of the clients *)

\* What a step leaves alone is true of what it leaves alone.
LEMMA QuietStep ==
    ASSUME IInv, UNCHANGED server, UNCHANGED history, UNCHANGED <<up, offset, my_name>>,
           \A c \in Clients : peer'[c] = "broken" <=> peer[c] = "broken",
           \A c \in Clients : cpc'[c] \in {"off", "connected"} => cpc[c] = cpc'[c],
           \A c \in Clients : cpc[c] \in {"off"} => cpc'[c] = cpc[c]
    PROVE  /\ Places' /\ Traversal' /\ Named' /\ JoinFirst' /\ JoinHere' /\ SendHere'
           /\ UniqueNames' /\ JoinedBound' /\ RosterKnown' /\ LinePending' /\ OwnLines'
<1> USE DEF server, history
<1>0. todo # <<>> => Head(todo) \in Clients
  BY TakingOff DEF IInv, Typed, TypeOK
<1>1. Places'
  BY DEF IInv, Places
<1>2. Traversal'
  BY DEF IInv, Traversal
<1>3. Named'
  BY DEF IInv, Named
<1>4. JoinFirst'
  BY DEF IInv, JoinFirst
<1>5. JoinHere'
  BY <1>0 DEF IInv, JoinHere, Traversal
<1>6. SendHere'
  BY <1>0 DEF IInv, SendHere, Traversal
<1>7. UniqueNames'
  BY DEF IInv, UniqueNames, Joined, Node
<1>8. JoinedBound'
  BY DEF IInv, JoinedBound, Joined, Node
<1>9. RosterKnown'
  BY DEF IInv, RosterKnown, Joined, Node, Dead
<1>10. LinePending'
  BY DEF IInv, LinePending, Dead
<1>11. OwnLines'
  BY DEF IInv, OwnLines
<1>12. QED
  BY <1>1, <1>2, <1>3, <1>4, <1>5, <1>6, <1>7, <1>8, <1>9, <1>10, <1>11

\* A client connects.
LEMMA ConnectStep == ASSUME IInv, NEW c \in Clients, Connect(c) PROVE IInv'
<1> USE DEF server, sockets, clients, history
<1>1. /\ backlog \in Seq(Clients) /\ IsInjective(backlog)
      /\ c \notin Range(list) \cup Range(backlog) \cup closed
      /\ cpc \in [Clients -> {"off", "connected", "joining", "chatting", "exit"}]
      /\ cpc[c] = "off" /\ cpc' = [cpc EXCEPT ![c] = "connected"]
  BY DEF IInv, Typed, TypeOK, Places, Connect
<1>2. /\ backlog' \in Seq(Clients) /\ IsInjective(backlog')
      /\ Range(backlog') = Range(backlog) \cup {c}
  BY <1>1, Appending DEF Connect
<1>3. /\ UNCHANGED <<pc, list, username, readfds, todo, buf, closed, sockets,
                   my_name, is_idle, lines, answered, history>>
      /\ \A d \in Clients : cpc'[d] = IF d = c THEN "connected" ELSE cpc[d]
  BY <1>1 DEF Connect
<1>4. buf.type = "JOIN" => Head(todo) \in Clients
  <2>1. todo \in Seq(Clients) /\ (buf.type = "JOIN" => todo # <<>>)
    BY DEF IInv, Typed, TypeOK, Traversal, JoinHere
  <2>2. QED
    BY <2>1, TakingOff
<1>11. Typed'
  BY <1>1, <1>2, <1>3, SameMessages DEF IInv, Typed, TypeOK
<1>12. Places'
  BY <1>1, <1>2, <1>3 DEF IInv, Places
<1>13. Traversal'
  BY <1>3 DEF IInv, Traversal
<1>14. Named'
  BY <1>1, <1>3 DEF IInv, Named
<1>15. JoinFirst'
  BY <1>1, <1>3 DEF IInv, JoinFirst
<1>16. JoinHere'
  BY <1>1, <1>3, <1>4 DEF IInv, JoinHere
<1>17. SendHere'
  BY <1>3 DEF IInv, SendHere
<1>18. Sockets'
  BY <1>1, <1>3 DEF IInv, Sockets
<1>19. UniqueNames'
  BY <1>3 DEF IInv, UniqueNames, Joined, Node
<1>20. JoinedBound'
  BY <1>3 DEF IInv, JoinedBound, Joined, Node
<1>21. RosterKnown'
  BY <1>3 DEF IInv, RosterKnown, Joined, Node, Dead
<1>22. LinePending'
  BY <1>3 DEF IInv, LinePending, Dead
<1>23. OwnLines'
  BY <1>3 DEF IInv, OwnLines
<1>30. QED
  BY <1>11, <1>12, <1>13, <1>14, <1>15, <1>16, <1>17, <1>18, <1>19, <1>20, <1>21, <1>22,
     <1>23 DEF IInv

\* A client ends: its socket, which was alive, is closed.
LEMMA ExitStep ==
    ASSUME IInv, NEW c \in Clients, NEW unread, Exit(c, unread),
           cpc[c] \in {"connected", "joining", "chatting"},
           UNCHANGED <<server, up, offset, my_name, is_idle, lines, history>>,
           down' \in [Clients -> Seq(Messages)],
           answered' \in [Clients -> {"no", "ACK", "NAK", "error"}]
    PROVE  IInv'
<1> USE DEF server, history
<1>1. /\ cpc \in [Clients -> {"off", "connected", "joining", "chatting", "exit"}]
      /\ peer \in [Clients -> PeerStates]
  BY DEF IInv, Typed, TypeOK, PeerStates
<1>2. /\ cpc' \in [Clients -> {"off", "connected", "joining", "chatting", "exit"}]
      /\ peer' \in [Clients -> PeerStates]
      /\ cpc'[c] = "exit" /\ peer'[c] \in {"fin", "reset"}
      /\ \A d \in Clients : d # c => cpc'[d] = cpc[d] /\ peer'[d] = peer[d]
      /\ peer[c] = "alive"
  BY <1>1 DEF Exit, PeerStates, IInv, Sockets
<1>3. Typed'
  BY <1>2, SameMessages DEF IInv, Typed, TypeOK, PeerStates
<1>4. Sockets'
  BY <1>2 DEF IInv, Sockets
<1>5. /\ \A d \in Clients : peer'[d] = "broken" <=> peer[d] = "broken"
      /\ \A d \in Clients : cpc'[d] \in {"off", "connected"} => cpc[d] = cpc'[d]
      /\ \A d \in Clients : cpc[d] \in {"off"} => cpc'[d] = cpc[d]
  BY <1>2
<1>6. QED
  BY <1>3, <1>4, <1>5, QuietStep DEF IInv

\* A client reads, ends, or does nothing that the server sees.
LEMMA ReadingStep ==
    ASSUME IInv, NEW c \in Clients,
           ReadAnswer(c) \/ Read(c) \/ ServerDisconnect(c) \/ Quit(c)
    PROVE  IInv'
<1>0. /\ down \in [Clients -> Seq(Messages)]
      /\ answered \in [Clients -> {"no", "ACK", "NAK", "error"}]
      /\ cpc \in [Clients -> {"off", "connected", "joining", "chatting", "exit"}]
  BY DEF IInv, Typed, TypeOK
<1>a. down[c] # <<>> => [down EXCEPT ![c] = Tail(@)] \in [Clients -> Seq(Messages)]
  <2>1. down[c] # <<>> => Tail(down[c]) \in Seq(Messages)
    BY <1>0, TakingOff
  <2>2. QED
    BY <2>1, <1>0
<1>1. CASE ReadAnswer(c)
  <2>1. /\ down' \in [Clients -> Seq(Messages)]
        /\ answered' \in [Clients -> {"no", "ACK", "NAK", "error"}]
        /\ cpc[c] = "joining"
        /\ UNCHANGED <<server, up, offset, my_name, is_idle, lines, history>>
    BY <1>0, <1>a, <1>1 DEF ReadAnswer
  <2>2. CASE Exit(c, down'[c])
    BY <2>1, <2>2, ExitStep
  <2>3. CASE cpc' = [cpc EXCEPT ![c] = "chatting"] /\ UNCHANGED peer
    <3>1. Typed'
      BY <2>1, <2>3, <1>0, SameMessages DEF IInv, Typed, TypeOK, server, history
    <3>2. Sockets'
      BY <2>1, <2>3, <1>0 DEF IInv, Sockets
    <3>3. QED
      BY <2>1, <2>3, <3>1, <3>2, <1>0, QuietStep DEF IInv
  <2>4. QED
    BY <1>1, <2>2, <2>3 DEF ReadAnswer
<1>2. CASE Read(c)
  <2>1. down' \in [Clients -> Seq(Messages)]
    BY <1>2, <1>a DEF Read
  <2>2. UNCHANGED <<server, up, offset, peer, clients, history>>
    BY <1>2 DEF Read
  <2>3. Typed'
    BY <2>1, <2>2, SameMessages DEF IInv, Typed, TypeOK, server, history, clients
  <2>4. Sockets'
    BY <2>2 DEF IInv, Sockets, clients
  <2>5. QED
    BY <2>2, <2>3, <2>4, QuietStep DEF IInv, clients
<1>3. CASE ServerDisconnect(c)
  <2>1. answered' \in [Clients -> {"no", "ACK", "NAK", "error"}]
    BY <1>0, <1>3 DEF ServerDisconnect
  <2>2. QED
    BY <2>1, <1>0, <1>3, ExitStep DEF ServerDisconnect
<1>4. CASE Quit(c)
  BY <1>0, <1>4, ExitStep DEF Quit
<1>5. QED
  BY <1>1, <1>2, <1>3, <1>4

\* A client sends a message: a JOIN before any other, and a line that is counted
\* as typed alone only when the server had read what the client sent before.
LEMMA SendingStep ==
    ASSUME IInv, NEW c \in Clients, NEW m \in FromClient(c), Send(c, m),
           cpc[c] \in {"connected", "chatting"},
           m.type = "JOIN" => cpc[c] = "connected",
           cpc' \in [Clients -> {"off", "connected", "joining", "chatting", "exit"}],
           cpc'[c] \in {"joining", "chatting"},
           \A d \in Clients : d # c => cpc'[d] = cpc[d],
           is_idle' \in [Clients -> BOOLEAN],
           lines' \in [Clients -> 0..MaxLines],
           alone' \in [Clients -> SUBSET (1..MaxLines)],
           \A d \in Clients : d # c => alone'[d] = alone[d],
           \A i \in alone'[c] : i \in alone[c] \/ (up[c] = <<>> /\ m = make_msg_send(c, i)),
           UNCHANGED <<server, offset, down, peer, my_name, answered, heard, forwarded>>
    PROVE  IInv'
<1> USE DEF server
<1>1. /\ up \in [Clients -> Seq(Messages)]
      /\ \A d \in Clients : up[d] \in Seq(FromClient(d))
      /\ m \in Messages
      /\ up' = [up EXCEPT ![c] = Append(@, m)]
  BY MessageFacts DEF IInv, Typed, TypeOK, Send
<1>2. /\ up'[c] = Append(up[c], m)
      /\ \A d \in Clients : d # c => up'[d] = up[d]
  BY <1>1
<1>3. /\ up'[c] \in Seq(Messages) /\ up'[c] \in Seq(FromClient(c))
      /\ Len(up[c]) \in Nat /\ Len(up'[c]) = Len(up[c]) + 1
      /\ \A i \in 1..Len(up[c]) : up'[c][i] = up[c][i]
      /\ up'[c][Len(up[c]) + 1] = m
      /\ up'[c] # <<>>
  BY <1>1, <1>2, Appending, Positions
<1>4. /\ Head(up'[c]) = up'[c][1]
      /\ up[c] # <<>> => Head(up'[c]) = Head(up[c])
      /\ up[c] = <<>> => Head(up'[c]) = m
  <2>1. Head(up'[c]) = up'[c][1]
    BY <1>3, TakingOff
  <2>2. CASE up[c] # <<>>
    <3>1. Head(up[c]) = up[c][1] /\ 1 \in 1..Len(up[c])
      BY <2>2, <1>1, TakingOff, Positions
    <3>2. QED
      BY <2>1, <2>2, <3>1, <1>3
  <2>3. CASE up[c] = <<>>
    <3>1. Len(up[c]) = 0
      BY <2>3
    <3>2. QED
      BY <2>1, <2>3, <3>1, <1>3
  <2>4. QED
    BY <2>1, <2>2, <2>3
<1>5. cpc[c] = "connected" => up[c] = <<>> /\ offset[c] = 0 /\ username[c] = NoName
  BY DEF IInv, JoinFirst, Named
<1>6. /\ todo # <<>> => Head(todo) \in Clients
      /\ peer[c] = "alive"
  <2>1. todo \in Seq(Clients) /\ peer[c] = "alive"
    BY DEF IInv, Typed, TypeOK, Sockets
  <2>2. QED
    BY <2>1, TakingOff
<1>11. Typed'
  <2>1. up' \in [Clients -> Seq(Messages)]
    BY <1>1, <1>2, <1>3
  <2>2. \A d \in Clients : up'[d] \in Seq(FromClient(d))
    BY <1>1, <1>2, <1>3
  <2>3. \A d \in Clients : FromClient(d)' = FromClient(d)
    BY SameMessages
  <2>4. \A d \in Clients : up'[d] \in Seq(FromClient(d)')
    BY <2>2, <2>3
  <2>5. (buf.type = "SEND" => buf.by \in Clients /\ buf.n \in 1..MaxLines)'
    BY DEF IInv, Typed
  <2>6. TypeOK'
    BY <2>1 DEF IInv, Typed, TypeOK
  <2>7. QED
    BY <2>4, <2>5, <2>6 DEF Typed
<1>12. Places'
  BY DEF IInv, Places
<1>13. Traversal'
  BY DEF IInv, Traversal
<1>14. Named'
  BY DEF IInv, Named
<1>15. JoinFirst'
  <2>1. ASSUME NEW d \in Clients
        PROVE  /\ cpc'[d] \in {"off", "connected"} => up'[d] = <<>>
               /\ up'[d] = <<>> => offset[d] = 0
               /\ \A i \in 1..Len(up'[d]) : up'[d][i].type = "JOIN" =>
                    i = 1 /\ offset[d] = 0 /\ username[d] = NoName
    <3>1. CASE d # c
      BY <3>1, <1>2 DEF IInv, JoinFirst
    <3>2. CASE d = c
      <4>1. ASSUME NEW i \in 1..Len(up'[c]), up'[c][i].type = "JOIN"
            PROVE  i = 1 /\ offset[c] = 0 /\ username[c] = NoName
        <5>1. CASE i \in 1..Len(up[c])
          BY <4>1, <5>1, <1>3 DEF IInv, JoinFirst
        <5>2. CASE i = Len(up[c]) + 1
          <6>1. up[c] = <<>> /\ offset[c] = 0 /\ username[c] = NoName
            BY <4>1, <5>2, <1>3, <1>5
          <6>2. Len(up[c]) = 0
            BY <6>1
          <6>3. QED
            BY <6>1, <6>2, <5>2
        <5>3. QED
          BY <5>1, <5>2, <1>3
      <4>2. QED
        BY <4>1, <3>2, <1>3
    <3>3. QED
      BY <3>1, <3>2
  <2>2. QED
    BY <2>1 DEF JoinFirst
<1>16. JoinHere'
  <2>1. SUFFICES ASSUME buf.type = "JOIN"
                 PROVE  LET d == Head(todo) IN
                        /\ pc = "parse" /\ d \in Range(list)
                        /\ buf = make_msg_join(d, my_name[d])
                        /\ username[d] = NoName
                        /\ cpc'[d] \notin {"off", "connected"}
                        /\ \A i \in 1..Len(up'[d]) : up'[d][i].type # "JOIN"
    BY DEF JoinHere
  <2> DEFINE d == Head(todo)
  <2>2. /\ pc = "parse" /\ d \in Range(list)
        /\ buf = make_msg_join(d, my_name[d])
        /\ username[d] = NoName
        /\ cpc[d] \notin {"off", "connected"}
        /\ \A i \in 1..Len(up[d]) : up[d][i].type # "JOIN"
    BY <2>1 DEF IInv, JoinHere
  <2>3. d \in Clients
    BY <2>2, <1>6 DEF IInv, Traversal
  <2> HIDE DEF d
  <2>4. CASE d # c
    BY <2>2, <2>3, <2>4, <1>2 DEF d
  <2>5. CASE d = c
    <3>1. m.type # "JOIN"
      BY <2>2, <2>5
    <3>2. \A i \in 1..Len(up'[c]) : up'[c][i].type # "JOIN"
      <4>1. ASSUME NEW i \in 1..Len(up'[c]) PROVE up'[c][i].type # "JOIN"
        <5>1. CASE i \in 1..Len(up[c])
          BY <5>1, <1>3, <2>2, <2>5
        <5>2. CASE i = Len(up[c]) + 1
          BY <5>2, <1>3, <3>1
        <5>3. QED
          BY <5>1, <5>2, <1>3
      <4>2. QED
        BY <4>1
    <3>3. QED
      BY <2>2, <2>5, <3>2 DEF d
  <2>6. QED
    BY <2>4, <2>5
<1>17. SendHere'
  BY DEF IInv, SendHere
<1>18. Sockets'
  BY <1>6 DEF IInv, Sockets
<1>19. UniqueNames'
  BY DEF IInv, UniqueNames, Joined, Node
<1>20. JoinedBound'
  BY DEF IInv, JoinedBound, Joined, Node
<1>21. RosterKnown'
  BY DEF IInv, RosterKnown, Joined, Node, Dead
<1>22. LinePending'
  <2>1. ASSUME NEW d \in Clients \ closed, NEW i \in alone'[d]
        PROVE  \/ Dead
               \/ <<d, i>> \in forwarded[d]
               \/ up'[d] # <<>> /\ offset[d] = 0 /\ Head(up'[d]) = make_msg_send(d, i)
               \/ pc = "parse" /\ Head(todo) = d /\ buf = make_msg_send(d, i)
    <3>1. CASE d # c
      BY <2>1, <3>1, <1>2 DEF IInv, LinePending
    <3>2. CASE d = c /\ i \in alone[c]
      BY <3>2, <1>3, <1>4 DEF IInv, LinePending
    <3>3. CASE d = c /\ up[c] = <<>> /\ m = make_msg_send(c, i)
      BY <3>3, <1>3, <1>4 DEF IInv, JoinFirst
    <3>4. QED
      BY <2>1, <3>1, <3>2, <3>3
  <2>2. QED
    BY <2>1 DEF LinePending, Dead
<1>23. OwnLines'
  BY DEF IInv, OwnLines
<1>30. QED
  BY <1>11, <1>12, <1>13, <1>14, <1>15, <1>16, <1>17, <1>18, <1>19, <1>20, <1>21, <1>22,
     <1>23 DEF IInv

\* A client sends its JOIN, a line or IDLE.
LEMMA SpeakingStep ==
    ASSUME IInv, NEW c \in Clients, SendJoin(c) \/ Speak(c) \/ GoIdle(c)
    PROVE  IInv'
<1>1. /\ cpc \in [Clients -> {"off", "connected", "joining", "chatting", "exit"}]
      /\ is_idle \in [Clients -> BOOLEAN] /\ lines \in [Clients -> 0..MaxLines]
      /\ alone \in [Clients -> SUBSET (1..MaxLines)]
      /\ MaxLines \in Nat
  BY ChatAssumption DEF IInv, Typed, TypeOK
<1>2. CASE SendJoin(c)
  <2> DEFINE m == make_msg_join(c, my_name[c])
  <2>1. m \in FromClient(c)
    BY DEF FromClient
  <2>2. /\ Send(c, m) /\ cpc[c] = "connected" /\ cpc' = [cpc EXCEPT ![c] = "joining"]
        /\ UNCHANGED <<server, offset, down, peer, my_name, is_idle, lines, answered, history>>
    BY <1>2 DEF SendJoin
  <2> HIDE DEF m
  <2>3. QED
    BY <2>1, <2>2, <1>1, SendingStep DEF history
<1>3. CASE GoIdle(c)
  <2> DEFINE m == make_msg_idle_c(c)
  <2>1. m \in FromClient(c) /\ m.type = "IDLE"
    BY SentFields DEF FromClient
  <2>2. /\ Send(c, m) /\ cpc[c] = "chatting" /\ is_idle' = [is_idle EXCEPT ![c] = TRUE]
        /\ UNCHANGED <<server, offset, down, peer, cpc, my_name, lines, answered, history>>
    BY <1>3 DEF GoIdle
  <2> HIDE DEF m
  <2>3. QED
    BY <2>1, <2>2, <1>1, SendingStep DEF history
<1>4. CASE Speak(c)
  <2> DEFINE i == lines[c] + 1
             m == make_msg_send(c, i)
  <2>1. /\ lines' = [lines EXCEPT ![c] = i] /\ lines'[c] = i
        /\ cpc[c] = "chatting" /\ is_idle' = [is_idle EXCEPT ![c] = FALSE]
        /\ i \in 1..MaxLines
        /\ UNCHANGED <<server, offset, down, peer, cpc, my_name, answered, heard, forwarded>>
    BY <1>1, <1>4 DEF Speak
  <2>2. /\ Send(c, m)
        /\ alone' = [alone EXCEPT ![c] = IF up[c] = <<>> THEN @ \cup {i} ELSE @]
    BY <1>4, <2>1 DEF Speak
  <2>3. m \in FromClient(c) /\ m.type = "SEND"
    BY <2>1, SentFields DEF FromClient
  <2> HIDE DEF i
  <2>4. \A j \in alone'[c] : j \in alone[c] \/ (up[c] = <<>> /\ m = make_msg_send(c, j))
    BY <2>2, <1>1
  <2>5. /\ alone' \in [Clients -> SUBSET (1..MaxLines)]
        /\ \A d \in Clients : d # c => alone'[d] = alone[d]
    BY <2>1, <2>2, <1>1
  <2>6. lines' \in [Clients -> 0..MaxLines] /\ is_idle' \in [Clients -> BOOLEAN]
    BY <2>1, <1>1
  <2> HIDE DEF m
  <2>7. QED
    BY <2>1, <2>2, <2>3, <2>4, <2>5, <2>6, <1>1, SendingStep
<1>5. QED
  BY <1>2, <1>3, <1>4

-----------------------------------------------------------------------------
(* The theorems *)

\* It holds at the start: nobody has connected.
LEMMA InitIInv == Init => IInv
<1> SUFFICES ASSUME Init PROVE IInv
  OBVIOUS
<1>1. /\ MaxLines \in Nat /\ Cardinality(Clients) \in Nat /\ MaxClients \in Nat
      /\ MsgLen \in Nat \ {0}
  BY ChatAssumption, FS_CardinalityType
<1>2. /\ Noise \in Messages /\ Noise.type = "NONE"
  BY <1>1 DEF Noise, Messages, Msg, Nobody
<1>3. \A S : <<>> \in Seq(S) /\ Range(<<>>) = {} /\ IsInjective(<<>>) /\ Len(<<>>) = 0
  BY DEF Range, IsInjective
<1>4. \A c \in Clients : ~ Joined(c)
  BY DEF Init, Joined, Node
<1>5. Typed
  <2>1. up \in [Clients -> Seq(Messages)] /\ down \in [Clients -> Seq(Messages)]
    BY <1>3 DEF Init
  <2>2. /\ heard \in [Clients -> SUBSET (Names \cup {NoName})]
        /\ alone \in [Clients -> SUBSET (1..MaxLines)]
        /\ forwarded \in [Clients -> SUBSET (Clients \X (1..MaxLines))]
        /\ offset \in [Clients -> 0..(MsgLen - 1)]
        /\ lines \in [Clients -> 0..MaxLines]
    BY <1>1 DEF Init
  <2>3. TypeOK
    BY <2>1, <2>2, <1>2, <1>3 DEF Init, TypeOK
  <2>4. \A c \in Clients : up[c] \in Seq(FromClient(c))
    BY <1>3 DEF Init
  <2>5. QED
    BY <2>3, <2>4, <1>2 DEF Init, Typed
<1>6. Places
  BY <1>3 DEF Init, Places
<1>7. Traversal /\ Named /\ JoinFirst /\ Sockets
  BY DEF Init, Traversal, Named, JoinFirst, Sockets
<1>8. JoinHere /\ SendHere
  BY <1>2 DEF Init, JoinHere, SendHere
<1>9. UniqueNames
  BY <1>4 DEF UniqueNames
<1>10. JoinedBound
  <2>1. {c \in Clients : Joined(c)} = {}
    BY <1>4
  <2>2. QED
    BY <2>1, <1>1, FS_EmptySet DEF JoinedBound
<1>11. RosterKnown
  BY <1>3 DEF Init, RosterKnown
<1>12. LinePending /\ OwnLines
  BY DEF Init, LinePending, OwnLines
<1>13. QED
  BY <1>5, <1>6, <1>7, <1>8, <1>9, <1>10, <1>11, <1>12 DEF IInv

\* Every step keeps it.
LEMMA NextIInv == IInv /\ [Next]_vars => IInv'
<1> SUFFICES ASSUME IInv, [Next]_vars PROVE IInv'
  OBVIOUS
<1>1. CASE Select BY <1>1, SelectStep
<1>2. CASE Skip BY <1>2, SkipStep
<1>3. CASE Receive BY <1>3, ReceiveStep
<1>4. CASE ReceiveReset BY <1>4, ReceiveResetStep
<1>5. CASE ReceiveEnd BY <1>5, ReceiveEndStep
<1>6. CASE ParseOther BY <1>6, ParseOtherStep
<1>7. CASE ParseIdle BY <1>7, ParseIdleStep
<1>8. CASE ParseSend BY <1>8, ParseSendStep
<1>9. CASE JoinAccept BY <1>9, JoinAcceptStep
<1>10. CASE JoinReject BY <1>10, JoinRejectStep
<1>11. ASSUME NEW c \in Clients, Client(c) PROVE IInv'
  BY <1>11, ConnectStep, SpeakingStep, ReadingStep DEF Client
<1>12. CASE UNCHANGED vars
  <2>1. UNCHANGED <<server, history, clients, sockets>>
    BY <1>12 DEF vars
  <2>2. Typed'
    BY <2>1, SameMessages DEF IInv, Typed, TypeOK, server, history, clients, sockets
  <2>3. Sockets'
    BY <2>1 DEF IInv, Sockets, clients, sockets
  <2>4. QED
    BY <2>1, <2>2, <2>3, QuietStep DEF IInv, clients, sockets
<1>13. QED
  BY <1>1, <1>2, <1>3, <1>4, <1>5, <1>6, <1>7, <1>8, <1>9, <1>10, <1>11, <1>12
     DEF Next, Server

\* The inductive invariant holds in every run of the chat.
THEOREM Invariance == Spec => []IInv
  BY InitIInv, NextIInv, PTL DEF Spec

\* Every variable keeps to the values the two programs give it.
THEOREM ChatTypes == Spec => []TypeOK
<1>1. IInv => TypeOK
  BY DEF IInv, Typed
<1>2. QED
  BY <1>1, Invariance, PTL

\* The list never holds a closed descriptor, and never one twice (append_node,
\* remove_node and close in msg_router).
THEOREM ListHoldsOpen == Spec => []ListOfOpen
<1>1. IInv => ListOfOpen
  BY Counting DEF IInv, Typed, TypeOK, Places, ListOfOpen
<1>2. QED
  BY <1>1, Invariance, PTL

\* max_clients bounds those who have joined, whatever the number of connections
\* that the test of a JOIN counts as well.
THEOREM JoinsBounded == Spec => []JoinedBound
<1>1. IInv => JoinedBound
  BY DEF IInv
<1>2. QED
  BY <1>1, Invariance, PTL

\* Two nodes that have joined never have the same name.
THEOREM NamesUnique == Spec => []UniqueNames
<1>1. IInv => UniqueNames
  BY DEF IInv
<1>2. QED
  BY <1>1, Invariance, PTL

\* The ONLINE and OFFLINE messages a connection was sent since it was accepted add
\* up to those who have joined.
THEOREM RosterIsKnown == Spec => []RosterKnown
<1>1. IInv => RosterKnown
  BY DEF IInv
<1>2. QED
  BY <1>1, Invariance, PTL

\* remove_node finds its node: a JOIN is in the buffer only while the node that sent
\* it is visited and is in the list.
THEOREM NodeIsFound == Spec => []RemoveFinds
<1>1. Init => RemoveFinds
  BY DEF Init, RemoveFinds
<1>2. ASSUME IInv, RemoveFinds, [Next]_vars PROVE RemoveFinds'
  <2>1. CASE UNCHANGED vars
    BY <1>2, <2>1 DEF RemoveFinds, vars, server
  <2>2. CASE Select \/ Skip \/ Receive \/ ReceiveReset \/ ParseOther
    BY <1>2, <2>2 DEF RemoveFinds, Select, Skip, Receive, ReceiveReset, ParseOther
  <2>3. CASE ReceiveEnd \/ ParseIdle \/ ParseSend \/ JoinAccept
    BY <1>2, <2>3 DEF RemoveFinds, ReceiveEnd, ParseIdle, ParseSend, JoinAccept, Write
  <2>4. CASE JoinReject
    <3>1. Node(Head(todo))
      BY <1>2, <2>4 DEF JoinReject, IInv, JoinHere, Node
    <3>2. QED
      BY <2>4, <3>1 DEF JoinReject, Write, RemoveFinds
  <2>5. ASSUME NEW c \in Clients, Client(c) PROVE RemoveFinds'
    BY <1>2, <2>5 DEF RemoveFinds, Client, Connect, SendJoin, ReadAnswer, Speak, GoIdle,
                      Read, ServerDisconnect, Quit, server
  <2>6. QED
    BY <1>2, <2>1, <2>2, <2>3, <2>4, <2>5 DEF Next, Server
<1>3. QED
  BY <1>1, <1>2, Invariance, PTL DEF Spec

\* Of the lines that are lost behind the first message of a read, none is one that
\* was typed when the server had read everything before it.
THEOREM LinesForwarded == Spec => []LineForwarded
<1>1. ASSUME IInv PROVE LineForwarded
  <2>1. SUFFICES ASSUME NEW c \in Range(list), pc = "select", up[c] = <<>>,
                        NEW i \in alone[c]
                 PROVE  <<c, i>> \in forwarded[c]
    BY DEF LineForwarded
  <2>2. c \in Clients \ closed
    BY <1>1, Positions DEF IInv, Typed, TypeOK, Places
  <2>3. QED
    BY <1>1, <2>1, <2>2 DEF IInv, LinePending, Dead
<1>2. QED
  BY <1>1, Invariance, PTL

\* No line is forwarded under the name of a client that did not type it, as long as
\* that client's connection is open: an old buffer is interpreted only for one that
\* has ended.
THEOREM LinesOwn == Spec => []OwnLines
<1>1. IInv => OwnLines
  BY DEF IInv
<1>2. QED
  BY <1>1, Invariance, PTL
=============================================================================
