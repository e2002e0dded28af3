------------------------------ MODULE SbcpChat ------------------------------
(***************************************************************************)
(* The chat of Assignment_2: the server's select loop over its linked list *)
(* of connections (server.c, server_lib.c), the client processes           *)
(* (client.c, client_lib.c) and the TCP connections between them.          *)
(*                                                                         *)
(* A client runs once, so its identity also stands for its connection, its *)
(* descriptor and its node in the server's list.  Names are as they travel *)
(* in a JOIN: client.c sends the first 8 bytes, the size of the pointer to *)
(* it.                                                                     *)
(***************************************************************************)
EXTENDS Integers, Sequences, FiniteSets, SequencesExt

CONSTANTS
    Clients,
    Names,       \* the names the clients may be started with
    NoName,      \* what a node's username holds before a JOIN: uninitialised bytes
    MaxClients,  \* max_clients, the server's third argument
    MsgLen,      \* sizeof(sbcp_msg_t): 1036, what a client sends at a time
    ReadLen,     \* MAXDATASIZE - 1: 1499, what the server receives at most
    \* Bounds of the model
    MaxLines,    \* lines a user types
    Idlers,      \* clients whose users may fall idle
    Leavers      \* clients whose users may end them

ASSUME ChatAssumption ==
    /\ IsFiniteSet(Clients)
    /\ NoName \notin Names
    /\ MaxClients \in Nat
    /\ MsgLen \in Nat \ {0} /\ ReadLen \in Nat /\ ReadLen >= MsgLen
    /\ MaxLines \in Nat /\ Idlers \subseteq Clients /\ Leavers \subseteq Clients

VARIABLES
    \* The server
    pc,         \* "select", "visit" (top of the traversal), "parse" (buf is to be
                \* interpreted), "segv" (a null pointer was followed) or "sigpipe"
    backlog,    \* connections not yet accepted, in order
    list,       \* the nodes behind listen_fd, in order
    username,   \* of each node
    readfds,    \* the descriptors select found readable
    todo,       \* the nodes the traversal has still to visit
    buf,        \* the message in msg_router's buffer
    closed,     \* the connections the server has closed
    \* The connections
    up,         \* messages on their way to the server, one sequence per client
    offset,     \* bytes of the first of them that were received already
    down,       \* messages on their way to the client
    peer,       \* the client's end as the server's socket sees it
    \* The clients
    cpc,        \* "off", "connected", "joining", "chatting" or "exit"
    my_name,
    is_idle,
    lines,      \* lines typed so far
    \* History
    answered,   \* how a client left "joining": "no", "ACK", "NAK" or "error"
    heard,      \* names a connection was told of as online: accepted before it, or
                \* announced since, and not announced as offline
    alone,      \* lines typed when the server had read all that the client sent before
    forwarded   \* lines the server took for a SEND of the client's connection

server  == <<pc, backlog, list, username, readfds, todo, buf, closed>>
sockets == <<up, offset, down, peer>>
clients == <<cpc, my_name, is_idle, lines, answered>>
history == <<heard, alone, forwarded>>
vars == <<server, sockets, clients, history>>

\* Messages.  "by" is who typed the line or joins, "name" the USERNAME attribute
\* and "n" the number of the line or the CLIENTCOUNT.
Msg(type, by, name, n) == [type |-> type, by |-> by, name |-> name, n |-> n]
Nobody == "nobody"

make_msg_fwd(m, name)  == Msg("FWD", m.by, name, m.n)
make_msg_nak           == Msg("NAK", Nobody, NoName, 0)
make_msg_offline(name) == Msg("OFFLINE", Nobody, name, 0)
make_msg_ack(count)    == Msg("ACK", Nobody, NoName, count)
make_msg_online(name)  == Msg("ONLINE", Nobody, name, 0)
make_msg_idle_s(name)  == Msg("IDLE", Nobody, name, 0)
make_msg_join(c, name) == Msg("JOIN", c, name, 0)
make_msg_send(c, line) == Msg("SEND", c, NoName, line)
make_msg_idle_c(c)     == Msg("IDLE", c, NoName, 0)

\* Bytes that are no header of a message: get_msg_type finds a type that no
\* branch of msg_router knows.
Noise == Msg("NONE", Nobody, NoName, 0)

Node(c) == c \in Range(list)
append_node(nodes, c) == Append(nodes, c)
client_count == Len(list)
Joined(c) == Node(c) /\ username[c] # NoName

Init ==
    /\ pc = "select"
    /\ backlog = <<>>
    /\ list = <<>>
    /\ username = [c \in Clients |-> NoName]
    /\ readfds = {}
    /\ todo = <<>>
    /\ buf = Noise
    /\ closed = {}
    /\ up = [c \in Clients |-> <<>>]
    /\ offset = [c \in Clients |-> 0]
    /\ down = [c \in Clients |-> <<>>]
    /\ peer = [c \in Clients |-> "alive"]
    /\ cpc = [c \in Clients |-> "off"]
    /\ my_name \in [Clients -> Names]
    /\ is_idle = [c \in Clients |-> FALSE]
    /\ lines = [c \in Clients |-> 0]
    /\ answered = [c \in Clients |-> "no"]
    /\ heard = [c \in Clients |-> {}]
    /\ alone = [c \in Clients |-> {}]
    /\ forwarded = [c \in Clients |-> {}]

-----------------------------------------------------------------------------
(* Sockets, as the server's system calls find them.  peer[c] is "alive",    *)
(* "fin" (closed), "finreset" (closed, and has answered a message with a    *)
(* reset), "reset" (closed with messages unread) or "broken" (a reset the   *)
(* server was told of).                                                     *)

\* What select reports.  (Variants named Faulty... seed a fault and are used by no
\* action: this one leaves out the highest descriptor.)
FaultyReadable(c) == (up[c] # <<>> \/ peer[c] # "alive") /\ c # Last(list)
Readable(c) == up[c] # <<>> \/ peer[c] # "alive"

\* Sending to a connection in this state raises SIGPIPE, which nothing ignores.
Fatal(c) == peer[c] \in {"finreset", "broken"}

AfterSend(p) == CASE p = "fin"   -> {"fin", "finreset"}
                  [] p = "reset" -> {"broken"}
                  [] OTHER       -> {p}

\* One server_write of msg[c] for each c in the domain of msg.  alive is the
\* control state of a server that survives them.
Write(msg, alive) ==
  LET to == DOMAIN msg IN
    /\ down' = [c \in Clients |-> IF c \in to /\ peer[c] = "alive"
                                  THEN Append(down[c], msg[c]) ELSE down[c]]
    /\ \E p \in [to -> {"alive", "fin", "finreset", "reset", "broken"}] :
        /\ \A c \in to : p[c] \in AfterSend(peer[c])
        /\ peer' = [c \in Clients |-> IF c \in to THEN p[c] ELSE peer[c]]
    /\ heard' = [c \in Clients |->
                    IF c \notin to THEN heard[c]
                    ELSE CASE msg[c].type = "ONLINE"  -> heard[c] \cup {msg[c].name}
                           [] msg[c].type = "OFFLINE" -> heard[c] \ {msg[c].name}
                           [] OTHER                   -> heard[c]]
    /\ pc' = IF \E c \in to : Fatal(c) THEN "sigpipe" ELSE alive

\* msg_broadcast: to every node but the origin, joined or not.
FaultyAudience(origin) == {c \in Range(list) \ {origin} : Joined(c)}
Audience(origin) == Range(list) \ {origin}

\* remove_node: the node is unlinked.
FaultyRemove(nodes, c) == IF Last(nodes) = c THEN nodes ELSE RemoveFirst(nodes, c)
remove_node(nodes, c) == RemoveFirst(nodes, c)

\* recv: up to ReadLen bytes of what has arrived.
FaultyConsumed(c) == offset[c] + ReadLen
Consumed(c) == LET queued == Len(up[c]) * MsgLen
               IN  IF offset[c] + ReadLen < queued THEN offset[c] + ReadLen ELSE queued

-----------------------------------------------------------------------------
(* The server *)

\* fd_select, and msg_router up to its loop: accept one connection, and start a
\* traversal with a buffer that nothing initialises, which may still hold what
\* the last traversal left in it.
Select ==
    /\ pc = "select"
    /\ readfds' = {c \in Range(list) : Readable(c)}
    /\ readfds' # {} \/ backlog # <<>>
    /\ IF backlog = <<>>
       THEN UNCHANGED <<backlog, list, heard>>
       ELSE /\ list' = append_node(list, Head(backlog))
            /\ backlog' = Tail(backlog)
            /\ heard' = [heard EXCEPT ![Head(backlog)] =
                            {username[d] : d \in {e \in Clients : Joined(e)}}]
    /\ todo' = list'
    /\ buf' \in {buf, Noise}
    /\ pc' = "visit"
    /\ UNCHANGED <<username, closed, sockets, clients, alone, forwarded>>

\* The end of the traversal, or a node that is not readable.
Skip ==
    /\ pc = "visit"
    /\ IF todo = <<>>
       THEN pc' = "select" /\ UNCHANGED todo
       ELSE /\ Head(todo) \notin readfds
            /\ todo' = Tail(todo)
            /\ UNCHANGED pc
    /\ UNCHANGED <<backlog, list, username, readfds, buf, closed, sockets, clients, history>>

\* What msg_router finds in its buffer: a message, and the bytes behind it, or the
\* middle of one.
FaultyReceived(c) == IF offset[c] = 0 THEN Head(up[c]) ELSE buf
Received(c) == IF offset[c] = 0 THEN Head(up[c]) ELSE Noise

\* server_read returned a message, or the bytes of more than one.
Receive ==
    /\ pc = "visit" /\ todo # <<>>
    /\ LET c == Head(todo) IN
        /\ c \in readfds
        /\ up[c] # <<>>
        /\ buf' = Received(c)
        /\ up' = [up EXCEPT ![c] = SubSeq(@, (Consumed(c) \div MsgLen) + 1, Len(@))]
        /\ offset' = [offset EXCEPT ![c] = Consumed(c) % MsgLen]
    /\ pc' = "parse"
    /\ UNCHANGED <<backlog, list, username, readfds, todo, closed, down, peer, clients, history>>

\* server_read returned -1: buf keeps what it held, and the node stays.
ReceiveReset ==
    /\ pc = "visit" /\ todo # <<>>
    /\ LET c == Head(todo) IN
        /\ c \in readfds
        /\ up[c] = <<>> /\ peer[c] = "reset"
        /\ peer' = [peer EXCEPT ![c] = "broken"]
    /\ pc' = "parse"
    /\ UNCHANGED <<backlog, list, username, readfds, todo, buf, closed, up, offset, down,
                   clients, history>>

\* server_read returned 0: OFFLINE to the others, close, remove_node; and on to
\* the branches below with the buffer as it was.
ReceiveEnd ==
    /\ pc = "visit" /\ todo # <<>>
    /\ LET c == Head(todo) IN
        /\ c \in readfds
        /\ up[c] = <<>> /\ peer[c] \in {"fin", "finreset", "broken"}
        /\ Write([d \in Audience(c) |-> make_msg_offline(username[c])], "parse")
        /\ closed' = closed \cup {c}
        /\ list' = remove_node(list, c)
    /\ UNCHANGED <<backlog, username, readfds, todo, buf, up, offset, clients, alone, forwarded>>

\* The buffer holds a message that no branch handles.
ParseOther ==
    /\ pc = "parse"
    /\ buf.type \notin {"IDLE", "SEND", "JOIN"}
    /\ pc' = "visit"
    /\ todo' = Tail(todo)
    /\ UNCHANGED <<backlog, list, username, readfds, buf, closed, sockets, clients, history>>

ParseIdle ==
    /\ pc = "parse"
    /\ buf.type = "IDLE"
    /\ LET c == Head(todo) IN
        Write([d \in Audience(c) |-> make_msg_idle_s(username[c])], "visit")
    /\ todo' = Tail(todo)
    /\ UNCHANGED <<backlog, list, username, readfds, buf, closed, up, offset, clients, alone, forwarded>>

ParseSend ==
    /\ pc = "parse"
    /\ buf.type = "SEND"
    /\ LET c == Head(todo) IN
        /\ Write([d \in Audience(c) |-> make_msg_fwd(buf, username[c])], "visit")
        /\ forwarded' = [forwarded EXCEPT ![c] = @ \cup {<<buf.by, buf.n>>}]
    /\ todo' = Tail(todo)
    /\ UNCHANGED <<backlog, list, username, readfds, buf, closed, up, offset, clients, alone>>

\* The tests of a JOIN.  Both look at every node, joined or not, and the
\* requestor's own is among them.
FaultyFull == client_count - 1 > MaxClients
Full == client_count - 1 >= MaxClients
FaultyDuplicate(name) == FALSE
is_duplicate_name(name) == \E c \in Range(list) : username[c] = name

\* parse_msg_join: the username in the message.
FaultyUsername(m) == m.by
Username(m) == m.name

\* The reply of a JOIN is built in buf.
FaultyReply(m) == m
Reply(m) == Msg("REPLY", Nobody, NoName, 0)

JoinAccept ==
    /\ pc = "parse"
    /\ buf.type = "JOIN" /\ ~ Full /\ ~ is_duplicate_name(Username(buf))
    /\ LET c == Head(todo) IN
        /\ username' = [username EXCEPT ![c] = Username(buf)]
        /\ Write([d \in ({c} \ closed) \cup Audience(c) |->
                    IF d = c THEN make_msg_ack(client_count - 1)
                             ELSE make_msg_online(Username(buf))], "visit")
    /\ buf' = Reply(buf)
    /\ todo' = Tail(todo)
    /\ UNCHANGED <<backlog, list, readfds, closed, up, offset, clients, alone, forwarded>>

\* remove_node walks off the end of a list that does not hold the node.
JoinReject ==
    /\ pc = "parse"
    /\ buf.type = "JOIN" /\ (Full \/ is_duplicate_name(Username(buf)))
    /\ LET c == Head(todo) IN
        /\ Write([d \in {c} \ closed |-> make_msg_nak],
                 IF Node(c) THEN "visit" ELSE "segv")
        /\ closed' = closed \cup {c}
        /\ list' = remove_node(list, c)
    /\ buf' = Reply(buf)
    /\ todo' = Tail(todo)
    /\ UNCHANGED <<backlog, username, readfds, up, offset, clients, alone, forwarded>>

Server ==
    \/ Select \/ Skip
    \/ Receive \/ ReceiveReset \/ ReceiveEnd
    \/ ParseOther \/ ParseIdle \/ ParseSend \/ JoinAccept \/ JoinReject

-----------------------------------------------------------------------------
(* The clients *)

ServerGone(c) == c \in closed \/ pc \in {"segv", "sigpipe"}

Send(c, m) == up' = [up EXCEPT ![c] = Append(@, m)]

\* The process ends: its socket is closed, with a reset if it left messages
\* unread.
Exit(c, unread) ==
    /\ cpc' = [cpc EXCEPT ![c] = "exit"]
    /\ peer' = [peer EXCEPT ![c] = IF unread = <<>> THEN "fin" ELSE "reset"]

\* server_lookup_connect: the connection waits in the backlog.
Connect(c) ==
    /\ cpc[c] = "off"
    /\ pc \notin {"segv", "sigpipe"}
    /\ cpc' = [cpc EXCEPT ![c] = "connected"]
    /\ backlog' = Append(backlog, c)
    /\ UNCHANGED <<pc, list, username, readfds, todo, buf, closed, sockets,
                   my_name, is_idle, lines, answered, history>>

SendJoin(c) ==
    /\ cpc[c] = "connected"
    /\ Send(c, make_msg_join(c, my_name[c]))
    /\ cpc' = [cpc EXCEPT ![c] = "joining"]
    /\ UNCHANGED <<server, offset, down, peer, my_name, is_idle, lines, answered, history>>

\* The first message decides: ACK goes on, everything else ends the process.
ReadAnswer(c) ==
    /\ cpc[c] = "joining"
    /\ down[c] # <<>>
    /\ down' = [down EXCEPT ![c] = Tail(@)]
    /\ LET m == Head(down[c]) IN
        /\ answered' = [answered EXCEPT ![c] =
                            IF m.type \in {"ACK", "NAK"} THEN m.type ELSE "error"]
        /\ IF m.type = "ACK"
           THEN cpc' = [cpc EXCEPT ![c] = "chatting"] /\ UNCHANGED peer
           ELSE Exit(c, down'[c])
    /\ UNCHANGED <<server, up, offset, my_name, is_idle, lines, history>>

\* A line from stdin is sent and ends the idle status.
Speak(c) ==
    /\ cpc[c] = "chatting"
    /\ lines[c] < MaxLines
    /\ ~ ServerGone(c)
    /\ lines' = [lines EXCEPT ![c] = @ + 1]
    /\ is_idle' = [is_idle EXCEPT ![c] = FALSE]
    /\ Send(c, make_msg_send(c, lines'[c]))
    /\ alone' = [alone EXCEPT ![c] = IF up[c] = <<>> THEN @ \cup {lines'[c]} ELSE @]
    /\ UNCHANGED <<server, offset, down, peer, cpc, my_name, answered, heard, forwarded>>

\* Ten seconds have passed without a line.
GoIdle(c) ==
    /\ cpc[c] = "chatting" /\ c \in Idlers
    /\ ~ is_idle[c]
    /\ ~ ServerGone(c)
    /\ is_idle' = [is_idle EXCEPT ![c] = TRUE]
    /\ Send(c, make_msg_idle_c(c))
    /\ UNCHANGED <<server, offset, down, peer, cpc, my_name, lines, answered, history>>

\* A message is printed.
Read(c) ==
    /\ cpc[c] = "chatting"
    /\ down[c] # <<>>
    /\ down' = [down EXCEPT ![c] = Tail(@)]
    /\ UNCHANGED <<server, up, offset, peer, clients, history>>

\* The server's end is closed and everything it sent was read.
ServerDisconnect(c) ==
    /\ cpc[c] \in {"connected", "joining", "chatting"}
    /\ ServerGone(c) /\ down[c] = <<>>
    /\ Exit(c, <<>>)
    /\ answered' = [answered EXCEPT ![c] = IF cpc[c] = "joining" THEN "error" ELSE @]
    /\ UNCHANGED <<server, up, offset, down, my_name, is_idle, lines, history>>

\* The user ends the process.
Quit(c) ==
    /\ c \in Leavers
    /\ cpc[c] \in {"connected", "joining", "chatting"}
    /\ Exit(c, down[c])
    /\ UNCHANGED <<server, up, offset, down, my_name, is_idle, lines, answered, history>>

Client(c) ==
    \/ Connect(c) \/ SendJoin(c) \/ ReadAnswer(c)
    \/ Speak(c) \/ GoIdle(c) \/ Read(c)
    \/ ServerDisconnect(c) \/ Quit(c)

Next == Server \/ \E c \in Clients : Client(c)

\* The server's loop is scheduled.
Spec == Init /\ [][Next]_vars /\ WF_vars(Server)

-----------------------------------------------------------------------------
(* Properties *)

Dead == pc \in {"segv", "sigpipe"}

Messages == [type : {"JOIN", "SEND", "IDLE", "FWD", "ACK", "NAK", "ONLINE", "OFFLINE",
                     "REPLY", "NONE"},
             by : Clients \cup {Nobody}, name : Names \cup {NoName},
             n : 0..(MaxLines + Cardinality(Clients))]

\* Every variable keeps to the values the two programs give it.
TypeOK ==
    /\ pc \in {"select", "visit", "parse", "segv", "sigpipe"}
    /\ backlog \in Seq(Clients) /\ list \in Seq(Clients) /\ todo \in Seq(Clients)
    /\ username \in [Clients -> Names \cup {NoName}]
    /\ readfds \subseteq Clients /\ closed \subseteq Clients
    /\ buf \in Messages
    /\ up \in [Clients -> Seq(Messages)] /\ down \in [Clients -> Seq(Messages)]
    /\ offset \in [Clients -> 0..(MsgLen - 1)]
    /\ peer \in [Clients -> {"alive", "fin", "finreset", "reset", "broken"}]
    /\ cpc \in [Clients -> {"off", "connected", "joining", "chatting", "exit"}]
    /\ my_name \in [Clients -> Names]
    /\ is_idle \in [Clients -> BOOLEAN]
    /\ lines \in [Clients -> 0..MaxLines]
    /\ answered \in [Clients -> {"no", "ACK", "NAK", "error"}]
    /\ heard \in [Clients -> SUBSET (Names \cup {NoName})]
    /\ alone \in [Clients -> SUBSET (1..MaxLines)]
    /\ forwarded \in [Clients -> SUBSET (Clients \X (1..MaxLines))]

\* No more than max_clients have joined, however connections that have not joined
\* yet come and go in between: they count in the test as well.
JoinedBound == Cardinality({c \in Clients : Joined(c)}) <= MaxClients

\* Two nodes never have the same name, also when both JOINs arrive in one
\* traversal.
UniqueNames == \A c, d \in Clients : Joined(c) /\ Joined(d) /\ username[c] = username[d] => c = d

\* The list never holds a closed descriptor, whose number the next accept may
\* return, and never holds one twice.
ListOfOpen ==
    /\ Range(list) \cap closed = {}
    /\ Cardinality(Range(list)) = Len(list)

\* remove_node never looks for a node that is not there, although a traversal goes
\* on to interpret an old buffer for a node it has removed: an old buffer is never
\* a JOIN, because every JOIN is overwritten by its reply.
RemoveFinds == pc # "segv"

\* What a connection was told since it was accepted is who has joined: no ONLINE
\* and no OFFLINE is missing, doubled or out of order, whatever else happens in
\* the same traversal.
RosterKnown ==
    ~ Dead => \A c \in Range(list) :
        heard[c] \ {my_name[c], NoName} =
            {username[d] : d \in {e \in Clients : Joined(e)}} \ {my_name[c]}

\* A client that sent its JOIN is answered or has ended, unless the server has.
JoinAnswered ==
    \A c \in Clients :
        (cpc[c] = "joining") ~> (cpc[c] # "joining" \/ down[c] # <<>> \/ Dead)

\* A stream of messages is read in pieces of another size, and what is behind the
\* first message of a piece is lost (server_lib.c:267).  A line typed when the server
\* had read everything before it is still forwarded, whatever the client sends next.
LineForwarded ==
    \A c \in Range(list) :
        pc = "select" /\ up[c] = <<>> => \A i \in alone[c] : <<c, i>> \in forwarded[c]

\* An old buffer is interpreted only for a connection that has ended (the branches
\* of msg_router that follow server_lib.c:277): no line is forwarded under the name
\* of a client that did not type it, and whose connection is open.
OwnLines ==
    \A c \in Clients \ closed :
        peer[c] # "broken" => \A l \in forwarded[c] : l[1] = c
=============================================================================
