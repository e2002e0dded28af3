-------------------------------- MODULE Echo --------------------------------
(***************************************************************************)
(* The echo service (Assignment_1/server.c and client.c): the processes of *)
(* the server, which all take connections from one listening socket, and   *)
(* its clients, each of which sends a line and waits for it to come back.  *)
(* Both ends send packets of a fixed size, but a recv may return a part.   *)
(***************************************************************************)
EXTENDS Integers, Sequences, FiniteSets, SequencesExt

CONSTANTS
    Conns,      \* connections (bound of the model)
    Procs,      \* processes the system lets the server have, 0 the first
    FdLimit,    \* connections a process can have descriptors for
    Size,       \* bytes of a packet: MAXDATASIZE - 1 in the code
    Lines,      \* lines of a client (bound of the model)
    Brief       \* clients with one line only

ASSUME EchoAssumption ==
    /\ Procs \in SUBSET Nat /\ 0 \in Procs
    /\ FdLimit \in Nat /\ Size \in Nat \ {0} /\ Lines \in Nat
    /\ Brief \subseteq Conns

VARIABLES
    \* The server's processes
    pc,         \* "unborn", "accept", "read", "send", "exited"
    new_fd,     \* the connection each accepted last, or serves
    open,       \* the connections each has a descriptor for
    buf,
    \* The connections
    backlog,    \* those that wait to be accepted
    up, down,   \* bytes on their way to the server and to the client
    reset,
    \* The clients
    user,       \* "away", "typing" (in fgets), "waiting" (in recv), "closed", "mismatch"
    line,       \* lines read
    recvbuf,
    \* History
    short,      \* connections on which a recv returned a part of a packet
    orphans     \* connections for which fork failed

server == <<pc, new_fd, open, buf>>
wire   == <<backlog, up, down, reset>>
client == <<user, line, recvbuf>>
vars   == <<server, wire, client, short, orphans>>

None  == "none"
Stale == <<"?", 0, 0>>

\* The packet that holds line l of connection c.
Packet(c, l) == [i \in 1..Size |-> <<c, l, i>>]

\* recv of bytes into a buffer: the rest of the buffer stays as it was.
Over(bytes, b) == [i \in 1..Size |-> IF i <= Len(bytes) THEN bytes[i] ELSE b[i]]

Init ==
    /\ pc = [p \in Procs |-> IF p = 0 THEN "accept" ELSE "unborn"]
    /\ new_fd = [p \in Procs |-> None]
    /\ open = [p \in Procs |-> {}]
    /\ buf = [p \in Procs |-> [i \in 1..Size |-> Stale]]
    /\ backlog = <<>>
    /\ up = [c \in Conns |-> <<>>]
    /\ down = [c \in Conns |-> <<>>]
    /\ reset = [c \in Conns |-> FALSE]
    /\ user = [c \in Conns |-> "away"]
    /\ line = [c \in Conns |-> 0]
    /\ recvbuf = [c \in Conns |-> [i \in 1..Size |-> Stale]]
    /\ short = {}
    /\ orphans = {}

-----------------------------------------------------------------------------
(* The clients *)

Connect(c) ==
    /\ user[c] = "away"
    /\ user' = [user EXCEPT ![c] = "typing"]
    /\ backlog' = Append(backlog, c)
    /\ UNCHANGED <<server, up, down, reset, line, recvbuf, short, orphans>>

SendLine(c) ==
    /\ user[c] = "typing" /\ line[c] < (IF c \in Brief THEN 1 ELSE Lines)
    /\ line' = [line EXCEPT ![c] = @ + 1]
    /\ up' = [up EXCEPT ![c] = @ \o Packet(c, line[c] + 1)]
    /\ user' = [user EXCEPT ![c] = "waiting"]
    /\ UNCHANGED <<server, backlog, down, reset, recvbuf, short, orphans>>

\* The line that came back is compared with the one sent: it is the same, or what was
\* received is a beginning of it ("out of space"), or the client ends.
Echoed(c, bytes) ==
    \/ Over(bytes, recvbuf[c]) = Packet(c, line[c])
    \/ bytes = SubSeq(Packet(c, line[c]), 1, Len(bytes))

\* Closing with bytes unread resets the connection.
Close(c, status) ==
    /\ user' = [user EXCEPT ![c] = status]
    /\ reset' = [reset EXCEPT ![c] = down'[c] # <<>>]

ReceiveEcho(c, n) ==
    /\ user[c] = "waiting" /\ n \in 1..Size /\ n <= Len(down[c])
    /\ LET bytes == SubSeq(down[c], 1, n) IN
       /\ recvbuf' = [recvbuf EXCEPT ![c] = Over(bytes, @)]
       /\ down' = [down EXCEPT ![c] = SubSeq(@, n + 1, Len(@))]
       /\ IF Echoed(c, bytes)
          THEN user' = [user EXCEPT ![c] = "typing"] /\ UNCHANGED reset
          ELSE Close(c, "mismatch")
    /\ short' = IF n < Size THEN short \cup {c} ELSE short
    /\ UNCHANGED <<server, backlog, up, line, orphans>>

\* The end of stdin, or the user stops the client.
Leave(c) ==
    /\ user[c] \in {"typing", "waiting"}
    /\ UNCHANGED <<server, backlog, up, down, line, recvbuf, short, orphans>>
    /\ Close(c, "closed")

-----------------------------------------------------------------------------
(* The server *)

\* At its limit of descriptors accept fails, and is called again at once.
Room(p) == Cardinality(open[p]) < FdLimit

Unborn == {q \in Procs : pc[q] = "unborn"}

\* (Variants named Faulty... seed a fault and are used by no action.)
FaultyRelease(p, c) == open[p]
\* The parent's descriptors: new_fd is not closed.
Retain(p, c) == open[p] \cup {c}

FaultyBoth == "read"
\* The parent goes on to accept.
GoOn == "accept"

\* accept and fork: the child has a copy of everything and serves the connection.
Accept(p, q) ==
    /\ pc[p] = "accept" /\ backlog # <<>> /\ Room(p)
    /\ q \in Unborn /\ \A r \in Unborn : q <= r
    /\ LET c == Head(backlog) IN
       /\ open' = [open EXCEPT ![p] = Retain(p, c), ![q] = open[p] \cup {c}]
       /\ new_fd' = [new_fd EXCEPT ![p] = c, ![q] = c]
    /\ buf' = [buf EXCEPT ![q] = buf[p]]
    /\ pc' = [pc EXCEPT ![p] = GoOn, ![q] = "read"]
    /\ backlog' = Tail(backlog)
    /\ UNCHANGED <<up, down, reset, client, short, orphans>>

\* fork fails: -1 is not 0, and the parent goes on.
ForkFails(p) ==
    /\ pc[p] = "accept" /\ backlog # <<>> /\ Room(p)
    /\ Unborn = {}
    /\ open' = [open EXCEPT ![p] = Retain(p, Head(backlog))]
    /\ new_fd' = [new_fd EXCEPT ![p] = Head(backlog)]
    /\ orphans' = orphans \cup {Head(backlog)}
    /\ backlog' = Tail(backlog)
    /\ UNCHANGED <<pc, buf, up, down, reset, client, short>>

FaultyNext == "read"
AfterRead == "send"

Read(p, n) ==
    LET c == new_fd[p] IN
    /\ pc[p] = "read" /\ ~ reset[c]
    /\ n \in 1..Size /\ n <= Len(up[c])
    /\ buf' = [buf EXCEPT ![p] = Over(SubSeq(up[c], 1, n), @)]
    /\ up' = [up EXCEPT ![c] = SubSeq(@, n + 1, Len(@))]
    /\ short' = IF n < Size THEN short \cup {c} ELSE short
    /\ pc' = [pc EXCEPT ![p] = AfterRead]
    /\ UNCHANGED <<new_fd, open, backlog, down, reset, client, orphans>>

\* The end of the stream: the child closes its descriptor and goes on to accept too.
ReadEnd(p) ==
    LET c == new_fd[p] IN
    /\ pc[p] = "read" /\ ~ reset[c]
    /\ up[c] = <<>> /\ user[c] \in {"closed", "mismatch"}
    /\ open' = [open EXCEPT ![p] = @ \ {c}]
    /\ pc' = [pc EXCEPT ![p] = "accept"]
    /\ UNCHANGED <<new_fd, buf, wire, client, short, orphans>>

Exit(p) ==
    /\ pc' = [pc EXCEPT ![p] = "exited"]
    /\ open' = [open EXCEPT ![p] = {}]
    /\ UNCHANGED <<new_fd, buf, wire, client, short, orphans>>

\* recv fails on a connection that was reset; send raises SIGPIPE.
Reset(p) == pc[p] \in {"read", "send"} /\ reset[new_fd[p]] /\ Exit(p)

FaultyOut(p) == Append(Tail(buf[p]), Stale)
Out(p) == buf[p]

\* The whole buffer is sent.  At a client that closed, it may cause a reset in time for
\* the next recv.
Send(p) ==
    LET c == new_fd[p] IN
    /\ pc[p] = "send" /\ ~ reset[c]
    /\ pc' = [pc EXCEPT ![p] = "read"]
    /\ \/ /\ user[c] \notin {"closed", "mismatch"}
          /\ down' = [down EXCEPT ![c] = @ \o Out(p)]
          /\ UNCHANGED reset
       \/ /\ user[c] \in {"closed", "mismatch"}
          /\ \E r \in BOOLEAN : reset' = [reset EXCEPT ![c] = r]
          /\ UNCHANGED down
    /\ UNCHANGED <<new_fd, open, buf, backlog, up, client, short, orphans>>

-----------------------------------------------------------------------------
Process(p) ==
    \/ \E q \in Procs : Accept(p, q)
    \/ ForkFails(p)
    \/ \E n \in 1..Size : Read(p, n)
    \/ ReadEnd(p) \/ Reset(p) \/ Send(p)

Comparing(c) == \E n \in 1..Size : ReceiveEcho(c, n)

Next ==
    \/ \E p \in Procs : Process(p)
    \/ \E c \in Conns : Connect(c) \/ SendLine(c) \/ Comparing(c) \/ Leave(c)

\* The processes run; clients read what has come.
Fairness ==
    /\ \A p \in Procs : WF_vars(Process(p))
    /\ \A c \in Conns : WF_vars(Comparing(c))

Spec == Init /\ [][Next]_vars /\ Fairness
-----------------------------------------------------------------------------
Accepted == {c \in Conns : user[c] # "away"} \ ToSet(backlog)
Serving(c) == {p \in Procs : pc[p] \in {"read", "send"} /\ new_fd[p] = c}

\* While its client is there, a connection has one process that serves it, which holds
\* it open and was made for it, however many processes accept; unless fork failed.
OneServer ==
    \A c \in Accepted \ orphans :
        /\ Cardinality(Serving(c)) <= 1
        /\ user[c] \in {"typing", "waiting"} => Serving(c) # {}
        /\ \A p \in Serving(c) : c \in open[p]

\* The server never lets go of a connection: the process that accepted it has not closed
\* it and never ends, nor do the children forked since.
NeverReleased ==
    \A c \in Accepted : \E p \in Procs : pc[p] = "accept" /\ c \in open[p]

\* If every recv returned whole packets, a client gets its own line back and nothing
\* else, though the buffer holds what other clients sent; only a recv that returned a
\* part can make a client end because of a line that does not match.
EchoExact ==
    \A c \in Conns \ short :
        /\ user[c] # "mismatch"
        /\ down[c] \in {<<>>, Packet(c, line[c])}
        /\ user[c] = "typing" => up[c] = <<>> /\ down[c] = <<>>

\* A client that waits for its line gets an answer, unless fork failed or no process that
\* accepts has room for another descriptor.
Hopeless(c) ==
    \/ c \in orphans
    \/ c \in ToSet(backlog) /\ \A p \in Procs : pc[p] = "accept" => ~ Room(p)
Answered == \A c \in Conns : []<>(user[c] # "waiting" \/ Hopeless(c))
=============================================================================
