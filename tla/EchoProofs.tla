------------------------------ MODULE EchoProofs ------------------------------
(***************************************************************************)
(* Proofs about Echo for any number of connections and processes, any      *)
(* limit of descriptors, any size of a packet and any number of lines.     *)
(***************************************************************************)
EXTENDS Echo, ListProofs

Gone == {"closed", "mismatch"}

Typed ==
    /\ pc \in [Procs -> {"unborn", "accept", "read", "send", "exited"}]
    /\ open \in [Procs -> SUBSET Conns]
    /\ DOMAIN new_fd = Procs /\ DOMAIN buf = Procs
    /\ backlog \in Seq(Conns)
    /\ DOMAIN up = Conns /\ DOMAIN down = Conns /\ DOMAIN recvbuf = Conns
    /\ reset \in [Conns -> BOOLEAN]
    /\ user \in [Conns -> {"away", "typing", "waiting"} \cup Gone]
    /\ line \in [Conns -> Nat]

\* A connection waits once, and only if a client has opened it; only a client that
\* has gone leaves it reset.
Queued ==
    /\ IsInjective(backlog)
    /\ \A c \in Range(backlog) : user[c] # "away"
    /\ \A c \in Conns : reset[c] => user[c] \in Gone

Busy(p) == pc[p] \in {"read", "send"}

\* A process serves a connection that was accepted, and holds it open; no other
\* process serves the same.
Served == \A p \in Procs : Busy(p) =>
    /\ new_fd[p] \in Accepted /\ new_fd[p] \in open[p]
    /\ \A q \in Procs : Busy(q) /\ new_fd[q] = new_fd[p] => q = p

\* A client that is there is served, unless fork failed.
Attended == \A c \in Accepted \ orphans :
    user[c] \in {"typing", "waiting"} => \E p \in Procs : Busy(p) /\ new_fd[p] = c

\* Where the line of a connection is of which all packets were read whole: with its
\* user, on the way to the server, in the buffer of the process that serves it, or on
\* the way back.
Sending(c) == {p \in Procs : pc[p] = "send" /\ new_fd[p] = c}

Exact == \A c \in Conns \ short :
    LET P == Packet(c, line[c]) IN
    /\ user[c] # "mismatch"
    /\ user[c] \in {"away", "typing"} => up[c] = <<>> /\ down[c] = <<>> /\ Sending(c) = {}
    /\ user[c] = "waiting" =>
        \/ up[c] = P /\ down[c] = <<>> /\ Sending(c) = {}
        \/ up[c] = <<>> /\ down[c] = <<>> /\ \A p \in Sending(c) : buf[p] = P
        \/ up[c] = <<>> /\ down[c] = P /\ Sending(c) = {}
    /\ user[c] = "closed" => down[c] \in {<<>>, P}

IInv == Typed /\ Queued /\ Served /\ Attended /\ NeverReleased /\ Exact
-----------------------------------------------------------------------------
(* Packets *)

\* A packet is a sequence of Size bytes; a recv that returns all of it leaves nothing
\* behind, and nothing in the buffer of what was there before.
LEMMA WholePackets ==
    ASSUME NEW c \in Conns, NEW l \in Nat
    PROVE  LET P == Packet(c, l) IN
           /\ P # <<>> /\ Len(P) = Size /\ Size \in Nat \ {0}
           /\ <<>> \o P = P
           /\ SubSeq(P, 1, Size) = P /\ SubSeq(P, Size + 1, Len(P)) = <<>>
           /\ \A b : Over(P, b) = P
<1> DEFINE P == Packet(c, l)
           S == Conns \X Nat \X (1..Size)
<1>1. Size \in Nat \ {0}
  BY EchoAssumption
<1>2. P \in Seq(S) /\ Len(P) = Size
  BY <1>1, SeqDef DEF Packet
<1>3. \A b : Over(P, b) = P
  <2>1. \A i \in 1..Size : i <= Len(P)
    BY <1>1, <1>2
  <2>2. P = [i \in 1..Size |-> P[i]]
    BY DEF Packet
  <2> HIDE DEF P
  <2>3. QED
    BY <2>1, <2>2 DEF Over
<1> HIDE DEF P, S
<1>4. P # <<>>
  BY <1>1, <1>2
<1>5. <<>> \o P = P
  BY <1>2, ConcatEmptySeq
<1>6. SubSeq(P, 1, Size) = P /\ SubSeq(P, Size + 1, Len(P)) = <<>>
  BY <1>1, <1>2, SubSeqFull, SubSeqEmpty
<1>7. QED
  BY <1>1, <1>2, <1>3, <1>4, <1>5, <1>6 DEF P

-----------------------------------------------------------------------------
(* The steps of the clients *)

\* A step that changes no process, accepts nothing and opens nothing.
LEMMA ClientMoves ==
    ASSUME IInv, UNCHANGED <<server, backlog, orphans>>,
           user' \in [Conns -> {"away", "typing", "waiting"} \cup Gone],
           \A c \in Conns : user'[c] = "away" <=> user[c] = "away",
           \A c \in Conns : user'[c] \in {"typing", "waiting"} =>
                user[c] \in {"typing", "waiting"},
           reset' \in [Conns -> BOOLEAN],
           \A c \in Conns : reset'[c] => user'[c] \in Gone,
           line' \in [Conns -> Nat],
           DOMAIN up' = Conns, DOMAIN down' = Conns, DOMAIN recvbuf' = Conns
    PROVE  Typed' /\ Queued' /\ Served' /\ Attended' /\ NeverReleased'
<1> USE DEF server
<1>1. Typed'
  BY DEF IInv, Typed
<1>2. Accepted' = Accepted
  BY DEF Accepted
<1>3. backlog \in Seq(Conns) /\ Range(backlog) \subseteq Conns
  BY Positions DEF IInv, Typed
<1>4. Queued'
  BY <1>3 DEF IInv, Queued
<1>5. \A p : Busy(p)' <=> Busy(p)
  BY DEF Busy
<1>6. Served'
  BY <1>2, <1>5 DEF IInv, Served
<1>7. Attended'
  BY <1>2, <1>5 DEF IInv, Attended, Accepted
<1>8. NeverReleased'
  BY <1>2 DEF IInv, NeverReleased
<1>9. QED
  BY <1>1, <1>4, <1>6, <1>7, <1>8

\* What the line of every other connection is unchanged by.
LEMMA OtherLines ==
    ASSUME Exact, NEW c \in Conns,
           short \subseteq short',
           \A d \in Conns : d # c =>
                /\ user'[d] = user[d] /\ line'[d] = line[d]
                /\ up'[d] = up[d] /\ down'[d] = down[d]
                /\ Sending(d)' \subseteq Sending(d)
                /\ \A p \in Sending(d)' : buf'[p] = buf[p],
           c \notin short' =>
               LET P == Packet(c, line'[c]) IN
               /\ user'[c] # "mismatch"
               /\ user'[c] \in {"away", "typing"} =>
                    up'[c] = <<>> /\ down'[c] = <<>> /\ Sending(c)' = {}
               /\ user'[c] = "waiting" =>
                   \/ up'[c] = P /\ down'[c] = <<>> /\ Sending(c)' = {}
                   \/ up'[c] = <<>> /\ down'[c] = <<>> /\ \A p \in Sending(c)' : buf'[p] = P
                   \/ up'[c] = <<>> /\ down'[c] = P /\ Sending(c)' = {}
               /\ user'[c] = "closed" => down'[c] \in {<<>>, P}
    PROVE  Exact'
<1>1. ASSUME NEW d \in Conns \ short'
      PROVE  LET P == Packet(d, line'[d]) IN
             /\ user'[d] # "mismatch"
             /\ user'[d] \in {"away", "typing"} =>
                    up'[d] = <<>> /\ down'[d] = <<>> /\ Sending(d)' = {}
             /\ user'[d] = "waiting" =>
                 \/ up'[d] = P /\ down'[d] = <<>> /\ Sending(d)' = {}
                 \/ up'[d] = <<>> /\ down'[d] = <<>> /\ \A p \in Sending(d)' : buf'[p] = P
                 \/ up'[d] = <<>> /\ down'[d] = P /\ Sending(d)' = {}
             /\ user'[d] = "closed" => down'[d] \in {<<>>, P}
  <2>1. CASE d = c
    BY <2>1
  <2>2. CASE d # c
    <3> DEFINE P == Packet(d, line[d])
    <3>1. /\ user[d] # "mismatch"
          /\ user[d] \in {"away", "typing"} => up[d] = <<>> /\ down[d] = <<>> /\ Sending(d) = {}
          /\ user[d] = "waiting" =>
              \/ up[d] = P /\ down[d] = <<>> /\ Sending(d) = {}
              \/ up[d] = <<>> /\ down[d] = <<>> /\ \A p \in Sending(d) : buf[p] = P
              \/ up[d] = <<>> /\ down[d] = P /\ Sending(d) = {}
          /\ user[d] = "closed" => down[d] \in {<<>>, P}
      BY DEF Exact
    <3>2. Packet(d, line'[d]) = P
      BY <2>2
    <3> HIDE DEF P
    <3>3. QED
      BY <2>2, <3>1, <3>2
  <2>3. QED
    BY <2>1, <2>2
<1>2. Packet(c, line[c])' = Packet(c, line'[c]) /\ \A d : Packet(d, line[d])' = Packet(d, line'[d])
  BY DEF Packet
<1>3. QED
  BY <1>1, <1>2 DEF Exact

\* A client connects.
LEMMA ConnectStep == ASSUME IInv, NEW c \in Conns, Connect(c) PROVE IInv'
<1> USE DEF server
<1>1. /\ user[c] = "away" /\ user' = [user EXCEPT ![c] = "typing"]
      /\ user \in [Conns -> {"away", "typing", "waiting"} \cup Gone]
      /\ backlog \in Seq(Conns) /\ IsInjective(backlog) /\ c \notin Range(backlog)
      /\ backlog' = Append(backlog, c)
      /\ UNCHANGED <<server, up, down, reset, line, recvbuf, short, orphans>>
  BY DEF Connect, IInv, Typed, Queued
<1>2. /\ backlog' \in Seq(Conns) /\ IsInjective(backlog')
      /\ Range(backlog') = Range(backlog) \cup {c}
  BY <1>1, Appending
<1>3. user'[c] = "typing" /\ \A d \in Conns : d # c => user'[d] = user[d]
  BY <1>1
<1>4. Accepted' = Accepted
  BY <1>1, <1>2, <1>3, SameRange DEF Accepted
<1>5. (\A p : Busy(p)' <=> Busy(p)) /\ c \notin Accepted
  BY <1>1, SameRange DEF Busy, Accepted
<1>6. Typed'
  BY <1>1, <1>2 DEF IInv, Typed, Gone
<1>7. Queued'
  BY <1>1, <1>2, <1>3 DEF IInv, Queued, Gone
<1>8. Served'
  BY <1>1, <1>4, <1>5 DEF IInv, Served
<1>9. Attended'
  BY <1>1, <1>3, <1>4, <1>5 DEF IInv, Attended
<1>10. NeverReleased'
  BY <1>1, <1>4 DEF IInv, NeverReleased
<1>11. Exact'
  <2>1. \A d : Sending(d)' = Sending(d)
    BY <1>1 DEF Sending
  <2>2. c \notin short => up[c] = <<>> /\ down[c] = <<>> /\ Sending(c) = {}
    BY <1>1 DEF IInv, Exact
  <2>3. Exact
    BY DEF IInv
  <2>4. QED
    BY <1>1, <1>3, <2>1, <2>2, <2>3, OtherLines
<1>12. QED
  BY <1>6, <1>7, <1>8, <1>9, <1>10, <1>11 DEF IInv

\* A client sends a line.
LEMMA SendLineStep == ASSUME IInv, NEW c \in Conns, SendLine(c) PROVE IInv'
<1> USE DEF server
<1>1. /\ user[c] = "typing" /\ user' = [user EXCEPT ![c] = "waiting"]
      /\ user \in [Conns -> {"away", "typing", "waiting"} \cup Gone]
      /\ line \in [Conns -> Nat] /\ line' = [line EXCEPT ![c] = @ + 1]
      /\ DOMAIN up = Conns
      /\ up' = [up EXCEPT ![c] = @ \o Packet(c, line[c] + 1)]
      /\ UNCHANGED <<server, backlog, down, reset, recvbuf, short, orphans>>
  BY DEF SendLine, IInv, Typed
<1>2. /\ user'[c] = "waiting" /\ line'[c] = line[c] + 1 /\ line[c] + 1 \in Nat
      /\ up'[c] = up[c] \o Packet(c, line[c] + 1)
      /\ \A d \in Conns : d # c =>
            user'[d] = user[d] /\ line'[d] = line[d] /\ up'[d] = up[d]
  BY <1>1
<1>3. Typed' /\ Queued' /\ Served' /\ Attended' /\ NeverReleased'
  <2>1. /\ user' \in [Conns -> {"away", "typing", "waiting"} \cup Gone]
        /\ line' \in [Conns -> Nat] /\ DOMAIN up' = Conns
    BY <1>1
  <2>2. \A d \in Conns : reset'[d] => user'[d] \in Gone
    BY <1>1, <1>2 DEF IInv, Queued, Gone
  <2>3. /\ reset' \in [Conns -> BOOLEAN]
        /\ DOMAIN down' = Conns /\ DOMAIN recvbuf' = Conns
    BY <1>1 DEF IInv, Typed
  <2>4. /\ \A d \in Conns : user'[d] = "away" <=> user[d] = "away"
        /\ \A d \in Conns : user'[d] \in {"typing", "waiting"} =>
                user[d] \in {"typing", "waiting"}
    BY <1>1, <1>2
  <2>5. QED
    BY <2>1, <2>2, <2>3, <2>4, <1>1, ClientMoves
<1>4. Exact'
  <2>1. \A d : Sending(d)' = Sending(d)
    BY <1>1 DEF Sending
  <2>2. c \notin short => up'[c] = Packet(c, line'[c]) /\ down[c] = <<>> /\ Sending(c) = {}
    <3>1. c \notin short => up[c] = <<>> /\ down[c] = <<>> /\ Sending(c) = {}
      BY <1>1 DEF IInv, Exact
    <3>2. <<>> \o Packet(c, line[c] + 1) = Packet(c, line[c] + 1)
      BY <1>2, WholePackets
    <3>3. QED
      BY <3>1, <3>2, <1>2
  <2>3. Exact
    BY DEF IInv
  <2>4. QED
    BY <1>1, <1>2, <2>1, <2>2, <2>3, OtherLines
<1>5. QED
  BY <1>3, <1>4 DEF IInv

\* A client leaves.
LEMMA LeaveStep == ASSUME IInv, NEW c \in Conns, Leave(c) PROVE IInv'
<1> USE DEF server
<1>1. /\ user[c] \in {"typing", "waiting"} /\ user' = [user EXCEPT ![c] = "closed"]
      /\ user \in [Conns -> {"away", "typing", "waiting"} \cup Gone]
      /\ reset \in [Conns -> BOOLEAN] /\ reset' = [reset EXCEPT ![c] = down'[c] # <<>>]
      /\ UNCHANGED <<server, backlog, up, down, line, recvbuf, short, orphans>>
  BY DEF Leave, Close, IInv, Typed
<1>2. user'[c] = "closed" /\ \A d \in Conns : d # c => user'[d] = user[d] /\ reset'[d] = reset[d]
  BY <1>1
<1>3. Typed' /\ Queued' /\ Served' /\ Attended' /\ NeverReleased'
  <2>1. /\ user' \in [Conns -> {"away", "typing", "waiting"} \cup Gone]
        /\ reset' \in [Conns -> BOOLEAN]
    BY <1>1 DEF Gone
  <2>2. \A d \in Conns : reset'[d] => user'[d] \in Gone
    BY <1>2 DEF IInv, Queued, Gone
  <2>3. /\ line' \in [Conns -> Nat] /\ DOMAIN up' = Conns
        /\ DOMAIN down' = Conns /\ DOMAIN recvbuf' = Conns
    BY <1>1 DEF IInv, Typed
  <2>4. /\ \A d \in Conns : user'[d] = "away" <=> user[d] = "away"
        /\ \A d \in Conns : user'[d] \in {"typing", "waiting"} =>
                user[d] \in {"typing", "waiting"}
    BY <1>1, <1>2
  <2>5. QED
    BY <2>1, <2>2, <2>3, <2>4, <1>1, ClientMoves
<1>4. Exact'
  <2>1. \A d : Sending(d)' = Sending(d)
    BY <1>1 DEF Sending
  <2>2. c \notin short => down[c] \in {<<>>, Packet(c, line[c])}
    BY <1>1 DEF IInv, Exact
  <2>3. Exact
    BY DEF IInv
  <2>4. QED
    BY <1>1, <1>2, <2>1, <2>2, <2>3, OtherLines
<1>5. QED
  BY <1>3, <1>4 DEF IInv

\* A client receives, and compares.
LEMMA ReceiveEchoStep ==
    ASSUME IInv, NEW c \in Conns, NEW n \in 1..Size, ReceiveEcho(c, n)
    PROVE  IInv'
<1> USE DEF server
<1> DEFINE bytes == SubSeq(down[c], 1, n)
<1>1. /\ user[c] = "waiting" /\ n <= Len(down[c]) /\ n \in Nat \ {0} /\ Size \in Nat
      /\ user \in [Conns -> {"away", "typing", "waiting"} \cup Gone]
      /\ reset \in [Conns -> BOOLEAN] /\ DOMAIN down = Conns /\ DOMAIN recvbuf = Conns
      /\ recvbuf' = [recvbuf EXCEPT ![c] = Over(bytes, @)]
      /\ down' = [down EXCEPT ![c] = SubSeq(@, n + 1, Len(@))]
      /\ short' = IF n < Size THEN short \cup {c} ELSE short
      /\ UNCHANGED <<server, backlog, up, line, orphans>>
  BY EchoAssumption DEF ReceiveEcho, IInv, Typed
<1>2. \/ /\ Echoed(c, bytes)
         /\ user' = [user EXCEPT ![c] = "typing"] /\ reset' = reset
      \/ /\ ~ Echoed(c, bytes)
         /\ user' = [user EXCEPT ![c] = "mismatch"]
         /\ reset' = [reset EXCEPT ![c] = down'[c] # <<>>]
  BY DEF ReceiveEcho, Close
<1> HIDE DEF bytes
<1>3. /\ user'[c] \in {"typing", "mismatch"}
      /\ Echoed(c, bytes) => user'[c] = "typing"
      /\ user'[c] = "typing" => ~ reset'[c]
      /\ down'[c] = SubSeq(down[c], n + 1, Len(down[c]))
      /\ \A d \in Conns : d # c =>
            user'[d] = user[d] /\ down'[d] = down[d] /\ reset'[d] = reset[d]
  BY <1>1, <1>2 DEF IInv, Queued, Gone
<1>4. Typed' /\ Queued' /\ Served' /\ Attended' /\ NeverReleased'
  <2>1. /\ user' \in [Conns -> {"away", "typing", "waiting"} \cup Gone]
        /\ reset' \in [Conns -> BOOLEAN]
        /\ DOMAIN down' = Conns /\ DOMAIN recvbuf' = Conns
    BY <1>1, <1>2 DEF Gone
  <2>2. \A d \in Conns : reset'[d] => user'[d] \in Gone
    BY <1>3 DEF IInv, Queued, Gone
  <2>3. line' \in [Conns -> Nat] /\ DOMAIN up' = Conns
    BY <1>1 DEF IInv, Typed
  <2>4. /\ \A d \in Conns : user'[d] = "away" <=> user[d] = "away"
        /\ \A d \in Conns : user'[d] \in {"typing", "waiting"} =>
                user[d] \in {"typing", "waiting"}
    BY <1>1, <1>3
  <2>5. QED
    BY <2>1, <2>2, <2>3, <2>4, <1>1, ClientMoves
<1>5. Exact'
  <2>1. \A d : Sending(d)' = Sending(d)
    BY <1>1 DEF Sending
  <2>2. c \notin short' => /\ user'[c] = "typing"
                           /\ up[c] = <<>> /\ down'[c] = <<>> /\ Sending(c) = {}
    <3>1. SUFFICES ASSUME c \notin short'
                   PROVE  /\ user'[c] = "typing"
                          /\ up[c] = <<>> /\ down'[c] = <<>> /\ Sending(c) = {}
      OBVIOUS
    <3> DEFINE P == Packet(c, line[c])
    <3>2. n = Size /\ c \notin short
      BY <3>1, <1>1
    <3>3. down[c] # <<>>
      BY <1>1
    <3>4. down[c] = P /\ up[c] = <<>> /\ Sending(c) = {}
      BY <3>2, <3>3, <1>1 DEF IInv, Exact
    <3>5. line[c] \in Nat
      BY DEF IInv, Typed
    <3>6. /\ SubSeq(P, 1, Size) = P /\ SubSeq(P, Size + 1, Len(P)) = <<>>
          /\ \A b : Over(P, b) = P
      BY <3>5, WholePackets
    <3>7. bytes = P
      BY <3>2, <3>4, <3>6 DEF bytes
    <3>8. Echoed(c, bytes)
      BY <3>6, <3>7 DEF Echoed
    <3>9. QED
      BY <3>2, <3>4, <3>6, <3>8, <1>3
  <2>3. Exact /\ short \subseteq short'
    BY <1>1 DEF IInv
  <2>4. QED
    BY <1>1, <1>3, <2>1, <2>2, <2>3, OtherLines
<1>6. QED
  BY <1>4, <1>5 DEF IInv

-----------------------------------------------------------------------------
(* The steps of the server *)

\* A step that moves no byte and changes no buffer a line is sent from.
LEMMA LinesKept ==
    ASSUME Exact, UNCHANGED <<up, down, user, line, short>>,
           \A d \in Conns : /\ Sending(d)' \subseteq Sending(d)
                            /\ \A p \in Sending(d)' : buf'[p] = buf[p]
    PROVE  Exact'
<1>1. \A d : Packet(d, line[d])' = Packet(d, line[d])
  BY DEF Packet
<1>2. QED
  BY <1>1 DEF Exact

\* A step of a process that serves a connection: it goes on, or its client has gone.
LEMMA ProcessMoves ==
    ASSUME IInv, NEW p \in Procs, Busy(p),
           pc' \in [Procs -> {"unborn", "accept", "read", "send", "exited"}],
           \A q \in Procs : q # p => pc'[q] = pc[q] /\ open'[q] = open[q],
           open' \in [Procs -> SUBSET Conns],
           pc'[p] \in {"read", "send"} => open'[p] = open[p],
           pc'[p] \notin {"read", "send"} => user[new_fd[p]] \in Gone,
           DOMAIN buf' = Procs, DOMAIN up' = Conns, DOMAIN down' = Conns,
           reset' \in [Conns -> BOOLEAN], \A d \in Conns : reset'[d] => user[d] \in Gone,
           UNCHANGED <<new_fd, backlog, user, line, recvbuf, orphans>>
    PROVE  Typed' /\ Queued' /\ Served' /\ Attended' /\ NeverReleased'
<1>1. Typed'
  BY DEF IInv, Typed
<1>2. Accepted' = Accepted
  BY DEF Accepted
<1>3. \A q \in Procs : q # p => (Busy(q)' <=> Busy(q))
  BY DEF Busy
<1>4. \A q \in Procs : Busy(q)' => Busy(q) /\ open'[q] = open[q]
  BY <1>3 DEF Busy
<1>5. Queued'
  BY DEF IInv, Queued
<1>6. Served'
  BY <1>2, <1>4 DEF IInv, Served
<1>7. Attended'
  <2>1. ASSUME NEW c \in Accepted \ orphans, user[c] \in {"typing", "waiting"}
        PROVE  \E q \in Procs : Busy(q)' /\ new_fd[q] = c
    <3>1. PICK q \in Procs : Busy(q) /\ new_fd[q] = c
      BY <2>1 DEF IInv, Attended
    <3>2. q = p => Busy(q)'
      BY <2>1, <3>1 DEF Busy, Gone
    <3>3. QED
      BY <3>1, <3>2, <1>3
  <2>2. QED
    BY <2>1, <1>2 DEF Attended
<1>8. NeverReleased'
  <2>1. \A q \in Procs : pc[q] = "accept" => pc'[q] = "accept" /\ open'[q] = open[q]
    BY DEF Busy
  <2>2. QED
    BY <2>1, <1>2 DEF IInv, NeverReleased
<1>9. QED
  BY <1>1, <1>5, <1>6, <1>7, <1>8

\* What leaves the backlog was accepted, and had not been before.
LEMMA Accepting ==
    ASSUME IInv, backlog # <<>>, backlog' = Tail(backlog), UNCHANGED <<user, reset>>
    PROVE  LET c == Head(backlog) IN
           /\ c \in Conns /\ c \notin Accepted
           /\ Accepted' = Accepted \cup {c}
           /\ backlog' \in Seq(Conns) /\ Queued'
<1> DEFINE c == Head(backlog)
<1>1. backlog \in Seq(Conns) /\ IsInjective(backlog)
  BY DEF IInv, Typed, Queued
<1>2. /\ c \in Conns /\ c \in Range(backlog) /\ backlog' \in Seq(Conns)
      /\ Range(backlog) = {c} \cup Range(backlog')
      /\ c \notin Range(backlog') /\ IsInjective(backlog')
  BY <1>1, TakingOff
<1> HIDE DEF c
<1>3. user[c] # "away"
  BY <1>2 DEF IInv, Queued
<1>4. c \notin Accepted /\ Accepted' = Accepted \cup {c}
  BY <1>2, <1>3, SameRange DEF Accepted
<1>5. Queued'
  BY <1>2 DEF IInv, Queued
<1>6. QED
  BY <1>2, <1>4, <1>5 DEF c

\* A process accepts a connection and forks a child that serves it.
LEMMA AcceptStep ==
    ASSUME IInv, NEW p \in Procs, NEW q \in Procs, Accept(p, q)
    PROVE  IInv'
<1> DEFINE c == Head(backlog)
<1>1. /\ pc[p] = "accept" /\ pc[q] = "unborn" /\ p # q
      /\ pc \in [Procs -> {"unborn", "accept", "read", "send", "exited"}]
      /\ open \in [Procs -> SUBSET Conns]
      /\ DOMAIN new_fd = Procs /\ DOMAIN buf = Procs
      /\ backlog # <<>> /\ backlog' = Tail(backlog)
      /\ open' = [open EXCEPT ![p] = open[p] \cup {c}, ![q] = open[p] \cup {c}]
      /\ new_fd' = [new_fd EXCEPT ![p] = c, ![q] = c]
      /\ buf' = [buf EXCEPT ![q] = buf[p]]
      /\ pc' = [pc EXCEPT ![p] = "accept", ![q] = "read"]
      /\ UNCHANGED <<up, down, reset, client, short, orphans>>
  BY DEF Accept, Retain, GoOn, Unborn, IInv, Typed
<1>2. /\ c \in Conns /\ c \notin Accepted
      /\ Accepted' = Accepted \cup {c}
      /\ backlog' \in Seq(Conns) /\ Queued'
  BY <1>1, Accepting DEF client
<1> HIDE DEF c
<1>3. /\ pc' \in [Procs -> {"unborn", "accept", "read", "send", "exited"}]
      /\ open' \in [Procs -> SUBSET Conns]
      /\ DOMAIN new_fd' = Procs /\ DOMAIN buf' = Procs
      /\ pc'[p] = "accept" /\ pc'[q] = "read"
      /\ new_fd'[q] = c /\ open'[q] = open[p] \cup {c} /\ open'[p] = open[p] \cup {c}
      /\ \A r \in Procs \ {p, q} : /\ pc'[r] = pc[r] /\ new_fd'[r] = new_fd[r]
                                   /\ open'[r] = open[r]
      /\ \A r \in Procs : r # q => buf'[r] = buf[r]
  BY <1>1, <1>2
<1>4. \A r \in Procs : Busy(r)' <=> Busy(r) \/ r = q
  BY <1>1, <1>3 DEF Busy
<1>5. ~ Busy(p) /\ ~ Busy(q)
  BY <1>1 DEF Busy
<1>6. Typed'
  BY <1>1, <1>2, <1>3 DEF IInv, Typed, client
<1>7. Served'
  <2>1. \A r \in Procs : Busy(r) => new_fd[r] \in Accepted /\ new_fd[r] # c
    BY <1>2 DEF IInv, Served
  <2>2. ASSUME NEW r \in Procs, Busy(r)'
        PROVE  /\ new_fd'[r] \in Accepted' /\ new_fd'[r] \in open'[r]
               /\ \A t \in Procs : Busy(t)' /\ new_fd'[t] = new_fd'[r] => t = r
    <3>1. CASE r = q
      BY <3>1, <2>1, <1>2, <1>3, <1>4, <1>5
    <3>2. CASE r # q
      <4>1. Busy(r) /\ r \notin {p, q}
        BY <2>2, <3>2, <1>4, <1>5
      <4>2. new_fd'[r] = new_fd[r] /\ open'[r] = open[r]
        BY <4>1, <1>3
      <4>3. /\ new_fd[r] \in Accepted /\ new_fd[r] \in open[r] /\ new_fd[r] # c
            /\ \A t \in Procs : Busy(t) /\ new_fd[t] = new_fd[r] => t = r
        BY <4>1, <2>1 DEF IInv, Served
      <4>4. ASSUME NEW t \in Procs, Busy(t)', new_fd'[t] = new_fd'[r]
            PROVE  t = r
        BY <4>2, <4>3, <4>4, <1>3, <1>4, <1>5
      <4>5. QED
        BY <4>2, <4>3, <4>4, <1>2
    <3>3. QED
      BY <3>1, <3>2
  <2>3. QED
    BY <2>2 DEF Served
<1>8. Attended'
  <2>1. ASSUME NEW d \in Accepted' \ orphans, user[d] \in {"typing", "waiting"}
        PROVE  \E r \in Procs : Busy(r)' /\ new_fd'[r] = d
    <3>1. CASE d = c
      BY <3>1, <1>3, <1>4
    <3>2. CASE d # c
      <4>1. PICK r \in Procs : Busy(r) /\ new_fd[r] = d
        BY <2>1, <3>2, <1>2 DEF IInv, Attended
      <4>2. r \notin {p, q}
        BY <4>1, <1>5
      <4>3. QED
        BY <4>1, <4>2, <1>3, <1>4
    <3>3. QED
      BY <3>1, <3>2
  <2>2. QED
    BY <2>1, <1>1 DEF Attended, client
<1>9. NeverReleased'
  <2>1. \A r \in Procs : pc[r] = "accept" => pc'[r] = "accept" /\ open[r] \subseteq open'[r]
    BY <1>1, <1>3
  <2>2. QED
    BY <2>1, <1>2, <1>3 DEF IInv, NeverReleased
<1>10. Exact'
  <2>1. \A d : Sending(d)' = Sending(d)
    BY <1>1, <1>3 DEF Sending
  <2>2. \A d : \A r \in Sending(d) : r # q /\ r \in Procs
    BY <1>1 DEF Sending
  <2>3. QED
    BY <2>1, <2>2, <1>1, <1>3, LinesKept DEF IInv, client
<1>11. QED
  BY <1>2, <1>6, <1>7, <1>8, <1>9, <1>10 DEF IInv

\* A process accepts a connection and cannot fork.
LEMMA ForkFailsStep ==
    ASSUME IInv, NEW p \in Procs, ForkFails(p)
    PROVE  IInv'
<1> DEFINE c == Head(backlog)
<1>1. /\ pc[p] = "accept"
      /\ open \in [Procs -> SUBSET Conns] /\ DOMAIN new_fd = Procs
      /\ backlog # <<>> /\ backlog' = Tail(backlog)
      /\ open' = [open EXCEPT ![p] = open[p] \cup {c}]
      /\ new_fd' = [new_fd EXCEPT ![p] = c]
      /\ orphans' = orphans \cup {c}
      /\ UNCHANGED <<pc, buf, up, down, reset, client, short>>
  BY DEF ForkFails, Retain, IInv, Typed
<1>2. /\ c \in Conns /\ c \notin Accepted
      /\ Accepted' = Accepted \cup {c}
      /\ backlog' \in Seq(Conns) /\ Queued'
  BY <1>1, Accepting DEF client
<1> HIDE DEF c
<1>3. /\ open' \in [Procs -> SUBSET Conns] /\ DOMAIN new_fd' = Procs
      /\ open'[p] = open[p] \cup {c}
      /\ \A r \in Procs : r # p => new_fd'[r] = new_fd[r] /\ open'[r] = open[r]
  BY <1>1, <1>2
<1>4. (\A r : Busy(r)' <=> Busy(r)) /\ ~ Busy(p)
  BY <1>1 DEF Busy
<1>5. Typed'
  BY <1>1, <1>2, <1>3 DEF IInv, Typed, client
<1>6. Served'
  BY <1>2, <1>3, <1>4 DEF IInv, Served
<1>7. Attended'
  BY <1>1, <1>2, <1>3, <1>4 DEF IInv, Attended, client
<1>8. NeverReleased'
  <2>1. \A r \in Procs : open[r] \subseteq open'[r]
    BY <1>3
  <2>2. QED
    BY <2>1, <1>1, <1>2, <1>3 DEF IInv, NeverReleased
<1>9. Exact'
  <2>1. \A d : Sending(d)' = Sending(d)
    BY <1>1, <1>3 DEF Sending
  <2>2. QED
    BY <2>1, <1>1, LinesKept DEF IInv, client
<1>10. QED
  BY <1>2, <1>5, <1>6, <1>7, <1>8, <1>9 DEF IInv

\* What a busy process serves.
LEMMA BusyFacts ==
    ASSUME IInv, NEW p \in Procs, Busy(p)
    PROVE  /\ new_fd[p] \in Conns /\ user[new_fd[p]] # "away"
           /\ \A q \in Procs : Busy(q) /\ new_fd[q] = new_fd[p] => q = p
           /\ \A d : d # new_fd[p] => p \notin Sending(d)
  BY DEF IInv, Served, Accepted, Sending

\* A process receives.
LEMMA ReadStep ==
    ASSUME IInv, NEW p \in Procs, NEW n \in 1..Size, Read(p, n),
           NEW c, c = new_fd[p]
    PROVE  IInv'
<1> DEFINE bytes == SubSeq(up[c], 1, n)
<1>1. /\ pc[p] = "read" /\ n <= Len(up[c]) /\ n \in Nat \ {0} /\ Size \in Nat
      /\ pc \in [Procs -> {"unborn", "accept", "read", "send", "exited"}]
      /\ DOMAIN buf = Procs /\ DOMAIN up = Conns
      /\ buf' = [buf EXCEPT ![p] = Over(bytes, @)]
      /\ up' = [up EXCEPT ![c] = SubSeq(@, n + 1, Len(@))]
      /\ short' = IF n < Size THEN short \cup {c} ELSE short
      /\ pc' = [pc EXCEPT ![p] = "send"]
      /\ UNCHANGED <<new_fd, open, backlog, down, reset, client, orphans>>
  BY EchoAssumption DEF Read, AfterRead, IInv, Typed
<1> HIDE DEF bytes
<1>2. Busy(p)
  BY <1>1 DEF Busy
<1>3. /\ c \in Conns /\ user[c] # "away"
      /\ \A q \in Procs : Busy(q) /\ new_fd[q] = c => q = p
      /\ \A d : d # c => p \notin Sending(d)
  BY <1>2, BusyFacts
<1>4. /\ buf'[p] = Over(bytes, buf[p]) /\ up'[c] = SubSeq(up[c], n + 1, Len(up[c]))
      /\ pc'[p] = "send"
      /\ pc' \in [Procs -> {"unborn", "accept", "read", "send", "exited"}]
      /\ \A q \in Procs : q # p => pc'[q] = pc[q] /\ buf'[q] = buf[q]
      /\ \A d \in Conns : d # c => up'[d] = up[d]
      /\ DOMAIN buf' = Procs /\ DOMAIN up' = Conns
  BY <1>1, <1>3
<1>5. Typed' /\ Queued' /\ Served' /\ Attended' /\ NeverReleased'
  <2>1. /\ open' \in [Procs -> SUBSET Conns] /\ DOMAIN down' = Conns
        /\ reset' \in [Conns -> BOOLEAN] /\ \A d \in Conns : reset'[d] => user[d] \in Gone
    BY <1>1 DEF IInv, Typed, Queued
  <2>2. QED
    BY <2>1, <1>1, <1>2, <1>4, ProcessMoves DEF client
<1>6. Exact'
  <2>1. \A d \in Conns : d # c => Sending(d)' = Sending(d) /\ \A q \in Sending(d) : buf'[q] = buf[q]
    BY <1>1, <1>3, <1>4 DEF Sending
  <2>2. c \notin short' => /\ user[c] \in {"waiting", "closed"}
                           /\ user[c] = "closed" => down[c] \in {<<>>, Packet(c, line[c])}
                           /\ user[c] = "waiting" =>
                                /\ up'[c] = <<>> /\ down[c] = <<>>
                                /\ \A q \in Sending(c)' : buf'[q] = Packet(c, line[c])
    <3>1. SUFFICES ASSUME c \notin short'
                   PROVE  /\ user[c] \in {"waiting", "closed"}
                          /\ user[c] = "closed" => down[c] \in {<<>>, Packet(c, line[c])}
                          /\ user[c] = "waiting" =>
                                /\ up'[c] = <<>> /\ down[c] = <<>>
                                /\ \A q \in Sending(c)' : buf'[q] = Packet(c, line[c])
      OBVIOUS
    <3> DEFINE P == Packet(c, line[c])
    <3>2. n = Size /\ c \notin short /\ up[c] # <<>>
      BY <3>1, <1>1
    <3>3. /\ user[c] \in {"waiting", "closed"}
          /\ user[c] = "closed" => down[c] \in {<<>>, P}
          /\ user[c] = "waiting" => up[c] = P /\ down[c] = <<>> /\ Sending(c) = {}
      BY <3>2, <1>3 DEF IInv, Exact, Typed, Gone
    <3>4. line[c] \in Nat
      BY <1>3 DEF IInv, Typed
    <3>5. /\ SubSeq(P, 1, Size) = P /\ SubSeq(P, Size + 1, Len(P)) = <<>>
          /\ \A b : Over(P, b) = P
      BY <3>4, <1>3, WholePackets
    <3> HIDE DEF P
    <3>6. ASSUME user[c] = "waiting"
          PROVE  /\ up'[c] = <<>> /\ down[c] = <<>>
                 /\ \A q \in Sending(c)' : buf'[q] = P
      <4>1. bytes = P
        BY <3>2, <3>3, <3>5, <3>6 DEF bytes
      <4>a. buf'[p] = P
        BY <4>1, <3>5, <1>4
      <4>2. up'[c] = <<>>
        BY <3>2, <3>3, <3>5, <3>6, <1>4
      <4>3. \A q \in Sending(c)' : q = p
        <5>1. \A q \in Procs : q # p => q \notin Sending(c)
          BY <3>3, <3>6
        <5>2. \A q \in Procs : q # p => pc'[q] = pc[q] /\ new_fd'[q] = new_fd[q]
          BY <1>1, <1>4
        <5>3. QED
          BY <5>1, <5>2 DEF Sending
      <4>4. QED
        BY <4>a, <4>2, <4>3, <3>3, <3>6
    <3>7. QED
      BY <3>3, <3>6 DEF P
  <2>3. Exact /\ short \subseteq short'
    BY <1>1 DEF IInv
  <2>4. UNCHANGED <<user, line, down>>
    BY <1>1 DEF client
  <2>5. \A d \in Conns : d # c =>
            /\ user'[d] = user[d] /\ line'[d] = line[d]
            /\ up'[d] = up[d] /\ down'[d] = down[d]
            /\ Sending(d)' \subseteq Sending(d)
            /\ \A q \in Sending(d)' : buf'[q] = buf[q]
    BY <1>4, <2>1, <2>4
  <2>6. QED
    BY <1>3, <2>2, <2>3, <2>4, <2>5, OtherLines
<1>7. QED
  BY <1>5, <1>6 DEF IInv

\* A process sends what it received, if its client is there.
LEMMA SendStep ==
    ASSUME IInv, NEW p \in Procs, Send(p), NEW c, c = new_fd[p]
    PROVE  IInv'
<1>1. /\ pc[p] = "send"
      /\ pc \in [Procs -> {"unborn", "accept", "read", "send", "exited"}]
      /\ reset \in [Conns -> BOOLEAN] /\ DOMAIN down = Conns
      /\ pc' = [pc EXCEPT ![p] = "read"]
      /\ UNCHANGED <<new_fd, open, buf, backlog, up, client, short, orphans>>
  BY DEF Send, IInv, Typed
<1>2. \/ user[c] \notin Gone /\ down' = [down EXCEPT ![c] = @ \o buf[p]] /\ UNCHANGED reset
      \/ /\ user[c] \in Gone /\ UNCHANGED down
         /\ \E r \in BOOLEAN : reset' = [reset EXCEPT ![c] = r]
  BY DEF Send, Out, Gone
<1>3. Busy(p)
  BY <1>1 DEF Busy
<1>4. /\ c \in Conns /\ user[c] # "away"
      /\ \A q \in Procs : Busy(q) /\ new_fd[q] = c => q = p
      /\ \A d : d # c => p \notin Sending(d)
  BY <1>3, BusyFacts
<1>5. p \in Sending(c)
  BY <1>1 DEF Sending
<1>6. Sending(c)' = {}
  BY <1>1, <1>4 DEF Sending, Busy
<1>7. \A d : d # c => Sending(d)' = Sending(d)
  BY <1>1, <1>4 DEF Sending
<1>8. Typed' /\ Queued' /\ Served' /\ Attended' /\ NeverReleased'
  <2>1. /\ pc' \in [Procs -> {"unborn", "accept", "read", "send", "exited"}]
        /\ pc'[p] = "read" /\ \A q \in Procs : q # p => pc'[q] = pc[q]
    BY <1>1
  <2>2. /\ open' \in [Procs -> SUBSET Conns] /\ DOMAIN up' = Conns /\ DOMAIN buf' = Procs
    BY <1>1 DEF IInv, Typed
  <2>3. /\ reset' \in [Conns -> BOOLEAN] /\ DOMAIN down' = Conns
        /\ \A d \in Conns : reset'[d] => user[d] \in Gone
    BY <1>1, <1>2, <1>4 DEF IInv, Queued
  <2>4. QED
    BY <2>1, <2>2, <2>3, <1>1, <1>3, ProcessMoves DEF client
<1>9. Exact'
  <2>1. \A d \in Conns : d # c => down'[d] = down[d]
    BY <1>1, <1>2, <1>4
  <2>2. c \notin short => /\ user[c] \in {"waiting", "closed"}
                          /\ user[c] = "closed" => down'[c] \in {<<>>, Packet(c, line[c])}
                          /\ user[c] = "waiting" => up[c] = <<>> /\ down'[c] = Packet(c, line[c])
    <3>1. SUFFICES ASSUME c \notin short
                   PROVE  /\ user[c] \in {"waiting", "closed"}
                          /\ user[c] = "closed" => down'[c] \in {<<>>, Packet(c, line[c])}
                          /\ user[c] = "waiting" =>
                                up[c] = <<>> /\ down'[c] = Packet(c, line[c])
      OBVIOUS
    <3> DEFINE P == Packet(c, line[c])
    <3>2. /\ user[c] \in {"waiting", "closed"}
          /\ user[c] = "closed" => down[c] \in {<<>>, P}
          /\ user[c] = "waiting" => up[c] = <<>> /\ down[c] = <<>> /\ buf[p] = P
      BY <3>1, <1>4, <1>5 DEF IInv, Exact, Typed, Gone
    <3>3. line[c] \in Nat
      BY <1>4 DEF IInv, Typed
    <3>4. <<>> \o P = P
      BY <3>3, <1>4, WholePackets
    <3> HIDE DEF P
    <3>5. QED
      BY <3>2, <3>4, <1>1, <1>2, <1>4 DEF Gone, P
  <2>3. Exact
    BY DEF IInv
  <2>4. UNCHANGED <<user, line, up, buf, short>>
    BY <1>1 DEF client
  <2>5. \A d \in Conns : d # c =>
            /\ user'[d] = user[d] /\ line'[d] = line[d]
            /\ up'[d] = up[d] /\ down'[d] = down[d]
            /\ Sending(d)' \subseteq Sending(d)
            /\ \A q \in Sending(d)' : buf'[q] = buf[q]
    BY <1>7, <2>1, <2>4
  <2>6. short \subseteq short'
    BY <2>4
  <2>7. QED
    BY <1>4, <1>6, <2>2, <2>3, <2>4, <2>5, <2>6, OtherLines
<1>10. QED
  BY <1>8, <1>9 DEF IInv

\* A process finds that its client has gone.
LEMMA LeavingStep ==
    ASSUME IInv, NEW p \in Procs, ReadEnd(p) \/ Reset(p)
    PROVE  IInv'
<1>1. /\ Busy(p)
      /\ pc \in [Procs -> {"unborn", "accept", "read", "send", "exited"}]
      /\ open \in [Procs -> SUBSET Conns]
      /\ UNCHANGED <<new_fd, buf, wire, client, short, orphans>>
  BY DEF ReadEnd, Reset, Exit, Busy, IInv, Typed
<1>2. \/ /\ pc' = [pc EXCEPT ![p] = "accept"]
         /\ open' = [open EXCEPT ![p] = @ \ {new_fd[p]}]
      \/ /\ pc' = [pc EXCEPT ![p] = "exited"]
         /\ open' = [open EXCEPT ![p] = {}]
  BY DEF ReadEnd, Reset, Exit
<1>3. new_fd[p] \in Conns
  BY <1>1, BusyFacts
<1>4. user[new_fd[p]] \in Gone
  BY <1>3 DEF ReadEnd, Reset, IInv, Queued, Gone
<1>5. /\ pc' \in [Procs -> {"unborn", "accept", "read", "send", "exited"}]
      /\ pc'[p] \in {"accept", "exited"}
      /\ open' \in [Procs -> SUBSET Conns]
      /\ \A q \in Procs : q # p => pc'[q] = pc[q] /\ open'[q] = open[q]
  BY <1>1, <1>2
<1>6. Typed' /\ Queued' /\ Served' /\ Attended' /\ NeverReleased'
  <2>1. /\ DOMAIN buf' = Procs /\ DOMAIN up' = Conns /\ DOMAIN down' = Conns
        /\ reset' \in [Conns -> BOOLEAN] /\ \A d \in Conns : reset'[d] => user[d] \in Gone
    BY <1>1 DEF IInv, Typed, Queued, wire, client
  <2>2. QED
    BY <2>1, <1>1, <1>4, <1>5, ProcessMoves DEF wire, client
<1>7. Exact'
  <2>1. \A d : Sending(d)' \subseteq Sending(d)
    BY <1>1, <1>5 DEF Sending
  <2>2. QED
    BY <2>1, <1>1, LinesKept DEF IInv, wire, client
<1>8. QED
  BY <1>6, <1>7 DEF IInv

-----------------------------------------------------------------------------
(* The theorems *)

\* It holds at the start: nobody has connected, and the first process accepts.
LEMMA InitIInv == Init => IInv
<1> SUFFICES ASSUME Init PROVE IInv
  OBVIOUS
<1>1. /\ <<>> \in Seq(Conns) /\ IsInjective(<<>>) /\ Range(<<>>) = {}
  BY DEF Range, IsInjective
<1>2. Accepted = {} /\ \A p \in Procs : ~ Busy(p)
  BY DEF Init, Accepted, Busy
<1>3. Typed
  BY <1>1 DEF Init, Typed
<1>4. Queued /\ Served /\ Attended /\ NeverReleased
  BY <1>1, <1>2 DEF Init, Queued, Served, Attended, NeverReleased
<1>5. Exact
  BY DEF Init, Exact, Sending
<1>6. QED
  BY <1>3, <1>4, <1>5 DEF IInv

\* Every step keeps it.
LEMMA NextIInv == IInv /\ [Next]_vars => IInv'
<1> SUFFICES ASSUME IInv, [Next]_vars PROVE IInv'
  OBVIOUS
<1>1. ASSUME NEW p \in Procs, Process(p) PROVE IInv'
  BY <1>1, AcceptStep, ForkFailsStep, ReadStep, SendStep, LeavingStep DEF Process
<1>2. ASSUME NEW c \in Conns, Connect(c) \/ SendLine(c) \/ Comparing(c) \/ Leave(c)
      PROVE  IInv'
  BY <1>2, ConnectStep, SendLineStep, ReceiveEchoStep, LeaveStep DEF Comparing
<1>3. CASE UNCHANGED vars
  <2>1. UNCHANGED <<server, wire, client, short, orphans>>
    BY <1>3 DEF vars
  <2>2. /\ Typed' /\ Queued'
    BY <2>1 DEF IInv, Typed, Queued, server, wire, client
  <2>3. Accepted' = Accepted /\ \A p : Busy(p)' <=> Busy(p)
    BY <2>1 DEF Accepted, Busy, server, wire, client
  <2>4. Served' /\ Attended' /\ NeverReleased'
    BY <2>1, <2>3 DEF IInv, Served, Attended, NeverReleased, server, wire, client
  <2>5. Exact'
    <3>1. \A d : Sending(d)' = Sending(d)
      BY <2>1 DEF Sending, server
    <3>2. QED
      BY <3>1, <2>1, LinesKept DEF IInv, server, wire, client
  <2>6. QED
    BY <2>2, <2>4, <2>5 DEF IInv
<1>4. QED
  BY <1>1, <1>2, <1>3 DEF Next

\* The inductive invariant holds in every run of the service.
THEOREM Invariance == Spec => []IInv
  BY InitIInv, NextIInv, PTL DEF Spec

\* However many processes accept from one socket, a connection whose client is there has
\* exactly one process that serves it, and that holds it open.
THEOREM ServedByOne == Spec => []OneServer
<1>1. ASSUME IInv PROVE OneServer
  <2>1. ASSUME NEW c \in Accepted \ orphans
        PROVE  /\ Cardinality(Serving(c)) <= 1
               /\ user[c] \in {"typing", "waiting"} => Serving(c) # {}
               /\ \A p \in Serving(c) : c \in open[p]
    <3>1. \A p, q \in Serving(c) : p = q /\ c \in open[p]
      BY <1>1 DEF IInv, Served, Serving, Busy
    <3>2. Cardinality(Serving(c)) <= 1
      <4>1. Serving(c) = {} \/ \E p : Serving(c) = {p}
        BY <3>1
      <4>2. CASE Serving(c) = {}
        BY <4>2, FS_EmptySet
      <4>3. CASE \E p : Serving(c) = {p}
        <5>1. PICK p : Serving(c) = {p}
          BY <4>3
        <5>2. Cardinality({p}) = 1
          BY FS_Singleton
        <5>3. QED
          BY <5>1, <5>2
      <4>4. QED
        BY <4>1, <4>2, <4>3
    <3>3. user[c] \in {"typing", "waiting"} => Serving(c) # {}
      BY <1>1, <2>1 DEF IInv, Attended, Serving, Busy
    <3>4. QED
      BY <3>1, <3>2, <3>3
  <2>2. QED
    BY <2>1 DEF OneServer
<1>2. QED
  BY <1>1, Invariance, PTL

\* A connection that was accepted stays open in the process that accepted it, which
\* never ends: the descriptor is not closed after fork.
THEOREM KeptForEver == Spec => []NeverReleased
<1>1. IInv => NeverReleased
  BY DEF IInv
<1>2. QED
  BY <1>1, Invariance, PTL

\* A client whose packets were all read whole gets its own line back, whatever else the
\* processes and their copied buffers did.
THEOREM OwnLineBack == Spec => []EchoExact
<1>1. ASSUME IInv PROVE EchoExact
  BY <1>1 DEF IInv, Exact, EchoExact, Typed, Gone
<1>2. QED
  BY <1>1, Invariance, PTL
=============================================================================
