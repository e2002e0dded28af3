--------------------------- MODULE TftpServerProofs ---------------------------
(***************************************************************************)
(* Proofs about TftpServer for any clients, files, requests and children.  *)
(***************************************************************************)
EXTENDS TftpServer, ListProofs

Stages == {"none", "check", "open", "transfer", "zombie", "reaped"}
Outcomes == {"none", "refused", "noopen", "ok", "failed"}
Child0 == [pc : Stages, client : Clients \cup {"nobody"}, done : Nat, outcome : Outcomes]

Typed ==
    /\ request \in [Clients -> [op : Ops, file : Files]]
    /\ mailbox \in Seq(Clients)
    /\ child \in [Children -> Child0]
    /\ \A i \in Children : child[i].pc # "none" => child[i].client \in Clients
    /\ old \subseteq exists
    /\ content \in [Files -> Seq(Children \X Nat)]

\* A child that may write found its file missing, and it was missing at the start.
NewFiles == \A i \in Children :
    child[i].pc \in {"open", "transfer"} /\ Op(i) = "WRQ" => File(i) \notin old

\* A child writes only after it was forked.
NotBefore == \A i \in Children : child[i].pc = "none" =>
    /\ child[i].done = 0
    /\ \A f \in Files : \A a \in DOMAIN content[f] : content[f][a][1] # i

IInv == Typed /\ NewFiles /\ NotBefore /\ KeptWrites

\* Child i is changed: not its client, and it was forked.
Moves(i) ==
    /\ child' \in [Children -> Child0]
    /\ \A j \in Children : j # i => child'[j] = child[j]
    /\ child'[i].client = child[i].client
    /\ child[i].pc # "none" /\ child'[i].pc # "none"

\* A step of child i that writes nothing.
LEMMA ChildMoves ==
    ASSUME IInv, NEW i \in Children, Moves(i),
           child'[i].done = child[i].done \/ Op(i) # "WRQ",
           UNCHANGED <<request, content, old, mailbox>>, exists \subseteq exists',
           child'[i].pc \in {"open", "transfer"} /\ Op(i) = "WRQ" => File(i) \notin old
    PROVE  IInv'
<1>0. /\ child' \in [Children -> Child0]
      /\ \A j \in Children : j # i => child'[j] = child[j]
      /\ child'[i].client = child[i].client
      /\ child[i].pc # "none" /\ child'[i].pc # "none"
  BY DEF Moves
<1>1. \A j \in Children : /\ Op(j)' = Op(j) /\ File(j)' = File(j)
                          /\ child'[j].client = child[j].client
                          /\ child'[j].pc = "none" <=> child[j].pc = "none"
                          /\ Op(j) = "WRQ" => child'[j].done = child[j].done
  BY <1>0 DEF Op, File
<1>2. Typed'
  BY <1>0, <1>1 DEF IInv, Typed
<1>3. NewFiles'
  BY <1>0, <1>1 DEF IInv, NewFiles
<1>4. NotBefore'
  BY <1>0, <1>1 DEF IInv, NotBefore
<1>5. KeptWrites'
  BY <1>0, <1>1 DEF IInv, KeptWrites
<1>6. QED
  BY <1>2, <1>3, <1>4, <1>5 DEF IInv

\* A step that changes no child and no file.
LEMMA QuietStep ==
    ASSUME IInv, UNCHANGED <<request, child, exists, content, old>>, mailbox' \in Seq(Clients)
    PROVE  IInv'
<1>1. \A j \in Children : Op(j)' = Op(j) /\ File(j)' = File(j)
  BY DEF Op, File
<1>2. Typed' /\ NewFiles' /\ NotBefore'
  BY <1>1 DEF IInv, Typed, NewFiles, NotBefore
<1>3. KeptWrites'
  BY <1>1 DEF IInv, KeptWrites
<1>4. QED
  BY <1>2, <1>3 DEF IInv

\* Child i goes to another stage.
LEMMA StageSet ==
    ASSUME Typed, NEW i \in Children, child[i].pc # "none",
           NEW stage \in Stages, stage # "none",
           child' = [child EXCEPT ![i].pc = stage]
    PROVE  Moves(i) /\ child'[i].pc = stage /\ child'[i].done = child[i].done
<1>1. child \in [Children -> Child0]
  BY DEF Typed
<1>2. child'[i] \in Child0 /\ child'[i].pc = stage /\ child'[i].client = child[i].client
      /\ child'[i].done = child[i].done
  BY <1>1 DEF Child0
<1>3. QED
  BY <1>1, <1>2 DEF Moves

\* Child i exits.
LEMMA Exiting ==
    ASSUME Typed, NEW i \in Children, child[i].pc # "none",
           NEW outcome \in Outcomes, Exit(i, outcome)
    PROVE  Moves(i) /\ child'[i].pc = "zombie" /\ child'[i].done = child[i].done
<1>1. child \in [Children -> Child0]
  BY DEF Typed
<1>2. child'[i] \in Child0 /\ child'[i].pc = "zombie" /\ child'[i].client = child[i].client
      /\ child'[i].done = child[i].done
  BY <1>1 DEF Child0, Stages, Exit
<1>3. QED
  BY <1>1, <1>2 DEF Moves, Exit

\* Child i goes on to the next chunk.
LEMMA ChunkDone ==
    ASSUME Typed, NEW i \in Children, child[i].pc # "none",
           child' = [child EXCEPT ![i].done = @ + 1]
    PROVE  Moves(i) /\ child'[i].pc = child[i].pc /\ child'[i].done = child[i].done + 1
<1>1. child \in [Children -> Child0]
  BY DEF Typed
<1>2. child'[i] \in Child0 /\ child'[i].pc = child[i].pc
      /\ child'[i].client = child[i].client /\ child'[i].done = child[i].done + 1
  BY <1>1 DEF Child0
<1>3. QED
  BY <1>1, <1>2 DEF Moves

\* A request arrives, is dropped or gets a child.
LEMMA ForkStep == ASSUME IInv, Fork PROVE IInv'
<1>1. /\ mailbox \in Seq(Clients) /\ mailbox # <<>>
      /\ mailbox' = Tail(mailbox)
      /\ UNCHANGED <<request, exists, content, old>>
  BY DEF IInv, Typed, Fork
<1>2. mailbox' \in Seq(Clients) /\ Head(mailbox) \in Clients
  BY <1>1, TakingOff
<1>3. CASE UNCHANGED child
  BY <1>1, <1>2, <1>3, QuietStep
<1>4. ASSUME NEW i \in Children, child[i].pc = "none",
             child' = [child EXCEPT ![i].pc = "check", ![i].client = Head(mailbox)]
      PROVE  IInv'
  <2>1. child \in [Children -> Child0]
    BY DEF IInv, Typed
  <2>2. /\ child' \in [Children -> Child0]
        /\ child'[i].pc = "check" /\ child'[i].client = Head(mailbox)
        /\ child'[i].done = child[i].done
        /\ \A j \in Children : j # i => child'[j] = child[j]
    BY <2>1, <1>2, <1>4 DEF Child0, Stages
  <2>3. \A j \in Children : j # i => Op(j)' = Op(j) /\ File(j)' = File(j)
    BY <2>2, <1>1 DEF Op, File
  <2>4. Typed'
    BY <2>2, <1>1, <1>2 DEF IInv, Typed
  <2>5. NewFiles'
    BY <2>2, <2>3, <1>1 DEF IInv, NewFiles
  <2>6. NotBefore'
    BY <2>2, <1>1 DEF IInv, NotBefore
  <2>7. KeptWrites'
    <3>1. ASSUME NEW j \in Children, child'[j].pc # "none", Op(j)' = "WRQ"
          PROVE  LET file == content'[File(j)']
                     Mine == {a \in DOMAIN file : file[a][1] = j}
                 IN  /\ {file[a] : a \in Mine} = {<<j, k>> : k \in 1..child'[j].done}
                     /\ \A a, b \in Mine : a < b => file[a][2] < file[b][2]
      <4>1. CASE j # i
        BY <4>1, <3>1, <2>2, <2>3, <1>1 DEF IInv, KeptWrites
      <4>2. CASE j = i
        <5>1. File(i)' \in Files
          BY <2>2, <1>1, <1>2 DEF IInv, Typed, File
        <5>2. {a \in DOMAIN content[File(i)'] : content[File(i)'][a][1] = i} = {}
          BY <5>1, <1>4 DEF IInv, NotBefore
        <5>3. child'[i].done = 0
          BY <2>2, <1>4 DEF IInv, NotBefore
        <5>4. QED
          BY <4>2, <5>2, <5>3, <1>1
      <4>3. QED
        BY <4>1, <4>2
    <3>2. QED
      BY <3>1 DEF KeptWrites
  <2>8. QED
    BY <2>4, <2>5, <2>6, <2>7 DEF IInv
<1>5. QED
  BY <1>3, <1>4 DEF Fork

\* A child checks, opens, reads, ends or is reaped.
LEMMA MovingStep ==
    ASSUME IInv, NEW i \in Children,
           Check(i) \/ Open(i) \/ OpenFails(i) \/ Read(i) \/ Finish(i) \/ Fail(i) \/ Reap(i)
    PROVE  IInv'
<1>1. /\ Typed /\ old \subseteq exists
      /\ {"open", "transfer", "zombie", "reaped"} \subseteq Stages
      /\ {"refused", "noopen", "ok", "failed"} \subseteq Outcomes
  BY DEF IInv, Typed, Stages, Outcomes
<1>2. CASE Check(i)
  <2>1. CASE Access(Op(i), File(i) \in exists) /\ child' = [child EXCEPT ![i].pc = "open"]
    <3>1. Op(i) = "WRQ" => File(i) \notin old
      BY <2>1, <1>1 DEF Access
    <3>2. Moves(i) /\ child'[i].done = child[i].done
      BY <2>1, <1>1, <1>2, StageSet DEF Check
    <3>3. QED
      BY <3>1, <3>2, <1>2, ChildMoves DEF Check
  <2>2. CASE Exit(i, "refused")
    <3>1. Moves(i) /\ child'[i].pc = "zombie" /\ child'[i].done = child[i].done
      BY <2>2, <1>1, <1>2, Exiting DEF Check
    <3>2. QED
      BY <3>1, <1>2, ChildMoves DEF Check
  <2>3. QED
    BY <1>2, <2>1, <2>2 DEF Check
<1>3. CASE Open(i)
  <2>1. UNCHANGED content /\ exists \subseteq exists'
    <3>1. content = [content EXCEPT ![File(i)] = @]
      BY <1>1 DEF Typed
    <3>2. QED
      BY <3>1, <1>3 DEF Open, Kept
  <2>2. Op(i) = "WRQ" => File(i) \notin old
    BY <1>3 DEF Open, IInv, NewFiles
  <2>3. Moves(i) /\ child'[i].done = child[i].done
    BY <1>1, <1>3, StageSet DEF Open
  <2>4. QED
    BY <2>1, <2>2, <2>3, <1>3, ChildMoves DEF Open
<1>4. CASE OpenFails(i)
  <2>1. Moves(i) /\ child'[i].pc = "zombie" /\ child'[i].done = child[i].done
    BY <1>1, <1>4, Exiting DEF OpenFails
  <2>2. QED
    BY <2>1, <1>4, ChildMoves DEF OpenFails
<1>5. CASE Read(i)
  <2>1. Moves(i) /\ Op(i) # "WRQ"
    BY <1>1, <1>5, ChunkDone DEF Read
  <2>2. QED
    BY <2>1, <1>5, ChildMoves DEF Read
<1>6. CASE Finish(i)
  <2>1. Moves(i) /\ child'[i].pc = "zombie" /\ child'[i].done = child[i].done
    BY <1>1, <1>6, Exiting DEF Finish
  <2>2. QED
    BY <2>1, <1>6, ChildMoves DEF Finish
<1>7. CASE Fail(i)
  <2>1. Moves(i) /\ child'[i].pc = "zombie" /\ child'[i].done = child[i].done
    BY <1>1, <1>7, Exiting DEF Fail
  <2>2. QED
    BY <2>1, <1>7, ChildMoves DEF Fail
<1>8. CASE Reap(i)
  <2>1. Moves(i) /\ child'[i].pc = "reaped" /\ child'[i].done = child[i].done
    BY <1>1, <1>8, StageSet DEF Reap
  <2>2. QED
    BY <2>1, <1>8, ChildMoves DEF Reap
<1>9. QED
  BY <1>2, <1>3, <1>4, <1>5, <1>6, <1>7, <1>8

\* A chunk is appended behind what all children wrote before.
LEMMA WriteStep == ASSUME IInv, NEW i \in Children, Write(i) PROVE IInv'
<1> DEFINE f == File(i)
           n == child[i].done + 1
           file == content[f]
           file1 == Append(file, <<i, n>>)
<1>1. /\ child[i].pc = "transfer" /\ Op(i) = "WRQ"
      /\ child' = [child EXCEPT ![i].done = @ + 1]
      /\ content' = [content EXCEPT ![f] = file1]
      /\ UNCHANGED <<request, mailbox, exists, old>>
  BY DEF Write
<1>2. /\ child' \in [Children -> Child0]
      /\ child'[i].pc = child[i].pc /\ child'[i].client = child[i].client
      /\ child'[i].done = n /\ n \in Nat /\ n >= 1
      /\ \A j \in Children : j # i => child'[j] = child[j]
  <2>1. child[i].done \in Nat
    BY DEF IInv, Typed, Child0
  <2>2. Moves(i) /\ child'[i].pc = child[i].pc /\ child'[i].done = child[i].done + 1
    BY <1>1, ChunkDone DEF IInv
  <2>3. QED
    BY <2>1, <2>2 DEF Moves
<1>3. \A j \in Children : Op(j)' = Op(j) /\ File(j)' = File(j)
  BY <1>1, <1>2 DEF Op, File
<1>4. f \in Files /\ file \in Seq(Children \X Nat) /\ f \notin old
  BY <1>1 DEF IInv, Typed, File, NewFiles
<1>5. <<i, n>> \in Children \X Nat /\ <<i, n>>[1] = i /\ <<i, n>>[2] = n
  BY <1>2
<1>6. /\ file1 \in Seq(Children \X Nat)
      /\ DOMAIN file = 1..Len(file) /\ DOMAIN file1 = 1..(Len(file) + 1)
      /\ Len(file) \in Nat
      /\ \A a \in 1..Len(file) : file1[a] = file[a]
      /\ file1[Len(file) + 1] = <<i, n>>
  <2> DEFINE S == Children \X Nat
             x == <<i, n>>
  <2>1. x \in S /\ file \in Seq(S)
    BY <1>4, <1>5
  <2> HIDE DEF S, x
  <2>2. /\ Append(file, x) \in Seq(S) /\ Len(Append(file, x)) = Len(file) + 1
        /\ DOMAIN file = 1..Len(file) /\ Len(file) \in Nat
        /\ DOMAIN Append(file, x) = 1..Len(Append(file, x))
        /\ \A a \in 1..Len(file) : Append(file, x)[a] = file[a]
        /\ Append(file, x)[Len(file) + 1] = x
    BY <2>1, Appending, Positions
  <2>3. QED
    BY <2>2 DEF S, x
<1>7. content'[f] = file1 /\ \A g \in Files : g # f => content'[g] = content[g]
  BY <1>1, <1>4 DEF IInv, Typed
<1> HIDE DEF f, n, file, file1
<1>8. Typed'
  BY <1>1, <1>2, <1>4, <1>6 DEF IInv, Typed
<1>9. NewFiles'
  BY <1>1, <1>2, <1>3 DEF IInv, NewFiles
<1>10. NotBefore'
  <2>1. ASSUME NEW j \in Children, child'[j].pc = "none"
        PROVE  /\ child'[j].done = 0
               /\ \A g \in Files : \A a \in DOMAIN content'[g] : content'[g][a][1] # j
    <3>1. j # i /\ child[j].pc = "none" /\ child[j].done = 0
      BY <2>1, <1>1, <1>2 DEF IInv, NotBefore
    <3>2. \A g \in Files : \A a \in DOMAIN content[g] : content[g][a][1] # j
      BY <3>1 DEF IInv, NotBefore
    <3>3. \A a \in DOMAIN file1 : file1[a][1] # j
      <4>1. \A a \in 1..Len(file) : file1[a] = file[a] /\ file[a][1] # j
        BY <3>2, <1>4, <1>6 DEF file
      <4>2. file1[Len(file) + 1][1] # j
        BY <3>1, <1>5, <1>6
      <4>3. QED
        BY <4>1, <4>2, <1>6
    <3>4. QED
      BY <3>1, <3>2, <3>3, <1>2, <1>7
  <2>2. QED
    BY <2>1 DEF NotBefore
<1>11. KeptWrites'
  <2>1. ASSUME NEW j \in Children, child'[j].pc # "none", Op(j)' = "WRQ"
        PROVE  LET new == content'[File(j)']
                   Mine == {a \in DOMAIN new : new[a][1] = j}
               IN  /\ {new[a] : a \in Mine} = {<<j, k>> : k \in 1..child'[j].done}
                   /\ \A a, b \in Mine : a < b => new[a][2] < new[b][2]
    <3> DEFINE last == content[File(j)]
               was == {a \in DOMAIN last : last[a][1] = j}
    <3>1. /\ {last[a] : a \in was} = {<<j, k>> : k \in 1..child[j].done}
          /\ \A a, b \in was : a < b => last[a][2] < last[b][2]
      BY <2>1, <1>2, <1>3 DEF IInv, KeptWrites
    <3>2. File(j) \in Files
      BY <2>1, <1>2 DEF IInv, Typed, File
    <3>3. CASE File(j) # f
      <4>1. content'[File(j)'] = last /\ child'[j] = child[j]
        BY <3>2, <3>3, <1>2, <1>3, <1>7 DEF f
      <4>2. QED
        BY <4>1, <3>1
    <3>4. CASE File(j) = f /\ j # i
      <4>1. content'[File(j)'] = file1 /\ child'[j] = child[j] /\ last = file
        BY <3>4, <1>2, <1>3, <1>7 DEF file
      <4>2. \A a \in DOMAIN file1 : file1[a][1] = j <=> a \in DOMAIN file /\ file[a][1] = j
        BY <3>4, <1>5, <1>6
      <4>3. {a \in DOMAIN file1 : file1[a][1] = j} = was
        BY <4>1, <4>2, <1>6
      <4>4. \A a \in was : file1[a] = last[a]
        BY <4>1, <1>6
      <4> HIDE DEF last, was
      <4>5. QED
        BY <4>1, <4>3, <4>4, <3>1
    <3>5. CASE j = i
      <4>1. content'[File(j)'] = file1 /\ child'[j].done = n /\ last = file
            /\ n = child[j].done + 1 /\ child[j].done \in Nat
        BY <3>5, <1>2, <1>3, <1>7 DEF file, f, n, IInv, Typed, Child0
      <4>2. {a \in DOMAIN file1 : file1[a][1] = j} = was \cup {Len(file) + 1}
        BY <4>1, <3>5, <1>5, <1>6
      <4>3. \A a \in was : a \in 1..Len(file) /\ file1[a] = last[a]
        BY <4>1, <1>6
      <4> HIDE DEF last, was
      <4>4. {file1[a] : a \in was \cup {Len(file) + 1}} =
                {<<j, k>> : k \in 1..child[j].done} \cup {<<i, n>>}
        BY <4>3, <3>1, <1>6
      <4>5. {<<j, k>> : k \in 1..child[j].done} \cup {<<i, n>>} = {<<j, k>> : k \in 1..n}
        BY <4>1, <3>5
      <4>6. \A a \in was : last[a][2] < n
        <5>1. \A a \in was : \E k \in 1..child[j].done : last[a] = <<j, k>>
          BY <3>1
        <5>2. QED
          BY <5>1, <4>1
      <4>7. \A a, b \in was \cup {Len(file) + 1} : a < b => file1[a][2] < file1[b][2]
        <5>1. ASSUME NEW a \in was \cup {Len(file) + 1}, NEW b \in was \cup {Len(file) + 1},
                     a < b
              PROVE  file1[a][2] < file1[b][2]
          <6>1. a \in was
            BY <5>1, <4>3, <1>6
          <6>2. CASE b \in was
            BY <5>1, <6>1, <6>2, <4>3, <3>1
          <6>3. CASE b = Len(file) + 1
            BY <6>1, <6>3, <4>3, <4>6, <1>5, <1>6
          <6>4. QED
            BY <6>2, <6>3
        <5>2. QED
          BY <5>1
      <4>8. QED
        BY <4>1, <4>2, <4>4, <4>5, <4>7
    <3>6. QED
      BY <3>3, <3>4, <3>5
  <2>2. QED
    BY <2>1 DEF KeptWrites
<1>12. QED
  BY <1>8, <1>9, <1>10, <1>11 DEF IInv

\* Nobody was forked and no file written.
LEMMA InitIInv == Init => IInv
<1> SUFFICES ASSUME Init PROVE IInv
  OBVIOUS
<1>1. child \in [Children -> Child0] /\ \A i \in Children : child[i].pc = "none" /\ child[i].done = 0
  BY DEF Init, NotForked, Child0, Stages, Outcomes
<1>2. Typed /\ NewFiles /\ NotBefore /\ KeptWrites
  BY <1>1 DEF Init, Typed, NewFiles, NotBefore, KeptWrites
<1>3. QED
  BY <1>2 DEF IInv

\* Every step keeps it.
LEMMA NextIInv == IInv /\ [Next]_vars => IInv'
<1> SUFFICES ASSUME IInv, [Next]_vars PROVE IInv'
  OBVIOUS
<1>1. mailbox \in Seq(Clients)
  BY DEF IInv, Typed
<1>2. ASSUME NEW c \in Clients, Request(c) PROVE IInv'
  <2>1. mailbox' \in Seq(Clients)
    BY <1>1, <1>2, Appending DEF Request
  <2>2. QED
    BY <1>2, <2>1, QuietStep DEF Request
<1>3. CASE Fork
  BY <1>3, ForkStep
<1>4. CASE EnterHandler \/ LeaveHandler
  BY <1>1, <1>4, QuietStep DEF EnterHandler, LeaveHandler
<1>5. ASSUME NEW i \in Children, Child(i) \/ Reap(i) PROVE IInv'
  BY <1>5, MovingStep, WriteStep DEF Child
<1>6. CASE UNCHANGED vars
  BY <1>1, <1>6, QuietStep DEF vars
<1>7. QED
  BY <1>2, <1>3, <1>4, <1>5, <1>6 DEF Next, Parent

\* The inductive invariant holds in every run of the server.
THEOREM Invariance == Spec => []IInv
  BY InitIInv, NextIInv, PTL DEF Spec

\* What a child wrote is in its file, each chunk once and in order, whatever other
\* children append to the same file.
THEOREM WritesAreKept == Spec => []KeptWrites
<1>1. IInv => KeptWrites
  BY DEF IInv
<1>2. QED
  BY <1>1, Invariance, PTL

\* No request changes a file that was there before the server: access() refuses a write
\* to it, and a child that writes was let through when its file was missing.
THEOREM OldFilesAreKept == Spec => OldFilesKept
<1>1. ASSUME IInv, [Next]_vars PROVE [\A f \in old : content'[f] = content[f]]_vars
  <2>1. SUFFICES ASSUME NEW f \in old, content' # content PROVE content'[f] = content[f]
    BY DEF vars
  <2>2. PICK i \in Children : Open(i) \/ Write(i)
    BY <1>1, <2>1 DEF Next, Request, Parent, Fork, EnterHandler, Reap, LeaveHandler, Child,
                      Check, OpenFails, Read, Finish, Fail, vars
  <2>3. Op(i) = "WRQ" /\ File(i) \notin old
    BY <1>1, <2>1, <2>2 DEF Open, Write, IInv, NewFiles
  <2>4. File(i) # f
    BY <2>3
  <2>5. \E chunks : content' = [content EXCEPT ![File(i)] = chunks]
    BY <2>1, <2>2, <2>3 DEF Open, Write
  <2>6. content \in [Files -> Seq(Children \X Nat)] /\ old \subseteq exists
    BY <1>1 DEF IInv, Typed
  <2>7. QED
    BY <2>4, <2>5, <2>6
<1>2. QED
  BY <1>1, Invariance, PTL DEF Spec, OldFilesKept
=============================================================================
