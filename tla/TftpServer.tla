----------------------------- MODULE TftpServer -----------------------------
(***************************************************************************)
(* The TFTP server as a whole (Assignment_3/server.c): the parent that     *)
(* forks a child for every request, the children's use of the file system, *)
(* and the SIGCHLD handler that reaps them.  The packets of a transfer are *)
(* in TftpRrq and TftpWrq; here a transfer is the chunks it appends to its *)
(* file, or reads from it: a chunk counts as written when stdio's buffer   *)
(* holding it is flushed to the file, at the latest when the child exits.  *)
(***************************************************************************)
EXTENDS Integers, Sequences, FiniteSets, SequencesExt

CONSTANTS
    Clients,
    Files,
    Ops,          \* operations the clients may ask for
    Chunks,       \* chunks of an upload
    MaxChildren,  \* children forked (bound of the model)
    MaxSends      \* times a client sends its request (bound of the model)

ASSUME ServerAssumption ==
    /\ Ops \subseteq {"RRQ", "WRQ", "OTHER"}
    /\ Chunks \in Nat \ {0} /\ MaxChildren \in Nat \ {0} /\ MaxSends \in Nat

VARIABLES
    request,   \* what each client asks for: an operation and a file
    sent,      \* times it sent the request: tftp repeats one that is not answered
    mailbox,   \* requests waiting at the listening socket, by client
    child,     \* the children: state, client served, chunks done, outcome
    exists,    \* files there are
    content,   \* their chunks, each with the child that wrote it
    pending,   \* SIGCHLD is pending: one bit however many children exit
    handler,   \* the parent is in sigchld_handler
    old        \* (history) the files there were at the start

vars == <<request, sent, mailbox, child, exists, content, pending, handler, old>>

Children == 1..MaxChildren
NotForked == [pc |-> "none", client |-> "nobody", done |-> 0, outcome |-> "none"]

Op(i)   == request[child[i].client].op
File(i) == request[child[i].client].file

Init ==
    /\ request \in [Clients -> [op : Ops, file : Files]]
    /\ sent = [c \in Clients |-> 0]
    /\ mailbox = <<>>
    /\ child = [i \in Children |-> NotForked]
    /\ exists \in SUBSET Files
    /\ content = [f \in Files |-> <<>>]
    /\ pending = FALSE
    /\ handler = FALSE
    /\ old = exists

\* A client's request, or its repetition, reaches the listening socket.
Request(c) ==
    /\ sent[c] < MaxSends
    /\ sent' = [sent EXCEPT ![c] = @ + 1]
    /\ mailbox' = Append(mailbox, c)
    /\ UNCHANGED <<request, child, exists, content, pending, handler, old>>

-----------------------------------------------------------------------------
(* The parent *)

\* main's loop: a child for every packet received.  When fork fails the parent
\* goes on and the request is dropped.
Fork ==
    /\ ~ handler
    /\ mailbox # <<>>
    /\ mailbox' = Tail(mailbox)
    /\ \/ \E i \in Children :
            /\ child[i].pc = "none" /\ \A j \in 1..(i - 1) : child[j].pc # "none"
            /\ child' = [child EXCEPT ![i].pc = "check", ![i].client = Head(mailbox)]
       \/ UNCHANGED child
    /\ UNCHANGED <<request, sent, exists, content, pending, handler, old>>

\* sigchld_handler: entered with the signal no longer pending (and blocked), calls
\* waitpid until nothing is left to reap.  SA_RESTART resumes recvfrom.
EnterHandler ==
    /\ pending /\ ~ handler
    /\ pending' = FALSE
    /\ handler' = TRUE
    /\ UNCHANGED <<request, sent, mailbox, child, exists, content, old>>

\* Whether the handler's loop goes on after it reaped one.  (Variants named Faulty...
\* seed a fault and are used by no action.)
FaultyAgain == FALSE
Again == TRUE

Reap(i) ==
    /\ handler
    /\ child[i].pc = "zombie"
    /\ child' = [child EXCEPT ![i].pc = "reaped"]
    /\ handler' = Again
    /\ UNCHANGED <<request, sent, mailbox, exists, content, pending, old>>

LeaveHandler ==
    /\ handler
    /\ \A i \in Children : child[i].pc # "zombie"
    /\ handler' = FALSE
    /\ UNCHANGED <<request, sent, mailbox, child, exists, content, pending, old>>

Parent == Fork \/ EnterHandler \/ (\E i \in Children : Reap(i)) \/ LeaveHandler

-----------------------------------------------------------------------------
(* The children *)

\* exit(0) after a handler returned, and the signal it sends to the parent.
Exit(i, outcome) ==
    /\ child' = [child EXCEPT ![i].pc = "zombie", ![i].outcome = outcome]
    /\ pending' = TRUE

\* The access() of rrq_handler and wrq_handler, and what happens for any other
\* opcode.  A read wants the file to exist and a write wants it not to.
FaultyAccess(op, there) == there \/ op = "WRQ"
Access(op, there) == (op = "RRQ" /\ there) \/ (op = "WRQ" /\ ~ there)

Check(i) ==
    /\ child[i].pc = "check"
    /\ IF Access(Op(i), File(i) \in exists)
       THEN child' = [child EXCEPT ![i].pc = "open"] /\ UNCHANGED pending
       ELSE Exit(i, "refused")
    /\ UNCHANGED <<request, sent, mailbox, exists, content, handler, old>>

\* open_file: fopen with "r" or "a", which creates a file that is not there and
\* keeps what is in one that is.
FaultyKept(chunks) == <<>>
Kept(chunks) == chunks

Open(i) ==
    /\ child[i].pc = "open"
    /\ child' = [child EXCEPT ![i].pc = "transfer"]
    /\ IF Op(i) = "WRQ"
       THEN /\ exists' = exists \cup {File(i)}
            /\ content' = [content EXCEPT ![File(i)] = Kept(@)]
       ELSE UNCHANGED <<exists, content>>
    /\ UNCHANGED <<request, sent, mailbox, pending, handler, old>>

OpenFails(i) ==
    /\ child[i].pc = "open"
    /\ Exit(i, "noopen")
    /\ UNCHANGED <<request, sent, mailbox, exists, content, handler, old>>

\* Chunks of an upload that are still to come.
More(i) == child[i].done < Chunks

\* The next chunk is appended to the file.
Write(i) ==
    /\ child[i].pc = "transfer" /\ Op(i) = "WRQ"
    /\ More(i)
    /\ child' = [child EXCEPT ![i].done = @ + 1]
    /\ content' = [content EXCEPT ![File(i)] = Append(@, <<i, child[i].done + 1>>)]
    /\ UNCHANGED <<request, sent, mailbox, exists, pending, handler, old>>

\* The next chunk is read from the file, which may still be growing.
Read(i) ==
    /\ child[i].pc = "transfer" /\ Op(i) = "RRQ"
    /\ child[i].done < Len(content[File(i)])
    /\ child' = [child EXCEPT ![i].done = @ + 1]
    /\ UNCHANGED <<request, sent, mailbox, exists, content, pending, handler, old>>

\* The last packet was acknowledged.
Finish(i) ==
    /\ child[i].pc = "transfer"
    /\ child[i].done = IF Op(i) = "WRQ" THEN Chunks ELSE Len(content[File(i)])
    /\ Exit(i, "ok")
    /\ UNCHANGED <<request, sent, mailbox, exists, content, handler, old>>

\* Timeouts, an ERROR packet or an unknown one end the transfer; the file stays.
Fail(i) ==
    /\ child[i].pc = "transfer"
    /\ Exit(i, "failed")
    /\ UNCHANGED <<request, sent, mailbox, exists, content, handler, old>>

Child(i) == Check(i) \/ Open(i) \/ OpenFails(i) \/ Write(i) \/ Read(i) \/ Finish(i) \/ Fail(i)

Next == \/ \E c \in Clients : Request(c)
        \/ Parent
        \/ \E i \in Children : Child(i)

\* The parent and every child are scheduled; a transfer ends (TftpRrq and TftpWrq
\* show that it does).
Spec ==
    /\ Init /\ [][Next]_vars
    /\ WF_vars(Parent)
    /\ \A i \in Children : WF_vars(Child(i))

-----------------------------------------------------------------------------
(* Properties *)

\* No child stays a zombie, although several exits may leave one pending signal
\* and a child may exit while the handler runs.
Reaped == \A i \in Children : child[i].pc = "zombie" ~> child[i].pc = "reaped"

\* What a child wrote stays in the file, each chunk once and in order, also when
\* other children write to the same file.
KeptWrites ==
    \A i \in Children : child[i].pc # "none" /\ Op(i) = "WRQ" =>
        LET file == content[File(i)]
            Mine == {a \in DOMAIN file : file[a][1] = i}
        IN  /\ {file[a] : a \in Mine} = {<<i, k>> : k \in 1..child[i].done}
            /\ \A a, b \in Mine : a < b => file[a][2] < file[b][2]

\* No request, repeated or not, changes a file that was there before the server.
OldFilesKept == [][\A f \in old : content'[f] = content[f]]_vars
=============================================================================
