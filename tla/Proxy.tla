------------------------------- MODULE Proxy -------------------------------
(***************************************************************************)
(* The caching HTTP proxy (Assignment_4/proxy.c and lib.c): one process, a *)
(* select loop over a list of descriptors, and a queue of documents.  A    *)
(* document stands for its cache node and is named by the connection whose *)
(* request allocated it; blank nodes fill the queue at the start.  Clients *)
(* connect in the order of their numbers.  Origin servers change their     *)
(* pages, and answer a conditional GET with 304 if the page has not        *)
(* changed since the date it carries; their clock counts the changes.      *)
(***************************************************************************)
EXTENDS Integers, Sequences, FiniteSets, SequencesExt

CONSTANTS
    MaxConns,    \* connections accepted (bound of the model)
    MaxOpen,     \* connections at the same time (bound of the model)
    MaxUrls,     \* pages (bound of the model)
    Slots,       \* LRU_MAX_SLOT
    MaxChanges,  \* changes of pages (bound of the model)
    Changing,    \* pages that change
    Leaving,     \* connections whose client may send half a request, reset or leave
    Refused,     \* connections for which server_lookup_connect may fail
    Breaking,    \* connections whose origin server may break its reply
    Stuck        \* connections whose client does not read its answer

Conns == 1..MaxConns
Urls  == 1..MaxUrls

ASSUME ProxyAssumption ==
    /\ MaxConns \in Nat \ {0} /\ Slots \in Nat \ {0, 1} /\ MaxChanges \in Nat
    /\ Changing \subseteq Urls
    /\ Leaving \cup Refused \cup Breaking \cup Stuck \subseteq Conns
    /\ MaxUrls \in Nat \ {0}

VARIABLES
    running,     \* "yes", or what ended the process
    fd_list,     \* the nodes between the two dummies
    ready,       \* nodes select reported and the traversal has not come to yet
    client,      \* status of the client node of each connection
    server,      \* status of its server node
    cache_node,  \* the document its client node points to
    backup,      \* cache_node_backup of its server node
    doc,         \* the documents
    queue,       \* the cache, front first
    freed,       \* documents whose memory was released
    user,        \* what the client at the other end has done
    url,         \* the page it asked for
    answer,      \* what it was sent
    site,        \* the pages' versions and the clock of the origin servers
    exchange     \* the request of each connection to its origin, and the reply

nodes == <<fd_list, ready, client, server, cache_node, backup>>
cache == <<doc, queue, freed>>
users == <<user, url, answer>>
vars  == <<running, nodes, cache, users, site, exchange>>

\* Nodes of the list.
Listen    == <<"LISTEN", 0>>
Client(c) == <<"CLIENT", c>>
Server(c) == <<"SERVER", c>>

\* Null is the null pointer, and a blank node of the queue.
Null == 0

\* A document: whether its header was parsed (info_complete), what its buffer holds,
\* the version of the page, the Date of the response.
NewDoc    == [parsed |-> FALSE, kind |-> "request", version |-> 0, date |-> 0]
NoAnswer  == [url |-> Null, kind |-> "none", version |-> 0]
NoRequest == [state |-> "none", since |-> -1, kind |-> "none", version |-> 0, date |-> 0]

Init ==
    /\ running = "yes"
    /\ fd_list = <<Listen>>
    /\ ready = {}
    /\ client = [c \in Conns |-> "none"]
    /\ server = [c \in Conns |-> "none"]
    /\ cache_node = [c \in Conns |-> Null]
    /\ backup = [c \in Conns |-> Null]
    /\ doc = [c \in Conns |-> NewDoc]
    /\ queue = [i \in 1..Slots |-> Null]
    /\ freed = {}
    /\ user = [c \in Conns |-> "away"]
    /\ url = [c \in Conns |-> Null]
    /\ answer = [c \in Conns |-> NoAnswer]
    /\ site = [lastmod |-> [u \in Urls |-> 0], now |-> 0]
    /\ exchange = [c \in Conns |-> NoRequest]

-----------------------------------------------------------------------------
(* The clients and the origin servers *)

\* A client connects and sends its request, or only half of it (or closes without
\* one), or resets the connection.  Pages are numbered as they are first asked for.
Ask(c, u) ==
    /\ user[c] = "away" /\ \A b \in Conns : b < c => user[b] # "away"
    /\ Cardinality({b \in Conns : user[b] # "away" /\ client[b] # "freed"}) < MaxOpen
    /\ \A v \in Urls : v < u => \E b \in Conns : url[b] = v
    /\ \/ user' = [user EXCEPT ![c] = "asked"] /\ url' = [url EXCEPT ![c] = u]
       \/ /\ c \in Leaving
          /\ \E s \in {"partial", "reset"} : user' = [user EXCEPT ![c] = s]
          /\ UNCHANGED url
    /\ UNCHANGED <<running, nodes, cache, answer, site, exchange>>

\* A client leaves before its answer comes.
Leave(c) ==
    /\ c \in Leaving /\ user[c] = "asked"
    /\ user' = [user EXCEPT ![c] = "gone"]
    /\ UNCHANGED <<running, nodes, cache, url, answer, site, exchange>>

Change(u) ==
    /\ site.now < MaxChanges
    /\ site' = [lastmod |-> [site.lastmod EXCEPT ![u] = site.now + 1],
                now |-> site.now + 1]
    /\ UNCHANGED <<running, nodes, cache, users, exchange>>

\* The reply starts with its header, which holds the Date.  version is the page's
\* at this moment, also when the answer is 304 and does not contain the page.
Reply(c) ==
    /\ exchange[c].state = "asked"
    /\ LET version == site.lastmod[url[c]] IN
       exchange' = [exchange EXCEPT ![c] =
            [state |-> "replied", since |-> @.since, version |-> version,
             kind |-> IF @.since >= version THEN "304" ELSE "page",
             date |-> site.now]]
    /\ UNCHANGED <<running, nodes, cache, users, site>>

EndReply(c) ==
    /\ exchange[c].state = "replied"
    /\ exchange' = [exchange EXCEPT ![c].state = "ended"]
    /\ UNCHANGED <<running, nodes, cache, users, site>>

\* An origin server that closes before it replied or in the middle of the reply, or
\* resets the connection.
Break(c) ==
    /\ c \in Breaking
    /\ \/ exchange[c].state = "asked" /\ \E s \in {"mute", "reset"} :
            exchange' = [exchange EXCEPT ![c].state = s]
       \/ exchange[c].state = "replied" /\ \E s \in {"cut", "reset"} :
            exchange' = [exchange EXCEPT ![c].state = s]
    /\ UNCHANGED <<running, nodes, cache, users, site>>

-----------------------------------------------------------------------------
(* The list of descriptors and the loop of main *)

Backlog == {c \in Conns : user[c] # "away" /\ client[c] = "none"}

\* What select finds ready: connections to accept, requests and replies to read (the
\* end of a stream and a reset are read too), and all there is to write.
Replied(c) == exchange[c].state \in
    IF doc[c].parsed THEN {"ended", "cut", "reset"}
    ELSE {"replied", "ended", "cut", "mute", "reset"}

FaultyWaits(c) == client[c] = "READING" /\ user[c] # "away"
ClientReady(c) == client[c] \in {"READING", "WRITING"}

Ready ==
    {n \in {Listen} : Backlog # {}}
      \cup {Client(c) : c \in {d \in Conns : ClientReady(d)}}
      \cup {Server(c) : c \in {d \in Conns :
                server[d] = "WRITING" \/ (server[d] = "READING" /\ Replied(d))}}

\* fd_select; when nothing is ready it times out and is called again.
Select ==
    /\ running = "yes" /\ ready = {}
    /\ ready' = Ready /\ ready' # {}
    /\ UNCHANGED <<running, fd_list, client, server, cache_node, backup, cache, users,
                   site, exchange>>

\* The traversal has come to node n: nodes select did not report are passed over.
\* It goes on with tmp_node, the next one before the handler was called, so that the
\* handler may remove n.
Visiting(n) ==
    /\ running = "yes" /\ ready # {}
    /\ fd_list[SelectInSeq(fd_list, LAMBDA m : m \in ready)] = n

GoOn(n) == ready' = ready \ {n}

\* (Variants named Faulty... seed a fault and are used by no action.)
FaultyRemove(n) == UNCHANGED fd_list
fd_list_append(n) == fd_list' = Append(fd_list, n)
fd_list_remove(n) == fd_list' = RemoveFirst(fd_list, n)

-----------------------------------------------------------------------------
(* The document cache *)

FaultyHits(u) == {i \in 1..Slots : queue[i] # Null}
Hits(u) == {i \in 1..Slots : queue[i] # Null /\ url[queue[i]] = u}

\* is_cache_hit: the first entry for the page, or NULL.
is_cache_hit(u) == IF Hits(u) = {} THEN Null ELSE queue[Min(Hits(u))]

FaultyFreeFront(d) ==
    /\ queue' = [i \in 1..Slots |-> IF i = 1 THEN d ELSE queue[i - 1]]
    /\ freed' = freed \cup ({queue[1]} \ {Null})
FaultyEvictFront(d) ==
    /\ queue' = [queue EXCEPT ![1] = d]
    /\ freed' = freed \cup ({queue[1]} \ {Null})
\* cache_enqueue: every document has status IDLE, so the one at the rear is released.
cache_enqueue(d) ==
    /\ queue' = [i \in 1..Slots |-> IF i = 1 THEN d ELSE queue[i - 1]]
    /\ freed' = freed \cup ({queue[Slots]} \ {Null})

-----------------------------------------------------------------------------
(* The handlers *)

\* listen_fd_handler: the first of the waiting connections.
Accept(c) ==
    /\ Visiting(Listen)
    /\ c \in Backlog /\ \A b \in Backlog : c <= b
    /\ client' = [client EXCEPT ![c] = "READING"]
    /\ cache_node' = [cache_node EXCEPT ![c] = c]
    /\ fd_list_append(Client(c))
    /\ GoOn(Listen)
    /\ UNCHANGED <<running, server, backup, cache, users, site, exchange>>

\* A memcpy of numbytes = -1, or parse_response of nothing.
Crash(reason) ==
    /\ running' = reason
    /\ UNCHANGED <<nodes, cache, users, site, exchange>>

Reading(c) == Visiting(Client(c)) /\ client[c] = "READING"

\* cache_recv and parse_request find a whole request, with its host and path.
Requested(c) == user[c] \in {"asked", "gone"}

ReadReset(c) ==
    /\ Reading(c) /\ user[c] = "reset"
    /\ Crash("segv")

\* server_lookup_connect fails: no such host, no connection, or no host because the
\* request is not all there.
LookupFails(c) == user[c] = "partial" \/ (Requested(c) /\ c \in Refused)

\* client_read_handler, when the lookup fails.  The document is not released.
ReadRefuse(c) ==
    /\ Reading(c)
    /\ LookupFails(c)
    /\ client' = [client EXCEPT ![c] = "freed"]
    /\ cache_node' = [cache_node EXCEPT ![c] = Null]
    /\ user' = [user EXCEPT ![c] = "refused"]
    /\ fd_list_remove(Client(c))
    /\ GoOn(Client(c))
    /\ UNCHANGED <<running, server, backup, cache, url, answer, site, exchange>>

\* client_read_handler, connected to the origin server: its node gets the client's
\* document, to be overwritten by the response.
ReadRequest(c) ==
    /\ Reading(c) /\ Requested(c)
    /\ client' = [client EXCEPT ![c] = "IDLE"]
    /\ server' = [server EXCEPT ![c] = "WRITING"]
    /\ backup' = [backup EXCEPT ![c] = is_cache_hit(url[c])]
    /\ fd_list_append(Server(c))
    /\ GoOn(Client(c))
    /\ UNCHANGED <<running, cache_node, cache, users, site, exchange>>

\* server_write_handler: a conditional GET since the date of the entry, if there is one.
WriteRequest(c) ==
    /\ Visiting(Server(c)) /\ server[c] = "WRITING"
    /\ exchange' = [exchange EXCEPT ![c] = [@ EXCEPT !.state = "asked",
            !.since = IF backup[c] = Null THEN -1 ELSE doc[backup[c]].date]]
    /\ server' = [server EXCEPT ![c] = "READING"]
    /\ GoOn(Server(c))
    /\ UNCHANGED <<running, fd_list, client, cache_node, backup, cache, users, site>>

ReadingReply(c) == Visiting(Server(c)) /\ server[c] = "READING"

ReplyBroken(c) ==
    /\ ReadingReply(c)
    /\ exchange[c].state = "reset" \/ (exchange[c].state = "mute" /\ ~ doc[c].parsed)
    /\ Crash("segv")

\* server_read_handler, after cache_recv set the status IDLE: the client is to be
\* answered, and the document enters the cache unless there is one for the page.
Received(c) ==
    /\ client' = [client EXCEPT ![c] = "WRITING"]
    /\ IF is_cache_hit(url[c]) = Null THEN cache_enqueue(c) ELSE UNCHANGED <<queue, freed>>
    /\ server' = [server EXCEPT ![c] = "freed"]
    /\ backup' = [backup EXCEPT ![c] = Null]
    /\ fd_list_remove(Server(c))
    /\ GoOn(Server(c))

FaultyDate(c) == [parsed |-> TRUE, kind |-> exchange[c].kind,
              version |-> exchange[c].version, date |-> site.now]
Parsed(c) == [parsed |-> TRUE, kind |-> exchange[c].kind,
              version |-> exchange[c].version, date |-> exchange[c].date]

\* cache_recv, first part of a reply: the header.  What follows is read later.
ReadHeader(c) ==
    /\ ReadingReply(c) /\ ~ doc[c].parsed
    /\ exchange[c].state \in {"replied", "ended", "cut"}
    /\ backup[c] = Null \/ exchange[c].kind # "304"
    /\ doc' = [doc EXCEPT ![c] = Parsed(c)]
    /\ GoOn(Server(c))
    /\ UNCHANGED <<running, fd_list, client, server, cache_node, backup, queue, freed,
                   users, site, exchange>>

\* cache_recv, 304 on a conditional GET: the entry gets the new date, and the client
\* the entry.
ReadNotModified(c) ==
    /\ ReadingReply(c) /\ ~ doc[c].parsed
    /\ exchange[c].state \in {"replied", "ended", "cut"}
    /\ backup[c] # Null /\ exchange[c].kind = "304"
    /\ doc' = [doc EXCEPT ![c] = Parsed(c), ![backup[c]].date = exchange[c].date]
    /\ cache_node' = [cache_node EXCEPT ![c] = backup[c]]
    /\ Received(c)
    /\ UNCHANGED <<running, users, site, exchange>>

\* cache_recv, 0 bytes: the end of the reply.  Content-Length is not looked at.
ReadEnd(c) ==
    /\ ReadingReply(c) /\ doc[c].parsed
    /\ exchange[c].state \in {"ended", "cut"}
    /\ doc' = [doc EXCEPT ![c].kind = IF exchange[c].state = "cut" THEN "cut" ELSE @]
    /\ Received(c)
    /\ UNCHANGED <<running, cache_node, users, site, exchange>>

FaultyContent(d) == [url |-> url[d], kind |-> "header", version |-> doc[d].version]
\* What sending document d gives: from released memory, nothing or anything.
Content(d) == IF d \in freed THEN [url |-> Null, kind |-> "garbage", version |-> 0]
              ELSE [url |-> url[d], kind |-> doc[d].kind, version |-> doc[d].version]

\* client_write_handler, called on the same node until all is sent: send blocks the
\* process while the client does not read.  Then the node is freed, and the traversal
\* takes the next node from the freed one: it ends there, or the process does.
\* A client that is gone may be noticed by a second send: SIGPIPE.
WriteAnswer(c) ==
    /\ Visiting(Client(c)) /\ client[c] = "WRITING"
    /\ c \notin Stuck \/ user[c] = "gone"
    /\ answer' = [answer EXCEPT ![c] = Content(cache_node[c])]
    /\ user' = [user EXCEPT ![c] = "answered"]
    /\ client' = [client EXCEPT ![c] = "freed"]
    /\ cache_node' = [cache_node EXCEPT ![c] = Null]
    /\ fd_list_remove(Client(c))
    /\ ready' = {}
    /\ running' \in {"yes", "dangling"} \cup {s \in {"sigpipe"} : user[c] = "gone"}
    /\ UNCHANGED <<server, backup, cache, url, site, exchange>>

-----------------------------------------------------------------------------
Handle(c) ==
    \/ Accept(c)
    \/ ReadReset(c) \/ ReadRefuse(c) \/ ReadRequest(c)
    \/ WriteRequest(c)
    \/ ReplyBroken(c) \/ ReadHeader(c) \/ ReadNotModified(c) \/ ReadEnd(c)
    \/ WriteAnswer(c)

Loop == Select \/ \E c \in Conns : Handle(c)

Origins == \E c \in Conns : Reply(c) \/ EndReply(c)

World ==
    \/ Origins
    \/ \E c \in Conns : (\E u \in Urls : Ask(c, u)) \/ Leave(c) \/ Break(c)
    \/ \E u \in Changing : Change(u)

\* Nothing is said of the time after the process ended.
Next == running = "yes" /\ (Loop \/ World)

\* The process runs, and origin servers go on replying (or break the connection).
Fairness == WF_vars(Loop) /\ WF_vars(running = "yes" /\ Origins)

Spec == Init /\ [][Next]_vars /\ Fairness
-----------------------------------------------------------------------------
Versions == 0..MaxChanges
Docs     == Conns \cup {Null}

ListOK ==
    /\ running \in {"yes", "segv", "dangling", "sigpipe"}
    /\ ToSet(fd_list) \subseteq {Listen} \cup {Client(c) : c \in Conns}
                                  \cup {Server(c) : c \in Conns}
    /\ ready \subseteq ToSet(fd_list)

Documents == [parsed : BOOLEAN, kind : {"request", "page", "cut", "304"},
              version : Versions, date : Versions]
Answers   == [url : Urls \cup {Null}, version : Versions,
              kind : {"none", "garbage", "request", "page", "cut", "304"}]
Exchanges == [since : {-1} \cup Versions, version : Versions, date : Versions,
              kind : {"none", "page", "304"},
              state : {"none", "asked", "replied", "ended", "cut", "mute", "reset"}]

DataOK ==
    /\ client \in [Conns -> {"none", "READING", "IDLE", "WRITING", "freed"}]
    /\ server \in [Conns -> {"none", "WRITING", "READING", "freed"}]
    /\ cache_node \in [Conns -> Docs] /\ backup \in [Conns -> Docs]
    /\ doc \in [Conns -> Documents]
    /\ queue \in [1..Slots -> Docs] /\ freed \subseteq Conns
    /\ user \in [Conns -> {"away", "asked", "partial", "reset", "gone", "refused",
                           "answered"}]
    /\ url \in [Conns -> Urls \cup {Null}]
    /\ answer \in [Conns -> Answers]
    /\ site \in [lastmod : [Urls -> Versions], now : Versions]
    /\ exchange \in [Conns -> Exchanges]

\* Every variable keeps its type.
TypeOK == ListOK /\ DataOK

\* The cache holds no released document, none twice, none being received, and no two
\* of one page, however many are fetched at the same time.
QueueSound ==
    \A i \in 1..Slots : queue[i] # Null =>
        /\ queue[i] \notin freed
        /\ doc[queue[i]].parsed /\ server[queue[i]] = "freed"
        /\ \A j \in 1..Slots : queue[j] # Null /\ url[queue[j]] = url[queue[i]] => i = j

\* The list holds the nodes that are not freed, each once, and the client node that a
\* server node points to (proxied) is one of them and waits for it.
ListSound ==
    /\ \A c \in Conns :
        /\ (Client(c) \in ToSet(fd_list)) = (client[c] \notin {"none", "freed"})
        /\ (Server(c) \in ToSet(fd_list)) = (server[c] \notin {"none", "freed"})
        /\ (server[c] \in {"READING", "WRITING"}) = (client[c] = "IDLE")
    /\ IsInjective(fd_list)

\* An entry for which the origin server would answer 304 holds the page as it is now.
\* Such an answer moves the entry's date on, late, and in any order.
HitsAreCurrent ==
    \A i \in 1..Slots : queue[i] # Null =>
        LET d == doc[queue[i]] IN
        d.date >= site.lastmod[url[queue[i]]] => d.version = site.lastmod[url[queue[i]]]

\* A document that a connection points to was released.
Torn(c) == answer[c].kind = "garbage" \/ backup[c] \in freed \/ cache_node[c] \in freed

\* A client that is not sent released memory is sent the page it asked for, in the
\* version the origin server had when it replied to this request; a part of it only if
\* the origin server broke off a reply for this page, to whomever; and a 304 as if it
\* were the page only if the entry had been released before a 304 came.
AnswerIsReply ==
    \A c \in Conns : answer[c].kind \notin {"none", "garbage"} =>
        /\ answer[c].url = url[c] /\ answer[c].version = exchange[c].version
        /\ \/ answer[c].kind = "page"
           \/ /\ answer[c].kind = "cut"
              /\ \E d \in Conns : url[d] = url[c] /\ exchange[d].state = "cut"
           \/ /\ answer[c].kind = "304"
              /\ \E d \in Conns \ {c} : url[d] = url[c] /\ Torn(d)

\* A document in use is released only when more pages were asked for than the cache has
\* slots: the number of connections at a time does not matter.
FewPagesKept ==
    (\E c \in Conns : Torn(c)) => Cardinality({url[c] : c \in Conns} \ {Null}) > Slots

\* Every request is answered or refused, though a traversal ends early whenever a client
\* has been answered, unless the process ended or sends to a client that does not read.
Blocked == \E c \in Stuck : client[c] = "WRITING" /\ user[c] # "gone"
Served ==
    []<>(running # "yes" \/ Blocked \/ \A c \in Conns : user[c] # "asked")
=============================================================================
