---------------------------- MODULE ProxyProofs ----------------------------
(***************************************************************************)
(* Proofs about the proxy, for any number of connections, pages, slots and *)
(* changes: the entries of the document cache, the answer that every       *)
(* client is sent, the list of descriptors, and the pages that it takes    *)
(* for a document in use to be released.                                   *)
(***************************************************************************)
EXTENDS Proxy, ListProofs

\* Documents that are, or once were, in the cache.
Used == {queue[i] : i \in 1..Slots}
Kept == Used \cup freed

Live(c) == server[c] \in {"WRITING", "READING"}

\* The life of a connection: the order in which its nodes, its document and its
\* request to the origin server come and go.
LifeAt(c) ==
    /\ user[c] = "away" => client[c] = "none"
    /\ client[c] = "none" => server[c] = "none" /\ cache_node[c] = Null
    /\ client[c] = "READING" => server[c] = "none" /\ cache_node[c] = c
    /\ client[c] = "WRITING" => server[c] = "freed"
    /\ Live(c) => client[c] = "IDLE" /\ cache_node[c] = c
    /\ user[c] \in {"asked", "gone"} \/ Live(c) \/ server[c] = "freed" => url[c] \in Urls
    /\ client[c] # "freed" => answer[c].kind = "none"
    /\ server[c] = "none" => backup[c] = Null
    /\ server[c] = "freed" => backup[c] = Null
    /\ server[c] # "freed" => c \notin Kept
    /\ server[c] \in {"none", "WRITING"} => exchange[c].state = "none" /\ ~ doc[c].parsed
    /\ server[c] = "READING" => exchange[c].state # "none"
    /\ server[c] = "freed" => exchange[c].state \notin {"none", "asked"} /\ doc[c].parsed
LifeInv == \A c \in Conns : LifeAt(c)

\* The entries of the cache.
QueueInv == \A i \in 1..Slots : queue[i] # Null =>
    /\ queue[i] \notin freed
    /\ server[queue[i]] = "freed"
    /\ \A j \in 1..Slots : queue[j] # Null /\ url[queue[j]] = url[queue[i]] => i = j

\* The entry a conditional GET is for.
BackupAt(c) == backup[c] # Null =>
    /\ server[backup[c]] = "freed" /\ backup[c] \in Kept
    /\ url[backup[c]] = url[c]
BackupInv == \A c \in Conns : BackupAt(c)

\* No page changed later than now.
SiteInv == \A u \in Urls : site.lastmod[u] <= site.now

\* The documents: version and Date.
Current(u, date, version) ==
    /\ date <= site.now
    /\ date >= site.lastmod[u] => version = site.lastmod[u]

DocAt(d) == doc[d].parsed =>
    /\ exchange[d].state \in {"replied", "ended", "cut", "reset"}
    /\ Current(url[d], doc[d].date, doc[d].version)
    /\ doc[d].version = exchange[d].version
    /\ doc[d].kind \in {"page", "cut", "304"}
    /\ doc[d].kind = "cut" => exchange[d].state = "cut"
    /\ Live(d) => doc[d].kind = "page"
DocInv == \A d \in Conns : DocAt(d)

\* Requests and replies.  A 304 confirms the version of the entry it is about.
ExchangeAt(c) ==
    /\ exchange[c].state = "asked" =>
        /\ server[c] = "READING" /\ ~ doc[c].parsed
        /\ backup[c] = Null => exchange[c].since = -1
        /\ backup[c] # Null =>
                Current(url[c], exchange[c].since, doc[backup[c]].version)
    /\ exchange[c].state \in {"replied", "ended", "cut"} =>
        /\ exchange[c].kind \in {"page", "304"}
        /\ Current(url[c], exchange[c].date, exchange[c].version)
        /\ Live(c) /\ exchange[c].kind = "304" =>
            /\ backup[c] # Null
            /\ exchange[c].version = doc[backup[c]].version
ExchangeInv == \A c \in Conns : ExchangeAt(c)

\* A 304 kept as a document: the entry it confirmed had been released.
TornAt(d) == d \in Kept /\ doc[d].kind = "304" => Torn(d)
Torn304 == \A d \in Conns : TornAt(d)

\* What a client is about to be sent, and what it was sent.
PointAt(c) == client[c] = "WRITING" =>
    /\ cache_node[c] \in Conns /\ server[cache_node[c]] = "freed"
    /\ url[cache_node[c]] = url[c] /\ doc[cache_node[c]].version = exchange[c].version
    /\ cache_node[c] # c => cache_node[c] \in Kept
    /\ cache_node[c] = c => doc[c].kind # "304"
PointInv == \A c \in Conns : PointAt(c)

AnswerAt(c) == answer[c].kind \notin {"none", "garbage"} =>
    /\ client[c] = "freed" /\ server[c] = "freed"
    /\ answer[c].url = url[c] /\ answer[c].version = exchange[c].version
    /\ \/ answer[c].kind = "page"
       \/ answer[c].kind = "cut"
          /\ \E d \in Conns : url[d] = url[c] /\ exchange[d].state = "cut"
       \/ answer[c].kind = "304"
          /\ \E d \in Conns \ {c} : url[d] = url[c] /\ server[d] = "freed" /\ Torn(d)
AnswerInv == \A c \in Conns : AnswerAt(c)

IInv == DataOK /\ LifeInv /\ QueueInv /\ BackupInv /\ SiteInv /\ DocInv
        /\ ExchangeInv /\ Torn304 /\ PointInv /\ AnswerInv

-----------------------------------------------------------------------------
(* Facts about the data *)

\* Null is no connection.
LEMMA NullFact == Null \notin Conns
  BY DEF Null, Conns

\* The fields of the records, and the values they have.
LEMMA Fields ==
    ASSUME DataOK
    PROVE  /\ \A d \in Conns :
                /\ doc[d].parsed \in BOOLEAN
                /\ doc[d].kind \in {"request", "page", "cut", "304"}
                /\ doc[d].version \in Versions /\ doc[d].date \in Versions
                /\ exchange[d].since \in {-1} \cup Versions
                /\ exchange[d].version \in Versions /\ exchange[d].date \in Versions
                /\ exchange[d].kind \in {"none", "page", "304"}
                /\ exchange[d].state \in {"none", "asked", "replied", "ended", "cut",
                                          "mute", "reset"}
           /\ site.now \in Versions /\ \A u \in Urls : site.lastmod[u] \in Versions
<1>1. \A d \in Conns : doc[d] \in Documents /\ exchange[d] \in Exchanges
  BY DEF DataOK
<1>2. site \in [lastmod : [Urls -> Versions], now : Versions]
  BY DEF DataOK
<1> QED
  BY <1>1, <1>2 DEF Documents, Exchanges

\* Versions are integers from 0 on; -1, no date, is below all of them.
LEMMA VersionsFact == Versions \subseteq Int /\ 0 \in Versions /\ \A v \in Versions : v > -1
  BY ProxyAssumption DEF Versions

\* is_cache_hit returns an entry for the page, if there is one.
LEMMA HitFact ==
    ASSUME DataOK, QueueInv, NEW u
    PROVE  \/ /\ is_cache_hit(u) = Null
              /\ \A i \in 1..Slots : queue[i] # Null => url[queue[i]] # u
           \/ /\ is_cache_hit(u) \in Conns /\ url[is_cache_hit(u)] = u
              /\ \E i \in 1..Slots : queue[i] = is_cache_hit(u)
<1>1. CASE Hits(u) = {}
  BY <1>1 DEF is_cache_hit, Hits
<1>2. CASE Hits(u) # {}
  <2>1. PICK i \in 1..Slots : queue[i] # Null /\ url[queue[i]] = u
    BY <1>2 DEF Hits
  <2>2. Hits(u) = {i}
    BY <2>1 DEF Hits, QueueInv
  <2>3. Min(Hits(u)) = i
    BY <2>1, <2>2 DEF Min
  <2>4. is_cache_hit(u) = queue[i]
    BY <1>2, <2>3 DEF is_cache_hit
  <2> QED
    BY <2>1, <2>4 DEF DataOK, Docs
<1> QED
  BY <1>1, <1>2

\* What server_read_handler does to the cache.
LEMMA EnqueueFact ==
    ASSUME DataOK, LifeInv, QueueInv, NEW c \in Conns, Live(c),
           IF is_cache_hit(url[c]) = Null THEN cache_enqueue(c) ELSE UNCHANGED <<queue, freed>>
    PROVE  /\ queue' \in [1..Slots -> Docs] /\ freed' \subseteq Conns
           /\ freed \subseteq freed' /\ c \notin freed'
           /\ \A i \in 1..Slots : queue'[i] # Null =>
                queue'[i] \notin freed' /\ (queue'[i] = c \/ queue'[i] \in Used)
           /\ \A i, j \in 1..Slots : queue'[i] # Null /\ queue'[j] # Null
                /\ url[queue'[i]] = url[queue'[j]] => i = j
           /\ \A d \in Conns \ {c} : d \in Kept' <=> d \in Kept
           /\ c \in Kept' => \A d \in Conns : d \in Used => url[d] # url[c]
<1>1. c \notin freed /\ \A i \in 1..Slots : queue[i] # c
  BY DEF LifeInv, LifeAt, Live, Kept, Used
<1>2. CASE UNCHANGED <<queue, freed>>
  BY <1>1, <1>2 DEF DataOK, QueueInv, Used, Kept
<1>3. ASSUME is_cache_hit(url[c]) = Null, cache_enqueue(c)
      PROVE  /\ queue' \in [1..Slots -> Docs] /\ freed' \subseteq Conns
             /\ freed \subseteq freed' /\ c \notin freed'
             /\ \A i \in 1..Slots : queue'[i] # Null =>
                queue'[i] \notin freed' /\ (queue'[i] = c \/ queue'[i] \in Used)
             /\ \A i, j \in 1..Slots : queue'[i] # Null /\ queue'[j] # Null
                /\ url[queue'[i]] = url[queue'[j]] => i = j
             /\ \A d \in Conns \ {c} : d \in Kept' <=> d \in Kept
             /\ \A d \in Conns : d \in Used => url[d] # url[c]
  <2>1. \A i \in 1..Slots : queue[i] # Null => url[queue[i]] # url[c]
    BY <1>3, HitFact, NullFact
  <2>2. Slots \in Nat /\ Slots > 1 /\ queue \in [1..Slots -> Docs] /\ freed \subseteq Conns
    BY ProxyAssumption DEF DataOK
  <2>3. /\ queue'[1] = c
        /\ \A i \in 2..Slots : i - 1 \in 1..Slots /\ queue'[i] = queue[i - 1]
        /\ DOMAIN queue' = 1..Slots
        /\ freed' = freed \cup ({queue[Slots]} \ {Null})
    BY <1>3, <2>2 DEF cache_enqueue
  <2>4. \A i \in 1..Slots : i = 1 \/ i \in 2..Slots
    BY <2>2
  <2>5. \A i \in 2..Slots : queue[i - 1] # Null => queue[i - 1] \notin freed'
    BY <2>2, <2>3 DEF QueueInv
  <2>6. queue' \in [1..Slots -> Docs] /\ freed' \subseteq Conns
    BY <1>3, <2>2, <2>3, <2>4 DEF Docs, cache_enqueue
  <2>7. c \notin freed' /\ freed \subseteq freed'
    BY <1>1, <2>2, <2>3
  <2>8. \A i \in 1..Slots : queue'[i] # Null =>
            queue'[i] \notin freed' /\ (queue'[i] = c \/ queue'[i] \in Used)
    BY <2>3, <2>4, <2>5, <2>7 DEF Used
  <2>9. \A i, j \in 1..Slots : queue'[i] # Null /\ queue'[j] # Null
            /\ url[queue'[i]] = url[queue'[j]] => i = j
    BY <2>1, <2>2, <2>3, <2>4 DEF QueueInv
  <2>10. ASSUME NEW d \in Conns \ {c} PROVE d \in Kept' <=> d \in Kept
    <3>1. ASSUME d \in Kept' PROVE d \in Kept
      BY <3>1, <2>2, <2>3, <2>4, <2>8 DEF Kept, Used
    <3>2. ASSUME d \in Kept PROVE d \in Kept'
      <4>1. CASE d \in freed
        BY <4>1, <2>3 DEF Kept
      <4>2. ASSUME NEW i \in 1..Slots, queue[i] = d PROVE d \in Kept'
        <5>1. CASE i = Slots
          BY <5>1, <4>2, <2>3, NullFact DEF Kept
        <5>2. CASE i # Slots
          <6>1. i + 1 \in 2..Slots /\ i + 1 \in 1..Slots /\ queue'[i + 1] = d
            BY <5>2, <4>2, <2>2, <2>3
          <6> QED
            BY <6>1 DEF Kept, Used
        <5> QED
          BY <5>1, <5>2
      <4> QED
        BY <3>2, <4>1, <4>2 DEF Kept, Used
    <3> QED
      BY <3>1, <3>2
  <2>11. \A d \in Conns : d \in Used => url[d] # url[c]
    BY <2>1, NullFact DEF Used
  <2> QED
    BY <2>6, <2>7, <2>8, <2>9, <2>10, <2>11
<1> QED
  BY <1>2, <1>3

\* Once the server node is freed, its document is as good as any of the entries.
LEMMA EnqueueQueue ==
    ASSUME LifeInv, QueueInv, NEW c \in Conns, UNCHANGED url, server'[c] = "freed",
           \A d \in Conns \ {c} : server'[d] = server[d],
           queue' \in [1..Slots -> Docs],
           \A i \in 1..Slots : queue'[i] # Null =>
                queue'[i] \notin freed' /\ (queue'[i] = c \/ queue'[i] \in Used),
           \A i, j \in 1..Slots : queue'[i] # Null /\ queue'[j] # Null
                /\ url[queue'[i]] = url[queue'[j]] => i = j
    PROVE  QueueInv'
<1>1. ASSUME NEW i \in 1..Slots, queue'[i] # Null
      PROVE  /\ queue'[i] \notin freed'
             /\ server'[queue'[i]] = "freed"
             /\ \A j \in 1..Slots : queue'[j] # Null /\ url'[queue'[j]] = url'[queue'[i]]
                                   => i = j
  <2>1. queue'[i] \in Conns
    BY <1>1 DEF Docs
  <2>2. ASSUME queue'[i] = c PROVE server'[queue'[i]] = "freed"
    BY <2>2
  <2>3. ASSUME queue'[i] # c PROVE server'[queue'[i]] = "freed"
    <3>1. queue'[i] \in Used
      BY <1>1, <2>3
    <3>2. PICK k \in 1..Slots : queue[k] = queue'[i]
      BY <3>1 DEF Used
    <3>3. server[queue'[i]] = "freed"
      BY <3>2, <1>1 DEF QueueInv
    <3> QED
      BY <3>3, <2>1, <2>3
  <2>4. server'[queue'[i]] = "freed"
    BY <2>2, <2>3
  <2>5. queue'[i] \notin freed'
    BY <1>1
  <2>6. ASSUME NEW j \in 1..Slots, queue'[j] # Null, url'[queue'[j]] = url'[queue'[i]]
        PROVE  i = j
    BY <1>1, <2>6
  <2> QED
    BY <2>4, <2>5, <2>6
<1> QED
  BY <1>1 DEF QueueInv

\* listen_fd_handler gives a new connection a document that no one else knows.
LEMMA AcceptStep == ASSUME IInv, NEW c \in Conns, Accept(c) PROVE IInv'
<1>1. DataOK /\ LifeInv /\ QueueInv /\ BackupInv /\ SiteInv
     /\ DocInv /\ ExchangeInv /\ Torn304 /\ PointInv /\ AnswerInv
  BY DEF IInv
<1>2. UNCHANGED <<server, backup, doc, queue, freed, user, url, answer, site, exchange>>
     /\ Kept' = Kept
  BY DEF Accept, Backlog, nodes, cache, users, Kept, Used
<1>3. client[c] = "none" /\ user[c] # "away"
     /\ client' = [client EXCEPT ![c] = "READING"] /\ cache_node' = [cache_node EXCEPT ![c] = c]
  BY DEF Accept, Backlog
<1>4. DataOK'
  BY <1>1, <1>2, <1>3, NullFact, ProxyAssumption DEF DataOK, Docs
<1>5. LifeInv'
  BY <1>1, <1>2, <1>3, NullFact DEF LifeInv, LifeAt, DataOK, Live
<1>6. QueueInv'
  BY <1>1, <1>2 DEF QueueInv
<1>7. BackupInv'
  BY <1>1, <1>2 DEF BackupInv, BackupAt
<1>8. SiteInv'
  BY <1>1, <1>2 DEF SiteInv
<1>9. DocInv'
  BY <1>1, <1>2 DEF DocInv, DocAt, Current, Live
<1>10. ExchangeInv'
  BY <1>1, <1>2 DEF ExchangeInv, ExchangeAt, Current, Live
<1>11. Torn304'
  BY <1>1, <1>2, <1>3 DEF Torn304, TornAt, LifeInv, LifeAt, Live, Torn
<1>12. PointInv'
  BY <1>1, <1>2, <1>3 DEF PointInv, PointAt, Live
<1>13. AnswerInv'
  BY <1>1, <1>2, <1>3 DEF AnswerInv, AnswerAt, LifeInv, LifeAt, Torn, Live
<1> QED
  BY <1>4, <1>5, <1>6, <1>7, <1>8, <1>9, <1>10, <1>11, <1>12, <1>13 DEF IInv

\* client_read_handler gives up a connection whose document is nowhere else.
LEMMA ReadRefuseStep == ASSUME IInv, NEW c \in Conns, ReadRefuse(c) PROVE IInv'
<1>1. DataOK /\ LifeInv /\ QueueInv /\ BackupInv /\ SiteInv
     /\ DocInv /\ ExchangeInv /\ Torn304 /\ PointInv /\ AnswerInv
  BY DEF IInv
<1>2. UNCHANGED <<server, backup, doc, queue, freed, url, answer, site, exchange>>
     /\ Kept' = Kept
  BY DEF ReadRefuse, Reading, nodes, cache, users, Kept, Used
<1>3. client[c] = "READING"
     /\ client' = [client EXCEPT ![c] = "freed"]
     /\ cache_node' = [cache_node EXCEPT ![c] = Null]
     /\ user' = [user EXCEPT ![c] = "refused"]
  BY DEF ReadRefuse, Reading
<1>4. DataOK'
  BY <1>1, <1>2, <1>3, NullFact, ProxyAssumption DEF DataOK, Docs
<1>5. LifeInv'
  BY <1>1, <1>2, <1>3, NullFact DEF LifeInv, LifeAt, DataOK, Live
<1>6. QueueInv'
  BY <1>1, <1>2 DEF QueueInv
<1>7. BackupInv'
  BY <1>1, <1>2 DEF BackupInv, BackupAt
<1>8. SiteInv'
  BY <1>1, <1>2 DEF SiteInv
<1>9. DocInv'
  BY <1>1, <1>2 DEF DocInv, DocAt, Current, Live
<1>10. ExchangeInv'
  BY <1>1, <1>2 DEF ExchangeInv, ExchangeAt, Current, Live
<1>11. Torn304'
  BY <1>1, <1>2, <1>3 DEF Torn304, TornAt, LifeInv, LifeAt, Live, Torn
<1>12. PointInv'
  BY <1>1, <1>2, <1>3 DEF PointInv, PointAt, Live
<1>13. AnswerInv'
  BY <1>1, <1>2, <1>3 DEF AnswerInv, AnswerAt, LifeInv, LifeAt, Torn, Live
<1> QED
  BY <1>4, <1>5, <1>6, <1>7, <1>8, <1>9, <1>10, <1>11, <1>12, <1>13 DEF IInv

\* client_read_handler points a new server node to an entry for the same page.
LEMMA ReadRequestStep == ASSUME IInv, NEW c \in Conns, ReadRequest(c) PROVE IInv'
<1>1. DataOK /\ LifeInv /\ QueueInv /\ BackupInv /\ SiteInv
     /\ DocInv /\ ExchangeInv /\ Torn304 /\ PointInv /\ AnswerInv
  BY DEF IInv
<1>2. UNCHANGED <<cache_node, doc, queue, freed, user, url, answer, site, exchange>>
     /\ Kept' = Kept
  BY DEF ReadRequest, Reading, Requested, nodes, cache, users, Kept, Used
<1>3. client[c] = "READING" /\ user[c] \in {"asked", "gone"}
     /\ client' = [client EXCEPT ![c] = "IDLE"] /\ server' = [server EXCEPT ![c] = "WRITING"]
     /\ backup' = [backup EXCEPT ![c] = is_cache_hit(url[c])]
  BY DEF ReadRequest, Reading, Requested
<1>4. client'[c] = "IDLE" /\ server'[c] = "WRITING" /\ backup'[c] = is_cache_hit(url[c])
     /\ \A d \in Conns \ {c} : client'[d] = client[d] /\ server'[d] = server[d]
        /\ backup'[d] = backup[d]
  BY <1>1, <1>3 DEF DataOK
<1>5. \/ backup'[c] = Null
     \/ /\ backup'[c] \in Conns /\ url[backup'[c]] = url[c] /\ backup'[c] # c
        /\ server[backup'[c]] = "freed" /\ backup'[c] \in Kept
  BY <1>1, <1>3, <1>4, HitFact, NullFact DEF QueueInv, LifeInv, LifeAt, Kept, Used
<1>6. DOMAIN backup' = Conns /\ backup' \in [Conns -> Docs]
  BY <1>1, <1>3, <1>4, <1>5 DEF DataOK, Docs
<1>7. DataOK'
  BY <1>1, <1>2, <1>3, <1>4, <1>5, <1>6 DEF DataOK
<1>8. LifeInv'
  <2>1. ASSUME NEW d \in Conns \ {c} PROVE LifeAt(d)'
    BY <1>1, <1>2, <1>4, <1>5, <1>6, <2>1 DEF LifeInv, LifeAt, Live
  <2>2. LifeAt(c)'
    BY <1>1, <1>2, <1>3, <1>4, <1>5, <1>6 DEF LifeInv, LifeAt, Live
  <2> QED
    BY <2>1, <2>2 DEF LifeInv
<1>9. QueueInv'
  BY <1>1, <1>2, <1>3, <1>4, <1>5, <1>6 DEF QueueInv, LifeInv, LifeAt
<1>10. BackupInv'
  <2>1. ASSUME NEW d \in Conns \ {c} PROVE BackupAt(d)'
    BY <1>1, <1>2, <1>3, <1>4, <1>5, <1>6, <2>1 DEF BackupInv, BackupAt, LifeInv, LifeAt, Live
  <2>2. BackupAt(c)'
    BY <1>1, <1>2, <1>4, <1>5, <1>6 DEF BackupInv, BackupAt, Live
  <2> QED
    BY <2>1, <2>2 DEF BackupInv
<1>11. SiteInv'
  BY <1>1, <1>2 DEF SiteInv
<1>12. DocInv'
  <2>1. ASSUME NEW d \in Conns \ {c} PROVE DocAt(d)'
    BY <1>1, <1>2, <1>4, <1>5, <1>6, <2>1 DEF DocInv, DocAt, Current, Live
  <2>2. DocAt(c)'
    BY <1>1, <1>2, <1>3, <1>4, <1>5, <1>6 DEF DocInv, DocAt, LifeInv, LifeAt, Current, Live
  <2> QED
    BY <2>1, <2>2 DEF DocInv
<1>13. ExchangeInv'
  <2>1. ASSUME NEW d \in Conns \ {c} PROVE ExchangeAt(d)'
    BY <1>1, <1>2, <1>4, <1>5, <1>6, <2>1 DEF ExchangeInv, ExchangeAt, Current, Live
  <2>2. ExchangeAt(c)'
    BY <1>1, <1>2, <1>3, <1>4, <1>5, <1>6
       DEF ExchangeInv, ExchangeAt, LifeInv, LifeAt, Current, Live
  <2> QED
    BY <2>1, <2>2 DEF ExchangeInv
<1>14. Torn304'
  <2>1. ASSUME NEW d \in Conns \ {c} PROVE TornAt(d)'
    BY <1>1, <1>2, <1>4, <1>5, <1>6, <2>1 DEF Torn304, TornAt, Live, Torn
  <2>2. TornAt(c)'
    BY <1>1, <1>2, <1>3, <1>4, <1>5, <1>6 DEF Torn304, TornAt, LifeInv, LifeAt, Live, Torn
  <2> QED
    BY <2>1, <2>2 DEF Torn304
<1>15. PointInv'
  <2>1. ASSUME NEW d \in Conns \ {c} PROVE PointAt(d)'
    BY <1>1, <1>2, <1>3, <1>4, <1>5, <1>6, <2>1 DEF PointInv, PointAt, LifeInv, LifeAt, Live
  <2>2. PointAt(c)'
    BY <1>4, <1>5, <1>6 DEF PointInv, PointAt, Live
  <2> QED
    BY <2>1, <2>2 DEF PointInv
<1>16. AnswerInv'
  <2>1. ASSUME NEW d \in Conns \ {c} PROVE AnswerAt(d)'
    BY <1>1, <1>2, <1>3, <1>4, <1>5, <1>6, <2>1
       DEF AnswerInv, AnswerAt, LifeInv, LifeAt, Torn, Live
  <2>2. AnswerAt(c)'
    BY <1>1, <1>2, <1>3, <1>4, <1>5, <1>6 DEF AnswerInv, AnswerAt, Torn, Live
  <2> QED
    BY <2>1, <2>2 DEF AnswerInv
<1> QED
  BY <1>7, <1>8, <1>9, <1>10, <1>11, <1>12, <1>13, <1>14, <1>15, <1>16 DEF IInv

\* server_write_handler sends a date not ahead of the entry's content.
LEMMA WriteRequestStep == ASSUME IInv, NEW c \in Conns, WriteRequest(c) PROVE IInv'
<1>1. DataOK /\ LifeInv /\ QueueInv /\ BackupInv /\ SiteInv
     /\ DocInv /\ ExchangeInv /\ Torn304 /\ PointInv /\ AnswerInv
  BY DEF IInv
<1>2. UNCHANGED <<client, cache_node, backup, doc, queue, freed, user, url, answer, site>>
     /\ Kept' = Kept
  BY DEF WriteRequest, nodes, cache, users, Kept, Used
<1>3. PICK t \in {-1} \cup Versions :
        /\ server[c] = "WRITING" /\ server' = [server EXCEPT ![c] = "READING"]
        /\ t = IF backup[c] = Null THEN -1 ELSE doc[backup[c]].date
        /\ exchange' = [exchange EXCEPT ![c] =
                [exchange[c] EXCEPT !.state = "asked", !.since = t]]
  <2>1. (IF backup[c] = Null THEN -1 ELSE doc[backup[c]].date) \in {-1} \cup Versions
    BY <1>1, Fields DEF DataOK, Docs
  <2> QED
    BY <2>1 DEF WriteRequest
<1>4. t \in {-1} \cup Versions
  BY <1>3
<1>5. exchange[c] \in Exchanges
     /\ exchange'[c] = [exchange[c] EXCEPT !.state = "asked", !.since = t]
     /\ \A d \in Conns \ {c} : exchange'[d] = exchange[d]
  BY <1>1, <1>3 DEF DataOK
<1>6. /\ exchange'[c].state = "asked" /\ exchange'[c].since = t
     /\ exchange'[c].version = exchange[c].version /\ exchange'[c].date = exchange[c].date
     /\ exchange'[c].kind = exchange[c].kind
  BY <1>5 DEF Exchanges
<1>7. exchange'[c] \in Exchanges
  BY <1>4, <1>5 DEF Exchanges
<1>8. exchange' \in [Conns -> Exchanges]
  BY <1>1, <1>3, <1>7 DEF DataOK
<1>9. server'[c] = "READING" /\ \A d \in Conns \ {c} : server'[d] = server[d]
  BY <1>1, <1>3 DEF DataOK
<1>10. t = IF backup[c] = Null THEN -1 ELSE doc[backup[c]].date
  BY <1>3
<1>11. DataOK'
  BY <1>1, <1>2, <1>3, <1>4, <1>5, <1>6, <1>7, <1>8, <1>9, <1>10 DEF DataOK
<1>12. LifeInv'
  <2>1. ASSUME NEW d \in Conns \ {c} PROVE LifeAt(d)'
    BY <1>1, <1>2, <1>4, <1>5, <1>6, <1>7, <1>8, <1>9, <1>10, <2>1 DEF LifeInv, LifeAt, Live
  <2>2. LifeAt(c)'
    BY <1>1, <1>2, <1>3, <1>4, <1>5, <1>6, <1>7, <1>8, <1>9, <1>10 DEF LifeInv, LifeAt, Live
  <2> QED
    BY <2>1, <2>2 DEF LifeInv
<1>13. QueueInv'
  BY <1>1, <1>2, <1>3, <1>4, <1>5, <1>6, <1>7, <1>8, <1>9, <1>10 DEF QueueInv
<1>14. BackupInv'
  <2>1. ASSUME NEW d \in Conns \ {c} PROVE BackupAt(d)'
    BY <1>1, <1>2, <1>3, <1>4, <1>5, <1>6, <1>7, <1>8, <1>9, <1>10, <2>1
       DEF BackupInv, BackupAt, Live
  <2>2. BackupAt(c)'
    BY <1>1, <1>2, <1>3, <1>4, <1>5, <1>6, <1>7, <1>8, <1>9, <1>10 DEF BackupInv, BackupAt, Live
  <2> QED
    BY <2>1, <2>2 DEF BackupInv
<1>15. SiteInv'
  BY <1>1, <1>2 DEF SiteInv
<1>16. DocInv'
  <2>1. ASSUME NEW d \in Conns \ {c} PROVE DocAt(d)'
    BY <1>1, <1>2, <1>4, <1>5, <1>6, <1>7, <1>8, <1>9, <1>10, <2>1
       DEF DocInv, DocAt, Current, Live
  <2>2. DocAt(c)'
    BY <1>1, <1>2, <1>3, <1>4, <1>5, <1>6, <1>7, <1>8, <1>9, <1>10
       DEF DocInv, DocAt, LifeInv, LifeAt, Current, Live
  <2> QED
    BY <2>1, <2>2 DEF DocInv
<1>17. ExchangeInv'
  <2>1. ASSUME NEW d \in Conns \ {c} PROVE ExchangeAt(d)'
    BY <1>1, <1>2, <1>5, <1>9, <2>1, <2>1 DEF ExchangeInv, ExchangeAt, Current, Live
  <2>2. ExchangeAt(c)'
    <3>1. CASE backup[c] = Null
      BY <3>1, <1>1, <1>2, <1>3, <1>6, <1>9, <1>10 DEF LifeInv, LifeAt, ExchangeAt
    <3>2. CASE backup[c] # Null
      <4>1. backup[c] \in Conns /\ server[backup[c]] = "freed" /\ url[backup[c]] = url[c]
        BY <3>2, <1>1 DEF BackupInv, BackupAt, DataOK, Docs
      <4>2. Current(url[c], t, doc[backup[c]].version)
        BY <3>2, <4>1, <1>1, <1>10 DEF DocInv, DocAt, LifeInv, LifeAt
      <4> QED
        BY <3>2, <4>2, <1>1, <1>2, <1>3, <1>6, <1>9 DEF LifeInv, LifeAt, ExchangeAt, Current
    <3> QED
      BY <3>1, <3>2
  <2> QED
    BY <2>1, <2>2 DEF ExchangeInv
<1>18. Torn304'
  BY <1>1, <1>2 DEF Torn304, TornAt, Torn
<1>19. PointInv'
  <2>1. ASSUME NEW d \in Conns \ {c} PROVE PointAt(d)'
    BY <1>1, <1>2, <1>3, <1>4, <1>5, <1>6, <1>7, <1>8, <1>9, <1>10, <2>1
       DEF PointInv, PointAt, Live
  <2>2. PointAt(c)'
    BY <1>1, <1>2, <1>3, <1>4, <1>5, <1>6, <1>7, <1>8, <1>9, <1>10 DEF PointInv, PointAt, Live
  <2> QED
    BY <2>1, <2>2 DEF PointInv
<1>20. AnswerInv'
  <2>1. ASSUME NEW d \in Conns \ {c} PROVE AnswerAt(d)'
    BY <1>1, <1>2, <1>3, <1>4, <1>5, <1>6, <1>7, <1>8, <1>9, <1>10, <2>1
       DEF AnswerInv, AnswerAt, LifeInv, LifeAt, Torn, Live
  <2>2. AnswerAt(c)'
    BY <1>1, <1>2, <1>3, <1>4, <1>5, <1>6, <1>7, <1>8, <1>9, <1>10
       DEF AnswerInv, AnswerAt, Torn, Live
  <2> QED
    BY <2>1, <2>2 DEF AnswerInv
<1> QED
  BY <1>11, <1>12, <1>13, <1>14, <1>15, <1>16, <1>17, <1>18, <1>19, <1>20 DEF IInv

\* cache_recv takes over version and date of a reply that is not a 304.
LEMMA ReadHeaderStep == ASSUME IInv, NEW c \in Conns, ReadHeader(c) PROVE IInv'
<1>1. DataOK /\ LifeInv /\ QueueInv /\ BackupInv /\ SiteInv
     /\ DocInv /\ ExchangeInv /\ Torn304 /\ PointInv /\ AnswerInv
  BY DEF IInv
<1>2. UNCHANGED <<client, server, cache_node, backup, queue, freed, user, url, answer, site, exchange>>
     /\ Kept' = Kept
  BY DEF ReadHeader, ReadingReply, Parsed, nodes, cache, users, Kept, Used
<1>3. server[c] = "READING" /\ ~ doc[c].parsed
     /\ exchange[c].state \in {"replied", "ended", "cut"}
     /\ (backup[c] = Null \/ exchange[c].kind # "304")
     /\ doc' = [doc EXCEPT ![c] = [parsed |-> TRUE, kind |-> exchange[c].kind,
                version |-> exchange[c].version, date |-> exchange[c].date]]
  BY DEF ReadHeader, ReadingReply, Parsed
<1>4. /\ doc'[c].parsed /\ doc'[c].kind = exchange[c].kind
     /\ doc'[c].version = exchange[c].version /\ doc'[c].date = exchange[c].date
     /\ \A d \in Conns \ {c} : doc'[d] = doc[d]
  BY <1>1, <1>3 DEF DataOK
<1>5. exchange[c].kind \in {"page", "304"}
  BY <1>1, <1>3 DEF ExchangeInv, ExchangeAt
<1>6. doc' \in [Conns -> Documents]
  BY <1>1, <1>3, <1>5, Fields DEF DataOK, Documents
<1>7. DataOK'
  BY <1>1, <1>2, <1>4, <1>5, <1>6 DEF DataOK
<1>8. LifeInv'
  <2>1. ASSUME NEW d \in Conns \ {c} PROVE LifeAt(d)'
    BY <1>1, <1>2, <1>4, <1>5, <1>6, <2>1 DEF LifeInv, LifeAt, Live
  <2>2. LifeAt(c)'
    BY <1>1, <1>2, <1>3, <1>4, <1>5, <1>6 DEF LifeInv, LifeAt, Live
  <2> QED
    BY <2>1, <2>2 DEF LifeInv
<1>9. QueueInv'
  BY <1>1, <1>2 DEF QueueInv
<1>10. BackupInv'
  BY <1>1, <1>2 DEF BackupInv, BackupAt
<1>11. SiteInv'
  BY <1>1, <1>2 DEF SiteInv
<1>12. DocInv'
  <2>1. ASSUME NEW d \in Conns \ {c} PROVE DocAt(d)'
    BY <1>1, <1>2, <1>4, <1>5, <1>6, <2>1 DEF DocInv, DocAt, Current, Live
  <2>2. DocAt(c)'
    BY <1>1, <1>2, <1>3, <1>4, <1>5, <1>6, NullFact, Fields, VersionsFact
       DEF DocInv, DocAt, ExchangeInv, ExchangeAt, LifeInv, LifeAt, Current, Live
  <2> QED
    BY <2>1, <2>2 DEF DocInv
<1>13. ExchangeInv'
  <2>1. ASSUME NEW d \in Conns \ {c} PROVE ExchangeAt(d)'
    BY <1>1, <1>2, <1>3, <1>4, <1>5, <1>6, <2>1
       DEF ExchangeInv, ExchangeAt, DocInv, DocAt, BackupInv, BackupAt, LifeInv, LifeAt,
          Current, Live
  <2>2. ExchangeAt(c)'
    BY <1>1, <1>2, <1>3, <1>4, <1>5, <1>6 DEF ExchangeInv, ExchangeAt, Current, Live
  <2> QED
    BY <2>1, <2>2 DEF ExchangeInv
<1>14. Torn304'
  <2>1. ASSUME NEW d \in Conns \ {c} PROVE TornAt(d)'
    BY <1>1, <1>2, <1>4, <1>5, <1>6, <2>1 DEF Torn304, TornAt, Live, Torn
  <2>2. TornAt(c)'
    BY <1>1, <1>2, <1>3, <1>4, <1>5, <1>6 DEF Torn304, TornAt, LifeInv, LifeAt, Live, Torn
  <2> QED
    BY <2>1, <2>2 DEF Torn304
<1>15. PointInv'
  <2>1. ASSUME NEW d \in Conns \ {c} PROVE PointAt(d)'
    BY <1>1, <1>2, <1>3, <1>4, <1>5, <1>6, <2>1 DEF PointInv, PointAt, Live
  <2>2. PointAt(c)'
    BY <1>1, <1>2, <1>3, <1>4, <1>5, <1>6 DEF PointInv, PointAt, Live
  <2> QED
    BY <2>1, <2>2 DEF PointInv
<1>16. AnswerInv'
  BY <1>1, <1>2 DEF AnswerInv, AnswerAt, Torn
<1> QED
  BY <1>7, <1>8, <1>9, <1>10, <1>11, <1>12, <1>13, <1>14, <1>15, <1>16 DEF IInv

\* A 304 is sent only if the page is the one the entry holds.
LEMMA ReplyStep == ASSUME IInv, NEW c \in Conns, Reply(c) PROVE IInv'
<1>1. DataOK /\ LifeInv /\ QueueInv /\ BackupInv /\ SiteInv
     /\ DocInv /\ ExchangeInv /\ Torn304 /\ PointInv /\ AnswerInv
  BY DEF IInv
<1>2. UNCHANGED <<client, server, cache_node, backup, doc, queue, freed, user, url, answer, site>>
     /\ Kept' = Kept
  BY DEF Reply, nodes, cache, users, Kept, Used
<1>3. exchange[c].state = "asked"
     /\ exchange' = [exchange EXCEPT ![c] =
            [state |-> "replied", since |-> exchange[c].since, version |-> site.lastmod[url[c]],
             kind |-> IF exchange[c].since >= site.lastmod[url[c]] THEN "304" ELSE "page",
             date |-> site.now]]
  BY DEF Reply
<1>4. url[c] \in Urls /\ server[c] = "READING" 
  BY <1>1, <1>3 DEF LifeInv, LifeAt, ExchangeInv, ExchangeAt, Live
<1>5. exchange'[c] = [state |-> "replied", since |-> exchange[c].since,
                    version |-> site.lastmod[url[c]], date |-> site.now,
                    kind |-> IF exchange[c].since >= site.lastmod[url[c]]
                             THEN "304" ELSE "page"]
     /\ \A d \in Conns \ {c} : exchange'[d] = exchange[d]
  BY <1>1, <1>3 DEF DataOK
<1>6. /\ exchange'[c].state = "replied" /\ exchange'[c].version = site.lastmod[url[c]]
     /\ exchange'[c].kind \in {"304", "page"}
     /\ (exchange'[c].kind = "304" => exchange[c].since >= site.lastmod[url[c]])
     /\ exchange'[c].date = site.now /\ exchange'[c] \in Exchanges
  BY <1>1, <1>4, <1>5, Fields DEF Exchanges
<1>7. exchange' \in [Conns -> Exchanges]
  BY <1>1, <1>3, <1>6 DEF DataOK
<1>8. DataOK'
  BY <1>1, <1>2, <1>4, <1>5, <1>6, <1>7 DEF DataOK
<1>9. LifeInv'
  <2>1. ASSUME NEW d \in Conns \ {c} PROVE LifeAt(d)'
    BY <1>1, <1>2, <1>4, <1>5, <1>6, <1>7, <2>1 DEF LifeInv, LifeAt, Live
  <2>2. LifeAt(c)'
    BY <1>1, <1>2, <1>4, <1>5, <1>6, <1>7 DEF LifeInv, LifeAt, Live
  <2> QED
    BY <2>1, <2>2 DEF LifeInv
<1>10. QueueInv'
  BY <1>1, <1>2 DEF QueueInv
<1>11. BackupInv'
  BY <1>1, <1>2 DEF BackupInv, BackupAt
<1>12. SiteInv'
  BY <1>1, <1>2 DEF SiteInv
<1>13. DocInv'
  <2>1. ASSUME NEW d \in Conns \ {c} PROVE DocAt(d)'
    BY <1>1, <1>2, <1>4, <1>5, <1>6, <1>7, <2>1 DEF DocInv, DocAt, Current, Live
  <2>2. DocAt(c)'
    BY <1>1, <1>2, <1>3, <1>4, <1>5, <1>6, <1>7 DEF DocInv, DocAt, Current, Live
  <2> QED
    BY <2>1, <2>2 DEF DocInv
<1>14. ExchangeInv'
  <2>1. ASSUME NEW d \in Conns \ {c} PROVE ExchangeAt(d)'
    BY <1>1, <1>2, <1>4, <1>5, <1>6, <1>7, <2>1 DEF ExchangeInv, ExchangeAt, Current, Live
  <2>2. ExchangeAt(c)'
    <3>1. Current(url[c], exchange[c].date, exchange[c].version)'
      <4>1. site.lastmod[url[c]] <= site.now /\ site.now \in Int
        BY <1>1, <1>4, Fields, ProxyAssumption DEF SiteInv, Versions
      <4> QED
        BY <4>1, <1>2, <1>6 DEF Current
    <3>2. ASSUME exchange'[c].kind = "304"
          PROVE  backup[c] # Null /\ exchange'[c].version = doc[backup[c]].version
      <4>1. exchange[c].since >= site.lastmod[url[c]]
        BY <3>2, <1>6
      <4>2. site.lastmod[url[c]] \in Versions
        BY <1>1, <1>4, Fields
      <4>3. backup[c] # Null
        BY <4>1, <4>2, <1>1, <1>3, ProxyAssumption DEF ExchangeInv, ExchangeAt, Versions
      <4> QED
        BY <4>1, <4>3, <1>1, <1>3, <1>6 DEF ExchangeInv, ExchangeAt, Current
    <3> QED
      BY <3>1, <3>2, <1>2, <1>6 DEF ExchangeAt
  <2> QED
    BY <2>1, <2>2 DEF ExchangeInv
<1>15. Torn304'
  BY <1>1, <1>2 DEF Torn304, TornAt, Torn
<1>16. PointInv'
  <2>1. ASSUME NEW d \in Conns \ {c} PROVE PointAt(d)'
    BY <1>1, <1>2, <1>4, <1>5, <1>6, <1>7, <2>1 DEF PointInv, PointAt, Live
  <2>2. PointAt(c)'
    BY <1>1, <1>2, <1>3, <1>4, <1>5, <1>6, <1>7 DEF PointInv, PointAt, LifeInv, LifeAt, Live
  <2> QED
    BY <2>1, <2>2 DEF PointInv
<1>17. AnswerInv'
  <2>1. ASSUME NEW d \in Conns \ {c} PROVE AnswerAt(d)'
    BY <1>1, <1>2, <1>3, <1>4, <1>5, <1>6, <1>7, <2>1 DEF AnswerInv, AnswerAt, Torn, Live
  <2>2. AnswerAt(c)'
    BY <1>1, <1>2, <1>4, <1>5, <1>6, <1>7 DEF AnswerInv, AnswerAt, Torn, Live
  <2> QED
    BY <2>1, <2>2 DEF AnswerInv
<1> QED
  BY <1>8, <1>9, <1>10, <1>11, <1>12, <1>13, <1>14, <1>15, <1>16, <1>17 DEF IInv

\* The end of a reply changes nothing the cache depends on.
LEMMA EndReplyStep == ASSUME IInv, NEW c \in Conns, EndReply(c) PROVE IInv'
<1>1. DataOK /\ LifeInv /\ QueueInv /\ BackupInv /\ SiteInv
     /\ DocInv /\ ExchangeInv /\ Torn304 /\ PointInv /\ AnswerInv
  BY DEF IInv
<1>2. UNCHANGED <<client, server, cache_node, backup, doc, queue, freed, user, url, answer, site>>
     /\ Kept' = Kept
  BY DEF EndReply, nodes, cache, users, Kept, Used
<1>3. exchange[c].state = "replied"
     /\ exchange' = [exchange EXCEPT ![c] = [exchange[c] EXCEPT !.state = "ended"]]
  BY DEF EndReply
<1>4. exchange[c] \in Exchanges /\ exchange'[c] = [exchange[c] EXCEPT !.state = "ended"]
     /\ \A d \in Conns \ {c} : exchange'[d] = exchange[d]
  BY <1>1, <1>3 DEF DataOK
<1>5. /\ exchange'[c].state = "ended" /\ exchange'[c].since = exchange[c].since
     /\ exchange'[c].version = exchange[c].version /\ exchange'[c].date = exchange[c].date
     /\ exchange'[c].kind = exchange[c].kind
  BY <1>3, <1>4 DEF Exchanges
<1>6. exchange'[c] \in Exchanges
  BY <1>3, <1>4 DEF Exchanges
<1>7. exchange' \in [Conns -> Exchanges]
  BY <1>1, <1>3, <1>6 DEF DataOK
<1>8. DataOK'
  BY <1>1, <1>2, <1>4, <1>5, <1>6, <1>7 DEF DataOK
<1>9. LifeInv'
  <2>1. ASSUME NEW d \in Conns \ {c} PROVE LifeAt(d)'
    BY <1>1, <1>2, <1>4, <1>5, <1>6, <1>7, <2>1 DEF LifeInv, LifeAt, Live
  <2>2. LifeAt(c)'
    BY <1>1, <1>2, <1>3, <1>4, <1>5, <1>6, <1>7 DEF LifeInv, LifeAt, Live
  <2> QED
    BY <2>1, <2>2 DEF LifeInv
<1>10. QueueInv'
  BY <1>1, <1>2 DEF QueueInv
<1>11. BackupInv'
  BY <1>1, <1>2 DEF BackupInv, BackupAt
<1>12. SiteInv'
  BY <1>1, <1>2 DEF SiteInv
<1>13. DocInv'
  <2>1. ASSUME NEW d \in Conns \ {c} PROVE DocAt(d)'
    BY <1>1, <1>2, <1>4, <1>5, <1>6, <1>7, <2>1 DEF DocInv, DocAt, Current, Live
  <2>2. DocAt(c)'
    BY <1>1, <1>2, <1>3, <1>4, <1>5, <1>6, <1>7 DEF DocInv, DocAt, Current, Live
  <2> QED
    BY <2>1, <2>2 DEF DocInv
<1>14. ExchangeInv'
  <2>1. ASSUME NEW d \in Conns \ {c} PROVE ExchangeAt(d)'
    BY <1>1, <1>2, <1>4, <1>5, <1>6, <1>7, <2>1 DEF ExchangeInv, ExchangeAt, Current, Live
  <2>2. ExchangeAt(c)'
    BY <1>1, <1>2, <1>3, <1>4, <1>5, <1>6, <1>7 DEF ExchangeInv, ExchangeAt, Current, Live
  <2> QED
    BY <2>1, <2>2 DEF ExchangeInv
<1>15. Torn304'
  BY <1>1, <1>2 DEF Torn304, TornAt, Torn
<1>16. PointInv'
  <2>1. ASSUME NEW d \in Conns \ {c} PROVE PointAt(d)'
    BY <1>1, <1>2, <1>4, <1>5, <1>6, <1>7, <2>1 DEF PointInv, PointAt, Live
  <2>2. PointAt(c)'
    BY <1>1, <1>2, <1>4, <1>5, <1>6, <1>7 DEF PointInv, PointAt, Live
  <2> QED
    BY <2>1, <2>2 DEF PointInv
<1>17. AnswerInv'
  <2>1. ASSUME NEW d \in Conns \ {c} PROVE AnswerAt(d)'
    BY <1>1, <1>2, <1>3, <1>4, <1>5, <1>6, <1>7, <2>1 DEF AnswerInv, AnswerAt, Torn, Live
  <2>2. AnswerAt(c)'
    BY <1>1, <1>2, <1>3, <1>4, <1>5, <1>6, <1>7 DEF AnswerInv, AnswerAt, Torn, Live
  <2> QED
    BY <2>1, <2>2 DEF AnswerInv
<1> QED
  BY <1>8, <1>9, <1>10, <1>11, <1>12, <1>13, <1>14, <1>15, <1>16, <1>17 DEF IInv

\* A broken reply changes nothing the cache depends on.
LEMMA BreakStep == ASSUME IInv, NEW c \in Conns, Break(c) PROVE IInv'
<1>1. DataOK /\ LifeInv /\ QueueInv /\ BackupInv /\ SiteInv
     /\ DocInv /\ ExchangeInv /\ Torn304 /\ PointInv /\ AnswerInv
  BY DEF IInv
<1>2. UNCHANGED <<client, server, cache_node, backup, doc, queue, freed, user, url, answer, site>>
     /\ Kept' = Kept
  BY DEF Break, nodes, cache, users, Kept, Used
<1>3. PICK s \in {"cut", "mute", "reset"} :
        /\ exchange' = [exchange EXCEPT ![c] = [exchange[c] EXCEPT !.state = s]]
        /\ \/ exchange[c].state = "asked" /\ s # "cut"
           \/ exchange[c].state = "replied" /\ s # "mute"
  BY DEF Break
<1>4. exchange[c] \in Exchanges /\ exchange'[c] = [exchange[c] EXCEPT !.state = s]
     /\ \A d \in Conns \ {c} : exchange'[d] = exchange[d]
  BY <1>1, <1>3 DEF DataOK
<1>5. /\ exchange'[c].state = s /\ exchange'[c].since = exchange[c].since
     /\ exchange'[c].version = exchange[c].version /\ exchange'[c].date = exchange[c].date
     /\ exchange'[c].kind = exchange[c].kind
  BY <1>3, <1>4 DEF Exchanges
<1>6. exchange'[c] \in Exchanges
  BY <1>3, <1>4 DEF Exchanges
<1>7. exchange' \in [Conns -> Exchanges]
  BY <1>1, <1>3, <1>6 DEF DataOK
<1>8. DataOK'
  BY <1>1, <1>2, <1>4, <1>5, <1>6, <1>7 DEF DataOK
<1>9. LifeInv'
  <2>1. ASSUME NEW d \in Conns \ {c} PROVE LifeAt(d)'
    BY <1>1, <1>2, <1>4, <1>5, <1>6, <1>7, <2>1 DEF LifeInv, LifeAt, Live
  <2>2. LifeAt(c)'
    BY <1>1, <1>2, <1>3, <1>4, <1>5, <1>6, <1>7 DEF LifeInv, LifeAt, Live
  <2> QED
    BY <2>1, <2>2 DEF LifeInv
<1>10. QueueInv'
  BY <1>1, <1>2 DEF QueueInv
<1>11. BackupInv'
  BY <1>1, <1>2 DEF BackupInv, BackupAt
<1>12. SiteInv'
  BY <1>1, <1>2 DEF SiteInv
<1>13. DocInv'
  <2>1. ASSUME NEW d \in Conns \ {c} PROVE DocAt(d)'
    BY <1>1, <1>2, <1>4, <1>5, <1>6, <1>7, <2>1 DEF DocInv, DocAt, Current, Live
  <2>2. DocAt(c)'
    BY <1>1, <1>2, <1>3, <1>4, <1>5, <1>6, <1>7 DEF DocInv, DocAt, Current, Live
  <2> QED
    BY <2>1, <2>2 DEF DocInv
<1>14. ExchangeInv'
  <2>1. ASSUME NEW d \in Conns \ {c} PROVE ExchangeAt(d)'
    BY <1>1, <1>2, <1>4, <2>1 DEF ExchangeInv, ExchangeAt, Current, Live
  <2>2. ExchangeAt(c)'
    BY <1>1, <1>2, <1>3, <1>4, <1>5, <1>6, <1>7 DEF ExchangeInv, ExchangeAt, Current, Live
  <2> QED
    BY <2>1, <2>2 DEF ExchangeInv
<1>15. Torn304'
  BY <1>1, <1>2 DEF Torn304, TornAt, Torn
<1>16. PointInv'
  <2>1. ASSUME NEW d \in Conns \ {c} PROVE PointAt(d)'
    BY <1>1, <1>2, <1>4, <1>5, <1>6, <1>7, <2>1 DEF PointInv, PointAt, Live
  <2>2. PointAt(c)'
    BY <1>1, <1>2, <1>4, <1>5, <1>6, <1>7 DEF PointInv, PointAt, Live
  <2> QED
    BY <2>1, <2>2 DEF PointInv
<1>17. AnswerInv'
  <2>1. ASSUME NEW d \in Conns \ {c} PROVE AnswerAt(d)'
    BY <1>1, <1>2, <1>3, <1>4, <1>5, <1>6, <1>7, <2>1 DEF AnswerInv, AnswerAt, Torn, Live
  <2>2. AnswerAt(c)'
    BY <1>1, <1>2, <1>3, <1>4, <1>5, <1>6, <1>7 DEF AnswerInv, AnswerAt, Torn, Live
  <2> QED
    BY <2>1, <2>2 DEF AnswerInv
<1> QED
  BY <1>8, <1>9, <1>10, <1>11, <1>12, <1>13, <1>14, <1>15, <1>16, <1>17 DEF IInv

\* A new request concerns a connection that is not in use.
LEMMA AskStep == ASSUME IInv, NEW c \in Conns, NEW u \in Urls, Ask(c, u) PROVE IInv'
<1>1. DataOK /\ LifeInv /\ QueueInv /\ BackupInv /\ SiteInv
     /\ DocInv /\ ExchangeInv /\ Torn304 /\ PointInv /\ AnswerInv
  BY DEF IInv
<1>2. UNCHANGED <<client, server, cache_node, backup, doc, queue, freed, answer, site, exchange>>
     /\ Kept' = Kept
  BY DEF Ask, nodes, cache, users, Kept, Used
<1>3. user[c] = "away"
     /\ \/ user' = [user EXCEPT ![c] = "asked"] /\ url' = [url EXCEPT ![c] = u]
        \/ (\E s \in {"partial", "reset"} : user' = [user EXCEPT ![c] = s]) /\ url' = url
  BY DEF Ask
<1>4. client[c] = "none" /\ server[c] = "none" /\ c \notin Kept
     /\ ~ doc[c].parsed /\ exchange[c].state = "none" /\ backup[c] = Null
  BY <1>1, <1>3 DEF LifeInv, LifeAt
<1>5. user'[c] \in {"asked", "partial", "reset"} /\ (user'[c] = "asked" => url'[c] \in Urls)
     /\ \A d \in Conns \ {c} : user'[d] = user[d] /\ url'[d] = url[d]
  BY <1>1, <1>3 DEF DataOK
<1>6. user' \in [Conns -> {"away", "asked", "partial", "reset", "gone", "refused", "answered"}]
     /\ url' \in [Conns -> Urls \cup {Null}]
  BY <1>1, <1>3 DEF DataOK
<1>7. DataOK'
  BY <1>1, <1>2, <1>4, <1>5, <1>6 DEF DataOK
<1>8. LifeInv'
  <2>1. ASSUME NEW d \in Conns \ {c} PROVE LifeAt(d)'
    BY <1>1, <1>2, <1>4, <1>5, <1>6, <2>1 DEF LifeInv, LifeAt, Live
  <2>2. LifeAt(c)'
    BY <1>1, <1>2, <1>4, <1>5, <1>6 DEF LifeInv, LifeAt, Live
  <2> QED
    BY <2>1, <2>2 DEF LifeInv
<1>9. QueueInv'
  <2>1. \A i \in 1..Slots : queue[i] # Null => queue[i] \in Conns \ {c}
    BY <1>1, <1>4 DEF DataOK, Docs, Kept, Used
  <2>2. \A i \in 1..Slots : queue[i] # Null => url'[queue[i]] = url[queue[i]]
    BY <2>1, <1>5
  <2> QED
    BY <1>1, <1>2, <2>2 DEF QueueInv
<1>10. BackupInv'
  <2>1. ASSUME NEW d \in Conns \ {c} PROVE BackupAt(d)'
    BY <1>1, <1>2, <1>3, <1>4, <1>5, <1>6, <2>1
       DEF BackupInv, BackupAt, LifeInv, LifeAt, DataOK, Docs, Live
  <2>2. BackupAt(c)'
    BY <1>1, <1>2, <1>4, <1>5, <1>6 DEF BackupInv, BackupAt, Live
  <2> QED
    BY <2>1, <2>2 DEF BackupInv
<1>11. SiteInv'
  BY <1>1, <1>2 DEF SiteInv
<1>12. DocInv'
  <2>1. ASSUME NEW d \in Conns \ {c} PROVE DocAt(d)'
    BY <1>1, <1>2, <1>4, <1>5, <1>6, <2>1 DEF DocInv, DocAt, Current, Live
  <2>2. DocAt(c)'
    BY <1>1, <1>2, <1>4, <1>5, <1>6 DEF DocInv, DocAt, Current, Live
  <2> QED
    BY <2>1, <2>2 DEF DocInv
<1>13. ExchangeInv'
  <2>1. ASSUME NEW d \in Conns \ {c} PROVE ExchangeAt(d)'
    BY <1>1, <1>2, <1>4, <1>5, <1>6, <2>1 DEF ExchangeInv, ExchangeAt, Current, Live
  <2>2. ExchangeAt(c)'
    BY <1>1, <1>2, <1>4, <1>5, <1>6 DEF ExchangeInv, ExchangeAt, Current, Live
  <2> QED
    BY <2>1, <2>2 DEF ExchangeInv
<1>14. Torn304'
  BY <1>1, <1>2 DEF Torn304, TornAt, Torn
<1>15. PointInv'
  <2>1. ASSUME NEW d \in Conns \ {c} PROVE PointAt(d)'
    BY <1>1, <1>2, <1>4, <1>5, <1>6, <2>1 DEF PointInv, PointAt, Live
  <2>2. PointAt(c)'
    BY <1>1, <1>2, <1>4, <1>5, <1>6 DEF PointInv, PointAt, Live
  <2> QED
    BY <2>1, <2>2 DEF PointInv
<1>16. AnswerInv'
  <2>1. ASSUME NEW d \in Conns \ {c} PROVE AnswerAt(d)'
    BY <1>1, <1>2, <1>4, <1>5, <1>6, <2>1 DEF AnswerInv, AnswerAt, Torn, Live
  <2>2. AnswerAt(c)'
    BY <1>1, <1>2, <1>4, <1>5, <1>6 DEF AnswerInv, AnswerAt, Torn, Live
  <2> QED
    BY <2>1, <2>2 DEF AnswerInv
<1> QED
  BY <1>7, <1>8, <1>9, <1>10, <1>11, <1>12, <1>13, <1>14, <1>15, <1>16 DEF IInv

\* A client that leaves is still answered.
LEMMA LeaveStep == ASSUME IInv, NEW c \in Conns, Leave(c) PROVE IInv'
<1>1. DataOK /\ LifeInv /\ QueueInv /\ BackupInv /\ SiteInv
     /\ DocInv /\ ExchangeInv /\ Torn304 /\ PointInv /\ AnswerInv
  BY DEF IInv
<1>2. UNCHANGED <<client, server, cache_node, backup, doc, queue, freed, url, answer, site, exchange>>
     /\ Kept' = Kept
  BY DEF Leave, nodes, cache, users, Kept, Used
<1>3. user[c] = "asked" /\ user' = [user EXCEPT ![c] = "gone"]
  BY DEF Leave
<1>4. DataOK'
  BY <1>1, <1>2, <1>3, NullFact, ProxyAssumption DEF DataOK, Docs
<1>5. LifeInv'
  BY <1>1, <1>2, <1>3, NullFact DEF LifeInv, LifeAt, DataOK, Live
<1>6. QueueInv'
  BY <1>1, <1>2 DEF QueueInv
<1>7. BackupInv'
  BY <1>1, <1>2 DEF BackupInv, BackupAt
<1>8. SiteInv'
  BY <1>1, <1>2 DEF SiteInv
<1>9. DocInv'
  BY <1>1, <1>2 DEF DocInv, DocAt, Current, Live
<1>10. ExchangeInv'
  BY <1>1, <1>2 DEF ExchangeInv, ExchangeAt, Current, Live
<1>11. Torn304'
  BY <1>1, <1>2 DEF Torn304, TornAt, Torn
<1>12. PointInv'
  BY <1>1, <1>2 DEF PointInv, PointAt
<1>13. AnswerInv'
  BY <1>1, <1>2 DEF AnswerInv, AnswerAt, Torn
<1> QED
  BY <1>4, <1>5, <1>6, <1>7, <1>8, <1>9, <1>10, <1>11, <1>12, <1>13 DEF IInv

\* A page that changes gets a version ahead of all dates in the cache.
LEMMA ChangeStep == ASSUME IInv, NEW u \in Urls, Change(u) PROVE IInv'
<1>1. DataOK /\ LifeInv /\ QueueInv /\ BackupInv /\ SiteInv
     /\ DocInv /\ ExchangeInv /\ Torn304 /\ PointInv /\ AnswerInv
  BY DEF IInv
<1>2. UNCHANGED <<client, server, cache_node, backup, doc, queue, freed, user, url, answer, exchange>>
     /\ Kept' = Kept
  BY DEF Change, nodes, cache, users, Kept, Used
<1>3. site.now < MaxChanges
     /\ site' = [lastmod |-> [site.lastmod EXCEPT ![u] = site.now + 1], now |-> site.now + 1]
  BY DEF Change
<1>4. /\ site'.now = site.now + 1 /\ site'.lastmod[u] = site.now + 1
     /\ \A v \in Urls \ {u} : site'.lastmod[v] = site.lastmod[v]
  BY <1>1, <1>3 DEF DataOK
<1>5. DataOK'
  BY <1>1, <1>2, <1>3, <1>4, NullFact, Fields, ProxyAssumption DEF DataOK, Docs, Versions
<1>6. LifeInv'
  BY <1>1, <1>2 DEF LifeInv, LifeAt, Live
<1>7. QueueInv'
  BY <1>1, <1>2 DEF QueueInv
<1>8. BackupInv'
  BY <1>1, <1>2 DEF BackupInv, BackupAt
<1>9. SiteInv'
  <2>1. ASSUME NEW v \in Urls PROVE site'.lastmod[v] <= site'.now
    <3>1. site.lastmod[v] <= site.now /\ site.lastmod[v] \in Int /\ site.now \in Int
      BY <1>1, Fields, VersionsFact DEF SiteInv
    <3> QED
      BY <3>1, <1>4
  <2> QED
    BY <2>1 DEF SiteInv
<1>10. DocInv'
  <2>1. ASSUME NEW v \in Urls, NEW t \in {-1} \cup Versions, NEW n, Current(v, t, n)
        PROVE  Current(v, t, n)'
    <3>1. site.now \in Int /\ t \in Int
      <4>1. site.now \in Versions
        BY <1>1, Fields
      <4> QED
        BY <4>1, ProxyAssumption DEF Versions
    <3>2. CASE v = u
      BY <3>1, <3>2, <2>1, <1>4 DEF Current
    <3>3. CASE v # u
      BY <3>1, <3>3, <2>1, <1>4 DEF Current
    <3> QED
      BY <3>2, <3>3
  <2>2. ASSUME NEW d \in Conns PROVE DocAt(d)'
    <3>1. CASE doc[d].parsed
      <4>1. url[d] \in Urls
        BY <3>1, <1>1 DEF LifeInv, LifeAt, Live, DataOK
      <4>2. Current(url[d], doc[d].date, doc[d].version)
        BY <3>1, <1>1 DEF DocInv, DocAt
      <4>3. Current(url[d], doc[d].date, doc[d].version)'
        BY <4>1, <4>2, <2>1, <1>1, <1>2, Fields DEF Current
      <4> QED
        BY <3>1, <4>3, <1>1, <1>2 DEF DocInv, DocAt, Live
    <3>2. CASE ~ doc[d].parsed
      BY <3>2, <1>2 DEF DocAt
    <3> QED
      BY <3>1, <3>2
  <2> QED
    BY <2>2 DEF DocInv
<1>11. ExchangeInv'
  <2>1. ASSUME NEW v \in Urls, NEW t \in {-1} \cup Versions, NEW n, Current(v, t, n)
        PROVE  Current(v, t, n)'
    <3>1. site.now \in Int /\ t \in Int
      <4>1. site.now \in Versions
        BY <1>1, Fields
      <4> QED
        BY <4>1, ProxyAssumption DEF Versions
    <3>2. CASE v = u
      BY <3>1, <3>2, <2>1, <1>4 DEF Current
    <3>3. CASE v # u
      BY <3>1, <3>3, <2>1, <1>4 DEF Current
    <3> QED
      BY <3>2, <3>3
  <2>2. ASSUME NEW d \in Conns PROVE ExchangeAt(d)'
    <3>1. exchange[d].state # "none" => url[d] \in Urls
      BY <1>1 DEF LifeInv, LifeAt, Live, DataOK
    <3>2. exchange[d].state = "asked" /\ backup[d] # Null =>
            Current(url[d], exchange[d].since, doc[backup[d]].version)'
      <4>1. ASSUME exchange[d].state = "asked", backup[d] # Null
            PROVE  Current(url[d], exchange[d].since, doc[backup[d]].version)'
        <5>1. Current(url[d], exchange[d].since, doc[backup[d]].version)
          BY <4>1, <1>1 DEF ExchangeInv, ExchangeAt
        <5>2. url[d] \in Urls /\ exchange[d].since \in {-1} \cup Versions
          BY <4>1, <3>1, <1>1, Fields
        <5>3. \A n : Current(url[d], exchange[d].since, n)
                     => Current(url[d], exchange[d].since, n)'
          BY <5>2, <2>1, <1>2 DEF Current
        <5>4. UNCHANGED <<url, exchange, doc, backup>>
          BY <1>2
        <5> QED
          BY <5>1, <5>3, <5>4 DEF Current
      <4> QED
        BY <4>1
    <3>3. exchange[d].state \in {"replied", "ended", "cut"} =>
            Current(url[d], exchange[d].date, exchange[d].version)'
      <4>1. ASSUME exchange[d].state \in {"replied", "ended", "cut"}
            PROVE  Current(url[d], exchange[d].date, exchange[d].version)'
        <5>1. Current(url[d], exchange[d].date, exchange[d].version)
          BY <4>1, <1>1 DEF ExchangeInv, ExchangeAt
        <5>2. url[d] \in Urls /\ exchange[d].date \in {-1} \cup Versions
          BY <4>1, <3>1, <1>1, Fields
        <5>3. Current(url[d], exchange[d].date, exchange[d].version)'
          BY <5>1, <5>2, <2>1, <1>2 DEF Current
        <5> QED
          BY <5>3
      <4> QED
        BY <4>1
    <3> QED
      BY <3>2, <3>3, <1>1, <1>2 DEF ExchangeInv, ExchangeAt, Live
  <2> QED
    BY <2>2 DEF ExchangeInv
<1>12. Torn304'
  BY <1>1, <1>2 DEF Torn304, TornAt, Torn
<1>13. PointInv'
  BY <1>1, <1>2 DEF PointInv, PointAt
<1>14. AnswerInv'
  BY <1>1, <1>2 DEF AnswerInv, AnswerAt, Torn
<1> QED
  BY <1>5, <1>6, <1>7, <1>8, <1>9, <1>10, <1>11, <1>12, <1>13, <1>14 DEF IInv

\* cache_recv at the end of a reply: the document is whole, or marked as cut.
LEMMA ReadEndStep == ASSUME IInv, NEW c \in Conns, ReadEnd(c) PROVE IInv'
<1>1. DataOK /\ LifeInv /\ QueueInv /\ BackupInv /\ SiteInv
     /\ DocInv /\ ExchangeInv /\ Torn304 /\ PointInv /\ AnswerInv
  BY DEF IInv
<1>2. UNCHANGED <<cache_node, user, url, answer, site, exchange>>
  BY DEF ReadEnd, ReadingReply, Received, nodes, cache, users
<1>3. server[c] = "READING" /\ doc[c].parsed
     /\ exchange[c].state \in {"ended", "cut"}
     /\ doc' = [doc EXCEPT ![c].kind = IF exchange[c].state = "cut" THEN "cut" ELSE @]
     /\ client' = [client EXCEPT ![c] = "WRITING"] /\ server' = [server EXCEPT ![c] = "freed"]
     /\ backup' = [backup EXCEPT ![c] = Null]
  BY DEF ReadEnd, ReadingReply, Received
<1>4. /\ doc'[c].parsed /\ doc'[c].version = doc[c].version /\ doc'[c].date = doc[c].date
     /\ doc'[c].kind = (IF exchange[c].state = "cut" THEN "cut" ELSE doc[c].kind)
     /\ client'[c] = "WRITING" /\ server'[c] = "freed" /\ backup'[c] = Null
     /\ \A d \in Conns \ {c} : doc'[d] = doc[d] /\ client'[d] = client[d]
        /\ server'[d] = server[d] /\ backup'[d] = backup[d]
  BY <1>1, <1>3 DEF DataOK, Documents
<1>5. url[c] \in Urls /\ client[c] = "IDLE" /\ cache_node[c] = c /\ answer[c].kind = "none" 
  BY <1>1, <1>3 DEF LifeInv, Live, LifeAt
<1>6. doc' \in [Conns -> Documents]
  BY <1>1, <1>3, Fields DEF DataOK, Documents
<1>7. Live(c)
     /\ (IF is_cache_hit(url[c]) = Null THEN cache_enqueue(c) ELSE UNCHANGED <<queue, freed>>)
  BY <1>3 DEF Live, ReadEnd, Received
<1>8. queue' \in [1..Slots -> Docs] /\ freed' \subseteq Conns
  BY <1>1, <1>7, EnqueueFact
<1>9. freed \subseteq freed' /\ c \notin freed'
  BY <1>1, <1>7, EnqueueFact
<1>10. \A i \in 1..Slots : queue'[i] # Null =>
            queue'[i] \notin freed' /\ (queue'[i] = c \/ queue'[i] \in Used)
  BY <1>1, <1>7, EnqueueFact
<1>11. \A i, j \in 1..Slots : queue'[i] # Null /\ queue'[j] # Null
            /\ url[queue'[i]] = url[queue'[j]] => i = j
  BY <1>1, <1>7, EnqueueFact
<1>12. \A d \in Conns \ {c} : d \in Kept' <=> d \in Kept
  BY <1>1, <1>7, EnqueueFact
<1>13. c \in Kept' => \A d \in Conns : d \in Used => url[d] # url[c]
  BY <1>1, <1>7, EnqueueFact
<1>14. DataOK'
  BY <1>1, <1>2, <1>3, <1>4, <1>5, <1>6, <1>7, <1>8, <1>9, <1>10, <1>11, <1>12, <1>13
     DEF DataOK, Docs
<1>15. LifeInv'
  <2>1. ASSUME NEW d \in Conns \ {c} PROVE LifeAt(d)'
    BY <1>1, <1>2, <2>1, <1>4, <1>12 DEF LifeInv, LifeAt, Live
  <2>2. LifeAt(c)'
    BY <1>1, <1>2, <1>3, <1>4, <1>5, <1>6, <1>7, <1>8, <1>9, <1>10, <1>11, <1>12, <1>13
       DEF LifeInv, LifeAt, Live
  <2> QED
    BY <2>1, <2>2 DEF LifeInv
<1>16. QueueInv'
  BY <1>1, <1>2, <1>4, <1>8, <1>10, <1>11, EnqueueQueue
<1>17. BackupInv'
  <2>1. ASSUME NEW d \in Conns \ {c} PROVE BackupAt(d)'
    BY <1>1, <1>2, <1>3, <2>1, <1>4, <1>12, <2>1 DEF BackupInv, BackupAt, DataOK, Docs
  <2>2. BackupAt(c)'
    BY <1>1, <1>2, <1>4, <1>5, <1>6, <1>7, <1>8, <1>9, <1>10, <1>11, <1>12, <1>13
       DEF BackupInv, BackupAt, Live
  <2> QED
    BY <2>1, <2>2 DEF BackupInv
<1>18. SiteInv'
  BY <1>1, <1>2 DEF SiteInv
<1>19. DocInv'
  <2>1. ASSUME NEW d \in Conns \ {c} PROVE DocAt(d)'
    BY <1>1, <1>2, <1>4, <1>5, <1>6, <1>7, <1>8, <1>9, <1>10, <1>11, <1>12, <1>13, <2>1
       DEF DocInv, DocAt, Current, Live
  <2>2. DocAt(c)'
    BY <1>1, <1>2, <1>3, <1>4, <1>5, <1>6, <1>7, <1>8, <1>9, <1>10, <1>11, <1>12, <1>13
       DEF DocInv, DocAt, Current, Live
  <2> QED
    BY <2>1, <2>2 DEF DocInv
<1>20. ExchangeInv'
  <2>1. ASSUME NEW d \in Conns \ {c} PROVE ExchangeAt(d)'
    <3>1. backup[d] # Null => backup[d] \in Conns \ {c}
      BY <1>1, <1>3 DEF BackupInv, BackupAt, DataOK, Docs
    <3> QED
      BY <3>1, <1>1, <1>2, <2>1, <1>4 DEF ExchangeInv, ExchangeAt, Current, Live
  <2>2. ExchangeAt(c)'
    BY <1>1, <1>2, <1>3, <1>4, <1>5, <1>6, <1>7, <1>8, <1>9, <1>10, <1>11, <1>12, <1>13
       DEF ExchangeInv, ExchangeAt, Current, Live
  <2> QED
    BY <2>1, <2>2 DEF ExchangeInv
<1>21. Torn304'
  <2>1. ASSUME NEW d \in Conns \ {c} PROVE TornAt(d)'
    BY <1>1, <1>2, <1>4, <1>9, <1>12, <2>1 DEF Torn304, TornAt, Torn
  <2>2. TornAt(c)'
    BY <1>1, <1>3, <1>4 DEF DocInv, DocAt, Live, TornAt
  <2> QED
    BY <2>1, <2>2 DEF Torn304
<1>22. PointInv'
  <2>1. ASSUME NEW d \in Conns \ {c} PROVE PointAt(d)'
    <3>1. client[d] = "WRITING" => cache_node[d] \in Conns \ {c}
      BY <1>1, <1>3 DEF PointInv, PointAt
    <3> QED
      BY <3>1, <1>1, <1>2, <2>1, <1>4, <1>12 DEF PointInv, PointAt
  <2>2. PointAt(c)'
    BY <1>1, <1>2, <1>3, <1>4, <1>5, <1>6, <1>7, <1>8, <1>9, <1>10, <1>11, <1>12, <1>13
       DEF PointInv, PointAt, LifeInv, LifeAt, BackupInv, BackupAt, DocInv, DocAt, Live
  <2> QED
    BY <2>1, <2>2 DEF PointInv
<1>23. AnswerInv'
  <2>1. ASSUME NEW d \in Conns \ {c} PROVE AnswerAt(d)'
    BY <1>1, <1>2, <1>4, <1>5, <1>6, <1>7, <1>8, <1>9, <1>10, <1>11, <1>12, <1>13, <2>1
       DEF AnswerInv, AnswerAt, Torn, Live
  <2>2. AnswerAt(c)'
    BY <1>1, <1>2, <1>4, <1>5, <1>6, <1>7, <1>8, <1>9, <1>10, <1>11, <1>12, <1>13
       DEF AnswerInv, AnswerAt, Torn, Live
  <2> QED
    BY <2>1, <2>2 DEF AnswerInv
<1> QED
  BY <1>14, <1>15, <1>16, <1>17, <1>18, <1>19, <1>20, <1>21, <1>22, <1>23 DEF IInv

\* cache_recv on a 304: the entry's date moves on to one its content still has.
LEMMA ReadNotModifiedStep == ASSUME IInv, NEW c \in Conns, ReadNotModified(c) PROVE IInv'
<1>1. DataOK /\ LifeInv /\ QueueInv /\ BackupInv /\ SiteInv
     /\ DocInv /\ ExchangeInv /\ Torn304 /\ PointInv /\ AnswerInv
  BY DEF IInv
<1>2. UNCHANGED <<user, url, answer, site, exchange>>
  BY DEF ReadNotModified, ReadingReply, Received, Parsed, nodes, cache, users
<1>3. server[c] = "READING" /\ ~ doc[c].parsed
     /\ exchange[c].state \in {"replied", "ended", "cut"}
     /\ backup[c] # Null /\ exchange[c].kind = "304"
     /\ doc' = [doc EXCEPT ![c] = [parsed |-> TRUE, kind |-> exchange[c].kind,
                version |-> exchange[c].version, date |-> exchange[c].date],
             ![backup[c]].date = exchange[c].date]
     /\ cache_node' = [cache_node EXCEPT ![c] = backup[c]]
     /\ client' = [client EXCEPT ![c] = "WRITING"] /\ server' = [server EXCEPT ![c] = "freed"]
     /\ backup' = [backup EXCEPT ![c] = Null]
  BY DEF ReadNotModified, ReadingReply, Received, Parsed
<1>4. /\ backup[c] \in Conns /\ backup[c] # c /\ server[backup[c]] = "freed"
     /\ backup[c] \in Kept /\ url[backup[c]] = url[c] /\ doc[backup[c]].parsed
     /\ url[c] \in Urls /\ client[c] = "IDLE" /\ answer[c].kind = "none" 
  BY <1>1, <1>3 DEF LifeInv, BackupInv, DataOK, Docs, Live, LifeAt, BackupAt
<1>5. /\ doc'[c].parsed /\ doc'[c].kind = "304" /\ doc'[c].version = exchange[c].version
     /\ doc'[c].date = exchange[c].date
     /\ doc'[backup[c]].date = exchange[c].date /\ doc'[backup[c]].parsed
     /\ doc'[backup[c]].version = doc[backup[c]].version
     /\ doc'[backup[c]].kind = doc[backup[c]].kind
     /\ \A d \in Conns \ {c, backup[c]} : doc'[d] = doc[d]
  BY <1>1, <1>3, <1>4 DEF DataOK, Documents
<1>6. /\ client'[c] = "WRITING" /\ server'[c] = "freed" /\ backup'[c] = Null
     /\ cache_node'[c] = backup[c]
     /\ \A d \in Conns \ {c} : client'[d] = client[d] /\ server'[d] = server[d]
        /\ backup'[d] = backup[d] /\ cache_node'[d] = cache_node[d]
  BY <1>1, <1>3 DEF DataOK
<1>7. exchange[c].version = doc[backup[c]].version
     /\ Current(url[c], exchange[c].date, exchange[c].version)
  BY <1>1, <1>3 DEF ExchangeInv, Live, ExchangeAt
<1>8. doc' \in [Conns -> Documents]
  <2>1. doc'[c] \in Documents
    <3>1. doc'[c] = [parsed |-> TRUE, kind |-> exchange[c].kind,
                     version |-> exchange[c].version, date |-> exchange[c].date]
      BY <1>1, <1>3, <1>4 DEF DataOK
    <3> QED
      BY <3>1, <1>1, <1>3, Fields DEF Documents
  <2>2. doc'[backup[c]] \in Documents
    <3>1. doc[backup[c]] \in Documents
     /\ doc'[backup[c]] = [doc[backup[c]] EXCEPT !.date = exchange[c].date]
      BY <1>1, <1>3, <1>4 DEF DataOK
    <3>2. exchange[c].date \in Versions
      BY <1>1, Fields
    <3> QED
      BY <3>1, <3>2 DEF Documents
  <2>3. doc' = [doc EXCEPT ![c] = doc'[c], ![backup[c]] = doc'[backup[c]]]
    BY <1>1, <1>3, <1>4 DEF DataOK
  <2> QED
    BY <1>1, <1>4, <2>1, <2>2, <2>3 DEF DataOK
<1>9. \A d \in Conns \ {c} : (doc'[d].parsed <=> doc[d].parsed) /\ doc'[d].kind = doc[d].kind
     /\ doc'[d].version = doc[d].version
  BY <1>4, <1>5
<1>10. Live(c)
     /\ (IF is_cache_hit(url[c]) = Null THEN cache_enqueue(c) ELSE UNCHANGED <<queue, freed>>)
  BY <1>3 DEF Live, ReadNotModified, Received
<1>11. queue' \in [1..Slots -> Docs] /\ freed' \subseteq Conns
  BY <1>1, <1>10, EnqueueFact
<1>12. freed \subseteq freed' /\ c \notin freed'
  BY <1>1, <1>10, EnqueueFact
<1>13. \A i \in 1..Slots : queue'[i] # Null =>
            queue'[i] \notin freed' /\ (queue'[i] = c \/ queue'[i] \in Used)
  BY <1>1, <1>10, EnqueueFact
<1>14. \A i, j \in 1..Slots : queue'[i] # Null /\ queue'[j] # Null
            /\ url[queue'[i]] = url[queue'[j]] => i = j
  BY <1>1, <1>10, EnqueueFact
<1>15. \A d \in Conns \ {c} : d \in Kept' <=> d \in Kept
  BY <1>1, <1>10, EnqueueFact
<1>16. c \in Kept' => \A d \in Conns : d \in Used => url[d] # url[c]
  BY <1>1, <1>10, EnqueueFact
<1>17. DataOK'
  BY <1>1, <1>2, <1>3, <1>4, <1>5, <1>6, <1>7, <1>8, <1>9, <1>10, <1>11, <1>12, <1>13, <1>14,
        <1>15, <1>16
     DEF DataOK, Docs
<1>18. LifeInv'
  <2>1. ASSUME NEW d \in Conns \ {c} PROVE LifeAt(d)'
    BY <1>1, <1>2, <1>5, <1>6, <1>9, <1>15, <2>1 DEF LifeInv, LifeAt, Live
  <2>2. LifeAt(c)'
    BY <1>1, <1>2, <1>3, <1>4, <1>5, <1>6, <1>7, <1>8, <1>9, <1>10, <1>11, <1>12, <1>13, <1>14,
          <1>15, <1>16
       DEF LifeInv, LifeAt, Live
  <2> QED
    BY <2>1, <2>2 DEF LifeInv
<1>19. QueueInv'
  BY <1>1, <1>2, <1>6, <1>11, <1>13, <1>14, EnqueueQueue
<1>20. BackupInv'
  <2>1. ASSUME NEW d \in Conns \ {c} PROVE BackupAt(d)'
    <3>1. SUFFICES ASSUME backup'[d] # Null
                   PROVE  /\ server'[backup'[d]] = "freed" /\ backup'[d] \in Kept'
                          /\ url'[backup'[d]] = url'[d]
      BY DEF BackupAt
    <3>2. backup'[d] = backup[d]
      BY <1>6
    <3>3. /\ backup[d] \in Conns /\ server[backup[d]] = "freed" /\ backup[d] \in Kept
          /\ url[backup[d]] = url[d]
      BY <3>1, <3>2, <1>1 DEF BackupInv, BackupAt, DataOK, Docs
    <3>4. backup[d] # c
      BY <3>3, <1>3
    <3>5. server'[backup[d]] = "freed" /\ backup[d] \in Kept'
      BY <3>3, <3>4, <1>6, <1>15
    <3> QED
      BY <3>2, <3>3, <3>5, <1>2
  <2>2. BackupAt(c)'
    BY <1>6, <1>7, <1>8, <1>9, <1>10, <1>11, <1>12, <1>13, <1>14, <1>15, <1>16
       DEF BackupInv, BackupAt, Live
  <2> QED
    BY <2>1, <2>2 DEF BackupInv
<1>21. SiteInv'
  BY <1>1, <1>2 DEF SiteInv
<1>22. DocInv'
  <2>1. ASSUME NEW d \in Conns \ {c} PROVE DocAt(d)'
    <3>1. CASE d = backup[c]
      BY <3>1, <1>1, <1>2, <1>4, <1>5, <1>6, <1>7 DEF DocInv, DocAt, Current, Live
    <3>2. CASE d # backup[c]
      BY <3>2, <1>1, <1>2, <2>1, <1>5, <1>6 DEF DocInv, DocAt, Current, Live
    <3> QED
      BY <3>1, <3>2
  <2>2. DocAt(c)'
    BY <1>2, <1>3, <1>5, <1>6, <1>7 DEF DocAt, Current, Live
  <2> QED
    BY <2>1, <2>2 DEF DocInv
<1>23. ExchangeInv'
  <2>1. ASSUME NEW d \in Conns \ {c} PROVE ExchangeAt(d)'
    <3>1. backup[d] # Null => backup[d] \in Conns \ {c}
      BY <1>1, <1>3 DEF BackupInv, BackupAt, DataOK, Docs
    <3> QED
      BY <3>1, <1>1, <1>2, <2>1, <1>5, <1>6, <1>9 DEF ExchangeInv, ExchangeAt, Current, Live
  <2>2. ExchangeAt(c)'
    BY <1>1, <1>2, <1>3, <1>4, <1>5, <1>6, <1>7, <1>8, <1>9, <1>10, <1>11, <1>12, <1>13, <1>14,
          <1>15, <1>16
       DEF ExchangeInv, ExchangeAt, Current, Live
  <2> QED
    BY <2>1, <2>2 DEF ExchangeInv
<1>24. Torn304'
  <2>1. ASSUME NEW d \in Conns \ {c} PROVE TornAt(d)'
    BY <1>1, <1>2, <1>5, <1>6, <1>9, <1>12, <1>15, <2>1 DEF Torn304, TornAt, Torn
  <2>2. TornAt(c)'
    <3>1. ASSUME c \in Kept' PROVE Torn(c)'
      <4>1. backup[c] \notin Used
        BY <3>1, <1>4, <1>16
      <4> QED
        BY <4>1, <1>4, <1>6, <1>12 DEF Kept, Torn
    <3> QED
      BY <3>1 DEF TornAt
  <2> QED
    BY <2>1, <2>2 DEF Torn304
<1>25. PointInv'
  <2>1. ASSUME NEW d \in Conns \ {c} PROVE PointAt(d)'
    <3>1. client[d] = "WRITING" => cache_node[d] \in Conns \ {c}
      BY <1>1, <1>3 DEF PointInv, PointAt
    <3> QED
      BY <3>1, <1>1, <1>2, <2>1, <1>5, <1>6, <1>9, <1>15 DEF PointInv, PointAt
  <2>2. PointAt(c)'
    BY <1>2, <1>4, <1>5, <1>6, <1>7, <1>15 DEF PointAt
  <2> QED
    BY <2>1, <2>2 DEF PointInv
<1>26. AnswerInv'
  <2>1. ASSUME NEW d \in Conns \ {c} PROVE AnswerAt(d)'
    BY <1>1, <1>2, <1>4, <1>5, <1>6, <1>7, <1>8, <1>9, <1>10, <1>11, <1>12, <1>13, <1>14,
          <1>15, <1>16, <2>1
       DEF AnswerInv, AnswerAt, Torn, Live
  <2>2. AnswerAt(c)'
    BY <1>1, <1>2, <1>4, <1>5, <1>6, <1>7, <1>8, <1>9, <1>10, <1>11, <1>12, <1>13, <1>14,
          <1>15, <1>16
       DEF AnswerInv, AnswerAt, Torn, Live
  <2> QED
    BY <2>1, <2>2 DEF AnswerInv
<1> QED
  BY <1>17, <1>18, <1>19, <1>20, <1>21, <1>22, <1>23, <1>24, <1>25, <1>26 DEF IInv

\* client_write_handler sends a document with the version of the origin's reply.
LEMMA WriteAnswerStep == ASSUME IInv, NEW c \in Conns, WriteAnswer(c) PROVE IInv'
<1>1. DataOK /\ LifeInv /\ QueueInv /\ BackupInv /\ SiteInv
     /\ DocInv /\ ExchangeInv /\ Torn304 /\ PointInv /\ AnswerInv
  BY DEF IInv
<1>2. UNCHANGED <<server, backup, doc, queue, freed, url, site, exchange>>
     /\ Kept' = Kept
  BY DEF WriteAnswer, nodes, cache, users, Kept, Used
<1>3. client[c] = "WRITING"
     /\ answer' = [answer EXCEPT ![c] = Content(cache_node[c])]
     /\ user' = [user EXCEPT ![c] = "answered"]
     /\ client' = [client EXCEPT ![c] = "freed"]
     /\ cache_node' = [cache_node EXCEPT ![c] = Null]
  BY DEF WriteAnswer
<1>4. /\ answer'[c] = Content(cache_node[c]) /\ user'[c] = "answered" /\ client'[c] = "freed"
     /\ cache_node'[c] = Null /\ \A d \in Conns \ {c} : answer'[d] = answer[d]
        /\ user'[d] = user[d] /\ client'[d] = client[d] /\ cache_node'[d] = cache_node[d]
  BY <1>1, <1>3 DEF DataOK
<1>5. /\ answer[c].kind = "none" /\ server[c] = "freed" /\ backup[c] = Null
     /\ cache_node[c] \in Conns
  BY <1>1, <1>3 DEF LifeInv, PointInv, LifeAt, PointAt
<1>6. IF cache_node[c] \in freed THEN answer'[c].kind = "garbage"
     ELSE answer'[c].url = url[cache_node[c]] /\ answer'[c].kind = doc[cache_node[c]].kind
          /\ answer'[c].version = doc[cache_node[c]].version
  BY <1>4 DEF Content
<1>7. answer' \in [Conns -> Answers]
  BY <1>1, <1>3, <1>5, Fields, VersionsFact DEF DataOK, Answers, Content
<1>8. DataOK'
  BY <1>1, <1>2, <1>3, <1>4, <1>5, <1>6, <1>7 DEF DataOK
<1>9. LifeInv'
  <2>1. ASSUME NEW d \in Conns \ {c} PROVE LifeAt(d)'
    BY <1>1, <1>2, <1>4, <1>5, <1>6, <1>7, <2>1 DEF LifeInv, LifeAt, Live
  <2>2. LifeAt(c)'
    BY <1>1, <1>2, <1>4, <1>5, <1>6, <1>7 DEF LifeInv, LifeAt, Live
  <2> QED
    BY <2>1, <2>2 DEF LifeInv
<1>10. QueueInv'
  BY <1>1, <1>2 DEF QueueInv
<1>11. BackupInv'
  BY <1>1, <1>2 DEF BackupInv, BackupAt
<1>12. SiteInv'
  BY <1>1, <1>2 DEF SiteInv
<1>13. DocInv'
  BY <1>1, <1>2 DEF DocInv, DocAt, Current, Live
<1>14. ExchangeInv'
  BY <1>1, <1>2 DEF ExchangeInv, ExchangeAt, Current, Live
<1>15. Torn304'
  <2>1. ASSUME NEW d \in Conns \ {c} PROVE TornAt(d)'
    BY <1>1, <1>2, <1>4, <1>5, <1>6, <1>7, <2>1 DEF Torn304, TornAt, Live, Torn
  <2>2. TornAt(c)'
    BY <1>1, <1>2, <1>4, <1>5, <1>6, <1>7 DEF Torn304, TornAt, Live, Torn
  <2> QED
    BY <2>1, <2>2 DEF Torn304
<1>16. PointInv'
  <2>1. ASSUME NEW d \in Conns \ {c} PROVE PointAt(d)'
    BY <1>1, <1>2, <1>4, <1>5, <1>6, <1>7, <2>1 DEF PointInv, PointAt, Live
  <2>2. PointAt(c)'
    BY <1>4, <1>5, <1>6, <1>7 DEF PointInv, PointAt, Live
  <2> QED
    BY <2>1, <2>2 DEF PointInv
<1>17. AnswerInv'
  <2>1. ASSUME NEW d \in Conns \ {c} PROVE AnswerAt(d)'
    BY <1>1, <1>2, <1>4, <1>5, <1>6, <1>7, <2>1 DEF AnswerInv, AnswerAt, Torn, Live
  <2>2. AnswerAt(c)'
    BY <1>1, <1>2, <1>3, <1>4, <1>5, <1>6, <1>7, NullFact
       DEF AnswerInv, AnswerAt, PointInv, PointAt, LifeInv, LifeAt, DocInv, DocAt, Torn304,
          TornAt, DataOK, Docs, Torn, Live
  <2> QED
    BY <2>1, <2>2 DEF AnswerInv
<1> QED
  BY <1>8, <1>9, <1>10, <1>11, <1>12, <1>13, <1>14, <1>15, <1>16, <1>17 DEF IInv

\* Steps that leave the data alone: select, the end of the process, stuttering.
LEMMA QuietStep ==
    ASSUME IInv, UNCHANGED <<client, server, cache_node, backup, cache, users, site, exchange>>
    PROVE  IInv'
<1>1. UNCHANGED <<doc, queue, freed, user, url, answer, Used, Kept>>
  BY DEF cache, users, Used, Kept
<1>2. DataOK' /\ QueueInv' /\ SiteInv'
  BY <1>1 DEF IInv, DataOK, QueueInv, SiteInv
<1>3. LifeInv' /\ BackupInv' /\ DocInv' /\ ExchangeInv'
  BY <1>1 DEF IInv, LifeInv, LifeAt, BackupInv, BackupAt, DocInv, DocAt, ExchangeInv,
              ExchangeAt, Current, Live
<1>4. Torn304' /\ PointInv' /\ AnswerInv'
  BY <1>1 DEF IInv, Torn304, TornAt, PointInv, PointAt, AnswerInv, AnswerAt, Torn
<1> QED
  BY <1>2, <1>3, <1>4 DEF IInv

\* The invariant holds at the start.
LEMMA InitIInv == Init => IInv
<1> SUFFICES ASSUME Init PROVE IInv
  OBVIOUS
<1>1. 0 \in Versions /\ Slots \in Nat
  BY ProxyAssumption DEF Versions
<1>2. Used \subseteq {Null} /\ Kept \subseteq {Null}
  BY DEF Init, Used, Kept
<1>3. NewDoc \in Documents /\ NoAnswer \in Answers /\ NoRequest \in Exchanges
  BY <1>1 DEF NewDoc, NoAnswer, NoRequest, Documents, Answers, Exchanges
<1>4. DataOK
  BY <1>1, <1>3 DEF Init, DataOK, Docs
<1>5. \A c \in Conns : /\ client[c] = "none" /\ server[c] = "none" /\ cache_node[c] = Null
                       /\ backup[c] = Null /\ user[c] = "away" /\ c \notin Kept
                       /\ ~ doc[c].parsed /\ answer[c].kind = "none"
                       /\ exchange[c].state = "none"
  BY <1>2, NullFact DEF Init, NewDoc, NoAnswer, NoRequest
<1>6. QueueInv /\ SiteInv
  BY <1>1 DEF Init, QueueInv, SiteInv
<1>7. LifeInv /\ BackupInv /\ DocInv /\ ExchangeInv
  BY <1>5 DEF LifeInv, LifeAt, BackupInv, BackupAt, DocInv, DocAt, ExchangeInv,
              ExchangeAt, Live
<1>8. Torn304 /\ PointInv /\ AnswerInv
  BY <1>5 DEF Torn304, TornAt, PointInv, PointAt, AnswerInv, AnswerAt
<1> QED
  BY <1>4, <1>6, <1>7, <1>8 DEF IInv

\* Every step, of the proxy or of the world around it, preserves the invariant.
LEMMA NextIInv == IInv /\ [Next]_vars => IInv'
<1> SUFFICES ASSUME IInv, [Next]_vars PROVE IInv'
  OBVIOUS
<1>1. CASE Select
  BY <1>1, QuietStep DEF Select
<1>2. ASSUME NEW c \in Conns, Handle(c) PROVE IInv'
  <2>1. CASE Accept(c)
    BY <2>1, AcceptStep
  <2>2. CASE ReadReset(c) \/ ReplyBroken(c)
    BY <2>2, QuietStep DEF ReadReset, ReplyBroken, Crash, nodes
  <2>3. CASE ReadRefuse(c)
    BY <2>3, ReadRefuseStep
  <2>4. CASE ReadRequest(c)
    BY <2>4, ReadRequestStep
  <2>5. CASE WriteRequest(c)
    BY <2>5, WriteRequestStep
  <2>6. CASE ReadHeader(c)
    BY <2>6, ReadHeaderStep
  <2>7. CASE ReadNotModified(c)
    BY <2>7, ReadNotModifiedStep
  <2>8. CASE ReadEnd(c)
    BY <2>8, ReadEndStep
  <2>9. CASE WriteAnswer(c)
    BY <2>9, WriteAnswerStep
  <2> QED
    BY <1>2, <2>1, <2>2, <2>3, <2>4, <2>5, <2>6, <2>7, <2>8, <2>9 DEF Handle
<1>3. ASSUME NEW c \in Conns, NEW u \in Urls, Ask(c, u) PROVE IInv'
  BY <1>3, AskStep
<1>4. ASSUME NEW c \in Conns, Leave(c) \/ Break(c) \/ Reply(c) \/ EndReply(c) PROVE IInv'
  BY <1>4, LeaveStep, BreakStep, ReplyStep, EndReplyStep
<1>5. ASSUME NEW u \in Urls, Change(u) PROVE IInv'
  BY <1>5, ChangeStep
<1>6. CASE UNCHANGED vars
  BY <1>6, QuietStep DEF vars, nodes
<1> QED
  BY <1>1, <1>2, <1>3, <1>4, <1>5, <1>6, ProxyAssumption DEF Next, Loop, World, Origins

\* The invariant always holds.
LEMMA Invariance == Spec => []IInv
<1>1. Init => IInv
  BY InitIInv
<1>2. IInv /\ [Next]_vars => IInv'
  BY NextIInv
<1> QED
  BY <1>1, <1>2, PTL DEF Spec

-----------------------------------------------------------------------------
(* The list of descriptors *)

Nodes == {Listen} \cup {Client(c) : c \in Conns} \cup {Server(c) : c \in Conns}

\* The nodes of a connection that are in the list.
ListedAt(c) ==
    /\ Client(c) \in Range(fd_list) <=> client[c] \notin {"none", "freed"}
    /\ Server(c) \in Range(fd_list) <=> server[c] \notin {"none", "freed"}
    /\ Live(c) <=> client[c] = "IDLE"

\* A list of nodes, each once, the listening one among them; only nodes of the list are
\* still to be visited.
Linked ==
    /\ fd_list \in Seq(Nodes) /\ IsInjective(fd_list) /\ Listen \in Range(fd_list)
    /\ ready \subseteq Range(fd_list)

ListInv ==
    /\ Linked /\ \A c \in Conns : ListedAt(c)
    /\ running \in {"yes", "segv", "dangling", "sigpipe"}

\* Nodes of different kinds or connections are different.
LEMMA NodeNames ==
    /\ \A c, d \in Conns : /\ Client(c) # Server(d)
                           /\ Client(c) = Client(d) => c = d
                           /\ Server(c) = Server(d) => c = d
    /\ \A c \in Conns : /\ Client(c) # Listen /\ Server(c) # Listen
                        /\ Client(c) \in Nodes /\ Server(c) \in Nodes
  BY DEF Client, Server, Listen, Nodes

\* fd_list_append puts a new node at the end.
LEMMA Linking ==
    ASSUME Linked, NEW n \in Nodes, n \notin Range(fd_list),
           fd_list' = Append(fd_list, n), ready' \subseteq ready
    PROVE  Linked' /\ Range(fd_list)' = Range(fd_list) \cup {n}
  BY Appending DEF Linked

\* fd_list_remove takes a node out, and the traversal has passed it.
LEMMA Delinking ==
    ASSUME Linked, NEW n \in Nodes \ {Listen},
           fd_list' = RemoveFirst(fd_list, n), ready' \subseteq ready \ {n}
    PROVE  Linked' /\ Range(fd_list)' = Range(fd_list) \ {n}
  BY Unlinking DEF Linked

\* Steps that change neither the list nor which nodes there are.
LEMMA SameNodes ==
    ASSUME ListInv, UNCHANGED <<fd_list, client>>, ready' \subseteq ready,
           running' \in {"yes", "segv", "dangling", "sigpipe"},
           \A c \in Conns : server'[c] = server[c] \/ (Live(c) /\ Live(c)')
    PROVE  ListInv'
<1>1. Linked'
  BY DEF ListInv, Linked
<1>2. ASSUME NEW c \in Conns PROVE ListedAt(c)'
  BY DEF ListInv, ListedAt, Live
<1> QED
  BY <1>1, <1>2 DEF ListInv

\* select reports nodes of the list only.
LEMMA SelectLists == ASSUME ListInv, Select PROVE ListInv'
<1>1. ready' = Ready /\ UNCHANGED <<running, fd_list, client, server>>
  BY DEF Select
<1>2. Ready \subseteq Range(fd_list)
  BY DEF Ready, ClientReady, ListInv, ListedAt, Linked
<1>3. Linked'
  BY <1>1, <1>2 DEF ListInv, Linked
<1>4. ASSUME NEW c \in Conns PROVE ListedAt(c)'
  BY <1>1 DEF ListInv, ListedAt, Live
<1> QED
  BY <1>1, <1>3, <1>4 DEF ListInv

\* listen_fd_handler appends the node of a new client.
LEMMA AcceptLists == ASSUME IInv, ListInv, NEW c \in Conns, Accept(c) PROVE ListInv'
<1>1. /\ client[c] = "none" /\ client' = [client EXCEPT ![c] = "READING"]
      /\ fd_list' = Append(fd_list, Client(c)) /\ ready' \subseteq ready
      /\ UNCHANGED <<running, server>>
  BY DEF Accept, Backlog, fd_list_append, GoOn
<1>2. client'[c] = "READING" /\ \A d \in Conns \ {c} : client'[d] = client[d]
  BY <1>1 DEF IInv, DataOK
<1>3. Client(c) \in Nodes /\ Client(c) \notin Range(fd_list)
  BY <1>1, NodeNames DEF ListInv, ListedAt
<1>4. Linked' /\ Range(fd_list)' = Range(fd_list) \cup {Client(c)}
  BY <1>1, <1>3, Linking DEF ListInv
<1>5. ASSUME NEW d \in Conns PROVE ListedAt(d)'
  BY <1>1, <1>2, <1>4, NodeNames DEF ListInv, ListedAt, Live
<1> QED
  BY <1>1, <1>4, <1>5 DEF ListInv

\* client_read_handler appends the node of a server, whose client waits for it.
LEMMA RequestLists == ASSUME IInv, ListInv, NEW c \in Conns, ReadRequest(c) PROVE ListInv'
<1>1. /\ client[c] = "READING" /\ client' = [client EXCEPT ![c] = "IDLE"]
      /\ server' = [server EXCEPT ![c] = "WRITING"]
      /\ fd_list' = Append(fd_list, Server(c)) /\ ready' \subseteq ready
      /\ UNCHANGED running
  BY DEF ReadRequest, Reading, fd_list_append, GoOn
<1>2. server[c] = "none"
  BY <1>1 DEF IInv, LifeInv, LifeAt
<1>3. /\ client'[c] = "IDLE" /\ server'[c] = "WRITING"
      /\ \A d \in Conns \ {c} : client'[d] = client[d] /\ server'[d] = server[d]
  BY <1>1 DEF IInv, DataOK
<1>4. Server(c) \in Nodes /\ Server(c) \notin Range(fd_list)
  BY <1>2, NodeNames DEF ListInv, ListedAt
<1>5. Linked' /\ Range(fd_list)' = Range(fd_list) \cup {Server(c)}
  BY <1>1, <1>4, Linking DEF ListInv
<1>6. ASSUME NEW d \in Conns PROVE ListedAt(d)'
  BY <1>1, <1>3, <1>5, NodeNames DEF ListInv, ListedAt, Live
<1> QED
  BY <1>1, <1>5, <1>6 DEF ListInv

\* client_read_handler and client_write_handler take the node of their client out.
LEMMA LeavingLists ==
    ASSUME IInv, ListInv, NEW c \in Conns, ReadRefuse(c) \/ WriteAnswer(c)
    PROVE  ListInv'
<1>1. /\ client[c] \in {"READING", "WRITING"}
      /\ client' = [client EXCEPT ![c] = "freed"]
      /\ fd_list' = RemoveFirst(fd_list, Client(c)) /\ ready' \subseteq ready \ {Client(c)}
      /\ UNCHANGED server
      /\ running' = running \/ running' \in {"yes", "dangling", "sigpipe"}
  BY DEF ReadRefuse, WriteAnswer, Reading, fd_list_remove, GoOn
<1>2. client'[c] = "freed" /\ \A d \in Conns \ {c} : client'[d] = client[d]
  BY <1>1 DEF IInv, DataOK
<1>3. Client(c) \in Nodes \ {Listen}
  BY NodeNames
<1>4. Linked' /\ Range(fd_list)' = Range(fd_list) \ {Client(c)}
  BY <1>1, <1>3, Delinking DEF ListInv
<1>5. ASSUME NEW d \in Conns PROVE ListedAt(d)'
  BY <1>1, <1>2, <1>4, NodeNames DEF ListInv, ListedAt, Live
<1> QED
  BY <1>1, <1>4, <1>5 DEF ListInv

\* server_read_handler takes the node of its server out and wakes the client up.
LEMMA ReceivedLists ==
    ASSUME IInv, ListInv, NEW c \in Conns, ReadNotModified(c) \/ ReadEnd(c)
    PROVE  ListInv'
<1>1. /\ server[c] = "READING"
      /\ client' = [client EXCEPT ![c] = "WRITING"]
      /\ server' = [server EXCEPT ![c] = "freed"]
      /\ fd_list' = RemoveFirst(fd_list, Server(c)) /\ ready' \subseteq ready \ {Server(c)}
      /\ UNCHANGED running
  BY DEF ReadNotModified, ReadEnd, ReadingReply, Received, fd_list_remove, GoOn
<1>2. client[c] = "IDLE"
  BY <1>1 DEF ListInv, ListedAt, Live
<1>3. /\ client'[c] = "WRITING" /\ server'[c] = "freed"
      /\ \A d \in Conns \ {c} : client'[d] = client[d] /\ server'[d] = server[d]
  BY <1>1 DEF IInv, DataOK
<1>4. Server(c) \in Nodes \ {Listen}
  BY NodeNames
<1>5. Linked' /\ Range(fd_list)' = Range(fd_list) \ {Server(c)}
  BY <1>1, <1>4, Delinking DEF ListInv
<1>6. ASSUME NEW d \in Conns PROVE ListedAt(d)'
  BY <1>1, <1>2, <1>3, <1>5, NodeNames DEF ListInv, ListedAt, Live
<1> QED
  BY <1>1, <1>5, <1>6 DEF ListInv

\* The list is sound at the start.
LEMMA InitLists == Init => ListInv
<1> SUFFICES ASSUME Init PROVE ListInv
  OBVIOUS
<1>1. fd_list = <<Listen>> /\ Listen \in Nodes
  BY DEF Init, Nodes
<1>2. Range(fd_list) = {Listen} /\ IsInjective(fd_list) /\ fd_list \in Seq(Nodes)
  BY <1>1 DEF Range, IsInjective
<1>3. Linked
  BY <1>2 DEF Init, Linked
<1>4. ASSUME NEW c \in Conns PROVE ListedAt(c)
  BY <1>2, NodeNames DEF Init, ListedAt, Live
<1> QED
  BY <1>3, <1>4 DEF Init, ListInv

\* Every step keeps it so.
LEMMA NextLists == IInv /\ ListInv /\ [Next]_vars => ListInv'
<1> SUFFICES ASSUME IInv, ListInv, [Next]_vars PROVE ListInv'
  OBVIOUS
<1> DEFINE Statuses == {"yes", "segv", "dangling", "sigpipe"}
<1>1. running \in Statuses
  BY DEF ListInv
<1>2. ASSUME NEW c \in Conns, ReadReset(c) \/ ReplyBroken(c) PROVE ListInv'
  BY <1>2, SameNodes DEF ReadReset, ReplyBroken, Crash, nodes
<1>3. ASSUME NEW c \in Conns, WriteRequest(c) PROVE ListInv'
  <2>1. /\ server[c] = "WRITING" /\ server' = [server EXCEPT ![c] = "READING"]
        /\ UNCHANGED <<running, fd_list, client>> /\ ready' \subseteq ready
    BY <1>3 DEF WriteRequest, GoOn
  <2>2. server'[c] = "READING" /\ \A d \in Conns \ {c} : server'[d] = server[d]
    BY <2>1 DEF IInv, DataOK
  <2>3. \A d \in Conns : server'[d] = server[d] \/ (Live(d) /\ Live(d)')
    BY <2>1, <2>2 DEF Live
  <2> QED
    BY <1>1, <2>1, <2>3, SameNodes
<1>4. ASSUME NEW c \in Conns, ReadHeader(c) PROVE ListInv'
  <2>1. UNCHANGED <<running, fd_list, client, server>> /\ ready' \subseteq ready
    BY <1>4 DEF ReadHeader, GoOn
  <2> QED
    BY <1>1, <2>1, SameNodes
<1>5. ASSUME World PROVE ListInv'
  <2>1. UNCHANGED <<running, nodes>>
    BY <1>5 DEF World, Origins, Reply, EndReply, Ask, Leave, Break, Change
  <2> QED
    BY <1>1, <2>1, SameNodes DEF nodes
<1>6. CASE UNCHANGED vars
  BY <1>1, <1>6, SameNodes DEF vars, nodes
<1>7. ASSUME NEW c \in Conns, Handle(c) PROVE ListInv'
  BY <1>2, <1>3, <1>4, <1>7, AcceptLists, RequestLists, LeavingLists, ReceivedLists DEF Handle
<1> QED
  BY <1>5, <1>6, <1>7, SelectLists DEF Next, Loop

\* The list is sound in every run.
LEMMA Lists == Spec => []ListInv
<1>1. Init => ListInv
  BY InitLists
<1>2. IInv /\ ListInv /\ [Next]_vars => ListInv'
  BY NextLists
<1> QED
  BY <1>1, <1>2, Invariance, PTL DEF Spec

-----------------------------------------------------------------------------
(* The pages asked for, and the documents that were released *)

Asked == {url[c] : c \in Conns} \ {Null}

\* The entries of the cache stand before its blank nodes; a document is released only
\* when all slots hold different pages and another one comes.
FullInv ==
    /\ \A i, j \in 1..Slots : i < j /\ queue[j] # Null => queue[i] # Null
    /\ freed # {} => Cardinality(Asked) > Slots
    /\ \A c \in Conns : answer[c].kind = "garbage" => freed # {}
    /\ \A c \in Conns : user[c] = "away" => url[c] = Null

\* There are finitely many pages.
LEMMA AskedFinite ==
    ASSUME DataOK
    PROVE  /\ Asked \subseteq Urls /\ IsFiniteSet(Asked) /\ Cardinality(Asked) \in Nat
<1>1. Asked \subseteq Urls
  BY DEF Asked, DataOK
<1>2. MaxUrls \in Int /\ IsFiniteSet(Urls)
  BY ProxyAssumption, FS_Interval DEF Urls
<1> QED
  BY <1>1, <1>2, FS_Subset, FS_CardinalityType

\* The number of pages asked for does not decrease.
LEMMA AskedGrows ==
    ASSUME DataOK, DataOK', Asked \subseteq Asked', Cardinality(Asked) > Slots
    PROVE  Cardinality(Asked)' > Slots
<1>1. IsFiniteSet(Asked') /\ Cardinality(Asked') \in Nat
  <2>1. Asked' \subseteq Urls
    BY DEF Asked, DataOK
  <2>2. MaxUrls \in Int /\ IsFiniteSet(Urls)
    BY ProxyAssumption, FS_Interval DEF Urls
  <2> QED
    BY <2>1, <2>2, FS_Subset, FS_CardinalityType
<1>2. Cardinality(Asked) <= Cardinality(Asked')
  BY <1>1, FS_Subset
<1>3. Slots \in Nat /\ Cardinality(Asked) \in Nat
  BY ProxyAssumption, AskedFinite
<1> QED
  BY <1>1, <1>2, <1>3

\* As many pages as the cache has slots, all different, and one that is not among them.
LEMMA OneTooMany ==
    ASSUME IInv, NEW u \in Asked,
           \A i \in 1..Slots : queue[i] # Null /\ url[queue[i]] # u
    PROVE  Cardinality(Asked) > Slots
<1> DEFINE n == Slots + 1
           f == [i \in 1..n |-> IF i = n THEN u ELSE url[queue[i]]]
<1>1. Slots \in Nat /\ n \in Nat /\ \A i \in 1..n : i # n => i \in 1..Slots
  BY ProxyAssumption
<1>2. ASSUME NEW i \in 1..Slots
      PROVE  url[queue[i]] \in Asked /\ url[queue[i]] # u
  <2>1. queue[i] \in Conns /\ server[queue[i]] = "freed"
    BY DEF IInv, DataOK, Docs, QueueInv
  <2>2. url[queue[i]] \in Urls
    BY <2>1 DEF IInv, LifeInv, LifeAt
  <2>3. Null \notin Urls
    BY DEF Null, Urls
  <2> QED
    BY <2>1, <2>2, <2>3 DEF Asked
<1>3. \A i, j \in 1..Slots : url[queue[i]] = url[queue[j]] => i = j
  BY DEF IInv, QueueInv
<1>4. f \in Injection(1..n, Asked)
  <2>1. f \in [1..n -> Asked]
    BY <1>1, <1>2
  <2>2. ASSUME NEW i \in 1..n, NEW j \in 1..n, f[i] = f[j] PROVE i = j
    BY <1>1, <1>2, <1>3, <2>2
  <2> HIDE DEF f, n
  <2> QED
    BY <2>1, <2>2 DEF Injection, IsInjective
<1> HIDE DEF f
<1>5. Cardinality(1..n) = n
  BY <1>1, FS_Interval
<1>6. IsFiniteSet(Asked) /\ Cardinality(Asked) \in Nat
  BY AskedFinite DEF IInv
<1>7. Cardinality(1..n) <= Cardinality(Asked)
  BY <1>4, <1>6, FS_Injection
<1> QED
  BY <1>1, <1>5, <1>6, <1>7

\* Steps that neither release a document nor send one.
LEMMA SamePages ==
    ASSUME FullInv, DataOK, DataOK', UNCHANGED <<queue, freed, answer>>,
           \A c \in Conns : user'[c] = "away" => user[c] = "away",
           \A c \in Conns : url'[c] = url[c] \/ (user[c] = "away" /\ user'[c] # "away")
    PROVE  FullInv'
<1>1. Asked \subseteq Asked'
  BY DEF FullInv, Asked
<1> QED
  BY <1>1, AskedGrows DEF FullInv

\* server_read_handler puts a document into the cache, and may release the last one.
LEMMA ReceivedPages ==
    ASSUME IInv, DataOK', FullInv, NEW c \in Conns, ReadNotModified(c) \/ ReadEnd(c)
    PROVE  FullInv'
<1>1. /\ server[c] = "READING" /\ UNCHANGED <<user, url, answer>>
      /\ \/ is_cache_hit(url[c]) = Null /\ cache_enqueue(c)
         \/ UNCHANGED <<queue, freed>>
  BY DEF ReadNotModified, ReadEnd, ReadingReply, Received, users
<1>2. CASE UNCHANGED <<queue, freed>>
  BY <1>1, <1>2, SamePages DEF IInv
<1>3. CASE is_cache_hit(url[c]) = Null /\ cache_enqueue(c)
  <2>1. \A i \in 1..Slots : queue[i] # Null => url[queue[i]] # url[c]
    BY <1>3, HitFact, NullFact DEF IInv
  <2>2. Slots \in Nat \ {0, 1} /\ queue \in [1..Slots -> Docs]
    BY ProxyAssumption DEF IInv, DataOK
  <2>3. /\ \A i \in 1..Slots : queue'[i] = IF i = 1 THEN c ELSE queue[i - 1]
        /\ freed' = freed \cup ({queue[Slots]} \ {Null})
    BY <1>3 DEF cache_enqueue
  <2>4. url[c] \in Asked
    <3>1. url[c] \in Urls
      BY <1>1 DEF IInv, LifeInv, LifeAt, Live
    <3> QED
      BY <3>1 DEF Asked, Urls, Null
  <2>5. freed' # {} => Cardinality(Asked)' > Slots
    <3>1. Asked' = Asked
      BY <1>1 DEF Asked
    <3>2. CASE freed # {}
      BY <3>1, <3>2 DEF FullInv
    <3>3. ASSUME queue[Slots] # Null PROVE Cardinality(Asked) > Slots
      <4>1. \A i \in 1..Slots : i = Slots \/ i < Slots
        BY <2>2
      <4>2. \A i \in 1..Slots : queue[i] # Null
        BY <4>1, <3>3, <2>2 DEF FullInv
      <4> QED
        BY <4>2, <2>1, <2>4, OneTooMany
    <3> QED
      BY <3>1, <3>2, <3>3, <2>3
  <2>6. ASSUME NEW i \in 1..Slots, NEW j \in 1..Slots, i < j, queue'[j] # Null
        PROVE  queue'[i] # Null
    <3>1. CASE i = 1
      BY <3>1, <2>3, NullFact
    <3>2. CASE i # 1
      <4>1. /\ i - 1 \in 1..Slots /\ j - 1 \in 1..Slots /\ i - 1 < j - 1
            /\ queue'[i] = queue[i - 1] /\ queue'[j] = queue[j - 1]
        BY <3>2, <2>2, <2>3, <2>6
      <4> QED
        BY <4>1, <2>6 DEF FullInv
    <3> QED
      BY <3>1, <3>2
  <2>7. freed \subseteq freed'
    BY <2>3
  <2> QED
    BY <1>1, <2>5, <2>6, <2>7 DEF FullInv
<1> QED
  BY <1>1, <1>2, <1>3

\* client_write_handler sends garbage only from a released document.
LEMMA AnswerPages ==
    ASSUME IInv, FullInv, NEW c \in Conns, WriteAnswer(c)
    PROVE  FullInv'
<1>1. /\ UNCHANGED <<queue, freed, url>> /\ client[c] = "WRITING"
      /\ answer' = [answer EXCEPT ![c] = Content(cache_node[c])]
      /\ user' = [user EXCEPT ![c] = "answered"]
  BY DEF WriteAnswer, cache
<1>2. Content(cache_node[c]).kind = "garbage" => freed # {}
  <2>1. cache_node[c] \in Conns
    BY <1>1 DEF IInv, PointInv, PointAt
  <2>2. doc[cache_node[c]].kind # "garbage"
    BY <2>1, Fields DEF IInv
  <2> QED
    BY <2>2 DEF Content
<1>3. /\ answer'[c] = Content(cache_node[c]) /\ user'[c] # "away"
      /\ \A d \in Conns \ {c} : answer'[d] = answer[d] /\ user'[d] = user[d]
  BY <1>1 DEF IInv, DataOK
<1>4. Asked' = Asked
  BY <1>1 DEF Asked
<1> QED
  BY <1>1, <1>2, <1>3, <1>4 DEF FullInv

\* Nothing was released at the start.
LEMMA InitPages == Init => FullInv
  BY DEF Init, FullInv, NoAnswer

\* Every step keeps it so.
LEMMA NextPages == IInv /\ FullInv /\ [Next]_vars => FullInv'
<1> SUFFICES ASSUME IInv, FullInv, [Next]_vars PROVE FullInv'
  OBVIOUS
<1>1. DataOK /\ DataOK'
  BY NextIInv DEF IInv
<1>2. ASSUME NEW c \in Conns, NEW u \in Urls, Ask(c, u) PROVE FullInv'
  <2>1. /\ UNCHANGED <<queue, freed, answer>> /\ user[c] = "away"
        /\ \E s \in {"asked", "partial", "reset"} : user' = [user EXCEPT ![c] = s]
        /\ url' = [url EXCEPT ![c] = u] \/ UNCHANGED url
    BY <1>2 DEF Ask, cache
  <2>2. /\ user'[c] # "away" /\ \A d \in Conns \ {c} : user'[d] = user[d] /\ url'[d] = url[d]
    BY <1>1, <2>1 DEF DataOK
  <2> QED
    BY <1>1, <2>1, <2>2, SamePages
<1>3. ASSUME NEW c \in Conns, ReadRefuse(c) \/ Leave(c) PROVE FullInv'
  <2>1. /\ UNCHANGED <<queue, freed, answer, url>>
        /\ \E s \in {"refused", "gone"} : user' = [user EXCEPT ![c] = s]
    BY <1>3 DEF ReadRefuse, Leave, cache
  <2>2. \A d \in Conns : user'[d] = "away" => user[d] = "away"
    BY <1>1, <2>1 DEF DataOK
  <2> QED
    BY <1>1, <2>1, <2>2, SamePages
<1>4. ASSUME UNCHANGED <<queue, freed, users>> PROVE FullInv'
  BY <1>1, <1>4, SamePages DEF users
<1>5. ASSUME NEW c \in Conns, Handle(c) PROVE FullInv'
  <2>1. CASE ReadNotModified(c) \/ ReadEnd(c)
    BY <1>1, <2>1, ReceivedPages
  <2>2. CASE ReadRefuse(c)
    BY <1>3, <2>2
  <2>3. CASE WriteAnswer(c)
    BY <2>3, AnswerPages
  <2>4. CASE \/ Accept(c) \/ ReadReset(c) \/ ReadRequest(c) \/ WriteRequest(c)
             \/ ReplyBroken(c) \/ ReadHeader(c)
    BY <1>4, <2>4 DEF Accept, ReadReset, ReadRequest, WriteRequest, ReplyBroken, ReadHeader,
                      Crash, cache
  <2> QED
    BY <1>5, <2>1, <2>2, <2>3, <2>4 DEF Handle
<1>6. ASSUME World PROVE FullInv'
  <2>1. ASSUME NEW c \in Conns, Reply(c) \/ EndReply(c) \/ Break(c) PROVE FullInv'
    BY <1>4, <2>1 DEF Reply, EndReply, Break, cache
  <2>2. ASSUME NEW u \in Urls, Change(u) PROVE FullInv'
    BY <1>4, <2>2 DEF Change, cache
  <2> QED
    BY <1>2, <1>3, <1>6, <2>1, <2>2, ProxyAssumption DEF World, Origins
<1>7. CASE Select
  BY <1>4, <1>7 DEF Select, cache
<1>8. CASE UNCHANGED vars
  BY <1>4, <1>8 DEF vars, cache
<1> QED
  BY <1>5, <1>6, <1>7, <1>8 DEF Next, Loop

\* The same in every run.
LEMMA Pages == Spec => []FullInv
<1>1. Init => FullInv
  BY InitPages
<1>2. IInv /\ FullInv /\ [Next]_vars => FullInv'
  BY NextPages
<1> QED
  BY <1>1, <1>2, Invariance, PTL DEF Spec

-----------------------------------------------------------------------------
\* The data of the proxy keep their types.
THEOREM DataCorrect == Spec => []DataOK
<1>1. IInv => DataOK
  BY DEF IInv
<1> QED
  BY <1>1, Invariance, PTL

\* However many connections fetch the same page at the same time, the cache never holds
\* two documents of a page, one twice, one that is being received or a released one
\* (cache_enqueue and is_cache_hit, called by server_read_handler).
THEOREM QueueCorrect == Spec => []QueueSound
<1>1. IInv => QueueSound
  <2> SUFFICES ASSUME IInv, NEW i \in 1..Slots, queue[i] # Null
               PROVE  /\ queue[i] \notin freed
                      /\ doc[queue[i]].parsed /\ server[queue[i]] = "freed"
                      /\ \A j \in 1..Slots : queue[j] # Null
                            /\ url[queue[j]] = url[queue[i]] => i = j
    BY DEF QueueSound
  <2>1. queue[i] \in Conns
    BY DEF IInv, DataOK, Docs
  <2> QED
    BY <2>1 DEF IInv, QueueInv, LifeInv, LifeAt
<1> QED
  BY <1>1, Invariance, PTL

\* However pages change, and in whatever order the answers to conditional GETs move the
\* dates of the entries on, an entry for which the origin server would answer 304 is the
\* page as it is now (cache_recv on a 304, server_read_handler).
THEOREM HitsCorrect == Spec => []HitsAreCurrent
<1>1. IInv => HitsAreCurrent
  <2> SUFFICES ASSUME IInv, NEW i \in 1..Slots, queue[i] # Null,
                      doc[queue[i]].date >= site.lastmod[url[queue[i]]]
               PROVE  doc[queue[i]].version = site.lastmod[url[queue[i]]]
    BY DEF HitsAreCurrent
  <2>1. queue[i] \in Conns
    BY DEF IInv, DataOK, Docs
  <2>2. doc[queue[i]].parsed
    BY <2>1 DEF IInv, QueueInv, LifeInv, LifeAt
  <2> QED
    BY <2>1, <2>2 DEF IInv, DocInv, DocAt, Current
<1> QED
  BY <1>1, Invariance, PTL

\* A client that is not sent released memory is sent the page it asked for, as the origin
\* server had it when it replied to this client's request (client_write_handler, and all
\* the handlers before it).
THEOREM AnswerCorrect == Spec => []AnswerIsReply
<1>1. IInv => AnswerIsReply
  BY DEF IInv, AnswerInv, AnswerAt, AnswerIsReply
<1> QED
  BY <1>1, Invariance, PTL

\* The variables keep their types, and no node that was freed is still to be visited
\* (fd_select, the traversal in main).
THEOREM TypeCorrect == Spec => []TypeOK
<1>1. ListInv => ListOK
  BY SameRange, Positions DEF ListInv, Linked, ListOK, Nodes
<1>2. IInv => DataOK
  BY DEF IInv
<1>3. IInv /\ ListInv => TypeOK
  BY <1>1, <1>2 DEF TypeOK
<1> QED
  BY <1>3, Invariance, Lists, PTL

\* However the handlers add and free nodes under the traversal, the list holds exactly the
\* nodes that are not freed, each once, and every server node's client node is there and
\* waits for it (fd_list_append, fd_list_remove and the handlers that call them).
THEOREM ListCorrect == Spec => []ListSound
<1>1. ListInv => ListSound
  <2> SUFFICES ASSUME ListInv PROVE ListSound
    OBVIOUS
  <2>1. IsInjective(fd_list) /\ \A c \in Conns : ListedAt(c)
    BY DEF ListInv, Linked
  <2> QED
    BY <2>1, SameRange DEF ListSound, ListedAt, Live
<1> QED
  BY <1>1, Lists, PTL
\* However many connections there are at a time, no document in use is released, and no
\* client is sent released memory, as long as no more pages are asked for than the cache
\* has slots (cache_enqueue and cache_dequeue, client_write_handler).
THEOREM FewPages == Spec => []FewPagesKept
<1>1. FullInv => FewPagesKept
  BY DEF FullInv, FewPagesKept, Torn, Asked
<1> QED
  BY <1>1, Pages, PTL
=============================================================================
