------------------------- MODULE ProxyFetches_proofs -------------------------
(***************************************************************************)
(* Proofs about the fetches of Proxy and the clients that wait for them:   *)
(* who fills a page, who wakes a client, and what gets into the cache.     *)
(***************************************************************************)
EXTENDS ProxyPages_proofs, FiniteSetTheorems

-----------------------------------------------------------------------------
(***************************************************************************)
(* The connections to origins, and what becomes of them.                   *)
(***************************************************************************)
\* Server connection d, whose entry is f, was the k-th and has not ended.
Stood(d, f, k) ==
    LET s == serverConnections[k]
        e == entryOf(s)
        own == k = it /\ (ServerReceivesData \/ ServerSendsRequest)
    IN  /\ SameConnection(d, s)
        /\ ~(ServerGoes /\ k = it)
        /\ IF ServerSendsRequest /\ k = it THEN f.events = "IN" ELSE f.events = e.events
        /\ \/ f.revents = {}
           \/ f.revents = e.revents /\ ~own
           \/ Poll /\ f.revents = ReadyEvents(s.socketFd, e.events)

\* It has just been started.
Started(d, f) ==
    /\ ClientStartsFetch /\ FreeDescriptors # {}
    /\ d.socketFd = NewDescriptor /\ d.URl = request[client.buffer] /\ d.buffer = client.buffer
    /\ f.events = "OUT" /\ f.revents = {}

Stands(d, f) == Started(d, f) \/ \E k \in 1..Len(serverConnections) : Stood(d, f, k)

\* The k-th is still there.
Lasts(k) ==
    \E j \in 1..Len(serverConnections') : SameConnection(serverConnections'[j], serverConnections[k])

\* One turn is one step.
LEMMA OneTurn ==
  ASSUME IInv, ServerReceivesData \/ ServerSendsRequest \/ ServerGoes
  PROVE  /\ ~Poll /\ ~addNewConnection /\ ~Reads /\ ~ClientServed /\ ~ClientGoes
         /\ ServerGoes => ~ServerReceivesData /\ ~ServerSendsRequest
         /\ ~(ServerReceivesData /\ ServerSendsRequest)
<1>1. pc = "servers"
  BY ServerGoing DEF ServerReceivesData, ServerSendsRequest, ServerReadable, ServerWritable, ServerTurn
<1>2. ~Poll /\ ~addNewConnection /\ ~Reads /\ ~ClientServed /\ ~ClientGoes
  BY <1>1, ClientGoing DEF Poll, addNewConnection, Reads, ClientReceivesPart, ClientAsksForCached,
     ClientStartsFetch, ReceivesRequest, Receives, ClientReadable, ClientServed, ClientWritable, ClientTurn
<1>3. ASSUME ServerGoes PROVE ~ServerReceivesData /\ ~ServerSendsRequest
  <2>1. PICK table : removeServerConnection(it, table) /\ ServerTurn
    BY <1>3, ServerGoing
  <2>2. it' = Len(serverConnections) /\ it \in 1..Len(serverConnections)
    BY <2>1, ServerAtTurn DEF removeServerConnection
  <2>3. ServerReceivesData \/ ServerSendsRequest => it' = it + 1 /\ serverConnections' = serverConnections
    BY DEF ServerReceivesData, ServerSendsRequest
  <2>4. PICK j \in 1..Len(serverConnections) : j = it
    BY <2>2
  <2>5. Len(serverConnections') = Len(serverConnections) - 1
    <3> DEFINE p == serverConnections[j].pollFdsIndex
               u == updatePollFdIndexes(serverConnections, p)
    <3>1. serverConnections' = RemoveAt(u, j)
      BY <2>1, <2>4 DEF removeServerConnection, eraseConnection
    <3>2. serverConnections \in Seq(Conns(Urls)) /\ p \in Nat \ {0}
      BY TableFacts DEF IInv, Types, ServerConns
    <3>3. u \in Seq(Conns(Urls)) /\ Len(u) = Len(serverConnections)
      BY <3>2, UpdateSeen
    <3> HIDE DEF u
    <3>4. Len(RemoveAt(u, j)) = Len(u) - 1
      BY <3>3, RemoveAtProperties
    <3>5. QED
      BY <3>1, <3>3, <3>4
  <2>6. QED
    BY <2>2, <2>3, <2>5, TableFacts
<1>4. ~(ServerReceivesData /\ ServerSendsRequest)
  BY DEF ServerReceivesData, ServerSendsRequest, ServerReadable, ServerWritable
<1>5. QED
  BY <1>2, <1>3, <1>4

\* A step of somebody else leaves connections to origins and their entries.
LEMMA FetchesStay ==
  ASSUME IInv, [Next]_vars, ~Poll, ~ClientStartsFetch,
         ~ServerReceivesData, ~ServerSendsRequest, ~ServerGoes
  PROVE  Stay(pollFds', serverConnections', pollFds, serverConnections)
<1> DEFINE EntriesKept(t) == \A j \in 1..Len(serverConnections) :
                        t[serverConnections[j].pollFdsIndex] = entryOf(serverConnections[j])
<1>1. ASSUME serverConnections' = serverConnections, EntriesKept(pollFds')
      PROVE  Stay(pollFds', serverConnections', pollFds, serverConnections)
  BY <1>1 DEF Stay, Follows, SameConnection, entryOf
<1>2. ASSUME pollFds' = pollFds PROVE EntriesKept(pollFds')
  BY <1>2 DEF entryOf
<1>3. CASE Outside \/ Moves \/ ClientReceivesPart \/ stop
  <2>1. serverConnections' = serverConnections /\ pollFds' = pollFds
    BY <1>3 DEF Outside, ProgramVars, Moves, ClientIdle, ClientReceivesMalformed, ClientsDone,
       ServerIdle, ServerReadsFreedBuffer, RoundDone, stop, Interrupt, vars, tableVars,
       ClientReceivesPart
  <2>2. QED
    BY <1>1, <1>2, <2>1
<1>4. CASE addNewConnection
  <2>1. serverConnections' = serverConnections /\ (pollFds' = pollFds \/ \E e : pollFds' = Append(pollFds, e))
    BY <1>4 DEF addNewConnection
  <2>2. ASSUME NEW e, pollFds' = Append(pollFds, e) PROVE EntriesKept(pollFds')
    <3>1. \A p \in 1..Len(pollFds) : pollFds'[p] = pollFds[p]
      BY <2>2, TableFacts DEF IInv, Types
    <3>2. QED
      BY <3>1, TableFacts DEF entryOf
  <2>3. QED
    BY <1>1, <1>2, <2>1, <2>2
<1>5. CASE ClientAsksForCached \/ ClientServed
  <2>1. /\ it \in 1..Len(clientConnections) /\ client = clientConnections[it]
    BY <1>5, Turns DEF Reads
  <2>2. \/ /\ serverConnections' = serverConnections
           /\ \E x : pollFds' = [pollFds EXCEPT ![client.pollFdsIndex] = x]
        \/ \E sockets : removeClientConnection(it, sockets, "complete")
    <3>1. CASE ClientAsksForCached
      <4>1. pollFds' = [pollFds EXCEPT ![client.pollFdsIndex].revents = {}, ![client.pollFdsIndex].events = "OUT"]
        BY <3>1 DEF ClientAsksForCached
      <4>2. \E x : pollFds' = [pollFds EXCEPT ![client.pollFdsIndex] = x]
        BY <4>1
      <4>3. QED
        BY <3>1, <4>2 DEF ClientAsksForCached
    <3>2. CASE ClientServed
      BY <3>2 DEF ClientServed
    <3>3. QED
      BY <1>5, <3>1, <3>2
  <2>3. CASE \E sockets : removeClientConnection(it, sockets, "complete")
    <3>1. PICK sockets : removeClientConnection(it, sockets, "complete")
      BY <2>3
    <3>2. PICK i \in 1..Len(clientConnections) : i = it
      BY <2>1
    <3>3. removeClientConnection(i, sockets, "complete")
      BY <3>1, <3>2 DEF removeClientConnection, deleteBuffer
    <3>4. QED
      BY <3>3, ClientRemovalMoves
  <2>4. ASSUME NEW x, pollFds' = [pollFds EXCEPT ![client.pollFdsIndex] = x]
        PROVE  EntriesKept(pollFds')
    BY <2>1, <2>4, TableFacts DEF entryOf, IInv, Linked, Disjoint
  <2>5. QED
    BY <1>1, <2>2, <2>3, <2>4
<1>6. CASE ClientGoes
  <2>1. PICK sockets, how : removeClientConnection(it, sockets, how)
    BY <1>6, ClientGoing
  <2>2. PICK i \in 1..Len(clientConnections) : i = it
    BY <1>6, Turns
  <2>3. removeClientConnection(i, sockets, how)
    BY <2>1, <2>2 DEF removeClientConnection, deleteBuffer
  <2>4. QED
    BY <2>3, ClientRemovalMoves
<1>7. QED
  BY <1>3, <1>4, <1>5, <1>6, Steps DEF Reads

\* What FetchesStay says of each of them.
LEMMA FetchesStand ==
  ASSUME IInv, Stay(pollFds', serverConnections', pollFds, serverConnections), ~ServerGoes,
         ~ServerReceivesData, ~ServerSendsRequest
  PROVE  /\ \A j \in 1..Len(serverConnections') :
                Stands(serverConnections'[j], pollFds'[serverConnections'[j].pollFdsIndex])
         /\ \A k \in 1..Len(serverConnections) : Lasts(k)
<1>1. \A j \in 1..Len(serverConnections) :
        /\ Stood(serverConnections'[j], pollFds'[serverConnections'[j].pollFdsIndex], j)
        /\ SameConnection(serverConnections'[j], serverConnections[j])
  BY DEF Stay, Follows, Stood, entryOf
<1>2. Len(serverConnections') = Len(serverConnections)
  BY DEF Stay
<1>3. QED
  BY <1>1, <1>2 DEF Stands, Lasts

\* poll() reports events of connections to origins.
LEMMA FetchesPolled ==
  ASSUME IInv, Poll, NEW j \in 1..Len(serverConnections)
  PROVE  /\ serverConnections' = serverConnections
         /\ Stood(serverConnections[j], pollFds'[serverConnections[j].pollFdsIndex], j)
<1> DEFINE p == serverConnections[j].pollFdsIndex
           ready == ReadyEvents(pollFds[p].fd, pollFds[p].events)
<1>1. /\ p \in 1..Len(pollFds) /\ p # ACCEPT_INDEX /\ DOMAIN pollFds = 1..Len(pollFds)
      /\ pollFds[p] \in Entry /\ pollFds[p].fd = serverConnections[j].socketFd
  BY TableFacts DEF ACCEPT_INDEX
<1>2. serverConnections' = serverConnections /\ pollFds'[p] = [pollFds[p] EXCEPT !.revents = ready]
  BY <1>1 DEF Poll
<1>3. pollFds'[p].events = pollFds[p].events /\ pollFds'[p].revents = ready
  BY <1>1, <1>2 DEF Entry
<1>4. ~ServerGoes /\ ~ServerSendsRequest
  BY OneTurn
<1>5. QED
  BY <1>1, <1>2, <1>3, <1>4 DEF Stood, entryOf, SameConnection

\* The step that starts one.
LEMMA FetchesAfterStart ==
  ASSUME IInv, ClientStartsFetch
  PROVE  /\ \A j \in 1..Len(serverConnections') :
                Stands(serverConnections'[j], pollFds'[serverConnections'[j].pollFdsIndex])
         /\ \A k \in 1..Len(serverConnections) : Lasts(k)
         /\ \E j \in 1..Len(serverConnections') :
                serverConnections'[j].URl = request[client.buffer]
<1> DEFINE url == request[client.buffer]
           p == client.pollFdsIndex
           fd == NewDescriptor
           t == [pollFds EXCEPT ![p].revents = {}]
           e == [fd |-> fd, events |-> "OUT", revents |-> {}]
           conn == [socketFd |-> fd, pollFdsIndex |-> Len(pollFds) + 1,
                    URl |-> url, buffer |-> client.buffer]
           n == Len(serverConnections)
<1>1. ClientTurn
  BY DEF ClientStartsFetch, ReceivesRequest, Receives, ClientReadable
<1>2. /\ FreeDescriptors # {} /\ pollFds' = Append(t, e)
      /\ serverConnections' = Append(serverConnections, conn)
  BY <1>1, ClientAtTurn DEF ClientStartsFetch
<1>3. /\ n \in Nat /\ serverConnections \in Seq(ServerConns) /\ pollFds \in Seq(Entry)
      /\ p \in 1..Len(pollFds) /\ p = clientConnections[it].pollFdsIndex
      /\ it \in 1..Len(clientConnections) /\ Len(pollFds) \in Nat
  BY <1>1, ClientAtTurn, TableFacts DEF IInv, Types, client
<1>4. /\ DOMAIN t = DOMAIN pollFds /\ Len(t) = Len(pollFds) /\ DOMAIN pollFds = 1..Len(pollFds)
      /\ \A q \in 1..Len(pollFds) : q # p => t[q] = pollFds[q]
  BY <1>3
<1>5. \A k \in 1..n : t[serverConnections[k].pollFdsIndex] = entryOf(serverConnections[k])
                      /\ serverConnections[k].pollFdsIndex \in 1..Len(pollFds)
  BY <1>3, <1>4, TableFacts DEF entryOf, IInv, Linked, Disjoint
<1>6. /\ conn.socketFd = fd /\ conn.pollFdsIndex = Len(pollFds) + 1 /\ conn.URl = url
      /\ conn.buffer = client.buffer /\ e.events = "OUT" /\ e.revents = {}
  OBVIOUS
<1> HIDE DEF t, e, conn, n, url
<1>7. /\ Len(serverConnections') = n + 1 /\ serverConnections'[n + 1] = conn
      /\ \A k \in 1..n : serverConnections'[k] = serverConnections[k]
  BY <1>2, <1>3 DEF n
<1>8. pollFds'[Len(pollFds) + 1] = e /\ \A q \in 1..Len(pollFds) : pollFds'[q] = t[q]
  BY <1>2, <1>3, <1>4
<1>9. ~ServerGoes /\ ~ServerSendsRequest /\ ~ServerReceivesData
  BY OneTurn DEF Reads
<1>10. \A k \in 1..n : Stood(serverConnections'[k], pollFds'[serverConnections'[k].pollFdsIndex], k)
  BY <1>5, <1>7, <1>8, <1>9 DEF Stood, SameConnection
<1>11. Started(conn, e)
  BY <1>2, <1>6 DEF Started, url, fd
<1>12. \A j \in 1..Len(serverConnections') :
            Stands(serverConnections'[j], pollFds'[serverConnections'[j].pollFdsIndex])
  <2>1. Stands(conn, e) /\ pollFds'[conn.pollFdsIndex] = e
    BY <1>6, <1>8, <1>11 DEF Stands
  <2>2. \A j \in 1..n + 1 : j \in 1..n \/ j = n + 1
    BY <1>3 DEF n
  <2>3. QED
    BY <1>7, <1>10, <2>1, <2>2 DEF Stands, n
<1>13. \A k \in 1..n : Lasts(k)
  BY <1>3, <1>7 DEF Lasts, SameConnection, n
<1>14. serverConnections'[n + 1].URl = url
  BY <1>6, <1>7
<1>15. n + 1 \in 1..Len(serverConnections')
  BY <1>3, <1>7 DEF n
<1>16. \E j \in 1..Len(serverConnections') : serverConnections'[j].URl = url
  BY <1>14, <1>15
<1>17. QED
  BY <1>12, <1>13, <1>16 DEF n, url

\* The turn of one.
LEMMA FetchesAfterTurn ==
  ASSUME IInv, ServerReceivesData \/ ServerSendsRequest, NEW j \in 1..Len(serverConnections)
  PROVE  /\ serverConnections' = serverConnections
         /\ Stood(serverConnections[j], pollFds'[serverConnections[j].pollFdsIndex], j)
<1> DEFINE p == server.pollFdsIndex
           q == serverConnections[j].pollFdsIndex
           t == prepareClientsToWrite(server.URl)
<1>1. ServerTurn /\ serverConnections' = serverConnections /\ ~ServerGoes
  BY OneTurn DEF ServerReceivesData, ServerSendsRequest, ServerReadable, ServerWritable
<1>2. /\ it \in 1..Len(serverConnections) /\ server = serverConnections[it] /\ server.URl \in Urls
      /\ p \in 1..Len(pollFds) /\ q \in 1..Len(pollFds) /\ DOMAIN pollFds = 1..Len(pollFds)
      /\ pollFds[q] \in Entry /\ (q = p <=> j = it)
  BY <1>1, ServerAtTurn, TableFacts DEF server, IInv, Linked, Apart
<1>3. t[q] = pollFds[q] /\ DOMAIN t = 1..Len(pollFds)
  BY <1>2, PreparedEntries DEF prepareClientsToWrite
<1> HIDE DEF t, p, q
<1>4. CASE ServerReceivesData
  <2>1. pollFds' = [t EXCEPT ![p].revents = {}] /\ ~ServerSendsRequest
    BY <1>4, OneTurn DEF ServerReceivesData, t, p
  <2>2. CASE j = it
    <3>1. pollFds'[q].events = pollFds[q].events /\ pollFds'[q].revents = {}
      BY <1>2, <1>3, <2>1, <2>2 DEF Entry
    <3>2. QED
      BY <1>1, <2>1, <3>1 DEF Stood, entryOf, SameConnection, q
  <2>3. CASE j # it
    <3>1. pollFds'[q] = pollFds[q]
      BY <1>2, <1>3, <2>1, <2>3
    <3>2. QED
      BY <1>1, <2>3, <3>1 DEF Stood, entryOf, SameConnection, q
  <2>4. QED
    BY <2>2, <2>3
<1>5. CASE ServerSendsRequest
  <2>1. pollFds' = [pollFds EXCEPT ![p].events = "IN", ![p].revents = {}]
    BY <1>5 DEF ServerSendsRequest, p
  <2>2. CASE j = it
    <3>1. pollFds'[q].events = "IN" /\ pollFds'[q].revents = {}
      BY <1>2, <2>1, <2>2 DEF Entry
    <3>2. QED
      BY <1>1, <1>5, <2>2, <3>1 DEF Stood, entryOf, SameConnection, q
  <2>3. CASE j # it
    <3>1. pollFds'[q] = pollFds[q]
      BY <1>2, <2>1, <2>3
    <3>2. QED
      BY <1>1, <2>3, <3>1 DEF Stood, entryOf, SameConnection, q
  <2>4. QED
    BY <2>2, <2>3
<1>6. QED
  BY <1>4, <1>5

\* The end of one.
LEMMA FetchesAfterEnd ==
  ASSUME IInv, ServerGoes
  PROVE  /\ \A j \in 1..Len(serverConnections') :
                Stands(serverConnections'[j], pollFds'[serverConnections'[j].pollFdsIndex])
         /\ \A k \in 1..Len(serverConnections) : k # it => Lasts(k)
<1>1. ServerTurn
  BY ServerGoing
<1>2. PICK i \in 1..Len(serverConnections) : i = it
  BY <1>1, ServerAtTurn
<1>3. server.URl \in Urls
  BY <1>1, ServerAtTurn
<1>4. PICK table \in {pollFds, prepareClientsToWrite(server.URl)} : removeServerConnection(it, table)
  BY ServerGoing
<1>5. removeServerConnection(i, table)
  BY <1>2, <1>4 DEF removeServerConnection
<1>6. /\ table \in Seq(Entry) /\ SameFds(table, pollFds)
      /\ \A k \in 1..Len(serverConnections) :
            table[serverConnections[k].pollFdsIndex] = entryOf(serverConnections[k])
  <2>1. CASE table = pollFds
    BY <2>1 DEF IInv, Types, SameFds, entryOf
  <2>2. CASE table = prepareClientsToWrite(server.URl)
    BY <1>3, <2>2, PreparingWatches, PreparedEntries DEF entryOf
  <2>3. QED
    BY <2>1, <2>2
<1>7. Survive(pollFds', serverConnections', table, serverConnections, i)
  BY <1>5, <1>6, ServerRemovalMoves
<1>8. ~ServerSendsRequest /\ ~ServerReceivesData
  BY OneTurn
<1>9. ASSUME NEW j \in 1..Len(serverConnections')
      PROVE  Stands(serverConnections'[j], pollFds'[serverConnections'[j].pollFdsIndex])
  <2>1. PICK k \in 1..Len(serverConnections) :
            k # i /\ Follows(pollFds', serverConnections'[j], table, serverConnections[k])
    BY <1>7 DEF Survive
  <2>2. Stood(serverConnections'[j], pollFds'[serverConnections'[j].pollFdsIndex], k)
    BY <1>2, <1>6, <1>8, <2>1 DEF Stood, Follows
  <2>3. QED
    BY <2>2 DEF Stands
<1>10. ASSUME NEW k \in 1..Len(serverConnections), k # it PROVE Lasts(k)
  BY <1>2, <1>7, <1>10 DEF Survive, Follows, Lasts
<1>11. QED
  BY <1>9, <1>10

\* Every connection to an origin was there, or has just been started; and
\* each stays unless its own turn ends it.
LEMMA FetchesDescend ==
  ASSUME IInv, [Next]_vars
  PROVE  /\ \A j \in 1..Len(serverConnections') :
                Stands(serverConnections'[j], pollFds'[serverConnections'[j].pollFdsIndex])
         /\ \A k \in 1..Len(serverConnections) : (ServerGoes /\ k = it) \/ Lasts(k)
<1>1. CASE Poll
  <2>1. serverConnections' = serverConnections
    BY <1>1 DEF Poll
  <2>2. QED
    BY <1>1, <2>1, FetchesPolled DEF Stands, Lasts, SameConnection
<1>2. CASE ClientStartsFetch
  BY <1>2, FetchesAfterStart
<1>3. CASE ServerReceivesData \/ ServerSendsRequest
  <2>1. serverConnections' = serverConnections
    BY <1>3 DEF ServerReceivesData, ServerSendsRequest
  <2>2. QED
    BY <1>3, <2>1, FetchesAfterTurn DEF Stands, Lasts, SameConnection
<1>4. CASE ServerGoes
  BY <1>4, FetchesAfterEnd
<1>5. QED
  BY <1>1, <1>2, <1>3, <1>4, FetchesStay, FetchesStand

-----------------------------------------------------------------------------
(***************************************************************************)
(* Origins that neither fail nor answer with nothing.                      *)
(***************************************************************************)
\* The socket of such an origin: nothing comes before the request, and it is
\* not closed before something has come.
Honest(s) ==
    /\ s.rx \in Nat /\ s.next \in Nat /\ ~s.rst
    /\ s.fin => s.rx + s.next > 0
    /\ s.req = NoUrl => s.rx = 0 /\ s.next = 0 /\ ~s.fin

\* The surroundings in which the origins are such, and their sockets.
HonestOrigins ==
    /\ RespLen > 0 /\ RespLen \in Nat
    /\ faults \cap {"emptyResponse", "originFails"} = {}
    /\ Running => \A fd \in DOMAIN sock : sock[fd].peer = Origin => Honest(sock[fd])

\* A fetch whose socket is s, with its entry: its page is there once it has
\* read something, it is read when there is something, and before it has
\* sent its request nothing comes.
Fetches(there, s, entry) ==
    /\ s.next > 0 => there
    /\ "ERR" \notin entry.revents
    /\ "IN" \in entry.revents => s.rx > 0 \/ s.fin
    /\ entry.events = "OUT" => s.req = NoUrl
    /\ "OUT" \in entry.revents => entry.events = "OUT"

GoodFetch(s) == sock[s.socketFd].peer = Origin /\ Fetches(contains(s.URl), sock[s.socketFd], entryOf(s))

\* What has happened to a socket while its proxy did nothing.
Further(t, s) ==
    /\ t.next = s.next /\ t.req = s.req /\ t.rx >= s.rx /\ (s.fin => t.fin)

\* An honest origin goes on sending.
LEMMA OriginsGoOn ==
  ASSUME IInv, HonestOrigins, Outside, NEW fd \in DOMAIN sock, sock[fd].peer = Origin
  PROVE  Honest(sock'[fd]) /\ Further(sock'[fd], sock[fd])
<1>1. Honest(sock[fd]) /\ sock[fd] \in Socket /\ sock[fd].peer \notin Clients
  BY NetworkAssumption DEF HonestOrigins, Outside, IInv, Types
<1>2. sock[fd].rx \in Nat /\ sock[fd].next \in Nat
  BY <1>1 DEF Honest
<1>3. CASE sock'[fd] = sock[fd]
  BY <1>1, <1>2, <1>3 DEF Further
<1>4. ASSUME NEW g \in DOMAIN sock, ClientSend(g) \/ ClientLeaves(g)
      PROVE  sock'[fd] = sock[fd]
  <2>1. g # fd
    BY <1>1, <1>4 DEF ClientSend, ClientLeaves
  <2>2. QED
    BY <1>4, <2>1 DEF ClientSend, ClientLeaves
<1>5. ASSUME NEW g \in DOMAIN sock, ClientRead(g) \/ OriginAccept(g), g = fd
      PROVE  Honest(sock'[fd]) /\ Further(sock'[fd], sock[fd])
  <2>1. sock' = [sock EXCEPT ![fd].txq = 0] \/ sock' = [sock EXCEPT ![fd].up = TRUE]
    BY <1>5 DEF ClientRead, OriginAccept
  <2>2. /\ sock'[fd].rx = sock[fd].rx /\ sock'[fd].next = sock[fd].next /\ sock'[fd].rst = sock[fd].rst
        /\ sock'[fd].fin = sock[fd].fin /\ sock'[fd].req = sock[fd].req
    BY <1>1, <2>1 DEF Socket
  <2>3. QED
    BY <1>1, <1>2, <2>2 DEF Honest, Further
<1>6. ASSUME NEW g \in DOMAIN sock, OriginSend(g), g = fd
      PROVE  Honest(sock'[fd]) /\ Further(sock'[fd], sock[fd])
  <2>1. sock' = [sock EXCEPT ![fd].rx = @ + 1] /\ sock[fd].req # NoUrl
    BY <1>6 DEF OriginSend, Responding
  <2>2. /\ sock'[fd].rx = sock[fd].rx + 1 /\ sock'[fd].next = sock[fd].next /\ sock'[fd].rst = sock[fd].rst
        /\ sock'[fd].fin = sock[fd].fin /\ sock'[fd].req = sock[fd].req
    BY <1>1, <2>1 DEF Socket
  <2>3. QED
    BY <1>1, <1>2, <2>1, <2>2 DEF Honest, Further
<1>7. ASSUME NEW g \in DOMAIN sock, OriginClose(g), g = fd
      PROVE  Honest(sock'[fd]) /\ Further(sock'[fd], sock[fd])
  <2>1. sock' = [sock EXCEPT ![fd].fin = TRUE] /\ sock[fd].req # NoUrl
    BY <1>7 DEF OriginClose, Responding
  <2>2. sock[fd].rx + sock[fd].next > 0
    BY <1>2, <1>7 DEF OriginClose, Responded, HonestOrigins
  <2>3. /\ sock'[fd].rx = sock[fd].rx /\ sock'[fd].next = sock[fd].next /\ sock'[fd].rst = sock[fd].rst
        /\ sock'[fd].fin = TRUE /\ sock'[fd].req = sock[fd].req
    BY <1>1, <2>1 DEF Socket
  <2>4. QED
    BY <1>1, <1>2, <2>1, <2>2, <2>3 DEF Honest, Further
<1>8. ASSUME NEW g \in DOMAIN sock, g # fd,
             ClientRead(g) \/ OriginAccept(g) \/ OriginSend(g) \/ OriginClose(g)
      PROVE  sock'[fd] = sock[fd]
  BY <1>8 DEF ClientRead, OriginAccept, OriginSend, OriginClose
<1>9. ASSUME NEW g \in DOMAIN sock, OriginReset(g) PROVE FALSE
  BY <1>9 DEF OriginReset, HonestOrigins
<1>10. ASSUME NEW c \in Clients, ClientConnect(c) PROVE sock'[fd] = sock[fd]
  BY <1>10 DEF ClientConnect
<1>11. QED
  BY <1>3, <1>4, <1>5, <1>6, <1>7, <1>8, <1>9, <1>10 DEF Outside, ClientStep, OriginStep

\* What the turn of a fetch does to its socket.
LEMMA TurnOfSocket ==
  ASSUME IInv, HonestOrigins, ServerReceivesData \/ ServerSendsRequest,
         GoodFetch(server), NEW fd, fd = server.socketFd
  PROVE  /\ Honest(sock'[fd]) /\ sock'[fd].peer = Origin
         /\ ServerReceivesData => sock'[fd].next > 0 /\ sock'[fd].req = sock[fd].req
         /\ ServerSendsRequest => sock'[fd].next = sock[fd].next
<1>1. ServerTurn
  BY DEF ServerReceivesData, ServerSendsRequest, ServerReadable, ServerWritable
<1>2. /\ fd \in DOMAIN sock /\ sock[fd] \in Socket /\ Running
      /\ sock[fd].peer = Origin /\ Honest(sock[fd])
      /\ sock[fd].rx \in Nat /\ sock[fd].next \in Nat
  BY <1>1, ServerAtTurn DEF HonestOrigins, Honest, GoodFetch
<1>3. CASE ServerReceivesData
  <2>1. PICK n \in 1..BUF_SIZE : n = recvCount(fd) /\ sock' = Received(fd, n)
    BY <1>3 DEF ServerReceivesData
  <2>2. n \in Nat /\ n > 0 /\ n <= sock[fd].rx
    BY <1>2, <2>1, NetworkAssumption DEF recvCount, SmallerOf
  <2>3. /\ sock'[fd].rx = sock[fd].rx - n /\ sock'[fd].next = sock[fd].next + n
        /\ sock'[fd].rst = sock[fd].rst /\ sock'[fd].fin = sock[fd].fin
        /\ sock'[fd].req = sock[fd].req /\ sock'[fd].peer = sock[fd].peer
    BY <1>2, <2>1 DEF Received, Socket
  <2>4. sock[fd].req # NoUrl
    BY <1>2, <2>2 DEF Honest
  <2>5. QED
    BY <1>2, <1>3, <2>2, <2>3, <2>4, OneTurn DEF Honest
<1>4. CASE ServerSendsRequest
  <2>1. PICK r : sock' = [sock EXCEPT ![fd].req = r]
    BY <1>4 DEF ServerSendsRequest
  <2>2. /\ sock'[fd].rx = sock[fd].rx /\ sock'[fd].next = sock[fd].next
        /\ sock'[fd].rst = sock[fd].rst /\ sock'[fd].fin = sock[fd].fin
        /\ sock'[fd].peer = sock[fd].peer
    BY <1>2, <2>1 DEF Socket
  <2>3. "OUT" \in entryOf(server).revents
    BY <1>4 DEF ServerSendsRequest, ServerWritable, reventsOf, entryOf
  <2>4. sock[fd].req = NoUrl
    BY <2>3 DEF GoodFetch, Fetches
  <2>5. sock[fd].rx = 0 /\ sock[fd].next = 0 /\ ~sock[fd].fin
    BY <1>2, <2>4 DEF Honest
  <2>6. QED
    BY <1>2, <1>4, <2>2, <2>5, OneTurn DEF Honest
<1>5. QED
  BY <1>3, <1>4

\* A page that is there stays.
LEMMA PagesStay ==
  ASSUME [Next]_vars, NEW url, contains(url)
  PROVE  contains(url)'
<1>1. \/ cacheMap' = cacheMap
      \/ \E v : getCurrentData(v)
      \/ \E v, data : addData(v, data)
  BY CacheUntouched DEF cacheVars, ClientServed, ClientSendFails, ClientStartsFetch, ServerReceivesEnd,
     ServerReceivesData
<1>2. QED
  BY <1>1 DEF contains, getCurrentData, addData, Assign

\* So do the sockets of honest origins, whatever the step.
LEMMA HonestOriginsStay ==
  ASSUME IInv, IInv', [Next]_vars, HonestOrigins,
         ServerReceivesData \/ ServerSendsRequest => GoodFetch(server)
  PROVE  HonestOrigins'
<1>1. /\ RespLen' > 0 /\ RespLen' \in Nat
      /\ faults' \cap {"emptyResponse", "originFails"} = {}
  BY SurroundingsStay DEF HonestOrigins
<1>2. ASSUME Running', NEW fd \in DOMAIN sock', sock'[fd].peer = Origin
      PROVE  Honest(sock'[fd])
  <2>1. Running
    BY <1>2, RunningBefore
  <2>2. CASE fd \notin DOMAIN sock
    <3>1. \E f : sock'[fd] = ServerSocket(f)
      <4>1. \A c \in Clients : ClientSocket(c).peer # Origin
        BY NetworkAssumption DEF ClientSocket
      <4>2. QED
        BY <1>2, <2>2, <4>1, NewSockets
    <3>2. \A f : Honest(ServerSocket(f))
      BY DEF Honest, ServerSocket, ClientSocket
    <3>3. QED
      BY <3>1, <3>2
  <2>3. CASE fd \in DOMAIN sock
    <3>1. sock[fd].peer = Origin /\ Honest(sock[fd])
      BY <1>2, <2>1, <2>3, OwnersStay DEF HonestOrigins
    <3>2. CASE Outside
      BY <2>3, <3>1, <3>2, OriginsGoOn
    <3>3. CASE (ServerReceivesData \/ ServerSendsRequest) /\ fd = server.socketFd
      BY <3>3, TurnOfSocket
    <3>4. Reads \/ ClientServed => fd # client.socketFd
      BY <2>1, <3>1, Turns, WhenRunning, NetworkAssumption DEF ConnectionsOpen
    <3>5. CASE ~Outside /\ (ServerReceivesData \/ ServerSendsRequest => fd # server.socketFd)
      BY <1>2, <2>3, <3>1, <3>4, <3>5, SocketsStay
    <3>6. QED
      BY <3>2, <3>3, <3>5
  <2>4. QED
    BY <2>2, <2>3
<1>3. QED
  BY <1>1, <1>2 DEF HonestOrigins

\* The events of a fetch are what poll() reports of an honest origin.
LEMMA GoodEvents ==
  ASSUME NEW fd, NEW event, Honest(sock[fd])
  PROVE  LET ready == ReadyEvents(fd, event)
         IN  /\ "ERR" \notin ready
             /\ "IN" \in ready => sock[fd].rx > 0 \/ sock[fd].fin
             /\ "OUT" \in ready => event = "OUT"
BY DEF ReadyEvents, Honest

FetchesAreGood ==
    Running => \A j \in 1..Len(serverConnections) : GoodFetch(serverConnections[j])

\* Fetches of the next state are as good as those they were.
LEMMA FetchGoesOn ==
  ASSUME IInv, IInv', [Next]_vars, HonestOrigins, Running', Running,
         NEW j \in 1..Len(serverConnections'), NEW d, d = serverConnections'[j],
         NEW k \in 1..Len(serverConnections), Stood(d, pollFds'[d.pollFdsIndex], k),
         GoodFetch(serverConnections[k])
  PROVE  /\ GoodFetch(d)'
         /\ sock'[d.socketFd].next >= sock[d.socketFd].next
         /\ k = it /\ ServerReceivesData => sock'[d.socketFd].next > 0
<1> DEFINE own == k = it /\ (ServerReceivesData \/ ServerSendsRequest)
<1>0. PICK s, e, f, fd, there, known :
        /\ s = serverConnections[k] /\ e = entryOf(s) /\ f = pollFds'[d.pollFdsIndex]
        /\ fd = s.socketFd /\ there = contains(s.URl) /\ known = contains(s.URl)'
  OBVIOUS
<1>1. /\ d.socketFd = fd /\ d.URl = s.URl /\ ~(ServerGoes /\ k = it)
      /\ IF ServerSendsRequest /\ k = it THEN f.events = "IN" ELSE f.events = e.events
      /\ \/ f.revents = {}
         \/ f.revents = e.revents /\ ~own
         \/ Poll /\ f.revents = ReadyEvents(fd, e.events)
  BY <1>0 DEF Stood, SameConnection
<1>2. /\ fd \in DOMAIN sock /\ fd \in DOMAIN sock'
      /\ Reads \/ ClientServed => fd # client.socketFd
      /\ k # it /\ (ServerReceivesData \/ ServerSendsRequest) => fd # server.socketFd
  BY <1>0, <1>1, WhenRunning, NextWhenRunning, Turns DEF ConnectionsOpen
<1>3. sock[fd].peer = Origin /\ Honest(sock[fd]) /\ Fetches(there, sock[fd], e)
  BY <1>0, <1>2 DEF GoodFetch, HonestOrigins
<1>4. sock[fd].next \in Nat /\ sock[fd].rx \in Nat
  BY <1>3 DEF Honest
<1>5. there => known
  BY <1>0, PagesStay
<1>6. sock'[fd].peer = Origin
  BY <1>2, <1>3, OwnersStay
<1>7. CASE own
  <2>1. /\ sock'[fd].next >= sock[fd].next
        /\ ServerReceivesData => sock'[fd].next > 0 /\ sock'[fd].req = sock[fd].req
        /\ ServerSendsRequest => sock'[fd].next = sock[fd].next
        /\ ~Poll /\ ~(ServerReceivesData /\ ServerSendsRequest)
    <3>1. server = s /\ GoodFetch(server) /\ fd = server.socketFd
      BY <1>0, <1>7, Turns
    <3>2. ServerReceivesData => \E n \in 1..BUF_SIZE : n = recvCount(fd) /\ sock' = Received(fd, n)
      BY <3>1 DEF ServerReceivesData
    <3>3. sock[fd] \in Socket /\ BUF_SIZE \in Nat
      BY <1>2, NetworkAssumption DEF IInv, Types
    <3>4. ASSUME NEW n \in 1..BUF_SIZE, sock' = Received(fd, n)
          PROVE  sock'[fd].next >= sock[fd].next
      <4>1. sock'[fd].next = sock[fd].next + n
        BY <1>2, <3>3, <3>4 DEF Received, Socket
      <4>2. n \in Nat
        BY <3>3
      <4>3. QED
        BY <1>4, <4>1, <4>2
    <3>5. QED
      BY <1>4, <1>7, <3>1, <3>2, <3>4, TurnOfSocket, OneTurn
  <2>2. ServerReceivesData => known
    <3>1. server = s
      BY <1>0, <1>7, Turns
    <3>2. PICK url : url = s.URl
      OBVIOUS
    <3>3. ServerReceivesData => \E data : addData(url, data)
      BY <3>1, <3>2 DEF ServerReceivesData
    <3>4. ServerReceivesData => contains(url)'
      BY <3>3 DEF addData, Assign, contains
    <3>5. QED
      BY <1>0, <3>2, <3>4
  <2>3. f.revents = {}
    BY <1>1, <1>7, <2>1
  <2>4. Fetches(known, sock'[fd], f)
    BY <1>1, <1>3, <1>4, <1>5, <1>7, <2>1, <2>2, <2>3 DEF Fetches
  <2>5. QED
    BY <1>0, <1>1, <1>6, <1>7, <2>1, <2>4 DEF GoodFetch, entryOf
<1>8. CASE ~own
  <2>1. Further(sock'[fd], sock[fd])
    <3>1. CASE Outside
      BY <1>2, <1>3, <3>1, OriginsGoOn
    <3>2. CASE ~Outside
      <4>1. sock'[fd] = sock[fd]
        BY <1>2, <1>8, <3>2, SocketsStay
      <4>2. QED
        BY <1>4, <4>1 DEF Further
    <3>3. QED
      BY <3>1, <3>2
  <2>2. f.events = e.events /\ (f.revents = {} \/ f.revents = e.revents \/ f.revents = ReadyEvents(fd, e.events))
    BY <1>1, <1>8
  <2>3. /\ "ERR" \notin f.revents
        /\ "IN" \in f.revents => sock[fd].rx > 0 \/ sock[fd].fin
        /\ "OUT" \in f.revents => f.events = "OUT"
    BY <1>3, <2>2, GoodEvents DEF Fetches
  <2>4. "IN" \in f.revents => sock'[fd].rx > 0 \/ sock'[fd].fin
    <3>1. sock'[fd].rx \in Int
      <4>1. sock'[fd] \in Socket
        BY <1>2 DEF IInv, Types
      <4>2. QED
        BY <4>1 DEF Socket
    <3>2. sock[fd].rx > 0 => sock'[fd].rx > 0
      BY <1>4, <2>1, <3>1 DEF Further
    <3>3. sock[fd].fin => sock'[fd].fin
      BY <2>1 DEF Further
    <3>4. QED
      BY <2>3, <3>2, <3>3
  <2>5. Fetches(known, sock'[fd], f)
    BY <1>3, <1>5, <2>1, <2>2, <2>3, <2>4 DEF Fetches, Further
  <2>6. QED
    BY <1>0, <1>1, <1>4, <1>6, <1>8, <2>1, <2>5 DEF GoodFetch, entryOf, Further
<1>9. QED
  BY <1>7, <1>8

\* So all fetches stay good.
LEMMA FetchesStayGood ==
  ASSUME IInv, IInv', [Next]_vars, HonestOrigins, FetchesAreGood
  PROVE  FetchesAreGood'
<1> SUFFICES ASSUME Running', NEW j \in 1..Len(serverConnections'), NEW d, d = serverConnections'[j]
             PROVE  GoodFetch(d)'
  BY DEF FetchesAreGood
<1>1. Running
  BY RunningBefore
<1>2. Stands(d, pollFds'[d.pollFdsIndex])
  BY FetchesDescend
<1>3. CASE Started(d, pollFds'[d.pollFdsIndex])
  <2> DEFINE f == Len(fetched) + 1
             t == ServerSocket(f)
             entry == pollFds'[d.pollFdsIndex]
  <2>1. /\ entry.events = "OUT" /\ entry.revents = {} /\ d.socketFd = NewDescriptor
        /\ ClientStartsFetch
    BY <1>3 DEF Started
  <2>2. sock'[d.socketFd] = t
    BY <2>1 DEF ClientStartsFetch, Assign
  <2>3. t.peer = Origin /\ t.next = 0 /\ t.req = NoUrl
    BY DEF ServerSocket, ClientSocket
  <2> HIDE DEF t, entry
  <2>4. Fetches(contains(d.URl)', t, entry)
    BY <2>1, <2>3 DEF Fetches
  <2>5. QED
    BY <2>2, <2>3, <2>4 DEF GoodFetch, entryOf, entry
<1>4. ASSUME NEW k \in 1..Len(serverConnections), Stood(d, pollFds'[d.pollFdsIndex], k)
      PROVE  GoodFetch(d)'
  BY <1>1, <1>4, FetchGoesOn DEF FetchesAreGood
<1>5. QED
  BY <1>2, <1>3, <1>4 DEF Stands

\* The message for a client stays until the client goes.
LEMMA ErrorsStay ==
  ASSUME IInv, IInv', [Next]_vars, Running', NEW j \in 1..Len(clientConnections'),
         NEW fd, fd = clientConnections'[j].socketFd, fd \in DOMAIN errors
  PROVE  fd \in DOMAIN errors'
<1>1. CASE Outside \/ Moves \/ addNewConnection \/ Reads \/ ServerReceivesData \/ ServerSendsRequest
           \/ stop
  <2>1. CASE Moves
    BY <2>1, MovingOn DEF fdVars
  <2>2. CASE ~Moves
    BY <1>1, <2>2 DEF Outside, ProgramVars, addNewConnection, Reads, ClientReceivesPart,
       ClientAsksForCached, ClientStartsFetch, ServerReceivesData, ServerSendsRequest, stop, fdVars
  <2>3. QED
    BY <2>1, <2>2
<1>2. ASSUME NEW sockets, NEW how, removeClientConnection(it, sockets, how)
      PROVE  fd \in DOMAIN errors'
  <2>1. /\ sock' = Erase(sockets, clientConnections[it].socketFd)
        /\ errors' = Erase(errors, clientConnections[it].socketFd)
    BY <1>2 DEF removeClientConnection, removeConnection
  <2>2. fd \in DOMAIN sock'
    BY NextWhenRunning DEF ConnectionsOpen
  <2>3. fd # clientConnections[it].socketFd
    BY <2>1, <2>2 DEF Erase
  <2>4. QED
    BY <2>1, <2>3 DEF Erase
<1>3. CASE ClientGoes
  BY <1>2, <1>3, ClientGoing
<1>4. CASE ClientServed
  BY <1>2, <1>4 DEF ClientServed
<1>5. CASE ServerGoes
  <2>1. errors' = errors \/ \E message : notifyClientsAboutError(server.URl, message)
    BY <1>5 DEF ServerGoes, ServerHungUp, ServerReceivesBadStatus, ServerReceivesEnd, ServerReceiveFails,
       ServerSendFails, ServerFails, fdVars
  <2>2. QED
    BY <2>1 DEF notifyClientsAboutError
<1>6. QED
  BY <1>1, <1>3, <1>4, <1>5, Steps

\* A page that is whole stays whole.
LEMMA ReadyStays ==
  ASSUME [Next]_vars, NEW url, cacheNodeReady(url)
  PROVE  cacheNodeReady(url)'
<1>1. contains(url) /\ url \in DOMAIN cacheReady /\ cacheReady[url] /\ contains(url)'
  BY PagesStay DEF cacheNodeReady
<1>2. \/ cacheReady' = cacheReady
      \/ \E v : v # url /\ setNodeReady(v, FALSE)
      \/ \E v : setNodeReady(v, TRUE)
  <2>1. CASE ClientStartsFetch
    BY <1>1, <2>1 DEF ClientStartsFetch
  <2>2. CASE ~ClientStartsFetch
    BY <2>2, CacheUntouched DEF cacheVars, ClientServed, ClientSendFails, ServerReceivesEnd,
       ServerReceivesData
  <2>3. QED
    BY <2>1, <2>2
<1>3. url \in DOMAIN cacheReady' /\ cacheReady'[url]
  BY <1>1, <1>2 DEF setNodeReady, Assign
<1>4. QED
  BY <1>1, <1>3 DEF cacheNodeReady

\* A fetch that has not ended has read no less than before.
LEMMA FetchLasts ==
  ASSUME IInv, IInv', [Next]_vars, HonestOrigins, FetchesAreGood, Running',
         NEW k \in 1..Len(serverConnections), ~(ServerGoes /\ k = it)
  PROVE  \E j \in 1..Len(serverConnections') :
            /\ serverConnections'[j].URl = serverConnections[k].URl
            /\ sock'[serverConnections'[j].socketFd].next >= sock[serverConnections[k].socketFd].next
            /\ k = it /\ ServerReceivesData => sock'[serverConnections'[j].socketFd].next > 0
<1>1. Running
  BY RunningBefore
<1>2. PICK j \in 1..Len(serverConnections') : SameConnection(serverConnections'[j], serverConnections[k])
  BY FetchesDescend DEF Lasts
<1>3. PICK d, s : d = serverConnections'[j] /\ s = serverConnections[k]
  OBVIOUS
<1>4. d.socketFd = s.socketFd /\ d.URl = s.URl /\ s.socketFd \in DOMAIN sock
  BY <1>1, <1>2, <1>3, WhenRunning DEF SameConnection, ConnectionsOpen
<1>5. Stands(d, pollFds'[d.pollFdsIndex])
  BY <1>3, FetchesDescend
<1>6. ~Started(d, pollFds'[d.pollFdsIndex])
  BY <1>1, <1>4, NewDescriptorIsNew DEF Started
<1>7. PICK m \in 1..Len(serverConnections) : Stood(d, pollFds'[d.pollFdsIndex], m)
  BY <1>5, <1>6 DEF Stands
<1>8. m = k
  BY ZenonT(30), <1>1, <1>3, <1>4, <1>7, WhenRunning DEF Stood, SameConnection, ConnectionsOpen
<1>9. /\ sock'[d.socketFd].next >= sock[d.socketFd].next
      /\ k = it /\ ServerReceivesData => sock'[d.socketFd].next > 0
  <2>1. GoodFetch(serverConnections[k])
    BY <1>1 DEF FetchesAreGood
  <2>2. QED
    BY <1>1, <1>3, <1>7, <1>8, <2>1, FetchGoesOn
<1>10. QED
  BY <1>3, <1>4, <1>9

\* A client is watched for output only when there is a message or a page for
\* it; in the entry it has and the events poll() has reported.
WokenFor(told, there, entry) ==
    entry.events = "OUT" \/ "OUT" \in entry.revents => told \/ there

ClientsWoken ==
    Running => \A i \in 1..Len(clientConnections) :
        LET c == clientConnections[i]
        IN  WokenFor(c.socketFd \in DOMAIN errors, contains(c.URl), entryOf(c))

\* The turn of a fetch that wakes its clients has a page or a message for
\* each of them.
LEMMA PreparedIsTold ==
  ASSUME IInv, HonestOrigins, FetchesAreGood, Prepares, Running,
         NEW i \in 1..Len(clientConnections), NEW c, c = clientConnections[i], c.URl = server.URl
  PROVE  c.socketFd \in DOMAIN errors' \/ contains(c.URl)'
<1>1. PICK url : url = server.URl
  OBVIOUS
<1>2. CASE ServerReceivesData
  <2>1. \E data : addData(url, data)
    BY <1>1, <1>2 DEF ServerReceivesData
  <2>2. contains(url)'
    BY <2>1 DEF addData, Assign, contains
  <2>3. QED
    BY <1>1, <2>2
<1>3. CASE ServerReceivesEnd
  <2>1. /\ it \in 1..Len(serverConnections) /\ server = serverConnections[it]
        /\ recvCount(server.socketFd) = 0 /\ cacheMap' = cacheMap
    BY <1>3, Turns DEF ServerGoes, ServerReceivesEnd
  <2>2. PICK s : s = sock[server.socketFd]
    OBVIOUS
  <2>3. /\ GoodFetch(server) /\ server.socketFd \in DOMAIN sock
    BY <2>1, WhenRunning DEF FetchesAreGood, ConnectionsOpen
  <2>4. Honest(s) /\ (s.next > 0 => contains(url))
    BY <1>1, <2>2, <2>3 DEF GoodFetch, Fetches, HonestOrigins
  <2>5. s.rx = 0 /\ s.fin
    <3>1. s.rx \in Nat /\ BUF_SIZE \in Nat \ {0}
      BY <2>4, NetworkAssumption DEF Honest
    <3>2. ~(s.rx > 0)
      BY <2>1, <2>2, <3>1 DEF recvCount, SmallerOf
    <3>3. s.fin
      BY <2>1, <2>2, <3>2 DEF recvCount
    <3>4. QED
      BY <3>1, <3>2, <3>3
  <2>6. contains(url)
    <3>1. s.rx + s.next > 0 /\ s.next \in Nat
      BY <2>4, <2>5 DEF Honest
    <3>2. s.next > 0
      BY <2>5, <3>1
    <3>3. QED
      BY <2>4, <3>2
  <2>7. contains(url)'
    BY <2>1, <2>6 DEF contains
  <2>8. QED
    BY <1>1, <2>7
<1>4. CASE ServerReceivesBadStatus \/ ServerReceiveFails \/ ServerSendFails
  <2>1. \E message : notifyClientsAboutError(server.URl, message)
    BY <1>4 DEF ServerReceivesBadStatus, ServerReceiveFails, ServerSendFails, ServerFails
  <2>2. i \in ClientsOf(server.URl)
    BY TableFacts DEF ClientsOf
  <2>3. QED
    BY <2>1, <2>2 DEF notifyClientsAboutError
<1>5. QED
  BY <1>2, <1>3, <1>4 DEF Prepares, ServerGoes

\* A client that has been woken has still something to be sent.
LEMMA WokenNext ==
  ASSUME IInv, IInv', AsksForItsPage, [Next]_vars, HonestOrigins, FetchesAreGood, ClientsWoken, Running',
         NEW j \in 1..Len(clientConnections'), NEW d, d = clientConnections'[j],
         NEW f, f = pollFds'[d.pollFdsIndex]
  PROVE  WokenFor(d.socketFd \in DOMAIN errors', contains(d.URl)', f)
<1> SUFFICES ASSUME f.events = "OUT" \/ "OUT" \in f.revents
             PROVE  d.socketFd \in DOMAIN errors' \/ contains(d.URl)'
  BY DEF WokenFor
<1>1. Running
  BY RunningBefore
<1>2. ~IsNew(d, f)
  BY DEF IsNew
<1>3. PICK k \in 1..Len(clientConnections) : Was(d, f, k)
  BY <1>2, ClientsDescend DEF Descends
<1>4. PICK c, e : c = clientConnections[k] /\ e = entryOf(c)
  OBVIOUS
<1>5. d.socketFd = c.socketFd /\ d.buffer = c.buffer
  BY <1>3, <1>4 DEF Was
<1>6. CASE d.URl = c.URl
  <2>1. CASE e.events = "OUT" \/ "OUT" \in e.revents
    <3>1. c.socketFd \in DOMAIN errors \/ contains(c.URl)
      BY <1>1, <1>4, <2>1 DEF ClientsWoken, WokenFor
    <3>2. QED
      BY <1>5, <1>6, <3>1, ErrorsStay, PagesStay
  <2>2. CASE ~(e.events = "OUT" \/ "OUT" \in e.revents)
    <3>0. "OUT" \in ReadyEvents(c.socketFd, e.events) => e.events = "OUT"
      BY DEF ReadyEvents
    <3>1. f.events = "OUT" /\ f.events # e.events
      BY <1>3, <1>4, <2>2, <3>0 DEF Was
    <3>2. \/ Prepares /\ c.URl = server.URl
          \/ contains(d.URl)
      BY <1>3, <1>4, <3>1 DEF Was
    <3>3. QED
      BY <1>1, <1>4, <1>5, <1>6, <3>2, PreparedIsTold, PagesStay
  <2>3. QED
    BY <2>1, <2>2
<1>7. CASE d.URl # c.URl
  <2>1. k = it /\ d.URl = request[c.buffer] /\ (ClientAsksForCached \/ ClientStartsFetch)
    BY <1>3, <1>4, <1>7 DEF Was
  <2>2. client = c
    BY <1>4, <2>1, Turns DEF Reads
  <2>3. CASE ClientAsksForCached
    <3>1. contains(d.URl)
      <4>1. ClientTurn
        BY <2>3 DEF ClientAsksForCached, ReceivesRequest, Receives, ClientReadable
      <4>2. QED
        BY <2>1, <2>2, <2>3, <4>1, ClientAtTurn DEF ClientAsksForCached
    <3>2. QED
      BY <3>1, PagesStay
  <2>4. CASE ClientStartsFetch
    <3>1. c.URl = NoUrl
      BY <1>5, <1>7, <2>2, <2>4, ReadingAsks DEF Reads
    <3>2. e.events = "IN" /\ "OUT" \notin e.revents
      BY <1>4, <3>1 DEF IInv, Watched, entryOf
    <3>3. f.events = "OUT" /\ f.events # e.events
      BY <1>3, <1>4, <1>7, <3>2 DEF Was
    <3>4. Prepares \/ contains(d.URl)
      BY <1>3, <1>4, <3>3 DEF Was
    <3>5. ~Prepares
      BY <2>4, OneTurn DEF Prepares, Reads
    <3>6. QED
      BY <3>4, <3>5, PagesStay
  <2>5. QED
    BY <2>1, <2>3, <2>4
<1>8. QED
  BY <1>6, <1>7

\* A page that is there and not whole is being filled.
PagesFilled ==
    Running => \A url \in Urls :
        contains(url) /\ ~cacheNodeReady(url) =>
            \E j \in 1..Len(serverConnections) :
                serverConnections[j].URl = url /\ sock[serverConnections[j].socketFd].next > 0

ClientsWait ==
    Running => \A i \in 1..Len(clientConnections) :
        LET c == clientConnections[i]
        IN  c.URl # NoUrl /\ entryOf(c).events = "IN" => BeingFetched(c.URl)

HonestInv ==
    /\ HonestOrigins /\ FetchesAreGood /\ ClientsWoken /\ ClientsWait /\ PagesFilled
    /\ CachedPagesAreOk

\* A client that is shown a page finds it in the cache.
LEMMA ServedHasPage ==
  ASSUME IInv, ClientsWoken, ClientServed \/ ClientSendFails
  PROVE  /\ contains(client.URl) /\ Running
         /\ it \in 1..Len(clientConnections) /\ client = clientConnections[it]
<1>1. ClientWritable /\ client.socketFd \notin DOMAIN errors
  BY DEF ClientServed, ClientSendFails
<1>2. /\ it \in 1..Len(clientConnections) /\ client = clientConnections[it] /\ Running
      /\ "OUT" \in entryOf(client).revents
  BY <1>1, ClientAtTurn DEF ClientWritable, reventsOf, entryOf, client
<1>3. QED
  BY <1>1, <1>2 DEF ClientsWoken, WokenFor

\* Pages come from the turns of fetches only.
LEMMA PagesAreFetched ==
  ASSUME IInv, ClientsWoken, [Next]_vars
  PROVE  \/ /\ DOMAIN cacheMap' = DOMAIN cacheMap
            /\ \A u \in DOMAIN cacheMap : cacheMap'[u] = cacheMap[u]
         \/ ServerReceivesData
<1>1. CASE ClientServed \/ ClientSendFails
  <2>1. PICK url : url = client.URl
    OBVIOUS
  <2>2. getCurrentData(url) /\ contains(url)
    BY <1>1, <2>1, ServedHasPage DEF ClientServed, ClientSendFails
  <2>3. QED
    BY <2>2 DEF getCurrentData, Assign, nodeData, contains
<1>2. CASE ~ClientServed /\ ~ClientSendFails
  BY <1>2, CacheUntouched DEF cacheVars, ClientStartsFetch, ServerReceivesEnd
<1>3. QED
  BY <1>1, <1>2

\* A client that waits for input waits for a fetch.
LEMMA WaitsNext ==
  ASSUME IInv, IInv', AsksForItsPage, [Next]_vars, HonestInv, Running',
         NEW j \in 1..Len(clientConnections'), NEW d, d = clientConnections'[j],
         NEW f, f = pollFds'[d.pollFdsIndex], d.URl # NoUrl, f.events = "IN"
  PROVE  \E m \in 1..Len(serverConnections') : serverConnections'[m].URl = d.URl
<1>1. Running
  BY RunningBefore
<1>2. ~IsNew(d, f)
  BY DEF IsNew
<1>3. PICK k \in 1..Len(clientConnections) : Was(d, f, k)
  BY <1>2, ClientsDescend DEF Descends
<1>4. PICK c, e : c = clientConnections[k] /\ e = entryOf(c)
  OBVIOUS
<1>5. ASSUME NEW m \in 1..Len(serverConnections), serverConnections[m].URl = d.URl,
             ~(ServerGoes /\ m = it)
      PROVE  \E n \in 1..Len(serverConnections') : serverConnections'[n].URl = d.URl
  BY <1>5, FetchesDescend DEF Lasts, SameConnection
<1>6. CASE d.URl # c.URl
  <2>1. ClientStartsFetch /\ k = it /\ d.URl = request[c.buffer]
    BY <1>3, <1>4, <1>6 DEF Was
  <2>2. client = c
    BY <1>4, <2>1, Turns DEF Reads
  <2>3. QED
    BY <2>1, <2>2, FetchesAfterStart
<1>7. CASE d.URl = c.URl /\ e.events = "IN"
  <2>1. PICK m \in 1..Len(serverConnections) : serverConnections[m].URl = d.URl
    BY <1>1, <1>4, <1>7, TableFacts DEF HonestInv, ClientsWait, BeingFetched
  <2>2. CASE ServerGoes /\ m = it
    <3>1. server = serverConnections[m] /\ server.URl = d.URl
      BY <2>1, <2>2, Turns
    <3>2. "ERR" \notin entryOf(server).revents
      BY <1>1, <3>1 DEF HonestInv, FetchesAreGood, GoodFetch, Fetches
    <3>3. Prepares
      BY <2>2, <3>2 DEF Prepares, ServerGoes, ServerHungUp, reventsOf, entryOf
    <3>4. f.events = "OUT"
      BY <2>2, <3>1, <3>3, ClientsOfServerTurn
    <3>5. QED
      BY <3>4
  <2>3. QED
    BY <1>5, <2>1, <2>2
<1>8. CASE d.URl = c.URl /\ e.events # "IN"
  <2>1. ClientServed /\ k = it /\ ~cacheNodeReady(c.URl)
    BY <1>3, <1>4, <1>8 DEF Was
  <2>2. contains(c.URl) /\ c.URl \in Urls
    <3>1. client = c /\ c.URl \in Urls
      BY <1>1, <1>4, <1>8, <2>1, Turns, WhenRunning DEF ConnectionsOpen
    <3>2. QED
      BY <2>1, <3>1, ServedHasPage DEF HonestInv
  <2>3. PICK m \in 1..Len(serverConnections) : serverConnections[m].URl = c.URl
    BY <1>1, <2>1, <2>2 DEF HonestInv, PagesFilled
  <2>4. ~ServerGoes
    BY <2>1, OneTurn
  <2>5. QED
    BY <1>5, <1>8, <2>3, <2>4
<1>9. QED
  BY <1>6, <1>7, <1>8

\* A fetch that has read something ends only when its page is whole.
LEMMA FetchEndsWhole ==
  ASSUME IInv, HonestInv, ServerGoes, NEW url, url = server.URl, contains(url),
         sock[server.socketFd].next > 0
  PROVE  cacheNodeReady(url)'
<1>1. /\ Running /\ it \in 1..Len(serverConnections) /\ server = serverConnections[it]
  BY ServerGoing, ServerAtTurn, Turns
<1>2. PICK s, e : s = sock[server.socketFd] /\ e = entryOf(server)
  OBVIOUS
<1>3. GoodFetch(server) /\ server.socketFd \in DOMAIN sock
  BY <1>1, WhenRunning DEF HonestInv, FetchesAreGood, ConnectionsOpen
<1>4. /\ Honest(s) /\ "ERR" \notin e.revents
      /\ "IN" \in e.revents => s.rx > 0 \/ s.fin
      /\ "OUT" \in e.revents => s.req = NoUrl
  BY <1>1, <1>2, <1>3 DEF GoodFetch, Fetches, HonestInv, HonestOrigins
<1>5. ~ServerHungUp
  BY <1>2, <1>4 DEF ServerHungUp, reventsOf, entryOf
<1>6. ~ServerReceivesBadStatus
  <2>1. \A n : ~Refused(server.socketFd, n)
    BY DEF Refused
  <2>2. QED
    BY <2>1 DEF ServerReceivesBadStatus
<1>7. ~ServerReceiveFails
  <2>1. SUFFICES ASSUME ServerReceiveFails PROVE FALSE
    OBVIOUS
  <2>2. "IN" \in e.revents /\ recvCount(server.socketFd) < 0
    BY <1>2, <2>1 DEF ServerReceiveFails, ServerReadable, reventsOf, entryOf
  <2>3. CASE s.rx > 0
    <3>1. s.rx \in Nat /\ BUF_SIZE \in Nat \ {0}
      BY <1>4, NetworkAssumption DEF Honest
    <3>2. QED
      BY <1>2, <2>2, <2>3, <3>1 DEF recvCount, SmallerOf
  <2>4. CASE ~(s.rx > 0)
    <3>1. s.fin
      BY <1>4, <2>2, <2>4
    <3>2. QED
      BY <1>2, <2>2, <2>4, <3>1 DEF recvCount
  <2>5. QED
    BY <2>3, <2>4
<1>8. ~ServerSendFails
  <2>1. SUFFICES ASSUME ServerSendFails PROVE FALSE
    OBVIOUS
  <2>2. "OUT" \in e.revents
    BY <1>2, <2>1 DEF ServerSendFails, ServerWritable, reventsOf, entryOf
  <2>3. s.next = 0
    BY <1>4, <2>2 DEF Honest
  <2>4. QED
    BY <1>2, <2>3
<1>9. ServerReceivesEnd
  BY <1>5, <1>6, <1>7, <1>8 DEF ServerGoes
<1>10. QED
  BY <1>9 DEF ServerReceivesEnd, setNodeReady, Assign, cacheNodeReady, contains

\* A page that is there has somebody who fills it until it is whole.
LEMMA FilledNext ==
  ASSUME IInv, IInv', [Next]_vars, HonestInv, Running',
         NEW url \in Urls, contains(url)', ~cacheNodeReady(url)'
  PROVE  \E j \in 1..Len(serverConnections') :
            /\ serverConnections'[j].URl = url
            /\ sock'[serverConnections'[j].socketFd].next > 0
<1>1. Running /\ ~cacheNodeReady(url)
  BY RunningBefore, ReadyStays
<1>2. HonestOrigins /\ FetchesAreGood /\ ClientsWoken
  BY DEF HonestInv
<1>3. CASE contains(url)
  <2>1. PICK k \in 1..Len(serverConnections) :
            serverConnections[k].URl = url /\ sock[serverConnections[k].socketFd].next > 0
    BY <1>1, <1>3 DEF HonestInv, PagesFilled
  <2>2. ~(ServerGoes /\ k = it)
    <3>1. SUFFICES ASSUME ServerGoes, k = it PROVE FALSE
      OBVIOUS
    <3>2. server = serverConnections[k]
      BY <3>1, Turns
    <3>3. QED
      BY <1>3, <2>1, <3>1, <3>2, FetchEndsWhole
  <2>3. PICK j \in 1..Len(serverConnections') :
            /\ serverConnections'[j].URl = url
            /\ sock'[serverConnections'[j].socketFd].next >= sock[serverConnections[k].socketFd].next
    BY <1>2, <2>1, <2>2, FetchLasts
  <2>4. PICK d, s : d = serverConnections'[j].socketFd /\ s = serverConnections[k].socketFd
    OBVIOUS
  <2>5. sock'[d].next \in Int /\ sock[s].next \in Int
    <3>1. sock'[d] \in Socket /\ sock[s] \in Socket
      BY <1>1, <2>4, WhenRunning, NextWhenRunning DEF ConnectionsOpen
    <3>2. QED
      BY <3>1 DEF Socket
  <2>6. sock'[d].next > 0
    BY <2>1, <2>3, <2>4, <2>5
  <2>7. QED
    BY <2>3, <2>4, <2>6
<1>4. CASE ~contains(url)
  <2>1. ServerReceivesData
    BY <1>2, <1>4, PagesAreFetched DEF contains
  <2>2. PICK k \in 1..Len(serverConnections) : k = it /\ server = serverConnections[k]
    BY <2>1, Turns
  <2>3. server.URl = url
    BY <1>4, <2>1 DEF ServerReceivesData, addData, Assign, contains
  <2>4. ~ServerGoes
    BY <2>1, OneTurn
  <2>5. QED
    BY <1>2, <2>1, <2>2, <2>3, <2>4, FetchLasts
<1>5. QED
  BY <1>3, <1>4

\* What is in the cache is an answer with status 200.
LEMMA PagesStayOk ==
  ASSUME IInv, [Next]_vars, ClientsWoken, CachedPagesAreOk
  PROVE  CachedPagesAreOk'
<1>1. CASE /\ DOMAIN cacheMap' = DOMAIN cacheMap
           /\ \A u \in DOMAIN cacheMap : cacheMap'[u] = cacheMap[u]
  BY <1>1 DEF CachedPagesAreOk
<1>2. CASE ServerReceivesData
  <2>1. PICK url, fd : url = server.URl /\ fd = server.socketFd
    OBVIOUS
  <2>2. PICK n \in 1..BUF_SIZE : addData(url, ReceivedUnits(fd, n)) /\ ~Refused(fd, n)
    BY <1>2, <2>1 DEF ServerReceivesData
  <2>3. /\ DOMAIN cacheMap' = DOMAIN cacheMap \cup {url}
        /\ \A u \in DOMAIN cacheMap : u # url => cacheMap'[u] = cacheMap[u]
        /\ cacheMap'[url] = nodeData(url) \o ReceivedUnits(fd, n)
    BY <2>2 DEF addData, Assign
  <2>4. n \in Nat \ {0}
    BY NetworkAssumption
  <2>5. PICK units : units = ReceivedUnits(fd, n)
    OBVIOUS
  <2>6. ServerTurn /\ fd \in DOMAIN sock
    BY <1>2, <2>1, ServerAtTurn DEF ServerReceivesData, ServerReadable
  <2>7. units \in Seq(Units) /\ Len(units) = n /\ units[1].req = sock[fd].req
    <3>1. sock[fd] \in Socket
      BY <2>6 DEF IInv, Types
    <3>2. \A i \in 1..n : Unit(sock[fd].fetch, sock[fd].req, sock[fd].next + i) \in Units
      BY <3>1 DEF Unit, Units, Socket
    <3>3. units = [i \in 1..n |-> Unit(sock[fd].fetch, sock[fd].req, sock[fd].next + i)]
      BY <2>5 DEF ReceivedUnits
    <3>4. units \in Seq(Units) /\ Len(units) = n
      BY <2>4, <3>2, <3>3
    <3>5. units[1] = Unit(sock[fd].fetch, sock[fd].req, sock[fd].next + 1)
      BY <2>4, <3>3
    <3>6. QED
      BY <3>4, <3>5 DEF Unit
  <2>8. PICK node : node = nodeData(url)
    OBVIOUS
  <2>9. node \in Seq(Units)
    BY <2>8, NodesGrow
  <2>10. node \o units # <<>> /\ (node \o units)[1].req \in OkUrls
    <3>1. CASE contains(url)
      <4>1. node # <<>> /\ node[1].req \in OkUrls
        BY <2>8, <3>1 DEF CachedPagesAreOk, contains, nodeData
      <4>2. Len(node) \in Nat /\ Len(node) > 0
        BY <2>9, <4>1, EmptySeq
      <4>3. Len(node \o units) > 0 /\ (node \o units)[1] = node[1]
        BY <2>4, <2>7, <2>9, <4>2, ConcatProperties
      <4>4. QED
        BY <4>1, <4>3
    <3>2. CASE ~contains(url)
      <4>1. node = <<>>
        BY <2>8, <3>2 DEF nodeData
      <4>2. node \o units = units
        BY <2>7, <4>1
      <4>3. sock[fd].req \in OkUrls
        BY <2>1, <2>2, <3>2 DEF Refused, isCorrectResponseStatus
      <4>4. units # <<>>
        BY <2>4, <2>7
      <4>5. QED
        BY <2>7, <4>2, <4>3, <4>4
    <3>3. QED
      BY <3>1, <3>2
  <2>11. cacheMap'[url] # <<>> /\ cacheMap'[url][1].req \in OkUrls
    BY <2>3, <2>5, <2>8, <2>10
  <2>12. QED
    BY <2>3, <2>11 DEF CachedPagesAreOk
<1>3. QED
  BY <1>1, <1>2, PagesAreFetched

\* Every step keeps the parts of the invariant.
LEMMA StepHonest == IInv /\ AsksForItsPage /\ HonestInv /\ [Next]_vars => HonestInv'
<1> SUFFICES ASSUME IInv, AsksForItsPage, HonestInv, [Next]_vars PROVE HonestInv'
  OBVIOUS
<1>1. IInv'
  BY StepIInv
<1>2. /\ HonestOrigins /\ FetchesAreGood /\ ClientsWoken /\ ClientsWait /\ PagesFilled
      /\ CachedPagesAreOk
  BY DEF HonestInv
<1>3. HonestOrigins'
  <2>1. ServerReceivesData \/ ServerSendsRequest => GoodFetch(server)
    <3>1. SUFFICES ASSUME ServerReceivesData \/ ServerSendsRequest PROVE GoodFetch(server)
      OBVIOUS
    <3>2. ServerTurn
      BY <3>1 DEF ServerReceivesData, ServerSendsRequest, ServerReadable, ServerWritable
    <3>3. Running /\ it \in 1..Len(serverConnections) /\ server = serverConnections[it]
      BY <3>1, <3>2, ServerAtTurn, Turns
    <3>4. QED
      BY <1>2, <3>3 DEF FetchesAreGood
  <2>2. QED
    BY <1>1, <1>2, <2>1, HonestOriginsStay
<1>4. FetchesAreGood'
  BY <1>1, <1>2, FetchesStayGood
<1>5. ClientsWoken'
  <2> SUFFICES ASSUME Running', NEW j \in 1..Len(clientConnections'), NEW d, d = clientConnections'[j],
                      NEW f, f = pollFds'[d.pollFdsIndex]
               PROVE  WokenFor(d.socketFd \in DOMAIN errors', contains(d.URl)', f)
    BY DEF ClientsWoken, entryOf
  <2>1. QED
    BY <1>1, <1>2, WokenNext
<1>6. ClientsWait'
  <2> SUFFICES ASSUME Running', NEW j \in 1..Len(clientConnections'), NEW d, d = clientConnections'[j],
                      NEW f, f = pollFds'[d.pollFdsIndex], d.URl # NoUrl, f.events = "IN"
               PROVE  \E m \in 1..Len(serverConnections') : serverConnections'[m].URl = d.URl
    <3>1. DOMAIN serverConnections' = 1..Len(serverConnections')
      BY <1>1, LenProperties DEF IInv, Types
    <3>2. QED
      BY <3>1 DEF ClientsWait, BeingFetched, entryOf
  <2>1. QED
    BY <1>1, WaitsNext
<1>7. PagesFilled'
  <2> SUFFICES ASSUME Running', NEW url \in Urls, contains(url)', ~cacheNodeReady(url)'
               PROVE  \E j \in 1..Len(serverConnections') :
                        /\ serverConnections'[j].URl = url
                        /\ sock'[serverConnections'[j].socketFd].next > 0
    BY DEF PagesFilled
  <2>1. QED
    BY <1>1, FilledNext
<1>8. CachedPagesAreOk'
  BY <1>2, PagesStayOk
<1>9. QED
  BY <1>3, <1>4, <1>5, <1>6, <1>7, <1>8 DEF HonestInv

\* They hold before anything has been fetched.
LEMMA InitHonest == Init /\ Faultless({"emptyResponse", "originFails"}) => HonestInv
<1> SUFFICES ASSUME Init, Faultless({"emptyResponse", "originFails"}) PROVE HonestInv
  OBVIOUS
<1>1. /\ DOMAIN sock = {} /\ DOMAIN cacheMap = {}
      /\ Len(clientConnections) = 0 /\ Len(serverConnections) = 0
  BY DEF Init, NetInit, CacheInit
<1>2. HonestOrigins
  <2>1. PICK around \in Surroundings : faults = around.faults /\ RespLen = around.RespLen
    BY DEF Init, NetInit
  <2>2. /\ RespLen \in Nat /\ RespLen >= StatusLen
        /\ faults \cap {"emptyResponse", "originFails"} = {}
    BY <2>1, NetworkAssumption DEF Faultless
  <2>3. RespLen > 0
    BY <2>2, NetworkAssumption
  <2>4. QED
    BY <1>1, <2>2, <2>3 DEF HonestOrigins
<1>3. FetchesAreGood /\ ClientsWoken /\ ClientsWait
  BY <1>1 DEF FetchesAreGood, ClientsWoken, ClientsWait
<1>4. PagesFilled /\ CachedPagesAreOk
  BY <1>1 DEF PagesFilled, CachedPagesAreOk, contains
<1>5. QED
  BY <1>2, <1>3, <1>4 DEF HonestInv

\* The invariant of such surroundings.
THEOREM HonestInvHolds ==
  Spec /\ Faultless({"emptyResponse", "originFails"}) => []HonestInv
<1>1. QED
  BY StepHonest, InitHonest, InvariantHolds, ClientsAskForTheirPage, PTL DEF Spec

(***************************************************************************)
(* What is in the cache is never empty and begins with a status line that  *)
(* was a 200 (lines 385-386), whoever leaves, whatever fetch cannot be     *)
(* started and whenever a signal comes, as long as no origin fails or      *)
(* answers with nothing: only then is a client shown a page that no fetch  *)
(* has filled, and its lookup leaves an empty node.                        *)
(***************************************************************************)
THEOREM PagesAreOk ==
  Spec /\ Faultless({"emptyResponse", "originFails"}) => []CachedPagesAreOk
<1>1. HonestInv => CachedPagesAreOk
  BY DEF HonestInv
<1>2. QED
  BY <1>1, HonestInvHolds, PTL

(***************************************************************************)
(* In the same surroundings no client is parked with nobody to wake it:    *)
(* one that has asked and is watched for POLLIN only waits for a fetch of  *)
(* its URL that is under way.                                              *)
(***************************************************************************)
THEOREM NobodyWaitsInVain ==
  Spec /\ Faultless({"emptyResponse", "originFails"}) => []WaitsForSomebody
<1>1. IInv /\ HonestInv => WaitsForSomebody
  <2> SUFFICES ASSUME IInv, HonestInv, Running, NEW i \in DOMAIN clientConnections,
                      NEW c, c = clientConnections[i], c.URl # NoUrl, eventsOf(c) = "IN"
               PROVE  BeingFetched(c.URl)
    BY DEF WaitsForSomebody
  <2>1. i \in 1..Len(clientConnections)
    BY TableFacts
  <2>2. QED
    BY <2>1 DEF HonestInv, ClientsWait, eventsOf, entryOf
<1>2. QED
  BY <1>1, InvariantHolds, HonestInvHolds, PTL

-----------------------------------------------------------------------------
(***************************************************************************)
(* Pages that are fetched once.                                            *)
(***************************************************************************)
Sole(url) == \A f, g \in 1..Len(fetched) : fetched[f] = url /\ fetched[g] = url => f = g

Fetched(url) == \E f \in 1..Len(fetched) : fetched[f] = url

\* FetchedOnce counts the same fetches.
LEMMA SoleIsSole ==
  ASSUME IInv, NEW url, FetchedOnce(url)
  PROVE  Sole(url)
<1>1. Len(fetched) \in Nat /\ DOMAIN fetched = 1..Len(fetched)
  BY LenProperties DEF IInv, Types
<1>2. IsFiniteSet(FetchesOf(url))
  <2>1. IsFiniteSet(1..Len(fetched))
    BY <1>1, FS_Interval
  <2>2. FetchesOf(url) \in SUBSET (1..Len(fetched))
    BY <1>1 DEF FetchesOf
  <2>3. QED
    BY <2>1, <2>2, FS_Subset
<1>3. Cardinality(FetchesOf(url)) = 0 \/ Cardinality(FetchesOf(url)) = 1
  <2>1. Cardinality(FetchesOf(url)) \in Nat
    BY <1>2, FS_CardinalityType
  <2>2. QED
    BY <2>1 DEF FetchedOnce, SoleFetch
<1>4. FetchesOf(url) = {} \/ \E x : FetchesOf(url) = {x}
  BY <1>2, <1>3, FS_EmptySet, FS_Singleton
<1>5. QED
  BY <1>1, <1>4 DEF Sole, FetchesOf

\* A step starts one fetch or none.
LEMMA FetchesGrow ==
  ASSUME IInv, [Next]_vars
  PROVE  /\ Len(fetched) \in Nat /\ Len(fetched') \in Nat /\ Len(fetched') >= Len(fetched)
         /\ \A f \in 1..Len(fetched) : fetched'[f] = fetched[f] /\ f \in 1..Len(fetched')
         /\ ~ClientStartsFetch => fetched' = fetched
         /\ ClientStartsFetch =>
                /\ Len(fetched') = Len(fetched) + 1
                /\ fetched'[Len(fetched) + 1] = request[client.buffer]
                /\ request[client.buffer] \in Urls /\ ~contains(request[client.buffer])
<1>1. fetched \in Seq(Urls) /\ Len(fetched) \in Nat
  BY LenProperties DEF IInv, Types
<1>2. CASE ClientStartsFetch
  <2>1. ClientTurn
    BY <1>2 DEF ClientStartsFetch, ReceivesRequest, Receives, ClientReadable
  <2> DEFINE url == request[client.buffer]
  <2>2. fetched' = Append(fetched, url) /\ url \in Urls /\ ~contains(url)
    BY <1>2, <2>1, ClientAtTurn DEF ClientStartsFetch
  <2> HIDE DEF url
  <2>3. /\ Len(fetched') = Len(fetched) + 1
        /\ fetched'[Len(fetched) + 1] = url
        /\ \A f \in 1..Len(fetched) : fetched'[f] = fetched[f]
    BY <1>1, <2>2, AppendProperties
  <2>4. QED
    BY <1>1, <1>2, <2>2, <2>3 DEF url
<1>3. CASE ~ClientStartsFetch
  <2>1. fetched' = fetched
    <3>1. CASE ClientGoes \/ ServerGoes
      BY <3>1, ClientGoing, ServerGoing
    <3>2. CASE Moves
      BY <3>2, MovingOn
    <3>3. CASE ~ClientGoes /\ ~ServerGoes /\ ~Moves
      <4>1. \/ Outside \/ addNewConnection \/ ClientReceivesPart \/ ClientAsksForCached
            \/ ClientServed \/ ServerReceivesData \/ ServerSendsRequest \/ stop
        BY <1>3, <3>3, Steps DEF Reads
      <4>2. QED
        BY <4>1 DEF Outside, ProgramVars, addNewConnection, ClientReceivesPart, ClientAsksForCached,
           ClientServed, ServerReceivesData, ServerSendsRequest, stop, histVars
    <3>4. QED
      BY <3>1, <3>2, <3>3
  <2>2. QED
    BY <1>1, <1>3, <2>1
<1>4. QED
  BY <1>2, <1>3

\* A page that has been fetched once has not been fetched more often before.
LEMMA SoleBefore ==
  ASSUME IInv, [Next]_vars, NEW url
  PROVE  /\ Fetched(url) => Fetched(url)'
         /\ Sole(url)' => Sole(url)
         /\ Sole(url)' /\ ClientStartsFetch /\ url = request[client.buffer] => ~Fetched(url)
<1>1. Fetched(url) => Fetched(url)'
  BY FetchesGrow DEF Fetched
<1>2. Sole(url)' => Sole(url)
  BY FetchesGrow DEF Sole
<1>3. Sole(url)' /\ ClientStartsFetch /\ url = request[client.buffer] => ~Fetched(url)
  <2> SUFFICES ASSUME Sole(url)', ClientStartsFetch, url = request[client.buffer],
                      NEW f \in 1..Len(fetched), fetched[f] = url
               PROVE  FALSE
    BY DEF Fetched
  <2>1. /\ f \in 1..Len(fetched') /\ fetched'[f] = url
        /\ Len(fetched) + 1 \in 1..Len(fetched') /\ fetched'[Len(fetched) + 1] = url
        /\ f # Len(fetched) + 1
    BY FetchesGrow
  <2>2. QED
    BY <2>1 DEF Sole
<1>4. QED
  BY <1>1, <1>2, <1>3

(***************************************************************************)
(* Each fetch reads from a socket with the number of the fetch.            *)
(***************************************************************************)
numberOf(s) == sock[s.socketFd].fetch

FetchNumbers ==
    Running =>
        /\ \A j \in 1..Len(serverConnections) :
            LET s == serverConnections[j]
            IN  numberOf(s) \in 1..Len(fetched) /\ fetched[numberOf(s)] = s.URl
        /\ \A i, j \in 1..Len(serverConnections) :
            numberOf(serverConnections[i]) = numberOf(serverConnections[j]) => i = j

\* What a connection of the next state has to do with one of this state.
LEMMA NumberNext ==
  ASSUME IInv, IInv', [Next]_vars, FetchNumbers, Running',
         NEW j \in 1..Len(serverConnections'), NEW d, d = serverConnections'[j]
  PROVE  \/ \E k \in 1..Len(serverConnections) :
                /\ Stood(d, pollFds'[d.pollFdsIndex], k)
                /\ numberOf(d)' = numberOf(serverConnections[k])
                /\ d.socketFd = serverConnections[k].socketFd /\ d.URl = serverConnections[k].URl
         \/ /\ Started(d, pollFds'[d.pollFdsIndex])
            /\ sock'[d.socketFd] = ServerSocket(Len(fetched) + 1)
            /\ numberOf(d)' = Len(fetched) + 1 /\ d.URl = request[client.buffer]
<1>1. Running
  BY RunningBefore
<1>2. d.socketFd \in DOMAIN sock'
  BY NextWhenRunning DEF ConnectionsOpen
<1>3. CASE \E k \in 1..Len(serverConnections) : Stood(d, pollFds'[d.pollFdsIndex], k)
  <2>1. PICK k \in 1..Len(serverConnections) : Stood(d, pollFds'[d.pollFdsIndex], k)
    BY <1>3
  <2>2. d.socketFd = serverConnections[k].socketFd /\ d.URl = serverConnections[k].URl
    BY <2>1 DEF Stood, SameConnection
  <2>3. d.socketFd \in DOMAIN sock
    BY <1>1, <2>2, WhenRunning DEF ConnectionsOpen
  <2>4. QED
    BY <1>2, <2>1, <2>2, <2>3, OwnersStay DEF numberOf
<1>4. CASE Started(d, pollFds'[d.pollFdsIndex])
  <2>1. /\ ClientStartsFetch /\ FreeDescriptors # {}
        /\ d.socketFd = NewDescriptor /\ d.URl = request[client.buffer]
    BY <1>4 DEF Started
  <2>2. sock'[d.socketFd] = ServerSocket(Len(fetched) + 1)
    BY <2>1 DEF ClientStartsFetch, Assign
  <2>3. ServerSocket(Len(fetched) + 1).fetch = Len(fetched) + 1
    BY DEF ServerSocket, ClientSocket
  <2>4. QED
    BY <1>4, <2>1, <2>2, <2>3 DEF numberOf
<1>5. QED
  BY <1>3, <1>4, FetchesDescend DEF Stands

\* Every step keeps the numbers.
LEMMA NumbersStay ==
  ASSUME IInv, IInv', [Next]_vars, FetchNumbers
  PROVE  FetchNumbers'
<1> SUFFICES ASSUME Running'
    PROVE  /\ \A j \in 1..Len(serverConnections') :
                LET s == serverConnections'[j]
                IN  sock'[s.socketFd].fetch \in 1..Len(fetched') /\ fetched'[sock'[s.socketFd].fetch] = s.URl
           /\ \A i, j \in 1..Len(serverConnections') :
                sock'[serverConnections'[i].socketFd].fetch = sock'[serverConnections'[j].socketFd].fetch => i = j
  BY DEF FetchNumbers, numberOf
<1>1. Running /\ ConnectionsOpen'
  BY RunningBefore, NextWhenRunning
<1>0. Len(fetched) + 1 \notin 1..Len(fetched)
  BY FetchesGrow
<1> DEFINE Old(j, k) == /\ sock'[serverConnections'[j].socketFd].fetch = numberOf(serverConnections[k])
                        /\ serverConnections'[j].socketFd = serverConnections[k].socketFd
                        /\ serverConnections'[j].URl = serverConnections[k].URl
           New(j) == /\ ClientStartsFetch /\ serverConnections'[j].socketFd = NewDescriptor
                     /\ sock'[serverConnections'[j].socketFd].fetch = Len(fetched) + 1
                     /\ serverConnections'[j].URl = request[client.buffer]
<1>2. \A j \in 1..Len(serverConnections') :
        New(j) \/ \E k \in 1..Len(serverConnections) : Old(j, k)
  BY NumberNext DEF Started, numberOf
<1>3. \A k \in 1..Len(serverConnections) :
        /\ numberOf(serverConnections[k]) \in 1..Len(fetched)
        /\ fetched[numberOf(serverConnections[k])] = serverConnections[k].URl
  BY <1>1 DEF FetchNumbers
<1>4. ASSUME NEW j \in 1..Len(serverConnections')
      PROVE  /\ sock'[serverConnections'[j].socketFd].fetch \in 1..Len(fetched')
             /\ fetched'[sock'[serverConnections'[j].socketFd].fetch] = serverConnections'[j].URl
  BY SMTT(20), <1>2, <1>3, FetchesGrow
<1>5. ASSUME NEW i \in 1..Len(serverConnections'), NEW j \in 1..Len(serverConnections'),
             sock'[serverConnections'[i].socketFd].fetch = sock'[serverConnections'[j].socketFd].fetch
      PROVE  i = j
  <2>1. serverConnections'[i].socketFd = serverConnections'[j].socketFd
    <3>1. CASE New(i) /\ New(j)
      BY <3>1
    <3>2. CASE New(i) /\ \E k \in 1..Len(serverConnections) : Old(j, k)
      <4>1. PICK k \in 1..Len(serverConnections) : Old(j, k)
        BY <3>2
      <4>2. sock'[serverConnections'[j].socketFd].fetch \in 1..Len(fetched)
        BY <1>3, <4>1
      <4>3. QED
        BY <1>0, <1>5, <3>2, <4>2
    <3>3. CASE New(j) /\ \E k \in 1..Len(serverConnections) : Old(i, k)
      <4>1. PICK k \in 1..Len(serverConnections) : Old(i, k)
        BY <3>3
      <4>2. sock'[serverConnections'[i].socketFd].fetch \in 1..Len(fetched)
        BY <1>3, <4>1
      <4>3. QED
        BY <1>0, <1>5, <3>3, <4>2
    <3>4. ASSUME NEW k \in 1..Len(serverConnections), NEW l \in 1..Len(serverConnections),
                 Old(i, k), Old(j, l)
          PROVE  serverConnections'[i].socketFd = serverConnections'[j].socketFd
      <4>1. numberOf(serverConnections[k]) = numberOf(serverConnections[l])
        BY <1>5, <3>4
      <4>2. k = l
        BY <1>1, <4>1 DEF FetchNumbers
      <4>3. QED
        BY <3>4, <4>2
    <3>5. QED
      BY <1>2, <3>1, <3>2, <3>3, <3>4
  <2>2. QED
    BY <1>1, <2>1 DEF ConnectionsOpen
<1>6. QED
  BY <1>4, <1>5

\* A page that is fetched once has one fetch under way at most.
LEMMA OneFetch ==
  ASSUME IInv, FetchNumbers, Running, NEW i \in 1..Len(serverConnections),
         NEW j \in 1..Len(serverConnections), Sole(serverConnections[i].URl),
         serverConnections[i].URl = serverConnections[j].URl
  PROVE  i = j
BY DEF FetchNumbers, Sole

(***************************************************************************)
(* How the proxy has ended with a client is settled once.                  *)
(***************************************************************************)
NoneYet ==
    /\ \A x \in Clients : request[x] = NoUrl => outcome[x] = "none"
    /\ \A k \in 1..Len(backlog) : outcome[backlog[k]] = "none"
    /\ Running => \A i \in 1..Len(clientConnections) : outcome[clientConnections[i].buffer] = "none"

\* An end is told to one client, whose connection goes.
LEMMA OutcomesStay ==
  ASSUME IInv, [Next]_vars
  PROVE  \/ outcome' = outcome
         \/ /\ ClientGoes \/ ClientServed
            /\ it \in 1..Len(clientConnections) /\ client = clientConnections[it]
            /\ client.socketFd \notin DOMAIN sock'
            /\ \E how \in Outcomes : outcome' = [outcome EXCEPT ![client.buffer] = how]
<1>1. CASE ClientGoes \/ ClientServed
  <2>1. /\ ClientTurn /\ it \in 1..Len(clientConnections) /\ client = clientConnections[it]
        /\ sock[client.socketFd].peer = client.buffer
    BY <1>1, ClientGoing, Turns, ClientAtTurn DEF ClientServed, ClientWritable
  <2>2. ASSUME NEW sockets, NEW how \in Outcomes, removeClientConnection(it, sockets, how)
        PROVE  /\ client.socketFd \notin DOMAIN sock'
               /\ outcome' = [outcome EXCEPT ![client.buffer] = how]
    <3>1. /\ sock' = Erase(sockets, client.socketFd)
          /\ outcome' = [outcome EXCEPT ![client.buffer] = how]
      BY <2>1, <2>2 DEF removeClientConnection, removeConnection
    <3>2. DOMAIN sock' = DOMAIN sockets \ {client.socketFd}
      BY <3>1 DEF Erase
    <3>3. QED
      BY <3>1, <3>2
  <2>3. \/ outcome' = outcome
        \/ \E sockets : \E how \in Outcomes : removeClientConnection(it, sockets, how)
    <3>1. CASE ClientServed
      <4>1. outcome' = outcome \/ \E sockets : removeClientConnection(it, sockets, "complete")
        BY <3>1 DEF ClientServed
      <4>2. "complete" \in Outcomes
        BY DEF Outcomes
      <4>3. QED
        BY <4>1, <4>2
    <3>2. CASE ClientHungUp \/ ClientToldError \/ ClientSendFails \/ ClientReceivesEnd
      <4>1. \/ removeClientConnection(it, sock, "dropped")
            \/ removeClientConnection(it, sock, "error")
        BY <3>2 DEF ClientHungUp, ClientToldError, ClientSendFails, ClientReceivesEnd
      <4>2. "dropped" \in Outcomes /\ "error" \in Outcomes
        BY DEF Outcomes
      <4>3. QED
        BY <4>1, <4>2
    <3>3. CASE ClientFetchFails
      <4>1. \E sockets : removeClientConnection(it, sockets, "error")
        BY <3>3 DEF ClientFetchFails
      <4>2. "error" \in Outcomes
        BY DEF Outcomes
      <4>3. QED
        BY <4>1, <4>2
    <3>4. QED
      BY <1>1, <3>1, <3>2, <3>3 DEF ClientGoes
  <2>4. QED
    BY <1>1, <2>1, <2>2, <2>3
<1>2. CASE ~ClientGoes /\ ~ClientServed
  <2>1. CASE Outside
    BY <2>1 DEF Outside, ClientStep, OriginStep, ClientConnect, ClientSend, ClientRead, ClientLeaves,
       OriginAccept, OriginSend, OriginClose, OriginReset
  <2>2. CASE Moves
    BY <2>2, MovingOn DEF netVars
  <2>3. CASE addNewConnection \/ Reads \/ ServerReceivesData \/ ServerSendsRequest \/ stop
    BY <2>3 DEF addNewConnection, Reads, ClientReceivesPart, ClientAsksForCached, ClientStartsFetch,
       ServerReceivesData, ServerSendsRequest, stop
  <2>4. CASE ServerGoes
    BY <2>4, ServerGoing
  <2>5. QED
    BY <1>2, <2>1, <2>2, <2>3, <2>4, Steps
<1>3. QED
  BY <1>1, <1>2

\* A client that is still there has not been told its end.
LEMMA OutcomeWhileThere ==
  ASSUME IInv, IInv', [Next]_vars, Running',
         NEW k \in 1..Len(clientConnections), NEW j \in 1..Len(clientConnections'),
         clientConnections'[j].socketFd = clientConnections[k].socketFd
  PROVE  outcome'[clientConnections[k].buffer] = outcome[clientConnections[k].buffer]
<1>1. Running /\ ConnectionsOpen /\ ConnectionsOpen'
  BY RunningBefore, WhenRunning, NextWhenRunning
<1>2. CASE outcome' = outcome
  BY <1>2
<1>3. CASE /\ it \in 1..Len(clientConnections) /\ client = clientConnections[it]
           /\ client.socketFd \notin DOMAIN sock'
           /\ \E how \in Outcomes : outcome' = [outcome EXCEPT ![client.buffer] = how]
  <2>2. clientConnections'[j].socketFd \in DOMAIN sock'
    BY <1>1 DEF ConnectionsOpen
  <2>3. k # it
    BY <1>3, <2>2
  <2>4. clientConnections[k].buffer # client.buffer
    BY <1>1, <1>3, <2>3 DEF ConnectionsOpen
  <2>5. outcome \in [Clients -> Outcomes]
    BY DEF IInv, Types
  <2>6. QED
    BY <1>1, <1>3, <2>4, <2>5 DEF ConnectionsOpen
<1>4. QED
  BY <1>2, <1>3, OutcomesStay

\* Who has not been told its end yet is still there, or has not come yet.
LEMMA NoneYetStays ==
  ASSUME IInv, IInv', [Next]_vars, NoneYet
  PROVE  NoneYet'
<1>0. outcome \in [Clients -> Outcomes]
  BY DEF IInv, Types
<1>1. ASSUME NEW x \in Clients, outcome[x] = "none", outcome'[x] # "none"
      PROVE  /\ it \in 1..Len(clientConnections) /\ x = clientConnections[it].buffer
             /\ ~addNewConnection
  <2>1. outcome' # outcome
    BY <1>1
  <2>2. /\ it \in 1..Len(clientConnections) /\ client = clientConnections[it]
        /\ \E how \in Outcomes : outcome' = [outcome EXCEPT ![client.buffer] = how]
    BY <2>1, OutcomesStay
  <2>3. x = client.buffer
    BY <1>0, <1>1, <2>2
  <2>4. ~addNewConnection
    BY <2>1 DEF addNewConnection
  <2>5. QED
    BY <2>2, <2>3, <2>4
<1>2. \A x \in Clients : request'[x] = NoUrl => outcome'[x] = "none"
  <2> SUFFICES ASSUME NEW x \in Clients, request'[x] = NoUrl, outcome'[x] # "none"
               PROVE  FALSE
    OBVIOUS
  <2>1. request[x] = NoUrl /\ outcome[x] = "none"
    BY AskersStay DEF NoneYet
  <2>2. QED
    BY <1>1, <2>1 DEF IInv, Known
<1>3. \A k \in 1..Len(backlog') : outcome'[backlog'[k]] = "none"
  <2> SUFFICES ASSUME NEW k \in 1..Len(backlog'), outcome'[backlog'[k]] # "none"
               PROVE  FALSE
    OBVIOUS
  <2>1. PICK x : x = backlog'[k]
    OBVIOUS
  <2>2. /\ x \in Clients
        /\ request[x] = NoUrl \/ \E l \in 1..Len(backlog) : x = backlog[l]
    BY <2>1, AskersStay
  <2>3. outcome[x] = "none"
    BY <2>2 DEF NoneYet
  <2>4. it \in 1..Len(clientConnections) /\ x = clientConnections[it].buffer
    BY <1>1, <2>1, <2>2, <2>3
  <2>5. QED
    BY <2>2, <2>4 DEF IInv, Known
<1>4. ASSUME Running', NEW j \in 1..Len(clientConnections')
      PROVE  outcome'[clientConnections'[j].buffer] = "none"
  <2>1. PICK d, f : d = clientConnections'[j] /\ f = pollFds'[d.pollFdsIndex]
    OBVIOUS
  <2>2. Running
    BY <1>4, RunningBefore
  <2>3. CASE IsNew(d, f)
    <3>1. d.buffer = backlog[1] /\ 1 \in 1..Len(backlog) /\ addNewConnection /\ d.buffer \in Clients
      <4>1. backlog \in Seq(Clients) /\ backlog # <<>> /\ d.buffer = Head(backlog)
        BY <2>3 DEF IsNew, addNewConnection, IInv, Types
      <4>2. addNewConnection
        BY <2>3 DEF IsNew
      <4>3. Len(backlog) \in Nat /\ Len(backlog) > 0
        BY <4>1, LenProperties, EmptySeq
      <4>4. QED
        BY <4>1, <4>2, <4>3
    <3>2. QED
      BY <1>1, <2>1, <3>1 DEF NoneYet
  <2>4. ASSUME NEW k \in 1..Len(clientConnections), Was(d, f, k)
        PROVE  outcome'[d.buffer] = "none"
    <3>1. d.socketFd = clientConnections[k].socketFd /\ d.buffer = clientConnections[k].buffer
      BY <2>4 DEF Was
    <3>2. outcome'[d.buffer] = outcome[d.buffer]
      BY <1>4, <2>1, <3>1, OutcomeWhileThere
    <3>3. QED
      BY <2>2, <3>1, <3>2 DEF NoneYet
  <2>5. QED
    BY <2>1, <2>3, <2>4, ClientsDescend DEF Descends
<1>5. QED
  BY <1>2, <1>3, <1>4 DEF NoneYet

(***************************************************************************)
(* Clients that stay and send no more than their request are not heard of  *)
(* again once they have asked.                                             *)
(***************************************************************************)
Listens(c, s, entry) ==
    /\ ~s.rst /\ ~s.fin
    /\ "ERR" \notin entry.revents
    /\ c.URl # NoUrl => "IN" \notin entry.revents

ClientsListen ==
    /\ faults \cap {"clientLeaves", "sendsOn"} = {}
    /\ Running => \A i \in 1..Len(clientConnections) :
        LET c == clientConnections[i]
        IN  Listens(c, sock[c.socketFd], entryOf(c))

\* What only a client that leaves changes of its socket.
LEMMA ClientsStayUp ==
  ASSUME IInv, IInv', AsksForItsPage, [Next]_vars, Running', "clientLeaves" \notin faults,
         NEW k \in 1..Len(clientConnections), NEW c, c = clientConnections[k],
         NEW j \in 1..Len(clientConnections'), NEW d, d = clientConnections'[j],
         d.socketFd = c.socketFd
  PROVE  sock'[d.socketFd].rst = sock[c.socketFd].rst /\ sock'[d.socketFd].fin = sock[c.socketFd].fin
<1> DEFINE fd == c.socketFd
<1>1. Running /\ ConnectionsOpen /\ ConnectionsOpen'
  BY RunningBefore, WhenRunning, NextWhenRunning
<1>2. fd \in DOMAIN sock /\ fd \in DOMAIN sock' /\ sock[fd] \in Socket /\ sock[fd].peer \in Clients
  BY <1>1 DEF ConnectionsOpen
<1> HIDE DEF fd
<1>4. CASE Outside
  <2>1. Origin \notin Clients
    BY NetworkAssumption
  <2>2. PICK g \in DOMAIN sock, s \in Socket :
            \/ sock' = sock
            \/ sock' = [sock EXCEPT ![g] = s] /\ s.rst = sock[g].rst /\ s.fin = sock[g].fin
            \/ sock' = [sock EXCEPT ![g] = s] /\ sock[g].peer = Origin
    <3>1. CASE \E x \in Clients : ClientConnect(x)
      BY <1>2, <3>1 DEF ClientConnect
    <3>2. CASE \E g \in DOMAIN sock : ClientSend(g) \/ ClientRead(g)
      <4>1. PICK g \in DOMAIN sock : ClientSend(g) \/ ClientRead(g)
        BY <3>2
      <4>2. sock[g] \in Socket
        BY DEF IInv, Types
      <4>3. \/ \E n \in 1..(MostSent - sent[sock[g].peer]) : sock' = [sock EXCEPT ![g].rx = @ + n]
            \/ sock' = [sock EXCEPT ![g].txq = 0]
        BY <4>1 DEF ClientSend, ClientRead
      <4>4. CASE sock' = [sock EXCEPT ![g].txq = 0]
        <5>1. [sock[g] EXCEPT !.txq = 0] \in Socket
          BY <4>2 DEF Socket
        <5>2. sock' = [sock EXCEPT ![g] = [sock[g] EXCEPT !.txq = 0]]
          BY <4>4
        <5>3. [sock[g] EXCEPT !.txq = 0].rst = sock[g].rst /\ [sock[g] EXCEPT !.txq = 0].fin = sock[g].fin
          BY <4>2 DEF Socket
        <5>4. QED
          BY <5>1, <5>2, <5>3
      <4>5. ASSUME NEW n \in 1..(MostSent - sent[sock[g].peer]), sock' = [sock EXCEPT ![g].rx = @ + n]
            PROVE  \E s \in Socket : /\ sock' = [sock EXCEPT ![g] = s]
                                     /\ s.rst = sock[g].rst /\ s.fin = sock[g].fin
        <5>0. sock[g].rx \in Int /\ n \in Int
          BY <4>2 DEF Socket
        <5>1. PICK m \in Int : m = sock[g].rx + n
          BY <5>0
        <5>2. PICK s : s = [sock[g] EXCEPT !.rx = m]
          OBVIOUS
        <5>3. s \in Socket /\ s.rst = sock[g].rst /\ s.fin = sock[g].fin
          BY <4>2, <5>2 DEF Socket
        <5>4. sock' = [sock EXCEPT ![g] = s]
          BY <4>5, <5>1, <5>2
        <5>5. QED
          BY <5>3, <5>4
      <4>6. QED
        BY <4>3, <4>4, <4>5
    <3>3. CASE \E g \in DOMAIN sock :
                 OriginAccept(g) \/ OriginSend(g) \/ OriginClose(g) \/ OriginReset(g)
      <4>1. PICK g \in DOMAIN sock :
                OriginAccept(g) \/ OriginSend(g) \/ OriginClose(g) \/ OriginReset(g)
        BY <3>3
      <4>2. sock[g].peer = Origin
        BY <4>1 DEF OriginAccept, OriginSend, OriginClose, OriginReset, Responding, Fetching
      <4>3. \E s : sock' = [sock EXCEPT ![g] = s]
        BY <4>1 DEF OriginAccept, OriginSend, OriginClose, OriginReset
      <4>4. Alike(sock', sock)
        BY <1>4, PeersKeepSockets DEF Outside
      <4>5. \E s \in Socket : sock' = [sock EXCEPT ![g] = s]
        BY <4>3, <4>4 DEF Alike
      <4>6. QED
        BY <4>2, <4>5
    <3>4. QED
      BY <1>4, <3>1, <3>2, <3>3 DEF Outside, ClientStep, OriginStep, ClientLeaves
  <2>3. QED
    BY <1>2, <2>1, <2>2 DEF fd
<1>5. CASE ~Outside /\ (Reads \/ ClientServed => k # it)
  <2>1. /\ Reads \/ ClientServed => fd # client.socketFd
        /\ ServerReceivesData \/ ServerSendsRequest => fd # server.socketFd
    BY <1>1, <1>5, Turns DEF ConnectionsOpen, fd
  <2>2. QED
    BY <1>2, <1>5, <2>1, SocketsStay DEF fd
<1>6. CASE Reads /\ k = it
  <2>1. client = c /\ client.socketFd = fd
    BY <1>6, Turns DEF fd
  <2>2. PICK n \in 1..BUF_SIZE :
            \/ sock' = Received(fd, n)
            \/ FreeDescriptors # {} /\ sock' = Assign(Received(fd, n), NewDescriptor, ServerSocket(Len(fetched) + 1))
    BY <1>6, <2>1 DEF Reads, ClientReceivesPart, ClientAsksForCached, ClientStartsFetch
  <2>3. FreeDescriptors # {} => NewDescriptor # fd
    BY <1>1, <1>2, NewDescriptorIsNew
  <2>4. sock'[fd] = Received(fd, n)[fd]
    BY <1>2, <2>2, <2>3 DEF Assign, Received
  <2>5. Received(fd, n)[fd].rst = sock[fd].rst /\ Received(fd, n)[fd].fin = sock[fd].fin
    BY <1>2 DEF Received, Socket
  <2>6. QED
    BY <2>4, <2>5 DEF fd
<1>7. CASE ClientServed /\ k = it
  <2>1. client = c /\ client.socketFd = fd
    BY <1>7, Turns DEF fd
  <2>2. \E n \in Int : ServedPart(n)
    BY <1>7, <2>1, ServedAndStays DEF fd
  <2>3. \E m : sock' = [sock EXCEPT ![fd].txq = m]
    BY <2>1, <2>2 DEF ServedPart
  <2>4. QED
    BY <1>2, <2>3 DEF Socket, fd
<1>8. QED
  BY <1>4, <1>5, <1>6, <1>7

\* Clients go on listening.
LEMMA ListenNext ==
  ASSUME IInv, IInv', AsksForItsPage, [Next]_vars, Running', ClientsListen,
         NEW j \in 1..Len(clientConnections'), NEW d, d = clientConnections'[j],
         NEW f, f = pollFds'[d.pollFdsIndex]
  PROVE  Listens(d, sock'[d.socketFd], f)
<1>1. Running /\ ConnectionsOpen
  BY RunningBefore, WhenRunning
<1>2. CASE IsNew(d, f)
  <2>1. sock' = Assign(sock, d.socketFd, ClientSocket(d.buffer)) /\ f.revents = {} /\ d.URl = NoUrl
    BY <1>2, AcceptedAsks DEF IsNew
  <2>2. sock'[d.socketFd] = ClientSocket(d.buffer)
    BY <2>1 DEF Assign
  <2>3. QED
    BY <2>1, <2>2 DEF Listens, ClientSocket
<1>3. ASSUME NEW k \in 1..Len(clientConnections), Was(d, f, k)
      PROVE  Listens(d, sock'[d.socketFd], f)
  <2>1. PICK c, e : c = clientConnections[k] /\ e = entryOf(c)
    OBVIOUS
  <2>2. d.socketFd = c.socketFd
    BY <1>3, <2>1 DEF Was
  <2>3. Listens(c, sock[c.socketFd], e)
    BY <1>1, <2>1 DEF ClientsListen
  <2>4. ~sock'[d.socketFd].rst /\ ~sock'[d.socketFd].fin
    BY <2>1, <2>2, <2>3, ClientsStayUp DEF ClientsListen, Listens
  <2>5. CASE f.revents = {}
    BY <2>4, <2>5 DEF Listens
  <2>6. CASE f.revents = e.revents /\ f.revents # {}
    <3>1. d.URl = c.URl
      BY <1>3, <2>1, <2>6 DEF Was
    <3>2. QED
      BY <2>3, <2>4, <2>6, <3>1 DEF Listens
  <2>7. CASE Poll /\ f.revents = ReadyEvents(c.socketFd, e.events) /\ f.revents # {}
    <3>1. d.URl = c.URl
      BY <1>3, <2>1, <2>7 DEF Was
    <3>2. "ERR" \notin f.revents
      BY <2>3, <2>7 DEF ReadyEvents, Listens
    <3>3. c.URl # NoUrl => sock[c.socketFd].rx = 0
      <4> SUFFICES ASSUME c.URl # NoUrl PROVE sock[c.socketFd].rx = 0
        OBVIOUS
      <4>1. /\ heap[c.buffer] >= ReqLen /\ heap[c.buffer] \in Nat /\ sock[c.socketFd].rx \in Nat
            /\ heap[c.buffer] + sock[c.socketFd].rx <= sent[c.buffer]
        BY <1>1, <2>1 DEF AsksForItsPage, AskedOf, Asked
      <4>2. sent[c.buffer] \in 0..ReqLen /\ ReqLen \in Nat
        BY <1>1, <2>1, NetworkAssumption DEF AsksForItsPage, ConnectionsOpen, ClientsListen, MostSent
      <4>3. QED
        BY <4>1, <4>2
    <3>4. c.URl # NoUrl => "IN" \notin f.revents
      BY <2>3, <2>7, <3>3 DEF ReadyEvents, Listens
    <3>5. QED
      BY <2>4, <3>1, <3>2, <3>4 DEF Listens
  <2>8. QED
    BY <1>3, <2>1, <2>5, <2>6, <2>7 DEF Was
<1>4. QED
  BY <1>2, <1>3, ClientsDescend DEF Descends

\* So no step makes a client stop listening.
LEMMA ListeningStays ==
  ASSUME IInv, IInv', AsksForItsPage, [Next]_vars, ClientsListen
  PROVE  ClientsListen'
<1>1. faults' = faults
  BY SurroundingsStay
<1>2. QED
  BY <1>1, ListenNext DEF ClientsListen, entryOf

-----------------------------------------------------------------------------
(***************************************************************************)
(* What a page that is fetched once looks like at every moment.  Calm is   *)
(* what holds of the loop among clients that stay and send one request,    *)
(* and origins that answer.                                                *)
(***************************************************************************)
Calm ==
    /\ IInv /\ AsksForItsPage /\ SentInv /\ HonestOrigins /\ FetchesAreGood
    /\ FetchNumbers /\ ClientsListen /\ NoneYet

\* A client hangs up, or cannot be sent anything, only before it has asked.
LEMMA WhyClientsGo ==
  ASSUME Calm, ClientGoes
  PROVE  /\ Running /\ it \in 1..Len(clientConnections) /\ client = clientConnections[it]
         /\ \/ client.URl = NoUrl
            \/ ClientToldError /\ client.socketFd \in DOMAIN errors
         /\ ClientToldError => client.URl # NoUrl /\ client.socketFd \in DOMAIN errors
<1>1. /\ Running /\ ClientTurn /\ it \in 1..Len(clientConnections) /\ client = clientConnections[it]
      /\ client.URl = NoUrl => "OUT" \notin reventsOf(client)
  BY Turns, ClientGoing, ClientAtTurn DEF Calm
<1>2. Listens(client, sock[client.socketFd], entryOf(client))
  BY <1>1 DEF Calm, ClientsListen
<1>3. ~ClientHungUp /\ ~ClientSendFails
  BY <1>2 DEF Listens, ClientHungUp, ClientSendFails, reventsOf, entryOf
<1>4. ClientReceivesEnd \/ ClientFetchFails => client.URl = NoUrl
  BY <1>2 DEF Listens, ClientReceivesEnd, ClientFetchFails, ReceivesRequest, Receives,
     ClientReadable, reventsOf, entryOf
<1>5. ClientToldError => client.URl # NoUrl /\ client.socketFd \in DOMAIN errors
  BY <1>1 DEF ClientToldError, ClientWritable
<1>6. QED
  BY <1>1, <1>3, <1>4, <1>5 DEF ClientGoes

\* A fetch ends with its response, with a status that is refused, or because
\* its request is gone.
LEMMA WhyFetchesEnd ==
  ASSUME Calm, ServerGoes
  PROVE  /\ Running /\ it \in 1..Len(serverConnections) /\ server = serverConnections[it]
         /\ \/ ServerReceivesBadStatus
            \/ ServerReceivesEnd /\ sock[server.socketFd].rx = 0 /\ sock[server.socketFd].fin
            \/ /\ ServerSendFails /\ entryOf(server).events = "OUT"
               /\ server.buffer \notin DOMAIN heap
<1>1. /\ Running /\ it \in 1..Len(serverConnections) /\ server = serverConnections[it]
      /\ server.socketFd \in DOMAIN sock
  BY Turns, ServerGoing, ServerAtTurn DEF Calm
<1>2. GoodFetch(server)
  BY <1>1 DEF Calm, FetchesAreGood
<1>3. PICK s : s = sock[server.socketFd]
  OBVIOUS
<1>4. Honest(s)
  BY <1>1, <1>2, <1>3 DEF Calm, HonestOrigins, GoodFetch
<1>5. /\ "ERR" \notin reventsOf(server)
      /\ "IN" \in reventsOf(server) => s.rx > 0 \/ s.fin
      /\ "OUT" \in reventsOf(server) => entryOf(server).events = "OUT"
  BY <1>2, <1>3 DEF GoodFetch, Fetches, reventsOf, entryOf
<1>6. s.rx \in Nat /\ BUF_SIZE \in Nat \ {0} /\ ~s.rst
  BY <1>4, NetworkAssumption DEF Honest
<1>7. ~ServerHungUp
  BY <1>5 DEF ServerHungUp
<1>8. ~ServerReceiveFails
  <2> SUFFICES ASSUME ServerReceiveFails PROVE FALSE
    OBVIOUS
  <2>1. recvCount(server.socketFd) < 0 /\ (s.rx > 0 \/ s.fin)
    BY <1>5 DEF ServerReceiveFails, ServerReadable
  <2>2. recvCount(server.socketFd) >= 0 /\ recvCount(server.socketFd) \in Int
    BY <1>3, <1>6, <2>1 DEF recvCount, SmallerOf
  <2>3. QED
    BY <2>1, <2>2
<1>9. ServerReceivesEnd => s.rx = 0 /\ s.fin
  <2> SUFFICES ASSUME ServerReceivesEnd PROVE s.rx = 0 /\ s.fin
    OBVIOUS
  <2>1. recvCount(server.socketFd) = 0
    BY DEF ServerReceivesEnd
  <2>2. ~(s.rx > 0)
    BY <1>3, <1>6, <2>1 DEF recvCount, SmallerOf
  <2>3. s.fin
    BY <1>3, <2>1, <2>2 DEF recvCount
  <2>4. s.rx = 0
    BY <1>6, <2>2
  <2>5. QED
    BY <2>3, <2>4
<1>10. ServerSendFails => entryOf(server).events = "OUT" /\ server.buffer \notin DOMAIN heap
  BY <1>3, <1>5, <1>6 DEF ServerSendFails, ServerWritable
<1>11. QED
  BY <1>1, <1>3, <1>7, <1>8, <1>9, <1>10 DEF ServerGoes

\* Every client stays unless its own turn ends its connection.
LEMMA ClientsLast ==
  ASSUME IInv, [Next]_vars, NEW k \in 1..Len(clientConnections), NEW c, c = clientConnections[k]
  PROVE  \/ k = it /\ ClientGoes
         \/ k = it /\ ClientServed /\ cacheNodeReady(c.URl)
         \/ \E j \in 1..Len(clientConnections') :
                /\ clientConnections'[j].socketFd = c.socketFd
                /\ clientConnections'[j].buffer = c.buffer
                /\ clientConnections'[j].URl = c.URl \/ (Reads /\ k = it)
<1>1. CASE clientConnections' = clientConnections
  BY <1>1
<1>2. CASE ClientAsksForCached \/ ClientStartsFetch
  <2>1. it \in 1..Len(clientConnections) /\ ClientTurn
    BY <1>2, Turns DEF Reads, ClientAsksForCached, ClientStartsFetch, ReceivesRequest, Receives, ClientReadable
  <2>2. \E url \in Urls : clientConnections' = Asking(url)
    <3>1. PICK url : clientConnections' = Asking(url) /\ url = request[client.buffer] /\ url # Malformed
      BY <1>2, <2>1, ClientAtTurn DEF ClientAsksForCached, ClientStartsFetch
    <3>2. QED
      BY <2>1, <3>1, ClientAtTurn
  <2>3. /\ SamePlaces(clientConnections', clientConnections)
        /\ \A i \in 1..Len(clientConnections) : i # it => clientConnections'[i] = clientConnections[i]
    BY <2>1, <2>2, AskingIsTyped
  <2>4. QED
    BY <1>2, <2>3 DEF SamePlaces, Reads
<1>3. CASE addNewConnection
  <2>1. clientConnections \in Seq(ClientConns)
    BY DEF IInv, Types
  <2>2. clientConnections' = clientConnections \/ \E d : clientConnections' = Append(clientConnections, d)
    BY <1>3 DEF addNewConnection
  <2>3. ASSUME NEW d, clientConnections' = Append(clientConnections, d)
        PROVE  k \in 1..Len(clientConnections') /\ clientConnections'[k] = c
    BY <2>1, <2>3, LenProperties
  <2>4. QED
    BY <1>1, <2>2, <2>3
<1>4. ASSUME NEW sockets, NEW how, removeClientConnection(it, sockets, how), k # it,
             it \in 1..Len(clientConnections)
      PROVE  \E j \in 1..Len(clientConnections') : SameConnection(clientConnections'[j], c)
  <2>1. Survive(pollFds', clientConnections', pollFds, clientConnections, it)
    BY <1>4, ClientRemovalMoves
  <2>2. QED
    BY <1>4, <2>1 DEF Survive, Follows
<1>5. CASE ClientGoes
  <2>1. it \in 1..Len(clientConnections) /\ \E sockets, how : removeClientConnection(it, sockets, how)
    BY <1>5, Turns, ClientGoing
  <2>2. QED
    BY <1>4, <1>5, <2>1 DEF SameConnection
<1>6. CASE ClientServed
  <2>1. it \in 1..Len(clientConnections) /\ client = clientConnections[it]
    BY <1>6, Turns
  <2>2. \/ clientConnections' = clientConnections
        \/ cacheNodeReady(client.URl) /\ \E sockets, how : removeClientConnection(it, sockets, how)
    BY <1>6 DEF ClientServed, allDataHasBeenSent
  <2>3. QED
    BY <1>1, <1>4, <1>6, <2>1, <2>2 DEF SameConnection
<1>7. CASE ServerGoes
  <2>1. it \in 1..Len(serverConnections) /\ server = serverConnections[it] /\ ServerTurn
    BY <1>7, Turns, ServerGoing
  <2>2. PICK table \in {pollFds, prepareClientsToWrite(server.URl)} : removeServerConnection(it, table)
    BY <1>7, ServerGoing
  <2>3. table \in Seq(Entry) /\ SameFds(table, pollFds)
    <3>1. server.URl \in Urls
      BY <2>1, ServerAtTurn
    <3>2. CASE table = pollFds
      BY <3>2 DEF IInv, Types, SameFds
    <3>3. CASE table = prepareClientsToWrite(server.URl)
      BY <3>1, <3>3, PreparingWatches
    <3>4. QED
      BY <2>2, <3>2, <3>3
  <2>4. Stay(pollFds', clientConnections', table, clientConnections)
    BY <2>1, <2>2, <2>3, ServerRemovalMoves
  <2>5. QED
    BY <2>4 DEF Stay, Follows, SameConnection
<1>8. CASE Outside \/ Moves \/ ClientReceivesPart \/ ServerReceivesData \/ ServerSendsRequest \/ stop
  <2>1. clientConnections' = clientConnections
    BY <1>8, MovingOn DEF Outside, ProgramVars, tableVars, ClientReceivesPart, ServerReceivesData,
       ServerSendsRequest, stop
  <2>2. QED
    BY <1>1, <2>1
<1>9. QED
  BY <1>2, <1>3, <1>5, <1>6, <1>7, <1>8, Steps DEF Reads

Flagged(url) == url \in DOMAIN cacheReady /\ cacheReady[url]

\* The first n units of the response to url that fetch f reads.
Prefix(f, url, n) == [k \in 1..n |-> Unit(f, url, k)]

\* A prefix is a sequence of the units it counts.
LEMMA PrefixIsSeq ==
  ASSUME NEW f, NEW url, NEW n \in Nat
  PROVE  /\ Len(Prefix(f, url, n)) = n /\ DOMAIN Prefix(f, url, n) = 1..n
         /\ \A k \in 1..n : Prefix(f, url, n)[k] = Unit(f, url, k)
         /\ Prefix(f, url, 0) = <<>>
BY DEF Prefix

\* The next units of the same fetch make the prefix longer.
LEMMA PrefixGrows ==
  ASSUME NEW f \in Nat, NEW url \in Urls, NEW n \in Nat, NEW m \in Nat
  PROVE  Prefix(f, url, n) \o [i \in 1..m |-> Unit(f, url, n + i)] = Prefix(f, url, n + m)
<1> DEFINE a == Prefix(f, url, n)
           b == [i \in 1..m |-> Unit(f, url, n + i)]
<1>1. \A k \in Int : Unit(f, url, k) \in Units
  BY DEF Unit, Units
<1>2. a \in Seq(Units) /\ b \in Seq(Units) /\ Len(a) = n /\ Len(b) = m
  BY <1>1 DEF Prefix
<1>3. \A k \in 1..n : a[k] = Unit(f, url, k)
  BY DEF Prefix
<1>4. \A k \in 1..m : b[k] = Unit(f, url, n + k)
  OBVIOUS
<1> HIDE DEF a, b
<1>5. /\ a \o b \in Seq(Units) /\ Len(a \o b) = n + m
      /\ \A k \in 1..n + m : (a \o b)[k] = IF k <= n THEN a[k] ELSE b[k - n]
  BY <1>2, ConcatProperties
<1>6. PICK t : t = a \o b
  OBVIOUS
<1>7. /\ t \in Seq(Units) /\ Len(t) = n + m
      /\ \A k \in 1..n + m : t[k] = IF k <= n THEN a[k] ELSE b[k - n]
  BY <1>5, <1>6
<1>8. ASSUME NEW k \in 1..n + m PROVE t[k] = Unit(f, url, k)
  <2>1. CASE k <= n
    <3>1. k \in 1..n
      BY <2>1
    <3>2. QED
      BY <1>3, <1>7, <2>1, <3>1
  <2>2. CASE k > n
    <3>1. k - n \in 1..m /\ n + (k - n) = k /\ ~(k <= n)
      BY <2>2
    <3>2. b[k - n] = Unit(f, url, k)
      BY <1>4, <3>1
    <3>3. t[k] = b[k - n]
      BY <1>7, <3>1
    <3>4. QED
      BY <3>2, <3>3
  <2>3. QED
    BY <2>1, <2>2
<1>9. t = [k \in 1..n + m |-> t[k]]
  BY <1>7
<1>10. t = [k \in 1..n + m |-> Unit(f, url, k)]
  BY <1>8, <1>9
<1>11. QED
  BY <1>6, <1>10 DEF a, b, Prefix

\* A node changes only when a fetch of its URL reads.
LEMMA NodeStays ==
  ASSUME IInv, [Next]_vars, NEW url, ~(ServerReceivesData /\ server.URl = url)
  PROVE  nodeData(url)' = nodeData(url)
<1>1. CASE ServerReceivesData
  <2>1. PICK data : addData(server.URl, data)
    BY <1>1 DEF ServerReceivesData
  <2>2. server.URl # url
    BY <1>1
  <2>3. QED
    BY <2>1, <2>2 DEF addData, Assign, nodeData, contains
<1>2. CASE ClientServed \/ ClientSendFails
  <2>1. getCurrentData(client.URl)
    BY <1>2 DEF ClientServed, ClientSendFails
  <2>2. QED
    BY <2>1 DEF getCurrentData, Assign, nodeData, contains
<1>3. CASE ClientStartsFetch \/ ServerReceivesEnd
  <2>1. cacheMap' = cacheMap
    BY <1>3 DEF ClientStartsFetch, ServerReceivesEnd
  <2>2. QED
    BY <2>1 DEF nodeData, contains
<1>4. CASE UNCHANGED cacheVars
  BY <1>4 DEF cacheVars, nodeData, contains
<1>5. QED
  BY <1>1, <1>2, <1>3, <1>4, CacheUntouched

\* addData appends to the node, or makes it.
LEMMA NodeIsAddedTo ==
  ASSUME NEW url, NEW data, addData(url, data)
  PROVE  nodeData(url)' = nodeData(url) \o data
BY DEF addData, Assign, nodeData, contains

\* A flag changes when a fetch of its URL starts or ends.
LEMMA FlagStays ==
  ASSUME IInv, [Next]_vars, NEW url
  PROVE  /\ \/ Flagged(url)' = Flagged(url)
            \/ ServerReceivesEnd /\ server.URl = url
            \/ ClientStartsFetch /\ request[client.buffer] = url
         /\ ServerReceivesEnd /\ server.URl = url => Flagged(url)'
         /\ ClientStartsFetch /\ request[client.buffer] = url => ~Flagged(url)'
<1>1. CASE ClientStartsFetch
  <2>1. ClientTurn
    BY <1>1 DEF ClientStartsFetch, ReceivesRequest, Receives, ClientReadable
  <2>2. PICK v : v = request[client.buffer] /\ setNodeReady(v, FALSE)
    BY <1>1, <2>1, ClientAtTurn DEF ClientStartsFetch
  <2>3. url \in DOMAIN cacheReady' <=> url \in DOMAIN cacheReady \/ url = v
    BY <2>2 DEF setNodeReady, Assign
  <2>4. url # v => cacheReady'[url] = cacheReady[url] \/ url \notin DOMAIN cacheReady
    BY <2>2 DEF setNodeReady, Assign
  <2>5. url = v => ~cacheReady'[url]
    BY <2>2 DEF setNodeReady, Assign
  <2>6. ~ServerReceivesEnd
    BY <2>1, ServerGoing DEF ServerGoes, ClientTurn, ServerTurn
  <2>7. QED
    BY <1>1, <2>2, <2>3, <2>4, <2>5, <2>6 DEF Flagged
<1>2. CASE ServerReceivesEnd
  <2>1. setNodeReady(server.URl, TRUE) /\ ~ClientStartsFetch
    BY <1>2, OneTurn DEF ServerReceivesEnd, ServerGoes, Reads
  <2>2. url \in DOMAIN cacheReady' <=> url \in DOMAIN cacheReady \/ url = server.URl
    BY <2>1 DEF setNodeReady, Assign
  <2>3. url # server.URl => cacheReady'[url] = cacheReady[url] \/ url \notin DOMAIN cacheReady
    BY <2>1 DEF setNodeReady, Assign
  <2>4. url = server.URl => cacheReady'[url]
    BY <2>1 DEF setNodeReady, Assign
  <2>5. QED
    BY <1>2, <2>1, <2>2, <2>3, <2>4 DEF Flagged
<1>3. CASE ~ClientStartsFetch /\ ~ServerReceivesEnd
  <2>1. cacheReady' = cacheReady
    <3>1. ClientServed \/ ClientSendFails \/ ServerReceivesData => cacheReady' = cacheReady
      BY DEF ClientServed, ClientSendFails, ServerReceivesData
    <3>2. QED
      BY <1>3, <3>1, CacheUntouched DEF cacheVars
  <2>2. QED
    BY <1>3, <2>1 DEF Flagged
<1>4. QED
  BY <1>1, <1>2, <1>3

\* An honest origin closes at the end of its response.
Ends(s) == s.fin => s.rx + s.next = RespLen

\* Nothing outside the proxy makes an origin close too early.
LEMMA OriginsEndWhole ==
  ASSUME IInv, HonestOrigins, Outside, NEW fd \in DOMAIN sock, sock[fd].peer = Origin, Ends(sock[fd])
  PROVE  Ends(sock'[fd])
<1>1. sock[fd] \in Socket /\ sock[fd].peer \notin Clients
  BY NetworkAssumption DEF IInv, Types
<1>2. CASE sock'[fd] = sock[fd]
  BY <1>2
<1>3. ASSUME NEW g \in DOMAIN sock, ClientSend(g) \/ ClientLeaves(g)
      PROVE  sock'[fd] = sock[fd]
  <2>1. g # fd
    BY <1>1, <1>3 DEF ClientSend, ClientLeaves
  <2>2. QED
    BY <1>3, <2>1 DEF ClientSend, ClientLeaves
<1>4. ASSUME NEW g \in DOMAIN sock, ClientRead(g) \/ OriginAccept(g), g = fd
      PROVE  Ends(sock'[fd])
  <2>1. sock' = [sock EXCEPT ![fd].txq = 0] \/ sock' = [sock EXCEPT ![fd].up = TRUE]
    BY <1>4 DEF ClientRead, OriginAccept
  <2>2. /\ sock'[fd].rx = sock[fd].rx /\ sock'[fd].next = sock[fd].next
        /\ sock'[fd].fin = sock[fd].fin
    BY <1>1, <2>1 DEF Socket
  <2>3. QED
    BY <2>2 DEF Ends
<1>5. ASSUME NEW g \in DOMAIN sock, OriginSend(g), g = fd
      PROVE  Ends(sock'[fd])
  <2>1. sock' = [sock EXCEPT ![fd].rx = @ + 1] /\ ~sock[fd].fin
    BY <1>5 DEF OriginSend, Responding
  <2>2. sock'[fd].fin = sock[fd].fin
    BY <1>1, <2>1 DEF Socket
  <2>3. QED
    BY <2>1, <2>2 DEF Ends
<1>6. ASSUME NEW g \in DOMAIN sock, OriginClose(g), g = fd
      PROVE  Ends(sock'[fd])
  <2>1. sock' = [sock EXCEPT ![fd].fin = TRUE] /\ sock[fd].next + sock[fd].rx = RespLen
    BY <1>6 DEF OriginClose, Responded, HonestOrigins
  <2>2. sock'[fd].rx = sock[fd].rx /\ sock'[fd].next = sock[fd].next
    BY <1>1, <2>1 DEF Socket
  <2>3. sock[fd].rx \in Int /\ sock[fd].next \in Int
    BY <1>1 DEF Socket
  <2>4. sock[fd].rx + sock[fd].next = RespLen
    BY <2>1, <2>3
  <2>5. QED
    BY <2>2, <2>4 DEF Ends
<1>7. ASSUME NEW g \in DOMAIN sock, g # fd,
             ClientRead(g) \/ OriginAccept(g) \/ OriginSend(g) \/ OriginClose(g)
      PROVE  sock'[fd] = sock[fd]
  BY <1>7 DEF ClientRead, OriginAccept, OriginSend, OriginClose
<1>8. ASSUME NEW g \in DOMAIN sock, OriginReset(g) PROVE FALSE
  BY <1>8 DEF OriginReset, HonestOrigins
<1>9. ASSUME NEW c \in Clients, ClientConnect(c) PROVE sock'[fd] = sock[fd]
  BY <1>9 DEF ClientConnect
<1>10. QED
  BY <1>2, <1>3, <1>4, <1>5, <1>6, <1>7, <1>8, <1>9 DEF Outside, ClientStep, OriginStep

\* The client a fetch shares its buffer with is still there.
Asks(s) ==
    \E i \in 1..Len(clientConnections) :
        clientConnections[i].buffer = s.buffer /\ clientConnections[i].URl = s.URl

\* A fetch that is the only one of its URL has asked, or can still ask, for
\* that URL, and what it has read is all there is in the node.
FetchIsRight(s) ==
    /\ IF entryOf(s).events = "OUT" THEN Asks(s) ELSE sock[s.socketFd].req = s.URl
    /\ ~Flagged(s.URl)
    /\ nodeData(s.URl) = Prefix(numberOf(s), s.URl, sock[s.socketFd].next)
    /\ Ends(sock[s.socketFd])

SoleFetches ==
    Running => \A j \in 1..Len(serverConnections) :
        Sole(serverConnections[j].URl) => FetchIsRight(serverConnections[j])

\* A page that is not being fetched is whole, or not there at all.
SolePages ==
    Running => \A url \in Urls : Sole(url) /\ ~BeingFetched(url) =>
        IF Flagged(url)
        THEN \E f \in 1..Len(fetched) :
                fetched[f] = url /\ nodeData(url) = Prefix(f, url, RespLen)
        ELSE nodeData(url) = <<>>

\* Who is told of an error has nothing and will get nothing.
SoleErrors ==
    Running => \A i \in 1..Len(clientConnections) :
        LET c == clientConnections[i]
        IN  c.socketFd \in DOMAIN errors /\ Sole(c.URl) =>
                Fetched(c.URl) /\ ~BeingFetched(c.URl) /\ got[c.buffer] = <<>>

SoleEnds ==
    \A x \in Clients : Sole(request[x]) =>
        /\ outcome[x] = "error" => got[x] = <<>>
        /\ outcome[x] = "complete" =>
            \E f \in 1..Len(fetched) : fetched[f] = request[x] /\ got[x] = Prefix(f, request[x], RespLen)
        /\ \A n \in 1..Len(got[x]) : got[x][n].req = request[x]

Settled == SoleFetches /\ SolePages /\ SoleErrors /\ SoleEnds

\* Nobody is fetching NoUrl, and nobody has been.
LEMMA NoUrlIsNotFetched ==
  ASSUME IInv
  PROVE  ~Fetched(NoUrl) /\ Sole(NoUrl) /\ ~BeingFetched(NoUrl)
<1>1. NoUrl \notin Urls
  BY NetworkAssumption
<1>2. \A f \in 1..Len(fetched) : fetched[f] \in Urls
  BY ElementOfSeq DEF IInv, Types
<1>3. \A j \in 1..Len(serverConnections) : serverConnections[j].URl \in Urls
  BY TableFacts DEF ServerConns, Conns, ConnectionsOf
<1>4. DOMAIN serverConnections = 1..Len(serverConnections)
  BY TableFacts
<1>5. QED
  BY <1>1, <1>2, <1>3, <1>4 DEF Fetched, Sole, BeingFetched

\* A client that a fetch shares its buffer with stays until the fetch asks.
LEMMA AsksStays ==
  ASSUME Calm, Settled, [Next]_vars, Running, NEW k \in 1..Len(serverConnections),
         NEW s, s = serverConnections[k], Asks(s), ~Flagged(s.URl), Sole(s.URl),
         NEW d, SameConnection(d, s)
  PROVE  Asks(d)'
<1>1. PICK i \in 1..Len(clientConnections) :
        clientConnections[i].buffer = s.buffer /\ clientConnections[i].URl = s.URl
  BY DEF Asks
<1>2. PICK c : c = clientConnections[i]
  OBVIOUS
<1>3. s.URl \in Urls /\ s.URl # NoUrl /\ BeingFetched(s.URl) /\ ConnectionsOpen
  <2>1. Running /\ ConnectionsOpen
    BY WhenRunning DEF Calm
  <2>2. s.URl \in Urls
    BY <2>1 DEF ConnectionsOpen
  <2>3. k \in DOMAIN serverConnections
    BY TableFacts DEF Calm
  <2>4. QED
    BY <2>1, <2>2, <2>3, NetworkAssumption DEF BeingFetched
<1>4. ~(i = it /\ ClientGoes)
  <2> SUFFICES ASSUME i = it, ClientGoes PROVE FALSE
    OBVIOUS
  <2>1. c.socketFd \in DOMAIN errors
    BY <1>1, <1>2, <1>3, WhyClientsGo
  <2>2. ~BeingFetched(c.URl)
    BY <1>1, <1>2, <2>1 DEF Settled, SoleErrors
  <2>3. QED
    BY <1>1, <1>2, <1>3, <2>2
<1>5. ~(i = it /\ ClientServed /\ cacheNodeReady(c.URl))
  BY <1>1, <1>2 DEF cacheNodeReady, Flagged
<1>6. ~(Reads /\ i = it)
  <2> SUFFICES ASSUME Reads, i = it PROVE FALSE
    OBVIOUS
  <2>1. client = c /\ "IN" \in reventsOf(client)
    BY <1>2, Turns DEF Calm, Reads, ClientReceivesPart, ClientAsksForCached, ClientStartsFetch,
       ReceivesRequest, Receives, ClientReadable
  <2>2. Listens(c, sock[c.socketFd], entryOf(c))
    BY <1>2 DEF Calm, ClientsListen
  <2>3. QED
    BY <1>1, <1>2, <1>3, <2>1, <2>2 DEF Listens, reventsOf, entryOf
<1>7. PICK j \in 1..Len(clientConnections') :
        clientConnections'[j].buffer = c.buffer /\ clientConnections'[j].URl = c.URl
  BY <1>2, <1>4, <1>5, <1>6, ClientsLast DEF Calm
<1>8. clientConnections'[j].buffer = d.buffer /\ clientConnections'[j].URl = d.URl
  BY <1>1, <1>2, <1>7 DEF SameConnection
<1>9. QED
  BY <1>8 DEF Asks

\* What the turn of a fetch asks for.
LEMMA FetchAsksRight ==
  ASSUME Calm, Running, ServerSendsRequest, FetchIsRight(server)
  PROVE  sock'[server.socketFd].req = server.URl
<1>1. /\ it \in 1..Len(serverConnections) /\ server = serverConnections[it] /\ ConnectionsOpen
  BY Turns, WhenRunning DEF Calm
<1>2. "OUT" \in entryOf(server).revents
  BY DEF ServerSendsRequest, ServerWritable, reventsOf, entryOf
<1>3. GoodFetch(server)
  BY <1>1 DEF Calm, FetchesAreGood
<1>4. Asks(server)
  BY <1>2, <1>3 DEF FetchIsRight, GoodFetch, Fetches
<1>5. server.buffer \in DOMAIN heap
  BY <1>1, <1>4 DEF Asks, ConnectionsOpen
<1>6. sock' = [sock EXCEPT ![server.socketFd].req = server.URl]
  BY <1>5 DEF ServerSendsRequest, RequestsSent
<1>7. server.socketFd \in DOMAIN sock /\ sock[server.socketFd] \in Socket
  BY <1>1 DEF ConnectionsOpen
<1>8. QED
  BY <1>6, <1>7 DEF Socket

\* A fetch that reads has asked.
LEMMA ReadingFetchHasAsked ==
  ASSUME Calm, Running, ServerReceivesData, FetchIsRight(server)
  PROVE  sock[server.socketFd].req = server.URl
<1>1. /\ it \in 1..Len(serverConnections) /\ server = serverConnections[it] /\ ConnectionsOpen
  BY Turns, WhenRunning DEF Calm
<1>2. "IN" \in entryOf(server).revents
  BY DEF ServerReceivesData, ServerReadable, reventsOf, entryOf
<1>3. PICK s : s = sock[server.socketFd]
  OBVIOUS
<1>4. GoodFetch(server) /\ server.socketFd \in DOMAIN sock
  BY <1>1 DEF Calm, FetchesAreGood, ConnectionsOpen
<1>5. Honest(s) /\ (s.rx > 0 \/ s.fin)
  BY <1>2, <1>3, <1>4 DEF Calm, HonestOrigins, GoodFetch, Fetches
<1>6. s.req # NoUrl
  BY <1>5 DEF Honest
<1>7. entryOf(server).events # "OUT"
  BY <1>3, <1>4, <1>6 DEF GoodFetch, Fetches
<1>8. QED
  BY <1>7 DEF FetchIsRight

\* What makes a fetch right in the next state.
LEMMA RightNext ==
  ASSUME IInv, [Next]_vars, NEW d, NEW url, url = d.URl, NEW y, y = sock'[d.socketFd],
         NEW e, e = pollFds'[d.pollFdsIndex].events,
         e = "OUT" => Asks(d)', e # "OUT" => y.req = url,
         ~Flagged(url)', nodeData(url)' = Prefix(y.fetch, url, y.next), Ends(y)
  PROVE  FetchIsRight(d)'
<1>1. RespLen' = RespLen
  BY SurroundingsStay
<1>2. Ends(sock[d.socketFd])'
  BY <1>1 DEF Ends
<1>3. (nodeData(d.URl) = Prefix(numberOf(d), d.URl, sock[d.socketFd].next))'
  BY DEF numberOf
<1>4. (~Flagged(d.URl))'
  OBVIOUS
<1>5. (IF entryOf(d).events = "OUT" THEN Asks(d) ELSE sock[d.socketFd].req = d.URl)'
  BY DEF entryOf
<1>6. QED
  BY <1>2, <1>3, <1>4, <1>5 DEF FetchIsRight

\* A fetch that has just been started is right.
LEMMA StartedIsRight ==
  ASSUME Calm, IInv', [Next]_vars, Running', NEW j \in 1..Len(serverConnections'),
         NEW d, d = serverConnections'[j], Started(d, pollFds'[d.pollFdsIndex]),
         sock'[d.socketFd] = ServerSocket(Len(fetched) + 1)
  PROVE  FetchIsRight(d)'
<1>1. /\ ClientStartsFetch /\ pollFds'[d.pollFdsIndex].events = "OUT"
      /\ d.URl = request[client.buffer] /\ d.buffer = client.buffer
  BY DEF Started
<1>2. ClientTurn
  BY <1>1 DEF ClientStartsFetch, ReceivesRequest, Receives, ClientReadable
<1>3. PICK url : url = d.URl
  OBVIOUS
<1>4. /\ it \in 1..Len(clientConnections) /\ client = clientConnections[it]
      /\ sock[client.socketFd].peer = client.buffer
  BY <1>2, ClientAtTurn DEF Calm, client
<1>5. /\ clientConnections' = Asking(url) /\ cacheMap' = cacheMap /\ ~contains(url)
      /\ url \in Urls
  BY <1>1, <1>2, <1>3, <1>4, ClientAtTurn DEF ClientStartsFetch, Calm
<1>6. Asks(d)'
  <2>1. /\ SamePlaces(clientConnections', clientConnections)
        /\ clientConnections'[it].URl = url
    BY <1>4, <1>5, AskingIsTyped DEF Calm
  <2>2. it \in 1..Len(clientConnections')
    BY <1>4, <2>1 DEF SamePlaces
  <2>3. clientConnections'[it].buffer = d.buffer
    BY <1>1, <1>4, <2>1 DEF SamePlaces
  <2>4. QED
    BY <1>3, <2>1, <2>2, <2>3 DEF Asks
<1>7. ~Flagged(url)'
  BY <1>1, <1>3, FlagStays DEF Calm
<1>8. nodeData(url)' = <<>>
  BY <1>5 DEF nodeData, contains
<1>9. PICK s : s = sock'[d.socketFd]
  OBVIOUS
<1>10. s.next = 0 /\ s.fin = FALSE
  BY <1>9 DEF ServerSocket, ClientSocket
<1>11. Ends(s)
  BY <1>10 DEF Ends
<1>12. \A f : Prefix(f, url, 0) = <<>>
  BY PrefixIsSeq
<1>13. nodeData(url)' = Prefix(s.fetch, url, s.next)
  BY <1>8, <1>10, <1>12
<1>14. QED
  BY <1>1, <1>3, <1>6, <1>7, <1>9, <1>11, <1>13, RightNext DEF Calm

\* What the turn of the fetch of a page puts into its node.
LEMMA ReadsOn ==
  ASSUME Calm, Running, [Next]_vars, ServerReceivesData, FetchIsRight(server),
         NEW fd, fd = server.socketFd, NEW url, url = server.URl
  PROVE  /\ sock'[fd].req = url
         /\ nodeData(url)' = Prefix(sock[fd].fetch, url, sock'[fd].next)
         /\ Ends(sock'[fd])
<1>1. /\ it \in 1..Len(serverConnections) /\ server = serverConnections[it]
      /\ fd \in DOMAIN sock /\ sock[fd] \in Socket /\ url \in Urls
  BY Turns, WhenRunning DEF Calm, ConnectionsOpen
<1>2. PICK f, s : f = s.fetch /\ s = sock[fd]
  OBVIOUS
<1>3. s = sock[fd]
  BY <1>2
<1>4. s.req = url
  BY <1>3, ReadingFetchHasAsked
<1>5. PICK n \in 1..BUF_SIZE : addData(url, ReceivedUnits(fd, n)) /\ sock' = Received(fd, n)
  BY DEF ServerReceivesData
<1>6. n \in Nat /\ f \in Nat
  BY <1>1, <1>2, NetworkAssumption DEF Socket
<1>7. s.next \in Nat /\ s.rx \in Nat
  <2>1. GoodFetch(server)
    BY <1>1 DEF Calm, FetchesAreGood
  <2>2. Honest(s)
    BY <1>1, <1>3, <2>1 DEF Calm, HonestOrigins, GoodFetch
  <2>3. QED
    BY <2>2 DEF Honest
<1>8. /\ sock'[fd].rx = s.rx - n /\ sock'[fd].next = s.next + n
      /\ sock'[fd].fin = s.fin /\ sock'[fd].req = s.req
  BY <1>1, <1>3, <1>5 DEF Received, Socket
<1>9. nodeData(url) = Prefix(f, url, s.next) /\ Ends(s)
  BY <1>2 DEF FetchIsRight, numberOf
<1>10. nodeData(url)' = nodeData(url) \o ReceivedUnits(fd, n)
  BY <1>5, NodeIsAddedTo
<1>11. PICK more : more = [i \in 1..n |-> Unit(f, url, s.next + i)]
  OBVIOUS
<1>12. nodeData(url)' = Prefix(f, url, s.next + n)
  <2>1. Prefix(f, url, s.next) \o more = Prefix(f, url, s.next + n)
    <3>1. PICK k \in Nat : k = s.next
      BY <1>7
    <3>2. Prefix(f, url, k) \o [i \in 1..n |-> Unit(f, url, k + i)] = Prefix(f, url, k + n)
      BY <1>1, <1>6, PrefixGrows
    <3>3. QED
      BY <1>11, <3>1, <3>2
  <2>2. ReceivedUnits(fd, n) = more
    BY <1>2, <1>4, <1>11 DEF ReceivedUnits
  <2>3. QED
    BY <1>9, <1>10, <2>1, <2>2
<1>13. Ends(sock'[fd])
  <2>1. sock'[fd].rx + sock'[fd].next = s.rx + s.next
    BY <1>6, <1>7, <1>8
  <2>2. QED
    BY <1>8, <1>9, <2>1 DEF Ends
<1>14. QED
  BY <1>2, <1>4, <1>8, <1>12, <1>13

\* A fetch that goes on stays right.
LEMMA StoodIsRight ==
  ASSUME Calm, Settled, IInv', [Next]_vars, Running, Running',
         NEW j \in 1..Len(serverConnections'), NEW d, d = serverConnections'[j],
         NEW k \in 1..Len(serverConnections), Stood(d, pollFds'[d.pollFdsIndex], k),
         NEW s, s = serverConnections[k], Sole(s.URl), FetchIsRight(s)
  PROVE  FetchIsRight(d)'
<1>1. PICK url, fd, x, y, e, f :
        /\ url = s.URl /\ fd = s.socketFd /\ x = sock[fd] /\ y = sock'[fd]
        /\ e = entryOf(s) /\ f = pollFds'[d.pollFdsIndex]
  OBVIOUS
<1>2. /\ d.socketFd = fd /\ d.URl = url /\ d.buffer = s.buffer /\ SameConnection(d, s)
      /\ ~(ServerGoes /\ k = it)
      /\ IF ServerSendsRequest /\ k = it THEN f.events = "IN" ELSE f.events = e.events
  BY <1>1 DEF Stood, SameConnection
<1>3. /\ fd \in DOMAIN sock /\ fd \in DOMAIN sock' /\ x \in Socket
      /\ Reads \/ ClientServed => fd # client.socketFd
      /\ k # it /\ (ServerReceivesData \/ ServerSendsRequest) => fd # server.socketFd
      /\ ServerReceivesData \/ ServerSendsRequest \/ ServerGoes =>
            it \in 1..Len(serverConnections) /\ server = serverConnections[it]
  BY <1>1, <1>2, WhenRunning, NextWhenRunning, Turns DEF Calm, ConnectionsOpen
<1>4. y.fetch = x.fetch
  BY <1>1, <1>3, OwnersStay DEF Calm
<1>5. k # it /\ (ServerReceivesData \/ ServerSendsRequest \/ ServerGoes) => server.URl # url
  <2> SUFFICES ASSUME k # it, ServerReceivesData \/ ServerSendsRequest \/ ServerGoes, server.URl = url
               PROVE  FALSE
    OBVIOUS
  <2>1. k = it
    BY <1>1, <1>3, OneFetch DEF Calm
  <2>2. QED
    BY <2>1
<1>6. ~Flagged(url) /\ nodeData(url) = Prefix(x.fetch, url, x.next) /\ Ends(x)
  BY <1>1 DEF FetchIsRight, numberOf
<1>7. ~Flagged(url)'
  <2>1. ~(ServerReceivesEnd /\ server.URl = url)
    BY <1>2, <1>5 DEF ServerGoes
  <2>2. QED
    BY <1>6, <2>1, FlagStays DEF Calm
<1>8. f.events = "OUT" => Asks(d)'
  <2> SUFFICES ASSUME f.events = "OUT" PROVE Asks(d)'
    OBVIOUS
  <2>1. e.events = "OUT"
    BY <1>2
  <2>2. Asks(s)
    BY <1>1, <2>1 DEF FetchIsRight
  <2>3. QED
    BY <1>1, <1>2, <1>6, <2>2, AsksStays
<1>9. CASE k = it /\ ServerReceivesData
  <2>1. server = s /\ ~ServerSendsRequest
    BY <1>3, <1>9, OneTurn DEF Calm
  <2>2. y.req = url /\ nodeData(url)' = Prefix(x.fetch, url, y.next) /\ Ends(y)
    BY <1>1, <1>9, <2>1, ReadsOn
  <2>3. QED
    BY <1>1, <1>2, <1>4, <1>7, <1>8, <2>2, RightNext DEF Calm
<1>10. CASE k = it /\ ServerSendsRequest
  <2>1. server = s /\ ~ServerReceivesData
    BY <1>3, <1>10, OneTurn DEF Calm
  <2>2. y.req = url
    BY <1>1, <1>10, <2>1, FetchAsksRight
  <2>3. \E r : sock' = [sock EXCEPT ![fd].req = r]
    BY <1>1, <1>10, <2>1 DEF ServerSendsRequest
  <2>4. y.next = x.next /\ y.rx = x.rx /\ y.fin = x.fin
    BY <1>1, <1>3, <2>3 DEF Socket
  <2>5. nodeData(url)' = nodeData(url)
    BY <2>1, NodeStays DEF Calm
  <2>6. Ends(y) /\ nodeData(url)' = Prefix(y.fetch, url, y.next)
    BY <1>4, <1>6, <2>4, <2>5 DEF Ends
  <2>7. QED
    BY <1>1, <1>2, <1>7, <1>8, <2>2, <2>6, RightNext DEF Calm
<1>11. CASE ~(k = it /\ (ServerReceivesData \/ ServerSendsRequest))
  <2>1. y.req = x.req /\ y.next = x.next /\ Ends(y)
    <3>1. CASE Outside
      <4>1. sock[fd].peer = Origin
        BY <1>1 DEF Calm, FetchesAreGood, GoodFetch
      <4>2. Further(sock'[fd], sock[fd]) /\ Ends(sock'[fd])
        BY <1>1, <1>3, <1>6, <3>1, <4>1, OriginsGoOn, OriginsEndWhole DEF Calm
      <4>3. QED
        BY <1>1, <4>2 DEF Further
    <3>2. CASE ~Outside
      <4>1. sock'[fd] = sock[fd]
        BY <1>3, <1>11, <3>2, SocketsStay DEF Calm
      <4>2. QED
        BY <1>1, <1>6, <4>1
    <3>3. QED
      BY <3>1, <3>2
  <2>2. nodeData(url)' = nodeData(url)
    BY <1>5, <1>11, NodeStays DEF Calm
  <2>3. f.events # "OUT" => y.req = url
    <3>1. f.events = e.events
      BY <1>2, <1>11
    <3>2. QED
      BY <1>1, <2>1, <3>1 DEF FetchIsRight
  <2>4. nodeData(url)' = Prefix(y.fetch, url, y.next)
    BY <1>4, <1>6, <2>1, <2>2
  <2>5. QED
    BY <1>1, <1>2, <1>7, <1>8, <2>1, <2>3, <2>4, RightNext DEF Calm
<1>12. QED
  BY <1>9, <1>10, <1>11

\* Every fetch that is the only one of its URL stays right.
LEMMA SoleFetchesStay ==
  ASSUME Calm, Settled, IInv', [Next]_vars
  PROVE  SoleFetches'
<1> SUFFICES ASSUME Running', NEW j \in 1..Len(serverConnections'), NEW d, d = serverConnections'[j],
                    Sole(d.URl)'
             PROVE  FetchIsRight(d)'
  BY DEF SoleFetches
<1>1. Running
  BY RunningBefore DEF Calm
<1>2. ASSUME NEW k \in 1..Len(serverConnections), Stood(d, pollFds'[d.pollFdsIndex], k)
      PROVE  FetchIsRight(d)'
  <2>1. PICK s : s = serverConnections[k]
    OBVIOUS
  <2>2. d.URl = s.URl
    BY <1>2, <2>1 DEF Stood, SameConnection
  <2>3. Sole(s.URl)
    BY <2>2, SoleBefore DEF Calm
  <2>4. FetchIsRight(s)
    BY <1>1, <2>1, <2>3 DEF Settled, SoleFetches
  <2>5. QED
    BY <1>1, <1>2, <2>1, <2>3, <2>4, StoodIsRight
<1>3. QED
  BY <1>2, NumberNext, StartedIsRight DEF Calm

\* What a fetch that ends leaves of its page.
LEMMA EndedPage ==
  ASSUME Calm, [Next]_vars, Running, ServerGoes, FetchIsRight(server),
         NEW url, url = server.URl
  PROVE  \/ /\ Flagged(url)'
            /\ \E f \in 1..Len(fetched) : fetched[f] = url /\ nodeData(url)' = Prefix(f, url, RespLen)
         \/ ServerReceivesBadStatus /\ ~contains(url) /\ ~Flagged(url)' /\ nodeData(url)' = <<>>
<1>1. /\ it \in 1..Len(serverConnections) /\ server = serverConnections[it] /\ ConnectionsOpen
  BY WhyFetchesEnd, WhenRunning DEF Calm
<1>2. ~ServerReceivesData /\ ~ClientStartsFetch
  BY OneTurn DEF Calm, Reads
<1>3. PICK x : x = sock[server.socketFd]
  OBVIOUS
<1>4. nodeData(url) = Prefix(x.fetch, url, x.next) /\ Ends(x) /\ ~Flagged(url)
  BY <1>3 DEF FetchIsRight, numberOf
<1>5. nodeData(url)' = nodeData(url)
  BY <1>2, NodeStays DEF Calm
<1>6. CASE ServerReceivesBadStatus
  <2>1. ~contains(url)
    BY <1>6 DEF ServerReceivesBadStatus, Refused
  <2>2. nodeData(url) = <<>>
    BY <2>1 DEF nodeData
  <2>3. ~ServerReceivesEnd
    <3>1. PICK n \in 1..BUF_SIZE : n = recvCount(server.socketFd)
      BY <1>6 DEF ServerReceivesBadStatus
    <3>2. n # 0
      BY NetworkAssumption
    <3>3. QED
      BY <3>1, <3>2 DEF ServerReceivesEnd
  <2>4. ~Flagged(url)'
    BY <1>2, <1>4, <2>3, FlagStays DEF Calm
  <2>5. QED
    BY <1>5, <1>6, <2>1, <2>2, <2>4
<1>7. CASE ServerReceivesEnd /\ x.rx = 0 /\ x.fin
  <2>1. Flagged(url)'
    BY <1>7, FlagStays DEF Calm
  <2>2. x \in Socket
    BY <1>1, <1>3 DEF ConnectionsOpen
  <2>3. x.next = RespLen
    <3>1. GoodFetch(server)
      BY <1>1 DEF Calm, FetchesAreGood
    <3>2. Honest(x)
      BY <1>1, <1>3, <3>1 DEF Calm, HonestOrigins, GoodFetch, ConnectionsOpen
    <3>3. x.next \in Nat
      BY <3>2 DEF Honest
    <3>4. 0 + x.next = RespLen
      BY <1>4, <1>7 DEF Ends
    <3>5. QED
      BY <3>3, <3>4
  <2>4. x.fetch \in 1..Len(fetched) /\ fetched[x.fetch] = url
    BY <1>1, <1>3 DEF Calm, FetchNumbers, numberOf
  <2>5. nodeData(url)' = Prefix(x.fetch, url, RespLen)
    BY <1>4, <1>5, <2>3
  <2>6. QED
    BY <2>1, <2>4, <2>5
<1>8. ~(ServerSendFails /\ entryOf(server).events = "OUT" /\ server.buffer \notin DOMAIN heap)
  BY <1>1 DEF FetchIsRight, Asks, ConnectionsOpen
<1>9. QED
  BY <1>3, <1>6, <1>7, <1>8, WhyFetchesEnd

\* A page is left whole by its only fetch, or not there at all.
LEMMA SolePagesStay ==
  ASSUME Calm, Settled, IInv', [Next]_vars
  PROVE  SolePages'
<1> SUFFICES ASSUME Running', NEW url \in Urls, Sole(url)', ~BeingFetched(url)'
             PROVE  \/ /\ Flagged(url)'
                       /\ \E f \in 1..Len(fetched') :
                            fetched'[f] = url /\ nodeData(url)' = Prefix(f, url, RespLen)
                    \/ ~Flagged(url)' /\ nodeData(url)' = <<>>
  <2>1. RespLen' = RespLen
    BY SurroundingsStay
  <2>2. QED
    BY <2>1 DEF SolePages
<1>1. Running
  BY RunningBefore DEF Calm
<1>2. Sole(url)
  BY SoleBefore DEF Calm
<1>3. \A f \in 1..Len(fetched) : fetched'[f] = fetched[f] /\ f \in 1..Len(fetched')
  BY FetchesGrow DEF Calm
<1>4. /\ DOMAIN serverConnections = 1..Len(serverConnections)
      /\ DOMAIN serverConnections' = 1..Len(serverConnections')
  BY TableFacts DEF Calm
<1>5. CASE BeingFetched(url)
  <2>1. PICK k \in 1..Len(serverConnections) : serverConnections[k].URl = url
    BY <1>4, <1>5 DEF BeingFetched
  <2>2. ~Lasts(k)
    BY <1>4, <2>1 DEF Lasts, SameConnection, BeingFetched
  <2>3. ServerGoes /\ k = it
    BY <2>2, FetchesDescend DEF Calm
  <2>4. server = serverConnections[k]
    BY <2>3, WhyFetchesEnd
  <2>5. FetchIsRight(server) /\ url = server.URl
    BY <1>1, <1>2, <2>1, <2>4 DEF Settled, SoleFetches
  <2>6. QED
    BY <1>1, <1>3, <2>3, <2>5, EndedPage
<1>6. CASE ~BeingFetched(url)
  <2>1. ~(ServerReceivesData /\ server.URl = url) /\ ~(ServerReceivesEnd /\ server.URl = url)
    <3> SUFFICES ASSUME ServerReceivesData \/ ServerReceivesEnd, server.URl = url PROVE FALSE
      OBVIOUS
    <3>1. ServerReceivesData \/ ServerGoes
      BY DEF ServerGoes
    <3>2. it \in 1..Len(serverConnections) /\ server = serverConnections[it]
      BY <3>1, Turns DEF Calm
    <3>3. QED
      BY <1>4, <1>6, <3>2 DEF BeingFetched
  <2>2. ~(ClientStartsFetch /\ request[client.buffer] = url)
    <3> SUFFICES ASSUME ClientStartsFetch, request[client.buffer] = url PROVE FALSE
      OBVIOUS
    <3>1. PICK j \in 1..Len(serverConnections') : serverConnections'[j].URl = url
      BY FetchesAfterStart DEF Calm
    <3>2. QED
      BY <1>4, <3>1 DEF BeingFetched
  <2>3. Flagged(url)' = Flagged(url)
    BY <2>1, <2>2, FlagStays DEF Calm
  <2>4. nodeData(url)' = nodeData(url)
    BY <2>1, NodeStays DEF Calm
  <2>5. IF Flagged(url)
        THEN \E f \in 1..Len(fetched) : fetched[f] = url /\ nodeData(url) = Prefix(f, url, RespLen)
        ELSE nodeData(url) = <<>>
    BY <1>1, <1>2, <1>6 DEF Settled, SolePages
  <2>6. QED
    BY <1>3, <2>3, <2>4, <2>5
<1>7. QED
  BY <1>5, <1>6

\* Errors are recorded by fetches that fail, for the clients of their URL.
LEMMA NewErrors ==
  ASSUME IInv, [Next]_vars, NEW fd \in DOMAIN errors', fd \notin DOMAIN errors
  PROVE  /\ ServerGoes /\ errors' # errors
         /\ \E i \in 1..Len(clientConnections) :
                clientConnections[i].socketFd = fd /\ clientConnections[i].URl = server.URl
<1>1. ~(Outside \/ Moves \/ addNewConnection \/ Reads \/ ServerReceivesData \/ ServerSendsRequest
           \/ (Running /\ stop))
  <2>1. CASE Moves
    BY <2>1, MovingOn DEF fdVars
  <2>2. CASE ~Moves
    BY <2>2 DEF Outside, ProgramVars, addNewConnection, Reads, ClientReceivesPart,
       ClientAsksForCached, ClientStartsFetch, ServerReceivesData, ServerSendsRequest, stop, fdVars
  <2>3. QED
    BY <2>1, <2>2
<1>2. ASSUME NEW sockets, NEW how, removeClientConnection(it, sockets, how)
      PROVE  FALSE
  BY <1>2 DEF removeClientConnection, Erase
<1>3. ~ClientGoes
  BY <1>2, ClientGoing
<1>4. ~ClientServed
  BY <1>2 DEF ClientServed
<1>5. ServerGoes
  BY <1>1, <1>3, <1>4, Steps
<1>6. errors' = errors \/ \E message : notifyClientsAboutError(server.URl, message)
  BY <1>5 DEF ServerGoes, ServerHungUp, ServerReceivesBadStatus, ServerReceivesEnd, ServerReceiveFails,
     ServerSendFails, ServerFails, fdVars
<1>7. fd \in {clientConnections[i].socketFd : i \in ClientsOf(server.URl)}
  BY <1>6 DEF notifyClientsAboutError
<1>8. QED
  BY <1>5, <1>7, TableFacts DEF ClientsOf

\* Who is told has asked for the page, and is told for good.
LEMMA StillTold ==
  ASSUME Calm, Settled, IInv', [Next]_vars, Running, NEW k \in 1..Len(clientConnections),
         NEW c, c = clientConnections[k], c.socketFd \in DOMAIN errors,
         NEW url, url = c.URl, Sole(url)'
  PROVE  Fetched(url)' /\ ~BeingFetched(url)' /\ got'[c.buffer] = <<>>
<1>1. Sole(url) /\ ConnectionsOpen
  BY SoleBefore, WhenRunning DEF Calm
<1>2. Fetched(url) /\ ~BeingFetched(url) /\ got[c.buffer] = <<>>
  BY <1>1 DEF Settled, SoleErrors
<1>3. Fetched(url)' /\ ~(ClientStartsFetch /\ url = request[client.buffer])
  BY <1>2, SoleBefore DEF Calm
<1>4. ~BeingFetched(url)'
  <2> SUFFICES ASSUME NEW m \in 1..Len(serverConnections'), serverConnections'[m].URl = url
               PROVE  FALSE
    BY TableFacts DEF BeingFetched
  <2>1. PICK d : d = serverConnections'[m]
    OBVIOUS
  <2>2. Stands(d, pollFds'[d.pollFdsIndex])
    BY <2>1, FetchesDescend DEF Calm
  <2>3. ~Started(d, pollFds'[d.pollFdsIndex])
    BY <1>3, <2>1 DEF Started
  <2>4. PICK l \in 1..Len(serverConnections) : Stood(d, pollFds'[d.pollFdsIndex], l)
    BY <2>2, <2>3 DEF Stands
  <2>5. serverConnections[l].URl = url
    BY <2>1, <2>4 DEF Stood, SameConnection
  <2>6. QED
    BY <1>2, <2>5, TableFacts DEF BeingFetched, Calm
<1>5. got'[c.buffer] = got[c.buffer]
  <2>1. ~(ClientServed /\ c.buffer = client.buffer)
    <3> SUFFICES ASSUME ClientServed, c.buffer = client.buffer PROVE FALSE
      OBVIOUS
    <3>1. it \in 1..Len(clientConnections) /\ client = clientConnections[it]
      BY Turns DEF Calm
    <3>2. k = it
      BY <1>1, <3>1 DEF ConnectionsOpen
    <3>3. client.socketFd \notin DOMAIN errors
      BY DEF ClientServed
    <3>4. QED
      BY <3>1, <3>2, <3>3
  <2>2. QED
    BY <2>1, OthersGetNothing DEF Calm
<1>6. QED
  BY <1>2, <1>3, <1>4, <1>5

\* A fetch that fails before it has a page leaves its clients with nothing.
LEMMA ToldNow ==
  ASSUME Calm, Settled, IInv', [Next]_vars, Running, MaxBlocks = 0, NEW k \in 1..Len(clientConnections),
         NEW c, c = clientConnections[k], c.socketFd \in DOMAIN errors', c.socketFd \notin DOMAIN errors,
         NEW url, url = c.URl, Sole(url)'
  PROVE  Fetched(url)' /\ ~BeingFetched(url)' /\ got'[c.buffer] = <<>>
<1>1. Sole(url) /\ ConnectionsOpen
  BY SoleBefore, WhenRunning DEF Calm
<1>2. ServerGoes /\ url = server.URl /\ errors' # errors
  <2>1. PICK i \in 1..Len(clientConnections) :
            clientConnections[i].socketFd = c.socketFd /\ clientConnections[i].URl = server.URl
    BY NewErrors DEF Calm
  <2>2. i = k
    BY <1>1, <2>1 DEF ConnectionsOpen
  <2>3. QED
    BY <2>1, <2>2, NewErrors DEF Calm
<1>3. it \in 1..Len(serverConnections) /\ server = serverConnections[it]
  BY <1>2, WhyFetchesEnd
<1>4. FetchIsRight(server)
  BY <1>1, <1>2, <1>3 DEF Settled, SoleFetches
<1>5. nodeData(url) = <<>>
  <2>1. ~ServerReceivesEnd
    BY <1>2 DEF ServerReceivesEnd, fdVars
  <2>2. server.buffer \notin DOMAIN heap => entryOf(server).events # "OUT"
    BY <1>1, <1>4 DEF FetchIsRight, Asks, ConnectionsOpen
  <2>3. ServerReceivesBadStatus
    BY <1>2, <2>1, <2>2, WhyFetchesEnd
  <2>4. ~contains(url)
    BY <1>2, <2>3 DEF ServerReceivesBadStatus, Refused
  <2>5. QED
    BY <2>4 DEF nodeData
<1>6. Fetched(url)'
  <2>1. numberOf(server) \in 1..Len(fetched) /\ fetched[numberOf(server)] = url
    BY <1>2, <1>3 DEF Calm, FetchNumbers
  <2>2. Fetched(url)
    BY <2>1 DEF Fetched
  <2>3. QED
    BY <2>2, SoleBefore DEF Calm
<1>7. ~Reads /\ ~ClientServed
  BY <1>2, OneTurn DEF Calm
<1>8. ~BeingFetched(url)'
  <2> SUFFICES ASSUME NEW m \in 1..Len(serverConnections'), serverConnections'[m].URl = url
               PROVE  FALSE
    BY TableFacts DEF BeingFetched
  <2>1. PICK d : d = serverConnections'[m]
    OBVIOUS
  <2>2. Stands(d, pollFds'[d.pollFdsIndex])
    BY <2>1, FetchesDescend DEF Calm
  <2>3. ~Started(d, pollFds'[d.pollFdsIndex])
    BY <1>7 DEF Started, Reads
  <2>4. PICK l \in 1..Len(serverConnections) : Stood(d, pollFds'[d.pollFdsIndex], l)
    BY <2>2, <2>3 DEF Stands
  <2>5. serverConnections[l].URl = url /\ l # it
    BY <1>2, <2>1, <2>4 DEF Stood, SameConnection
  <2>6. QED
    BY <1>1, <1>2, <1>3, <2>5, OneFetch DEF Calm
<1>9. got'[c.buffer] = <<>>
  <2>1. got' = got
    BY <1>7, NothingSent DEF Calm
  <2>2. wouldBlocks[c.buffer] = 0
    <3>1. c.buffer \in Clients
      BY <1>1 DEF ConnectionsOpen
    <3>2. wouldBlocks[c.buffer] \in 0..MaxBlocks
      BY <3>1 DEF Calm, SentInv
    <3>3. QED
      BY <3>2
  <2>3. SentOf(c)
    BY DEF Calm, SentInv
  <2>4. Served(cacheOffsets[c.socketFd], <<>>, got[c.buffer])
    BY <1>5, <2>2, <2>3 DEF SentOf
  <2>5. QED
    BY <2>1, <2>4 DEF Served
<1>10. QED
  BY <1>6, <1>8, <1>9

\* Whoever is told of an error has nothing, before and after every step.
LEMMA SoleErrorsStay ==
  ASSUME Calm, Settled, IInv', [Next]_vars, MaxBlocks = 0
  PROVE  SoleErrors'
<1> SUFFICES ASSUME Running', NEW j \in 1..Len(clientConnections'), NEW d, d = clientConnections'[j],
                    d.socketFd \in DOMAIN errors', NEW url, url = d.URl, Sole(url)'
             PROVE  Fetched(url)' /\ ~BeingFetched(url)' /\ got'[d.buffer] = <<>>
  BY DEF SoleErrors
<1>1. Running /\ ConnectionsOpen
  BY RunningBefore, WhenRunning DEF Calm
<1>2. PICK f : f = pollFds'[d.pollFdsIndex]
  OBVIOUS
<1>3. Descends(d, f)
  BY <1>2, ClientsDescend DEF Calm
<1>4. CASE IsNew(d, f)
  <2>1. addNewConnection /\ FreeDescriptors # {} /\ d.socketFd = NewDescriptor
    BY <1>4 DEF IsNew
  <2>2. errors' = errors
    BY <2>1 DEF addNewConnection, fdVars
  <2>3. \E i \in 1..Len(clientConnections) : clientConnections[i].socketFd = d.socketFd
    BY <1>1, <2>2, TableFacts DEF Calm, IInv, Heard
  <2>4. d.socketFd \in DOMAIN sock
    BY <1>1, <2>3 DEF ConnectionsOpen
  <2>5. QED
    BY <1>1, <2>1, <2>4, NewDescriptorIsNew DEF Calm
<1>5. ASSUME NEW k \in 1..Len(clientConnections), Was(d, f, k)
      PROVE  Fetched(url)' /\ ~BeingFetched(url)' /\ got'[d.buffer] = <<>>
  <2>1. PICK c : c = clientConnections[k]
    OBVIOUS
  <2>2. d.socketFd = c.socketFd /\ d.buffer = c.buffer
    BY <1>5, <2>1 DEF Was
  <2>3. CASE d.URl = c.URl
    <3>1. CASE c.socketFd \in DOMAIN errors
      BY <1>1, <2>1, <2>2, <2>3, <3>1, StillTold
    <3>2. CASE c.socketFd \notin DOMAIN errors
      BY <1>1, <2>1, <2>2, <2>3, <3>2, ToldNow
    <3>3. QED
      BY <3>1, <3>2
  <2>4. CASE d.URl # c.URl
    <3>1. k = it /\ Reads
      BY <1>5, <2>1, <2>4 DEF Was, Reads
    <3>2. client = c
      BY <2>1, <3>1, Turns DEF Calm
    <3>3. c.URl = NoUrl
      BY <2>2, <2>4, <3>1, <3>2, ReadingAsks DEF Calm
    <3>4. c.socketFd \notin DOMAIN errors
      <4>1. ~Fetched(c.URl) /\ Sole(c.URl)
        BY <3>3, NoUrlIsNotFetched DEF Calm
      <4>2. QED
        BY <1>1, <2>1, <4>1 DEF Settled, SoleErrors
    <3>5. ServerGoes
      BY <2>2, <3>4, NewErrors DEF Calm
    <3>6. QED
      BY <3>1, <3>5, OneTurn DEF Calm
  <2>5. QED
    BY <2>3, <2>4
<1>6. QED
  BY <1>3, <1>4, <1>5 DEF Descends

\* What there is of a page fetched once is the beginning of one response.
LEMMA PageIsOneFetch ==
  ASSUME Calm, Settled, Running, NEW url \in Urls, Sole(url)
  PROVE  \E f, n :
            /\ n \in Nat /\ nodeData(url) = Prefix(f, url, n)
            /\ Flagged(url) => n = RespLen /\ f \in 1..Len(fetched) /\ fetched[f] = url
<1>1. CASE BeingFetched(url)
  <2>1. PICK k \in 1..Len(serverConnections) : serverConnections[k].URl = url
    BY <1>1, TableFacts DEF BeingFetched, Calm
  <2>2. PICK s, x : s = serverConnections[k] /\ x = sock[s.socketFd]
    OBVIOUS
  <2>3. nodeData(url) = Prefix(x.fetch, url, x.next) /\ ~Flagged(url)
    BY <2>1, <2>2 DEF Settled, SoleFetches, FetchIsRight, numberOf
  <2>4. s.socketFd \in DOMAIN sock /\ GoodFetch(s)
    BY <2>2, WhenRunning DEF Calm, FetchesAreGood, ConnectionsOpen
  <2>5. Honest(x)
    BY <2>2, <2>4 DEF Calm, HonestOrigins, GoodFetch
  <2>6. x.next \in Nat
    BY <2>5 DEF Honest
  <2>7. QED
    BY <2>3, <2>6
<1>2. CASE ~BeingFetched(url)
  <2>1. CASE Flagged(url)
    <3>1. PICK f \in 1..Len(fetched) : fetched[f] = url /\ nodeData(url) = Prefix(f, url, RespLen)
      BY <1>2, <2>1 DEF Settled, SolePages
    <3>2. RespLen \in Nat
      BY DEF Calm, HonestOrigins
    <3>3. QED
      BY <3>1, <3>2
  <2>2. CASE ~Flagged(url)
    <3>1. nodeData(url) = <<>>
      BY <1>2, <2>2 DEF Settled, SolePages
    <3>2. Prefix(0, url, 0) = <<>> /\ 0 \in Nat
      BY PrefixIsSeq
    <3>3. QED
      BY <2>2, <3>1, <3>2
  <2>3. QED
    BY <2>1, <2>2
<1>3. QED
  BY <1>1, <1>2

\* What a served client has of its page.
LEMMA ServedGets ==
  ASSUME IInv, IInv', SentInv, ClientServed, MaxBlocks = 0,
         NEW x, x = client.buffer, NEW url, url = client.URl, NEW node, node = nodeData(url)
  PROVE  /\ url \in Urls /\ x \in Clients /\ node \in Seq(Units)
         /\ \E m \in 0..Len(node) :
                /\ got'[x] = SubSeq(node, 1, m)
                /\ \/ outcome' = outcome
                   \/ /\ outcome' = [outcome EXCEPT ![x] = "complete"]
                      /\ m = Len(node) /\ Flagged(url)
<1>1. /\ Running /\ it \in 1..Len(clientConnections) /\ client = clientConnections[it]
      /\ sock[client.socketFd].peer = x
  <2>1. ClientTurn
    BY DEF ClientServed, ClientWritable
  <2>2. QED
    BY <2>1, ClientAtTurn DEF client
<1>2. x \in Clients /\ ConnectionsOpen
  BY <1>1, WhenRunning DEF ConnectionsOpen
<1>3. url \in Urls
  <2>1. url \in DOMAIN cacheMap'
    BY DEF ClientServed, getCurrentData, Assign
  <2>2. DOMAIN cacheMap' \subseteq Urls
    BY DEF IInv, Types, CacheTyped
  <2>3. QED
    BY <2>1, <2>2
<1>4. PICK offset : offset = cacheOffsets[client.socketFd]
  OBVIOUS
<1>5. PICK n \in SendResults(client.socketFd, Len(node) - offset) :
        /\ got' = [got EXCEPT ![x] = @ \o SentUnits(node, offset, n)]
        /\ \/ /\ allDataHasBeenSent(cacheNodeReady(url), offset + n, node)
              /\ \E sockets : removeClientConnection(it, sockets, "complete")
           \/ outcome' = outcome
  <2> DEFINE fd == client.socketFd
             page == nodeData(client.URl)
  <2>1. PICK n \in SendResults(fd, Len(page) - cacheOffsets[fd]) :
            /\ got' = [got EXCEPT ![sock[fd].peer] = @ \o SentUnits(page, cacheOffsets[fd], n)]
            /\ \/ /\ allDataHasBeenSent(cacheNodeReady(client.URl), cacheOffsets[fd] + n, page)
                  /\ \E sockets : removeClientConnection(it, sockets, "complete")
               \/ outcome' = outcome
    BY DEF ClientServed
  <2>2. page = node /\ cacheOffsets[fd] = offset /\ sock[fd].peer = x
    BY <1>1, <1>4
  <2> HIDE DEF page
  <2>3. QED
    BY <2>1, <2>2
<1>6. PICK units : units = SentUnits(node, offset, n)
  OBVIOUS
<1>7. /\ n \in Int /\ offset \in Int /\ node \in Seq(Units) /\ offset + n <= Len(node)
      /\ n < 0 => wouldBlocks[x] < MaxBlocks
  BY <1>1, <1>4, <1>5, SendFits
<1>8. wouldBlocks[x] = 0 /\ n \in Nat
  <2>1. wouldBlocks[x] \in 0..MaxBlocks
    BY <1>2 DEF SentInv
  <2>2. QED
    BY <1>7, <2>1
<1>9. Served(offset, node, got[x])
  <2>1. SentOf(client)
    BY <1>1 DEF SentInv
  <2>2. QED
    BY <1>4, <1>8, <2>1 DEF SentOf
<1>10. Served(offset + n, node, got[x] \o units)
  BY <1>6, <1>7, <1>8, <1>9, ServedFurther
<1>11. got'[x] = got[x] \o units
  BY <1>2, <1>5, <1>6 DEF SentInv
<1>12. offset + n \in 0..Len(node) /\ got'[x] = SubSeq(node, 1, offset + n)
  BY <1>10, <1>11 DEF Served
<1>13. \/ outcome' = outcome
       \/ /\ outcome' = [outcome EXCEPT ![x] = "complete"]
          /\ offset + n = Len(node) /\ Flagged(url)
  <2>1. ASSUME NEW sockets, removeClientConnection(it, sockets, "complete")
        PROVE  outcome' = [outcome EXCEPT ![x] = "complete"]
    BY <1>1, <2>1 DEF removeClientConnection
  <2>2. allDataHasBeenSent(cacheNodeReady(url), offset + n, node) =>
            offset + n = Len(node) /\ Flagged(url)
    BY DEF allDataHasBeenSent, cacheNodeReady, Flagged
  <2>3. QED
    BY <1>5, <2>1, <2>2
<1>14. QED
  BY <1>2, <1>3, <1>7, <1>12, <1>13

\* How it ends for a client whose page is fetched once.
EndOf(asked, how, units) ==
    /\ how = "error" => units = <<>>
    /\ how = "complete" =>
            \E f \in 1..Len(fetched) : fetched[f] = asked /\ units = Prefix(f, asked, RespLen)
    /\ \A n \in 1..Len(units) : units[n].req = asked

\* A served client has a part of its page, all of it if that is the end.
LEMMA ServedEnds ==
  ASSUME Calm, Settled, IInv', [Next]_vars, ClientServed, MaxBlocks = 0,
         NEW x, x = client.buffer, NEW url, url = client.URl, Sole(request[x])
  PROVE  request[x] = url /\ EndOf(url, outcome'[x], got'[x])
<1>1. Running /\ it \in 1..Len(clientConnections) /\ client = clientConnections[it]
  <2>1. ClientTurn
    BY DEF ClientServed, ClientWritable
  <2>2. QED
    BY <2>1, ClientAtTurn DEF client, Calm
<1>2. PICK node : node = nodeData(url)
  OBVIOUS
<1>3. /\ url \in Urls /\ x \in Clients /\ node \in Seq(Units)
      /\ \E m \in 0..Len(node) :
            /\ got'[x] = SubSeq(node, 1, m)
            /\ \/ outcome' = outcome
               \/ /\ outcome' = [outcome EXCEPT ![x] = "complete"]
                  /\ m = Len(node) /\ Flagged(url)
  BY <1>2, ServedGets DEF Calm
<1>4. PICK m \in 0..Len(node) :
        /\ got'[x] = SubSeq(node, 1, m)
        /\ \/ outcome' = outcome
           \/ /\ outcome' = [outcome EXCEPT ![x] = "complete"]
              /\ m = Len(node) /\ Flagged(url)
  BY <1>3
<1>5. request[x] = url
  <2>1. AskedOf(client)
    BY <1>1 DEF Calm, AsksForItsPage
  <2>2. url # NoUrl
    BY <1>3, NetworkAssumption
  <2>3. QED
    BY <2>1, <2>2 DEF AskedOf, Asked
<1>6. PICK f, n :
        /\ n \in Nat /\ node = Prefix(f, url, n)
        /\ Flagged(url) => n = RespLen /\ f \in 1..Len(fetched) /\ fetched[f] = url
  BY <1>1, <1>2, <1>3, <1>5, PageIsOneFetch
<1>7. Len(node) = n /\ \A i \in 1..n : node[i] = Unit(f, url, i)
  BY <1>6, PrefixIsSeq
<1>8. Len(SubSeq(node, 1, m)) = m /\ \A i \in 1..m : SubSeq(node, 1, m)[i] = node[i]
  BY <1>3, <1>4, SubSeqProperties
<1>9. \A i \in 1..Len(got'[x]) : got'[x][i].req = url
  <2> SUFFICES ASSUME NEW i \in 1..m PROVE SubSeq(node, 1, m)[i].req = url
    BY <1>4, <1>8
  <2>1. i \in 1..n
    BY <1>4, <1>6, <1>7
  <2>2. SubSeq(node, 1, m)[i] = Unit(f, url, i)
    BY <1>7, <1>8, <2>1
  <2>3. QED
    BY <2>2 DEF Unit
<1>10. outcome[x] = "none"
  BY <1>1 DEF Calm, NoneYet
<1>11. outcome'[x] = "none" \/ (outcome'[x] = "complete" /\ m = Len(node) /\ Flagged(url))
  <2>1. outcome \in [Clients -> Outcomes]
    BY DEF Calm, IInv, Types
  <2>2. QED
    BY <1>3, <1>4, <1>10, <2>1
<1>12. ASSUME m = Len(node) PROVE got'[x] = node
  <2>1. SubSeq(node, 1, Len(node)) = node
    BY <1>3, SubSeqFull
  <2>2. QED
    BY <1>4, <1>12, <2>1
<1>13. outcome'[x] = "complete" =>
            \E g \in 1..Len(fetched) : fetched[g] = url /\ got'[x] = Prefix(g, url, RespLen)
  BY <1>6, <1>11, <1>12
<1>14. QED
  BY <1>5, <1>9, <1>11, <1>13 DEF EndOf

\* A client that goes before its page is whole has nothing.
LEMMA GoneEnds ==
  ASSUME Calm, Settled, [Next]_vars, ClientGoes, MaxBlocks = 0,
         NEW x, x = client.buffer, Sole(request[x])
  PROVE  got[x] = <<>> /\ outcome'[x] # "complete"
<1>1. /\ Running /\ it \in 1..Len(clientConnections) /\ client = clientConnections[it]
      /\ client.URl # NoUrl => ClientToldError /\ client.socketFd \in DOMAIN errors
  BY WhyClientsGo
<1>2. x \in Clients /\ sock[client.socketFd].peer = x
  BY <1>1, WhenRunning DEF Calm, ConnectionsOpen
<1>3. ASSUME client.URl = NoUrl PROVE got[x] = <<>>
  <2>1. wouldBlocks[x] \in 0..MaxBlocks
    BY <1>2 DEF Calm, SentInv
  <2>2. wouldBlocks[x] = 0
    BY <2>1
  <2>3. SentOf(client)
    BY <1>1 DEF Calm, SentInv
  <2>4. nodeData(client.URl) = <<>>
    BY <1>3, NoPageWithoutUrl DEF Calm, NoPage
  <2>5. Served(cacheOffsets[client.socketFd], <<>>, got[x])
    BY <2>2, <2>3, <2>4 DEF SentOf
  <2>6. QED
    BY <2>5 DEF Served
<1>4. ASSUME client.URl # NoUrl PROVE got[x] = <<>>
  <2>1. client.socketFd \in DOMAIN errors
    BY <1>1, <1>4
  <2>2. AskedOf(client)
    BY <1>1 DEF Calm, AsksForItsPage
  <2>3. client.URl = request[x]
    BY <1>4, <2>2 DEF AskedOf, Asked
  <2>4. Sole(client.URl) /\ client.buffer = x
    BY <2>3
  <2>5. QED
    BY <1>1, <2>1, <2>4 DEF Settled, SoleErrors
<1>5. outcome'[x] # "complete"
  <2>1. \E sockets, how : how # "complete" /\ removeClientConnection(it, sockets, how)
    <3>1. CASE ClientFetchFails
      BY <3>1 DEF ClientFetchFails
    <3>2. CASE ~ClientFetchFails
      <4>1. \/ removeClientConnection(it, sock, "dropped")
            \/ removeClientConnection(it, sock, "error")
        BY <3>2 DEF ClientGoes, ClientHungUp, ClientToldError, ClientSendFails, ClientReceivesEnd
      <4>2. QED
        BY <4>1
    <3>3. QED
      BY <3>1, <3>2
  <2>2. \E how : how # "complete" /\ outcome' = [outcome EXCEPT ![x] = how]
    BY <1>1, <1>2, <2>1 DEF removeClientConnection
  <2>3. outcome \in [Clients -> Outcomes]
    BY DEF Calm, IInv, Types
  <2>4. QED
    BY <1>2, <2>2, <2>3
<1>6. QED
  BY <1>3, <1>4, <1>5

\* The request of a client does not change once it has one.
LEMMA RequestsStay ==
  ASSUME IInv, [Next]_vars, NEW x \in Clients, request'[x] # request[x]
  PROVE  request[x] = NoUrl
<1>1. Outside
  BY LoopAsksNothing
<1>2. PICK c \in Clients : ClientConnect(c)
  BY <1>1 DEF Outside, ClientStep, OriginStep, ClientSend, ClientRead, ClientLeaves,
     OriginAccept, OriginSend, OriginClose, OriginReset
<1>3. request \in [Clients -> Urls \cup {Malformed, NoUrl}]
  BY DEF IInv, Types
<1>4. x = c
  BY <1>2, <1>3 DEF ClientConnect
<1>5. QED
  BY <1>2, <1>4 DEF ClientConnect

\* An end that was right stays right.
LEMMA EndNext ==
  ASSUME IInv, [Next]_vars, NEW asked, NEW how, NEW units, EndOf(asked, how, units)
  PROVE  EndOf(asked, how, units)'
<1>1. RespLen' = RespLen
  BY SurroundingsStay
<1>2. \A f \in 1..Len(fetched) : fetched'[f] = fetched[f] /\ f \in 1..Len(fetched')
  BY FetchesGrow
<1>3. QED
  BY <1>1, <1>2 DEF EndOf

\* No step ends a client's connection with the wrong data.
LEMMA SoleEndsStay ==
  ASSUME Calm, Settled, IInv', [Next]_vars, MaxBlocks = 0
  PROVE  SoleEnds'
<1> SUFFICES ASSUME NEW x \in Clients, NEW asked, asked = request'[x], NEW how, how = outcome'[x],
                    NEW units, units = got'[x], Sole(asked)'
             PROVE  EndOf(asked, how, units)'
  BY DEF SoleEnds, EndOf, Sole
<1>1. Sole(asked)
  BY SoleBefore DEF Calm
<1>2. CASE ClientServed /\ x = client.buffer
  <2>1. asked = request[x]
    BY <1>2 DEF ClientServed
  <2>2. EndOf(client.URl, how, units) /\ request[x] = client.URl
    BY <1>1, <1>2, <2>1, ServedEnds
  <2>3. EndOf(asked, how, units)
    BY <2>1, <2>2
  <2>4. QED
    BY <2>3, EndNext DEF Calm
<1>3. CASE ClientGoes /\ x = client.buffer
  <2>1. asked = request[x] /\ units = got[x]
    BY <1>3, ClientGoing DEF Calm
  <2>2. units = <<>> /\ how # "complete"
    BY <1>1, <1>3, <2>1, GoneEnds
  <2>3. EndOf(asked, how, units)
    BY <2>2 DEF EndOf
  <2>4. QED
    BY <2>3, EndNext DEF Calm
<1>4. CASE ~((ClientServed \/ ClientGoes) /\ x = client.buffer)
  <2>1. units = got[x]
    BY <1>4, OthersGetNothing DEF Calm
  <2>2. how = outcome[x]
    <3>1. CASE outcome' = outcome
      BY <3>1
    <3>2. CASE outcome' # outcome
      <4>1. (ClientServed \/ ClientGoes) /\ \E h : outcome' = [outcome EXCEPT ![client.buffer] = h]
        BY <3>2, OutcomesStay DEF Calm
      <4>2. outcome \in [Clients -> Outcomes] /\ x # client.buffer
        BY <1>4, <4>1 DEF Calm, IInv, Types
      <4>3. QED
        BY <4>1, <4>2
    <3>3. QED
      BY <3>1, <3>2
  <2>3. EndOf(asked, how, units)
    <3>1. CASE asked = request[x]
      BY <1>1, <2>1, <2>2, <3>1 DEF Settled, SoleEnds, EndOf
    <3>2. CASE asked # request[x]
      <4>1. request[x] = NoUrl
        BY <3>2, RequestsStay DEF Calm
      <4>2. how = "none" /\ units = <<>>
        BY <2>1, <2>2, <4>1 DEF Calm, NoneYet, SentInv
      <4>3. QED
        BY <4>2 DEF EndOf
    <3>3. QED
      BY <3>1, <3>2
  <2>4. QED
    BY <2>3, EndNext DEF Calm
<1>5. QED
  BY <1>2, <1>3, <1>4

\* The invariant where clients stay, send nothing behind their requests, and
\* origins answer in full.
SoleInv == FetchNumbers /\ ClientsListen /\ NoneYet /\ Settled

\* Every step keeps the parts of the invariant.
LEMMA StepSole ==
  MaxBlocks = 0 /\ IInv /\ AsksForItsPage /\ SentInv /\ HonestInv /\ SoleInv /\ [Next]_vars => SoleInv'
<1> SUFFICES ASSUME MaxBlocks = 0, IInv, AsksForItsPage, SentInv, HonestInv, SoleInv, [Next]_vars
             PROVE  SoleInv'
  OBVIOUS
<1>1. IInv'
  BY StepIInv
<1>2. Calm /\ Settled
  BY DEF HonestInv, SoleInv, Calm
<1>3. FetchNumbers' /\ ClientsListen' /\ NoneYet'
  BY <1>1, NumbersStay, ListeningStays, NoneYetStays DEF SoleInv
<1>4. Settled'
  BY <1>1, <1>2, SoleFetchesStay, SolePagesStay, SoleErrorsStay, SoleEndsStay DEF Settled
<1>5. QED
  BY <1>3, <1>4 DEF SoleInv

\* They hold before any client has come.
LEMMA InitSole ==
  Init /\ Faultless({"clientLeaves", "sendsOn", "emptyResponse", "originFails"}) => SoleInv
<1> SUFFICES ASSUME Init, Faultless({"clientLeaves", "sendsOn", "emptyResponse", "originFails"}) PROVE SoleInv
  OBVIOUS
<1>1. /\ Len(clientConnections) = 0 /\ Len(serverConnections) = 0 /\ Len(backlog) = 0
      /\ DOMAIN cacheMap = {} /\ DOMAIN cacheReady = {}
  BY DEF Init, NetInit, CacheInit
<1>2. outcome = [c \in Clients |-> "none"] /\ got = [c \in Clients |-> <<>>]
  BY DEF Init, NetInit
<1>3. faults \cap {"clientLeaves", "sendsOn"} = {}
  <2>1. PICK around \in Surroundings : faults = around.faults
    BY DEF Init, NetInit
  <2>2. QED
    BY <2>1 DEF Faultless
<1>4. FetchNumbers /\ ClientsListen
  BY <1>1, <1>3 DEF FetchNumbers, ClientsListen
<1>5. NoneYet
  <2>1. IInv
    BY InitIInv
  <2>2. \A k \in 1..Len(backlog) : outcome[backlog[k]] = "none"
    BY <1>1
  <2>3. QED
    BY <1>1, <1>2, <2>2 DEF NoneYet
<1>6. SoleFetches /\ SoleErrors
  BY <1>1 DEF SoleFetches, SoleErrors
<1>7. SolePages
  BY <1>1 DEF SolePages, Flagged, nodeData, contains
<1>8. SoleEnds
  BY <1>2 DEF SoleEnds
<1>9. QED
  BY <1>4, <1>5, <1>6, <1>7, <1>8 DEF SoleInv, Settled

\* Surroundings without four kinds of fault are without two of them.
LEMMA FewerFaults ==
  Faultless({"clientLeaves", "sendsOn", "emptyResponse", "originFails"}) => Faultless({"emptyResponse", "originFails"})
BY DEF Faultless

\* The invariant of such surroundings, where no send() fails with EWOULDBLOCK.
THEOREM SoleInvHolds ==
  Spec /\ Faultless({"clientLeaves", "sendsOn", "emptyResponse", "originFails"}) /\ MaxBlocks = 0 => []SoleInv
<1>1. MaxBlocks = 0 /\ [Next]_vars => (MaxBlocks = 0)'
  OBVIOUS
<1>2. QED
  BY <1>1, StepSole, InitSole, FewerFaults, InvariantHolds, ClientsAskForTheirPage, SentInOrder, HonestInvHolds, PTL
     DEF Spec

(***************************************************************************)
(* The request that a fetch has yet to send is still in the buffer of the  *)
(* client that started it (line 221) when its URL has no second fetch and  *)
(* no client leaves or sends on: the client is removed before that only    *)
(* when it is told of an error or has all of the page, and neither can     *)
(* happen while the only fetch of that page has not asked for it.          *)
(***************************************************************************)
THEOREM SoleFetchesReadTheirRequest ==
  Spec /\ Faultless({"clientLeaves", "sendsOn", "emptyResponse", "originFails"}) /\ MaxBlocks = 0
      => []SoleFetchHasItsRequest
<1>1. IInv /\ SoleInv => SoleFetchHasItsRequest
  <2> SUFFICES ASSUME IInv, SoleInv, Running, NEW j \in DOMAIN serverConnections,
                      NEW s, s = serverConnections[j], eventsOf(s) = "OUT", FetchedOnce(s.URl)
               PROVE  s.buffer \in DOMAIN heap
    BY DEF SoleFetchHasItsRequest
  <2>1. j \in 1..Len(serverConnections) /\ ConnectionsOpen
    BY TableFacts, WhenRunning
  <2>2. Sole(s.URl)
    BY SoleIsSole
  <2>3. FetchIsRight(s)
    BY <2>1, <2>2 DEF SoleInv, Settled, SoleFetches
  <2>4. Asks(s)
    BY <2>3 DEF FetchIsRight, eventsOf, entryOf
  <2>5. QED
    BY <2>1, <2>4 DEF Asks, ConnectionsOpen
<1>2. QED
  BY <1>1, InvariantHolds, SoleInvHolds, PTL

\* What SoleEnds says of a client.
LEMMA SoleEndOf ==
  ASSUME IInv, SentInv, SoleInv, NEW x \in Clients, FetchedOnce(request[x])
  PROVE  /\ outcome[x] = "error" => got[x] = <<>>
         /\ outcome[x] = "complete" =>
                \E f \in FetchesOf(request[x]) : got[x] = UnitsOf(f, request[x])
         /\ \A n \in DOMAIN got[x] : got[x][n].req = request[x]
<1>1. Sole(request[x])
  BY SoleIsSole
<1>2. /\ outcome[x] = "error" => got[x] = <<>>
      /\ outcome[x] = "complete" =>
            \E f \in 1..Len(fetched) : fetched[f] = request[x] /\ got[x] = Prefix(f, request[x], RespLen)
      /\ \A n \in 1..Len(got[x]) : got[x][n].req = request[x]
  BY <1>1 DEF SoleInv, Settled, SoleEnds
<1>3. DOMAIN fetched = 1..Len(fetched)
  BY LenProperties DEF IInv, Types
<1>4. \A f : Prefix(f, request[x], RespLen) = UnitsOf(f, request[x])
  BY DEF Prefix, UnitsOf
<1>5. outcome[x] = "complete" =>
            \E f \in FetchesOf(request[x]) : got[x] = UnitsOf(f, request[x])
  BY <1>2, <1>3, <1>4 DEF FetchesOf
<1>6. DOMAIN got[x] = 1..Len(got[x])
  <2>1. got[x] \in Seq(Units)
    BY DEF SentInv
  <2>2. QED
    BY <2>1, LenProperties
<1>7. QED
  BY <1>2, <1>5, <1>6

(***************************************************************************)
(* In the same surroundings what a client has been sent, at any moment, are*)
(* units of the page it asked for, if that was fetched once: the fetch     *)
(* sends the request of its own client (line 221), the node of a URL gets  *)
(* what such a fetch reads (line 390), and the client is sent that node.   *)
(***************************************************************************)
THEOREM NobodyGetsAnothersPage ==
  Spec /\ Faultless({"clientLeaves", "sendsOn", "emptyResponse", "originFails"}) /\ MaxBlocks = 0
      => []OnlyOwnPage
<1>1. IInv /\ SentInv /\ SoleInv => OnlyOwnPage
  BY SoleEndOf DEF OnlyOwnPage
<1>2. QED
  BY <1>1, InvariantHolds, SentInOrder, SoleInvHolds, PTL

(***************************************************************************)
(* A client that ends with an error has been sent nothing: the status is   *)
(* looked at before there is a node (line 385), so the fetch that is       *)
(* refused has left none, and no fetch of the URL follows to make one.     *)
(***************************************************************************)
THEOREM ErrorsComeAlone ==
  Spec /\ Faultless({"clientLeaves", "sendsOn", "emptyResponse", "originFails"}) /\ MaxBlocks = 0
      => []ErrorComesAlone
<1>1. IInv /\ SentInv /\ SoleInv => ErrorComesAlone
  BY SoleEndOf DEF ErrorComesAlone
<1>2. QED
  BY <1>1, InvariantHolds, SentInOrder, SoleInvHolds, PTL

(***************************************************************************)
(* A client whose connection ends as complete has exactly the units of one *)
(* fetch, the only one of its URL, in order and to the end of the origin's *)
(* response: the flag it was looked up with (lines 302-306) is set by the  *)
(* turn that reads end of file (lines 378-383), which an origin that does  *)
(* its part sends after all of the response.                               *)
(***************************************************************************)
THEOREM CompletePagesAreWhole ==
  Spec /\ Faultless({"clientLeaves", "sendsOn", "emptyResponse", "originFails"}) /\ MaxBlocks = 0
      => []CompleteIsWhole
<1>1. IInv /\ SentInv /\ SoleInv => CompleteIsWhole
  BY SoleEndOf DEF CompleteIsWhole
<1>2. QED
  BY <1>1, InvariantHolds, SentInOrder, SoleInvHolds, PTL

-----------------------------------------------------------------------------
(***************************************************************************)
(* What the fetches have put into the nodes, whatever the surroundings.    *)
(***************************************************************************)
\* An origin never has more on the way than its response.
Bounded(s) == s.rx \in Nat /\ s.next \in Nat /\ s.rx + s.next <= RespLen

ResponsesBounded ==
    /\ RespLen \in Nat
    /\ Running => \A fd \in DOMAIN sock : sock[fd].peer = Origin => Bounded(sock[fd])

\* Every unit in a node comes from a fetch of its URL.
NodesFromFetches ==
    \A url \in Urls : \A n \in DOMAIN nodeData(url) :
        LET f == nodeData(url)[n].fetch
        IN  f \in 1..Len(fetched) /\ fetched[f] = url

\* The first h units that f reads are in the node, in order, and no others.
HoldsFirst(node, f, h) == StoredInOrder(f, node) /\ UnitsStored(f, node) = 1..h

\* Some first units of each fetch are there.
FetchesHeld ==
    \A url \in Urls, f \in 1..Len(fetched) :
        \E h \in 0..RespLen : HoldsFirst(nodeData(url), f, h)

\* All that a fetch under way has read is there.
ReadIsHeld ==
    Running => \A j \in 1..Len(serverConnections) :
        LET s == serverConnections[j]
        IN  /\ sock[s.socketFd].peer = Origin
            /\ HoldsFirst(nodeData(s.URl), numberOf(s), sock[s.socketFd].next)

StoredInv == FetchNumbers /\ ResponsesBounded /\ NodesFromFetches /\ FetchesHeld /\ ReadIsHeld

\* A node that other fetches have added to holds what it held of a fetch.
LEMMA OthersAdd ==
  ASSUME NEW node \in Seq(Units), NEW more \in Seq(Units), NEW f, NEW h,
         \A i \in 1..Len(more) : more[i].fetch # f, HoldsFirst(node, f, h)
  PROVE  HoldsFirst(node \o more, f, h)
<1>1. PICK t : t = node \o more
  OBVIOUS
<1>2. /\ Len(node) \in Nat /\ DOMAIN node = 1..Len(node) /\ Len(more) \in Nat
      /\ DOMAIN t = 1..(Len(node) + Len(more))
      /\ \A k \in 1..(Len(node) + Len(more)) :
            t[k] = IF k <= Len(node) THEN node[k] ELSE more[k - Len(node)]
  BY <1>1, LenProperties, ConcatProperties
<1>3. PlacesOf(f, t) = PlacesOf(f, node)
  <2>1. ASSUME NEW n \in PlacesOf(f, t) PROVE n \in PlacesOf(f, node)
    <3>1. n \in 1..(Len(node) + Len(more)) /\ t[n].fetch = f
      BY <1>2, <2>1 DEF PlacesOf
    <3>2. CASE n <= Len(node)
      BY <1>2, <3>1, <3>2 DEF PlacesOf
    <3>3. CASE ~(n <= Len(node))
      <4>1. n - Len(node) \in 1..Len(more)
        BY <1>2, <3>1, <3>3
      <4>2. t[n] = more[n - Len(node)]
        BY <1>2, <3>1, <3>3
      <4>3. QED
        BY <3>1, <4>1, <4>2
    <3>4. QED
      BY <3>2, <3>3
  <2>2. ASSUME NEW n \in PlacesOf(f, node) PROVE n \in PlacesOf(f, t)
    BY <1>2, <2>2 DEF PlacesOf
  <2>3. QED
    BY <2>1, <2>2
<1>4. \A n \in PlacesOf(f, node) : t[n] = node[n]
  BY <1>2 DEF PlacesOf
<1>5. QED
  BY <1>1, <1>3, <1>4 DEF HoldsFirst, StoredInOrder, UnitsStored

\* The units that f reads next are added behind those it has read.
LEMMA NextAreAdded ==
  ASSUME NEW node \in Seq(Units), NEW more \in Seq(Units), NEW f, NEW h \in Nat,
         \A i \in 1..Len(more) : more[i].fetch = f /\ more[i].k = h + i,
         HoldsFirst(node, f, h)
  PROVE  HoldsFirst(node \o more, f, h + Len(more))
<1> DEFINE l == Len(node)
           m == Len(more)
<1>1. PICK t : t = node \o more
  OBVIOUS
<1>2. /\ l \in Nat /\ DOMAIN node = 1..l /\ m \in Nat
      /\ DOMAIN t = 1..(l + m)
      /\ \A k \in 1..(l + m) : t[k] = IF k <= l THEN node[k] ELSE more[k - l]
  BY <1>1, LenProperties, ConcatProperties
<1>3. \A i \in 1..m : more[i].fetch = f /\ more[i].k = h + i
  OBVIOUS
<1> HIDE DEF l, m
<1>4. /\ \A a, b \in PlacesOf(f, node) : a < b => node[a].k < node[b].k
      /\ UnitsStored(f, node) = 1..h
  BY DEF HoldsFirst, StoredInOrder
<1>5. \A n \in PlacesOf(f, node) : n \in 1..l /\ node[n].k \in 1..h /\ t[n] = node[n]
  <2>1. \A n \in PlacesOf(f, node) : n \in 1..l /\ node[n].k \in UnitsStored(f, node)
    BY <1>2 DEF PlacesOf, UnitsStored
  <2>2. QED
    BY <1>2, <1>4, <2>1
<1>6. \A i \in 1..m : l + i \in PlacesOf(f, t) /\ t[l + i].k = h + i
  <2> SUFFICES ASSUME NEW i \in 1..m PROVE l + i \in PlacesOf(f, t) /\ t[l + i].k = h + i
    OBVIOUS
  <2>1. l + i \in 1..(l + m) /\ ~(l + i <= l) /\ (l + i) - l = i
    BY <1>2
  <2>2. t[l + i] = more[i]
    BY <1>2, <2>1
  <2>3. QED
    BY <1>2, <1>3, <2>1, <2>2 DEF PlacesOf
<1>7. \A n \in PlacesOf(f, t) :
        \/ n \in PlacesOf(f, node)
        \/ \E i \in 1..m : n = l + i
  <2> SUFFICES ASSUME NEW n \in PlacesOf(f, t), n \notin PlacesOf(f, node)
               PROVE  \E i \in 1..m : n = l + i
    OBVIOUS
  <2>1. n \in 1..(l + m) /\ t[n].fetch = f
    BY <1>2 DEF PlacesOf
  <2>2. ~(n <= l)
    BY <1>2, <2>1 DEF PlacesOf
  <2>3. n - l \in 1..m /\ n = l + (n - l)
    BY <1>2, <2>1, <2>2
  <2>4. QED
    BY <2>3
<1>8. \A n \in PlacesOf(f, node) : n \in PlacesOf(f, t)
  BY <1>2, <1>5 DEF PlacesOf
<1>9. StoredInOrder(f, t)
  <2> SUFFICES ASSUME NEW a \in PlacesOf(f, t), NEW b \in PlacesOf(f, t), a < b
               PROVE  t[a].k < t[b].k
    BY DEF StoredInOrder
  <2>1. CASE a \in PlacesOf(f, node) /\ b \in PlacesOf(f, node)
    BY <1>4, <1>5, <2>1
  <2>2. ASSUME a \in PlacesOf(f, node), NEW i \in 1..m, b = l + i
        PROVE  t[a].k < t[b].k
    <3>1. t[a].k \in 1..h /\ t[b].k = h + i
      BY <1>5, <1>6, <2>2
    <3>2. QED
      BY <1>2, <3>1
  <2>3. ASSUME NEW i \in 1..m, a = l + i, b \in PlacesOf(f, node)
        PROVE  FALSE
    <3>1. b \in 1..l
      BY <1>5, <2>3
    <3>2. QED
      BY <1>2, <2>3, <3>1
  <2>4. ASSUME NEW i \in 1..m, a = l + i, NEW j \in 1..m, b = l + j
        PROVE  t[a].k < t[b].k
    <3>1. t[a].k = h + i /\ t[b].k = h + j
      BY <1>6, <2>4
    <3>2. QED
      BY <1>2, <2>4, <3>1
  <2>5. QED
    BY <1>7, <2>1, <2>2, <2>3, <2>4
<1>10. UnitsStored(f, t) = 1..(h + m)
  <2>1. ASSUME NEW x \in UnitsStored(f, t) PROVE x \in 1..(h + m)
    <3>1. PICK n \in PlacesOf(f, t) : x = t[n].k
      BY DEF UnitsStored
    <3>2. CASE n \in PlacesOf(f, node)
      <4>1. x \in 1..h
        BY <1>5, <3>1, <3>2
      <4>2. QED
        BY <1>2, <4>1
    <3>3. ASSUME NEW i \in 1..m, n = l + i PROVE x \in 1..(h + m)
      <4>1. x = h + i
        BY <1>6, <3>1, <3>3
      <4>2. QED
        BY <1>2, <4>1
    <3>4. QED
      BY <1>7, <3>2, <3>3
  <2>2. ASSUME NEW x \in 1..(h + m) PROVE x \in UnitsStored(f, t)
    <3>1. CASE x <= h
      <4>1. x \in UnitsStored(f, node)
        BY <1>2, <1>4, <3>1
      <4>2. PICK n \in PlacesOf(f, node) : x = node[n].k
        BY <4>1 DEF UnitsStored
      <4>3. n \in PlacesOf(f, t) /\ x = t[n].k
        BY <1>5, <1>8, <4>2
      <4>4. QED
        BY <4>3 DEF UnitsStored
    <3>2. CASE ~(x <= h)
      <4>1. x - h \in 1..m /\ x = h + (x - h)
        BY <1>2, <3>2
      <4>2. l + (x - h) \in PlacesOf(f, t) /\ x = t[l + (x - h)].k
        BY <1>6, <4>1
      <4>3. QED
        BY <4>2 DEF UnitsStored
    <3>3. QED
      BY <3>1, <3>2
  <2>3. QED
    BY <2>1, <2>2
<1>11. QED
  BY <1>1, <1>9, <1>10 DEF HoldsFirst, m

\* A fetch that has read nothing has put nothing anywhere.
LEMMA NothingHeld ==
  ASSUME NEW node, NEW f, \A n \in DOMAIN node : node[n].fetch # f
  PROVE  HoldsFirst(node, f, 0)
<1>1. PlacesOf(f, node) = {}
  BY DEF PlacesOf
<1>2. UnitsStored(f, node) = {} /\ 1..0 = {}
  BY <1>1 DEF UnitsStored
<1>3. QED
  BY <1>1, <1>2 DEF HoldsFirst, StoredInOrder

\* Origins send no more than their responses, and read nothing of them.
LEMMA OriginsStayBounded ==
  ASSUME IInv, Outside, RespLen \in Nat, NEW fd \in DOMAIN sock, sock[fd].peer = Origin,
         Bounded(sock[fd])
  PROVE  Bounded(sock'[fd]) /\ sock'[fd].next = sock[fd].next
<1>1. sock[fd] \in Socket /\ sock[fd].peer \notin Clients /\ RespLen' = RespLen
  BY NetworkAssumption DEF IInv, Types, Outside, ProgramVars, histVars, surroundings
<1>2. sock[fd].rx \in Nat /\ sock[fd].next \in Nat /\ sock[fd].rx + sock[fd].next <= RespLen
  BY DEF Bounded
<1>3. CASE sock'[fd] = sock[fd]
  BY <1>1, <1>2, <1>3 DEF Bounded
<1>4. ASSUME NEW g \in DOMAIN sock, ClientSend(g) \/ ClientLeaves(g)
      PROVE  sock'[fd] = sock[fd]
  <2>1. g # fd
    BY <1>1, <1>4 DEF ClientSend, ClientLeaves
  <2>2. QED
    BY <1>4, <2>1 DEF ClientSend, ClientLeaves
<1>5. ASSUME NEW g \in DOMAIN sock, g = fd, ClientRead(g) \/ OriginAccept(g) \/ OriginClose(g)
      PROVE  Bounded(sock'[fd]) /\ sock'[fd].next = sock[fd].next
  <2>1. \/ sock' = [sock EXCEPT ![fd].txq = 0] \/ sock' = [sock EXCEPT ![fd].up = TRUE]
        \/ sock' = [sock EXCEPT ![fd].fin = TRUE]
    BY <1>5 DEF ClientRead, OriginAccept, OriginClose
  <2>2. sock'[fd].rx = sock[fd].rx /\ sock'[fd].next = sock[fd].next
    BY <1>1, <2>1 DEF Socket
  <2>3. QED
    BY <1>1, <1>2, <2>2 DEF Bounded
<1>6. ASSUME NEW g \in DOMAIN sock, g = fd, OriginSend(g)
      PROVE  Bounded(sock'[fd]) /\ sock'[fd].next = sock[fd].next
  <2>1. sock' = [sock EXCEPT ![fd].rx = @ + 1] /\ sock[fd].next + sock[fd].rx < RespLen
    BY <1>6 DEF OriginSend, Responded
  <2>2. sock'[fd].rx = sock[fd].rx + 1 /\ sock'[fd].next = sock[fd].next
    BY <1>1, <2>1 DEF Socket
  <2>3. QED
    BY <1>1, <1>2, <2>1, <2>2 DEF Bounded
<1>7. ASSUME NEW g \in DOMAIN sock, g = fd, OriginReset(g)
      PROVE  Bounded(sock'[fd]) /\ sock'[fd].next = sock[fd].next
  <2>1. PICK kept \in {0, sock[fd].rx} : sock' = [sock EXCEPT ![fd].rst = TRUE, ![fd].rx = kept]
    BY <1>7 DEF OriginReset
  <2>2. sock'[fd].rx = kept /\ sock'[fd].next = sock[fd].next
    BY <1>1, <2>1 DEF Socket
  <2>3. QED
    BY <1>1, <1>2, <2>1, <2>2 DEF Bounded
<1>8. ASSUME NEW g \in DOMAIN sock, g # fd,
             ClientRead(g) \/ OriginAccept(g) \/ OriginSend(g) \/ OriginClose(g) \/ OriginReset(g)
      PROVE  sock'[fd] = sock[fd]
  BY <1>8 DEF ClientRead, OriginAccept, OriginSend, OriginClose, OriginReset
<1>9. ASSUME NEW c \in Clients, ClientConnect(c) PROVE sock'[fd] = sock[fd]
  BY <1>9 DEF ClientConnect
<1>10. QED
  BY <1>3, <1>4, <1>5, <1>6, <1>7, <1>8, <1>9 DEF Outside, ClientStep, OriginStep

\* The next units of the fetch on fd go to the end of the node of url, and are
\* not more than have come.
NextAdded(url, fd) ==
    \E more \in Seq(Units) :
       /\ nodeData(url)' = nodeData(url) \o more
       /\ \A i \in 1..Len(more) :
             more[i].fetch = sock[fd].fetch /\ more[i].k = sock[fd].next + i
       /\ Len(more) \in Nat
       /\ sock'[fd].next = sock[fd].next + Len(more)
       /\ sock'[fd].rx \in Nat /\ sock'[fd].rx + sock'[fd].next <= RespLen
       /\ sock[fd].next + Len(more) <= RespLen

\* The turn that reads does that to the node of its URL.
LEMMA ServerAdds ==
  ASSUME IInv, FetchNumbers, ResponsesBounded, ReadIsHeld, ServerReceivesData,
         NEW fd, fd = server.socketFd, NEW url, url = server.URl
  PROVE  /\ it \in 1..Len(serverConnections) /\ server = serverConnections[it]
         /\ sock[fd].next \in Nat /\ sock[fd].fetch = numberOf(server) /\ url \in Urls
         /\ NextAdded(url, fd)
<1>0. Running
  BY DEF ServerReceivesData, ServerReadable, ServerTurn, Running
<1>1. /\ it \in 1..Len(serverConnections) /\ server = serverConnections[it]
      /\ fd \in DOMAIN sock /\ sock[fd] \in Socket /\ url \in Urls
  BY <1>0, Turns, WhenRunning DEF ConnectionsOpen
<1>2. /\ sock[fd].rx \in Nat /\ sock[fd].next \in Nat /\ sock[fd].rx + sock[fd].next <= RespLen
      /\ RespLen \in Nat /\ RespLen' = RespLen
  <2>1. sock[fd].peer = Origin
    BY <1>0, <1>1 DEF ReadIsHeld
  <2>2. Bounded(sock[fd]) /\ RespLen \in Nat
    BY <1>0, <1>1, <2>1 DEF ResponsesBounded
  <2>3. RespLen' = RespLen
    BY DEF ServerReceivesData, histVars, surroundings
  <2>4. QED
    BY <2>2, <2>3 DEF Bounded
<1>3. PICK n \in 1..BUF_SIZE : /\ n = recvCount(fd) /\ addData(url, ReceivedUnits(fd, n))
                               /\ sock' = Received(fd, n)
  BY DEF ServerReceivesData
<1>4. n \in Nat /\ n > 0 /\ n <= sock[fd].rx
  BY <1>2, <1>3, NetworkAssumption DEF recvCount, SmallerOf
<1>5. sock'[fd].rx = sock[fd].rx - n /\ sock'[fd].next = sock[fd].next + n
  BY <1>1, <1>3 DEF Received, Socket
<1>6. PICK f, h : f = sock[fd].fetch /\ h = sock[fd].next
  OBVIOUS
<1>7. PICK more : more = ReceivedUnits(fd, n)
  OBVIOUS
<1>8. \A i \in 1..n : Unit(f, sock[fd].req, h + i) \in Units
  BY <1>1, <1>2, <1>6 DEF Unit, Units, Socket
<1>9. more = [i \in 1..n |-> Unit(f, sock[fd].req, h + i)]
  BY <1>6, <1>7 DEF ReceivedUnits
<1>10. more \in Seq(Units) /\ Len(more) = n
  BY <1>4, <1>8, <1>9
<1>11. \A i \in 1..n : more[i].fetch = f /\ more[i].k = h + i
  BY <1>9 DEF Unit
<1>12. nodeData(url)' = nodeData(url) \o more
  BY <1>3, <1>7, NodeIsAddedTo
<1>13. /\ sock'[fd].rx \in Nat /\ sock'[fd].rx + sock'[fd].next <= RespLen
       /\ sock[fd].next + n <= RespLen
  BY <1>2, <1>4, <1>5
<1>14. QED
  BY <1>1, <1>2, <1>4, <1>5, <1>6, <1>10, <1>11, <1>12, <1>13 DEF NextAdded, numberOf

\* Every step keeps the sockets of origins bounded.
LEMMA BoundsStay ==
  ASSUME IInv, IInv', [Next]_vars, FetchNumbers, ResponsesBounded, ReadIsHeld
  PROVE  ResponsesBounded'
<1>1. RespLen' = RespLen /\ RespLen \in Nat
  BY SurroundingsStay DEF ResponsesBounded
<1>2. ASSUME Running', NEW fd \in DOMAIN sock', sock'[fd].peer = Origin
      PROVE  /\ sock'[fd].rx \in Nat /\ sock'[fd].next \in Nat
             /\ sock'[fd].rx + sock'[fd].next <= RespLen
  <2>1. Running
    BY <1>2, RunningBefore
  <2>2. CASE fd \notin DOMAIN sock
    <3>1. \E f : sock'[fd] = ServerSocket(f)
      <4>1. \A c \in Clients : ClientSocket(c).peer # Origin
        BY NetworkAssumption DEF ClientSocket
      <4>2. QED
        BY <1>2, <2>2, <4>1, NewSockets
    <3>2. \A f : ServerSocket(f).rx = 0 /\ ServerSocket(f).next = 0
      BY DEF ServerSocket, ClientSocket
    <3>3. sock'[fd].rx = 0 /\ sock'[fd].next = 0
      BY <3>1, <3>2
    <3>4. QED
      BY <1>1, <3>3 DEF Bounded
  <2>3. CASE fd \in DOMAIN sock
    <3>1. sock[fd].peer = Origin /\ Bounded(sock[fd])
      BY <1>2, <2>1, <2>3, OwnersStay DEF ResponsesBounded
    <3>2. CASE Outside
      BY <1>1, <2>3, <3>1, <3>2, OriginsStayBounded DEF Bounded
    <3>3. CASE ServerReceivesData /\ fd = server.socketFd
      <4>1. PICK url : url = server.URl
        OBVIOUS
      <4>2. sock[fd].next \in Nat
        BY <3>3, <4>1, ServerAdds
      <4>3. NextAdded(url, fd)
        BY <3>3, <4>1, ServerAdds
      <4>4. QED
        BY <4>2, <4>3 DEF NextAdded
    <3>4. CASE ServerSendsRequest /\ fd = server.socketFd
      <4>1. PICK r : sock' = [sock EXCEPT ![fd].req = r]
        BY <3>4 DEF ServerSendsRequest
      <4>2. sock[fd] \in Socket
        BY <2>3 DEF IInv, Types
      <4>3. sock'[fd].rx = sock[fd].rx /\ sock'[fd].next = sock[fd].next
        BY <2>3, <4>1, <4>2 DEF Socket
      <4>4. QED
        BY <1>1, <3>1, <4>3 DEF Bounded
    <3>5. Reads \/ ClientServed => fd # client.socketFd
      BY <2>1, <3>1, Turns, WhenRunning, NetworkAssumption DEF ConnectionsOpen
    <3>6. CASE ~Outside /\ (ServerReceivesData \/ ServerSendsRequest => fd # server.socketFd)
      <4>1. sock'[fd] = sock[fd]
        BY <1>2, <2>3, <3>5, <3>6, SocketsStay
      <4>2. QED
        BY <1>1, <3>1, <4>1 DEF Bounded
    <3>7. QED
      BY <3>2, <3>3, <3>4, <3>6
  <2>4. QED
    BY <2>2, <2>3
<1>3. /\ RespLen' \in Nat
      /\ Running' => \A fd \in DOMAIN sock' : sock'[fd].peer = Origin =>
            /\ sock'[fd].rx \in Nat /\ sock'[fd].next \in Nat
            /\ sock'[fd].rx + sock'[fd].next <= RespLen'
  BY <1>1, <1>2
<1>4. QED
  BY <1>3 DEF ResponsesBounded, Bounded

\* And the units in the nodes those of fetches.
LEMMA SourcesStay ==
  ASSUME IInv, IInv', [Next]_vars, FetchNumbers, ResponsesBounded, NodesFromFetches, ReadIsHeld
  PROVE  NodesFromFetches'
<1>1. ASSUME NEW f, NEW url, f \in 1..Len(fetched) /\ fetched[f] = url
      PROVE  f \in 1..Len(fetched') /\ fetched'[f] = url
  BY <1>1, FetchesGrow
<1>2. ASSUME NEW url \in Urls, NEW n \in DOMAIN nodeData(url)', NEW f, f = nodeData(url)'[n].fetch
      PROVE  f \in 1..Len(fetched) /\ fetched[f] = url
  <2>1. CASE ServerReceivesData /\ server.URl = url
    <3>1. PICK more \in Seq(Units) :
            /\ nodeData(url)' = nodeData(url) \o more
            /\ \A i \in 1..Len(more) : more[i].fetch = numberOf(server)
      <4>1. PICK fd : fd = server.socketFd
        OBVIOUS
      <4>2. sock[fd].fetch = numberOf(server)
        BY <4>1 DEF numberOf
      <4>3. url = server.URl /\ ServerReceivesData
        BY <2>1
      <4>4. NextAdded(url, fd)
        BY <4>1, <4>3, ServerAdds
      <4>5. QED
        BY <4>2, <4>4 DEF NextAdded
    <3>2. numberOf(server) \in 1..Len(fetched) /\ fetched[numberOf(server)] = url
      <4>1. Running /\ it \in 1..Len(serverConnections) /\ server = serverConnections[it]
        BY <2>1, ServerAdds DEF ServerReceivesData, ServerReadable, ServerTurn, Running
      <4>2. QED
        BY <2>1, <4>1 DEF FetchNumbers
    <3>3. PICK node, t : node = nodeData(url) /\ t = node \o more
      OBVIOUS
    <3>4. /\ node \in Seq(Units) /\ Len(node) \in Nat /\ Len(more) \in Nat /\ DOMAIN node = 1..Len(node)
          /\ DOMAIN t = 1..(Len(node) + Len(more))
          /\ \A k \in 1..(Len(node) + Len(more)) :
                t[k] = IF k <= Len(node) THEN node[k] ELSE more[k - Len(node)]
      BY <3>3, NodesGrow, LenProperties, ConcatProperties
    <3>5. n \in 1..(Len(node) + Len(more)) /\ f = t[n].fetch
      BY <1>2, <3>1, <3>3, <3>4
    <3>6. CASE n <= Len(node)
      <4>1. n \in DOMAIN node /\ f = node[n].fetch
        BY <3>4, <3>5, <3>6
      <4>2. QED
        BY <3>3, <4>1 DEF NodesFromFetches
    <3>7. CASE ~(n <= Len(node))
      <4>1. n - Len(node) \in 1..Len(more) /\ t[n] = more[n - Len(node)]
        BY <3>4, <3>5, <3>7
      <4>2. QED
        BY <3>1, <3>2, <3>5, <4>1
    <3>8. QED
      BY <3>6, <3>7
  <2>2. CASE ~(ServerReceivesData /\ server.URl = url)
    <3>1. nodeData(url)' = nodeData(url)
      BY <2>2, NodeStays
    <3>2. QED
      BY <1>2, <3>1 DEF NodesFromFetches
  <2>3. QED
    BY <2>1, <2>2
<1>3. QED
  BY <1>1, <1>2 DEF NodesFromFetches

\* What becomes of a node that holds the first h units of f.
LEMMA HeldNext ==
  ASSUME IInv, [Next]_vars, FetchNumbers, ResponsesBounded, ReadIsHeld,
         NEW url \in Urls, NEW f, NEW h, HoldsFirst(nodeData(url), f, h)
  PROVE  \/ HoldsFirst(nodeData(url)', f, h)
            /\ ~(ServerReceivesData /\ server.URl = url /\ numberOf(server) = f)
         \/ /\ ServerReceivesData /\ server.URl = url /\ numberOf(server) = f
            /\ HoldsFirst(nodeData(url)', f, sock'[server.socketFd].next)
            /\ sock'[server.socketFd].next \in 0..RespLen
<1>1. CASE ~(ServerReceivesData /\ server.URl = url)
  BY <1>1, NodeStays
<1>2. CASE ServerReceivesData /\ server.URl = url
  <2>1. PICK fd : fd = server.socketFd
    OBVIOUS
  <2>2. /\ it \in 1..Len(serverConnections) /\ server = serverConnections[it]
        /\ sock[fd].next \in Nat /\ sock[fd].fetch = numberOf(server)
    BY <1>2, <2>1, ServerAdds
  <2>3. PICK more \in Seq(Units) :
              /\ nodeData(url)' = nodeData(url) \o more
              /\ \A i \in 1..Len(more) :
                    more[i].fetch = numberOf(server) /\ more[i].k = sock[fd].next + i
              /\ Len(more) \in Nat
              /\ sock'[fd].next = sock[fd].next + Len(more)
              /\ sock[fd].next + Len(more) <= RespLen
    <3>1. url = server.URl /\ ServerReceivesData
      BY <1>2
    <3>2. NextAdded(url, fd)
      BY <2>1, <3>1, ServerAdds
    <3>3. QED
      BY <2>2, <3>2 DEF NextAdded
  <2>4. nodeData(url) \in Seq(Units)
    BY NodesGrow
  <2>5. CASE numberOf(server) # f
    <3>1. HoldsFirst(nodeData(url) \o more, f, h)
      BY <2>3, <2>4, <2>5, OthersAdd
    <3>2. QED
      BY <2>3, <2>5, <3>1
  <2>6. CASE numberOf(server) = f
    <3>1. Running
      BY <1>2 DEF ServerReceivesData, ServerReadable, ServerTurn, Running
    <3>2. HoldsFirst(nodeData(url), f, sock[fd].next)
      BY <1>2, <2>1, <2>2, <2>6, <3>1 DEF ReadIsHeld
    <3>3. HoldsFirst(nodeData(url) \o more, f, sock[fd].next + Len(more))
      BY <2>2, <2>3, <2>4, <2>6, <3>2, NextAreAdded
    <3>4. RespLen \in Nat /\ sock[fd].next + Len(more) \in 0..RespLen
      BY <2>2, <2>3 DEF ResponsesBounded
    <3>5. QED
      BY <1>2, <2>1, <2>3, <2>6, <3>3, <3>4
  <2>7. QED
    BY <2>5, <2>6
<1>3. QED
  BY <1>1, <1>2

\* The next fetch has put nothing into a node.
LEMMA NextHoldsNothing ==
  ASSUME IInv, [Next]_vars, NodesFromFetches, NEW url \in Urls, NEW f, f \notin 1..Len(fetched),
         ~ServerReceivesData
  PROVE  HoldsFirst(nodeData(url)', f, 0)
<1>1. nodeData(url)' = nodeData(url)
  BY NodeStays
<1>2. \A n \in DOMAIN nodeData(url) : nodeData(url)[n].fetch # f
  BY DEF NodesFromFetches
<1>3. HoldsFirst(nodeData(url), f, 0)
  BY <1>2, NothingHeld
<1>4. QED
  BY <1>1, <1>3

\* Of every fetch some first units stay.
LEMMA HeldStays ==
  ASSUME IInv, IInv', [Next]_vars, FetchNumbers, ResponsesBounded, NodesFromFetches, FetchesHeld, ReadIsHeld
  PROVE  FetchesHeld'
<1>1. RespLen' = RespLen /\ RespLen \in Nat
  BY SurroundingsStay DEF ResponsesBounded
<1>2. ASSUME NEW url \in Urls, NEW f \in 1..Len(fetched')
      PROVE  \E h \in 0..RespLen : HoldsFirst(nodeData(url)', f, h)
  <2>1. CASE f \in 1..Len(fetched)
    <3>1. PICK h \in 0..RespLen : HoldsFirst(nodeData(url), f, h)
      BY <2>1 DEF FetchesHeld
    <3>2. QED
      BY <3>1, HeldNext
  <2>2. CASE f \notin 1..Len(fetched)
    <3>1. ClientStartsFetch
      BY <2>2, FetchesGrow
    <3>2. ~ServerReceivesData
      BY <3>1, OneTurn DEF Reads
    <3>3. HoldsFirst(nodeData(url)', f, 0)
      BY <2>2, <3>2, NextHoldsNothing
    <3>4. QED
      BY <1>1, <3>3
  <2>3. QED
    BY <2>1, <2>2
<1>3. QED
  BY <1>1, <1>2 DEF FetchesHeld, HoldsFirst, StoredInOrder, UnitsStored, PlacesOf

\* Of a fetch under way all that has been read.
LEMMA ReadStaysHeld ==
  ASSUME IInv, IInv', [Next]_vars, FetchNumbers, ResponsesBounded, NodesFromFetches, ReadIsHeld
  PROVE  ReadIsHeld'
<1> SUFFICES ASSUME Running', NEW j \in 1..Len(serverConnections'), NEW d, d = serverConnections'[j]
             PROVE  /\ sock'[d.socketFd].peer = Origin
                    /\ HoldsFirst(nodeData(d.URl)', sock'[d.socketFd].fetch, sock'[d.socketFd].next)
  BY DEF ReadIsHeld, numberOf, HoldsFirst, StoredInOrder, UnitsStored, PlacesOf
<1>1. Running /\ ConnectionsOpen /\ ConnectionsOpen'
  BY RunningBefore, WhenRunning, NextWhenRunning
<1>2. CASE \E k \in 1..Len(serverConnections) :
                /\ Stood(d, pollFds'[d.pollFdsIndex], k)
                /\ numberOf(d)' = numberOf(serverConnections[k])
                /\ d.socketFd = serverConnections[k].socketFd /\ d.URl = serverConnections[k].URl
  <2>0. PICK k \in 1..Len(serverConnections) :
                /\ numberOf(d)' = numberOf(serverConnections[k])
                /\ d.socketFd = serverConnections[k].socketFd /\ d.URl = serverConnections[k].URl
    BY <1>2
  <2>1. PICK s, fd :
                /\ s = serverConnections[k] /\ fd = s.socketFd
                /\ numberOf(d)' = numberOf(s)
                /\ d.socketFd = fd /\ d.URl = s.URl
    BY <2>0
  <2>2. /\ fd \in DOMAIN sock /\ fd \in DOMAIN sock' /\ s.URl \in Urls
        /\ sock[fd].peer = Origin /\ HoldsFirst(nodeData(s.URl), numberOf(s), sock[fd].next)
    BY <1>1, <2>1 DEF ReadIsHeld, ConnectionsOpen
  <2>3. sock'[fd].peer = Origin /\ sock'[fd].fetch = numberOf(s)
    BY <2>1, <2>2, OwnersStay DEF numberOf
  <2>4. Reads \/ ClientServed => fd # client.socketFd
    BY <1>1, <2>1, Turns DEF ConnectionsOpen
  <2>5. (ServerReceivesData \/ ServerSendsRequest => 
            it \in 1..Len(serverConnections) /\ server = serverConnections[it])
        /\ (ServerReceivesData \/ ServerSendsRequest => (fd = server.socketFd <=> k = it))
    BY <1>1, <2>1, Turns DEF ConnectionsOpen
  <2>6. CASE ServerReceivesData /\ k = it
    <3>1. server = s /\ fd = server.socketFd /\ numberOf(server) = numberOf(s)
      BY <2>1, <2>5, <2>6
    <3>2. HoldsFirst(nodeData(s.URl)', numberOf(s), sock'[fd].next)
      BY <2>2, <2>6, <3>1, HeldNext
    <3>3. QED
      BY <2>1, <2>3, <3>2
  <2>7. CASE ~(ServerReceivesData /\ k = it)
    <3>1. ~(ServerReceivesData /\ numberOf(server) = numberOf(s))
      BY <1>1, <2>1, <2>5, <2>7 DEF FetchNumbers
    <3>2. HoldsFirst(nodeData(s.URl)', numberOf(s), sock[fd].next)
      BY <2>2, <3>1, HeldNext
    <3>3. sock'[fd].next = sock[fd].next
      <4>1. CASE Outside
        <5>1. RespLen \in Nat /\ Bounded(sock[fd])
          BY <1>1, <2>2 DEF ResponsesBounded
        <5>2. QED
          BY <2>2, <4>1, <5>1, OriginsStayBounded
      <4>2. CASE ServerSendsRequest /\ k = it
        <5>1. PICK r : sock' = [sock EXCEPT ![fd].req = r]
          BY <2>5, <4>2 DEF ServerSendsRequest
        <5>2. sock[fd] \in Socket
          BY <2>2 DEF IInv, Types
        <5>3. QED
          BY <2>2, <5>1, <5>2 DEF Socket
      <4>3. CASE ~Outside /\ ~(ServerSendsRequest /\ k = it)
        <5>1. sock'[fd] = sock[fd]
          BY <2>2, <2>4, <2>5, <2>7, <4>3, SocketsStay
        <5>2. QED
          BY <5>1
      <4>4. QED
        BY <4>1, <4>2, <4>3
    <3>4. QED
      BY <2>1, <2>3, <3>2, <3>3
  <2>8. QED
    BY <2>6, <2>7
<1>3. CASE /\ Started(d, pollFds'[d.pollFdsIndex])
           /\ sock'[d.socketFd] = ServerSocket(Len(fetched) + 1)
  <2>1. /\ sock'[d.socketFd].peer = Origin /\ sock'[d.socketFd].next = 0
        /\ sock'[d.socketFd].fetch = Len(fetched) + 1
    BY <1>3 DEF ServerSocket, ClientSocket
  <2>2. ClientStartsFetch
    BY <1>3 DEF Started
  <2>3. ~ServerReceivesData /\ Len(fetched) + 1 \notin 1..Len(fetched)
    BY <2>2, OneTurn, FetchesGrow DEF Reads
  <2>4. d.URl \in Urls
    BY <1>1 DEF ConnectionsOpen
  <2>5. HoldsFirst(nodeData(d.URl)', Len(fetched) + 1, 0)
    BY <2>3, <2>4, NextHoldsNothing
  <2>6. QED
    BY <2>1, <2>5
<1>4. QED
  BY <1>2, <1>3, NumberNext

\* Every step keeps all of it.
LEMMA StepStored == IInv /\ StoredInv /\ [Next]_vars => StoredInv'
<1> SUFFICES ASSUME IInv, StoredInv, [Next]_vars PROVE StoredInv'
  OBVIOUS
<1>1. IInv'
  BY StepIInv
<1>2. QED
  BY <1>1, NumbersStay, BoundsStay, SourcesStay, HeldStays, ReadStaysHeld DEF StoredInv

\* At first nothing is stored, and nothing fetched.
LEMMA InitStored == Init => StoredInv
<1> SUFFICES ASSUME Init PROVE StoredInv
  OBVIOUS
<1>1. RespLen \in Nat
  <2>1. PICK around \in Surroundings : RespLen = around.RespLen
    BY DEF Init, NetInit
  <2>2. QED
    BY <2>1, NetworkAssumption
<1>2. Len(fetched) = 0 /\ Len(serverConnections) = 0 /\ DOMAIN sock = {} /\ DOMAIN cacheMap = {}
  BY DEF Init, NetInit, CacheInit
<1>3. \A url : DOMAIN nodeData(url) = {}
  BY <1>2 DEF nodeData, contains
<1>4. QED
  BY <1>1, <1>2, <1>3 DEF StoredInv, FetchNumbers, ResponsesBounded, NodesFromFetches, FetchesHeld, ReadIsHeld

\* The invariant, in every surroundings.
THEOREM StoredInvHolds == Spec => []StoredInv
<1>1. QED
  BY StepStored, InitStored, InvariantHolds, PTL DEF Spec

(***************************************************************************)
(* In every surroundings, faults and refused sends and all, what a fetch   *)
(* reads goes to the node of its own URL, in order and without a gap, and  *)
(* is all there while the fetch is under way (lines 374-389), however many *)
(* fetches of the URL add to the node at once.                             *)
(***************************************************************************)
THEOREM FetchesStoreInOrder == Spec => []EachFetchStoredInOrder
<1>1. IInv /\ StoredInv => EachFetchStoredInOrder
  <2> SUFFICES ASSUME IInv, StoredInv PROVE EachFetchStoredInOrder
    OBVIOUS
  <2>1. DOMAIN fetched = 1..Len(fetched) /\ DOMAIN serverConnections = 1..Len(serverConnections)
    BY TableFacts, LenProperties DEF IInv, Types
  <2>2. ASSUME NEW url \in Urls, NEW f \in DOMAIN fetched
        PROVE  /\ fetched[f] # url => PlacesOf(f, nodeData(url)) = {}
               /\ StoredInOrder(f, nodeData(url))
               /\ \E h \in 0..RespLen : UnitsStored(f, nodeData(url)) = 1..h
    <3>1. fetched[f] # url => PlacesOf(f, nodeData(url)) = {}
      BY DEF StoredInv, NodesFromFetches, PlacesOf
    <3>2. QED
      BY <2>1, <3>1 DEF StoredInv, FetchesHeld, HoldsFirst
  <2>3. ASSUME Running, NEW j \in DOMAIN serverConnections
        PROVE  LET s == serverConnections[j]
               IN  UnitsStored(sock[s.socketFd].fetch, nodeData(s.URl)) = 1..sock[s.socketFd].next
    BY <2>1, <2>3 DEF StoredInv, ReadIsHeld, HoldsFirst, numberOf
  <2>4. QED
    BY <2>2, <2>3 DEF EachFetchStoredInOrder
<1>2. QED
  BY <1>1, InvariantHolds, StoredInvHolds, PTL

-----------------------------------------------------------------------------
(***************************************************************************)
(* Clients of a page fetched once are served as Delivery has it.           *)
(***************************************************************************)
\* What there is of such a page is no longer than the response.
LEMMA PageFits ==
  ASSUME Calm, Settled, ResponsesBounded, Running, NEW url \in Urls, Sole(url)
  PROVE  Len(nodeData(url)) <= RespLen
<1>1. PICK f, n :
        /\ n \in Nat /\ nodeData(url) = Prefix(f, url, n)
        /\ Flagged(url) => n = RespLen /\ f \in 1..Len(fetched) /\ fetched[f] = url
  BY PageIsOneFetch
<1>2. Len(nodeData(url)) = n /\ RespLen \in Nat
  BY <1>1, PrefixIsSeq DEF ResponsesBounded
<1>3. CASE BeingFetched(url)
  <2>1. PICK k \in 1..Len(serverConnections) : serverConnections[k].URl = url
    BY <1>3, TableFacts DEF BeingFetched, Calm
  <2>2. PICK s, x : s = serverConnections[k] /\ x = sock[s.socketFd]
    OBVIOUS
  <2>3. nodeData(url) = Prefix(x.fetch, url, x.next)
    BY <2>1, <2>2 DEF Settled, SoleFetches, FetchIsRight, numberOf
  <2>4. s.socketFd \in DOMAIN sock /\ x.peer = Origin
    BY <2>2, WhenRunning DEF Calm, ConnectionsOpen, FetchesAreGood, GoodFetch
  <2>5. x.rx \in Nat /\ x.next \in Nat /\ x.rx + x.next <= RespLen
    BY <2>2, <2>4 DEF ResponsesBounded, Bounded
  <2>6. Len(nodeData(url)) = x.next
    BY <2>3, <2>5, PrefixIsSeq
  <2>7. QED
    BY <1>2, <2>5, <2>6
<1>4. CASE ~BeingFetched(url)
  <2>1. CASE Flagged(url)
    BY <1>1, <1>2, <2>1
  <2>2. CASE ~Flagged(url)
    <3>1. nodeData(url) = <<>>
      BY <1>4, <2>2 DEF Settled, SolePages
    <3>2. Len(nodeData(url)) = 0
      BY <3>1
    <3>3. QED
      BY <1>2, <3>2
  <2>3. QED
    BY <2>1, <2>2
<1>5. QED
  BY <1>3, <1>4

\* A client that is served keeps what it has.
LEMMA ServedKeeps ==
  ASSUME IInv, SentInv, ClientServed, NEW x, x = client.buffer
  PROVE  got[x] \in Seq(Units) /\ got'[x] \in Seq(Units) /\ Len(got[x]) <= Len(got'[x])
<1>1. /\ Running /\ it \in 1..Len(clientConnections) /\ client = clientConnections[it]
      /\ sock[client.socketFd].peer = x
  <2>1. ClientTurn
    BY DEF ClientServed, ClientWritable
  <2>2. QED
    BY <2>1, ClientAtTurn DEF client
<1>2. x \in Clients
  BY <1>1, WhenRunning DEF ConnectionsOpen
<1>3. PICK node, offset : node = nodeData(client.URl) /\ offset = cacheOffsets[client.socketFd]
  OBVIOUS
<1>4. PICK n \in SendResults(client.socketFd, Len(node) - offset) :
        got' = [got EXCEPT ![x] = @ \o SentUnits(node, offset, n)]
  <2> DEFINE fd == client.socketFd
             page == nodeData(client.URl)
  <2>1. PICK n \in SendResults(fd, Len(page) - cacheOffsets[fd]) :
            got' = [got EXCEPT ![sock[fd].peer] = @ \o SentUnits(page, cacheOffsets[fd], n)]
    BY DEF ClientServed
  <2>2. page = node /\ cacheOffsets[fd] = offset /\ sock[fd].peer = x
    BY <1>1, <1>3
  <2> HIDE DEF page
  <2>3. QED
    BY <2>1, <2>2
<1>5. PICK units : units = SentUnits(node, offset, n)
  OBVIOUS
<1>6. units \in Seq(Units) /\ got \in [Clients -> Seq(Units)]
  BY <1>1, <1>3, <1>4, <1>5, SendFits DEF SentInv
<1>7. got'[x] = got[x] \o units /\ got[x] \in Seq(Units)
  BY <1>2, <1>4, <1>5, <1>6
<1>8. /\ got[x] \o units \in Seq(Units) /\ Len(got[x] \o units) = Len(got[x]) + Len(units)
      /\ Len(got[x]) \in Nat /\ Len(units) \in Nat
  BY <1>6, <1>7, ConcatProperties, LenProperties
<1>9. QED
  BY <1>7, <1>8

\* What Delivery sees of a piece of one response.
LEMMA SeenPrefix ==
  ASSUME NEW units \in Seq(Units), NEW m \in Nat, NEW url, NEW f, Len(units) = m,
         \A i \in 1..m : units[i] = Unit(f, url, i)
  PROVE  Seen(units) = Page!PagePrefix(url, m)
<1>1. DOMAIN units = 1..m
  BY LenProperties
<1>2. \A i \in 1..m : <<units[i].req, units[i].k>> = <<url, i>>
  BY DEF Unit
<1>3. QED
  BY <1>1, <1>2 DEF Seen, Page!PagePrefix

\* Units that Delivery sees, and ends, of all clients but one.
SeenOf == [c \in Clients |-> Seen(got[c])]
EndSeen(how) == IF how = "dropped" THEN "error" ELSE how
EndsOf == [c \in Clients |-> EndSeen(outcome[c])]

\* A step that gives a client something of its page is a Send.
LEMMA ServedIsSend ==
  ASSUME Calm, Settled, ResponsesBounded, CachedPagesAreOk, IInv', [Next]_vars, MaxBlocks = 0,
         ClientServed, NEW x, x = client.buffer, Sole(request[x])
  PROVE  ServesAsPromised(x)
<1>1. Running /\ it \in 1..Len(clientConnections) /\ client = clientConnections[it]
  <2>1. ClientTurn
    BY DEF ClientServed, ClientWritable
  <2>2. QED
    BY <2>1, ClientAtTurn DEF client, Calm
<1>2. PICK url, node : url = client.URl /\ node = nodeData(url)
  OBVIOUS
<1>3. request[x] = url /\ request' = request /\ Sole(url)
  BY <1>2, ServedEnds DEF ClientServed
<1>4. /\ url \in Urls /\ x \in Clients /\ node \in Seq(Units)
      /\ \E m \in 0..Len(node) :
            /\ got'[x] = SubSeq(node, 1, m)
            /\ \/ outcome' = outcome
               \/ /\ outcome' = [outcome EXCEPT ![x] = "complete"]
                  /\ m = Len(node) /\ Flagged(url)
  BY <1>2, ServedGets DEF Calm
<1>5. PICK m \in 0..Len(node) :
            /\ got'[x] = SubSeq(node, 1, m)
            /\ \/ outcome' = outcome
               \/ /\ outcome' = [outcome EXCEPT ![x] = "complete"]
                  /\ m = Len(node) /\ Flagged(url)
  BY <1>4
<1>6. PICK f, n :
        /\ n \in Nat /\ node = Prefix(f, url, n)
        /\ Flagged(url) => n = RespLen /\ f \in 1..Len(fetched) /\ fetched[f] = url
  BY <1>1, <1>2, <1>3, <1>4, PageIsOneFetch
<1>7. /\ Len(node) = n /\ \A i \in 1..n : node[i] = Unit(f, url, i)
      /\ n <= RespLen /\ RespLen \in Nat /\ RespLen > 0 /\ RespLen' = RespLen
  <2>1. Len(node) <= RespLen
    BY <1>1, <1>2, <1>3, <1>4, PageFits
  <2>2. RespLen \in Nat /\ RespLen > 0 /\ RespLen' = RespLen
    BY SurroundingsStay DEF Calm, HonestOrigins
  <2>3. QED
    BY <1>6, <2>1, <2>2, PrefixIsSeq
<1>8. /\ got[x] \in Seq(Units) /\ got'[x] \in Seq(Units) /\ Len(got[x]) <= Len(got'[x])
      /\ Len(got[x]) \in Nat
  <2>1. got[x] \in Seq(Units) /\ got'[x] \in Seq(Units) /\ Len(got[x]) <= Len(got'[x])
    BY ServedKeeps DEF Calm
  <2>2. QED
    BY <2>1, LenProperties
<1>9. m \in Nat /\ m <= n /\ Len(got'[x]) = m /\ \A i \in 1..m : got'[x][i] = Unit(f, url, i)
  <2>1. Len(SubSeq(node, 1, m)) = m /\ \A i \in 1..m : SubSeq(node, 1, m)[i] = node[i]
    BY <1>4, <1>5, SubSeqProperties
  <2>2. \A i \in 1..m : i \in 1..n
    BY <1>5, <1>6, <1>7
  <2>3. QED
    BY <1>5, <1>7, <2>1, <2>2
<1>10. PICK old, new : old = got[x] /\ new = got'[x]
  OBVIOUS
<1>11. Seen(new) = Page!PagePrefix(url, m)
  <2>1. new \in Seq(Units) /\ m \in Nat /\ Len(new) = m /\ \A i \in 1..m : new[i] = Unit(f, url, i)
    BY <1>8, <1>9, <1>10
  <2>2. QED
    BY <2>1, SeenPrefix
<1>12. Len(Seen(old)) = Len(old)
  <2>1. DOMAIN old = 1..Len(old)
    BY <1>8, <1>10, LenProperties
  <2>2. QED
    BY <1>8, <1>10, <2>1 DEF Seen
<1>13. SeenOf' = [SeenOf EXCEPT ![x] = Seen(new)]
  <2>1. \A c \in Clients : c # x => got'[c] = got[c]
    BY OthersGetNothing DEF Calm
  <2>2. QED
    BY <1>4, <1>10, <2>1 DEF SeenOf
<1>14. outcome[x] = "none" /\ outcome \in [Clients -> Outcomes]
  BY <1>1 DEF Calm, NoneYet, IInv, Types
<1>15. EndsOf[x] = "none"
  BY <1>4, <1>14 DEF EndsOf, EndSeen
<1>16. CASE url \in OkUrls
  <2>1. \/ EndsOf' = EndsOf
        \/ m = RespLen /\ EndsOf' = [EndsOf EXCEPT ![x] = "complete"]
    <3>1. CASE outcome' = outcome
      BY <3>1 DEF EndsOf
    <3>2. CASE outcome' = [outcome EXCEPT ![x] = "complete"] /\ m = Len(node) /\ Flagged(url)
      <4>1. m = RespLen
        BY <1>6, <1>7, <3>2
      <4>2. EndsOf' = [EndsOf EXCEPT ![x] = "complete"]
        BY <1>4, <1>14, <3>2 DEF EndsOf, EndSeen
      <4>3. QED
        BY <4>1, <4>2
    <3>3. QED
      BY <1>5, <3>1, <3>2
  <2>2. m \in Len(Seen(old))..RespLen
    BY <1>7, <1>8, <1>9, <1>10, <1>12
  <2>3. SeenOf[x] = Seen(old)
    BY <1>4, <1>10 DEF SeenOf
  <2>4. Page!Send(x)
    BY <1>3, <1>7, <1>11, <1>13, <1>15, <1>16, <2>1, <2>2, <2>3 DEF Page!Send, SeenOf, EndsOf, EndSeen
  <2>5. QED
    BY <2>4 DEF ServesAsPromised
<1>17. CASE url \notin OkUrls
  <2>1. node = <<>>
    <3>1. CASE contains(url)
      <4>1. cacheMap[url] = node /\ url \in DOMAIN cacheMap
        BY <1>2, <3>1 DEF contains, nodeData
      <4>2. node # <<>> /\ node[1].req \in OkUrls
        BY <4>1 DEF CachedPagesAreOk
      <4>3. Len(node) # 0
        BY <1>4, <4>2, EmptySeq
      <4>4. node[1] = Unit(f, url, 1)
        BY <1>6, <1>7, <4>3
      <4>5. QED
        BY <1>17, <4>2, <4>4 DEF Unit
    <3>2. CASE ~contains(url)
      BY <1>2, <3>2 DEF contains, nodeData
    <3>3. QED
      BY <3>1, <3>2
  <2>2. n = 0 /\ m = 0
    <3>1. Len(node) = 0
      BY <2>1
    <3>2. QED
      BY <1>7, <1>9, <3>1
  <2>3. got[x] = <<>> /\ got'[x] = <<>>
    BY <1>8, <1>9, <2>2, EmptySeq
  <2>4. outcome' = outcome
    BY <1>5, <1>6, <1>7, <2>2
  <2>5. QED
    BY <1>3, <2>3, <2>4 DEF ServesAsPromised
<1>18. QED
  BY <1>16, <1>17

\* A client that goes before its page is whole is refused.
LEMMA GoneIsRefused ==
  ASSUME Calm, Settled, [Next]_vars, MaxBlocks = 0,
         ClientGoes, NEW x, x = client.buffer, Sole(request[x]), request[x] \in Urls
  PROVE  ServesAsPromised(x)
<1>1. got[x] = <<>> /\ outcome'[x] # "complete" /\ request' = request /\ got' = got
  BY GoneEnds, ClientGoing DEF Calm
<1>2. RespLen' = RespLen
  BY SurroundingsStay
<1>3. Running /\ it \in 1..Len(clientConnections) /\ client = clientConnections[it]
  BY WhyClientsGo
<1>4. x \in Clients /\ outcome[x] = "none" /\ outcome \in [Clients -> Outcomes]
  BY <1>3, WhenRunning DEF ConnectionsOpen, Calm, NoneYet, IInv, Types
<1>5. outcome' = outcome \/ \E how \in Outcomes : outcome' = [outcome EXCEPT ![x] = how]
  BY OutcomesStay DEF Calm
<1>6. CASE outcome'[x] = "none"
  BY <1>1, <1>4, <1>6 DEF ServesAsPromised
<1>7. CASE outcome'[x] # "none"
  <2>1. PICK how \in {"dropped", "error"} : outcome' = [outcome EXCEPT ![x] = how]
    BY <1>1, <1>4, <1>5, <1>7 DEF Outcomes
  <2>2. EndsOf' = [EndsOf EXCEPT ![x] = "error"] /\ EndsOf[x] = "none"
    BY <1>4, <2>1 DEF EndsOf, EndSeen
  <2>3. SeenOf' = SeenOf /\ SeenOf[x] = <<>>
    BY <1>1, <1>4 DEF SeenOf, Seen
  <2>4. request[x] # NoUrl
    BY NetworkAssumption
  <2>5. Page!Refuse(x)
    BY <1>1, <1>2, <2>2, <2>3, <2>4 DEF Page!Refuse, SeenOf, EndsOf, EndSeen
  <2>6. QED
    BY <2>5 DEF ServesAsPromised
<1>8. QED
  BY <1>6, <1>7

\* Every step keeps the promise to every such client.
LEMMA StepServes ==
  ASSUME Calm, Settled, ResponsesBounded, CachedPagesAreOk, IInv', [Next]_vars, MaxBlocks = 0,
         NEW x \in Clients, NEW asked \in Urls, asked = request'[x], Sole(asked)'
  PROVE  ServesAsPromised(x)
<1>1. Sole(asked)
  BY SoleBefore DEF Calm
<1>2. CASE request'[x] # request[x]
  <2>1. request[x] = NoUrl /\ Outside
    BY <1>2, RequestsStay, LoopAsksNothing DEF Calm
  <2>2. PICK c \in Clients : ClientConnect(c)
    BY <1>2, <2>1 DEF Outside, ClientStep, OriginStep, ClientSend, ClientRead, ClientLeaves,
       OriginAccept, OriginSend, OriginClose, OriginReset
  <2>3. request \in [Clients -> Urls \cup {Malformed, NoUrl}]
    BY DEF Calm, IInv, Types
  <2>4. PICK r : request' = [request EXCEPT ![c] = r]
    BY <2>2 DEF ClientConnect
  <2>5. x = c /\ r = asked
    BY <1>2, <2>3, <2>4
  <2>6. got' = got /\ outcome' = outcome /\ RespLen' = RespLen
    BY <2>2, SurroundingsStay DEF ClientConnect
  <2>7. Page!Ask(x)
    BY <2>1, <2>4, <2>5, <2>6 DEF Page!Ask
  <2>8. QED
    BY <2>7 DEF ServesAsPromised
<1>3. CASE request'[x] = request[x] /\ ClientServed /\ x = client.buffer
  BY <1>1, <1>3, ServedIsSend
<1>4. CASE request'[x] = request[x] /\ ClientGoes /\ x = client.buffer
  BY <1>1, <1>4, GoneIsRefused
<1>5. CASE request'[x] = request[x] /\ ~((ClientServed \/ ClientGoes) /\ x = client.buffer)
  <2>1. got'[x] = got[x]
    BY <1>5, OthersGetNothing DEF Calm
  <2>2. outcome'[x] = outcome[x]
    <3>1. CASE outcome' = outcome
      BY <3>1
    <3>2. CASE outcome' # outcome
      <4>1. (ClientServed \/ ClientGoes) /\ \E h : outcome' = [outcome EXCEPT ![client.buffer] = h]
        BY <3>2, OutcomesStay DEF Calm
      <4>2. outcome \in [Clients -> Outcomes] /\ x # client.buffer
        BY <1>5, <4>1 DEF Calm, IInv, Types
      <4>3. QED
        BY <4>1, <4>2
    <3>3. QED
      BY <3>1, <3>2
  <2>3. QED
    BY <1>5, <2>1, <2>2 DEF ServesAsPromised
<1>6. QED
  BY <1>2, <1>3, <1>4, <1>5

\* The promise starts with nobody served.
LEMMA InitServes == Init => Page!Init
BY NetworkAssumption DEF Init, NetInit, Page!Init, Seen

(***************************************************************************)
(* The loop implements Delivery step by step for every client whose page   *)
(* was fetched once, whatever the other clients and fetches do: where      *)
(* clients stay and send nothing behind their requests and origins answer  *)
(* in full, with signals, fetches that cannot start and requests in any    *)
(* pieces, and no send() that ends with EWOULDBLOCK.                       *)
(***************************************************************************)
THEOREM PromisesAreKept ==
  Spec /\ Faultless({"clientLeaves", "sendsOn", "emptyResponse", "originFails"}) /\ MaxBlocks = 0
      => KeepsEachPromise
<1>1. \A url \in Urls : IInv /\ FetchedOnce(url) => Sole(url)
  BY SoleIsSole
<1>2. (\A url \in Urls : IInv /\ FetchedOnce(url) => Sole(url))'
  BY <1>1, PTL
<1>3. IInv /\ IInv' /\ AsksForItsPage /\ SentInv /\ HonestInv /\ SoleInv /\ StoredInv /\ MaxBlocks = 0 /\ [Next]_vars
      => \A c \in Clients :
            (request[c] \in Urls /\ FetchedOnce(request[c]))' => ServesAsPromised(c)
  <2> SUFFICES ASSUME IInv, IInv', AsksForItsPage, SentInv, HonestInv, SoleInv, StoredInv, MaxBlocks = 0,
                      [Next]_vars, NEW c \in Clients, (request[c] \in Urls /\ FetchedOnce(request[c]))'
               PROVE  ServesAsPromised(c)
    OBVIOUS
  <2>1. PICK asked \in Urls : asked = request'[c]
    OBVIOUS
  <2>2. Sole(asked)'
    <3>1. FetchedOnce(asked)'
      BY <2>1 DEF FetchedOnce, SoleFetch, FetchesOf
    <3>2. QED
      BY <1>2, <3>1
  <2>3. Calm /\ Settled /\ ResponsesBounded /\ CachedPagesAreOk
    BY DEF HonestInv, SoleInv, StoredInv, Calm
  <2>4. QED
    BY <2>1, <2>2, <2>3, StepServes
<1>4. MaxBlocks = 0 /\ [Next]_vars => (MaxBlocks = 0)'
  OBVIOUS
<1>5. QED
  BY <1>3, <1>4, InitServes, FewerFaults, InvariantHolds, ClientsAskForTheirPage, SentInOrder, HonestInvHolds,
     SoleInvHolds, StoredInvHolds, PTL DEF Spec, KeepsEachPromise
=============================================================================
