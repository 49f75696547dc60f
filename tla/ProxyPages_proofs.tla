-------------------------- MODULE ProxyPages_proofs --------------------------
(***************************************************************************)
(* Proofs about what the event loop of Proxy does with pages: what is in   *)
(* the cache, what clients ask and are sent, and what is left when the     *)
(* program stops.  Most of the lemmas say what a step leaves alone.        *)
(***************************************************************************)
EXTENDS Proxy_proofs

(***************************************************************************)
(* Which nodes a step may write.                                           *)
(***************************************************************************)
Kept(url) ==
    /\ url \in DOMAIN cacheMap' /\ cacheMap'[url] = cacheMap[url]
    /\ url \in DOMAIN cacheReady' /\ cacheReady'[url]

\* The steps that call nothing of the cache.
LEMMA CacheUntouched ==
  ASSUME [Next]_vars,
         ~ClientServed, ~ClientSendFails, ~ClientStartsFetch,
         ~ServerReceivesData, ~ServerReceivesEnd
  PROVE  UNCHANGED cacheVars
<1>1. CASE Poll \/ addNewConnection
  BY <1>1 DEF Poll, addNewConnection
<1>2. CASE checkClientsConnections
  BY <1>2 DEF checkClientsConnections, ClientIdle, ClientHungUp, ClientToldError, ClientReceivesEnd,
     ClientReceivesPart, ClientReceivesMalformed, ClientAsksForCached, ClientFetchFails, ClientsDone
<1>3. CASE checkServerConnections
  BY <1>3 DEF checkServerConnections, ServerIdle, ServerHungUp, ServerReceivesBadStatus,
     ServerReceiveFails, ServerFails, ServerSendsRequest, ServerSendFails, ServerReadsFreedBuffer,
     RoundDone, stop
<1>4. CASE Outside \/ (Running /\ (Interrupt \/ InterruptPoll)) \/ UNCHANGED vars
  BY <1>4 DEF Outside, ProgramVars, Interrupt, InterruptPoll, stop, vars
<1>5. QED
  BY <1>1, <1>2, <1>3, <1>4 DEF Next, Program

\* No step writes the node of a page that is whole and not fetched.
LEMMA FinalNodeIsKept ==
  ASSUME IInv, [Next]_vars, NEW url \in Urls,
         cacheNodeReady(url), ~BeingFetched(url)
  PROVE  Kept(url)
<1>1. url \in DOMAIN cacheMap /\ url \in DOMAIN cacheReady /\ cacheReady[url]
  BY DEF cacheNodeReady, contains
<1>2. CASE UNCHANGED cacheVars
  BY <1>1, <1>2 DEF cacheVars, Kept
<1>3. CASE ClientServed \/ ClientSendFails
  <2>1. getCurrentData(client.URl) /\ cacheReady' = cacheReady
    BY <1>3 DEF ClientServed, ClientSendFails
  <2>2. QED
    BY <1>1, <2>1 DEF getCurrentData, Assign, nodeData, contains, Kept
<1>4. CASE ClientStartsFetch
  <2>1. PICK v : ~contains(v) /\ setNodeReady(v, FALSE) /\ cacheMap' = cacheMap
    BY <1>4 DEF ClientStartsFetch
  <2>2. v # url
    BY <1>1, <2>1 DEF contains
  <2>3. QED
    BY <1>1, <2>1, <2>2 DEF setNodeReady, Assign, Kept
<1>5. CASE ServerReceivesData \/ ServerReceivesEnd
  <2>1. ServerTurn
    BY <1>5 DEF ServerReceivesData, ServerReceivesEnd, ServerReadable
  <2>2. server.URl # url
    BY <2>1, ServerAtTurn, TableFacts DEF BeingFetched, server
  <2>3. CASE ServerReceivesData
    <3>1. PICK data : addData(server.URl, data) /\ cacheReady' = cacheReady
      BY <2>3 DEF ServerReceivesData
    <3>2. QED
      BY <1>1, <2>2, <3>1 DEF addData, Assign, Kept
  <2>4. CASE ServerReceivesEnd
    <3>1. setNodeReady(server.URl, TRUE) /\ cacheMap' = cacheMap
      BY <2>4 DEF ServerReceivesEnd
    <3>2. QED
      BY <1>1, <2>2, <3>1 DEF setNodeReady, Assign, Kept
  <2>5. QED
    BY <1>5, <2>3, <2>4
<1>6. QED
  BY <1>2, <1>3, <1>4, <1>5, CacheUntouched

(***************************************************************************)
(* A page that is whole and that nobody fetches is settled for good,       *)
(* whatever clients of it and fetches of other pages do (lines 286-292).   *)
(***************************************************************************)
THEOREM WholeNodesAreSettled == Spec => WholeNodeIsFinal
<1> DEFINE Settled ==
        \A url \in Urls :
            cacheNodeReady(url) /\ ~BeingFetched(url) =>
                /\ url \in DOMAIN cacheMap' /\ cacheMap'[url] = cacheMap[url]
                /\ url \in DOMAIN cacheReady' /\ cacheReady'[url]
<1>1. IInv /\ [Next]_vars => [Settled]_vars
  BY FinalNodeIsKept DEF Kept
<1>2. QED
  BY <1>1, InvariantHolds, PTL DEF Spec, WholeNodeIsFinal

(***************************************************************************)
(* What faults there are is settled at the start.                          *)
(***************************************************************************)
LEMMA SurroundingsStay ==
  ASSUME [Next]_vars
  PROVE  faults' = faults /\ limit' = limit /\ RespLen' = RespLen
<1>1. CASE Poll \/ addNewConnection
  BY <1>1 DEF Poll, addNewConnection, histVars, surroundings
<1>2. CASE checkClientsConnections
  BY <1>2 DEF checkClientsConnections, ClientIdle, ClientHungUp, ClientToldError, ClientServed,
     ClientSendFails, ClientReceivesEnd, ClientReceivesPart, ClientReceivesMalformed,
     ClientAsksForCached, ClientStartsFetch, ClientFetchFails, ClientsDone, histVars, surroundings
<1>3. CASE checkServerConnections
  BY <1>3 DEF checkServerConnections, ServerIdle, ServerHungUp, ServerReceivesData,
     ServerReceivesBadStatus, ServerReceivesEnd, ServerReceiveFails, ServerFails,
     ServerSendsRequest, ServerSendFails, ServerReadsFreedBuffer, RoundDone, stop,
     histVars, surroundings
<1>4. CASE Outside \/ (Running /\ (Interrupt \/ InterruptPoll)) \/ UNCHANGED vars
  BY <1>4 DEF Outside, ProgramVars, Interrupt, InterruptPoll, stop, vars, histVars, surroundings
<1>5. QED
  BY <1>1, <1>2, <1>3, <1>4 DEF Next, Program

Faultless(kinds) == \A around \in Surroundings : around.faults \cap kinds = {}

-----------------------------------------------------------------------------
(***************************************************************************)
(* A turn touches what belongs to its own connection.                      *)
(***************************************************************************)
Reads == ClientReceivesPart \/ ClientAsksForCached \/ ClientStartsFetch

ClientGoes ==
    \/ ClientHungUp \/ ClientToldError \/ ClientSendFails \/ ClientReceivesEnd \/ ClientFetchFails

ServerGoes ==
    \/ ServerHungUp \/ ServerReceivesBadStatus \/ ServerReceivesEnd \/ ServerReceiveFails
    \/ ServerSendFails

\* The steps that only move the loop on.
Moves ==
    \/ ClientIdle \/ ClientReceivesMalformed \/ ClientsDone
    \/ ServerIdle \/ ServerReadsFreedBuffer \/ Poll
    \/ (RoundDone /\ pc' = "poll") \/ (Running /\ Interrupt) \/ UNCHANGED vars

\* The steps, by what they do.
LEMMA Steps ==
  ASSUME [Next]_vars
  PROVE  \/ Outside \/ Moves \/ addNewConnection \/ Reads \/ ClientServed \/ ClientGoes
         \/ ServerReceivesData \/ ServerSendsRequest \/ ServerGoes
         \/ (Running /\ stop)
<1>1. CASE RoundDone
  <2>1. CASE pc' = "poll"
    BY <1>1, <2>1 DEF Moves
  <2>2. CASE pc' # "poll"
    BY <1>1, <2>2 DEF RoundDone, Running
  <2>3. QED
    BY <2>1, <2>2
<1>2. CASE Running /\ (Interrupt \/ InterruptPoll)
  BY <1>2 DEF Moves, InterruptPoll
<1>3. QED
  BY <1>1, <1>2 DEF Next, Program, checkClientsConnections, checkServerConnections,
     Moves, Reads, ClientGoes, ServerGoes

\* A step that only moves the loop on changes the events it has seen, at most.
LEMMA MovingOn ==
  ASSUME Moves
  PROVE  UNCHANGED <<netVars, cacheVars, clientConnections, serverConnections, fdVars,
                     fetched, wouldBlocks>>
BY DEF Moves, ClientIdle, ClientReceivesMalformed, ClientsDone, ServerIdle, ServerReadsFreedBuffer,
       Poll, RoundDone, stop, Interrupt, vars, tableVars, histVars

\* A client that goes is removed; what else happens is a socket left open.
LEMMA ClientGoing ==
  ASSUME IInv, ClientGoes
  PROVE  /\ ClientTurn
         /\ UNCHANGED <<backlog, request, sent, got, pc, fetched, wouldBlocks>>
         /\ \E sockets, how :
                /\ sockets = sock \/ (/\ FreeDescriptors # {}
                                      /\ sockets = Assign(sock, NewDescriptor, ServerSocket(0))
                                      /\ faults \cap {"resolveFails", "connectFails"} # {})
                /\ removeClientConnection(it, sockets, how)
<1>1. ClientTurn
  BY DEF ClientGoes, ClientHungUp, ClientToldError, ClientSendFails, ClientReceivesEnd,
         ClientFetchFails, ClientWritable, ClientReadable, ReceivesRequest, Receives
<1>2. UNCHANGED <<backlog, request, sent, got, pc, fetched, wouldBlocks>>
  BY DEF ClientGoes, ClientHungUp, ClientToldError, ClientSendFails, ClientReceivesEnd,
         ClientFetchFails, peerVars, turnVars, histVars
<1>3. \E sockets, how :
                /\ sockets = sock \/ (/\ FreeDescriptors # {}
                                      /\ sockets = Assign(sock, NewDescriptor, ServerSocket(0))
                                      /\ faults \cap {"resolveFails", "connectFails"} # {})
                /\ removeClientConnection(it, sockets, how)
  <2>1. CASE ClientFetchFails
    BY <2>1 DEF ClientFetchFails
  <2>2. CASE ~ClientFetchFails
    BY <2>2 DEF ClientGoes, ClientHungUp, ClientToldError, ClientSendFails, ClientReceivesEnd
  <2>3. QED
    BY <2>1, <2>2
<1>4. QED
  BY <1>1, <1>2, <1>3

\* A fetch that ends is removed, its clients woken unless it hung up.
LEMMA ServerGoing ==
  ASSUME IInv, ServerGoes
  PROVE  /\ ServerTurn
         /\ UNCHANGED <<backlog, request, sent, got, outcome, pc, heap, cacheOffsets, cacheMap,
                        fetched, wouldBlocks>>
         /\ \E table \in {pollFds, prepareClientsToWrite(server.URl)} :
                removeServerConnection(it, table)
         /\ ~ServerHungUp => removeServerConnection(it, prepareClientsToWrite(server.URl))
<1>1. CASE ServerHungUp
  BY <1>1 DEF ServerHungUp, peerVars, turnVars, histVars, cacheVars, fdVars
<1>2. CASE ServerReceivesEnd
  BY <1>2 DEF ServerReceivesEnd, ServerReadable, peerVars, turnVars, histVars, fdVars
<1>3. CASE ServerReceivesBadStatus \/ ServerReceiveFails \/ ServerSendFails
  <2>1. ServerTurn /\ \E message : ServerFails(message)
    BY <1>3 DEF ServerReceivesBadStatus, ServerReceiveFails, ServerSendFails, ServerReadable,
                ServerWritable
  <2>2. removeServerConnection(it, prepareClientsToWrite(server.URl))
    BY <2>1 DEF ServerFails
  <2>3. UNCHANGED <<backlog, request, sent, got, outcome, pc, heap, cacheOffsets, cacheMap,
                    fetched, wouldBlocks>>
    BY <2>1 DEF ServerFails, peerVars, turnVars, histVars, cacheVars
  <2>4. QED
    BY <2>1, <2>2, <2>3
<1>4. QED
  BY <1>1, <1>2, <1>3 DEF ServerGoes

\* A socket changes in its own connection's turn only, if nothing happens outside.
LEMMA SocketsStay ==
  ASSUME IInv, [Next]_vars, NEW fd \in DOMAIN sock, fd \in DOMAIN sock', ~Outside,
         Reads \/ ClientServed => fd # client.socketFd,
         ServerReceivesData \/ ServerSendsRequest => fd # server.socketFd
  PROVE  sock'[fd] = sock[fd]
<1>1. CASE Moves
  BY <1>1, MovingOn DEF netVars
<1>2. CASE addNewConnection
  <2>1. sock' = sock \/ (FreeDescriptors # {} /\ \E c : sock' = Assign(sock, NewDescriptor, ClientSocket(c)))
    BY <1>2 DEF addNewConnection
  <2>2. FreeDescriptors # {} => NewDescriptor # fd
    BY <1>2, NewDescriptorIsNew DEF addNewConnection, Running
  <2>3. QED
    BY <2>1, <2>2 DEF Assign
<1>3. CASE Reads
  <2>1. ClientTurn
    BY <1>3 DEF Reads, ClientReceivesPart, ClientAsksForCached, ClientStartsFetch, ReceivesRequest,
                Receives, ClientReadable
  <2>2. PICK n : \/ sock' = Received(client.socketFd, n)
                 \/ /\ FreeDescriptors # {}
                    /\ \E s : sock' = Assign(Received(client.socketFd, n), NewDescriptor, s)
    BY <1>3 DEF Reads, ClientReceivesPart, ClientAsksForCached, ClientStartsFetch
  <2>3. fd # client.socketFd
    BY <1>3
  <2>4. Received(client.socketFd, n)[fd] = sock[fd] /\ fd \in DOMAIN Received(client.socketFd, n)
    BY <2>3 DEF Received
  <2>5. FreeDescriptors # {} => NewDescriptor # fd
    BY <2>1, ClientAtTurn, NewDescriptorIsNew
  <2>6. QED
    BY <2>2, <2>4, <2>5 DEF Assign
<1>4. CASE ClientServed
  <2>1. PICK k : \/ \E sockets, how : /\ removeClientConnection(it, sockets, how)
                                      /\ sockets = [sock EXCEPT ![client.socketFd].txq = k]
                 \/ sock' = [sock EXCEPT ![client.socketFd].txq = k]
    BY <1>4 DEF ClientServed
  <2>2. fd # client.socketFd
    BY <1>4
  <2>3. QED
    BY ZenonT(30), <2>1, <2>2 DEF removeClientConnection, removeConnection, Erase
<1>5. CASE ClientGoes
  <2>1. PICK sockets, how :
            /\ sockets = sock \/ (/\ FreeDescriptors # {}
                                  /\ sockets = Assign(sock, NewDescriptor, ServerSocket(0)))
            /\ removeClientConnection(it, sockets, how)
    BY <1>5, ClientGoing
  <2>2. FreeDescriptors # {} => NewDescriptor # fd
    BY <1>5, ClientGoing, ClientAtTurn, NewDescriptorIsNew
  <2>3. sockets[fd] = sock[fd]
    BY <2>1, <2>2 DEF Assign
  <2>4. QED
    BY <2>1, <2>3 DEF removeClientConnection, removeConnection, Erase
<1>6. CASE ServerReceivesData \/ ServerSendsRequest
  <2>1. fd # server.socketFd
    BY <1>6
  <2>2. CASE ServerReceivesData
    BY <2>1, <2>2 DEF ServerReceivesData, Received
  <2>3. CASE ServerSendsRequest
    <3>1. PICK r : sock' = [sock EXCEPT ![server.socketFd].req = r]
      BY <2>3 DEF ServerSendsRequest
    <3>2. QED
      BY <2>1, <3>1
  <2>4. QED
    BY <1>6, <2>2, <2>3
<1>7. CASE ServerGoes
  <2>1. PICK table : removeServerConnection(it, table)
    BY <1>7, ServerGoing
  <2>2. QED
    BY <2>1 DEF removeServerConnection, removeConnection, Erase
<1>8. CASE stop
  BY <1>8 DEF stop
<1>9. QED
  BY <1>1, <1>2, <1>3, <1>4, <1>5, <1>6, <1>7, <1>8, Steps

\* The buffers, the offsets, and what has been sent to and by the clients.
LEMMA BuffersStay ==
  ASSUME IInv, [Next]_vars, NEW b \in DOMAIN heap, b \in DOMAIN heap', Running,
         Reads => b # client.buffer
  PROVE  heap'[b] = heap[b]
<1>1. CASE Moves \/ Outside
  BY <1>1, MovingOn DEF fdVars, Outside, ProgramVars
<1>2. CASE addNewConnection
  <2>1. heap' = heap \/ heap' = Assign(heap, Head(backlog), 0)
    BY <1>2 DEF addNewConnection, fdVars
  <2>2. Head(backlog) # b
    <3>1. backlog \in Seq(Clients) /\ backlog # <<>>
      BY <1>2 DEF addNewConnection, IInv, Types
    <3>2. Head(backlog) = backlog[1] /\ 1 \in 1..Len(backlog)
      BY <3>1, HeadTailProperties, LenProperties, EmptySeq
    <3>3. QED
      BY <3>2 DEF IInv, Known, BuffersOf
  <2>3. QED
    BY <2>1, <2>2 DEF Assign
<1>3. CASE Reads
  <2>1. PICK k : heap' = [heap EXCEPT ![client.buffer] = k]
    BY <1>3 DEF Reads, ClientReceivesPart, ClientAsksForCached, ClientStartsFetch
  <2>2. QED
    BY <1>3, <2>1
<1>4. CASE ClientServed \/ ClientGoes
  <2>1. heap' = heap \/ \E sockets, how : removeClientConnection(it, sockets, how)
    BY <1>4, ClientGoing DEF ClientServed
  <2>2. QED
    BY <2>1 DEF removeClientConnection, deleteBuffer, Erase
<1>5. CASE ServerReceivesData \/ ServerSendsRequest
  BY <1>5 DEF ServerReceivesData, ServerSendsRequest, fdVars
<1>6. CASE ServerGoes
  BY <1>6, ServerGoing
<1>7. CASE stop
  BY <1>7 DEF stop
<1>8. QED
  BY <1>1, <1>2, <1>3, <1>4, <1>5, <1>6, <1>7, Steps

\* An offset changes in its own client's turn only.
LEMMA OffsetsStay ==
  ASSUME IInv, [Next]_vars, NEW fd \in DOMAIN cacheOffsets, fd \in DOMAIN cacheOffsets',
         ClientServed => fd # client.socketFd
  PROVE  cacheOffsets'[fd] = cacheOffsets[fd]
<1>1. CASE Moves \/ Outside
  BY <1>1, MovingOn DEF fdVars, Outside, ProgramVars
<1>2. CASE addNewConnection
  <2>1. \/ cacheOffsets' = cacheOffsets
        \/ FreeDescriptors # {} /\ cacheOffsets' = Assign(cacheOffsets, NewDescriptor, 0)
    BY <1>2 DEF addNewConnection, fdVars
  <2>2. FreeDescriptors # {} => NewDescriptor # fd
    <3>1. PICK i \in 1..Len(clientConnections) : fd = clientConnections[i].socketFd
      BY DEF IInv, FdsOf
    <3>2. \E p \in 1..Len(pollFds) : pollFds[p].fd = fd
      BY <3>1, TableFacts
    <3>3. QED
      BY <1>2, <3>2, NewDescriptorIsNew DEF addNewConnection, Running
  <2>3. QED
    BY <2>1, <2>2 DEF Assign
<1>3. CASE Reads
  BY <1>3 DEF Reads, ClientReceivesPart, ClientAsksForCached, ClientStartsFetch
<1>4. CASE ClientServed \/ ClientGoes
  <2>1. \/ \E offset : ClientServed /\ cacheOffsets' = [cacheOffsets EXCEPT ![client.socketFd] = offset]
        \/ \E sockets, how : removeClientConnection(it, sockets, how)
    BY <1>4, ClientGoing DEF ClientServed
  <2>2. QED
    BY <2>1 DEF removeClientConnection, Erase
<1>5. CASE ServerReceivesData \/ ServerSendsRequest
  BY <1>5 DEF ServerReceivesData, ServerSendsRequest, fdVars
<1>6. CASE ServerGoes
  BY <1>6, ServerGoing
<1>7. CASE stop
  BY <1>7 DEF stop
<1>8. QED
  BY <1>1, <1>2, <1>3, <1>4, <1>5, <1>6, <1>7, Steps

\* Nothing is sent to a client outside a turn of ClientServed.
LEMMA NothingSent ==
  ASSUME IInv, [Next]_vars, ~ClientServed
  PROVE  got' = got /\ wouldBlocks' = wouldBlocks
<1>1. CASE Moves
  BY <1>1, MovingOn DEF netVars
<1>2. CASE Outside
  BY <1>2 DEF Outside, ProgramVars, histVars, ClientStep, OriginStep, ClientConnect, ClientSend,
     ClientRead, ClientLeaves, OriginAccept, OriginSend, OriginClose, OriginReset
<1>3. CASE addNewConnection \/ Reads
  BY <1>3 DEF addNewConnection, Reads, ClientReceivesPart, ClientAsksForCached, ClientStartsFetch,
     peerVars, histVars
<1>4. CASE ClientGoes
  BY <1>4, ClientGoing
<1>5. CASE ServerReceivesData \/ ServerSendsRequest
  BY <1>5 DEF ServerReceivesData, ServerSendsRequest, peerVars, histVars
<1>6. CASE ServerGoes
  BY <1>6, ServerGoing
<1>7. CASE stop
  BY <1>7 DEF stop, peerVars, histVars
<1>8. QED
  BY <1>1, <1>2, <1>3, <1>4, <1>5, <1>6, <1>7, Steps

\* A turn of ClientServed sends to one client.
LEMMA OthersGetNothing ==
  ASSUME IInv, [Next]_vars, NEW c, ClientServed => c # client.buffer
  PROVE  got'[c] = got[c] /\ wouldBlocks'[c] = wouldBlocks[c]
<1>1. CASE ClientServed
  <2>1. client.buffer = sock[client.socketFd].peer /\ c # client.buffer
    BY <1>1, ClientAtTurn DEF ClientServed, ClientWritable
  <2>2. /\ \E u : got' = [got EXCEPT ![sock[client.socketFd].peer] = u]
        /\ \E k : wouldBlocks' = [wouldBlocks EXCEPT ![sock[client.socketFd].peer] = k]
    BY <1>1 DEF ClientServed
  <2>3. QED
    BY <2>1, <2>2
<1>2. QED
  BY <1>1, NothingSent

\* Only the clients themselves connect and send.
LEMMA LoopAsksNothing ==
  ASSUME IInv, [Next]_vars, ~Outside
  PROVE  sent' = sent /\ request' = request
<1>1. CASE Moves
  BY <1>1, MovingOn DEF netVars
<1>2. CASE addNewConnection \/ Reads
  BY <1>2 DEF addNewConnection, Reads, ClientReceivesPart, ClientAsksForCached, ClientStartsFetch,
     peerVars
<1>3. CASE ClientServed \/ ClientGoes
  BY <1>3, ClientGoing DEF ClientServed
<1>4. CASE ServerReceivesData \/ ServerSendsRequest \/ ServerGoes
  BY <1>4, ServerGoing DEF ServerReceivesData, ServerSendsRequest, peerVars
<1>5. CASE stop
  BY <1>5 DEF stop, peerVars
<1>6. QED
  BY <1>1, <1>2, <1>3, <1>4, <1>5, Steps

-----------------------------------------------------------------------------
(***************************************************************************)
(* Where the connections of the next state come from.                      *)
(***************************************************************************)
entryOf(c) == pollFds[c.pollFdsIndex]

\* The turns that call prepareClientsToWrite.
Prepares == ServerReceivesData \/ (ServerGoes /\ ~ServerHungUp)

\* What prepareClientsToWrite does to the entries of clients and of fetches.
LEMMA PreparedEntries ==
  ASSUME IInv, NEW url \in Urls
  PROVE  /\ \A k \in 1..Len(clientConnections) :
                LET p == clientConnections[k].pollFdsIndex
                    e == prepareClientsToWrite(url)[p]
                IN  /\ e.events = IF clientConnections[k].URl = url THEN "OUT" ELSE pollFds[p].events
                    /\ e.revents = pollFds[p].revents
         /\ \A k \in 1..Len(serverConnections) :
                LET p == serverConnections[k].pollFdsIndex
                IN  prepareClientsToWrite(url)[p] = pollFds[p]
<1> DEFINE t == prepareClientsToWrite(url)
           Woken(p) == \E i \in ClientsOf(url) : clientConnections[i].pollFdsIndex = p
<1>1. \A p \in 1..Len(pollFds) :
        t[p] = IF Woken(p) THEN [pollFds[p] EXCEPT !.events = "OUT"] ELSE pollFds[p]
  BY TableFacts DEF prepareClientsToWrite
<1> HIDE DEF t
<1>2. ASSUME NEW k \in 1..Len(clientConnections), NEW p, p = clientConnections[k].pollFdsIndex
      PROVE  /\ t[p].events = IF clientConnections[k].URl = url THEN "OUT" ELSE pollFds[p].events
             /\ t[p].revents = pollFds[p].revents
  <2>1. p \in 1..Len(pollFds) /\ pollFds[p] \in Entry
    BY <1>2, TableFacts
  <2>2. Woken(p) <=> clientConnections[k].URl = url
    BY <1>2, TableFacts DEF ClientsOf, IInv, Linked, Apart
  <2>3. QED
    BY <1>1, <2>1, <2>2 DEF Entry
<1>3. ASSUME NEW k \in 1..Len(serverConnections), NEW p, p = serverConnections[k].pollFdsIndex
      PROVE  t[p] = pollFds[p]
  <2>1. p \in 1..Len(pollFds)
    BY <1>3, TableFacts
  <2>2. ~Woken(p)
    BY <1>3, TableFacts DEF ClientsOf, IInv, Linked, Disjoint
  <2>3. QED
    BY <1>1, <2>1, <2>2
<1>4. QED
  BY <1>2, <1>3 DEF t

\* Client connection d, whose entry is f, was the k-th, and why it may have
\* got another URL or other events.
Was(d, f, k) ==
    LET c == clientConnections[k]
        e == entryOf(c)
    IN  /\ d.socketFd = c.socketFd /\ d.buffer = c.buffer
        /\ \/ d.URl = c.URl
           \/ /\ k = it /\ d.URl = request[c.buffer] /\ f.revents = {}
              /\ (ClientAsksForCached /\ f.events = "OUT") \/ ClientStartsFetch
        /\ \/ f.events = e.events
           \/ f.events = "OUT" /\ Prepares /\ c.URl = server.URl
           \/ f.events = "OUT" /\ ClientAsksForCached /\ k = it /\ contains(d.URl)
           \/ f.events = "IN" /\ ClientServed /\ k = it /\ ~cacheNodeReady(c.URl)
        /\ \/ f.revents = e.revents \/ f.revents = {}
           \/ Poll /\ f.revents = ReadyEvents(c.socketFd, e.events) /\ f.events = e.events

\* It is a client that has just been accepted.
IsNew(d, f) ==
    /\ addNewConnection /\ FreeDescriptors # {}
    /\ d.socketFd = NewDescriptor /\ d.buffer = Head(backlog) /\ d.URl = NoUrl
    /\ f.events = "IN" /\ f.revents = {}

\* poll() reports events; it changes nothing else of a client.
LEMMA ClientsStay ==
  ASSUME IInv, Poll \/ UNCHANGED <<pollFds, clientConnections>>, NEW j \in 1..Len(clientConnections')
  PROVE  Was(clientConnections'[j], pollFds'[clientConnections'[j].pollFdsIndex], j)
<1>1. /\ j \in 1..Len(clientConnections) /\ clientConnections'[j] = clientConnections[j]
      /\ clientConnections[j].pollFdsIndex \in 1..Len(pollFds)
      /\ clientConnections[j].pollFdsIndex # ACCEPT_INDEX
      /\ pollFds[clientConnections[j].pollFdsIndex].fd = clientConnections[j].socketFd
      /\ DOMAIN pollFds = 1..Len(pollFds)
      /\ \A p \in 1..Len(pollFds) : pollFds[p] \in Entry
  BY TableFacts DEF Poll, ACCEPT_INDEX
<1>2. CASE UNCHANGED <<pollFds, clientConnections>>
  BY <1>1, <1>2 DEF Was, entryOf
<1>3. CASE Poll
  <2> DEFINE p == clientConnections[j].pollFdsIndex
             ready == ReadyEvents(pollFds[p].fd, pollFds[p].events)
  <2>1. pollFds'[p] = [pollFds[p] EXCEPT !.revents = ready]
    BY <1>1, <1>3 DEF Poll
  <2>2. pollFds'[p].events = pollFds[p].events /\ pollFds'[p].revents = ready
    BY <1>1, <2>1 DEF Entry
  <2>3. QED
    BY <1>1, <1>3, <2>2 DEF Was, entryOf
<1>4. QED
  BY <1>2, <1>3

\* A request gives one client its URL and changes no other.
LEMMA ClientsAsk ==
  ASSUME IInv, ClientAsksForCached \/ ClientStartsFetch, NEW j \in 1..Len(clientConnections')
  PROVE  Was(clientConnections'[j], pollFds'[clientConnections'[j].pollFdsIndex], j)
<1> DEFINE url == request[client.buffer]
           p == client.pollFdsIndex
           q == clientConnections[j].pollFdsIndex
<1>1. ClientTurn
  BY DEF ClientAsksForCached, ClientStartsFetch, ReceivesRequest, Receives, ClientReadable
<1>2. /\ it \in 1..Len(clientConnections) /\ p \in 1..Len(pollFds) /\ Running
      /\ \A k \in 1..Len(pollFds) : pollFds[k] \in Entry
      /\ DOMAIN pollFds = 1..Len(pollFds) /\ pollFds \in Seq(Entry)
      /\ client = clientConnections[it]
  BY <1>1, ClientAtTurn, TableFacts DEF client, IInv, Types
<1>3. /\ clientConnections' = Asking(url) /\ url # Malformed
      /\ \/ ClientAsksForCached /\ contains(url) /\ pollFds' = [pollFds EXCEPT ![p].revents = {}, ![p].events = "OUT"]
         \/ ClientStartsFetch /\ \E e : pollFds' = Append([pollFds EXCEPT ![p].revents = {}], e)
  BY <1>1, ClientAtTurn DEF ClientAsksForCached, ClientStartsFetch
<1>4. url \in Urls
  BY <1>1, <1>3, ClientAtTurn
<1>5. /\ Len(clientConnections') = Len(clientConnections)
      /\ clientConnections'[it].URl = url
      /\ SamePlaces(clientConnections', clientConnections)
      /\ \A i \in 1..Len(clientConnections) : i # it => clientConnections'[i] = clientConnections[i]
  BY <1>2, <1>3, <1>4, AskingIsTyped DEF SamePlaces
<1>6. /\ j \in 1..Len(clientConnections) /\ q \in 1..Len(pollFds)
      /\ clientConnections'[j].pollFdsIndex = q
      /\ clientConnections'[j].socketFd = clientConnections[j].socketFd
      /\ clientConnections'[j].buffer = clientConnections[j].buffer
      /\ q = p <=> j = it
  BY <1>2, <1>5, TableFacts DEF SamePlaces, IInv, Linked, Apart
<1>7. \/ j = it /\ clientConnections'[j].URl = request[clientConnections[j].buffer]
      \/ j # it /\ clientConnections'[j].URl = clientConnections[j].URl
  BY <1>2, <1>5, <1>6
<1>8. CASE ClientAsksForCached /\ contains(url) /\ pollFds' = [pollFds EXCEPT ![p].revents = {}, ![p].events = "OUT"]
  <2>1. CASE j = it
    <3>1. pollFds'[q].events = "OUT" /\ pollFds'[q].revents = {}
      BY <1>2, <1>6, <1>8, <2>1 DEF Entry
    <3>2. contains(clientConnections'[j].URl)
      BY <1>5, <1>8, <2>1
    <3>3. QED
      BY <1>6, <1>7, <1>8, <2>1, <3>1, <3>2 DEF Was, entryOf
  <2>2. CASE j # it
    <3>1. pollFds'[q] = pollFds[q]
      BY <1>2, <1>6, <1>8, <2>2
    <3>2. QED
      BY <1>6, <1>7, <1>8, <2>2, <3>1 DEF Was, entryOf
  <2>3. QED
    BY <2>1, <2>2
<1>9. CASE ClientStartsFetch /\ \E e : pollFds' = Append([pollFds EXCEPT ![p].revents = {}], e)
  <2> DEFINE t == [pollFds EXCEPT ![p].revents = {}]
  <2>1. PICK e : pollFds' = Append(t, e)
    BY <1>9
  <2>2. /\ t[q].events = pollFds[q].events
        /\ t[q].revents = IF j = it THEN {} ELSE pollFds[q].revents
        /\ Len(t) = Len(pollFds) /\ DOMAIN t = 1..Len(pollFds)
    BY <1>2, <1>6 DEF Entry
  <2> HIDE DEF t
  <2>3. pollFds'[q] = t[q]
    BY <1>6, <2>1, <2>2
  <2>4. QED
    BY <1>6, <1>7, <1>9, <2>2, <2>3 DEF Was, entryOf
<1>10. QED
  BY <1>3, <1>8, <1>9

\* Who is there after a removal was there before, and is not who went.
LEMMA ClientsOfRemoval ==
  ASSUME IInv, NEW sockets, NEW how, it \in 1..Len(clientConnections),
         removeClientConnection(it, sockets, how), NEW j \in 1..Len(clientConnections')
  PROVE  \E k \in 1..Len(clientConnections) :
            k # it /\ Was(clientConnections'[j], pollFds'[clientConnections'[j].pollFdsIndex], k)
<1>1. PICK i \in 1..Len(clientConnections) : i = it
  OBVIOUS
<1>2. removeClientConnection(i, sockets, how)
  BY <1>1 DEF removeClientConnection, deleteBuffer
<1>3. Survive(pollFds', clientConnections', pollFds, clientConnections, i)
  BY <1>2, ClientRemovalMoves
<1>4. PICK k \in 1..Len(clientConnections) :
        k # i /\ Follows(pollFds', clientConnections'[j], pollFds, clientConnections[k])
  BY <1>3 DEF Survive
<1>5. QED
  BY <1>1, <1>4 DEF Follows, SameConnection, Was, entryOf

\* A send() leaves clients and entries as they were, or watches for input.
LEMMA ClientsOfServed ==
  ASSUME IInv, ClientServed, NEW j \in 1..Len(clientConnections')
  PROVE  \E k \in 1..Len(clientConnections) :
            Was(clientConnections'[j], pollFds'[clientConnections'[j].pollFdsIndex], k)
<1>1. ClientTurn
  BY DEF ClientServed, ClientWritable
<1>2. it \in 1..Len(clientConnections) /\ client = clientConnections[it]
  BY <1>1, ClientAtTurn DEF client
<1> DEFINE p == client.pollFdsIndex
<1>3. \/ \E sockets : removeClientConnection(it, sockets, "complete")
      \/ \E offset :
          /\ clientConnections' = clientConnections
          /\ ~allDataHasBeenSent(cacheNodeReady(client.URl), offset, nodeData(client.URl))
          /\ pollFds' = [pollFds EXCEPT ![p].events =
                           IF ~cacheNodeReady(client.URl) \/ offset = Len(nodeData(client.URl))
                           THEN "IN" ELSE @]
  BY DEF ClientServed
<1>4. CASE \E sockets : removeClientConnection(it, sockets, "complete")
  BY <1>2, <1>4, ClientsOfRemoval
<1>5. CASE \E offset :
          /\ clientConnections' = clientConnections
          /\ ~allDataHasBeenSent(cacheNodeReady(client.URl), offset, nodeData(client.URl))
          /\ pollFds' = [pollFds EXCEPT ![p].events =
                           IF ~cacheNodeReady(client.URl) \/ offset = Len(nodeData(client.URl))
                           THEN "IN" ELSE @]
  <2> DEFINE q == clientConnections[j].pollFdsIndex
  <2>1. /\ j \in 1..Len(clientConnections) /\ clientConnections'[j] = clientConnections[j]
        /\ q \in 1..Len(pollFds) /\ p \in 1..Len(pollFds)
        /\ pollFds[q] \in Entry /\ DOMAIN pollFds = 1..Len(pollFds)
        /\ q = p <=> j = it
    BY <1>2, <1>5, TableFacts DEF IInv, Linked, Apart
  <2>2. CASE j = it
    <3>1. PICK new : /\ pollFds' = [pollFds EXCEPT ![p].events = new]
                     /\ new = pollFds[p].events \/ (new = "IN" /\ ~cacheNodeReady(client.URl))
      BY <1>5, <2>1 DEF allDataHasBeenSent
    <3>2. pollFds'[q].events = new /\ pollFds'[q].revents = pollFds[q].revents /\ q = p
      BY <2>1, <2>2, <3>1 DEF Entry
    <3>3. QED
      BY <1>2, <2>1, <2>2, <3>1, <3>2 DEF Was, entryOf
  <2>3. CASE j # it
    <3>1. PICK new : pollFds' = [pollFds EXCEPT ![p].events = new]
      BY <1>5
    <3>2. pollFds'[q] = pollFds[q]
      BY <2>1, <2>3, <3>1
    <3>3. QED
      BY <2>1, <3>2 DEF Was, entryOf
  <2>4. QED
    BY <2>2, <2>3
<1>6. QED
  BY <1>3, <1>4, <1>5

\* The turn of a fetch removes no client, and wakes those of its URL.
LEMMA ClientsOfServerTurn ==
  ASSUME IInv, ServerReceivesData \/ ServerSendsRequest \/ ServerGoes,
         NEW j \in 1..Len(clientConnections')
  PROVE  /\ j \in 1..Len(clientConnections)
         /\ Was(clientConnections'[j], pollFds'[clientConnections'[j].pollFdsIndex], j)
         /\ Prepares /\ clientConnections'[j].URl = server.URl =>
                pollFds'[clientConnections'[j].pollFdsIndex].events = "OUT"
<1>1. ServerTurn
  BY ServerGoing DEF ServerReceivesData, ServerSendsRequest, ServerReadable, ServerWritable
<1>2. /\ it \in 1..Len(serverConnections) /\ server.URl \in Urls
      /\ server.pollFdsIndex \in 1..Len(pollFds)
      /\ \A i \in 1..Len(clientConnections) :
            clientConnections[i].pollFdsIndex # server.pollFdsIndex
      /\ server = serverConnections[it]
  BY <1>1, ServerAtTurn DEF server
<1> DEFINE t == prepareClientsToWrite(server.URl)
<1>3. /\ t \in Seq(Entry) /\ SameFds(t, pollFds)
      /\ \A k \in 1..Len(clientConnections) :
            LET q == clientConnections[k].pollFdsIndex
            IN  /\ t[q].events = IF clientConnections[k].URl = server.URl THEN "OUT"
                                 ELSE pollFds[q].events
                /\ t[q].revents = pollFds[q].revents
  BY <1>2, PreparingWatches, PreparedEntries
<1>4. CASE (ServerReceivesData \/ ServerSendsRequest) /\ ~ServerGoes
  <2> DEFINE p == server.pollFdsIndex
             q == clientConnections[j].pollFdsIndex
  <2>1. /\ clientConnections' = clientConnections /\ j \in 1..Len(clientConnections)
        /\ q \in 1..Len(pollFds) /\ q # p /\ DOMAIN pollFds = 1..Len(pollFds)
        /\ DOMAIN t = 1..Len(pollFds)
    <3>1. clientConnections' = clientConnections
      BY <1>4 DEF ServerReceivesData, ServerSendsRequest
    <3>2. j \in 1..Len(clientConnections)
      BY <3>1
    <3>3. q \in 1..Len(pollFds) /\ q # p /\ DOMAIN pollFds = 1..Len(pollFds)
      BY <1>2, <3>2, TableFacts
    <3>4. DOMAIN t = 1..Len(pollFds)
      BY <3>3 DEF prepareClientsToWrite
    <3>5. QED
      BY <3>1, <3>2, <3>3, <3>4
  <2>2. CASE ServerReceivesData
    <3>1. pollFds' = [t EXCEPT ![p].revents = {}]
      BY <2>2 DEF ServerReceivesData
    <3>2. pollFds'[q] = t[q]
      BY <2>1, <3>1
    <3>3. QED
      BY <1>3, <2>1, <2>2, <3>2 DEF Was, entryOf, Prepares
  <2>3. CASE ServerSendsRequest /\ ~Prepares
    <3>1. pollFds' = [pollFds EXCEPT ![p].events = "IN", ![p].revents = {}]
      BY <2>3 DEF ServerSendsRequest
    <3>2. pollFds'[q] = pollFds[q]
      BY <2>1, <3>1
    <3>3. QED
      BY <2>1, <2>3, <3>2 DEF Was, entryOf
  <2>4. QED
    BY <1>4, <2>2, <2>3 DEF Prepares
<1>5. CASE ServerGoes
  <2>1. PICK i \in 1..Len(serverConnections) : i = it
    BY <1>2
  <2>2. pollFds \in Seq(Entry) /\ SameFds(pollFds, pollFds)
    BY DEF IInv, Types, SameFds
  <2>3. CASE ServerHungUp
    <3>1. removeServerConnection(i, pollFds)
      BY <2>1, <2>3 DEF ServerHungUp, removeServerConnection
    <3>2. Stay(pollFds', clientConnections', pollFds, clientConnections)
      BY <2>2, <3>1, ServerRemovalMoves
    <3>3. ~Prepares
      BY <2>3 DEF Prepares, ServerHungUp, ServerReceivesData, ServerReadable
    <3>4. QED
      BY <3>2, <3>3 DEF Stay, Follows, SameConnection, Was, entryOf
  <2>4. CASE ~ServerHungUp
    <3>1. removeServerConnection(i, t)
      BY <1>5, <2>1, <2>4, ServerGoing DEF removeServerConnection
    <3>2. Stay(pollFds', clientConnections', t, clientConnections)
      BY <1>3, <3>1, ServerRemovalMoves
    <3>3. Prepares
      BY <1>5, <2>4 DEF Prepares
    <3>4. /\ j \in 1..Len(clientConnections)
          /\ clientConnections'[j].socketFd = clientConnections[j].socketFd
          /\ clientConnections'[j].buffer = clientConnections[j].buffer
          /\ clientConnections'[j].URl = clientConnections[j].URl
          /\ pollFds'[clientConnections'[j].pollFdsIndex] = t[clientConnections[j].pollFdsIndex]
      BY <3>2 DEF Stay, Follows, SameConnection
    <3>5. QED
      BY <1>3, <3>3, <3>4 DEF Was, entryOf
  <2>5. QED
    BY <2>3, <2>4
<1>6. QED
  BY <1>4, <1>5

\* A client accepted in this step, after those that are there.
LEMMA ClientsAccepted ==
  ASSUME IInv, addNewConnection, NEW j \in 1..Len(clientConnections')
  PROVE  LET d == clientConnections'[j]
             f == pollFds'[d.pollFdsIndex]
         IN  IsNew(d, f) \/ \E k \in 1..Len(clientConnections) : Was(d, f, k)
<1>1. CASE FreeDescriptors = {}
  <2>1. UNCHANGED <<pollFds, clientConnections>>
    BY <1>1 DEF addNewConnection
  <2>2. j \in 1..Len(clientConnections)
    BY <2>1
  <2>3. QED
    BY <2>1, <2>2, ClientsStay
<1>2. CASE FreeDescriptors # {}
  <2> DEFINE e == [fd |-> NewDescriptor, events |-> "IN", revents |-> {}]
             conn == [socketFd |-> NewDescriptor, pollFdsIndex |-> Len(pollFds) + 1,
                      URl |-> NoUrl, buffer |-> Head(backlog)]
  <2>1. pollFds' = Append(pollFds, e) /\ clientConnections' = Append(clientConnections, conn)
    BY <1>2 DEF addNewConnection
  <2>2. /\ Len(pollFds) \in Nat /\ Len(clientConnections) \in Nat
        /\ DOMAIN pollFds = 1..Len(pollFds)
        /\ DOMAIN clientConnections = 1..Len(clientConnections)
        /\ pollFds \in Seq(Entry) /\ clientConnections \in Seq(ClientConns)
    BY TableFacts DEF IInv, Types
  <2>3. /\ conn.socketFd = NewDescriptor /\ conn.pollFdsIndex = Len(pollFds) + 1
        /\ conn.URl = NoUrl /\ conn.buffer = Head(backlog)
        /\ e.events = "IN" /\ e.revents = {}
    OBVIOUS
  <2> HIDE DEF e, conn
  <2>4. /\ Len(clientConnections') = Len(clientConnections) + 1
        /\ pollFds'[Len(pollFds) + 1] = e
        /\ clientConnections'[Len(clientConnections) + 1] = conn
        /\ \A p \in 1..Len(pollFds) : pollFds'[p] = pollFds[p]
        /\ \A i \in 1..Len(clientConnections) : clientConnections'[i] = clientConnections[i]
    BY <2>1, <2>2
  <2>5. CASE j = Len(clientConnections) + 1
    BY <1>2, <2>3, <2>4, <2>5 DEF IsNew
  <2>6. CASE j \in 1..Len(clientConnections)
    <3>1. /\ clientConnections'[j] = clientConnections[j]
          /\ pollFds'[clientConnections[j].pollFdsIndex] = pollFds[clientConnections[j].pollFdsIndex]
      BY <2>4, <2>6, TableFacts
    <3>2. QED
      BY <2>6, <3>1 DEF Was, entryOf
  <2>7. QED
    BY <2>2, <2>4, <2>5, <2>6
<1>3. QED
  BY <1>1, <1>2

Descends(d, f) == IsNew(d, f) \/ \E k \in 1..Len(clientConnections) : Was(d, f, k)

\* Every client of the next state is one of this state, or new.
LEMMA ClientsDescend ==
  ASSUME IInv, [Next]_vars, NEW j \in 1..Len(clientConnections')
  PROVE  Descends(clientConnections'[j], pollFds'[clientConnections'[j].pollFdsIndex])
<1>1. CASE addNewConnection
  BY <1>1, ClientsAccepted DEF Descends
<1>2. CASE Outside \/ Moves \/ ClientReceivesPart \/ stop
  <2>1. Poll \/ UNCHANGED <<pollFds, clientConnections>>
    BY <1>2 DEF Outside, ProgramVars, Moves, ClientIdle, ClientReceivesMalformed, ClientsDone,
       ServerIdle, ServerReadsFreedBuffer, RoundDone, stop, Interrupt, vars, tableVars,
       ClientReceivesPart
  <2>2. j \in 1..Len(clientConnections)
    BY <2>1 DEF Poll
  <2>3. QED
    BY <2>1, <2>2, ClientsStay DEF Descends
<1>3. CASE ClientAsksForCached \/ ClientStartsFetch
  <2>1. ClientTurn
    BY <1>3 DEF ClientAsksForCached, ClientStartsFetch, ReceivesRequest, Receives, ClientReadable
  <2>2. it \in 1..Len(clientConnections) /\ request[client.buffer] \in Urls
    BY <1>3, <2>1, ClientAtTurn DEF ClientAsksForCached, ClientStartsFetch
  <2>3. clientConnections' = Asking(request[client.buffer])
    BY <1>3, <2>1, ClientAtTurn DEF ClientAsksForCached, ClientStartsFetch
  <2>4. Len(clientConnections') = Len(clientConnections)
    BY <2>2, <2>3, AskingIsTyped DEF SamePlaces
  <2>5. QED
    BY <1>3, <2>4, ClientsAsk DEF Descends
<1>4. CASE ClientServed
  BY <1>4, ClientsOfServed DEF Descends
<1>5. CASE ClientGoes
  <2>1. it \in 1..Len(clientConnections)
    BY <1>5, ClientGoing, ClientAtTurn
  <2>2. PICK sockets, how : removeClientConnection(it, sockets, how)
    BY <1>5, ClientGoing
  <2>3. QED
    BY <2>1, <2>2, ClientsOfRemoval DEF Descends
<1>6. CASE ServerReceivesData \/ ServerSendsRequest \/ ServerGoes
  BY <1>6, ClientsOfServerTurn DEF Descends
<1>7. QED
  BY <1>1, <1>2, <1>3, <1>4, <1>5, <1>6, Steps DEF Reads

\* What the invariant says of the connections of a running loop.
ConnectionsOpen ==
    /\ \A i \in 1..Len(clientConnections) :
        LET c == clientConnections[i]
        IN  /\ c.socketFd \in DOMAIN sock /\ sock[c.socketFd] \in Socket
            /\ c.socketFd \in DOMAIN cacheOffsets
            /\ c.buffer \in DOMAIN heap /\ c.buffer \in Clients
            /\ sock[c.socketFd].peer = c.buffer
            /\ c.URl \in Urls \cup {NoUrl} /\ request[c.buffer] # NoUrl
    /\ \A j \in 1..Len(serverConnections) :
        LET s == serverConnections[j]
        IN  /\ s.socketFd \in DOMAIN sock /\ sock[s.socketFd] \in Socket
            /\ s.URl \in Urls
    /\ \A i, j \in 1..Len(clientConnections) :
        i # j => /\ clientConnections[i].socketFd # clientConnections[j].socketFd
                 /\ clientConnections[i].buffer # clientConnections[j].buffer
    /\ \A i, j \in 1..Len(serverConnections) :
        i # j => serverConnections[i].socketFd # serverConnections[j].socketFd
    /\ \A i \in 1..Len(clientConnections), j \in 1..Len(serverConnections) :
        clientConnections[i].socketFd # serverConnections[j].socketFd

\* These follow from the invariant while the program runs.
LEMMA WhenRunning == IInv /\ Running => ConnectionsOpen
<1> SUFFICES ASSUME IInv, Running PROVE ConnectionsOpen
  OBVIOUS
<1>1. \A p \in 1..Len(pollFds) : pollFds[p].fd \in Descriptors => pollFds[p].fd \in DOMAIN sock
  BY DEF IInv, Open, Owned
<1>2. ASSUME NEW i \in 1..Len(clientConnections), NEW c, c = clientConnections[i]
      PROVE  /\ c.socketFd \in DOMAIN sock /\ sock[c.socketFd] \in Socket
             /\ c.socketFd \in DOMAIN cacheOffsets
             /\ c.buffer \in DOMAIN heap /\ c.buffer \in Clients
             /\ sock[c.socketFd].peer = c.buffer
             /\ c.URl \in Urls \cup {NoUrl} /\ request[c.buffer] # NoUrl
  <2>1. /\ c \in ClientConns /\ c.pollFdsIndex \in 1..Len(pollFds)
        /\ pollFds[c.pollFdsIndex].fd = c.socketFd
    BY <1>2, TableFacts
  <2>2. /\ c.socketFd \in Descriptors /\ c.buffer \in Clients /\ c.URl \in Urls \cup {NoUrl}
    BY <2>1 DEF ClientConns, Conns, ConnectionsOf
  <2>3. c.socketFd \in DOMAIN sock /\ sock[c.socketFd] \in Socket
    BY <1>1, <2>1, <2>2 DEF IInv, Types
  <2>4. c.socketFd \in DOMAIN cacheOffsets /\ c.buffer \in DOMAIN heap
    BY <1>2 DEF IInv, FdsOf, BuffersOf
  <2>5. sock[c.socketFd].peer = c.buffer /\ request[c.buffer] # NoUrl
    BY <1>2 DEF IInv, Open, Known
  <2>6. QED
    BY <2>2, <2>3, <2>4, <2>5
<1>3. ASSUME NEW j \in 1..Len(serverConnections), NEW s, s = serverConnections[j]
      PROVE  s.socketFd \in DOMAIN sock /\ sock[s.socketFd] \in Socket /\ s.URl \in Urls
  <2>1. /\ s \in ServerConns /\ s.pollFdsIndex \in 1..Len(pollFds)
        /\ pollFds[s.pollFdsIndex].fd = s.socketFd
    BY <1>3, TableFacts
  <2>2. s.socketFd \in Descriptors /\ s.URl \in Urls
    BY <2>1 DEF ServerConns, Conns, ConnectionsOf
  <2>3. QED
    BY <1>1, <2>1, <2>2 DEF IInv, Types
<1>4. /\ Linked(pollFds, clientConnections, serverConnections) /\ Len(pollFds) \in Nat
      /\ Linked(pollFds, serverConnections, clientConnections)
  BY TableFacts, LinkedSwaps DEF IInv
<1>5. /\ \A i, j \in 1..Len(clientConnections) :
            clientConnections[i].socketFd = clientConnections[j].socketFd => i = j
      /\ \A i, j \in 1..Len(serverConnections) :
            serverConnections[i].socketFd = serverConnections[j].socketFd => i = j
      /\ \A i \in 1..Len(clientConnections), j \in 1..Len(serverConnections) :
            clientConnections[i].socketFd # serverConnections[j].socketFd
  BY <1>4, LinkedFdsDiffer
<1>6. \A i, j \in 1..Len(clientConnections) :
        clientConnections[i].buffer = clientConnections[j].buffer => i = j
  BY DEF IInv, Known
<1>7. QED
  BY <1>2, <1>3, <1>5, <1>6 DEF ConnectionsOpen

\* A program that has ended does not run again.
LEMMA RunningBefore == ASSUME IInv, [Next]_vars, Running' PROVE Running
<1>1. CASE Outside \/ Moves
  BY <1>1, ClientAtTurn, ServerAtTurn DEF Outside, Running, Moves, ClientIdle, ClientReceivesMalformed,
     ReceivesRequest, Receives, ClientReadable, ClientsDone,
     ServerIdle, ServerReadsFreedBuffer, ServerWritable, Poll, RoundDone, vars, loopVars
<1>2. CASE addNewConnection \/ Reads \/ ClientServed
  BY <1>2 DEF addNewConnection, Reads, ClientReceivesPart, ClientAsksForCached, ClientStartsFetch,
     ReceivesRequest, Receives, ClientReadable, ClientTurn, Running, ClientServed, ClientWritable
<1>3. CASE ClientGoes \/ ServerGoes
  BY <1>3, ClientGoing, ServerGoing DEF ClientTurn, ServerTurn, Running
<1>4. CASE ServerReceivesData \/ ServerSendsRequest
  BY <1>4 DEF ServerReceivesData, ServerSendsRequest, ServerReadable, ServerWritable, ServerTurn, Running
<1>5. QED
  BY <1>1, <1>2, <1>3, <1>4, Steps

\* They do after a step, too.
LEMMA NextWhenRunning == IInv' /\ Running' => ConnectionsOpen'
BY WhenRunning, PTL

\* Whose turn it is.
LEMMA Turns ==
  ASSUME IInv
  PROVE  /\ Reads \/ ClientServed \/ ClientGoes =>
                it \in 1..Len(clientConnections) /\ client = clientConnections[it]
         /\ ServerReceivesData \/ ServerSendsRequest \/ ServerGoes =>
                it \in 1..Len(serverConnections) /\ server = serverConnections[it]
<1>1. Reads \/ ClientServed \/ ClientGoes => ClientTurn
  BY ClientGoing DEF Reads, ClientReceivesPart, ClientAsksForCached, ClientStartsFetch,
     ReceivesRequest, Receives, ClientReadable, ClientServed, ClientWritable
<1>2. ServerReceivesData \/ ServerSendsRequest \/ ServerGoes => ServerTurn
  BY ServerGoing DEF ServerReceivesData, ServerSendsRequest, ServerReadable, ServerWritable
<1>3. QED
  BY <1>1, <1>2, ClientAtTurn, ServerAtTurn DEF client, server

\* What a client keeps in a step that is neither its own turn nor one of its
\* peers'.
Undisturbed(k) == ~Outside /\ (Reads \/ ClientServed => k # it)

\* A client that is not disturbed keeps its socket, its buffer, its offset and its units.
LEMMA OthersKeep ==
  ASSUME IInv, IInv', [Next]_vars, Running',
         NEW j \in 1..Len(clientConnections'), NEW k \in 1..Len(clientConnections),
         NEW d, d = clientConnections'[j], NEW f, Was(d, f, k), Undisturbed(k),
         NEW c, c = clientConnections[k]
  PROVE  /\ d.socketFd = c.socketFd /\ d.buffer = c.buffer /\ d.URl = c.URl
         /\ sock'[d.socketFd] = sock[c.socketFd]
         /\ heap'[d.buffer] = heap[c.buffer]
         /\ cacheOffsets'[d.socketFd] = cacheOffsets[c.socketFd]
         /\ got'[d.buffer] = got[c.buffer] /\ wouldBlocks'[d.buffer] = wouldBlocks[c.buffer]
         /\ sent' = sent /\ request' = request
<1>1. d.socketFd = c.socketFd /\ d.buffer = c.buffer
  BY DEF Was
<1>2. d.URl = c.URl
  BY DEF Was, Undisturbed, Reads
<1>3. Running /\ ConnectionsOpen /\ ConnectionsOpen'
  BY RunningBefore, WhenRunning, NextWhenRunning
<1>4. /\ c.socketFd \in DOMAIN sock /\ d.socketFd \in DOMAIN sock'
      /\ c.buffer \in DOMAIN heap /\ d.buffer \in DOMAIN heap'
      /\ c.socketFd \in DOMAIN cacheOffsets /\ d.socketFd \in DOMAIN cacheOffsets'
  BY <1>3 DEF ConnectionsOpen
<1>5. Reads \/ ClientServed => c.socketFd # client.socketFd /\ c.buffer # client.buffer
  BY <1>3, Turns DEF ConnectionsOpen, Undisturbed
<1>6. ServerReceivesData \/ ServerSendsRequest => c.socketFd # server.socketFd
  BY <1>3, Turns DEF ConnectionsOpen
<1>7. sock'[d.socketFd] = sock[c.socketFd]
  BY <1>1, <1>4, <1>5, <1>6, SocketsStay DEF Undisturbed
<1>8. heap'[d.buffer] = heap[c.buffer]
  BY <1>1, <1>3, <1>4, <1>5, BuffersStay
<1>9. cacheOffsets'[d.socketFd] = cacheOffsets[c.socketFd]
  BY <1>1, <1>4, <1>5, OffsetsStay
<1>10. got'[d.buffer] = got[c.buffer] /\ wouldBlocks'[d.buffer] = wouldBlocks[c.buffer]
  BY <1>1, <1>5, OthersGetNothing
<1>11. sent' = sent /\ request' = request
  BY LoopAsksNothing DEF Undisturbed
<1>12. QED
  BY <1>1, <1>2, <1>7, <1>8, <1>9, <1>10, <1>11

\* What client c, whose socket is s, has sent: what is in its buffer and what
\* is on its way are no more than that, and once it has a URL its buffer
\* holds a request, and the URL is that of the request.
Asked(c, s, received, n, asked) ==
    /\ received \in Nat /\ s.rx \in Nat /\ received + s.rx <= n
    /\ c.URl # NoUrl => received >= ReqLen /\ c.URl = asked

AskedOf(c) == Asked(c, sock[c.socketFd], heap[c.buffer], sent[c.buffer], request[c.buffer])

(***************************************************************************)
(* Part of what follows: a client asks for its page, once or again.  Its   *)
(* buffer and its socket hold no more than it has sent, and its URL is     *)
(* what it sent.                                                           *)
(***************************************************************************)
AsksForItsPage ==
    /\ sent \in [Clients -> 0..MostSent]
    /\ Running => \A i \in 1..Len(clientConnections) : AskedOf(clientConnections[i])

\* More of the request on its way, more of it sent.
LEMMA AskedGrows ==
  ASSUME NEW c, NEW s, NEW t, NEW received, NEW n \in Nat, NEW m \in Nat, NEW asked,
         Asked(c, s, received, n, asked), NEW k \in Nat, t.rx = s.rx + k, m >= n + k
  PROVE  Asked(c, t, received, m, asked)
BY DEF Asked

\* What has been received is no longer on its way; of it the buffer keeps m.
LEMMA AskedMoves ==
  ASSUME NEW c, NEW d, NEW s, NEW t, NEW received, NEW n \in Nat, NEW asked,
         Asked(c, s, received, n, asked), NEW k \in 0..s.rx, t.rx = s.rx - k,
         NEW m \in Nat, m <= received + k,
         d.URl # NoUrl => m >= ReqLen /\ d.URl = asked
  PROVE  Asked(d, t, m, n, asked)
BY DEF Asked

\* What happens outside the loop changes nobody's page.
LEMMA OutsideKeepsAsking ==
  ASSUME IInv, AsksForItsPage, Outside
  PROVE  AsksForItsPage'
<1>1. /\ Running /\ clientConnections' = clientConnections /\ heap' = heap /\ ConnectionsOpen
  BY WhenRunning DEF Outside, ProgramVars, tableVars, fdVars
<1>2. sent \in [Clients -> 0..MostSent] /\ MostSent \in Nat /\ MostSent' = MostSent
  <2>1. faults' = faults
    BY DEF Outside, ProgramVars, histVars, surroundings
  <2>2. QED
    BY <2>1, NetworkAssumption DEF AsksForItsPage, MostSent
<1>3. ASSUME NEW x \in Clients, ClientConnect(x)
      PROVE  AsksForItsPage'
  <2>1. /\ sock' = sock /\ sent' = sent /\ request[x] = NoUrl
        /\ \A y \in Clients : y # x => request'[y] = request[y]
    BY <1>3 DEF ClientConnect, IInv, Types
  <2>2. ASSUME NEW i \in 1..Len(clientConnections), NEW c, c = clientConnections[i]
        PROVE  AskedOf(c)'
    <3>1. c.buffer \in Clients /\ c.buffer # x
      BY <1>1, <2>1, <2>2 DEF ConnectionsOpen
    <3>2. AskedOf(c)
      BY <1>1, <2>2 DEF AsksForItsPage
    <3>3. QED
      BY <1>1, <2>1, <3>1, <3>2 DEF AskedOf, Asked
  <2>3. QED
    BY <1>1, <1>2, <2>1, <2>2 DEF AsksForItsPage
<1>4. ASSUME NEW fd \in DOMAIN sock, ClientSend(fd)
      PROVE  AsksForItsPage'
  <2> DEFINE x == sock[fd].peer
  <2>1. PICK n \in 1..(MostSent - sent[x]) :
            /\ sent' = [sent EXCEPT ![x] = @ + n] /\ sock' = [sock EXCEPT ![fd].rx = @ + n]
            /\ request' = request /\ x \in Clients
    BY <1>4 DEF ClientSend
  <2>2. /\ sent' \in [Clients -> 0..MostSent] /\ sent'[x] = sent[x] + n
        /\ \A y \in Clients : sent'[y] >= sent[y]
    BY <1>2, <2>1
  <2>3. ASSUME NEW i \in 1..Len(clientConnections), NEW c, c = clientConnections[i]
        PROVE  AskedOf(c)'
    <3>1. /\ c.socketFd \in DOMAIN sock /\ sock[c.socketFd].peer = c.buffer /\ c.buffer \in Clients
          /\ AskedOf(c) /\ sent[c.buffer] \in Nat /\ sent'[c.buffer] \in Nat
          /\ sock[c.socketFd] \in Socket
      BY <1>1, <1>2, <2>2, <2>3 DEF AsksForItsPage, ConnectionsOpen
    <3>2. CASE c.socketFd = fd
      <4>1. sock'[c.socketFd].rx = sock[c.socketFd].rx + n
        BY <2>1, <3>1, <3>2 DEF Socket
      <4>2. sent'[c.buffer] = sent[c.buffer] + n
        BY <2>2, <3>1, <3>2
      <4>3. QED
        BY <1>1, <2>1, <3>1, <4>1, <4>2 DEF AskedOf, Asked
    <3>3. CASE c.socketFd # fd
      <4>1. sock'[c.socketFd] = sock[c.socketFd] /\ sent'[c.buffer] >= sent[c.buffer]
        BY <2>1, <2>2, <3>1, <3>3
      <4>2. Asked(c, sock[c.socketFd], heap[c.buffer], sent'[c.buffer], request[c.buffer])
        <5>1. Asked(c, sock[c.socketFd], heap[c.buffer], sent[c.buffer], request[c.buffer])
          BY <3>1 DEF AskedOf
        <5>2. sock[c.socketFd].rx = sock[c.socketFd].rx + 0
          BY <5>1 DEF Asked
        <5>3. sent'[c.buffer] >= sent[c.buffer] + 0
          BY <3>1, <4>1
        <5>4. QED
          BY <3>1, <5>1, <5>2, <5>3, AskedGrows
      <4>3. QED
        BY <1>1, <2>1, <4>1, <4>2 DEF AskedOf, Asked
    <3>4. QED
      BY <3>2, <3>3
  <2>4. QED
    BY <1>1, <1>2, <2>2, <2>3 DEF AsksForItsPage
<1>5. ASSUME sent' = sent, request' = request,
             \A i \in 1..Len(clientConnections) :
                LET fd == clientConnections[i].socketFd
                IN  sock'[fd].rx \in {sock[fd].rx, 0}
      PROVE  AsksForItsPage'
  <2>1. ASSUME NEW i \in 1..Len(clientConnections), NEW c, c = clientConnections[i]
        PROVE  AskedOf(c)'
    <3>1. AskedOf(c) /\ sent[c.buffer] \in Nat /\ sock'[c.socketFd].rx \in {sock[c.socketFd].rx, 0}
      BY <1>1, <1>2, <1>5, <2>1 DEF AsksForItsPage, ConnectionsOpen
    <3>2. QED
      BY <1>1, <1>5, <3>1 DEF AskedOf, Asked
  <2>2. QED
    BY <1>1, <1>2, <1>5, <2>1 DEF AsksForItsPage
<1>6. ASSUME NEW fd \in DOMAIN sock, ClientRead(fd) \/ ClientLeaves(fd)
      PROVE  AsksForItsPage'
  <2>1. sent' = sent /\ request' = request
    BY <1>6 DEF ClientRead, ClientLeaves
  <2>2. ASSUME NEW i \in 1..Len(clientConnections), NEW f, f = clientConnections[i].socketFd
        PROVE  sock'[f].rx \in {sock[f].rx, 0}
    <3>1. f \in DOMAIN sock /\ sock[f] \in Socket
      BY <1>1, <2>2 DEF ConnectionsOpen
    <3>2. QED
      BY <1>6, <3>1 DEF ClientRead, ClientLeaves, Socket
  <2>3. QED
    BY <1>5, <2>1, <2>2
<1>7. ASSUME NEW fd \in DOMAIN sock, OriginAccept(fd) \/ OriginSend(fd) \/ OriginClose(fd) \/ OriginReset(fd)
      PROVE  AsksForItsPage'
  <2>1. sent' = sent /\ request' = request /\ sock[fd].peer = Origin
    BY <1>7 DEF OriginAccept, OriginSend, OriginClose, OriginReset, Responding, Fetching
  <2>2. \E s : sock' = [sock EXCEPT ![fd] = s]
    BY <1>7 DEF OriginAccept, OriginSend, OriginClose, OriginReset
  <2>3. ASSUME NEW i \in 1..Len(clientConnections), NEW f, f = clientConnections[i].socketFd
        PROVE  sock'[f].rx \in {sock[f].rx, 0}
    <3>1. f # fd
      BY <1>1, <2>1, <2>3, NetworkAssumption DEF ConnectionsOpen
    <3>2. QED
      BY <2>2, <3>1
  <2>4. QED
    BY <1>5, <2>1, <2>3
<1>8. QED
  BY <1>3, <1>4, <1>6, <1>7 DEF Outside, ClientStep, OriginStep

\* A client that has just been accepted has asked nothing.
LEMMA AcceptedAsks ==
  ASSUME IInv, AsksForItsPage, NEW d, NEW f, IsNew(d, f)
  PROVE  /\ AskedOf(d)'
         /\ sock' = Assign(sock, d.socketFd, ClientSocket(d.buffer))
         /\ heap' = Assign(heap, d.buffer, 0) /\ cacheOffsets' = Assign(cacheOffsets, d.socketFd, 0)
         /\ d.buffer \in Clients /\ d.buffer = backlog[1] /\ 1 \in 1..Len(backlog)
<1>1. /\ FreeDescriptors # {} /\ addNewConnection
      /\ d.socketFd = NewDescriptor /\ d.buffer = Head(backlog) /\ d.URl = NoUrl
  BY DEF IsNew
<1>2. /\ sock' = Assign(sock, d.socketFd, ClientSocket(d.buffer))
      /\ heap' = Assign(heap, d.buffer, 0) /\ cacheOffsets' = Assign(cacheOffsets, d.socketFd, 0)
      /\ sent' = sent
  BY <1>1 DEF addNewConnection
<1>3. d.buffer \in Clients /\ d.buffer = backlog[1] /\ 1 \in 1..Len(backlog)
  <2>1. backlog \in Seq(Clients) /\ backlog # <<>>
    BY <1>1 DEF addNewConnection, IInv, Types
  <2>2. QED
    BY <1>1, <2>1, HeadTailProperties, LenProperties, EmptySeq, ElementOfSeq
<1>4. sock'[d.socketFd] = ClientSocket(d.buffer) /\ heap'[d.buffer] = 0
  BY <1>2 DEF Assign
<1>5. sock'[d.socketFd].rx = 0
  BY <1>4 DEF ClientSocket
<1>6. sent'[d.buffer] \in Nat
  BY <1>2, <1>3, NetworkAssumption DEF AsksForItsPage, MostSent
<1>7. AskedOf(d)'
  BY <1>1, <1>4, <1>5, <1>6 DEF AskedOf, Asked
<1>8. QED
  BY <1>2, <1>3, <1>7

\* The turn that reads a piece of a request.
LEMMA ReadingAsks ==
  ASSUME IInv, AsksForItsPage, Reads, NEW j \in 1..Len(clientConnections'),
         NEW d, d = clientConnections'[j], d.socketFd = client.socketFd
  PROVE  /\ AskedOf(d)'
         /\ client.URl \in {NoUrl, d.URl}
         /\ ~ClientReceivesPart => d.URl = request[d.buffer] /\ d.URl \in Urls
<1>1. /\ it \in 1..Len(clientConnections) /\ client = clientConnections[it] /\ Running
  BY Turns, ClientAtTurn DEF Reads, ClientReceivesPart, ClientAsksForCached,
     ClientStartsFetch, ReceivesRequest, Receives, ClientReadable, ClientTurn, Running
<1>2. /\ client.socketFd \in DOMAIN sock /\ sock[client.socketFd] \in Socket
      /\ client.buffer \in DOMAIN heap /\ client.buffer \in Clients
      /\ sock[client.socketFd].peer = client.buffer
      /\ request[client.buffer] \in Urls \cup {Malformed, NoUrl}
  BY <1>1, WhenRunning DEF ConnectionsOpen, IInv, Types
<1>3. AskedOf(client) /\ sent[client.buffer] \in Nat /\ ReqLen \in Nat
  BY <1>1, <1>2, NetworkAssumption DEF AsksForItsPage, MostSent
<1>4. /\ d.socketFd = client.socketFd /\ d.buffer = client.buffer
      /\ ClientReceivesPart => d = client
      /\ ~ClientReceivesPart => d.URl = request[client.buffer] /\ d.URl \in Urls
  <2>1. CASE ClientReceivesPart
    <3>1. clientConnections' = clientConnections
      BY <2>1 DEF ClientReceivesPart, tableVars
    <3>2. j = it
      BY <1>1, <3>1, WhenRunning DEF ConnectionsOpen
    <3>3. QED
      BY <1>1, <2>1, <3>1, <3>2
  <2>2. CASE ~ClientReceivesPart
    <3> DEFINE url == request[client.buffer]
    <3>1. clientConnections' = Asking(url) /\ url # Malformed
      BY <1>2, <2>2 DEF Reads, ClientAsksForCached, ClientStartsFetch
    <3>2. url \in Urls
      BY <1>1, <1>2, <3>1, WhenRunning DEF ConnectionsOpen
    <3>3. /\ SamePlaces(clientConnections', clientConnections)
          /\ clientConnections'[it].URl = url
      BY <1>1, <3>1, <3>2, AskingIsTyped
    <3>4. j = it
      BY <1>1, <3>3, WhenRunning DEF ConnectionsOpen, SamePlaces
    <3>5. QED
      BY <1>1, <2>2, <3>2, <3>3, <3>4 DEF SamePlaces
  <2>3. QED
    BY <2>1, <2>2
<1>5. PICK n \in 1..BUF_SIZE :
        /\ n = recvCount(client.socketFd)
        /\ \/ /\ ClientReceivesPart
              /\ heap' = [heap EXCEPT ![client.buffer] = heap[client.buffer] + n]
           \/ /\ ~ClientReceivesPart
              /\ heap' = [heap EXCEPT ![client.buffer] = ReqLen]
              /\ TRUE \in EndsRequest(heap[client.buffer] + n, n)
        /\ \/ sock' = Received(client.socketFd, n)
           \/ /\ FreeDescriptors # {}
              /\ \E s : sock' = Assign(Received(client.socketFd, n), NewDescriptor, s)
  BY DEF Reads, ClientReceivesPart, ClientAsksForCached, ClientStartsFetch, ReceivesRequest, Receives
<1>6. sent' = sent /\ request' = request
  BY DEF Reads, ClientReceivesPart, ClientAsksForCached, ClientStartsFetch, peerVars
<1>7. n <= sock[client.socketFd].rx /\ n \in Nat \ {0}
  BY <1>2, <1>5, NetworkAssumption DEF recvCount, SmallerOf, Socket
<1>8. client.URl \in {NoUrl, d.URl}
  BY <1>3, <1>4 DEF AskedOf, Asked
<1>9. sock'[client.socketFd].rx = sock[client.socketFd].rx - n
  <2> DEFINE r == Received(client.socketFd, n)
  <2>1. r[client.socketFd].rx = sock[client.socketFd].rx - n /\ client.socketFd \in DOMAIN r
    BY <1>2 DEF Received, Socket
  <2>2. FreeDescriptors # {} => NewDescriptor # client.socketFd
    BY <1>1, <1>2, NewDescriptorIsNew
  <2> HIDE DEF r
  <2>3. \/ sock' = r
        \/ /\ FreeDescriptors # {}
           /\ \E s : sock' = Assign(r, NewDescriptor, s)
    BY <1>5 DEF r
  <2>4. QED
    BY <2>1, <2>2, <2>3 DEF Assign
<1>10. /\ Asked(client, sock[client.socketFd], heap[client.buffer], sent[client.buffer],
                request[client.buffer])
       /\ heap[client.buffer] \in Nat /\ n \in 0..sock[client.socketFd].rx
  BY <1>3, <1>7 DEF AskedOf, Asked
<1>11. heap'[client.buffer] \in Nat /\ heap'[client.buffer] <= heap[client.buffer] + n
  <2>1. CASE heap' = [heap EXCEPT ![client.buffer] = heap[client.buffer] + n]
    BY <1>2, <1>7, <1>10, <2>1
  <2>2. CASE heap' = [heap EXCEPT ![client.buffer] = ReqLen] /\ TRUE \in EndsRequest(heap[client.buffer] + n, n)
    BY <1>2, <1>3, <1>7, <1>10, <2>2 DEF EndsRequest
  <2>3. QED
    BY <1>5, <2>1, <2>2
<1>12. d.URl # NoUrl => heap'[client.buffer] >= ReqLen /\ d.URl = request[client.buffer]
  <2>1. CASE ClientReceivesPart
    <3>1. heap'[client.buffer] = heap[client.buffer] + n /\ d = client
      BY <1>2, <1>4, <1>5, <2>1
    <3>2. QED
      BY <1>3, <1>7, <1>10, <3>1 DEF Asked
  <2>2. CASE ~ClientReceivesPart
    <3>1. heap'[client.buffer] = ReqLen
      BY <1>2, <1>5, <2>2
    <3>2. d.URl = request[client.buffer]
      BY <1>4, <2>2
    <3>3. QED
      BY <1>3, <3>1, <3>2
  <2>3. QED
    BY <2>1, <2>2
<1>13. AskedOf(d)'
  <2>1. Asked(d, sock'[client.socketFd], heap'[client.buffer], sent[client.buffer], request[client.buffer])
    BY <1>3, <1>9, <1>10, <1>11, <1>12, AskedMoves
  <2>2. Asked(d, sock'[d.socketFd], heap'[d.buffer], sent'[d.buffer], request'[d.buffer])
    BY <1>4, <1>6, <2>1
  <2>3. QED
    BY <2>2 DEF AskedOf, Asked
<1>14. QED
  BY <1>4, <1>6, <1>8, <1>13

\* A turn of ClientServed after which the client is still there.
ServedPart(n) ==
    LET fd == client.socketFd
        node == nodeData(client.URl)
        ready == cacheNodeReady(client.URl)
        offset == cacheOffsets[fd] + n
        units == SentUnits(node, cacheOffsets[fd], n)
    IN  /\ n \in SendResults(fd, Len(node) - cacheOffsets[fd])
        /\ ~allDataHasBeenSent(ready, offset, node)
        /\ got' = [got EXCEPT ![client.buffer] = @ \o units]
        /\ cacheOffsets' = [cacheOffsets EXCEPT ![fd] = offset]
        /\ sock' = [sock EXCEPT ![fd].txq = @ + Len(units)]
        /\ pollFds' = [pollFds EXCEPT ![client.pollFdsIndex].events =
                            IF ~ready \/ offset = Len(node) THEN "IN" ELSE @]
        /\ getCurrentData(client.URl)
        /\ UNCHANGED <<clientConnections, serverConnections, heap, errors, cacheReady, sent, request>>
        /\ wouldBlocks' = [wouldBlocks EXCEPT ![client.buffer] = IF n < 0 THEN @ + 1 ELSE @]
        /\ fd \notin DOMAIN errors

\* A client that has been served and is still there.
LEMMA ServedAndStays ==
  ASSUME IInv, IInv', Running', ClientServed, NEW j \in 1..Len(clientConnections'),
         NEW d, d = clientConnections'[j], d.socketFd = client.socketFd
  PROVE  d = client /\ \E n \in Int : ServedPart(n)
<1> DEFINE fd == client.socketFd
           node == nodeData(client.URl)
           ready == cacheNodeReady(client.URl)
<1>1. ClientTurn /\ it \in 1..Len(clientConnections) /\ client = clientConnections[it]
  BY Turns DEF ClientServed, ClientWritable
<1>2. /\ sock[client.socketFd].peer = client.buffer /\ Running /\ ConnectionsOpen
      /\ sock[fd] \in Socket
  BY <1>1, ClientAtTurn, WhenRunning
<1>3. d.socketFd \in DOMAIN cacheOffsets'
  BY NextWhenRunning DEF ConnectionsOpen
<1>4. PICK n \in SendResults(fd, Len(node) - cacheOffsets[fd]) :
        LET offset == cacheOffsets[fd] + n
            units == SentUnits(node, cacheOffsets[fd], n)
            sockets == [sock EXCEPT ![fd].txq = @ + Len(units)]
        IN  /\ got' = [got EXCEPT ![sock[fd].peer] = @ \o units]
            /\ wouldBlocks' = [wouldBlocks EXCEPT ![sock[fd].peer] = IF n < 0 THEN @ + 1 ELSE @]
            /\ \/ removeClientConnection(it, sockets, "complete")
               \/ /\ ~allDataHasBeenSent(ready, offset, node)
                  /\ cacheOffsets' = [cacheOffsets EXCEPT ![fd] = offset]
                  /\ sock' = sockets
                  /\ pollFds' = [pollFds EXCEPT ![client.pollFdsIndex].events =
                                    IF ~ready \/ offset = Len(node) THEN "IN" ELSE @]
                  /\ UNCHANGED <<clientConnections, serverConnections, errors, heap>>
  BY DEF ClientServed
<1>5. ASSUME NEW sockets, removeClientConnection(it, sockets, "complete")
      PROVE  FALSE
  <2>1. cacheOffsets' = Erase(cacheOffsets, fd)
    BY <1>1, <1>5 DEF removeClientConnection
  <2>2. QED
    BY <1>3, <2>1 DEF Erase
<1>6. n \in Int
  <2>1. nodeData(client.URl) \in Seq(Units)
    BY DEF nodeData, contains, IInv, Types, CacheTyped
  <2>2. Len(node) \in Int /\ cacheOffsets[fd] \in Int
    BY <1>1, <1>2, <2>1, LenProperties DEF ConnectionsOpen, IInv, Types
  <2>3. SndBuf \in Int /\ sock[fd].txq \in Int
    BY <1>2, NetworkAssumption DEF Socket
  <2>4. n = SmallerOf(Len(node) - cacheOffsets[fd], SndBuf - sock[fd].txq) \/ n = -1
    BY <1>4 DEF SendResults
  <2> HIDE DEF node
  <2>5. QED
    BY <2>2, <2>3, <2>4 DEF SmallerOf
<1>7. clientConnections' = clientConnections
  BY <1>4, <1>5
<1>8. j = it
  BY <1>1, <1>2, <1>7 DEF ConnectionsOpen
<1>9. /\ getCurrentData(client.URl) /\ fd \notin DOMAIN errors
      /\ UNCHANGED <<cacheReady, sent, request>>
  BY DEF ClientServed
<1>10. ServedPart(n)
  BY <1>2, <1>4, <1>5, <1>9 DEF ServedPart
<1>11. QED
  BY <1>1, <1>6, <1>7, <1>8, <1>10

\* Every step keeps this.
LEMMA StepKeepsAsking == IInv /\ AsksForItsPage /\ [Next]_vars => AsksForItsPage'
<1> SUFFICES ASSUME IInv, AsksForItsPage, [Next]_vars PROVE AsksForItsPage'
  OBVIOUS
<1>1. IInv'
  BY StepIInv
<1>2. CASE Outside
  BY <1>2, OutsideKeepsAsking
<1>3. CASE ~Outside
  <2>1. sent' = sent /\ request' = request /\ MostSent' = MostSent
    BY <1>3, LoopAsksNothing, SurroundingsStay DEF MostSent
  <2>2. ASSUME Running', NEW j \in 1..Len(clientConnections'), NEW d, d = clientConnections'[j]
        PROVE  AskedOf(d)'
    <3> DEFINE f == pollFds'[d.pollFdsIndex]
    <3>1. Descends(d, f) /\ Running
      BY <1>1, <2>2, ClientsDescend, RunningBefore
    <3>2. CASE IsNew(d, f)
      BY <3>2, AcceptedAsks
    <3>3. ASSUME NEW k \in 1..Len(clientConnections), Was(d, f, k)
          PROVE  AskedOf(d)'
      <4>1. AskedOf(clientConnections[k])
        BY <3>1 DEF AsksForItsPage
      <4>2. CASE Undisturbed(k)
        <5> DEFINE c == clientConnections[k]
        <5>1. /\ d.socketFd = c.socketFd /\ d.buffer = c.buffer /\ d.URl = c.URl
              /\ sock'[d.socketFd] = sock[c.socketFd]
              /\ heap'[d.buffer] = heap[c.buffer]
          BY <1>1, <2>2, <3>3, <4>2, OthersKeep
        <5> HIDE DEF c
        <5>2. AskedOf(c)
          BY <4>1 DEF c
        <5>3. QED
          BY <2>1, <5>1, <5>2 DEF AskedOf, Asked
      <4>3. CASE k = it /\ Reads
        <5>1. d.socketFd = client.socketFd
          BY <3>3, <4>3, Turns DEF Was
        <5>2. QED
          BY <2>2, <4>3, <5>1, ReadingAsks
      <4>4. CASE k = it /\ ClientServed
        <5>1. d.socketFd = client.socketFd
          BY <3>3, <4>4, Turns DEF Was
        <5>2. PICK n : d = client /\ ServedPart(n)
          BY <1>1, <2>2, <4>4, <5>1, ServedAndStays
        <5>3. /\ client = clientConnections[it] /\ client.socketFd \in DOMAIN sock
              /\ sock[client.socketFd] \in Socket
          BY <3>1, <4>4, Turns, WhenRunning DEF ConnectionsOpen
        <5>4. heap' = heap /\ sock'[client.socketFd].rx = sock[client.socketFd].rx
          BY <5>2, <5>3 DEF ServedPart, Socket
        <5>5. AskedOf(client)
          BY <4>1, <4>4, <5>3
        <5>6. QED
          BY <2>1, <5>2, <5>4, <5>5 DEF AskedOf, Asked
      <4>5. QED
        BY <1>3, <4>2, <4>3, <4>4 DEF Undisturbed
    <3>4. QED
      BY <3>1, <3>2, <3>3 DEF Descends
  <2>3. QED
    BY <2>1, <2>2 DEF AsksForItsPage
<1>4. QED
  BY <1>2, <1>3

\* A client has no other URL than the one it asked for, however often it asks.
LEMMA ClientsAskForTheirPage == Spec => []AsksForItsPage
<1>1. Init => AsksForItsPage
  <2> SUFFICES ASSUME Init PROVE AsksForItsPage
    OBVIOUS
  <2>1. sent \in [Clients -> 0..MostSent] /\ Len(clientConnections) = 0
    BY NetworkAssumption DEF Init, NetInit, MostSent
  <2>2. QED
    BY <2>1 DEF AsksForItsPage
<1>2. IInv /\ AsksForItsPage /\ [Next]_vars => AsksForItsPage'
  BY StepKeepsAsking
<1>3. QED
  BY <1>1, <1>2, InvariantHolds, PTL DEF Spec

-----------------------------------------------------------------------------
(***************************************************************************)
(* What a client has been sent.                                            *)
(***************************************************************************)
\* Nothing that is in a node is lost or changed: nodes only grow at the end.
LEMMA NodesGrow ==
  ASSUME IInv, [Next]_vars, NEW url
  PROVE  /\ nodeData(url) \in Seq(Units)
         /\ \E more \in Seq(Units) : nodeData(url)' = nodeData(url) \o more
<1>1. nodeData(url) \in Seq(Units)
  BY DEF nodeData, contains, IInv, Types, CacheTyped
<1>2. <<>> \in Seq(Units) /\ nodeData(url) = nodeData(url) \o <<>>
  BY <1>1, ConcatEmptySeq
<1>3. CASE cacheMap' = cacheMap
  <2>1. nodeData(url)' = nodeData(url)
    BY <1>3 DEF nodeData, contains
  <2>2. QED
    BY <1>1, <1>2, <2>1
<1>4. CASE \E v : getCurrentData(v)
  <2>1. nodeData(url)' = nodeData(url)
    BY <1>4 DEF nodeData, contains, getCurrentData, Assign
  <2>2. QED
    BY <1>1, <1>2, <2>1
<1>5. CASE ServerReceivesData
  <2>1. PICK n \in 1..BUF_SIZE : addData(server.URl, ReceivedUnits(server.socketFd, n)) /\ ServerTurn
    BY <1>5 DEF ServerReceivesData, ServerReadable
  <2>2. n \in Nat /\ server.URl \in Urls /\ server.socketFd \in DOMAIN sock
    BY <2>1, ServerAtTurn, NetworkAssumption
  <2>3. cacheReady' = cacheReady
    BY <1>5 DEF ServerReceivesData
  <2>4. CacheTyped'
    BY <2>1, <2>2, <2>3, DataIsTyped
  <2> DEFINE data == ReceivedUnits(server.socketFd, n)
  <2>5. data \in Seq(Units)
    <3>1. sock[server.socketFd] \in Socket
      BY <2>1, ServerAtTurn
    <3>2. \A i \in 1..n : Unit(sock[server.socketFd].fetch, sock[server.socketFd].req,
                               sock[server.socketFd].next + i) \in Units
      BY <3>1 DEF Unit, Units, Socket
    <3>3. QED
      BY <2>2, <3>2 DEF ReceivedUnits
  <2> HIDE DEF data
  <2>6. cacheMap' = Assign(cacheMap, server.URl, nodeData(server.URl) \o data)
    BY <2>1 DEF addData, data
  <2>7. CASE url = server.URl
    <3>1. nodeData(url)' = nodeData(url) \o data
      BY <2>6, <2>7 DEF nodeData, contains, Assign
    <3>2. QED
      BY <1>1, <2>5, <3>1
  <2>8. CASE url # server.URl
    <3>1. nodeData(url)' = nodeData(url)
      BY <2>6, <2>8 DEF nodeData, contains, Assign
    <3>2. QED
      BY <1>1, <1>2, <3>1
  <2>9. QED
    BY <2>7, <2>8
<1>6. cacheMap' = cacheMap \/ ServerReceivesData \/ \E v : getCurrentData(v)
  BY CacheUntouched DEF cacheVars, ClientServed, ClientSendFails, ClientStartsFetch, ServerReceivesEnd
<1>7. QED
  BY <1>3, <1>4, <1>5, <1>6

\* The units of node a client with that offset has been sent.
Served(offset, node, units) == offset \in 0..Len(node) /\ units = SubSeq(node, 1, offset)

\* What has been sent is the start of a longer node as well.
LEMMA ServedOfMore ==
  ASSUME NEW node \in Seq(Units), NEW more \in Seq(Units), NEW offset, NEW units,
         Served(offset, node, units)
  PROVE  Served(offset, node \o more, units)
<1>1. /\ Len(node) \in Nat /\ Len(node \o more) = Len(node) + Len(more) /\ Len(more) \in Nat
      /\ offset \in 0..Len(node)
  BY ConcatProperties, LenProperties DEF Served
<1>2. SubSeq(node \o more, 1, offset) = SubSeq(node, 1, offset)
  <2>1. CASE offset = 0
    BY <2>1, SubSeqEmpty
  <2>2. CASE offset # 0
    BY <1>1, <2>2, SubSeqOfConcat1
  <2>3. QED
    BY <2>1, <2>2
<1>3. QED
  BY <1>1, <1>2 DEF Served

\* A send() continues where the last one ended.
LEMMA ServedFurther ==
  ASSUME NEW node \in Seq(Units), NEW offset, NEW units, Served(offset, node, units),
         NEW n \in Nat, offset + n <= Len(node)
  PROVE  Served(offset + n, node, units \o SentUnits(node, offset, n))
<1>1. Len(node) \in Nat /\ DOMAIN node = 1..Len(node) /\ offset \in 0..Len(node)
  BY LenProperties DEF Served
<1>2. SentUnits(node, offset, n) = [i \in 1..n |-> node[offset + i]]
  BY <1>1 DEF SentUnits
<1>3. SubSeq(node, offset + 1, offset + n) = [i \in 1..n |-> node[offset + i]]
  <2> DEFINE a == SubSeq(node, offset + 1, offset + n)
             b == [i \in 1..n |-> node[offset + i]]
  <2>1. \A i \in offset + 1 .. offset + n : node[i] \in Units
    BY <1>1, ElementOfSeq
  <2>2. /\ a \in Seq(Units) /\ Len(a) = n
        /\ \A i \in 1..n : a[i] = node[offset + 1 + i - 1]
    BY <1>1, <2>1, SubSeqProperties
  <2>3. \A i \in 1..n : offset + 1 + i - 1 = offset + i
    BY <1>1
  <2>4. b \in Seq(Units) /\ Len(b) = n
    <3>1. \A i \in 1..n : node[offset + i] \in Units
      BY <1>1, <2>1
    <3>2. QED
      BY <3>1
  <2>5. \A i \in 1..n : a[i] = b[i]
    BY <2>2, <2>3
  <2> HIDE DEF a, b
  <2>6. a = b
    BY <2>2, <2>4, <2>5, SeqEqual
  <2>7. QED
    BY <2>6 DEF a, b
<1>4. SubSeq(node, 1, offset) \o SubSeq(node, offset + 1, offset + n) = SubSeq(node, 1, offset + n)
  <2>1. /\ 1 \in 1..Len(node) + 1 /\ offset \in 1 - 1 .. Len(node)
        /\ offset + n \in offset..Len(node)
    BY <1>1
  <2>2. QED
    BY <2>1, ConcatAdjacentSubSeq
<1>5. SentUnits(node, offset, n) = SubSeq(node, offset + 1, offset + n)
  BY <1>2, <1>3
<1>6. units = SubSeq(node, 1, offset)
  BY DEF Served
<1>7. units \o SentUnits(node, offset, n) = SubSeq(node, 1, offset + n)
  BY <1>4, <1>5, <1>6
<1>8. QED
  BY <1>1, <1>7 DEF Served

\* The units sent to client c are a part of its node from the start, if no
\* send() to it has failed with EWOULDBLOCK.
SentOf(c) ==
    LET offset == cacheOffsets[c.socketFd]
        node == nodeData(c.URl)
    IN  /\ offset <= Len(node)
        /\ sock[c.socketFd].txq \in 0..SndBuf
        /\ wouldBlocks[c.buffer] = 0 => Served(offset, node, got[c.buffer])

(***************************************************************************)
(* What clients have been sent.  Those that are not connected yet have     *)
(* been sent nothing.                                                      *)
(***************************************************************************)
SentInv ==
    /\ got \in [Clients -> Seq(Units)] /\ wouldBlocks \in [Clients -> 0..MaxBlocks]
    /\ \A x \in Clients : request[x] = NoUrl => got[x] = <<>>
    /\ \A k \in 1..Len(backlog) : got[backlog[k]] = <<>>
    /\ Running => \A i \in 1..Len(clientConnections) : SentOf(clientConnections[i])

\* send() of n units sends n units, whatever the offset; a failed one sends none.
LEMMA SentUnitsTyped ==
  ASSUME NEW node \in Seq(Units), NEW offset \in Int, NEW n \in Int
  PROVE  /\ SentUnits(node, offset, n) \in Seq(Units)
         /\ Len(SentUnits(node, offset, n)) = IF n < 0 THEN 0 ELSE n
<1> DEFINE u(i) == IF offset + i \in DOMAIN node THEN node[offset + i] ELSE Junk
           m == IF n < 0 THEN 0 ELSE n
<1>1. \A i \in Int : u(i) \in Units
  <2>1. Junk \in Units
    BY DEF Junk, Unit, Units
  <2>2. \A i \in DOMAIN node : node[i] \in Units
    BY LenProperties, ElementOfSeq
  <2>3. QED
    BY <2>1, <2>2
<1>2. 1..n = 1..m /\ m \in Nat /\ 1..m \subseteq Int
  OBVIOUS
<1>3. SentUnits(node, offset, n) = [i \in 1..m |-> u(i)]
  BY <1>2 DEF SentUnits
<1> HIDE DEF u
<1>4. [i \in 1..m |-> u(i)] \in Seq(Units) /\ Len([i \in 1..m |-> u(i)]) = m
  BY <1>1, <1>2
<1>5. QED
  BY <1>3, <1>4

\* A send() stays inside the node and inside the send buffer.
LEMMA SendFits ==
  ASSUME IInv, SentInv, Running, it \in 1..Len(clientConnections),
         client = clientConnections[it], NEW node, node = nodeData(client.URl),
         NEW offset, offset = cacheOffsets[client.socketFd],
         NEW n \in SendResults(client.socketFd, Len(node) - offset)
  PROVE  /\ n \in Int /\ offset \in Int /\ node \in Seq(Units)
         /\ offset + n <= Len(node)
         /\ SentUnits(node, offset, n) \in Seq(Units)
         /\ sock[client.socketFd].txq + Len(SentUnits(node, offset, n)) \in 0..SndBuf
         /\ n < 0 => wouldBlocks[client.buffer] < MaxBlocks
<1> DEFINE q == sock[client.socketFd].txq
<1>1. /\ q \in 0..SndBuf /\ offset <= Len(node)
      /\ client.socketFd \in DOMAIN cacheOffsets
      /\ sock[client.socketFd].peer = client.buffer
  BY WhenRunning DEF ConnectionsOpen, SentInv, SentOf
<1>2. /\ offset \in Int /\ node \in Seq(Units) /\ Len(node) \in Nat /\ SndBuf \in Nat
  <2>1. node \in Seq(Units)
    BY DEF nodeData, contains, IInv, Types, CacheTyped
  <2>2. offset \in Int
    BY <1>1 DEF IInv, Types
  <2>3. QED
    BY <2>1, <2>2, LenProperties, NetworkAssumption
<1>3. \/ n = SmallerOf(Len(node) - offset, SndBuf - q)
      \/ n = -1 /\ wouldBlocks[client.buffer] < MaxBlocks
  BY <1>1 DEF SendResults
<1> HIDE DEF q
<1>4. /\ n \in Int /\ offset + n <= Len(node)
      /\ n < 0 => wouldBlocks[client.buffer] < MaxBlocks
      /\ n < 0 \/ n <= SndBuf - q
  <2>1. CASE n = SmallerOf(Len(node) - offset, SndBuf - q)
    <3>1. n \in Nat /\ n <= Len(node) - offset /\ n <= SndBuf - q
      BY <1>1, <1>2, <2>1 DEF SmallerOf
    <3>2. QED
      BY <1>2, <3>1
  <2>2. CASE n = -1 /\ wouldBlocks[client.buffer] < MaxBlocks
    BY <1>1, <1>2, <2>2
  <2>3. QED
    BY <1>3, <2>1, <2>2
<1>5. /\ SentUnits(node, offset, n) \in Seq(Units)
      /\ Len(SentUnits(node, offset, n)) = IF n < 0 THEN 0 ELSE n
  BY <1>2, <1>4, SentUnitsTyped
<1>6. q + Len(SentUnits(node, offset, n)) \in 0..SndBuf
  BY <1>1, <1>2, <1>4, <1>5
<1>7. QED
  BY <1>2, <1>4, <1>5, <1>6 DEF q

\* Nobody forgets what it asked, and only those who connect start to wait.
LEMMA AskersStay ==
  ASSUME IInv, [Next]_vars
  PROVE  /\ \A x \in Clients : request'[x] = NoUrl => request[x] = NoUrl
         /\ \A k \in 1..Len(backlog') :
                /\ backlog'[k] \in Clients
                /\ \/ request[backlog'[k]] = NoUrl
                   \/ \E l \in 1..Len(backlog) : backlog'[k] = backlog[l]
<1>1. \A x \in Clients : request'[x] = NoUrl => request[x] = NoUrl
  <2>1. CASE Outside
    <3>1. \/ \E x \in Clients : ClientConnect(x)
          \/ request' = request
      BY <2>1 DEF Outside, ClientStep, OriginStep, ClientSend, ClientRead, ClientLeaves,
         OriginAccept, OriginSend, OriginClose, OriginReset
    <3>2. request \in [Clients -> Urls \cup {Malformed, NoUrl}]
      BY DEF IInv, Types
    <3>3. QED
      BY <3>1, <3>2 DEF ClientConnect
  <2>2. QED
    BY <2>1, LoopAsksNothing
<1>2. \A k \in 1..Len(backlog') : /\ backlog'[k] \in Clients
                                  /\ \/ request[backlog'[k]] = NoUrl
                                     \/ \E l \in 1..Len(backlog) : backlog'[k] = backlog[l]
  <2>0. backlog \in Seq(Clients) /\ \A l \in 1..Len(backlog) : backlog[l] \in Clients
    BY ElementOfSeq DEF IInv, Types
  <2>1. CASE \E x \in Clients : ClientConnect(x)
    <3>1. PICK x \in Clients : request[x] = NoUrl /\ backlog' = Append(backlog, x)
      BY <2>1 DEF ClientConnect
    <3>2. QED
      BY <2>0, <3>1
  <2>2. CASE addNewConnection
    <3>1. backlog' = backlog \/ backlog' = Tail(backlog)
      BY <2>2 DEF addNewConnection
    <3>2. backlog # <<>>
      BY <2>2 DEF addNewConnection, IInv
    <3>3. QED
      BY <2>0, <3>1, <3>2
  <2>3. CASE backlog' = backlog
    BY <2>0, <2>3
  <2>4. backlog' = backlog \/ addNewConnection \/ \E x \in Clients : ClientConnect(x)
    <3>1. CASE Outside
      BY <3>1 DEF Outside, ClientStep, OriginStep, ClientSend, ClientRead, ClientLeaves,
         OriginAccept, OriginSend, OriginClose, OriginReset
    <3>2. CASE Moves
      BY <3>2, MovingOn DEF netVars
    <3>3. CASE Reads \/ ClientServed \/ ServerReceivesData \/ ServerSendsRequest \/ stop
      BY <3>3 DEF Reads, ClientReceivesPart, ClientAsksForCached, ClientStartsFetch, ClientServed,
         ServerReceivesData, ServerSendsRequest, stop, peerVars
    <3>4. CASE ClientGoes \/ ServerGoes
      BY <3>4, ClientGoing, ServerGoing
    <3>5. QED
      BY <3>1, <3>2, <3>3, <3>4, Steps
  <2>5. QED
    BY <2>1, <2>2, <2>3, <2>4
<1>3. QED
  BY <1>1, <1>2

\* What is sent is made of units, and nothing is sent before the client asks.
LEMMA SentTyped ==
  ASSUME IInv, SentInv, [Next]_vars
  PROVE  /\ got' \in [Clients -> Seq(Units)] /\ wouldBlocks' \in [Clients -> 0..MaxBlocks]
         /\ \A x \in Clients : request'[x] = NoUrl => got'[x] = <<>>
         /\ \A k \in 1..Len(backlog') : got'[backlog'[k]] = <<>>
<1>1. \A x \in Clients : request'[x] = NoUrl => request[x] = NoUrl
  BY AskersStay
<1>2. \A k \in 1..Len(backlog') : /\ backlog'[k] \in Clients
                                  /\ \/ request[backlog'[k]] = NoUrl
                                     \/ \E l \in 1..Len(backlog) : backlog'[k] = backlog[l]
  BY AskersStay
<1>3. CASE ~ClientServed
  <2>1. got' = got /\ wouldBlocks' = wouldBlocks
    BY <1>3, NothingSent
  <2>2. /\ got' \in [Clients -> Seq(Units)] /\ wouldBlocks' \in [Clients -> 0..MaxBlocks]
        /\ \A x \in Clients : request'[x] = NoUrl => got'[x] = <<>>
    <3>1. got' \in [Clients -> Seq(Units)] /\ wouldBlocks' \in [Clients -> 0..MaxBlocks]
      BY <2>1 DEF SentInv
    <3>2. ASSUME NEW x \in Clients, request'[x] = NoUrl PROVE got'[x] = <<>>
      BY <1>1, <2>1, <3>2 DEF SentInv
    <3>3. QED
      BY <3>1, <3>2
  <2>3. ASSUME NEW k \in 1..Len(backlog') PROVE got'[backlog'[k]] = <<>>
    BY <1>2, <2>1 DEF SentInv
  <2>4. QED
    BY <2>2, <2>3
<1>4. CASE ClientServed
  <2> DEFINE fd == client.socketFd
             node == nodeData(client.URl)
             b == client.buffer
  <2>1. /\ it \in 1..Len(clientConnections) /\ client = clientConnections[it]
        /\ Running /\ sock[fd].peer = b
    BY <1>4, Turns, ClientAtTurn DEF ClientServed, ClientWritable
  <2>2. PICK n \in SendResults(fd, Len(node) - cacheOffsets[fd]) :
            /\ got' = [got EXCEPT ![b] = @ \o SentUnits(node, cacheOffsets[fd], n)]
            /\ wouldBlocks' = [wouldBlocks EXCEPT ![b] = IF n < 0 THEN @ + 1 ELSE @]
    <3>1. PICK n \in SendResults(fd, Len(node) - cacheOffsets[fd]) :
            /\ got' = [got EXCEPT ![sock[fd].peer] = @ \o SentUnits(node, cacheOffsets[fd], n)]
            /\ wouldBlocks' = [wouldBlocks EXCEPT ![sock[fd].peer] = IF n < 0 THEN @ + 1 ELSE @]
      BY <1>4 DEF ClientServed
    <3>2. QED
      BY <2>1, <3>1
  <2>3. /\ n < 0 => wouldBlocks[b] < MaxBlocks
        /\ SentUnits(node, cacheOffsets[fd], n) \in Seq(Units)
    BY <2>1, SendFits
  <2>4. b \in Clients /\ request[b] # NoUrl /\ \A k \in 1..Len(backlog) : backlog[k] # b
    BY <2>1, WhenRunning DEF ConnectionsOpen, IInv, Known
  <2> HIDE DEF fd, node, b
  <2>5. got[b] \in Seq(Units) /\ wouldBlocks[b] \in 0..MaxBlocks /\ MaxBlocks \in Nat
    BY <2>4, NetworkAssumption DEF SentInv
  <2>6. got[b] \o SentUnits(node, cacheOffsets[fd], n) \in Seq(Units)
    BY <2>3, <2>5, ConcatProperties
  <2>7. got' \in [Clients -> Seq(Units)]
    BY <2>2, <2>6 DEF SentInv
  <2>8. wouldBlocks' \in [Clients -> 0..MaxBlocks]
    <3> DEFINE m == IF n < 0 THEN wouldBlocks[b] + 1 ELSE wouldBlocks[b]
    <3>1. m \in 0..MaxBlocks
      BY <2>3, <2>5
    <3>2. wouldBlocks' = [wouldBlocks EXCEPT ![b] = m]
      BY <2>2
    <3> HIDE DEF m
    <3>3. QED
      BY <3>1, <3>2 DEF SentInv
  <2>9. \A x \in Clients : x # b => got'[x] = got[x]
    BY <2>2 DEF SentInv
  <2>10. \A k \in 1..Len(backlog') : backlog'[k] # b
    BY <1>2, <2>4
  <2>11. \A x \in Clients : request'[x] = NoUrl => got'[x] = <<>>
    BY <1>1, <2>4, <2>9 DEF SentInv
  <2>12. \A k \in 1..Len(backlog') : got'[backlog'[k]] = <<>>
    BY <1>2, <2>9, <2>10 DEF SentInv
  <2>13. QED
    BY <2>7, <2>8, <2>11, <2>12
<1>5. QED
  BY <1>3, <1>4

\* Who has no URL has no page.
NoPage == nodeData(NoUrl) = <<>>

\* The cache has no node for a client without a URL.
LEMMA NoPageWithoutUrl == IInv => NoPage
BY NetworkAssumption DEF IInv, Types, CacheTyped, NoPage, nodeData, contains

\* It has none after a step.
LEMMA NoPageNext == IInv' => NoPage'
BY NoPageWithoutUrl, PTL

\* What remains true of a client when its node has grown.
LEMMA StillSent ==
  ASSUME NEW node \in Seq(Units), NEW more \in Seq(Units), NEW offset \in Int, NEW units, NEW blocks,
         offset <= Len(node), blocks = 0 => Served(offset, node, units)
  PROVE  /\ offset <= Len(node \o more)
         /\ blocks = 0 => Served(offset, node \o more, units)
BY ServedOfMore, ConcatProperties, LenProperties

\* What happens outside the loop sends nothing.
LEMMA OutsideKeepsSent ==
  ASSUME IInv, SentInv, Outside, NEW i \in 1..Len(clientConnections), NEW c, c = clientConnections[i]
  PROVE  SentOf(c)'
<1>1. /\ Running /\ ConnectionsOpen /\ cacheOffsets' = cacheOffsets /\ cacheMap' = cacheMap
      /\ wouldBlocks' = wouldBlocks /\ clientConnections' = clientConnections
  BY WhenRunning DEF Outside, ProgramVars, fdVars, cacheVars, histVars, tableVars
<1>2. got' = got
  BY <1>1 DEF Outside, ClientStep, OriginStep, ClientConnect, ClientSend, ClientRead, ClientLeaves,
     OriginAccept, OriginSend, OriginClose, OriginReset
<1>3. c.socketFd \in DOMAIN sock /\ sock[c.socketFd] \in Socket
  BY <1>1 DEF ConnectionsOpen
<1>4. sock'[c.socketFd].txq \in {sock[c.socketFd].txq, 0}
  <2>1. CASE ClientStep
    <3>1. \/ \E x \in Clients : ClientConnect(x)
          \/ \E fd \in DOMAIN sock : ClientSend(fd) \/ ClientRead(fd) \/ ClientLeaves(fd)
      BY <2>1 DEF ClientStep
    <3>2. CASE \E x \in Clients : ClientConnect(x)
      BY <3>2 DEF ClientConnect
    <3>3. CASE \E fd \in DOMAIN sock : ClientSend(fd) \/ ClientRead(fd)
      BY <1>3, <3>3 DEF ClientSend, ClientRead, Socket
    <3>4. CASE \E fd \in DOMAIN sock : ClientLeaves(fd)
      BY <1>3, <3>4 DEF ClientLeaves, Socket
    <3>5. QED
      BY <3>1, <3>2, <3>3, <3>4
  <2>2. CASE OriginStep
    BY <1>3, <2>2 DEF OriginStep, OriginAccept, OriginSend, OriginClose, OriginReset, Socket
  <2>3. QED
    BY <2>1, <2>2 DEF Outside
<1>5. SentOf(c)
  BY <1>1 DEF SentInv
<1>6. nodeData(c.URl)' = nodeData(c.URl) /\ 0 \in 0..SndBuf
  BY <1>1, NetworkAssumption DEF nodeData, contains
<1>7. QED
  BY <1>1, <1>2, <1>4, <1>5, <1>6 DEF SentOf

\* What a client of the next state has been sent is the start of its node.
LEMMA SentNext ==
  ASSUME IInv, IInv', AsksForItsPage, SentInv, [Next]_vars, ~Outside, Running',
         NEW j \in 1..Len(clientConnections'), NEW d, d = clientConnections'[j]
  PROVE  SentOf(d)'
<1> DEFINE f == pollFds'[d.pollFdsIndex]
<1>1. Descends(d, f) /\ Running
  BY ClientsDescend, RunningBefore
<1>2. \A url : /\ nodeData(url) \in Seq(Units)
               /\ \E more \in Seq(Units) : nodeData(url)' = nodeData(url) \o more
  BY NodesGrow
<1>3. CASE IsNew(d, f)
  <2>1. /\ sock' = Assign(sock, d.socketFd, ClientSocket(d.buffer))
        /\ cacheOffsets' = Assign(cacheOffsets, d.socketFd, 0)
        /\ d.buffer = backlog[1] /\ 1 \in 1..Len(backlog)
    BY <1>3, AcceptedAsks
  <2>2. got' = got /\ d.URl = NoUrl
    BY <1>3 DEF IsNew, addNewConnection
  <2>3. got'[d.buffer] = <<>>
    BY <2>1, <2>2 DEF SentInv
  <2>4. nodeData(d.URl)' = <<>>
    BY <2>2, NoPageNext DEF NoPage
  <2>5. cacheOffsets'[d.socketFd] = 0 /\ sock'[d.socketFd].txq = 0
    BY <2>1 DEF Assign, ClientSocket
  <2>6. SubSeq(<<>>, 1, 0) = <<>> /\ Len(<<>>) = 0
    BY SubSeqEmpty
  <2>7. Served(0, <<>>, <<>>)
    BY <2>6 DEF Served
  <2>8. QED
    BY <2>3, <2>4, <2>5, <2>6, <2>7, NetworkAssumption DEF SentOf
<1>4. ASSUME NEW k \in 1..Len(clientConnections), Was(d, f, k)
      PROVE  SentOf(d)'
  <2>1. SentOf(clientConnections[k]) /\ ConnectionsOpen
    BY <1>1, WhenRunning DEF SentInv
  <2>2. PICK more \in Seq(Units) : nodeData(d.URl)' = nodeData(d.URl) \o more
    BY <1>2
  <2>3. CASE Undisturbed(k)
    <3> DEFINE c == clientConnections[k]
    <3>1. /\ d.socketFd = c.socketFd /\ d.buffer = c.buffer /\ d.URl = c.URl
          /\ sock'[d.socketFd] = sock[c.socketFd]
          /\ cacheOffsets'[d.socketFd] = cacheOffsets[c.socketFd]
          /\ got'[d.buffer] = got[c.buffer] /\ wouldBlocks'[d.buffer] = wouldBlocks[c.buffer]
      BY <1>4, <2>3, OthersKeep
    <3>2. SentOf(c) /\ cacheOffsets[c.socketFd] \in Int
      BY <2>1 DEF ConnectionsOpen, IInv, Types
    <3> HIDE DEF c
    <3>3. /\ cacheOffsets[c.socketFd] <= Len(nodeData(c.URl) \o more)
          /\ wouldBlocks[c.buffer] = 0 =>
                Served(cacheOffsets[c.socketFd], nodeData(c.URl) \o more, got[c.buffer])
      BY <1>2, <3>2, StillSent DEF SentOf
    <3>4. QED
      BY <2>2, <3>1, <3>2, <3>3 DEF SentOf
  <2>4. CASE k = it /\ Reads
    <3>1. client = clientConnections[it] /\ d.socketFd = client.socketFd /\ d.buffer = client.buffer
      BY <1>4, <2>4, Turns DEF Was
    <3>2. client.URl \in {NoUrl, d.URl}
      BY <2>4, <3>1, ReadingAsks
    <3>3. SentOf(client) /\ (client.URl = NoUrl => nodeData(client.URl) = <<>>)
      BY <2>1, <2>4, <3>1, NoPageWithoutUrl DEF NoPage
    <3>4. cacheOffsets' = cacheOffsets /\ got' = got /\ wouldBlocks' = wouldBlocks
      BY <2>4 DEF Reads, ClientReceivesPart, ClientAsksForCached, ClientStartsFetch, peerVars, histVars
    <3>5. sock'[client.socketFd].txq = sock[client.socketFd].txq
      <4>1. client.socketFd \in DOMAIN sock /\ sock[client.socketFd] \in Socket
        BY <2>1, <2>4, <3>1 DEF ConnectionsOpen
      <4>2. PICK n : \/ sock' = Received(client.socketFd, n)
                     \/ /\ FreeDescriptors # {}
                        /\ \E s : sock' = Assign(Received(client.socketFd, n), NewDescriptor, s)
        BY <2>4 DEF Reads, ClientReceivesPart, ClientAsksForCached, ClientStartsFetch
      <4> DEFINE r == Received(client.socketFd, n)
      <4>3. /\ client.socketFd \in DOMAIN r
            /\ r[client.socketFd].txq = sock[client.socketFd].txq
        BY <4>1 DEF Received, Socket
      <4>4. FreeDescriptors # {} => NewDescriptor # client.socketFd
        BY <1>1, <4>1, NewDescriptorIsNew
      <4> HIDE DEF r
      <4>5. QED
        BY <4>2, <4>3, <4>4 DEF Assign, r
    <3>6. cacheOffsets[client.socketFd] \in Int
      BY <2>1, <2>4, <3>1 DEF ConnectionsOpen, IInv, Types
    <3> DEFINE node == nodeData(d.URl)'
    <3>7. node = nodeData(d.URl) \o more
      BY <2>2
    <3>8. node \in Seq(Units) /\ Len(node) \in Nat /\ SubSeq(node, 1, 0) = <<>>
      <4>1. node \in Seq(Units)
        BY <1>2, <2>2, ConcatProperties
      <4>2. QED
        BY <4>1, LenProperties, SubSeqEmpty
    <3> HIDE DEF node
    <3>9. /\ cacheOffsets[client.socketFd] <= Len(node)
          /\ wouldBlocks[client.buffer] = 0 =>
                Served(cacheOffsets[client.socketFd], node, got[client.buffer])
      <4>1. CASE client.URl = NoUrl
        <5>1. Len(<<>>) = 0 /\ SubSeq(<<>>, 1, 0) = <<>>
          BY SubSeqEmpty
        <5>2. /\ cacheOffsets[client.socketFd] <= 0
              /\ wouldBlocks[client.buffer] = 0 =>
                    cacheOffsets[client.socketFd] = 0 /\ got[client.buffer] = <<>>
          BY <3>3, <3>6, <4>1, <5>1 DEF SentOf, Served
        <5>3. Served(0, node, <<>>)
          BY <3>8 DEF Served
        <5>4. QED
          BY <3>6, <3>8, <5>2, <5>3
      <4>2. CASE client.URl = d.URl
        <5>1. /\ cacheOffsets[client.socketFd] <= Len(nodeData(d.URl))
              /\ wouldBlocks[client.buffer] = 0 =>
                    Served(cacheOffsets[client.socketFd], nodeData(d.URl), got[client.buffer])
          BY <3>3, <4>2 DEF SentOf
        <5>2. /\ cacheOffsets[client.socketFd] <= Len(nodeData(d.URl) \o more)
              /\ wouldBlocks[client.buffer] = 0 =>
                    Served(cacheOffsets[client.socketFd], nodeData(d.URl) \o more, got[client.buffer])
          BY <1>2, <3>6, <5>1, StillSent
        <5>3. QED
          BY <3>7, <5>2
      <4>3. QED
        BY <3>2, <4>1, <4>2
    <3>10. sock'[d.socketFd].txq \in 0..SndBuf
      BY <3>1, <3>3, <3>5 DEF SentOf
    <3>11. QED
      BY <3>1, <3>4, <3>9, <3>10 DEF SentOf, node
  <2>5. CASE k = it /\ ClientServed
    <3>1. it \in 1..Len(clientConnections) /\ client = clientConnections[it]
      BY <2>5, Turns
    <3>2. PICK n \in Int : d = client /\ ServedPart(n)
      BY <1>4, <2>5, <3>1, ServedAndStays DEF Was
    <3> DEFINE node == nodeData(client.URl)
               offset == cacheOffsets[client.socketFd]
               units == SentUnits(node, offset, n)
    <3>3. /\ n \in SendResults(client.socketFd, Len(node) - offset)
          /\ got' = [got EXCEPT ![client.buffer] = @ \o units]
          /\ wouldBlocks' = [wouldBlocks EXCEPT ![client.buffer] = IF n < 0 THEN @ + 1 ELSE @]
          /\ cacheOffsets' = [cacheOffsets EXCEPT ![client.socketFd] = offset + n]
          /\ sock' = [sock EXCEPT ![client.socketFd].txq = @ + Len(units)]
          /\ getCurrentData(client.URl)
      BY <3>2 DEF ServedPart
    <3>4. /\ offset \in Int /\ node \in Seq(Units) /\ offset + n <= Len(node)
          /\ sock[client.socketFd].txq + Len(units) \in 0..SndBuf
      BY <1>1, <3>1, <3>3, SendFits
    <3>5. /\ client.socketFd \in DOMAIN sock /\ sock[client.socketFd] \in Socket
          /\ client.socketFd \in DOMAIN cacheOffsets /\ client.buffer \in Clients
      BY <2>1, <3>1 DEF ConnectionsOpen
    <3>6. /\ sock'[client.socketFd].txq = sock[client.socketFd].txq + Len(units)
          /\ cacheOffsets'[client.socketFd] = offset + n
      BY <3>3, <3>5 DEF Socket
    <3> HIDE DEF node, offset, units
    <3>7. /\ got'[client.buffer] = got[client.buffer] \o units
          /\ wouldBlocks[client.buffer] \in Nat
          /\ wouldBlocks'[client.buffer] = IF n < 0 THEN wouldBlocks[client.buffer] + 1
                                           ELSE wouldBlocks[client.buffer]
      <4>1. /\ got \in [Clients -> Seq(Units)] /\ wouldBlocks \in [Clients -> 0..MaxBlocks]
            /\ MaxBlocks \in Nat
        BY NetworkAssumption DEF SentInv
      <4>2. wouldBlocks' = [wouldBlocks EXCEPT ![client.buffer] =
                                IF n < 0 THEN wouldBlocks[client.buffer] + 1
                                ELSE wouldBlocks[client.buffer]]
        BY <3>3, <3>5
      <4>3. got'[client.buffer] = got[client.buffer] \o units
        BY <3>3, <3>5, <4>1
      <4>4. QED
        BY <3>5, <4>1, <4>2, <4>3
    <3>8. nodeData(d.URl)' = node
      BY <3>2, <3>3 DEF getCurrentData, Assign, nodeData, contains, node
    <3>9. SentOf(client)
      BY <2>1, <2>5, <3>1
    <3>10. wouldBlocks'[client.buffer] = 0 => n >= 0 /\ Served(offset, node, got[client.buffer])
      BY <3>7, <3>9 DEF SentOf, node, offset
    <3>11. wouldBlocks'[client.buffer] = 0 => Served(offset + n, node, got'[client.buffer])
      BY <3>4, <3>7, <3>10, ServedFurther DEF units
    <3>12. QED
      BY <3>2, <3>4, <3>6, <3>8, <3>11 DEF SentOf
  <2>6. QED
    BY <2>3, <2>4, <2>5 DEF Undisturbed
<1>5. QED
  BY <1>1, <1>3, <1>4 DEF Descends

\* Every step keeps this.
LEMMA StepSent == IInv /\ AsksForItsPage /\ SentInv /\ [Next]_vars => SentInv'
<1> SUFFICES ASSUME IInv, AsksForItsPage, SentInv, [Next]_vars PROVE SentInv'
  OBVIOUS
<1>1. IInv'
  BY StepIInv
<1>2. ASSUME Running', NEW i \in 1..Len(clientConnections'), NEW c, c = clientConnections'[i]
      PROVE  SentOf(c)'
  <2>1. CASE Outside
    <3>1. clientConnections' = clientConnections
      BY <2>1 DEF Outside, ProgramVars, tableVars
    <3>2. QED
      BY <1>2, <2>1, <3>1, OutsideKeepsSent
  <2>2. QED
    BY <1>1, <1>2, <2>1, SentNext
<1>3. QED
  BY <1>2, SentTyped DEF SentInv

(***************************************************************************)
(* Whatever else happens, a client is sent its node from the start,        *)
(* without a gap or a repetition, until a send() to it fails with          *)
(* EWOULDBLOCK (lines 246-269).                                            *)
(***************************************************************************)
THEOREM SentInOrder == Spec => []SentInv
<1>1. Init => SentInv
  <2> SUFFICES ASSUME Init PROVE SentInv
    OBVIOUS
  <2>1. got \in [Clients -> Seq(Units)] /\ \A x \in Clients : got[x] = <<>>
    BY DEF Init, NetInit
  <2>2. wouldBlocks \in [Clients -> 0..MaxBlocks]
    BY NetworkAssumption DEF Init
  <2>3. Len(clientConnections) = 0 /\ Len(backlog) = 0
    BY DEF Init, NetInit
  <2>4. QED
    BY <2>1, <2>2, <2>3 DEF SentInv
<1>2. IInv /\ AsksForItsPage /\ SentInv /\ [Next]_vars => SentInv'
  BY StepSent
<1>3. QED
  BY <1>1, <1>2, InvariantHolds, ClientsAskForTheirPage, PTL DEF Spec

\* The property, where no send() fails with EWOULDBLOCK.
LEMMA SentInvImplies == IInv /\ SentInv /\ MaxBlocks = 0 => SentIsCachePrefix
<1> SUFFICES ASSUME IInv, SentInv, MaxBlocks = 0, Running, NEW i \in DOMAIN clientConnections,
                    NEW c, c = clientConnections[i]
             PROVE  got[peerOf(c)] = SubSeq(nodeData(c.URl), 1, cacheOffsets[c.socketFd])
  BY DEF SentIsCachePrefix
<1>1. i \in 1..Len(clientConnections)
  BY TableFacts
<1>2. c.buffer \in Clients /\ sock[c.socketFd].peer = c.buffer
  BY <1>1, WhenRunning DEF ConnectionsOpen
<1>3. SentOf(c) /\ wouldBlocks[c.buffer] = 0
  BY <1>1, <1>2 DEF SentInv
<1>4. QED
  BY <1>2, <1>3 DEF SentOf, Served, peerOf

(***************************************************************************)
(* Where no send() fails with EWOULDBLOCK, every client is sent its node   *)
(* in that order.                                                          *)
(***************************************************************************)
THEOREM PrefixesAreSent == Spec /\ MaxBlocks = 0 => []SentIsCachePrefix
<1>1. IInv /\ SentInv /\ MaxBlocks = 0 => SentIsCachePrefix
  BY SentInvImplies
<1>2. MaxBlocks = 0 /\ [Next]_vars => (MaxBlocks = 0)'
  OBVIOUS
<1>3. QED
  BY <1>1, <1>2, InvariantHolds, SentInOrder, PTL DEF Spec

-----------------------------------------------------------------------------
(***************************************************************************)
(* Which sockets there are.                                                *)
(***************************************************************************)
\* Where a socket that was not open comes from.
LEMMA NewSockets ==
  ASSUME IInv, [Next]_vars, NEW fd \in DOMAIN sock', fd \notin DOMAIN sock
  PROVE  \/ addNewConnection /\ sock'[fd] = ClientSocket(Head(backlog)) /\ Head(backlog) \in Clients
         \/ ClientStartsFetch /\ sock'[fd] = ServerSocket(Len(fetched) + 1)
         \/ /\ ClientGoes /\ faults \cap {"resolveFails", "connectFails"} # {}
            /\ sock'[fd] = ServerSocket(0)
<1>1. CASE Outside
  BY <1>1, PeersKeepSockets DEF Outside, Alike
<1>2. CASE Moves
  BY <1>2, MovingOn DEF netVars
<1>3. CASE addNewConnection
  <2>1. sock' = Assign(sock, NewDescriptor, ClientSocket(Head(backlog)))
    BY <1>3 DEF addNewConnection
  <2>2. backlog \in Seq(Clients) /\ backlog # <<>>
    BY <1>3 DEF addNewConnection, IInv, Types
  <2>3. Head(backlog) \in Clients
    BY <2>2, HeadTailProperties
  <2>4. QED
    BY <1>3, <2>1, <2>3 DEF Assign
<1>4. CASE Reads
  <2>1. PICK n : \/ sock' = Received(client.socketFd, n)
                 \/ /\ ClientStartsFetch
                    /\ sock' = Assign(Received(client.socketFd, n), NewDescriptor,
                                      ServerSocket(Len(fetched) + 1))
    BY <1>4 DEF Reads, ClientReceivesPart, ClientAsksForCached, ClientStartsFetch
  <2>2. DOMAIN Received(client.socketFd, n) = DOMAIN sock
    BY DEF Received
  <2>3. QED
    BY <2>1, <2>2 DEF Assign
<1>5. CASE ClientServed
  <2>1. PICK k : \/ \E sockets, how : /\ removeClientConnection(it, sockets, how)
                                      /\ sockets = [sock EXCEPT ![client.socketFd].txq = k]
                 \/ sock' = [sock EXCEPT ![client.socketFd].txq = k]
    BY <1>5 DEF ClientServed
  <2>2. QED
    BY <2>1 DEF removeClientConnection, removeConnection, Erase
<1>6. CASE ClientGoes
  <2>1. PICK sockets, how :
            /\ sockets = sock \/ (/\ FreeDescriptors # {}
                                  /\ sockets = Assign(sock, NewDescriptor, ServerSocket(0))
                                  /\ faults \cap {"resolveFails", "connectFails"} # {})
            /\ removeClientConnection(it, sockets, how)
    BY <1>6, ClientGoing
  <2>2. \E x : sock' = Erase(sockets, x)
    BY <2>1 DEF removeClientConnection, removeConnection
  <2>3. fd \in DOMAIN sockets /\ sock'[fd] = sockets[fd]
    BY <2>2 DEF Erase
  <2>4. QED
    BY <1>6, <2>1, <2>3 DEF Assign
<1>7. CASE ServerReceivesData \/ ServerSendsRequest
  BY <1>7 DEF ServerReceivesData, Received, ServerSendsRequest
<1>8. CASE ServerGoes
  <2>1. PICK table : removeServerConnection(it, table)
    BY <1>8, ServerGoing
  <2>2. QED
    BY <2>1 DEF removeServerConnection, removeConnection, Erase
<1>9. CASE stop
  BY <1>9 DEF stop
<1>10. QED
  BY <1>1, <1>2, <1>3, <1>4, <1>5, <1>6, <1>7, <1>8, <1>9, Steps

\* A socket keeps its peer and its fetch.
LEMMA OwnersStay ==
  ASSUME IInv, [Next]_vars, NEW fd \in DOMAIN sock, fd \in DOMAIN sock'
  PROVE  sock'[fd].peer = sock[fd].peer /\ sock'[fd].fetch = sock[fd].fetch
<1>0. sock[fd] \in Socket
  BY DEF IInv, Types
<1>1. CASE Outside
  BY <1>1, PeersKeepSockets DEF Outside, Alike
<1>2. CASE Reads
  <2>1. PICK n : \/ sock' = Received(client.socketFd, n)
                 \/ /\ FreeDescriptors # {}
                    /\ \E s : sock' = Assign(Received(client.socketFd, n), NewDescriptor, s)
    BY <1>2 DEF Reads, ClientReceivesPart, ClientAsksForCached, ClientStartsFetch
  <2> DEFINE r == Received(client.socketFd, n)
  <2>2. r[fd].peer = sock[fd].peer /\ r[fd].fetch = sock[fd].fetch /\ DOMAIN r = DOMAIN sock
    BY <1>0 DEF Received, Socket
  <2>3. FreeDescriptors # {} => NewDescriptor # fd
    <3>1. Running
      BY <1>2, Turns, ClientAtTurn DEF Reads, ClientReceivesPart, ClientAsksForCached,
         ClientStartsFetch, ReceivesRequest, Receives, ClientReadable
    <3>2. QED
      BY <3>1, NewDescriptorIsNew
  <2> HIDE DEF r
  <2>4. QED
    BY <2>1, <2>2, <2>3 DEF Assign, r
<1>3. CASE ClientServed
  <2>1. PICK k : \/ \E sockets, how : /\ removeClientConnection(it, sockets, how)
                                      /\ sockets = [sock EXCEPT ![client.socketFd].txq = k]
                 \/ sock' = [sock EXCEPT ![client.socketFd].txq = k]
    BY <1>3 DEF ClientServed
  <2> DEFINE r == [sock EXCEPT ![client.socketFd].txq = k]
  <2>2. r[fd].peer = sock[fd].peer /\ r[fd].fetch = sock[fd].fetch
    BY <1>0 DEF Socket
  <2> HIDE DEF r
  <2>3. sock' = r \/ \E x : sock' = Erase(r, x)
    BY <2>1 DEF removeClientConnection, removeConnection, r
  <2>4. QED
    BY <2>2, <2>3 DEF Erase
<1>4. CASE ServerReceivesData
  BY <1>0, <1>4 DEF ServerReceivesData, Received, Socket
<1>5. CASE ServerSendsRequest
  <2>1. PICK r : sock' = [sock EXCEPT ![server.socketFd].req = r]
    BY <1>5 DEF ServerSendsRequest
  <2>2. QED
    BY <1>0, <2>1 DEF Socket
<1>6. QED
  BY <1>1, <1>2, <1>3, <1>4, <1>5, SocketsStay

\* A program that has ended does nothing.
LEMMA EndIsFinal ==
  ASSUME IInv, [Next]_vars, ~Running
  PROVE  UNCHANGED vars
BY DEF Running, Next, Program, Outside, Poll, addNewConnection, checkClientsConnections,
       checkServerConnections, ClientIdle, ClientHungUp, ClientToldError, ClientServed, ClientSendFails,
       ClientReceivesEnd, ClientReceivesPart, ClientReceivesMalformed, ClientAsksForCached,
       ClientStartsFetch, ClientFetchFails, ClientsDone, ClientWritable, ClientReadable, ClientTurn,
       ReceivesRequest, Receives, ServerIdle, ServerHungUp, ServerReceivesData,
       ServerReceivesBadStatus, ServerReceivesEnd, ServerReceiveFails, ServerSendsRequest,
       ServerSendFails, ServerReadsFreedBuffer, RoundDone, ServerReadable, ServerWritable, ServerTurn

\* Only stop ends the program in order.
LEMMA OnlyStopExits ==
  ASSUME IInv, [Next]_vars, Running, pc' = "exited"
  PROVE  stop
<1>1. pc # "exited"
  BY DEF Running
<1>2. CASE Outside \/ Moves
  BY <1>1, <1>2 DEF Outside, ProgramVars, loopVars, turnVars, Moves, ClientIdle, ClientReceivesMalformed,
     ClientsDone, ServerIdle, ServerReadsFreedBuffer, Poll, RoundDone, Interrupt, vars
<1>3. CASE addNewConnection \/ Reads \/ ClientServed \/ ServerReceivesData \/ ServerSendsRequest
  BY <1>1, <1>3 DEF addNewConnection, Reads, ClientReceivesPart, ClientAsksForCached,
     ClientStartsFetch, ClientServed, ServerReceivesData, ServerSendsRequest, turnVars
<1>4. CASE ClientGoes \/ ServerGoes
  BY <1>1, <1>4, ClientGoing, ServerGoing
<1>5. QED
  BY <1>2, <1>3, <1>4, Steps

(***************************************************************************)
(* Every socket has an owner, so stop() finds all of them in pollFds.      *)
(***************************************************************************)
AllOwned ==
    /\ faults \cap {"resolveFails", "connectFails"} = {}
    /\ Running => \A fd \in DOMAIN sock : Owned(sock, fd)

StopInv == AllOwned /\ StopReleasesAll

\* Every step keeps this.
LEMMA StepStops == IInv /\ StopInv /\ [Next]_vars => StopInv'
<1> SUFFICES ASSUME IInv, StopInv, [Next]_vars PROVE StopInv'
  OBVIOUS
<1>1. IInv' /\ faults' \cap {"resolveFails", "connectFails"} = {}
  BY StepIInv, SurroundingsStay DEF StopInv, AllOwned
<1>2. ASSUME Running', NEW fd \in DOMAIN sock'
      PROVE  Owned(sock', fd)
  <2>1. Running
    BY <1>2, RunningBefore
  <2>2. CASE fd \in DOMAIN sock
    <3>1. Owned(sock, fd)
      BY <2>1, <2>2 DEF StopInv, AllOwned
    <3>2. QED
      BY <1>2, <2>2, <3>1, OwnersStay DEF Owned
  <2>3. CASE fd \notin DOMAIN sock
    <3>1. \/ \E c \in Clients : sock'[fd] = ClientSocket(c)
          \/ sock'[fd] = ServerSocket(Len(fetched) + 1)
      BY <1>2, <2>3, NewSockets DEF StopInv, AllOwned
    <3>2. Len(fetched) \in Nat
      BY LenProperties DEF IInv, Types
    <3>3. \A c \in Clients : ClientSocket(c).peer # Origin
      BY NetworkAssumption DEF ClientSocket
    <3>4. ServerSocket(Len(fetched) + 1).fetch = Len(fetched) + 1
      BY DEF ServerSocket, ClientSocket
    <3>5. QED
      BY <1>2, <3>1, <3>2, <3>3, <3>4 DEF Owned
  <2>4. QED
    BY <2>2, <2>3
<1>3. ASSUME pc' = "exited"
      PROVE  DOMAIN sock' = {} /\ DOMAIN heap' = {}
  <2>1. CASE ~Running
    <3>1. UNCHANGED <<pc, sock, heap>>
      BY <2>1, EndIsFinal DEF vars, netVars, loopVars, fdVars
    <3>2. QED
      BY <1>3, <3>1 DEF StopInv, StopReleasesAll
  <2>2. CASE Running
    <3>1. stop
      BY <1>3, <2>2, OnlyStopExits
    <3>2. \A fd \in DOMAIN sock : \E p \in DOMAIN pollFds : pollFds[p].fd = fd
      <4>1. DOMAIN sock \subseteq Descriptors /\ Open(pollFds, clientConnections, sock)
        BY <2>2 DEF IInv, Types
      <4>2. QED
        BY <2>2, <4>1, TableFacts DEF StopInv, AllOwned, Open
    <3>3. DOMAIN heap = {clientConnections[i].buffer : i \in DOMAIN clientConnections}
      BY <2>2, TableFacts DEF IInv, BuffersOf
    <3>4. QED
      BY <3>1, <3>2, <3>3 DEF stop
  <2>3. QED
    BY <2>1, <2>2
<1>4. QED
  BY <1>1, <1>2, <1>3 DEF StopInv, AllOwned, StopReleasesAll

(***************************************************************************)
(* Where no fetch is given up after its socket was opened, a signal leaves *)
(* neither a descriptor nor a request buffer behind, at whatever point of  *)
(* the loop it arrives (lines 52-64).                                      *)
(***************************************************************************)
THEOREM StopLeavesNothing ==
  Spec /\ Faultless({"resolveFails", "connectFails"}) => []StopReleasesAll
<1>1. Init /\ Faultless({"resolveFails", "connectFails"}) => StopInv
  <2> SUFFICES ASSUME Init, Faultless({"resolveFails", "connectFails"}) PROVE StopInv
    OBVIOUS
  <2>1. faults \cap {"resolveFails", "connectFails"} = {}
    BY DEF Init, NetInit, Faultless
  <2>2. DOMAIN sock = {} /\ pc = "poll"
    BY DEF Init, NetInit
  <2>3. QED
    BY <2>1, <2>2 DEF StopInv, AllOwned, StopReleasesAll
<1>2. IInv /\ StopInv /\ [Next]_vars => StopInv'
  BY StepStops
<1>3. StopInv => StopReleasesAll
  BY DEF StopInv
<1>4. QED
  BY <1>1, <1>2, <1>3, InvariantHolds, PTL DEF Spec

=============================================================================
