------------------------------- MODULE Proxy -------------------------------
(***************************************************************************)
(* The event loop of Proxy.cpp.  One thread waits in poll(), accepts at    *)
(* most one client, then walks clientConnections and serverConnections     *)
(* once, acting on the events poll() reported.  Clients, origins and the   *)
(* kernel (Network) move between any two of its steps; a signal may arrive *)
(* at any time.  A step here is one turn of one connection: everything the *)
(* code does for it between two system calls that can see the outside.     *)
(***************************************************************************)
EXTENDS Network, Cache

VARIABLES
    pc,                 \* poll, accept, clients, servers, exited or crashed
    it,                 \* the iterator of the pass that pc names
    isInterrupted,
    pollFds,            \* records [fd, events, revents]
    clientConnections,  \* records [socketFd, pollFdsIndex, URl, buffer]
    serverConnections,  \* the same; buffer is the buffer of a client
    cacheOffsets,       \* descriptor -> offset in the client's cache node
    errors,             \* descriptor -> error message
    heap,               \* live request buffers -> units received into them
    fetched,            \* history: the URL of every fetch started
    wouldBlocks         \* history: EWOULDBLOCK results per client

peerVars == <<backlog, request, sent, got>>
turnVars == <<pc, isInterrupted>>
loopVars == <<pc, it>>
tableVars == <<pollFds, clientConnections, serverConnections>>
fdVars == <<cacheOffsets, errors, heap>>
histVars == <<fetched, wouldBlocks, surroundings>>
vars == <<netVars, cacheVars, loopVars, isInterrupted, tableVars, fdVars, histVars>>

listenFd == 0

\* The texts of constants.h, and the first chunk of a response that was
\* not a 200, which is relayed as the error message.
SERVER_CONNECT == "SERVER_CONNECT"
INTERNAL_ERROR == "INTERNAL_ERROR"
OriginText == "OriginText"

Running == pc \notin {"exited", "crashed"}

Init ==
    /\ NetInit
    /\ CacheInit
    /\ pc = "poll" /\ it = 1
    /\ isInterrupted = FALSE
    /\ pollFds = <<[fd |-> listenFd, events |-> "IN", revents |-> {}]>>
    /\ clientConnections = <<>> /\ serverConnections = <<>>
    /\ cacheOffsets = <<>> /\ errors = <<>> /\ heap = <<>>
    /\ fetched = <<>>
    /\ wouldBlocks = [c \in Clients |-> 0]

reventsOf(connection) == pollFds[connection.pollFdsIndex].revents

\* Slip: the offset is kept but not used.
SentUnitsFromStart(node, offset, n) == [i \in 1..n |-> node[i]]

\* The bytes send() reads from a node: outside the vector it finds junk.
SentUnits(node, offset, n) ==
    [i \in 1..n |-> IF offset + i \in DOMAIN node THEN node[offset + i] ELSE Junk]

-----------------------------------------------------------------------------
(***************************************************************************)
(* poll() and accept().                                                    *)
(***************************************************************************)
Poll ==
    LET ready == [p \in DOMAIN pollFds |->
                    IF p = ACCEPT_INDEX
                    THEN {e \in {"IN"} : backlog # <<>>}
                    ELSE ReadyEvents(pollFds[p].fd, pollFds[p].events)]
    IN  /\ pc = "poll"
        /\ \E p \in DOMAIN pollFds : ready[p] # {}
        /\ pollFds' = [p \in DOMAIN pollFds |-> [pollFds[p] EXCEPT !.revents = ready[p]]]
        /\ pc' = IF "IN" \in ready[ACCEPT_INDEX] THEN "accept" ELSE "clients"
        /\ it' = 1
        /\ UNCHANGED <<netVars, cacheVars, isInterrupted, clientConnections, serverConnections, fdVars, histVars>>

\* addNewConnection; without a free descriptor accept() fails and the
\* client stays in the backlog.
addNewConnection ==
    /\ pc = "accept"
    /\ pc' = "clients"
    /\ IF FreeDescriptors = {}
       THEN UNCHANGED <<sock, backlog, pollFds, clientConnections, fdVars>>
       ELSE LET fd == NewDescriptor
                c == Head(backlog)
            IN  /\ backlog' = Tail(backlog)
                /\ sock' = Assign(sock, fd, ClientSocket(c))
                /\ pollFds' = Append(pollFds, [fd |-> fd, events |-> "IN", revents |-> {}])
                /\ clientConnections' = Append(clientConnections,
                        [socketFd |-> fd, pollFdsIndex |-> Len(pollFds) + 1,
                         URl |-> NoUrl, buffer |-> c])
                /\ cacheOffsets' = Assign(cacheOffsets, fd, 0)
                /\ heap' = Assign(heap, c, 0)
                /\ UNCHANGED errors
    /\ UNCHANGED <<request, sent, got, outcome, cacheVars, it, isInterrupted, serverConnections, histVars>>

-----------------------------------------------------------------------------
(***************************************************************************)
(* Removing a connection.  vector::erase(first, last) returns the end, so  *)
(* the pass that removes one stops there.                                  *)
(***************************************************************************)
\* Slips: the last pollfd goes instead of the connection's own; the
\* descriptor stays open.
removeConnectionAtBack(table, sockets, p, fd) ==
    /\ pollFds' = Front(table)
    /\ sock' = Erase(sockets, fd)

removeConnectionUnclosed(table, sockets, p, fd) ==
    /\ pollFds' = RemoveAt(table, p)
    /\ sock' = sockets

removeConnection(table, sockets, p, fd) ==
    /\ pollFds' = RemoveAt(table, p)
    /\ sock' = Erase(sockets, fd)

\* Slip: the buffer of the first client is freed, whoever is removed.
deleteFrontBuffer(i) == Erase(heap, clientConnections[1].buffer)

deleteBuffer(i) == Erase(heap, clientConnections[i].buffer)

removeClientConnection(i, sockets, how) ==
    LET c == clientConnections[i]
        p == c.pollFdsIndex
    IN  /\ errors' = Erase(errors, c.socketFd)
        /\ cacheOffsets' = Erase(cacheOffsets, c.socketFd)
        /\ heap' = deleteBuffer(i)
        /\ removeConnection(pollFds, sockets, p, c.socketFd)
        /\ serverConnections' = updatePollFdIndexes(serverConnections, p)
        /\ clientConnections' =
                eraseConnection(updatePollFdIndexes(clientConnections, p), i)
        /\ outcome' = [outcome EXCEPT ![sock[c.socketFd].peer] = how]
        /\ it' = Len(clientConnections)

removeServerConnection(j, table) ==
    LET s == serverConnections[j]
        p == s.pollFdsIndex
    IN  /\ removeConnection(table, sock, p, s.socketFd)
        /\ clientConnections' = updatePollFdIndexes(clientConnections, p)
        /\ serverConnections' =
                eraseConnection(updatePollFdIndexes(serverConnections, p), j)
        /\ it' = Len(serverConnections)

-----------------------------------------------------------------------------
(***************************************************************************)
(* checkClientsConnections.                                                *)
(***************************************************************************)
ClientTurn == pc = "clients" /\ it <= Len(clientConnections)
client == clientConnections[it]

ClientIdle ==
    /\ ClientTurn
    /\ reventsOf(client) = {}
    /\ it' = it + 1
    /\ UNCHANGED <<netVars, cacheVars, turnVars, tableVars, fdVars, histVars>>

\* checkIfError: SocketClosedException.
ClientHungUp ==
    /\ ClientTurn
    /\ "ERR" \in reventsOf(client)
    /\ removeClientConnection(it, sock, "dropped")
    /\ UNCHANGED <<peerVars, cacheVars, turnVars, histVars>>

ClientWritable ==
    /\ ClientTurn
    /\ "ERR" \notin reventsOf(client)
    /\ "OUT" \in reventsOf(client)

\* checkForErrors: the message goes out before anything of the cache.
ClientToldError ==
    /\ ClientWritable
    /\ client.socketFd \in DOMAIN errors
    /\ removeClientConnection(it, sock, "error")
    /\ UNCHANGED <<peerVars, cacheVars, turnVars, histVars>>

\* What send() of n units may return: what fits in the send buffer, or -1
\* with EWOULDBLOCK, which sendDataFromCache adds to the offset like a count.
SendResults(fd, n) ==
    {SmallerOf(n, SndBuf - sock[fd].txq)}
    \cup {r \in {-1} : wouldBlocks[sock[fd].peer] < MaxBlocks}

\* The flag of the node is the one read before send().
allDataHasBeenSent(ready, offset, node) == ready /\ offset = Len(node)

\* sendDataFromCache, and the removal of a client that has everything.
ClientServed ==
    LET fd == client.socketFd
        c == sock[fd].peer
        node == nodeData(client.URl)
        ready == cacheNodeReady(client.URl)
    IN  /\ ClientWritable
        /\ fd \notin DOMAIN errors
        /\ ~sock[fd].rst
        /\ getCurrentData(client.URl)
        /\ \E sendCount \in SendResults(fd, Len(node) - cacheOffsets[fd]) :
            LET offset == cacheOffsets[fd] + sendCount
                units == SentUnits(node, cacheOffsets[fd], sendCount)
                sockets == [sock EXCEPT ![fd].txq = @ + Len(units)]
            IN  /\ got' = [got EXCEPT ![c] = @ \o units]
                /\ wouldBlocks' = [wouldBlocks EXCEPT ![c] = IF sendCount < 0 THEN @ + 1 ELSE @]
                /\ \/ /\ allDataHasBeenSent(ready, offset, node)
                      /\ removeClientConnection(it, sockets, "complete")
                   \/ /\ ~allDataHasBeenSent(ready, offset, node)
                      /\ cacheOffsets' = [cacheOffsets EXCEPT ![fd] = offset]
                      /\ sock' = sockets
                      /\ pollFds' = [pollFds EXCEPT ![client.pollFdsIndex].events =
                                        IF ~ready \/ offset = Len(node) THEN "IN" ELSE @]
                      /\ it' = it + 1
                      /\ UNCHANGED <<clientConnections, serverConnections, errors, heap, outcome>>
        /\ UNCHANGED <<backlog, request, sent, cacheReady, turnVars, fetched, surroundings>>

\* send() fails: CACHE_SEND_ERROR is recorded, cannot be sent, and goes with
\* the connection.  The node was looked up, and so created, before.
ClientSendFails ==
    /\ ClientWritable
    /\ client.socketFd \notin DOMAIN errors
    /\ sock[client.socketFd].rst
    /\ getCurrentData(client.URl)
    /\ removeClientConnection(it, sock, "dropped")
    /\ UNCHANGED <<peerVars, cacheReady, turnVars, histVars>>

ClientReadable ==
    /\ ClientTurn
    /\ "ERR" \notin reventsOf(client)
    /\ "OUT" \notin reventsOf(client)
    /\ "IN" \in reventsOf(client)

\* receiveDataFromClient: end of file, or a failed recv() (INTERNAL_ERROR,
\* which cannot be sent on the reset connection).
ClientReceivesEnd ==
    /\ ClientReadable
    /\ recvCount(client.socketFd) <= 0
    /\ removeClientConnection(it, sock, "dropped")
    /\ UNCHANGED <<peerVars, cacheVars, turnVars, histVars>>

(***************************************************************************)
(* The last four bytes of the chunk are compared with CR LF CR LF.  When   *)
(* the chunk is shorter than that the comparison runs into whatever lies   *)
(* before the static buffer, and may come out either way; so it may for    *)
(* what a client sends behind its request, which may be anything.          *)
(***************************************************************************)
EndsRequest(total, n) ==
    {answer \in BOOLEAN :
        \/ total < ReqLen /\ answer = FALSE
        \/ total = ReqLen /\ (n < TermLen \/ answer = TRUE)
        \/ total > ReqLen}

\* What the turn receives, with its data appended to the client's buffer.
Receives(n) ==
    /\ ClientReadable
    /\ n > 0 /\ n = recvCount(client.socketFd)

ClientReceivesPart ==
    \E n \in 1..BUF_SIZE :
        LET fd == client.socketFd
            total == heap[client.buffer] + n
        IN  /\ Receives(n)
            /\ FALSE \in EndsRequest(total, n)
            /\ heap' = [heap EXCEPT ![client.buffer] = total]
            /\ sock' = Received(fd, n)
            /\ it' = it + 1
            /\ UNCHANGED <<peerVars, outcome, cacheVars, turnVars, tableVars, cacheOffsets, errors, histVars>>

\* The turn that has a whole request: parseHttpRequest and checkRequest,
\* which refuses nothing (its condition is never true).  A client that has
\* asked before and sends on gets here again, with the same request.
ReceivesRequest(n) ==
    /\ Receives(n)
    /\ TRUE \in EndsRequest(heap[client.buffer] + n, n)

\* parseHttpRequest throws a runtime_error that no handler in the loop
\* catches: it leaves start() and ends the program.
ClientReceivesMalformed ==
    /\ \E n \in 1..BUF_SIZE : ReceivesRequest(n)
    /\ request[sock[client.socketFd].peer] = Malformed
    /\ pc' = "crashed"
    /\ UNCHANGED <<netVars, cacheVars, it, isInterrupted, tableVars, fdVars, histVars>>

\* The connection once its request is known; the rebuilt request replaces
\* what its buffer held.
Asking(url) == [clientConnections EXCEPT ![it].URl = url]

ClientAsksForCached ==
    \E n \in 1..BUF_SIZE :
        LET fd == client.socketFd
            url == request[sock[fd].peer]
            p == client.pollFdsIndex
        IN  /\ ReceivesRequest(n)
            /\ url # Malformed /\ contains(url)
            /\ heap' = [heap EXCEPT ![client.buffer] = ReqLen]
            /\ sock' = Received(fd, n)
            /\ clientConnections' = Asking(url)
            /\ pollFds' = [pollFds EXCEPT ![p].revents = {}, ![p].events = "OUT"]
            /\ it' = it + 1
            /\ UNCHANGED <<peerVars, outcome, cacheVars, turnVars, serverConnections, cacheOffsets, errors, histVars>>

\* initServerConnection succeeds: the fetch shares the client's buffer.
ClientStartsFetch ==
    \E n \in 1..BUF_SIZE :
        LET fd == client.socketFd
            url == request[sock[fd].peer]
            p == client.pollFdsIndex
            serverSockFd == NewDescriptor
        IN  /\ ReceivesRequest(n)
            /\ url # Malformed /\ ~contains(url)
            /\ FreeDescriptors # {}
            /\ heap' = [heap EXCEPT ![client.buffer] = ReqLen]
            /\ sock' = Assign(Received(fd, n), serverSockFd, ServerSocket(Len(fetched) + 1))
            /\ fetched' = Append(fetched, url)
            /\ clientConnections' = Asking(url)
            /\ pollFds' = Append([pollFds EXCEPT ![p].revents = {}],
                                 [fd |-> serverSockFd, events |-> "OUT", revents |-> {}])
            /\ serverConnections' = Append(serverConnections,
                    [socketFd |-> serverSockFd, pollFdsIndex |-> Len(pollFds) + 1,
                     URl |-> url, buffer |-> client.buffer])
            /\ setNodeReady(url, FALSE)
            /\ it' = it + 1
            /\ UNCHANGED <<peerVars, outcome, cacheMap, turnVars, cacheOffsets, errors, wouldBlocks, surroundings>>

\* initServerConnection throws: no descriptor is left, or the host has no
\* address or connect() fails at once, and then the new socket stays open
\* without an owner.  The client is told and removed.
ClientFetchFails ==
    \E n \in 1..BUF_SIZE :
        LET fd == client.socketFd
            url == request[sock[fd].peer]
        IN  /\ ReceivesRequest(n)
            /\ url # Malformed /\ ~contains(url)
            /\ \/ /\ FreeDescriptors = {}
                  /\ removeClientConnection(it, sock, "error")
               \/ /\ FreeDescriptors # {}
                  /\ faults \cap {"resolveFails", "connectFails"} # {}
                  /\ removeClientConnection(it,
                        Assign(sock, NewDescriptor, ServerSocket(0)), "error")
            /\ UNCHANGED <<peerVars, cacheVars, turnVars, histVars>>

ClientsDone ==
    /\ pc = "clients" /\ it > Len(clientConnections)
    /\ pc' = "servers" /\ it' = 1
    /\ UNCHANGED <<netVars, cacheVars, isInterrupted, tableVars, fdVars, histVars>>

-----------------------------------------------------------------------------
(***************************************************************************)
(* checkServerConnections.                                                 *)
(***************************************************************************)
ServerTurn == pc = "servers" /\ it <= Len(serverConnections)
server == serverConnections[it]

ServerIdle ==
    /\ ServerTurn
    /\ reventsOf(server) = {}
    /\ it' = it + 1
    /\ UNCHANGED <<netVars, cacheVars, turnVars, tableVars, fdVars, histVars>>

ClientsOf(url) == {i \in DOMAIN clientConnections : clientConnections[i].URl = url}

\* Slips: every client is woken, whatever its URL; nobody is.
prepareAllClients(url) ==
    [p \in DOMAIN pollFds |->
        IF \E i \in DOMAIN clientConnections : clientConnections[i].pollFdsIndex = p
        THEN [pollFds[p] EXCEPT !.events = "OUT"] ELSE pollFds[p]]

prepareNoClients(url) == pollFds

\* pollFds after prepareClientsToWrite.
prepareClientsToWrite(url) ==
    [p \in DOMAIN pollFds |->
        IF \E i \in ClientsOf(url) : clientConnections[i].pollFdsIndex = p
        THEN [pollFds[p] EXCEPT !.events = "OUT"] ELSE pollFds[p]]

\* Slip: the message is recorded for every client, whatever its URL.
notifyAllClients(url, message) ==
    errors' = [fd \in {clientConnections[i].socketFd : i \in DOMAIN clientConnections}
                    |-> message]

\* notifyClientsAboutError, for the clients of the fetch that failed.
notifyClientsAboutError(url, message) ==
    LET told == {clientConnections[i].socketFd : i \in ClientsOf(url)}
    IN  errors' = [fd \in DOMAIN errors \cup told |->
                        IF fd \in told THEN message ELSE errors[fd]]

\* The handler of ProxyException: tell the clients, drop the connection.
ServerFails(message) ==
    /\ notifyClientsAboutError(server.URl, message)
    /\ removeServerConnection(it, prepareClientsToWrite(server.URl))
    /\ UNCHANGED <<peerVars, outcome, cacheVars, turnVars, cacheOffsets, heap, histVars>>

\* checkIfError: the fetch is dropped and its clients are not told.
ServerHungUp ==
    /\ ServerTurn
    /\ "ERR" \in reventsOf(server)
    /\ removeServerConnection(it, pollFds)
    /\ UNCHANGED <<peerVars, outcome, cacheVars, turnVars, fdVars, histVars>>

ServerReadable ==
    /\ ServerTurn
    /\ "ERR" \notin reventsOf(server)
    /\ "IN" \in reventsOf(server)

\* Slip: a status line is enough, whatever the status.
isResponse(fd, n) == n >= StatusLen

\* isCorrectResponseStatus of a chunk of n units: a chunk that ends inside
\* the status line parses to status 0.
isCorrectResponseStatus(fd, n) == n >= StatusLen /\ sock[fd].req \in OkUrls

\* Slip: the status is looked for in every chunk.
RefusedLate(fd, n) == ~isCorrectResponseStatus(fd, n)

\* The status is looked at only while the URL has no node.
Refused(fd, n) == ~contains(server.URl) /\ ~isCorrectResponseStatus(fd, n)

ServerReceivesData ==
    \E n \in 1..BUF_SIZE :
        LET fd == server.socketFd
        IN  /\ ServerReadable
            /\ n = recvCount(fd) /\ ~Refused(fd, n)
            /\ addData(server.URl, ReceivedUnits(fd, n))
            /\ sock' = Received(fd, n)
            /\ pollFds' = [prepareClientsToWrite(server.URl)
                                EXCEPT ![server.pollFdsIndex].revents = {}]
            /\ it' = it + 1
            /\ UNCHANGED <<peerVars, outcome, cacheReady, turnVars, clientConnections, serverConnections, fdVars, histVars>>

ServerReceivesBadStatus ==
    /\ ServerReadable
    /\ \E n \in 1..BUF_SIZE : n = recvCount(server.socketFd) /\ Refused(server.socketFd, n)
    /\ ServerFails(OriginText)

ServerReceivesEnd ==
    /\ ServerReadable
    /\ recvCount(server.socketFd) = 0
    /\ setNodeReady(server.URl, TRUE)
    /\ removeServerConnection(it, prepareClientsToWrite(server.URl))
    /\ UNCHANGED <<peerVars, outcome, cacheMap, turnVars, fdVars, histVars>>

ServerReceiveFails ==
    /\ ServerReadable
    /\ recvCount(server.socketFd) < 0
    /\ ServerFails(INTERNAL_ERROR)

ServerWritable ==
    /\ ServerTurn
    /\ "ERR" \notin reventsOf(server)
    /\ "IN" \notin reventsOf(server)
    /\ "OUT" \in reventsOf(server)

\* Slip: the request is taken from the static buffer of receiveDataFromClient,
\* which holds what any of the clients asked last.
RequestsInStaticBuffer(s) ==
    {clientConnections[i].URl : i \in DOMAIN clientConnections} \ {NoUrl}

\* What sendRequestToServer puts on the wire.  The buffer belongs to the
\* client; once that client is gone the freed memory may still hold the
\* request, hold another one, hold other bytes, or be an empty vector.
RequestsSent(s) ==
    IF s.buffer \in DOMAIN heap THEN {s.URl} ELSE Urls \cup {Malformed, NoUrl}

ServerSendsRequest ==
    LET fd == server.socketFd
        p == server.pollFdsIndex
    IN  /\ ServerWritable
        /\ ~sock[fd].rst
        /\ \E r \in RequestsSent(server) : sock' = [sock EXCEPT ![fd].req = r]
        /\ pollFds' = [pollFds EXCEPT ![p].events = "IN", ![p].revents = {}]
        /\ it' = it + 1
        /\ UNCHANGED <<peerVars, outcome, cacheVars, turnVars, clientConnections, serverConnections, fdVars, histVars>>

\* send() fails on a reset connection, or with EFAULT on freed memory.
ServerSendFails ==
    /\ ServerWritable
    /\ sock[server.socketFd].rst \/ server.buffer \notin DOMAIN heap
    /\ ServerFails(SERVER_CONNECT)

\* The header of the freed vector itself may be unmapped by then.
ServerReadsFreedBuffer ==
    /\ ServerWritable
    /\ server.buffer \notin DOMAIN heap
    /\ pc' = "crashed"
    /\ UNCHANGED <<netVars, cacheVars, it, isInterrupted, tableVars, fdVars, histVars>>

-----------------------------------------------------------------------------
(***************************************************************************)
(* The end of a round, and signals.                                        *)
(***************************************************************************)
\* Slip: the buffers are forgotten.
stopWithBuffers ==
    /\ sock' = [fd \in DOMAIN sock \ {pollFds[p].fd : p \in DOMAIN pollFds} |-> sock[fd]]
    /\ pc' = "exited"
    /\ UNCHANGED <<peerVars, outcome, cacheVars, it, tableVars, fdVars, histVars>>

\* stop: closes what pollFds lists and frees the clients' buffers.
stop ==
    /\ sock' = [fd \in DOMAIN sock \ {pollFds[p].fd : p \in DOMAIN pollFds} |-> sock[fd]]
    /\ heap' = [b \in DOMAIN heap \ {clientConnections[i].buffer : i \in DOMAIN clientConnections}
                    |-> heap[b]]
    /\ pc' = "exited"
    /\ UNCHANGED <<peerVars, outcome, cacheVars, it, tableVars, cacheOffsets, errors, histVars>>

\* Slip: the flag is not looked at.
RoundDoneDeaf ==
    /\ pc = "servers" /\ it > Len(serverConnections)
    /\ pc' = "poll" /\ it' = 1
    /\ UNCHANGED <<netVars, cacheVars, isInterrupted, tableVars, fdVars, histVars>>

RoundDone ==
    /\ pc = "servers" /\ it > Len(serverConnections)
    /\ \/ isInterrupted /\ stop /\ UNCHANGED isInterrupted
       \/ /\ ~isInterrupted
          /\ pc' = "poll" /\ it' = 1
          /\ UNCHANGED <<netVars, cacheVars, isInterrupted, tableVars, fdVars, histVars>>

\* The handler runs.  Anywhere but inside poll() it only sets the flag:
\* also between the test of the flag and the call of poll().
Interrupt ==
    /\ "interrupt" \in faults
    /\ ~isInterrupted
    /\ isInterrupted' = TRUE
    /\ UNCHANGED <<netVars, cacheVars, loopVars, tableVars, fdVars, histVars>>

\* The handler runs while poll() waits: poll() fails with EINTR.
InterruptPoll ==
    /\ "interrupt" \in faults
    /\ ~isInterrupted
    /\ pc = "poll"
    /\ isInterrupted' = TRUE
    /\ stop

-----------------------------------------------------------------------------
checkClientsConnections ==
    \/ ClientIdle \/ ClientHungUp \/ ClientToldError \/ ClientServed
    \/ ClientSendFails \/ ClientReceivesEnd \/ ClientReceivesPart
    \/ ClientReceivesMalformed \/ ClientAsksForCached \/ ClientStartsFetch
    \/ ClientFetchFails \/ ClientsDone

checkServerConnections ==
    \/ ServerIdle \/ ServerHungUp \/ ServerReceivesData
    \/ ServerReceivesBadStatus \/ ServerReceivesEnd \/ ServerReceiveFails
    \/ ServerSendsRequest \/ ServerSendFails \/ ServerReadsFreedBuffer
    \/ RoundDone

Program == Poll \/ addNewConnection \/ checkClientsConnections \/ checkServerConnections

ProgramVars == <<cacheVars, loopVars, isInterrupted, tableVars, fdVars, histVars>>

Outside == Running /\ (ClientStep \/ OriginStep) /\ UNCHANGED ProgramVars

Next == Program \/ Outside \/ (Running /\ (Interrupt \/ InterruptPoll))

Spec == Init /\ [][Next]_vars

=============================================================================
