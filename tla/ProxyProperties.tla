-------------------------- MODULE ProxyProperties --------------------------
(***************************************************************************)
(* What the event loop of Proxy promises, and what the comments of the     *)
(* source ask of it.  Every property says under which surroundings it is   *)
(* meant; the runs choose them with Surroundings.                          *)
(***************************************************************************)
EXTENDS Proxy

Clock == {"poll", "accept", "clients", "servers", "exited", "crashed"}

UnitsOf(f, url) == [k \in 1..RespLen |-> Unit(f, url, k)]

FetchesOf(url) == {f \in DOMAIN fetched : fetched[f] = url}
SoleFetch(url) == Cardinality(FetchesOf(url)) <= 1
BeingFetched(url) == \E j \in DOMAIN serverConnections : serverConnections[j].URl = url

\* Fetched once, where no client may start another fetch by sending on.
FetchedOnce(url) == SoleFetch(url) /\ "sendsOn" \notin faults

\* The connection at the other end of a client's socket.
peerOf(connection) == sock[connection.socketFd].peer
eventsOf(connection) == pollFds[connection.pollFdsIndex].events
ClientFds == {clientConnections[i].socketFd : i \in DOMAIN clientConnections}

\* The type invariant.
TypeOK ==
    /\ pc \in Clock /\ it \in Nat \ {0} /\ isInterrupted \in BOOLEAN
    /\ DOMAIN sock \subseteq Descriptors
    /\ \A p \in DOMAIN pollFds :
        /\ pollFds[p].events \in {"IN", "OUT"}
        /\ pollFds[p].revents \subseteq {"IN", "OUT", "ERR"}
    /\ \A i \in DOMAIN clientConnections : clientConnections[i].URl \in Urls \cup {NoUrl}
    /\ \A j \in DOMAIN serverConnections : serverConnections[j].URl \in Urls
    /\ DOMAIN cacheMap \subseteq Urls /\ DOMAIN cacheReady \subseteq Urls
    /\ DOMAIN errors \subseteq Descriptors /\ DOMAIN cacheOffsets \subseteq Descriptors
    /\ DOMAIN heap \subseteq Clients
    /\ \A c \in Clients : outcome[c] \in {"none", "dropped", "error", "complete"}

-----------------------------------------------------------------------------
(***************************************************************************)
(* The loop keeps its three vectors as PollTable does: every turn of it    *)
(* adds at most one connection, or removes at most one and moves all       *)
(* positions behind it (lines 475-523).                                    *)
(***************************************************************************)
Positions(connections) ==
    [i \in DOMAIN connections |-> [socketFd |-> connections[i].socketFd,
                                   pollFdsIndex |-> connections[i].pollFdsIndex]]

Table == INSTANCE PollTable WITH
    Fds <- Descriptors,
    pollFds <- [p \in DOMAIN pollFds |-> pollFds[p].fd],
    clientConnections <- Positions(clientConnections),
    serverConnections <- Positions(serverConnections)

KeepsTable == Table!Spec

(***************************************************************************)
(* Descriptors are reused, so what is keyed by one must go when its        *)
(* connection goes (lines 517-518): every offset belongs to a client that  *)
(* is connected, and a recorded error belongs to one whose socket the loop *)
(* watches for POLLOUT, so that the message goes out.                      *)
(***************************************************************************)
KeyedByLiveClients ==
    /\ DOMAIN cacheOffsets = ClientFds
    /\ \A fd \in DOMAIN errors : \E i \in DOMAIN clientConnections :
        /\ clientConnections[i].socketFd = fd
        /\ eventsOf(clientConnections[i]) = "OUT"

(***************************************************************************)
(* The proxy keeps open what it polls, and keeps the request buffers of    *)
(* the clients it has; the only other descriptors are those of fetches     *)
(* that initServerConnection gave up (lines 204 and 210).                  *)
(***************************************************************************)
NothingElseOpen ==
    Running =>
        /\ {fd \in DOMAIN sock : sock[fd].peer # Origin \/ sock[fd].fetch > 0} =
                {pollFds[p].fd : p \in DOMAIN pollFds} \ {listenFd}
        /\ DOMAIN heap = {clientConnections[i].buffer : i \in DOMAIN clientConnections}

-----------------------------------------------------------------------------
(***************************************************************************)
(* Every fetch has put into the cache node of its URL, and into no other,  *)
(* a gapless prefix of the response it reads, in order, each unit once and *)
(* never more than the response has; a fetch that is under way has stored  *)
(* all it has read (lines 374-389).                                        *)
(***************************************************************************)
PlacesOf(f, node) == {n \in DOMAIN node : node[n].fetch = f}

UnitsStored(f, node) == {node[n].k : n \in PlacesOf(f, node)}

StoredInOrder(f, node) ==
    \A m, n \in PlacesOf(f, node) : m < n => node[m].k < node[n].k

EachFetchStoredInOrder ==
    /\ \A url \in Urls, f \in DOMAIN fetched :
        /\ fetched[f] # url => PlacesOf(f, nodeData(url)) = {}
        /\ StoredInOrder(f, nodeData(url))
        /\ \E h \in 0..RespLen : UnitsStored(f, nodeData(url)) = 1..h
    /\ Running => \A j \in DOMAIN serverConnections :
        LET s == serverConnections[j]
        IN  UnitsStored(sock[s.socketFd].fetch, nodeData(s.URl)) = 1..sock[s.socketFd].next

(***************************************************************************)
(* A client is sent its cache node from the start without a gap or a       *)
(* repetition, however its turns interleave with the growth of the node,   *)
(* with other clients and with the reuse of descriptors (lines 246-269).   *)
(* Meant where no send() fails with EWOULDBLOCK.                           *)
(***************************************************************************)
SentIsCachePrefix ==
    Running => \A i \in DOMAIN clientConnections :
        LET c == clientConnections[i]
        IN  got[peerOf(c)] = SubSeq(nodeData(c.URl), 1, cacheOffsets[c.socketFd])

(***************************************************************************)
(* A client whose connection ends as complete has the whole response of    *)
(* the origin, if its URL was fetched once and the origin answered in full *)
(* (lines 302-306: the flag is read before the last send), where clients   *)
(* stay and send nothing behind their requests.  That is what              *)
(* "проксей скачать исо и сравнить ша суммы" (Proxy.cpp:20) tests.         *)
(***************************************************************************)
CompleteIsWhole ==
    \A c \in Clients :
        outcome[c] = "complete" /\ FetchedOnce(request[c]) =>
            \E f \in FetchesOf(request[c]) : got[c] = UnitsOf(f, request[c])

(***************************************************************************)
(* Two programs that download the same URL get the same bytes: "запустив   *)
(* два таких вгета сравнить надо деревья ... посчитать мд5 суммы и         *)
(* сравнить" (Proxy.cpp:18-19).                                            *)
(***************************************************************************)
ContentOf(units) == [n \in DOMAIN units |-> units[n].k]

SameDownloads ==
    \A c, d \in Clients :
        outcome[c] = "complete" /\ outcome[d] = "complete" /\ request[c] = request[d] =>
            ContentOf(got[c]) = ContentOf(got[d])

(***************************************************************************)
(* Once a node is whole and nobody fetches its URL, no step changes the    *)
(* node or its flag again: what a refreshed page gets is settled (lines    *)
(* 286-292).  A fetch that is under way may still write to it; none can be *)
(* started, also not by a client that sends on and is parsed again (277).  *)
(***************************************************************************)
WholeNodeIsFinal ==
    [][\A url \in Urls :
        cacheNodeReady(url) /\ ~BeingFetched(url) =>
            /\ url \in DOMAIN cacheMap' /\ cacheMap'[url] = cacheMap[url]
            /\ url \in DOMAIN cacheReady' /\ cacheReady'[url]]_vars

(***************************************************************************)
(* A response that is not a 200 never becomes a cached page: the first     *)
(* chunk of every node has been looked at (lines 385-386).  Meant where no *)
(* origin closes before it answers.                                        *)
(***************************************************************************)
CachedPagesAreOk ==
    \A url \in DOMAIN cacheMap : cacheMap[url] # <<>> /\ cacheMap[url][1].req \in OkUrls

-----------------------------------------------------------------------------
(***************************************************************************)
(* No wakeup is lost at the end of a fetch: the flag is set while clients  *)
(* may be waiting for POLLIN (line 266), and once a node with data is      *)
(* whole, each of its clients is watched for POLLOUT, with or without data *)
(* left to send (lines 378-383 and 291).                                   *)
(***************************************************************************)
NoLostWakeup ==
    Running => \A i \in DOMAIN clientConnections :
        LET c == clientConnections[i]
        IN  cacheNodeReady(c.URl) /\ nodeData(c.URl) # <<>> => eventsOf(c) = "OUT"

(***************************************************************************)
(* A client that waits for data waits for a fetch that is under way; it is *)
(* never parked on POLLIN with nobody to wake it.  Meant where origins     *)
(* neither fail nor answer with nothing.                                   *)
(***************************************************************************)
WaitsForSomebody ==
    Running => \A i \in DOMAIN clientConnections :
        LET c == clientConnections[i]
        IN  c.URl # NoUrl /\ eventsOf(c) = "IN" => BeingFetched(c.URl)

(***************************************************************************)
(* A fetch that has yet to send its request reads it from the buffer of    *)
(* the client that started it (line 221), and that client is kept at least *)
(* until then when its URL has no second fetch.  Meant for clients that    *)
(* stay and send nothing behind their requests: one that asks again may    *)
(* fail to start a second fetch (286-288), and then it is removed.         *)
(***************************************************************************)
SoleFetchHasItsRequest ==
    Running => \A j \in DOMAIN serverConnections :
        LET s == serverConnections[j]
        IN  eventsOf(s) = "OUT" /\ FetchedOnce(s.URl) => s.buffer \in DOMAIN heap

(***************************************************************************)
(* An error message is never appended to a part of a page: a client that   *)
(* ends with an error has been sent nothing before, if its URL was fetched *)
(* once and no origin broke off (lines 385 and 413-420).  Meant, like the  *)
(* next one, for clients that stay and send nothing behind their requests. *)
(***************************************************************************)
ErrorComesAlone ==
    \A c \in Clients :
        outcome[c] = "error" /\ FetchedOnce(request[c]) => got[c] = <<>>

(***************************************************************************)
(* Nobody is sent a piece of somebody else's page: what a client gets      *)
(* answers its own request, over any split of the requests into segments,  *)
(* although fetches borrow the buffers of clients that come and go (221,   *)
(* 519) and all data passes through one static buffer.  Meant for a URL    *)
(* that was fetched once.                                                  *)
(***************************************************************************)
OnlyOwnPage ==
    \A c \in Clients :
        FetchedOnce(request[c]) =>
            \A n \in DOMAIN got[c] : got[c][n].req = request[c]

(***************************************************************************)
(* A second client of a page that is partly there "должен быстро получить  *)
(* ту часть данных, которая лежит в кеше" (Proxy.cpp:36-39): whenever the  *)
(* loop waits, a client with cached data left to send is watched for       *)
(* POLLOUT.                                                                *)
(***************************************************************************)
CachedPartFlows ==
    pc = "poll" => \A i \in DOMAIN clientConnections :
        LET c == clientConnections[i]
        IN  c.URl # NoUrl /\ cacheOffsets[c.socketFd] < Len(nodeData(c.URl)) =>
                eventsOf(c) = "OUT"

-----------------------------------------------------------------------------
(***************************************************************************)
(* Fairness.  The loop is a running thread: while it can move, it moves.   *)
(* Clients send what they asked and read what they get, origins answer in  *)
(* full; nobody is obliged to connect, to leave or to fail.                *)
(***************************************************************************)
PeersWork ==
    /\ Running
    /\ \E fd \in DOMAIN sock :
        \/ ClientSend(fd) \/ ClientRead(fd)
        \/ OriginAccept(fd) \/ OriginSend(fd) \/ OriginClose(fd)
    /\ UNCHANGED ProgramVars

FairSpec == Spec /\ WF_vars(Program) /\ WF_vars(PeersWork)

(***************************************************************************)
(* Every client whose request has reached the proxy is answered: it gets   *)
(* its page or an error, however its fetch, other fetches and other        *)
(* clients interleave, and although a pass over a vector stops at the      *)
(* first removal (lines 316, 328, 332, 438, 442).  Only the end of the     *)
(* program releases the loop from that.                                    *)
(***************************************************************************)
AskedIsAnswered ==
    \A c \in Clients : sent[c] = ReqLen ~> outcome[c] # "none" \/ ~Running

(***************************************************************************)
(* A signal ends the program within one round of the loop: whenever the    *)
(* flag is set and the loop is not before poll(), it is on its way out,    *)
(* past any number of turns.  The flag set between its test (line 88) and  *)
(* poll() (line 93) counts from the next event on: only a loop that waits  *)
(* in poll() for good outlives its signal.                                 *)
(***************************************************************************)
InterruptEndsLoop == isInterrupted /\ pc # "poll" ~> ~Running

(***************************************************************************)
(* stop() leaves nothing behind: no descriptor and no request buffer       *)
(* (lines 52-64), at whatever point of the loop the signal arrived.        *)
(***************************************************************************)
StopReleasesAll ==
    pc = "exited" => DOMAIN sock = {} /\ DOMAIN heap = {}

(***************************************************************************)
(* The loop implements Delivery: what its clients see is a page or an      *)
(* error, whole and in the end, whatever the cache, the fetches, the       *)
(* tables and the send buffers do in between (the comments at lines 18-39  *)
(* test nothing else).  Meant where peers do their part, no signal comes   *)
(* and no two fetches are under way at once: three descriptors are too few *)
(* for two fetches, each with a client that stays.  Elsewhere nothing      *)
(* counts as asked.                                                        *)
(***************************************************************************)
Promised == "interrupt" \notin faults /\ limit <= 3

Seen(units) == [n \in DOMAIN units |-> <<units[n].req, units[n].k>>]

Promise == INSTANCE Delivery WITH
    PageLen <- RespLen,
    asked <- [c \in Clients |-> IF Promised THEN request[c] ELSE NoUrl],
    content <- [c \in Clients |-> IF Promised THEN Seen(got[c]) ELSE <<>>],
    end <- [c \in Clients |-> IF Promised THEN outcome[c] ELSE "none"]

KeepsPromise == Promise!Spec

(***************************************************************************)
(* Step by step, and with any number of fetches of other pages at once, a  *)
(* client whose page was fetched once is served as Delivery has it: it is  *)
(* sent the next piece of its own page, or its connection ends with the    *)
(* last piece, or ends with nothing sent, and then nothing follows (lines  *)
(* 246-269 and 302-306).  An end is an error here if it is not complete.   *)
(* Meant for origins that answer in full, clients that stay and send       *)
(* nothing behind their requests, and no send() that fails with            *)
(* EWOULDBLOCK.                                                            *)
(***************************************************************************)
Page == INSTANCE Delivery WITH
    PageLen <- RespLen,
    asked <- request,
    content <- [c \in Clients |-> Seen(got[c])],
    end <- [c \in Clients |-> IF outcome[c] = "dropped" THEN "error" ELSE outcome[c]]

ServesAsPromised(c) ==
    \/ Page!Ask(c) \/ Page!Send(c) \/ Page!Refuse(c)
    \/ UNCHANGED <<request[c], got[c], outcome[c]>>

KeepsEachPromise ==
    /\ Page!Init
    /\ [][\A c \in Clients :
            (request[c] \in Urls /\ FetchedOnce(request[c]))' => ServesAsPromised(c)]_vars

=============================================================================
