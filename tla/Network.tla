------------------------------ MODULE Network ------------------------------
(***************************************************************************)
(* What surrounds the proxy: the kernel's sockets, the clients and the     *)
(* origin servers.  None of it is in the repository; it is modelled from   *)
(* the calls Proxy.cpp makes (accept, recv, send, poll, connect, close)    *)
(* and from what those calls can return.                                   *)
(*                                                                         *)
(* Data is counted in units.  A request is ReqLen units, the last TermLen  *)
(* of them holding its final CR LF CR LF, cut so that only the last unit   *)
(* ends in LF; the response to a request is RespLen units, the first       *)
(* StatusLen of them holding its status line.  A client has one connection *)
(* and sends its request on it, and what it may send behind that is none   *)
(* of the origin's business: the proxy reads its own rebuilt request first *)
(* whenever it parses the buffer again (ClientRequest).                    *)
(*                                                                         *)
(* Surroundings lists the conditions a run looks at.  One of them holds    *)
(* throughout a behaviour: faults names what may happen besides serving    *)
(* every request in full, limit is the highest descriptor the process may  *)
(* open, and RespLen the length of the responses.                          *)
(***************************************************************************)
EXTENDS Connections

CONSTANTS
    Clients,    \* client programs, each with one connection
    Urls,       \* the URLs they may ask for
    OkUrls,     \* the URLs origins answer with status 200
    NoUrl,      \* not a URL: nothing requested
    Malformed,  \* a request the HTTP parser refuses
    Origin,     \* the peer of a server connection
    StatusLen, ReqLen, TermLen,
    BUF_SIZE,   \* units one recv() returns at most
    SndBuf,     \* units a client's send buffer holds
    Descriptors,\* descriptors, without the listening socket
    MaxBlocks,  \* bound: times a send() to one client fails with EWOULDBLOCK
    MaxMore,    \* bound: units a client that sends on sends behind its request
    Surroundings\* records [faults, limit, RespLen]

AllFaults == {"clientLeaves", "splitRequest", "sendsOn", "malformed", "originFails",
              "emptyResponse", "resolveFails", "connectFails", "interrupt"}

ASSUME NetworkAssumption ==
    /\ OkUrls \subseteq Urls
    /\ NoUrl \notin Urls /\ Malformed \notin Urls /\ NoUrl # Malformed
    /\ Origin \notin Clients
    /\ StatusLen \in Nat \ {0}
    /\ ReqLen \in Nat \ {0} /\ TermLen \in 1..ReqLen
    /\ BUF_SIZE \in Nat \ {0} /\ SndBuf \in Nat \ {0}
    /\ Descriptors \subseteq Nat \ {0}
    /\ MaxBlocks \in Nat /\ MaxMore \in Nat
    /\ Surroundings \subseteq [faults : SUBSET AllFaults, limit : Nat, RespLen : Nat]
    /\ \A around \in Surroundings : around.RespLen >= StatusLen

VARIABLES
    sock,       \* open descriptor -> kernel socket
    backlog,    \* clients waiting to be accepted, in order
    request,    \* client -> what it asks for
    sent,       \* client -> units of its request, and behind it, it has sent
    got,        \* client -> the units of data accepted for it, in order
    outcome,    \* client -> how the proxy ended its connection
    faults, limit, RespLen  \* the surroundings of this behaviour

surroundings == <<faults, limit, RespLen>>
netVars == <<sock, backlog, request, sent, got, outcome>>

NetInit ==
    /\ \E around \in Surroundings : 
            faults = around.faults /\ limit = around.limit /\ RespLen = around.RespLen
    /\ sock = <<>>
    /\ backlog = <<>>
    /\ request = [c \in Clients |-> NoUrl]
    /\ sent = [c \in Clients |-> 0]
    /\ got = [c \in Clients |-> <<>>]
    /\ outcome = [c \in Clients |-> "none"]

(***************************************************************************)
(* Sockets.  rx units wait to be read, next units have been read; fin: the *)
(* peer has sent FIN; rst: the connection is reset or was refused; txq     *)
(* units of a client's send buffer are in use.  For a server socket: up    *)
(* once connected, req is the request its origin received and fetch the    *)
(* number of the fetch (0: given up before it was connected).              *)
(***************************************************************************)
ClientSocket(c) ==
    [peer |-> c, up |-> TRUE, rx |-> 0, next |-> 0, fin |-> FALSE,
     rst |-> FALSE, txq |-> 0, req |-> NoUrl, fetch |-> 0]

ServerSocket(f) == [ClientSocket(Origin) EXCEPT !.up = FALSE, !.fetch = f]

SmallerOf(a, b) == IF a <= b THEN a ELSE b

\* What recv() returns: queued data first, then end of file, then the error.
recvCount(fd) ==
    IF sock[fd].rx > 0 THEN SmallerOf(sock[fd].rx, BUF_SIZE)
    ELSE IF sock[fd].fin THEN 0 ELSE -1

\* The socket after recv() returned n units.
Received(fd, n) == [sock EXCEPT ![fd].rx = @ - n, ![fd].next = @ + n]

\* The k-th unit of the response to req, received by fetch f.
Unit(f, req, k) == [fetch |-> f, req |-> req, k |-> k]

\* The n units recv() copies from a server socket.
ReceivedUnits(fd, n) ==
    [i \in 1..n |-> Unit(sock[fd].fetch, sock[fd].req, sock[fd].next + i)]

\* The byte before a vector's storage: whatever the heap holds there.
Junk == Unit(0, NoUrl, 0)

\* What poll() reports of a descriptor that waits for event.
ReadyEvents(fd, event) ==
    {e \in {event} :
        \/ e = "IN"  /\ (sock[fd].rx > 0 \/ sock[fd].fin)
        \/ e = "OUT" /\ sock[fd].up /\ sock[fd].txq < SndBuf}
    \cup {e \in {"ERR"} : sock[fd].rst}

\* Descriptors are handed out lowest first.
FreeDescriptors == {fd \in Descriptors : fd <= limit} \ DOMAIN sock
NewDescriptor == Min(FreeDescriptors)

-----------------------------------------------------------------------------
(***************************************************************************)
(* The clients.                                                            *)
(***************************************************************************)
ClientConnect(c) ==
    /\ request[c] = NoUrl
    /\ \E r \in Urls \cup {m \in {Malformed} : "malformed" \in faults} :
            request' = [request EXCEPT ![c] = r]
    /\ backlog' = Append(backlog, c)
    /\ UNCHANGED <<sock, sent, got, outcome>>

\* All a client sends in the end.
MostSent == ReqLen + (IF "sendsOn" \in faults THEN MaxMore ELSE 0)

\* One segment arrives: what is left of the request in one piece unless
\* requests may be split, and then as much as there is behind it.
ClientSend(fd) ==
    LET c == sock[fd].peer
    IN  /\ c \in Clients
        /\ ~sock[fd].fin /\ ~sock[fd].rst
        /\ \E n \in 1..(MostSent - sent[c]) :
            /\ sent[c] + n >= ReqLen \/ "splitRequest" \in faults
            /\ sent' = [sent EXCEPT ![c] = @ + n]
            /\ sock' = [sock EXCEPT ![fd].rx = @ + n]
        /\ UNCHANGED <<backlog, request, got, outcome>>

\* The client reads what its socket holds, which empties the send buffer.
ClientRead(fd) ==
    /\ sock[fd].txq > 0
    /\ sock' = [sock EXCEPT ![fd].txq = 0]
    /\ UNCHANGED <<backlog, request, sent, got, outcome>>

\* The client shuts its side down, or resets the connection.
ClientLeaves(fd) ==
    /\ "clientLeaves" \in faults
    /\ sock[fd].peer \in Clients
    /\ ~sock[fd].rst
    /\ \/ /\ ~sock[fd].fin
          /\ sock' = [sock EXCEPT ![fd].fin = TRUE]
       \/ \E kept \in {0, sock[fd].rx} :
            sock' = [sock EXCEPT ![fd].rst = TRUE, ![fd].rx = kept]
    /\ UNCHANGED <<backlog, request, sent, got, outcome>>

(***************************************************************************)
(* The origin servers.                                                     *)
(***************************************************************************)
Fetching(fd) == sock[fd].peer = Origin /\ sock[fd].fetch > 0 /\ ~sock[fd].rst

Responding(fd) ==
    /\ Fetching(fd)
    /\ sock[fd].req # NoUrl
    /\ ~sock[fd].fin

\* Units of the response the origin has sent so far.
Responded(fd) == sock[fd].next + sock[fd].rx

OriginAccept(fd) ==
    /\ Fetching(fd) /\ ~sock[fd].up
    /\ sock' = [sock EXCEPT ![fd].up = TRUE]
    /\ UNCHANGED <<backlog, request, sent, got, outcome>>

OriginSend(fd) ==
    /\ Responding(fd)
    /\ Responded(fd) < RespLen
    /\ sock' = [sock EXCEPT ![fd].rx = @ + 1]
    /\ UNCHANGED <<backlog, request, sent, got, outcome>>

\* The origin closes: after the whole response, before any of it
\* (emptyResponse), or in the middle of it (originFails).
OriginClose(fd) ==
    /\ Responding(fd)
    /\ \/ Responded(fd) = RespLen
       \/ Responded(fd) = 0 /\ "emptyResponse" \in faults
       \/ Responded(fd) > 0 /\ "originFails" \in faults
    /\ sock' = [sock EXCEPT ![fd].fin = TRUE]
    /\ UNCHANGED <<backlog, request, sent, got, outcome>>

\* The origin refuses or resets the connection; queued data may be lost.
OriginReset(fd) ==
    /\ "originFails" \in faults
    /\ Fetching(fd)
    /\ \E kept \in {0, sock[fd].rx} :
            sock' = [sock EXCEPT ![fd].rst = TRUE, ![fd].rx = kept]
    /\ UNCHANGED <<backlog, request, sent, got, outcome>>

ClientStep ==
    \/ \E c \in Clients : ClientConnect(c)
    \/ \E fd \in DOMAIN sock : ClientSend(fd) \/ ClientRead(fd) \/ ClientLeaves(fd)

OriginStep ==
    \E fd \in DOMAIN sock :
        OriginAccept(fd) \/ OriginSend(fd) \/ OriginClose(fd) \/ OriginReset(fd)

=============================================================================
