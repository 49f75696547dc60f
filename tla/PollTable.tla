----------------------------- MODULE PollTable -----------------------------
(***************************************************************************)
(* The three vectors of Proxy.cpp reduced to positions and descriptors,    *)
(* under the four operations that change their length.  A connection       *)
(* reaches its pollfd only through the position it holds, and the same     *)
(* numbers live in two other vectors; one that is off by one makes the     *)
(* loop read or write the events of somebody else's socket, or close it.   *)
(***************************************************************************)
EXTENDS Connections

CONSTANTS
    Fds,        \* the descriptors accept() and socket() may return
    listenFd    \* the listening socket

ASSUME PollTableAssumption == listenFd \notin Fds

VARIABLES
    pollFds,            \* sequence of descriptors
    clientConnections,  \* sequences of [socketFd, pollFdsIndex]
    serverConnections

vars == <<pollFds, clientConnections, serverConnections>>

\* The descriptors the table knows; all of them are open.
Polled == {pollFds[p] : p \in DOMAIN pollFds}

\* start() up to its loop: the listening socket is the first entry.
Init ==
    /\ pollFds = <<listenFd>>
    /\ clientConnections = <<>>
    /\ serverConnections = <<>>

\* Slip: the position is one too low, as if taken before the push_back.
NewConnectionEarly(fd) == [socketFd |-> fd, pollFdsIndex |-> Len(pollFds)]

\* A new connection and its pollfd go to the ends of their vectors.
NewConnection(fd) == [socketFd |-> fd, pollFdsIndex |-> Len(pollFds) + 1]

AddClient(fd) ==
    /\ fd \notin Polled
    /\ pollFds' = Append(pollFds, fd)
    /\ clientConnections' = Append(clientConnections, NewConnection(fd))
    /\ UNCHANGED serverConnections

AddServer(fd) ==
    /\ fd \notin Polled
    /\ pollFds' = Append(pollFds, fd)
    /\ serverConnections' = Append(serverConnections, NewConnection(fd))
    /\ UNCHANGED clientConnections

RemoveClient(i) ==
    LET p == clientConnections[i].pollFdsIndex
    IN  /\ pollFds' = RemoveAt(pollFds, p)
        /\ serverConnections' = updatePollFdIndexes(serverConnections, p)
        /\ clientConnections' =
                eraseConnection(updatePollFdIndexes(clientConnections, p), i)

RemoveServer(j) ==
    LET p == serverConnections[j].pollFdsIndex
    IN  /\ pollFds' = RemoveAt(pollFds, p)
        /\ clientConnections' = updatePollFdIndexes(clientConnections, p)
        /\ serverConnections' =
                eraseConnection(updatePollFdIndexes(serverConnections, p), j)

Next ==
    \/ \E fd \in Fds : AddClient(fd) \/ AddServer(fd)
    \/ \E i \in DOMAIN clientConnections : RemoveClient(i)
    \/ \E j \in DOMAIN serverConnections : RemoveServer(j)

Spec == Init /\ [][Next]_vars

-----------------------------------------------------------------------------
Connection == [socketFd : Fds, pollFdsIndex : Nat \ {0}]

\* The type invariant.
TypeOK ==
    /\ pollFds \in Seq(Fds \cup {listenFd})
    /\ clientConnections \in Seq(Connection)
    /\ serverConnections \in Seq(Connection)

\* Every connection of a vector holds the position of its own pollfd, which
\* is never the listening socket's.
PointsHome(table, connections) ==
    \A i \in 1..Len(connections) :
        /\ connections[i].pollFdsIndex \in (ACCEPT_INDEX + 1)..Len(table)
        /\ table[connections[i].pollFdsIndex] = connections[i].socketFd

\* No descriptor is polled twice.
PolledOnce(table) ==
    \A p, q \in 1..Len(table) : table[p] = table[q] => p = q

\* No two connections of a vector, or of two vectors, share a pollfd.
Apart(connections) ==
    \A i, j \in 1..Len(connections) :
        connections[i].pollFdsIndex = connections[j].pollFdsIndex => i = j

Disjoint(connections, others) ==
    \A i \in 1..Len(connections), j \in 1..Len(others) :
        connections[i].pollFdsIndex # others[j].pollFdsIndex

Consistent(table, connections, others) ==
    /\ Len(table) = 1 + Len(connections) + Len(others)
    /\ table[ACCEPT_INDEX] = listenFd
    /\ PolledOnce(table)
    /\ PointsHome(table, connections) /\ PointsHome(table, others)
    /\ Apart(connections) /\ Apart(others)
    /\ Disjoint(connections, others)

(***************************************************************************)
(* Whatever sequence of accepts, fetches and removals (Proxy.cpp 216-217,  *)
(* 475-523) the loop performs, each connection's position is that of its   *)
(* own pollfd and of nobody else's, the listening socket keeps             *)
(* ACCEPT_INDEX, and every other pollfd belongs to a connection.           *)
(***************************************************************************)
IndexConsistent == Consistent(pollFds, clientConnections, serverConnections)

=============================================================================
