---------------------------- MODULE Connections ----------------------------
(***************************************************************************)
(* The bookkeeping Proxy.cpp does on its three vectors: pollFds,           *)
(* clientConnections and serverConnections.  A connection does not hold    *)
(* its pollfd, it holds the position of that pollfd in pollFds, so every   *)
(* insertion and every removal has to keep all positions right.            *)
(*                                                                         *)
(* The operators work on any records that have the fields they name, so    *)
(* that PollTable (positions only) and Proxy (whole connections) share     *)
(* them.  C++ counts positions from 0 and TLA+ from 1: a pollFdsIndex here *)
(* is the C++ value plus 1.                                                *)
(***************************************************************************)
EXTENDS Integers, Sequences, SequencesExt

\* Position of the listening socket's pollfd.
ACCEPT_INDEX == 1

(***************************************************************************)
(* std::map as a function on the keys present: m[k] = v, and m.erase(k).   *)
(***************************************************************************)
Assign(map, key, value) ==
    [k \in DOMAIN map \cup {key} |-> IF k = key THEN value ELSE map[k]]

Erase(map, key) == [k \in DOMAIN map \ {key} |-> map[k]]

\* Slip: positions before the deleted one move as well.
updateAllPollFdIndexes(connections, deletedPollFdIndex) ==
    [i \in DOMAIN connections |-> [connections[i] EXCEPT !.pollFdsIndex = @ - 1]]

(***************************************************************************)
(* updatePollFdIndexes: every connection whose pollfd was behind the       *)
(* deleted one moves down by one.                                          *)
(***************************************************************************)
updatePollFdIndexes(connections, deletedPollFdIndex) ==
    [i \in DOMAIN connections |->
        IF connections[i].pollFdsIndex > deletedPollFdIndex
        THEN [connections[i] EXCEPT !.pollFdsIndex = @ - 1]
        ELSE connections[i]]

(***************************************************************************)
(* eraseConnection: remove_if by descriptor, where toRemove is itself an   *)
(* element of the vector and is overwritten by the first move.  Open       *)
(* descriptors are distinct, so exactly the element at position i goes.    *)
(***************************************************************************)
eraseConnection(connections, i) == RemoveAt(connections, i)

=============================================================================
