------------------------------ MODULE RemoveIf ------------------------------
(***************************************************************************)
(* eraseConnection as it runs (Proxy.cpp 226-230): std::remove_if walks    *)
(* the vector and moves the elements to keep to the front, and the         *)
(* predicate compares each with toRemove, which is a reference into the    *)
(* same vector: from the first move on it denotes another connection.      *)
(*                                                                         *)
(* The vector is the one updatePollFdIndexes has just gone over, so the    *)
(* position of the removed connection may be its successor's as well.      *)
(***************************************************************************)
EXTENDS Connections

CONSTANTS
    Fds         \* the descriptors of the connections

VARIABLES
    original,   \* the vector at the call
    toRemove,   \* the place the argument refers to
    vector,
    first,      \* the element remove_if looks at
    result,     \* the place behind the elements kept so far
    phase       \* idle, find, shift, or done

vars == <<original, toRemove, vector, first, result, phase>>

Vectors == Seq([socketFd : Fds, pollFdsIndex : Int])

Init ==
    /\ original = <<>> /\ toRemove = 1 /\ vector = <<>>
    /\ first = 1 /\ result = 1
    /\ phase = "idle"

\* removeConnection up to the call, for the i-th connection of the vector.
Call(connections, i) ==
    /\ phase \in {"idle", "done"}
    /\ original' = updatePollFdIndexes(connections, connections[i].pollFdsIndex)
    /\ toRemove' = i
    /\ vector' = original'
    /\ first' = 1 /\ result' = 1 /\ phase' = "find"

\* Slip: compared by position.
IsRemovedByPosition(k) == vector[k].pollFdsIndex = vector[toRemove].pollFdsIndex

\* The predicate; toRemove is what now stands at its place.
IsRemoved(k) == vector[k].socketFd = vector[toRemove].socketFd

\* find_if: nothing moves before the first element to remove, and there is
\* one: the argument itself.
Find ==
    /\ phase = "find"
    /\ \/ /\ first \in DOMAIN vector /\ ~IsRemoved(first)
          /\ first' = first + 1
          /\ UNCHANGED <<result, phase>>
       \/ /\ first \in DOMAIN vector /\ IsRemoved(first)
          /\ result' = first
          /\ first' = first + 1
          /\ phase' = "shift"
    /\ UNCHANGED <<original, toRemove, vector>>

\* The loop behind it: what is not to be removed moves to result.
Shift ==
    /\ phase = "shift"
    /\ first \in DOMAIN vector
    /\ first' = first + 1
    /\ \/ /\ IsRemoved(first)
          /\ UNCHANGED <<vector, result>>
       \/ /\ ~IsRemoved(first)
          /\ vector' = [vector EXCEPT ![result] = vector[first]]
          /\ result' = result + 1
    /\ UNCHANGED <<original, toRemove, phase>>

\* vector.erase(result, end()).
EraseRest ==
    /\ phase = "shift"
    /\ first \notin DOMAIN vector
    /\ vector' = SubSeq(vector, 1, result - 1)
    /\ phase' = "done"
    /\ UNCHANGED <<original, toRemove, first, result>>

Step == Find \/ Shift \/ EraseRest

\* Connections have sockets of their own.
SocketsApart(connections) ==
    \A i, j \in 1..Len(connections) :
        connections[i].socketFd = connections[j].socketFd => i = j

Next ==
    \/ \E connections \in Vectors : \E i \in 1..Len(connections) :
            SocketsApart(connections) /\ Call(connections, i)
    \/ Step

Spec == Init /\ [][Next]_vars

-----------------------------------------------------------------------------
(***************************************************************************)
(* Exactly the connection that was meant is gone, and the others keep      *)
(* their order, although the argument changes under the loop (228).        *)
(***************************************************************************)
ErasesOne == phase = "done" => vector = eraseConnection(original, toRemove)

=============================================================================
