----------------------------- MODULE TableErase -----------------------------
(***************************************************************************)
(* PollTable with eraseConnection spelled out: a removal also starts the   *)
(* loop of RemoveIf on the vector it is about, and nothing else happens to *)
(* the vectors until that loop is done.  PollTable takes for granted that  *)
(* one element goes; here that is checked in the states it reaches.        *)
(***************************************************************************)
EXTENDS PollTable

VARIABLES original, toRemove, vector, first, result, phase

Loop == INSTANCE RemoveIf

loopVars == <<original, toRemove, vector, first, result, phase>>

ErasingInit == Init /\ Loop!Init

Adding ==
    /\ phase \in {"idle", "done"}
    /\ \E fd \in Fds : AddClient(fd) \/ AddServer(fd)
    /\ UNCHANGED loopVars

ErasingClient ==
    \E i \in DOMAIN clientConnections :
        RemoveClient(i) /\ Loop!Call(clientConnections, i)

ErasingServer ==
    \E j \in DOMAIN serverConnections :
        RemoveServer(j) /\ Loop!Call(serverConnections, j)

Erasing == Loop!Step /\ UNCHANGED vars

ErasingNext == Adding \/ ErasingClient \/ ErasingServer \/ Erasing

ErasingSpec == ErasingInit /\ [][ErasingNext]_<<vars, loopVars>>

-----------------------------------------------------------------------------
(***************************************************************************)
(* Exactly the connection that was meant is gone, and the others keep      *)
(* their order, although the argument changes under the loop (228), in     *)
(* every vector that accepts, fetches and removals leave behind.           *)
(***************************************************************************)
ErasesOne == Loop!ErasesOne

=============================================================================
