------------------------------- MODULE Cache -------------------------------
(***************************************************************************)
(* class Cache (Cache.h, Cache.cpp): one node of bytes per URL and one     *)
(* flag per URL that says the node is whole.  The two maps are filled by   *)
(* different calls: setNodeReady touches only the flags, addData and       *)
(* getCurrentData only the nodes, so a URL may be in one and not in the    *)
(* other.  Nothing ever erases an entry of either.                         *)
(***************************************************************************)
EXTENDS Connections

VARIABLES
    cacheMap,   \* cacheMap[url]: the bytes of the node, for the URLs that have one
    cacheReady  \* cacheReady[url]: the node is whole, for the URLs ever fetched

cacheVars == <<cacheMap, cacheReady>>

CacheInit ==
    /\ cacheMap = <<>>
    /\ cacheReady = <<>>

contains(url) == url \in DOMAIN cacheMap

\* What the node holds; a URL without a node reads as an empty one.
nodeData(url) == IF contains(url) THEN cacheMap[url] ELSE <<>>

\* Slip: a node that exists is taken for a whole one.
cacheNodeExists(url) == contains(url)

\* A flag that was never set reads as false (std::map::operator[]).
cacheNodeReady(url) ==
    /\ contains(url)
    /\ url \in DOMAIN cacheReady
    /\ cacheReady[url]

\* Slip: the lookup replaces the node it finds.
getFreshData(url) == cacheMap' = Assign(cacheMap, url, <<>>)

\* Reading through operator[] creates the node when it is missing.
getCurrentData(url) == cacheMap' = Assign(cacheMap, url, nodeData(url))

\* Slip: inserted at begin() instead of end().
addDataInFront(url, newData) ==
    cacheMap' = Assign(cacheMap, url, newData \o nodeData(url))

addData(url, newData) == cacheMap' = Assign(cacheMap, url, nodeData(url) \o newData)

\* Slip: the argument is ignored.
setNodeNotReady(url, isReady) == cacheReady' = Assign(cacheReady, url, FALSE)

setNodeReady(url, isReady) == cacheReady' = Assign(cacheReady, url, isReady)

=============================================================================
