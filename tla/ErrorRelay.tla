----------------------------- MODULE ErrorRelay -----------------------------
(***************************************************************************)
(* How a client is told that its request failed.                           *)
(*                                                                         *)
(* receiveDataFromServer reads every chunk of every fetch into one static  *)
(* buffer and throws the buffer as a C string when the answer is not a 200 *)
(* (Proxy.cpp 374-389); a failed recv() or send() throws a constant (347,  *)
(* 406).  The exception keeps a copy (ProxyException.h), the clients of    *)
(* the URL get copies of that (413-420), over what was recorded for them   *)
(* before, and each sends its own in a later turn (232), when the buffer   *)
(* has long been used for other chunks.                                    *)
(*                                                                         *)
(* The rest of the loop is reduced to what this needs: who asked for what  *)
(* and is watched for output, how many fetches of a URL are under way, and *)
(* which URLs have a node.  What clients are sent of a page is left out.   *)
(***************************************************************************)
EXTENDS Connections

CONSTANTS
    Clients, Urls, NoUrl,
    BUF_SIZE,
    Bytes,
    Chunks,     \* what one recv() may bring
    Messages,   \* the constants of constants.h that exceptions are made from
    OK,         \* the byte that stands for the status line of a 200
    NUL,
    Behind,     \* what memory may hold behind the buffer, up to a NUL
    MaxEvents,  \* bound: chunks received and failures
    MaxFetches  \* bound: fetches of one URL at a time

ASSUME RelayAssumption ==
    /\ NoUrl \notin Urls
    /\ BUF_SIZE \in Nat \ {0} /\ NUL \in Bytes
    /\ Chunks \subseteq Seq(Bytes) /\ Messages \subseteq Seq(Bytes) /\ Behind \subseteq Seq(Bytes)
    /\ \A chunk \in Chunks : Len(chunk) \in 1..BUF_SIZE
    /\ \A message \in Messages : NUL \notin Range(message)

VARIABLES
    buf,        \* the static buffer
    URl,        \* client -> the URL it asked for
    woken,      \* the clients that are watched for output
    gone,       \* the clients that were removed
    fetching,   \* URL -> fetches under way
    cached,     \* the URLs that have a node
    errors,     \* client -> recorded message, for those that have one
    told,       \* client -> the message it was sent
    log         \* history: chunks and failures, with the clients that get a record

clientVars == <<URl, woken, gone>>
cacheVars == <<fetching, cached>>
vars == <<buf, clientVars, cacheVars, errors, told, log>>

Init ==
    /\ buf = [k \in 1..BUF_SIZE |-> NUL]
    /\ URl = [c \in Clients |-> NoUrl] /\ woken = {} /\ gone = {}
    /\ fetching = [url \in Urls |-> 0] /\ cached = {}
    /\ errors = <<>> /\ told = <<>> /\ log = <<>>

ClientsOf(url) == {c \in Clients \ gone : URl[c] = url}

\* prepareClientsToWrite
Wake(url) == woken' = woken \cup ClientsOf(url)

\* A client is removed, and its record with it.
removeClientConnection(c) ==
    /\ gone' = gone \cup {c} /\ woken' = woken \ {c}
    /\ errors' = Erase(errors, c)
    /\ UNCHANGED URl

EndFetch(url) == fetching' = [fetching EXCEPT ![url] = @ - 1]

Records(kind, text, to) ==
    /\ Len(log) < MaxEvents
    /\ log' = Append(log, [kind |-> kind, text |-> text, to |-> to])

-----------------------------------------------------------------------------
\* handleClientDataReceive, also when a client sends on and its request is
\* found again: a URL without a node is fetched, another one is sent.
Ask(c, url) ==
    /\ c \notin gone \cup woken /\ URl[c] \in {NoUrl, url}
    /\ URl' = [URl EXCEPT ![c] = url]
    /\ \/ /\ url \in cached
          /\ woken' = woken \cup {c}
          /\ UNCHANGED fetching
       \/ /\ url \notin cached /\ fetching[url] < MaxFetches
          /\ fetching' = [fetching EXCEPT ![url] = @ + 1]
          /\ UNCHANGED woken
    /\ UNCHANGED <<buf, gone, cached, errors, told, log>>

\* emplace() keeps what is there.
Emplaced(c, text) == IF c \in DOMAIN errors THEN errors ELSE Assign(errors, c, text)

\* The lookup of a client that sends itself its page makes a missing node.
LooksUp(c) == cached' = IF c \in woken THEN cached \cup {URl[c]} ELSE cached

\* The turn of a client throws: its recv() or send() fails, its request is
\* refused, the fetch cannot start.  It is told at once and removed.  The turn
\* of one that has a record gets no further than checkForErrors.
ClientFails(c) ==
    /\ c \notin gone /\ (c \in woken => c \notin DOMAIN errors)
    /\ \E text \in Messages :
        /\ Records("failure", text, {c})
        /\ told' = Assign(told, c, Emplaced(c, text)[c])
    /\ removeClientConnection(c) /\ LooksUp(c)
    /\ UNCHANGED <<buf, fetching>>

\* sendDataFromCache: the client stays watched, is parked, or has all.
Serve(c) ==
    /\ c \in woken /\ c \notin DOMAIN errors
    /\ LooksUp(c)
    /\ \/ woken' \in {woken, woken \ {c}} /\ UNCHANGED <<URl, gone, errors>>
       \/ removeClientConnection(c)
    /\ UNCHANGED <<buf, fetching, told, log>>

\* A client that has left, or cannot be sent its message.
ClientLeaves(c) ==
    /\ c \notin gone
    /\ removeClientConnection(c)
    /\ UNCHANGED <<buf, cacheVars, told, log>>

-----------------------------------------------------------------------------
\* recv() into the buffer: what lies behind the chunk stays.
receiveData(chunk) == [k \in 1..BUF_SIZE |-> IF k \in DOMAIN chunk THEN chunk[k] ELSE buf[k]]

isCorrectResponseStatus(chunk) == chunk[1] = OK

UpToNul(bytes) ==
    IF NUL \in Range(bytes)
    THEN SubSeq(bytes, 1, Min({k \in DOMAIN bytes : bytes[k] = NUL}) - 1)
    ELSE bytes

\* Slip: the string is made from the whole buffer.
WholeBuffer(bytes) == {bytes}

\* The C string at the buffer; without a NUL in it the string runs on.
CString(bytes) ==
    IF NUL \in Range(bytes) THEN {UpToNul(bytes)} ELSE {bytes \o more : more \in Behind}

\* notifyClientsAboutError
Notify(clients, text) ==
    errors' = [c \in DOMAIN errors \cup clients |-> IF c \in clients THEN text ELSE errors[c]]

\* receiveDataFromServer finds data, with the handler of ProxyException.
ReceiveFromServer(url) ==
    /\ fetching[url] > 0
    /\ \E chunk \in Chunks :
        /\ buf' = receiveData(chunk)
        /\ \/ /\ url \notin cached /\ ~isCorrectResponseStatus(chunk)
              /\ Records("chunk", chunk, ClientsOf(url))
              /\ \E text \in CString(buf') : Notify(ClientsOf(url), text)
              /\ EndFetch(url)
              /\ UNCHANGED cached
           \/ /\ url \in cached \/ isCorrectResponseStatus(chunk)
              /\ Records("chunk", chunk, {})
              /\ cached' = cached \cup {url}
              /\ UNCHANGED <<errors, fetching>>
    /\ Wake(url)
    /\ UNCHANGED <<URl, gone, told>>

\* receiveDataFromServer finds the end, with or without a node.
FetchEnds(url) ==
    /\ fetching[url] > 0
    /\ EndFetch(url) /\ Wake(url)
    /\ UNCHANGED <<buf, URl, gone, cached, errors, told, log>>

\* recv() or send() of a fetch fails.
FetchFails(url) ==
    /\ fetching[url] > 0
    /\ \E text \in Messages :
        /\ Records("failure", text, ClientsOf(url))
        /\ Notify(ClientsOf(url), text)
    /\ EndFetch(url) /\ Wake(url)
    /\ UNCHANGED <<buf, URl, gone, cached, told>>

\* The origin has hung up: the clients are not told.
ServerGone(url) ==
    /\ fetching[url] > 0
    /\ EndFetch(url)
    /\ UNCHANGED <<buf, clientVars, cached, errors, told, log>>

\* Slip: the record is a pointer into the buffer.
MessageInBuffer(c) == UpToNul(buf)

MessageOf(c) == errors[c]

\* checkForErrors: the message is sent, and the client removed.
checkForErrors(c) ==
    /\ c \in woken /\ c \in DOMAIN errors
    /\ told' = Assign(told, c, MessageOf(c))
    /\ removeClientConnection(c)
    /\ UNCHANGED <<buf, cacheVars, log>>

Next ==
    \/ \E c \in Clients, url \in Urls : Ask(c, url)
    \/ \E c \in Clients : ClientFails(c) \/ Serve(c) \/ ClientLeaves(c) \/ checkForErrors(c)
    \/ \E url \in Urls :
        ReceiveFromServer(url) \/ FetchEnds(url) \/ FetchFails(url) \/ ServerGone(url)

Spec == Init /\ [][Next]_vars

-----------------------------------------------------------------------------
\* The n-th event is the last that a client got a record of.
LastRecordedFor(c, n) ==
    /\ n \in DOMAIN log /\ c \in log[n].to
    /\ \A m \in DOMAIN log : c \in log[m].to => m <= n

(***************************************************************************)
(* A client that is told an error is told what its own request came to:    *)
(* the answer of its fetch from its start, or the message of the failure,  *)
(* however many chunks of other fetches have gone through the buffer since *)
(* (386, 416 and 240); the last of them, if there were several.            *)
(***************************************************************************)
ToldItsAnswer ==
    \A c \in DOMAIN told : \E n \in DOMAIN log :
        /\ LastRecordedFor(c, n)
        /\ IsPrefix(UpToNul(log[n].text), told[c])

\* What the n-th chunk may bring to light: a longer one before it, or what lies
\* behind the buffer.
ShowsMore(n) ==
    /\ log[n].kind = "chunk"
    /\ \/ Len(log[n].text) = BUF_SIZE
       \/ \E m \in 1..(n - 1) : log[m].kind = "chunk" /\ Len(log[m].text) > Len(log[n].text)

(***************************************************************************)
(* What follows the answer is the end of a longer chunk received before,   *)
(* never more: with no such chunk, and room for a NUL, the client is told  *)
(* the answer and nothing else; a message of a failure is always alone.    *)
(***************************************************************************)
OnlyALongerChunkShows ==
    \A c \in DOMAIN told : \E n \in DOMAIN log :
        /\ LastRecordedFor(c, n)
        /\ told[c] = UpToNul(log[n].text) \/ ShowsMore(n)

=============================================================================
