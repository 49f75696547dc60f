--------------------------- MODULE ClientRequest ---------------------------
(***************************************************************************)
(* How Proxy.cpp gets from the bytes a client sends to the request it      *)
(* sends on: receiveDataFromClient looks for CR LF CR LF at the end of the *)
(* chunk it received, parseHttpRequest runs over the whole buffer of the   *)
(* client and builds a new request, and handleClientDataReceive puts that  *)
(* into the buffer and asks the cache or an origin for the page.  The      *)
(* client may go on sending; the loop reads that too, into the same        *)
(* buffer, behind the new request, and when it ends in CR LF CR LF parses  *)
(* the buffer and asks once more.                                          *)
(***************************************************************************)
EXTENDS HttpGrammar

CONSTANTS
    Wires,      \* what the client may send
    BUF_SIZE,   \* bytes one recv() returns at most
    MinChunks,  \* bounds: bytes one recv() returns at least
    HOST, CONNECTION, FIT_URL   \* texts of the code, as bytes

VARIABLES
    wire,       \* what the client sends
    MinChunk,   \* the bound of this behaviour
    received,   \* how many bytes of it have been received
    buffer,     \* client.buffer
    httpRequest,\* what parseHttpRequest returned last
    state,      \* reading, asked, removed, or crashed: an exception left start()
    cached,     \* paths this client has met that have a node in the cache
    asks        \* history: what it asked for, in order, and what came of it

vars == <<wire, MinChunk, received, buffer, httpRequest, state, cached, asks>>

data == SubSeq(wire, 1, received)

NoRequest == [method |-> NULL, path |-> NULL, headers |-> <<>>, host |-> NULL]

Init ==
    /\ wire \in Wires /\ MinChunk \in MinChunks /\ received = 0
    /\ buffer = <<>> /\ httpRequest = NoRequest /\ state = "reading"
    /\ cached = {} /\ asks = <<>>

Terminator == <<CR, LF, CR, LF>>

(***************************************************************************)
(* receiveDataFromClient: do the last four bytes of the chunk end a        *)
(* request?  Of a shorter chunk the comparison looks at bytes in front of  *)
(* the static buffer, which may be anything.                               *)
(***************************************************************************)
EndsRequest(chunk) ==
    IF Len(chunk) >= 4 THEN {IsSuffix(Terminator, chunk)}
    ELSE IF IsSuffix(chunk, Terminator) THEN BOOLEAN ELSE {FALSE}

parsed(bytes) == phr_parse_request([mem |-> bytes, len |-> Len(bytes)], 0)

IsKept(header) == header.name # CONNECTION

\* Slip: the blank behind the colon is taken for a part of the name.
HeaderLineTight(header) == header.name \o <<SP, ":">> \o header.value \o <<CR, LF>>

HeaderLine(header) == header.name \o <<":", SP>> \o header.value \o <<CR, LF>>

requestPath(path) == IF path = FIT_URL THEN <<"/">> ELSE path

\* Slip: the empty line behind the headers is left out.
newRequestOpen(r) ==
    r.method \o <<SP>> \o requestPath(r.path) \o <<SP>> \o VersionText \o <<"0", CR, LF>>
    \o FlattenSeq([i \in DOMAIN SelectSeq(r.headers, IsKept) |->
                        HeaderLine(SelectSeq(r.headers, IsKept)[i])])

\* The request that is sent on: HTTP/1.0, without Connection headers.
newRequest(r) ==
    r.method \o <<SP>> \o requestPath(r.path) \o <<SP>> \o VersionText \o <<"0", CR, LF>>
    \o FlattenSeq([i \in DOMAIN SelectSeq(r.headers, IsKept) |->
                        HeaderLine(SelectSeq(r.headers, IsKept)[i])])
    \o <<CR, LF, CR, LF>>

\* The last of several Host headers counts.
hostOf(r) ==
    LET hosts == SelectSeq(r.headers, LAMBDA header : header.name = HOST)
    IN  IF hosts = <<>> THEN NULL ELSE Last(hosts).value

\* Slip: an empty value is taken for a missing one.
HasNullOrEmpty(r) ==
    \/ r.method = NULL \/ r.path = NULL
    \/ \E i \in DOMAIN r.headers : NULL \in {r.headers[i].name, r.headers[i].value}

\* A NULL that a std::string is made from.
HasNull(r) ==
    \/ r.method = NULL \/ r.path = NULL
    \/ \E i \in DOMAIN r.headers : r.headers[i].name = NULL

Serving == state \in {"reading", "asked"}

(***************************************************************************)
(* Behind the parser (283-291): a page that has a node by now, through a   *)
(* fetch of whichever client, is served from it; for any other a fetch is  *)
(* started, or cannot be, and then the client is told and removed          *)
(* (325-328).  That the client has asked before makes no difference.       *)
(***************************************************************************)
AskFor(r) ==
    /\ cached' \in {cached, cached \cup {r.path}}
    /\ \E result \in IF r.path \in cached' THEN {"cached"} ELSE {"fetch", "error"} :
        /\ asks' = Append(asks, [method |-> r.method, path |-> r.path, host |-> hostOf(r),
                                result |-> result])
        /\ state' = IF result = "error" THEN "removed" ELSE "asked"

\* handleClientDataReceive.  A partial request (-2) is taken like a whole one.
Receive ==
    \E n \in MinChunk..BUF_SIZE :
        LET chunk == SubSeq(wire, received + 1, received + n)
            bytes == buffer \o chunk
            r == parsed(bytes)
        IN  /\ Serving
            /\ received + n <= Len(wire)
            /\ received' = received + n
            /\ \/ /\ FALSE \in EndsRequest(chunk)
                  /\ buffer' = bytes
                  /\ UNCHANGED <<httpRequest, state, cached, asks>>
               \/ /\ TRUE \in EndsRequest(chunk)
                  /\ r.ret = FAILED \/ HasNull(r)
                  /\ buffer' = bytes
                  /\ state' = "crashed"
                  /\ UNCHANGED <<httpRequest, cached, asks>>
               \/ /\ TRUE \in EndsRequest(chunk)
                  /\ ~(r.ret = FAILED \/ HasNull(r))
                  /\ httpRequest' = [method |-> r.method, path |-> r.path,
                                     headers |-> r.headers, host |-> hostOf(r)]
                  /\ buffer' = newRequest(r)
                  /\ AskFor(r)
            /\ UNCHANGED <<wire, MinChunk>>

\* The same handler when recv() brings nothing or fails (273, 395, 406).
ReceiveEnd ==
    /\ Serving
    /\ state' = "removed"
    /\ UNCHANGED <<wire, MinChunk, received, buffer, httpRequest, cached, asks>>

Next == Receive \/ ReceiveEnd

Spec == Init /\ [][Next]_vars

-----------------------------------------------------------------------------
(***************************************************************************)
(* The request that is sent on is the client's: read again it has the same *)
(* method, path and host and the same headers in the same order, but for   *)
(* Connection (lines 132-156).  Behind it stands one line end more.        *)
(***************************************************************************)
SentOnIsTheRequest ==
    state = "asked" =>
        LET again == parsed(buffer)
        IN  /\ again.ret > 0
            /\ SubSeq(buffer, again.ret + 1, again.ret + 2) = <<CR, LF>>
            /\ again.method = httpRequest.method
            /\ again.path = requestPath(httpRequest.path)
            /\ again.headers = SelectSeq(httpRequest.headers, IsKept)
            /\ hostOf(again) = httpRequest.host

(***************************************************************************)
(* What a client sends behind its request is read into the same buffer and *)
(* parsed with it (277), and may start another fetch (286-288) or have the *)
(* client removed (325-328).  But it is always its own page that it asks   *)
(* for again, of the same host and by the same method; only FIT_URL is     *)
(* "/" the second time, because the request sent on says so (132).  And    *)
(* no bytes behind a request that was understood make the program end.     *)
(***************************************************************************)
StaysWithItsPage ==
    /\ \A i \in 2..Len(asks) :
        /\ asks[i].path = requestPath(asks[1].path)
        /\ asks[i].method = asks[1].method /\ asks[i].host = asks[1].host
    /\ state = "crashed" => asks = <<>>

(***************************************************************************)
(* Only a request that is not in the grammar, or has a folded header (line *)
(* 138), makes the program end: a well-formed one is understood in any     *)
(* split, if no chunk is shorter than four bytes (line 400).               *)
(***************************************************************************)
Unfolded(s) == \A i \in 1..Len(s) - 1 : s[i] = LF => s[i + 1] \notin Blanks

WellFormedIsTaken ==
    LET ends == RequestHead(data)
    IN  MinChunk >= 4 /\ ends # {} /\ Unfolded(data) =>
            /\ state # "crashed"
            /\ received + 1 \in ends /\ FALSE \notin EndsRequest(data) => asks # <<>>

=============================================================================
