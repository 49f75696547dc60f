----------------------------- MODULE ParserFeed -----------------------------
(***************************************************************************)
(* A caller of the head parsers as HttpParser.h describes it: bytes arrive *)
(* in pieces, and while the answer is "partial" (-2) the parser is called  *)
(* again with all of them and with the length of the last call.  Proxy.cpp *)
(* calls the same entries, once per message and with last_len 0.           *)
(***************************************************************************)
EXTENDS HttpParser, HttpGrammar

CONSTANTS
    Wires,      \* for request, response and headers: what the peer may send
    MaxUnread,  \* bound: bytes that arrive between two calls
    Leftovers   \* what may lie in memory behind the bytes received

VARIABLES
    kind,       \* which of the three entries is called
    wire,       \* what the peer sends
    received,   \* how many bytes of it have arrived
    last_len,   \* how many there were at the last call
    ret         \* what the last call returned

vars == <<kind, wire, received, last_len, ret>>

data == SubSeq(wire, 1, received)

\* The entry called on bytes, with leftovers behind them.
Entry(bytes, leftovers, last) ==
    LET b == [mem |-> bytes \o leftovers, len |-> Len(bytes)]
    IN  CASE kind = "request"  -> phr_parse_request(b, last)
          [] kind = "response" -> phr_parse_response(b, last)
          [] kind = "headers"  -> phr_parse_headers(b, last)

\* What a first call would find in the bytes received, and would have found
\* in all but the last of them.
Fresh == Entry(data, <<>>, 0)
Before == Entry(Front(data), <<>>, 0)

Init ==
    /\ kind \in DOMAIN Wires /\ wire \in Wires[kind]
    /\ received = 0 /\ last_len = 0 /\ ret = PARTIAL

Arrive ==
    /\ received < Len(wire)
    /\ received - last_len < MaxUnread \/ ret # PARTIAL
    /\ received' = received + 1
    /\ UNCHANGED <<kind, wire, last_len, ret>>

Call ==
    /\ ret = PARTIAL
    /\ received > last_len
    /\ \E leftovers \in Leftovers : ret' = Entry(data, leftovers, last_len).ret
    /\ last_len' = received
    /\ UNCHANGED <<kind, wire, received>>

Next == Arrive \/ Call

Spec == Init /\ [][Next]_vars

-----------------------------------------------------------------------------
HeadEnds ==
    CASE kind = "request" -> RequestHead(data)
      [] kind = "response" -> ResponseHead(data)
      [] kind = "headers" -> HeaderBlock(data, {1})

(***************************************************************************)
(* The parser accepts the heads of the grammar and nothing else, and       *)
(* returns their length, whatever follows them (HttpParser.h:49-50).       *)
(***************************************************************************)
AcceptsHeads == {n \in {Fresh.ret} : n >= 0} = {p - 1 : p \in HeadEnds}

(***************************************************************************)
(* A verdict stands: once a number of bytes has been accepted or refused,  *)
(* more bytes change neither the answer nor the method, path, headers or   *)
(* status that were found (the callers keep them and go on).               *)
(***************************************************************************)
VerdictStands ==
    received > 0 /\ Before.ret # PARTIAL => Fresh = Before

(***************************************************************************)
(* Calling again with last_len, which first looks for the end of the head  *)
(* near the new bytes (lines 197-223), gives the right answer all the      *)
(* same: a head is accepted at the call that completes it, at its own      *)
(* length, and what was refused is no head and does not become one         *)
(* (HttpParser.h:49-50).  Two cases break that: a header block that is an  *)
(* empty line has one line end where is_complete wants two (line 490) and  *)
(* stays partial; a request cut behind a space is parsed on into what lies *)
(* behind it (lines 356-362), and may be refused for that.                 *)
(***************************************************************************)
IsEmptyBlock == kind = "headers" /\ data[1] \in {CR, LF}

CutBehindSpace == kind = "request" /\ wire[last_len] = SP

ResumedAnswersRight ==
    /\ last_len = received /\ HeadEnds # {} /\ ~IsEmptyBlock => ret >= 0
    /\ ret >= 0 => HeadEnds = {ret + 1}
    /\ ret = FAILED /\ ~CutBehindSpace => HeadEnds = {}

(***************************************************************************)
(* The verdict depends on the bytes received only, not on what an earlier  *)
(* message left behind them, although versions, spaces and the line end    *)
(* behind the version are read without a look at the end (lines 244, 358,  *)
(* 363, 421): for a request as long as it does not end in a space.         *)
(***************************************************************************)
LeftoversIgnored ==
    \/ kind = "request" /\ data # <<>> /\ Last(data) = SP
    \/ \A leftovers \in Leftovers : Entry(data, leftovers, 0) = Fresh

(***************************************************************************)
(* A status that was read stays: a chunk that ends inside the status line  *)
(* has status 0 or its final one, never a part of it (lines 233-242, 425;  *)
(* Proxy.cpp:361-363 takes the status and ignores the result).             *)
(***************************************************************************)
StatusStands ==
    kind = "response" /\ received > 0 /\ Before.status # 0 => Fresh.status = Before.status

=============================================================================
