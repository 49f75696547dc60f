# A TLA+ verification of PollCacheProxy

PollCacheProxy is a caching HTTP proxy for GET requests. One thread waits in
`poll()`, accepts clients, fetches the pages they ask for from the origin
servers and keeps every page in memory for good. This directory models the
program in TLA+, checks the models with TLC and proves theorems about them with
TLAPS. Line numbers are those of `src/Proxy.cpp` unless another file is named.

## Inventory

### Components, their state and their operations

| Component | State | Operations | Modelled in |
|---|---|---|---|
| Event loop (`Proxy.cpp`, `Proxy.h`) | `pollFds`, `clientConnections`, `serverConnections`, `cacheOffsets`, `errors`, `isInterrupted`, the request buffers | `start` 81, `stop` 52, `addNewConnection` 475, `checkClientsConnections` 308, `checkServerConnections` 422 and every handler they call | `Proxy` |
| Connection tables | the three vectors and the positions that tie them | `push_back` (216, 486), `removeConnection` 500, `updatePollFdIndexes` 492, `eraseConnection` 226 | `Connections`, `PollTable` |
| Cache (`Cache.h`, `Cache.cpp`) | `cacheMap`: URL to bytes, `cacheReady`: URL to flag | `contains`, `getCurrentData`, `addData`, `cacheNodeReady`, `setNodeReady` | `Cache` |
| Surroundings (not in the repository) | sockets, backlog, clients, origins | what `accept`, `recv`, `send`, `poll`, `connect`, `close` can do | `Network` (external) |
| HTTP head parsers (`httpParser/`, a copy of picohttpparser) | none | `phr_parse_request`, `phr_parse_response`, `phr_parse_headers`, each also called again with `last_len` | `HttpParser`, `HttpGrammar`, `ParserFeed` |
| Chunked decoder (same file) | `phr_chunked_decoder`, the buffer it works in | `phr_decode_chunked`; not called by the proxy | `ChunkedDecoder` |
| Request model (`models/HttpRequest.h`) | the request buffer of a client | `receiveDataFromClient` 391, `parseHttpRequest` 111, `handleClientDataReceive` 275 | `ClientRequest` |
| Errors and exceptions (`exceptions/`, `constants.h`) | the static receive buffer, `errors` | `receiveDataFromServer` 374, the handler at 413, `checkForErrors` 232 | `ErrorRelay`; the control flow in `Proxy` |
| Command line, `main`, start-up | the flag, the listening socket | `getPortToListen`, `setSignalHandlers`, `initProxySocket`, `listen` | `Startup` |
| Build files | none | none | not modelled |

### How they interact

A client connection has a descriptor, the **position** of its `pollfd` in
`pollFds`, the URL it asked for and a buffer for its request. The first client
of a URL makes a server connection that shares its URL and its *buffer
pointer* (221). `receiveDataFromServer` appends what it reads to the node of
the URL and sets all clients of that URL to `POLLOUT` (366); each client sends
itself the node from its own offset (246) and goes back to `POLLIN` when it has
caught up (265). At the end of a fetch the flag of the URL is set (381); a client
that has the whole node then is closed and removed. A fetch that fails by
exception leaves a message in `errors` for each client of its URL (413), which
the client's next turn sends instead of data (232).

The loop looks at bytes in three places. `receiveDataFromClient` appends a chunk to the
client's buffer and, when the last four bytes are CR LF CR LF, `parseHttpRequest` parses
the whole buffer and replaces it by a new request, built from the parts. The loop goes
on reading from a client that has asked: what it sends behind its request is appended to
the rebuilt one and parsed with it, and the page is asked for again, with a second fetch
if it has no node yet (286-288). `receiveDataFromServer` takes the status of the first
chunk from the parser and ignores the parser's result. If the status is not 200 the
static receive buffer itself, as a C string, becomes the message of the exception. The
head parsers are functions on memory; the chunked decoder is the one part of the library
with a state of its own.

### What is hard here

There is one thread, so the interleavings are those of turns with the outside: data,
ends, resets and signals arrive between any two system calls. The hard parts are
positions that move in two vectors when a third shrinks; tables keyed by descriptors
that the kernel hands out again at once; a buffer with two owners; a flag read before a
send and compared after it; two fetches of one URL, of two clients or of one that is
parsed twice; clients parked on `POLLIN` until somebody wakes them; passes that stop at
their first removal, because `erase(first, last)` returns `end()`; a failure of one
party that others wait for. In the parsers it is the ends of buffers: heads cut
anywhere, calls that resume, macros that look at a byte without asking whether it has
arrived, a decoder that rewrites the buffer it still reads from. `PROJECT.json` lists
each hazard at its line.

What makes each component correct:
- *tables*: each position is that of the connection's own `pollfd`, the
  listening socket keeps `ACCEPT_INDEX`;
- *cache*: a node is filled in order, without gaps, and does not change once it
  is whole and nobody fetches it; errors are not cached;
- *event loop*: each client is sent the node from start to end, nobody waits
  for nobody, nothing outlives its connection, every request is answered, a
  signal ends the loop and nothing stays open;
- *head parsers*: they accept the heads of the grammar and no others, a verdict
  is final, and it does not depend on what lies behind the bytes received nor
  on whether the call was resumed;
- *chunked decoder*: sizes fit, nothing is overwritten before it is read, and
  body, verdict and tail do not depend on the split;
- *request*: what is sent on is what was asked, and a client that sends on stays
  with its page;
- *error relay*: a client is told what its own request came to;
- *start-up*: the process ends or listens as the command line says, and a signal
  is not lost before the loop.

## Modules

| Module | What it is |
|---|---|
| `Connections` | operators on the vectors: `updatePollFdIndexes`, `eraseConnection`, maps |
| `PollTable` | state machine of the three vectors, reduced to descriptors and positions |
| `PollTable_proofs` | TLAPS proofs about `PollTable`, `RemoveIf` and `TableErase` |
| `Cache` | the class `Cache`: two maps, five operations |
| `Network` | sockets, clients and origins; the faults a run allows |
| `Proxy` | the event loop: extends `Network` and `Cache`, uses `Connections` |
| `ProxyProperties` | properties of `Proxy`, its fairness, and the mapping of its vectors to `PollTable` |
| `Delivery` | abstract specification: what the proxy promises its clients |
| `MCProxy` | symmetry and the surroundings of each run |
| `RemoveIf` | `eraseConnection` as `std::remove_if` runs it |
| `TableErase` | `PollTable` composed with `RemoveIf` |
| `VectorLemmas` | lemmas on vectors that lose an element |
| `Proxy_proofs` | TLAPS proofs about `Proxy`: the tables, what is keyed by them, the refinement of `PollTable` |
| `ProxyPages_proofs` | about the cache, what clients ask and are sent, and `stop()` |
| `ProxyFetches_proofs` | about fetches, what they store, the clients that wait for them, and the step-by-step refinement of `Delivery` |
| `HttpParser` | the head parsers as functions on memory |
| `HttpGrammar` | the heads they mean to accept, as a grammar on sets of positions |
| `ParserFeed`, `MCParser` | a peer that sends a message in pieces, a caller that calls again; its messages |
| `ChunkedDecoder`, `ChunkedDecoder_proofs`, `MCChunked` | the decoder as a state machine, its proofs, a reference decoder |
| `ClientRequest`, `MCRequest` | from the bytes of a client to the request that is sent on |
| `ErrorRelay`, `ErrorRelay_proofs`, `MCRelay` | the way of a refused answer through the static buffer, and proofs |
| `Startup`, `Startup_proofs`, `MCStartup` | `main()` up to the loop and back, and proofs |

`Proxy`, `TableErase` and `ParserFeed` are compositions: `Proxy` of the loop, the
cache, the tables and the surroundings; `TableErase` of the tables and the loop
of `remove_if`; `ParserFeed` and `ClientRequest` of the parsers and a peer.
Two refinements are checked. `Proxy` implements `PollTable` (`KeepsTable`). It
implements `Delivery` in two readings: `KeepsPromise` is the whole of it, with its
liveness, for runs in which no two fetches are under way at once (three descriptors
are too few for two fetches) and no signal comes; `KeepsEachPromise` is its steps, client by
client, for each client whose page was fetched once, whatever the others do.

### State and actions of `Proxy`

Variables have the names of the source. `pc` is where the thread is (`poll`,
`accept`, `clients`, `servers`, `exited`, `crashed`) and `it` is the iterator of
the pass. `heap` holds the live request buffers, `fetched` and `wouldBlocks`
are histories that name fetches and bound `EWOULDBLOCK`. C++ positions count from
0 and those of the model from 1.

An action is one *turn*: what the loop does for one connection from the test of
its `revents` to the next iteration. A turn has at most one system call whose
result depends on the outside, so nothing the outside does can fall inside it.
`Poll` snapshots readiness, and the outside moves on before a turn acts on it:
a turn may find the socket reset although `poll()` reported `POLLOUT`. The turns
of a client are split by what they find: `ClientIdle`, `ClientHungUp`,
`ClientToldError`, `ClientServed`, `ClientSendFails`, `ClientReceivesEnd`,
`ClientReceivesPart`, `ClientReceivesMalformed`, `ClientAsksForCached`,
`ClientStartsFetch`, `ClientFetchFails`; those of a fetch likewise. The guards
keep the order of the tests in the code: errors before writing before reading
for clients (312-319), errors before reading before writing for servers
(426-430). A removal sets `it` past the end, as `erase` does.

`crashed` stands for the end of the process by an exception that nobody in the
loop catches (121) or by an access to freed memory (347); `exited` is the end by
a signal.

A client's buffer is freed with the client. A fetch that has not sent its
request by then reads freed memory; the model allows what a build can do: the
old request, another URL, no request, a send that fails, the end of the process.

### Data

Requests and responses are counted in *units*, an abstraction of runs of bytes. A unit
of a response carries the number of its fetch, the request it answers and its place,
which is all the properties tell apart. The last `TermLen` units of a request hold its
closing CR LF CR LF; the first `StatusLen` units of a response hold its status line.
Where the surroundings have the fault `sendsOn`, a client sends up to `MaxMore` units
behind its request, at any time. The loop reads them like all others; whether they end
in CR LF CR LF is open (`EndsRequest`), and if they do the turn is the one that has a
request: `ClientAsksForCached`, `ClientStartsFetch` or `ClientFetchFails`, with the
request the client began with, because the rebuilt one stands first in its buffer;
`ClientRequest` checks that of the bytes. A page is identified with its URL. The program
keys it by the path (283) and fetches it from the host of the `Host` header (204): the
two agree where the path is absolute, as clients of a proxy send it, and only there.
`BUF_SIZE` is the size of one `recv()`, `SndBuf` the room of a send buffer.
`Surroundings` lists what the outside may do in a run: each record has the faults that
may happen, the highest descriptor the process may open and the length of the responses,
and one record holds throughout a behaviour.

In the parser modules a byte is a character, and a few stand for many: `NUL` for
all control characters but CR, LF and HT, `(` for the bytes above the space that
are neither named nor token characters. `ErrorRelay` needs no more than the
length of a chunk and whether it starts with the status line of a 200, and of the
constant messages only that they hold no NUL.

### State and actions of the other machines

- `RemoveIf`: a step of the walk per action (`Find`, `Shift`, `EraseRest`).
  `toRemove` is a *place*, because the C++ parameter is a reference into the
  vector; what stands there changes under the loop.
- `HttpParser`: each C function is an operator on a buffer `[mem, len]`, where
  `mem` may be longer than `len`. A read that the code checks against `buf_end`
  is checked against `len`; one that it does not check finds what lies in `mem`.
  A result below 0 is `*ret`, and passes through the steps that follow (`Then`).
- `ParserFeed`: `Arrive` brings a byte, `Call` calls the entry with the `last_len`
  of the call before, as `HttpParser.h:49-60` asks of callers.
- `ChunkedDecoder`: a step is one byte of a chunk header or one `memmove`, named
  for the decoder state it is in; a call runs from `Supply` to `Exit`.
- `ClientRequest`: `Receive` is `handleClientDataReceive` to its end: behind the
  parser, `AskFor` finds a node for the path, or starts a fetch, or fails to start
  one, and then the client is told and removed (325-328). The nodes are those that
  any client may have filled by then (`cached`). It runs again for every further
  chunk that ends in CR LF CR LF; `asks` is the history. `ReceiveEnd` is an end or
  an error of `recv()`. With fewer than four
  bytes in the chunk the code compares memory in front of its buffer (400), and
  the model allows both results if they are possible.
- `ErrorRelay`: of a client, the turns `Ask` (also again), `ClientFails` (it is told
  at once, 325-329), `Serve` (its lookup may make an empty node, 251),
  `checkForErrors` and `ClientLeaves`; of a fetch, `ReceiveFromServer` with the handler
  of its exception, `FetchEnds` (with or without a node), `FetchFails` (a `recv()` or
  `send()` that records a constant over what was there, 413-420) and `ServerGone`, which
  tells nobody (442). The C string at the buffer ends at the first NUL, or behind
  the buffer if it holds none. What clients are sent of a page is left out, so
  `Serve` leaves open when a client has all.
- `Startup`: one action per call `main()` makes; `bind` with port 0 takes any free
  port of `Ephemeral`, as the kernel does. `poll` is the step from the test of the
  flag into the call: a signal before it only sets the flag, one behind it ends
  the call with `EINTR`. `Signal` comes at any step.

### Slips

Next to some operators stands a variant marked *Slip*, a plausible mistake in
that operator. `PROJECT.json` ("mutants") pairs each property with a slip that
breaks it, to show that the property depends on the code it is about.

## Runs

| Run | Question | Properties |
|---|---|---|
| `tables` | do positions stay right in any order of additions and removals, and does each removal take out the element that was meant? | `TypeOK`, `IndexConsistent`, `ErasesOne` |
| `pages` | two clients and two pages, one of them not a 200; shared fetches, two fetches at once, of two clients or of one that sends on, requests split or malformed: what is stored and who is sent what? | `EachFetchStoredInOrder`, `SentIsCachePrefix`, `CompleteIsWhole`, `WaitsForSomebody`, `WholeNodeIsFinal`, `ErrorComesAlone`, `CachedPagesAreOk`, `SoleFetchHasItsRequest`, `OnlyOwnPage`, `KeepsEachPromise` |
| `trouble` | clients that leave or send on, fetches that cannot start, descriptors reused; origins that refuse, reset, break off or answer with nothing: do the tables stay right, does anybody sleep for good over a whole page? | `TypeOK`, `KeyedByLiveClients`, `NothingElseOpen`, `NoLostWakeup`, `KeepsTable` |
| `served` | liveness: is every request answered, does a signal end the loop, does the loop implement `Delivery`? | `AskedIsAnswered`, `KeepsPromise`, `InterruptEndsLoop`, `StopReleasesAll` |
| `heads` | do the parsers accept the grammar, whatever is cut, resumed or left over? | `AcceptsHeads`, `VerdictStands`, `ResumedAnswersRight`, `LeftoversIgnored`, `StatusStands` |
| `requests` | is the request that is sent on the client's, in any split, and what do bytes behind it make the client ask for? | `SentOnIsTheRequest`, `WellFormedIsTaken`, `StaysWithItsPage` |
| `chunks` | does the decoder answer the same in every split? | `TypeOK`, `SizeNeverWraps`, `UnreadIsIntact`, `SplitDoesNotMatter`, `LeftIsTheTail` |
| `error_relay` | is a client told what its own request came to, and what comes behind it? | `ToldItsAnswer`, `OnlyALongerChunkShows` |
| `startup` | every command line, signals at any step of the start: which port, which end? | `EndsWithItsReason`, `ListensAsAsked`, `EarlySignalEnds` |
| `same_downloads`, `cached_part`, `blocked_send` | three statements of comments that the code does not keep, see below | one each |

Several properties of the loop speak of a page fetched *once* (`SoleFetch`). That
is not a way around a counterexample: two fetches of one URL do mix their data,
which run `same_downloads` shows, and the properties say what remains true
otherwise. They also need clients that stay and send nothing behind their requests
(`FetchedOnce`): a client that is removed, because it has left or because it could not
start its second fetch, takes the request of its first fetch with it (519).

### Bounds, and why they are enough

All bounds are values of constants; nothing else limits the models.

- *Clients, descriptors.* Two clients give every pairwise interaction (two
  readers of one node, two fetches, a descriptor that passes from one to the
  other); four descriptors hold two clients and two fetches, three make
  `accept()` or `socket()` fail and descriptors come round again. `tables` has four
  descriptors: the element that is removed, one before, one behind, and a fetch.
- *Units.* Two or three units of response with a send buffer of one force partial
  sends and clients that catch up in the middle of a page; two units of status
  line with reads of two let the line be split. In `pages` requests are split with
  two units of response at four descriptors and with three at three: the two
  fetches at once and the long page need not meet the split request in one
  behaviour. `trouble` has room for two units: there the failures matter and not
  the partial sends. Its origins fail with one unit at four descriptors, where two
  fetches fail side by side, and with two at three, where one fails in the middle.
- *MaxMore* = 1 unit behind a request in `pages` and `trouble`, 0 elsewhere. In `pages`
  it starts a second fetch of a page of two units by the one client that three
  descriptors leave room for, or meets a second client; in `trouble` two clients send on
  with four descriptors, and a fetch may also fail to start. Proofs cover any number of
  clients and units.
- *MaxBlocks* bounds how often a send ends with `EWOULDBLOCK`: 0, except where
  that is the subject.
- *Messages.* Parsers, requests and decoder are given a list of messages and all
  of them with one byte changed, added or taken out, so that every state of the
  code is reached with every kind of byte it tells apart. `MaxUnread` = 3 bytes at
  most arrive between two calls of a head parser, the distance that `is_complete`
  goes back; shorter pieces are included. The decoder gets pieces of any length,
  and `HexLimit` = 2 stands for 16 digits: the proof covers every value.
- *MaxEvents* = 4 chunks and failures in the error relay: an earlier one, the refused
  one, and two that overwrite the buffer or the record before the message is sent;
  *MaxFetches* = 2 fetches of a URL at a time. The proof covers any number.
- *Ports.* Numbers below, in and beyond the ports, multiples of 2^16 among them; one
  of the two ports the kernel may choose is busy.

Deadlock is not checked, because each machine may really stop: when every client
is served `poll()` blocks for ever, as it should, and after `exited` or
`crashed` there is no process; a message is parsed, a stream decoded, a command
line dealt with. `SYMMETRY` permutes the clients, and in `error_relay` the URLs, in
safety runs only.

### Disagreements with the comments

| Run | Comment | What the code does |
|---|---|---|
| `same_downloads` | two `wget -r` at once must give the same trees (18-19) | both clients start a fetch, because `contains` is true only once data is stored; both fetches append to one node, and the first to end declares it whole |
| `cached_part` | a second client must quickly get the part that is in the cache (36-39) | after one `send()` the client is set to `POLLIN` while the page is incomplete (265), and waits for the origin's next chunk |
| `blocked_send` | an image fetched through the proxy has the checksum of the original (20) | `EWOULDBLOCK` passes the test (255) and its -1 is added to the offset (263) |

These are the places where `HttpParser.c` does not do what its header says; the
properties of `heads` name them as exceptions, and hold elsewhere:

- `phr_parse_headers` called again with `last_len` waits for two line ends
  (`is_complete`, line 490), so a block that is one empty line stays partial;
- a request cut behind a space is parsed on into the bytes behind it
  (`do ++buf while (*buf == ' ')`, lines 356-362), and may be refused for them.

### Fairness

`FairSpec` is `Spec` with two weak fairness conditions. `WF_vars(Program)`: the
process is a running thread, and it moves whenever it is not blocked in `poll()`
with nothing ready. `WF_vars(PeersWork)`: some client that has more to send or
to read, or some origin that has more to answer, does so in the end. Each client
and origin has finitely many such steps, so one condition for all of them is
enough. Nobody is obliged to connect, leave or fail. Nothing is assumed of the
order in which connections are served. `Delivery` has weak fairness for each
client; that the two conditions of `FairSpec` are enough for it is part of what
`KeepsPromise` checks. `Startup` has `WF_vars(Program)` for the same reason as
the loop; events and signals are nobody's duty.

### What the code does and no property forbids

`AskedIsAnswered` and `WaitsForSomebody` are stated for origins that do not fail.
When a server connection is refused or hung up, its clients are not told (442)
and wait for ever; an origin that closes before it answers leaves its clients on
`POLLIN` with an empty node (381, 251); a client whose CR LF CR LF is cut by the
first four bytes of a chunk may never be answered (400); a malformed request, or
one with a folded header, whose name is a null pointer (138), ends the program
(121). A relayed error is followed by the end of a longer chunk received before
it (386). A port number beyond 65535 reaches another port (450), and 0 any port. A
client that sends on may have its page fetched twice, or be told that the second
fetch cannot start (288, 325); and the same path of two hosts is one page (283). Except
for the last, which the models identify away, the models
do all of this; no comment or test of the repository promises otherwise, so
these are recorded as hazards, and where a property touches them it says so.

## Proofs

Every proof is for all values of the constants that satisfy the assumption named
with it, and for behaviours of any length.

### The tables (`PollTable_proofs`)

- `TableTypeCorrect`: `Spec => []TypeOK`;
- `PositionsStayRight`: `Spec => []IndexConsistent`.

The only assumption is `PollTableAssumption`: the listening socket's descriptor
is not one that `accept()` or `socket()` returns. The inductive invariant is
`TypeOK /\ IndexConsistent`. Neither half is inductive alone: removing at a
position needs the bound that `IndexConsistent` gives, and the positions of other
connections move correctly only because no two are equal, within a vector and
across the two. The argument:

1. `RemoveAtProperties`, `UpdateProperties`: what erasing an element and shifting
   positions do, element by element;
2. `RemovalKeepsConsistent`: erasing the `pollfd` at *p* moves a position *k* to
   *k* or *k-1*, injectively on positions other than *p*, and the entry found
   there is the entry that was at *k*. Hence every remaining connection still
   points at its own descriptor. `AdditionKeepsConsistent` is the easy half;
3. `ConsistentSymmetric`: clients and servers play the same part, so each lemma
   serves both kinds of connection.

### `remove_if` (`PollTable_proofs`)

`EraseRemovesItsArgument` (`Spec => []ErasesOne` of `RemoveIf`) needs no
assumption: if the sockets of a vector are distinct, the loop takes out the
element its argument referred to. The invariant says what the vector looks like
at every step of the walk: unchanged before the first move; then everything
kept behind `toRemove` has moved by one, and nothing has changed from `result` on.
So `toRemove` denotes the removed connection or its successor, and neither is
among the elements still to be looked at. `EraseTakesTheRightOne` composes this with the
tables: in every state that `ErasingSpec` reaches the sockets *are* distinct
(`OwnSockets`, from `IndexConsistent`), so each removal of the real program is the
removal `PollTable` assumes.

### The chunked decoder (`ChunkedDecoder_proofs`)

`DecoderTypeCorrect`, `SizesNeverWrap` and `UnreadStaysIntact`, for every set of
streams and every width of `size_t` (`DecoderAssumption`: `Power[n]` is 16 to the
n-th). The invariant is `TypeOK`, `SizeHasRoom` and `UnreadIsIntact`. `SizeHasRoom` says
that a size of *n* digits leaves room for as many more as the limit allows, that a
chunk in state `DATA` has bytes left, and that digits are counted from 0 again.
`UnreadIsIntact` says that `dst <= src` and that everything from `src` on is as it was
given, so that `memmove` only writes over what has been read.

`LeftoversAreTheTail` is `LeftIsTheTail`, which speaks of the moment a call returns.
Its invariant adds `PieceIsLast`: what a call found in the buffer is the end of what was
given so far. Only the end of the last chunk returns a count; what is unread then is
intact, hence the end of the piece and of the stream, and the last `memmove` puts it
behind the body.

### The event loop (`Proxy_proofs`)

For any number of clients, URLs and descriptors, any lengths, and every fault of
the surroundings, under `NetworkAssumption` and nothing else:

- `InvariantHolds`: `Spec => []IInv`;
- `TypesHold`, `DescriptorsKeyLiveClients`, `NothingLeaks`, `NoWakeupIsLost`:
  `TypeOK`, `KeyedByLiveClients`, `NothingElseOpen` and `NoLostWakeup` follow;
- `LoopImplementsTable`: `Spec => KeepsTable`.

The inductive invariant `IInv` has a part for each thing that one handler relies
on and others must keep:

- `Types`;
- `Linked`: every connection is at home at its position, no two share one, no
  descriptor is polled twice, the listening socket is the first entry;
- `Known`: a client is in one place only, the backlog or the vector;
- `Watched`: a client without a URL is watched for input, a client of a page that
  is whole for output;
- `Heard`: who has an entry in `errors` is a client that is watched for output;
- the keys of `cacheOffsets` are the sockets of the clients;
- `Open`: while the loop runs, the sockets that are open are those in the table,
  but for the sockets of abandoned fetches, and each client's socket is that of
  the owner of its buffer; and the live buffers are the clients' buffers.

None of these is inductive alone. A descriptor that `accept()` hands out is not in
the table because it was not open (`Open`); that a client does not inherit an error
needs that errors are keyed by live clients; that the entry of a client that is
removed is not somebody else's needs `Linked`. The first lemmas prove, for
the vectors with all they hold, what `PollTable_proofs` proves for positions:
`RemovalKeepsLinked` says that after a removal every connection that is left has
the entry it had. Then there is one lemma per action, grouped by what the action
does to the vectors: those that move nothing (`NothingMoves`), those that add, and
those that remove.

`NoWakeupIsLost` depends on the order inside a turn: the flag is set and all clients
of the page are set to `POLLOUT` in the same turn (378-383), and a client that has
caught up is put back to `POLLIN` only if the flag it read is still down (265).

For the refinement, `LoopImplementsTable` maps each turn to an addition or a
removal of `PollTable` or to a stutter. Everything proved about `PollTable` is thereby
true of the loop.

### Pages and clients (`ProxyPages_proofs`)

- `WholeNodesAreSettled`: `Spec => WholeNodeIsFinal`. Only four handlers write the
  cache: a lookup, which changes no node that is there; the start of a fetch, only
  if the URL is not there; and the two results of a read, for the URL of a fetch
  that is under way.
- `SentInOrder`: `Spec => []SentInv`, for every client, fault and second fetch: until a
  send to it ends with `EWOULDBLOCK`, what it was sent is the first part of its node,
  up to its offset, and its send buffer has room for what is in it. The node may
  grow, also by the data of a second fetch, but only at its end (`NodesGrow`).
- `PrefixesAreSent`: `Spec /\ MaxBlocks = 0 => []SentIsCachePrefix`. The hypothesis is
  needed: the -1 of a blocked send is added to the offset, which run `blocked_send`
  shows.
- `StopLeavesNothing`: `StopReleasesAll` where no fetch is given up after its socket
  was opened (lines 204 and 210 leave it open, and `stop()` finds only what is in
  `pollFds`).

Behind them is `AsksForItsPage` (lemma `ClientsAskForTheirPage`): what of a client's
bytes is in its buffer, in its socket and still with it adds up, also for clients that
send on, and a client with a URL has the one it asked for.

The lemmas between them say where a connection and its entry come from:
each client of the next state `Descends` from one of this state or has just been
accepted.

### Fetches (`ProxyFetches_proofs`)

For origins that answer, `Faultless({"emptyResponse", "originFails"})`, and with
clients that leave or send on, fetches that cannot start, signals, split and malformed
requests, and any number of fetches of one URL:

- `HonestInvHolds`: `[]HonestInv`;
- `PagesAreOk`: `[]CachedPagesAreOk`;
- `NobodyWaitsInVain`: `[]WaitsForSomebody`.

`HonestInv` ties four things. A fetch that has stored something has its page in the
cache, and before it has sent its request nothing comes (`FetchesAreGood`). A page
that is in the cache and not whole is being filled by a fetch that has stored
something (`PagesFilled`). A client is shown a page only if there is one, or an
error (`ClientsWoken`): else its lookup would make an empty node (`Cache.cpp:8`), and
a fetch that finds a node takes its data without looking at the status (385). A
client that is watched for input has a fetch (`ClientsWait`): when a fetch ends
without a status 200, it tells its clients, and they are watched for output; when it
ends as it should, the page has data, because an origin that answers with something
has not closed before its first unit was read. Without the hypothesis both properties are false,
which the hazards at 381 and 442 say.

A page that is fetched *once* can be followed to its clients. With clients that
stay and send nothing behind their requests as well,
`Faultless({"clientLeaves", "sendsOn", "emptyResponse", "originFails"})`, and no send()
that fails with EWOULDBLOCK, `MaxBlocks = 0`; fetches may still fail to start, signals
come, requests be split or malformed, and answers other than 200 be refused:

- `SoleInvHolds`: `[]SoleInv`;
- `SoleFetchesReadTheirRequest`: `[]SoleFetchHasItsRequest`;
- `NobodyGetsAnothersPage`: `[]OnlyOwnPage`;
- `ErrorsComeAlone`: `[]ErrorComesAlone`;
- `CompletePagesAreWhole`: `[]CompleteIsWhole`.

`SoleInv` is `Settled` and what it rests on: fetches carry different numbers, each the
place of its URL in `fetched` (`FetchNumbers`); no client has hung up, and none is
read from after it has asked (`ClientsListen`); no client that is there has been told
its end (`NoneYet`). The four parts of `Settled` are one argument in a circle, which is
why none of the four properties is inductive alone. While a page has its only
fetch, the node is the first `next` units of the response, the flag is not set, and
the fetch has asked for its URL or shares the buffer of a client that is
still there (`SoleFetches`). That client stays because it goes only when it is
told of an error or has all of the page: the first needs that nobody fetches the
page any more (`SoleErrors`), the second a flag that is set. Once the fetch
has ended, the node is the whole response with its flag set, because the origin closes
only then (`OriginsEndWhole`), or there is no node, because the first chunk was refused
(`SolePages`); and then no client of it has been sent anything, so those that are told
have nothing. What a client is sent is a beginning of its node (`SentInv`), so it has its
own page only, and all of it when the flag was set and the offset is the
length of the node (`SoleEnds`). A second fetch breaks every link of this, and so does a
client that leaves before its fetch has asked (the hazard at 221), or is removed then
because it sent on and its second fetch could not start (277): the request is read
from freed memory.

### What fetches store (`ProxyFetches_proofs`)

`FetchesStoreInOrder`: `Spec => []EachFetchStoredInOrder`, for every fault and any number
of fetches of one URL: the units of each fetch are in the node of its URL and in no
other, in the order in which they came, none missing and none twice, although the units
of two fetches may alternate. The invariant `StoredInv` (theorem `StoredInvHolds`) says
that fetches carry different numbers (`FetchNumbers`), that no origin answers beyond its
length (`ResponsesBounded`), that a node holds units of fetches of its URL only
(`NodesFromFetches`), and that for each fetch there is an *h* such that its units in the
node are its first *h*, one place for each (`FetchesHeld`). The last is not enough for the
next read to be the unit *h + 1*: for a fetch under way *h* is what its socket has
delivered (`ReadIsHeld`), because every read that succeeds is stored in the same turn
(380-387) or ends the fetch.

### The promise, step by step (`ProxyFetches_proofs`)

`PromisesAreKept`: `KeepsEachPromise`, under the hypotheses of `SoleInv`: clients stay
and send nothing behind their requests, origins answer in full, no `send()` ends with
`EWOULDBLOCK`. For a client whose page was fetched once, each step of the loop is a step
of `Delivery` or changes nothing the client sees: it asks, is sent the next piece of its
page, or its connection ends, with the last piece or with nothing at all. The mapping
reads what the client received as pairs of request and place, and an end that is not a
complete page as an error. A step that sends keeps what was sent a beginning of the page
because the client is sent its node (`SentInv`) and the node is the page (`Settled`);
the end comes with the last piece because the flag that the turn compares belongs to a
node that is whole; an error finds a client that has been sent nothing (`SoleErrors`).
The step relates two states: the page may be fetched a second time in it, and then
nothing is claimed, so `FetchedOnce` is asked of the state after it. Liveness of
`Delivery` is not part of this theorem.

### The error relay (`ErrorRelay_proofs`)

Under `RelayAssumption` (a `recv()` brings between one byte and the size of the buffer, NUL
is a byte and is in no constant message), for any bytes, any number of clients, URLs,
fetches, chunks and failures:

- `ClientsAreToldTheirAnswers`: `[]ToldItsAnswer`;
- `NothingElseIsTold`: `[]OnlyALongerChunkShows`.

`RelayInv` says three things. A byte of the buffer that is not NUL lies within the length of
a chunk that was received. Every message, recorded or told, begins with what was
last recorded for its client, an answer up to its first NUL or the message of a failure,
and is longer only if it is an answer and a longer chunk had come or the answer left no
room for a NUL. And who has a record is watched for output, so that a turn that throws
never finds one: `emplace` (326) would keep the old message. A recorded message survives
the chunks that overwrite the buffer because the exception holds a copy; it is overwritten
only by a later event of the same client, which is then the last.

### Start-up (`Startup_proofs`)

`EndsAreTold` (`[]EndsWithItsReason`) and `PortIsTheOneAsked` (`[]ListensAsAsked`), for
every command line and signals at any step, under `StartupAssumption` (what `%d` reads
is an integer, and the kernel chooses among the ports). `StartInv` ties the program
counter to what has been done by then: what was printed, whether a port was read and
from which command line, whether the handlers are set, whether the socket is bound and
listens.

### What stays with TLC

- Liveness: `AskedIsAnswered`, `InterruptEndsLoop`, `EarlySignalEnds`, and the fairness of
  `Delivery` in `KeepsPromise`, whose steps are proved as far as `PromisesAreKept` says.
- The head parsers (`heads`), whose operators are recursive, and `ClientRequest`
  (`SentOnIsTheRequest`, `WellFormedIsTaken`), which uses them.
- `SplitDoesNotMatter`, which compares the decoder with a recursive reference decoder.

## Plan

Done: connection tables and `remove_if` with proofs; cache, surroundings and
event loop with safety, liveness and two refinements, whose steps are proved; proofs
of what the loop keeps in its tables, stores, sends to its clients and leaves behind,
up to whole pages for the clients of a page fetched once; head parsers against a
grammar; the chunked decoder, the error relay and start-up with proofs; the request;
three disagreements.

Left: what the proof system does not reach, the liveness properties and the modules
with recursive operators.

## Not modelled

- Texts of error messages, except of relayed answers, and all logging.
- The fields of `HttpRequest` that nothing reads (the HTTP version).
- The table of token characters byte by byte (`HttpParser.c:96-103`): it is cut
  down to the characters that the code treats differently. The SSE 4.2 variant of
  `findchar_fast` finds what the plain loop behind it finds.
- The read behind the buffer when a `std::string` is made from a pointer without
  a terminator and then cut to length (124): the bytes read too many are cut off
  again, and only a fault of the read would show.
- Time. A server socket blocks after `connect` (213): the model's `recv()` never
  blocks, because it is called only after `POLLIN`. The `send()` of the request and
  the name lookup of `getaddrinfo` (183) may block the whole loop for a while in
  the program; in the model they take no time.
- The build files and the generated `cmake-build-debug` tree, which hold no
  behaviour of the program.
