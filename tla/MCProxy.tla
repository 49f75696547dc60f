------------------------------ MODULE MCProxy ------------------------------
EXTENDS ProxyProperties

Symmetry == Permutations(Clients)

Around(enabled, descriptors, length) ==
    [faults |-> enabled, limit |-> descriptors, RespLen |-> length]

\* Peers that do their part, with room for every connection, or with clients
\* that send their requests in pieces or something that is no request; or that
\* send on behind it: one with two fetches of its page, or two with one.
GoodPeers == {Around({}, 4, 2)}
SomePeers == {
    Around({}, 4, 3),
    Around({"splitRequest", "malformed"}, 4, 2),
    Around({"splitRequest", "malformed"}, 3, 3),
    Around({"sendsOn"}, 3, 2)}

\* Clients that leave or send on and fetches that cannot be started, short
\* of descriptors; origins that fail, with two fetches or in the middle of
\* one.
BadPeers == {
    Around({"clientLeaves", "resolveFails", "connectFails"}, 3, 2),
    Around({"originFails", "emptyResponse"}, 4, 1),
    Around({"originFails", "emptyResponse"}, 3, 2),
    Around({"sendsOn", "resolveFails"}, 4, 1),
    Around({"sendsOn", "resolveFails"}, 3, 2)}

\* Peers that do their part, one fetch or several at once, or a signal.
FairPeers == {Around({}, 4, 1), Around({}, 3, 2), Around({"interrupt"}, 3, 2)}
=============================================================================
