---------------------------- MODULE Proxy_proofs ----------------------------
(***************************************************************************)
(* Proofs about the event loop of Proxy, for any number of clients, URLs   *)
(* and descriptors and for every fault that Network knows: the tables, and *)
(* what is keyed by the positions and the descriptors in them.             *)
(***************************************************************************)
EXTENDS ProxyProperties, VectorLemmas, TLAPS

(***************************************************************************)
(* What the three vectors of Proxy hold, and lemmas about the ways a turn  *)
(* of the loop changes them: an entry and a connection more, a connection  *)
(* and its entry less, or the same ones with other events or another URL.  *)
(***************************************************************************)
Events == {"IN", "OUT"}
Entry == [fd : Descriptors \cup {listenFd}, events : Events, revents : SUBSET {"IN", "OUT", "ERR"}]

Conns(U) == ConnectionsOf(Descriptors, U, Clients)
ClientConns == Conns(Urls \cup {NoUrl})
ServerConns == Conns(Urls)

(***************************************************************************)
(* The tables.  Linked is PollTable's Consistent for entries with events   *)
(* and connections with everything they hold.                              *)
(***************************************************************************)
Home(table, conns) ==
    \A i \in 1..Len(conns) :
        /\ conns[i].pollFdsIndex \in 2..Len(table)
        /\ table[conns[i].pollFdsIndex].fd = conns[i].socketFd

Apart(conns) ==
    \A i, j \in 1..Len(conns) : conns[i].pollFdsIndex = conns[j].pollFdsIndex => i = j

Disjoint(conns, others) ==
    \A i \in 1..Len(conns), j \in 1..Len(others) :
        conns[i].pollFdsIndex # others[j].pollFdsIndex

PolledOnce(table) == \A p, q \in 1..Len(table) : table[p].fd = table[q].fd => p = q

Linked(table, own, others) ==
    /\ Len(table) >= 1 /\ table[1].fd = listenFd
    /\ PolledOnce(table)
    /\ Home(table, own) /\ Home(table, others)
    /\ Apart(own) /\ Apart(others)
    /\ Disjoint(own, others)

\* Every client is in one place only, and has asked for something.
Known(conns, queue, asked) ==
    /\ \A i, j \in 1..Len(conns) : conns[i].buffer = conns[j].buffer => i = j
    /\ \A k, l \in 1..Len(queue) : queue[k] = queue[l] => k = l
    /\ \A i \in 1..Len(conns), k \in 1..Len(queue) : conns[i].buffer # queue[k]
    /\ \A i \in 1..Len(conns) : asked[conns[i].buffer] # NoUrl
    /\ \A k \in 1..Len(queue) : asked[queue[k]] # NoUrl

(***************************************************************************)
(* What the loop waits for on behalf of its clients: for input as long as  *)
(* it knows no URL, and for output when there is an error to tell or the   *)
(* page, one of whole, is there.                                           *)
(***************************************************************************)
Watched(table, conns, whole) ==
    \A i \in 1..Len(conns) :
        LET entry == table[conns[i].pollFdsIndex]
        IN  /\ conns[i].URl = NoUrl => entry.events = "IN" /\ "OUT" \notin entry.revents
            /\ conns[i].URl \in whole => entry.events = "OUT"

Heard(table, conns, fds) ==
    \A fd \in fds : \E i \in 1..Len(conns) :
        conns[i].socketFd = fd /\ table[conns[i].pollFdsIndex].events = "OUT"

FdsOf(conns) == {conns[i].socketFd : i \in 1..Len(conns)}
BuffersOf(conns) == {conns[i].buffer : i \in 1..Len(conns)}

-----------------------------------------------------------------------------
\* Connection c and its entry of table are what d and its entry of old were.
Follows(table, c, old, d) ==
    SameConnection(c, d) /\ table[c.pollFdsIndex] = old[d.pollFdsIndex]

\* What is left of a table without entry p, of the connections without the
\* i-th, and of those none of which went.
Left(t, table, p) ==
    /\ \A q \in 1..Len(t) : \E k \in 1..Len(table) : k # p /\ t[q] = table[k]
    /\ \A k \in 1..Len(table) : k # p => \E q \in 1..Len(t) : t[q] = table[k]

Survive(t, o, table, own, i) ==
    /\ \A j \in 1..Len(o) : \E k \in 1..Len(own) : k # i /\ Follows(t, o[j], table, own[k])
    /\ \A k \in 1..Len(own) : k # i => \E j \in 1..Len(o) : Follows(t, o[j], table, own[k])

Stay(t, r, table, others) ==
    Len(r) = Len(others) /\ \A j \in 1..Len(others) : Follows(t, r[j], table, others[j])

(***************************************************************************)
(* The heart of removeConnection: the vectors stay linked, every remaining *)
(* connection keeps its entry, and nothing else is lost.                   *)
(***************************************************************************)
LEMMA RemovalKeepsLinked ==
  ASSUME NEW table \in Seq(Entry), NEW U, NEW V,
         NEW own \in Seq(Conns(U)), NEW others \in Seq(Conns(V)),
         NEW i \in 1..Len(own), Linked(table, own, others)
  PROVE  LET p == own[i].pollFdsIndex
             t == RemoveAt(table, p)
             o == eraseConnection(updatePollFdIndexes(own, p), i)
             r == updatePollFdIndexes(others, p)
         IN  /\ p \in 2..Len(table)
             /\ t \in Seq(Entry) /\ o \in Seq(Conns(U)) /\ r \in Seq(Conns(V))
             /\ Linked(t, o, r)
             /\ Survive(t, o, table, own, i)
             /\ Stay(t, r, table, others)
             /\ Left(t, table, p)
<1> DEFINE p == own[i].pollFdsIndex
           t == RemoveAt(table, p)
           u == updatePollFdIndexes(own, p)
           o == RemoveAt(u, i)
           r == updatePollFdIndexes(others, p)
           Kept(j) == IF j < i THEN j ELSE j + 1
<1>1. /\ Len(table) \in Nat /\ Len(own) \in Nat /\ Len(others) \in Nat
      /\ \A j \in 1..Len(own) : own[j] \in Conns(U)
      /\ \A j \in 1..Len(others) : others[j] \in Conns(V)
  BY LenProperties, ElementOfSeq
<1>2. /\ \A j \in 1..Len(own) :
            /\ own[j].pollFdsIndex \in 2..Len(table)
            /\ table[own[j].pollFdsIndex].fd = own[j].socketFd
      /\ \A j \in 1..Len(others) :
            /\ others[j].pollFdsIndex \in 2..Len(table)
            /\ table[others[j].pollFdsIndex].fd = others[j].socketFd
  BY DEF Linked, Home
<1>3. /\ \A j, k \in 1..Len(own) :
            own[j].pollFdsIndex = own[k].pollFdsIndex => j = k
      /\ \A j, k \in 1..Len(others) :
            others[j].pollFdsIndex = others[k].pollFdsIndex => j = k
      /\ \A j \in 1..Len(own), k \in 1..Len(others) :
            own[j].pollFdsIndex # others[k].pollFdsIndex
      /\ \A j, k \in 1..Len(table) : table[j].fd = table[k].fd => j = k
  BY DEF Linked, Apart, Disjoint, PolledOnce
<1>4. p \in 2..Len(table)
  BY <1>2
<1>5. /\ t \in Seq(Entry)
      /\ Len(t) = Len(table) - 1
      /\ \A j \in 1..(Len(table) - 1) : t[j] = IF j < p THEN table[j] ELSE table[j + 1]
  <2>1. p \in 1..Len(table)
    BY <1>1, <1>4
  <2>2. QED
    BY <2>1, RemoveAtProperties
<1>6. /\ u \in Seq(Conns(U))
      /\ Len(u) = Len(own)
      /\ \A j \in 1..Len(own) :
            SameConnection(u[j], own[j]) /\ u[j].pollFdsIndex = Moved(own[j].pollFdsIndex, p)
  <2>1. p \in Nat \ {0}
    BY <1>1, <1>4
  <2>2. QED
    BY <2>1, UpdateMoves DEF Conns
<1>7. /\ r \in Seq(Conns(V))
      /\ Len(r) = Len(others)
      /\ \A j \in 1..Len(others) :
            SameConnection(r[j], others[j]) /\ r[j].pollFdsIndex = Moved(others[j].pollFdsIndex, p)
  <2>1. p \in Nat \ {0}
    BY <1>1, <1>4
  <2>2. QED
    BY <2>1, UpdateMoves DEF Conns
<1>8. /\ o \in Seq(Conns(U))
      /\ Len(o) = Len(own) - 1
      /\ \A j \in 1..(Len(own) - 1) : o[j] = u[Kept(j)]
  <2>1. i \in 1..Len(u)
    BY <1>6
  <2> HIDE DEF u
  <2>2. /\ RemoveAt(u, i) \in Seq(Conns(U))
        /\ Len(RemoveAt(u, i)) = Len(u) - 1
        /\ \A j \in 1..(Len(u) - 1) :
                RemoveAt(u, i)[j] = IF j < i THEN u[j] ELSE u[j + 1]
    BY <1>6, <2>1, RemoveAtProperties
  <2>3. QED
    BY <1>6, <2>2
<1>9. \A j \in 1..Len(o) :
        /\ Kept(j) \in 1..Len(own) /\ Kept(j) # i
        /\ SameConnection(o[j], own[Kept(j)])
        /\ o[j].pollFdsIndex = Moved(own[Kept(j)].pollFdsIndex, p)
  BY <1>1, <1>6, <1>8
<1>10. \A k \in 1..Len(own) : k # i => \E j \in 1..Len(o) : Kept(j) = k
  <2> SUFFICES ASSUME NEW k \in 1..Len(own), k # i
               PROVE  \E j \in 1..Len(o) : Kept(j) = k
    OBVIOUS
  <2>1. CASE k < i
    BY SMTT(20), <1>1, <1>8, <2>1
  <2>2. CASE k > i
    <3>1. k - 1 \in 1..Len(o) /\ Kept(k - 1) = k
      BY <1>1, <1>8, <2>2
    <3>2. QED
      BY <3>1
  <2>3. QED
    BY <1>1, <2>1, <2>2
<1> HIDE DEF p, t, u, o, r, Kept
(* A position other than p keeps its entry when it moves. *)
<1>11. ASSUME NEW k \in 2..Len(table), k # p
       PROVE  /\ Moved(k, p) \in 2..Len(t)
              /\ t[Moved(k, p)] = table[k]
  BY <1>1, <1>4, <1>5, <1>11 DEF Moved
<1>12. ASSUME NEW k \in 2..Len(table), NEW l \in 2..Len(table),
              k # p, l # p, Moved(k, p) = Moved(l, p)
       PROVE  k = l
  BY <1>1, <1>4, <1>12 DEF Moved
<1>13. /\ \A j \in 1..Len(others) : others[j].pollFdsIndex # p
       /\ \A j \in 1..Len(own) : j # i => own[j].pollFdsIndex # p
  BY <1>3 DEF p
<1>14. \A j \in 1..Len(o) :
            /\ Follows(t, o[j], table, own[Kept(j)])
            /\ o[j].pollFdsIndex \in 2..Len(t)
            /\ t[o[j].pollFdsIndex].fd = o[j].socketFd
  BY <1>2, <1>9, <1>11, <1>13 DEF Follows, SameConnection
<1>15. \A j \in 1..Len(r) :
            /\ Follows(t, r[j], table, others[j])
            /\ r[j].pollFdsIndex \in 2..Len(t)
            /\ t[r[j].pollFdsIndex].fd = r[j].socketFd
  BY <1>2, <1>7, <1>11, <1>13 DEF Follows, SameConnection
<1>16. Apart(o)
  <2> SUFFICES ASSUME NEW j \in 1..Len(o), NEW k \in 1..Len(o),
                      o[j].pollFdsIndex = o[k].pollFdsIndex
               PROVE  j = k
    BY DEF Apart
  <2>1. own[Kept(j)].pollFdsIndex = own[Kept(k)].pollFdsIndex
    BY <1>2, <1>9, <1>12, <1>13
  <2>2. Kept(j) = Kept(k)
    BY <1>3, <1>9, <2>1
  <2>3. QED
    BY <1>1, <1>8, <2>2 DEF Kept
<1>17. Apart(r)
  BY SMTT(20), <1>2, <1>3, <1>7, <1>12, <1>13 DEF Apart
<1>18. Disjoint(o, r)
  <2> SUFFICES ASSUME NEW j \in 1..Len(o), NEW k \in 1..Len(r),
                      o[j].pollFdsIndex = r[k].pollFdsIndex
               PROVE  FALSE
    BY DEF Disjoint
  <2>1. k \in 1..Len(others) /\ Kept(j) \in 1..Len(own)
    BY <1>7, <1>9
  <2>2. own[Kept(j)].pollFdsIndex = others[k].pollFdsIndex
    BY <1>2, <1>7, <1>9, <1>12, <1>13, <2>1
  <2>3. QED
    BY <1>3, <2>1, <2>2
<1>19. \A q \in 1..Len(t) :
        LET k == IF q < p THEN q ELSE q + 1
        IN  k \in 1..Len(table) /\ k # p /\ t[q] = table[k]
  BY <1>1, <1>4, <1>5
<1>20. \A k \in 1..Len(table) : k # p => \E q \in 1..Len(t) : t[q] = table[k]
  <2> SUFFICES ASSUME NEW k \in 1..Len(table), k # p
               PROVE  \E q \in 1..Len(t) : t[q] = table[k]
    OBVIOUS
  <2>1. CASE k < p
    BY <1>1, <1>4, <1>5, <2>1
  <2>2. CASE k > p
    <3>1. k - 1 \in 1..Len(t) /\ t[k - 1] = table[k]
      BY <1>1, <1>4, <1>5, <2>2
    <3>2. QED
      BY <3>1
  <2>3. QED
    BY <1>1, <1>4, <2>1, <2>2
<1>21. PolledOnce(t)
  <2> SUFFICES ASSUME NEW j \in 1..Len(t), NEW k \in 1..Len(t), t[j].fd = t[k].fd
               PROVE  j = k
    BY DEF PolledOnce
  <2>1. (IF j < p THEN j ELSE j + 1) = (IF k < p THEN k ELSE k + 1)
    BY <1>3, <1>19
  <2>2. QED
    BY <1>1, <1>4, <1>5, <2>1
<1>22. Len(t) >= 1 /\ t[1].fd = listenFd
  <2>1. 1 \in 1..(Len(table) - 1) /\ 1 < p
    BY <1>1, <1>4
  <2>2. t[1] = table[1]
    BY <1>5, <2>1
  <2>3. QED
    BY <1>1, <1>4, <1>5, <2>2 DEF Linked
<1>23. Linked(t, o, r)
  BY <1>14, <1>15, <1>16, <1>17, <1>18, <1>21, <1>22 DEF Linked, Home
<1>24. \A j \in 1..Len(o) : \E k \in 1..Len(own) : k # i /\ Follows(t, o[j], table, own[k])
  BY <1>9, <1>14
<1>25. \A k \in 1..Len(own) : k # i => \E j \in 1..Len(o) : Follows(t, o[j], table, own[k])
  BY <1>10, <1>14
<1>26. Survive(t, o, table, own, i) /\ Stay(t, r, table, others) /\ Left(t, table, p)
  BY <1>7, <1>15, <1>19, <1>20, <1>24, <1>25 DEF Survive, Stay, Left
<1>27. QED
  BY <1>4, <1>5, <1>7, <1>8, <1>23, <1>26 DEF p, t, u, o, r, eraseConnection

\* Of two vectors that are linked to a table, either may be called the own one.
LEMMA LinkedSwaps ==
  ASSUME NEW table, NEW own, NEW others, Linked(table, own, others)
  PROVE  Linked(table, others, own)
BY DEF Linked, Disjoint

(***************************************************************************)
(* Through its position a connection has a descriptor that no other        *)
(* connection has.                                                         *)
(***************************************************************************)
LEMMA LinkedFdsDiffer ==
  ASSUME NEW table, NEW own, NEW others, Linked(table, own, others), Len(table) \in Nat
  PROVE  /\ \A i, j \in 1..Len(own) : own[i].socketFd = own[j].socketFd => i = j
         /\ \A i \in 1..Len(own), j \in 1..Len(others) : own[i].socketFd # others[j].socketFd
         /\ \A i \in 1..Len(own) : own[i].socketFd # listenFd
<1>1. \A k \in 2..Len(table) : k \in 1..Len(table) /\ k # 1
  OBVIOUS
<1>2. /\ \A i \in 1..Len(own) :
            /\ own[i].pollFdsIndex \in 1..Len(table) /\ own[i].pollFdsIndex # 1
            /\ table[own[i].pollFdsIndex].fd = own[i].socketFd
      /\ \A i \in 1..Len(others) :
            /\ others[i].pollFdsIndex \in 1..Len(table)
            /\ table[others[i].pollFdsIndex].fd = others[i].socketFd
  BY <1>1 DEF Linked, Home
<1>3. /\ \A p, q \in 1..Len(table) : table[p].fd = table[q].fd => p = q
      /\ 1 \in 1..Len(table) /\ table[1].fd = listenFd
  BY DEF Linked, PolledOnce
<1>4. \A i, j \in 1..Len(own) : own[i].socketFd = own[j].socketFd => i = j
  BY <1>2, <1>3 DEF Linked, Apart
<1>5. \A i \in 1..Len(own), j \in 1..Len(others) : own[i].socketFd # others[j].socketFd
  <2> SUFFICES ASSUME NEW i \in 1..Len(own), NEW j \in 1..Len(others),
                      own[i].socketFd = others[j].socketFd
               PROVE  FALSE
    OBVIOUS
  <2>1. own[i].pollFdsIndex = others[j].pollFdsIndex
    <3>1. /\ own[i].pollFdsIndex \in 1..Len(table) /\ others[j].pollFdsIndex \in 1..Len(table)
          /\ table[own[i].pollFdsIndex].fd = own[i].socketFd
          /\ table[others[j].pollFdsIndex].fd = others[j].socketFd
      BY <1>2
    <3>2. QED
      BY <1>3, <3>1
  <2>2. QED
    BY <2>1 DEF Linked, Disjoint
<1>6. \A i \in 1..Len(own) : own[i].socketFd # listenFd
  BY <1>2, <1>3
<1>7. QED
  BY <1>4, <1>5, <1>6

(***************************************************************************)
(* Events and URLs are no part of being linked: a table with the same      *)
(* descriptors and vectors with the same positions are linked alike.       *)
(***************************************************************************)
SameFds(t, table) == Len(t) = Len(table) /\ \A p \in 1..Len(table) : t[p].fd = table[p].fd

SamePlaces(o, own) ==
    /\ Len(o) = Len(own)
    /\ \A i \in 1..Len(own) :
        /\ o[i].socketFd = own[i].socketFd /\ o[i].buffer = own[i].buffer
        /\ o[i].pollFdsIndex = own[i].pollFdsIndex

\* Whatever keeps the descriptors and the places keeps the vectors linked.
LEMMA LinkedStays ==
  ASSUME NEW table, NEW own, NEW others, Linked(table, own, others), Len(table) \in Nat,
         NEW t, NEW o, NEW r, SameFds(t, table), SamePlaces(o, own), SamePlaces(r, others)
  PROVE  Linked(t, o, r)
<1>1. \A k \in 2..Len(table) : k \in 1..Len(table)
  OBVIOUS
<1>2. Len(t) >= 1 /\ t[1].fd = listenFd
  BY DEF Linked, SameFds
<1>3. PolledOnce(t)
  BY DEF Linked, SameFds, PolledOnce
<1>4. ASSUME NEW conns, Home(table, conns), NEW news, SamePlaces(news, conns)
      PROVE  Home(t, news)
  <2> SUFFICES ASSUME NEW i \in 1..Len(news)
               PROVE  /\ news[i].pollFdsIndex \in 2..Len(t)
                      /\ t[news[i].pollFdsIndex].fd = news[i].socketFd
    BY DEF Home
  <2>1. /\ i \in 1..Len(conns)
        /\ news[i].socketFd = conns[i].socketFd /\ news[i].pollFdsIndex = conns[i].pollFdsIndex
    BY <1>4 DEF SamePlaces
  <2>2. /\ conns[i].pollFdsIndex \in 2..Len(table)
        /\ table[conns[i].pollFdsIndex].fd = conns[i].socketFd
    BY <1>4, <2>1 DEF Home
  <2>3. QED
    BY <1>1, <2>1, <2>2 DEF SameFds
<1>5. Apart(o) /\ Apart(r) /\ Disjoint(o, r)
  BY DEF Linked, SamePlaces, Apart, Disjoint
<1>6. Home(t, o) /\ Home(t, r)
  BY <1>4 DEF Linked
<1>7. QED
  BY <1>2, <1>3, <1>5, <1>6 DEF Linked

(***************************************************************************)
(* A push_back of an entry and one of its connection, with a descriptor    *)
(* that is not polled yet: lines 216-217 and addNewConnection.             *)
(***************************************************************************)
LEMMA AdditionKeepsLinked ==
  ASSUME NEW table \in Seq(Entry), NEW U, NEW V,
         NEW own \in Seq(Conns(U)), NEW others \in Seq(Conns(V)),
         Linked(table, own, others),
         NEW e \in Entry, NEW c \in Conns(U),
         \A p \in 1..Len(table) : table[p].fd # e.fd,
         c.socketFd = e.fd, c.pollFdsIndex = Len(table) + 1
  PROVE  LET t == Append(table, e)
             o == Append(own, c)
         IN  /\ t \in Seq(Entry) /\ o \in Seq(Conns(U))
             /\ Len(t) = Len(table) + 1 /\ Len(o) = Len(own) + 1
             /\ \A p \in 1..Len(table) : t[p] = table[p]
             /\ t[Len(table) + 1] = e
             /\ \A i \in 1..Len(own) : o[i] = own[i]
             /\ o[Len(own) + 1] = c
             /\ Linked(t, o, others)
<1> DEFINE t == Append(table, e)
           o == Append(own, c)
<1>1. /\ Len(table) \in Nat /\ Len(own) \in Nat /\ Len(others) \in Nat
  BY LenProperties
<1>2. /\ t \in Seq(Entry) /\ Len(t) = Len(table) + 1
      /\ \A p \in 1..Len(table) : t[p] = table[p]
      /\ t[Len(table) + 1] = e
  BY <1>1, AppendProperties
<1>3. /\ o \in Seq(Conns(U)) /\ Len(o) = Len(own) + 1
      /\ \A i \in 1..Len(own) : o[i] = own[i]
      /\ o[Len(own) + 1] = c
  BY <1>1, AppendProperties
<1> HIDE DEF t, o
<1>4. /\ \A p \in 1..Len(t) : p \in 1..Len(table) \/ p = Len(table) + 1
      /\ \A i \in 1..Len(o) : i \in 1..Len(own) \/ i = Len(own) + 1
      /\ \A p \in 2..Len(table) : p \in 1..Len(table) /\ p \in 2..Len(t) /\ p # Len(table) + 1
      /\ Len(table) >= 1 /\ Len(t) >= 1
      /\ 1 \in 1..Len(table) /\ Len(table) + 1 \in 2..Len(t)
  BY <1>1, <1>2, <1>3 DEF Linked
<1>5. Len(t) >= 1 /\ t[1].fd = listenFd
  BY <1>2, <1>4 DEF Linked
<1>6. PolledOnce(t)
  <2> SUFFICES ASSUME NEW p \in 1..Len(t), NEW q \in 1..Len(t), t[p].fd = t[q].fd
               PROVE  p = q
    BY DEF PolledOnce
  <2>1. CASE p \in 1..Len(table) /\ q \in 1..Len(table)
    BY <1>2, <2>1 DEF Linked, PolledOnce
  <2>2. CASE p = Len(table) + 1 \/ q = Len(table) + 1
    BY <1>2, <1>4, <2>2
  <2>3. QED
    BY <1>4, <2>1, <2>2
<1>7. Home(t, o)
  <2> SUFFICES ASSUME NEW i \in 1..Len(o)
               PROVE  /\ o[i].pollFdsIndex \in 2..Len(t)
                      /\ t[o[i].pollFdsIndex].fd = o[i].socketFd
    BY DEF Home
  <2>1. CASE i \in 1..Len(own)
    BY SMTT(20), <1>2, <1>3, <1>4, <2>1 DEF Linked, Home
  <2>2. CASE i = Len(own) + 1
    BY <1>2, <1>3, <1>4, <2>2
  <2>3. QED
    BY <1>4, <2>1, <2>2
<1>8. Home(t, others)
  BY <1>2, <1>4 DEF Linked, Home
<1>9. Apart(o)
  <2> SUFFICES ASSUME NEW i \in 1..Len(o), NEW j \in 1..Len(o),
                      o[i].pollFdsIndex = o[j].pollFdsIndex
               PROVE  i = j
    BY DEF Apart
  <2>1. \A k \in 1..Len(own) : o[k].pollFdsIndex # Len(table) + 1
    BY <1>3, <1>4 DEF Linked, Home
  <2>2. CASE i \in 1..Len(own) /\ j \in 1..Len(own)
    BY <1>3, <2>2 DEF Linked, Apart
  <2>3. CASE i = Len(own) + 1 \/ j = Len(own) + 1
    BY <1>3, <1>4, <2>1, <2>3
  <2>4. QED
    BY <1>4, <2>2, <2>3
<1>10. Disjoint(o, others)
  <2> SUFFICES ASSUME NEW i \in 1..Len(o), NEW j \in 1..Len(others)
               PROVE  o[i].pollFdsIndex # others[j].pollFdsIndex
    BY DEF Disjoint
  <2>1. others[j].pollFdsIndex # Len(table) + 1
    BY <1>4 DEF Linked, Home
  <2>2. CASE i \in 1..Len(own)
    BY <1>3, <2>2 DEF Linked, Disjoint
  <2>3. CASE i = Len(own) + 1
    BY <1>3, <2>1, <2>3
  <2>4. QED
    BY <1>4, <2>2, <2>3
<1>11. Apart(others)
  BY DEF Linked
<1>12. QED
  BY <1>2, <1>3, <1>5, <1>6, <1>7, <1>8, <1>9, <1>10, <1>11 DEF Linked, t, o

(***************************************************************************)
(* After a removal: what is watched for the remaining clients, whose       *)
(* errors are heard, and whose descriptors and buffers are left.           *)
(***************************************************************************)
LEMMA RemovalKeepsWatched ==
  ASSUME NEW table, NEW own, NEW t, NEW o,
         \A j \in 1..Len(o) : \E k \in 1..Len(own) : Follows(t, o[j], table, own[k]),
         NEW whole, Watched(table, own, whole)
  PROVE  Watched(t, o, whole)
BY DEF Watched, Follows, SameConnection

\* A connection that survives a removal with its entry is still heard.
LEMMA RemovalKeepsHeard ==
  ASSUME NEW table, NEW own, NEW t, NEW o, NEW fds, Heard(table, own, fds),
         NEW rest, rest \subseteq fds,
         \A k \in 1..Len(own) :
            own[k].socketFd \in rest => \E j \in 1..Len(o) : Follows(t, o[j], table, own[k])
  PROVE  Heard(t, o, rest)
<1> SUFFICES ASSUME NEW fd \in rest
             PROVE  \E j \in 1..Len(o) :
                        o[j].socketFd = fd /\ t[o[j].pollFdsIndex].events = "OUT"
  BY DEF Heard
<1>1. PICK k \in 1..Len(own) : own[k].socketFd = fd /\ table[own[k].pollFdsIndex].events = "OUT"
  BY DEF Heard
<1>2. PICK j \in 1..Len(o) : Follows(t, o[j], table, own[k])
  BY <1>1
<1>3. QED
  BY <1>1, <1>2 DEF Follows, SameConnection

\* A removal takes one descriptor and one buffer, its own.
LEMMA RemovalLeavesOthers ==
  ASSUME NEW table, NEW own, NEW others, Linked(table, own, others), Len(table) \in Nat,
         NEW t, NEW o, NEW r, Linked(t, o, r), Len(t) \in Nat,
         NEW i \in 1..Len(own), Survive(t, o, table, own, i),
         NEW queue, NEW asked, Known(own, queue, asked)
  PROVE  /\ FdsOf(o) = FdsOf(own) \ {own[i].socketFd}
         /\ BuffersOf(o) = BuffersOf(own) \ {own[i].buffer}
         /\ Known(o, queue, asked)
<1>1. \A j, k \in 1..Len(own) : own[j].socketFd = own[k].socketFd => j = k
  BY LinkedFdsDiffer
<1>2. \A j, k \in 1..Len(o) : o[j].socketFd = o[k].socketFd => j = k
  BY LinkedFdsDiffer
<1>3. \A j \in 1..Len(o) : \E k \in 1..Len(own) :
        k # i /\ o[j].socketFd = own[k].socketFd /\ o[j].buffer = own[k].buffer
  BY DEF Survive, Follows, SameConnection
<1>4. \A k \in 1..Len(own) : k # i => \E j \in 1..Len(o) :
        o[j].socketFd = own[k].socketFd /\ o[j].buffer = own[k].buffer
  BY DEF Survive, Follows, SameConnection
<1>5. FdsOf(o) = FdsOf(own) \ {own[i].socketFd}
  <2>1. ASSUME NEW fd \in FdsOf(o)
        PROVE  fd \in FdsOf(own) /\ fd # own[i].socketFd
    <3>1. PICK j \in 1..Len(o) : fd = o[j].socketFd
      BY DEF FdsOf
    <3>2. PICK k \in 1..Len(own) : k # i /\ o[j].socketFd = own[k].socketFd
      BY <1>3
    <3>3. QED
      BY <1>1, <3>1, <3>2 DEF FdsOf
  <2>2. ASSUME NEW fd \in FdsOf(own), fd # own[i].socketFd
        PROVE  fd \in FdsOf(o)
    <3>1. PICK k \in 1..Len(own) : fd = own[k].socketFd
      BY DEF FdsOf
    <3>2. PICK j \in 1..Len(o) : o[j].socketFd = own[k].socketFd
      BY <1>4, <2>2, <3>1
    <3>3. QED
      BY <3>1, <3>2 DEF FdsOf
  <2>3. QED
    BY <2>1, <2>2
<1>6. \A j, k \in 1..Len(own) : own[j].buffer = own[k].buffer => j = k
  BY DEF Known
<1>7. BuffersOf(o) = BuffersOf(own) \ {own[i].buffer}
  <2>1. ASSUME NEW b \in BuffersOf(o)
        PROVE  b \in BuffersOf(own) /\ b # own[i].buffer
    <3>1. PICK j \in 1..Len(o) : b = o[j].buffer
      BY DEF BuffersOf
    <3>2. PICK k \in 1..Len(own) : k # i /\ o[j].buffer = own[k].buffer
      BY <1>3
    <3>3. QED
      BY <1>6, <3>1, <3>2 DEF BuffersOf
  <2>2. ASSUME NEW b \in BuffersOf(own), b # own[i].buffer
        PROVE  b \in BuffersOf(o)
    <3>1. PICK k \in 1..Len(own) : b = own[k].buffer
      BY DEF BuffersOf
    <3>2. PICK j \in 1..Len(o) : o[j].buffer = own[k].buffer
      BY <1>4, <2>2, <3>1
    <3>3. QED
      BY <3>1, <3>2 DEF BuffersOf
  <2>3. QED
    BY <2>1, <2>2
<1>8. ASSUME NEW j \in 1..Len(o), NEW l \in 1..Len(o), o[j].buffer = o[l].buffer
      PROVE  j = l
  <2>1. PICK k \in 1..Len(own) : o[j].socketFd = own[k].socketFd /\ o[j].buffer = own[k].buffer
    BY <1>3
  <2>2. PICK m \in 1..Len(own) : o[l].socketFd = own[m].socketFd /\ o[l].buffer = own[m].buffer
    BY <1>3
  <2>3. k = m
    BY <1>6, <1>8, <2>1, <2>2
  <2>4. QED
    BY <1>2, <2>1, <2>2, <2>3
<1>9. ASSUME NEW j \in 1..Len(o)
      PROVE  /\ \A k \in 1..Len(queue) : o[j].buffer # queue[k]
             /\ asked[o[j].buffer] # NoUrl
  <2>1. PICK k \in 1..Len(own) : o[j].buffer = own[k].buffer
    BY <1>3
  <2>2. QED
    BY <2>1 DEF Known
<1>10. /\ \A k, l \in 1..Len(queue) : queue[k] = queue[l] => k = l
       /\ \A k \in 1..Len(queue) : asked[queue[k]] # NoUrl
  BY DEF Known
<1>11. Known(o, queue, asked)
  BY <1>8, <1>9, <1>10 DEF Known
<1>12. QED
  BY <1>5, <1>7, <1>11

\* An entry that gets other events stays where it is.
LEMMA EditedTable ==
  ASSUME NEW table \in Seq(Entry), NEW p \in 1..Len(table), NEW e \in Entry, e.fd = table[p].fd
  PROVE  LET t == [table EXCEPT ![p] = e]
         IN  /\ t \in Seq(Entry) /\ Len(t) = Len(table) /\ SameFds(t, table)
             /\ t[p] = e
             /\ \A q \in 1..Len(table) : q # p => t[q] = table[q]
<1> DEFINE t == [table EXCEPT ![p] = e]
<1>1. Len(table) \in Nat /\ DOMAIN table = 1..Len(table)
  BY LenProperties
<1>2. t \in Seq(Entry) /\ Len(t) = Len(table)
  OBVIOUS
<1>3. t[p] = e /\ \A q \in 1..Len(table) : q # p => t[q] = table[q]
  BY <1>1
<1> HIDE DEF t
<1>4. SameFds(t, table)
  BY <1>2, <1>3 DEF SameFds
<1>5. QED
  BY <1>2, <1>3, <1>4 DEF t

-----------------------------------------------------------------------------
Socket ==
    [peer : Clients \cup {Origin}, up : BOOLEAN, rx : Int, next : Int, fin : BOOLEAN,
     rst : BOOLEAN, txq : Int, req : Urls \cup {Malformed, NoUrl}, fetch : Nat]

Units == [fetch : Nat, req : Urls \cup {Malformed, NoUrl}, k : Int]

Outcomes == {"none", "dropped", "error", "complete"}

(***************************************************************************)
(* The inductive invariant, in parts that are about values, so that a      *)
(* lemma can state each of them of the vectors in the middle of a step.    *)
(***************************************************************************)
CacheTyped ==
    /\ DOMAIN cacheMap \subseteq Urls /\ DOMAIN cacheReady \subseteq Urls
    /\ \A url \in DOMAIN cacheMap : cacheMap[url] \in Seq(Units)

Types ==
    /\ pc \in Clock /\ it \in Nat \ {0} /\ isInterrupted \in BOOLEAN
    /\ DOMAIN sock \subseteq Descriptors /\ \A fd \in DOMAIN sock : sock[fd] \in Socket
    /\ backlog \in Seq(Clients)
    /\ request \in [Clients -> Urls \cup {Malformed, NoUrl}]
    /\ outcome \in [Clients -> Outcomes]
    /\ pollFds \in Seq(Entry)
    /\ clientConnections \in Seq(ClientConns)
    /\ serverConnections \in Seq(ServerConns)
    /\ CacheTyped
    /\ \A fd \in DOMAIN cacheOffsets : cacheOffsets[fd] \in Int
    /\ DOMAIN errors \subseteq Descriptors /\ DOMAIN heap \subseteq Clients
    /\ fetched \in Seq(Urls)

\* The pages that are there.
Whole == {url \in Urls : cacheNodeReady(url) /\ nodeData(url) # <<>>}

\* A socket that somebody owns; the others are those of abandoned fetches.
Owned(socks, fd) == fd \in DOMAIN socks /\ (socks[fd].peer # Origin \/ socks[fd].fetch > 0)

Open(table, conns, socks) ==
    /\ \A fd \in Descriptors : Owned(socks, fd) <=> \E p \in 1..Len(table) : table[p].fd = fd
    /\ \A i \in 1..Len(conns) : socks[conns[i].socketFd].peer = conns[i].buffer

IInv ==
    /\ Types
    /\ Linked(pollFds, clientConnections, serverConnections)
    /\ Known(clientConnections, backlog, request)
    /\ Watched(pollFds, clientConnections, Whole)
    /\ Heard(pollFds, clientConnections, DOMAIN errors)
    /\ DOMAIN cacheOffsets = FdsOf(clientConnections)
    /\ pc = "accept" => backlog # <<>>
    /\ Running => /\ Open(pollFds, clientConnections, sock)
                  /\ DOMAIN heap = BuffersOf(clientConnections)

-----------------------------------------------------------------------------
(***************************************************************************)
(* Where the loop stands: what the invariant says of the vectors, and of   *)
(* the connection whose turn it is.                                        *)
(***************************************************************************)
LEMMA TableFacts ==
  ASSUME IInv
  PROVE  /\ Len(pollFds) \in Nat /\ DOMAIN pollFds = 1..Len(pollFds)
         /\ Len(clientConnections) \in Nat
         /\ DOMAIN clientConnections = 1..Len(clientConnections)
         /\ Len(serverConnections) \in Nat
         /\ DOMAIN serverConnections = 1..Len(serverConnections)
         /\ \A p \in 1..Len(pollFds) : pollFds[p] \in Entry
         /\ \A i \in 1..Len(clientConnections) :
                /\ clientConnections[i] \in ClientConns
                /\ clientConnections[i].pollFdsIndex \in 1..Len(pollFds)
                /\ clientConnections[i].pollFdsIndex # 1
                /\ pollFds[clientConnections[i].pollFdsIndex].fd = clientConnections[i].socketFd
         /\ \A j \in 1..Len(serverConnections) :
                /\ serverConnections[j] \in ServerConns
                /\ serverConnections[j].pollFdsIndex \in 1..Len(pollFds)
                /\ serverConnections[j].pollFdsIndex # 1
                /\ pollFds[serverConnections[j].pollFdsIndex].fd = serverConnections[j].socketFd
<1>1. /\ pollFds \in Seq(Entry)
      /\ clientConnections \in Seq(ClientConns)
      /\ serverConnections \in Seq(ServerConns)
  BY DEF IInv, Types
<1>2. /\ Len(pollFds) \in Nat /\ DOMAIN pollFds = 1..Len(pollFds)
      /\ Len(clientConnections) \in Nat
      /\ DOMAIN clientConnections = 1..Len(clientConnections)
      /\ Len(serverConnections) \in Nat
      /\ DOMAIN serverConnections = 1..Len(serverConnections)
  BY <1>1, LenProperties
<1>3. /\ \A p \in 1..Len(pollFds) : pollFds[p] \in Entry
      /\ \A i \in 1..Len(clientConnections) : clientConnections[i] \in ClientConns
      /\ \A j \in 1..Len(serverConnections) : serverConnections[j] \in ServerConns
  BY <1>1, ElementOfSeq
<1>4. \A p \in 2..Len(pollFds) : p \in 1..Len(pollFds) /\ p # 1
  BY <1>2
<1>5. Home(pollFds, clientConnections) /\ Home(pollFds, serverConnections)
  BY DEF IInv, Linked
<1>6. QED
  BY <1>2, <1>3, <1>4, <1>5 DEF Home

\* The client whose turn it is, with its entry, its socket and its request.
LEMMA ClientAtTurn ==
  ASSUME IInv, ClientTurn
  PROVE  /\ Running
         /\ it \in 1..Len(clientConnections)
         /\ client \in ClientConns
         /\ client.pollFdsIndex \in 1..Len(pollFds)
         /\ pollFds[client.pollFdsIndex].fd = client.socketFd
         /\ client.socketFd \in DOMAIN sock /\ sock[client.socketFd] \in Socket
         /\ sock[client.socketFd].peer = client.buffer
         /\ client.buffer \in Clients
         /\ request[client.buffer] \in Urls \cup {Malformed}
         /\ client.URl = NoUrl => "OUT" \notin reventsOf(client)
<1>1. Running /\ it \in 1..Len(clientConnections)
  BY TableFacts DEF ClientTurn, Running, IInv, Types
<1>2. /\ client \in ClientConns
      /\ client.pollFdsIndex \in 1..Len(pollFds)
      /\ pollFds[client.pollFdsIndex].fd = client.socketFd
  BY <1>1, TableFacts DEF client
<1>3. client.socketFd \in Descriptors /\ client.buffer \in Clients
  BY <1>2 DEF ClientConns, Conns, ConnectionsOf
<1>4. client.socketFd \in DOMAIN sock
  BY <1>1, <1>2, <1>3 DEF IInv, Open, Owned
<1>5. sock[client.socketFd].peer = client.buffer
  BY <1>1 DEF IInv, Open, client
<1>6. request[client.buffer] # NoUrl
  BY <1>1 DEF IInv, Known, client
<1>7. client.URl = NoUrl => "OUT" \notin reventsOf(client)
  BY <1>1 DEF IInv, Watched, client, reventsOf
<1>8. QED
  BY <1>1, <1>2, <1>3, <1>4, <1>5, <1>6, <1>7 DEF IInv, Types

\* The fetch whose turn it is, with its entry and its socket.
LEMMA ServerAtTurn ==
  ASSUME IInv, ServerTurn
  PROVE  /\ Running
         /\ it \in 1..Len(serverConnections)
         /\ server \in ServerConns
         /\ server.pollFdsIndex \in 1..Len(pollFds)
         /\ pollFds[server.pollFdsIndex].fd = server.socketFd
         /\ server.socketFd \in DOMAIN sock /\ sock[server.socketFd] \in Socket
         /\ server.URl \in Urls /\ server.URl # NoUrl
         /\ \A i \in 1..Len(clientConnections) :
                clientConnections[i].pollFdsIndex # server.pollFdsIndex
<1>1. Running /\ it \in 1..Len(serverConnections)
  BY TableFacts DEF ServerTurn, Running, IInv, Types
<1>2. /\ server \in ServerConns
      /\ server.pollFdsIndex \in 1..Len(pollFds)
      /\ pollFds[server.pollFdsIndex].fd = server.socketFd
  BY <1>1, TableFacts DEF server
<1>3. server.socketFd \in Descriptors /\ server.URl \in Urls
  BY <1>2 DEF ServerConns, Conns, ConnectionsOf
<1>4. server.socketFd \in DOMAIN sock
  BY <1>1, <1>2, <1>3 DEF IInv, Open, Owned
<1>5. \A i \in 1..Len(clientConnections) :
        clientConnections[i].pollFdsIndex # server.pollFdsIndex
  BY <1>1 DEF IInv, Linked, Disjoint, server
<1>6. QED
  BY <1>1, <1>2, <1>3, <1>4, <1>5, NetworkAssumption DEF IInv, Types

(***************************************************************************)
(* Sockets that differ only in what their peers have sent and read.        *)
(***************************************************************************)
Alike(t, s) ==
    /\ DOMAIN t = DOMAIN s
    /\ \A fd \in DOMAIN s :
        t[fd] \in Socket /\ t[fd].peer = s[fd].peer /\ t[fd].fetch = s[fd].fetch

\* What clients and origins do opens and closes no descriptor of the proxy.
LEMMA PeersKeepSockets ==
  ASSUME IInv, ClientStep \/ OriginStep
  PROVE  Alike(sock', sock)
<1> USE DEF Alike, Socket
<1>1. \A fd \in DOMAIN sock : sock[fd] \in Socket
  BY DEF IInv, Types
<1>2. ASSUME NEW c \in Clients, ClientConnect(c)
      PROVE  Alike(sock', sock)
  BY <1>1, <1>2 DEF ClientConnect
<1>3. ASSUME NEW fd \in DOMAIN sock, ClientSend(fd)
      PROVE  Alike(sock', sock)
  <2>1. PICK n \in 1..(MostSent - sent[sock[fd].peer]) : sock' = [sock EXCEPT ![fd].rx = @ + n]
    BY <1>3 DEF ClientSend
  <2>2. QED
    BY <1>1, <2>1
<1>4. ASSUME NEW fd \in DOMAIN sock, ClientRead(fd)
      PROVE  Alike(sock', sock)
  BY <1>1, <1>4 DEF ClientRead
<1>5. ASSUME NEW fd \in DOMAIN sock, ClientLeaves(fd)
      PROVE  Alike(sock', sock)
  <2>1. CASE sock' = [sock EXCEPT ![fd].fin = TRUE]
    BY <1>1, <2>1
  <2>2. ASSUME NEW kept \in {0, sock[fd].rx}, sock' = [sock EXCEPT ![fd].rst = TRUE, ![fd].rx = kept]
        PROVE  Alike(sock', sock)
    <3>1. kept \in Int
      BY <1>1
    <3>2. QED
      BY <1>1, <2>2, <3>1
  <2>3. QED
    BY <1>5, <2>1, <2>2 DEF ClientLeaves
<1>6. ASSUME NEW fd \in DOMAIN sock, OriginAccept(fd)
      PROVE  Alike(sock', sock)
  BY <1>1, <1>6 DEF OriginAccept
<1>7. ASSUME NEW fd \in DOMAIN sock, OriginSend(fd)
      PROVE  Alike(sock', sock)
  BY <1>1, <1>7 DEF OriginSend
<1>8. ASSUME NEW fd \in DOMAIN sock, OriginClose(fd)
      PROVE  Alike(sock', sock)
  BY <1>1, <1>8 DEF OriginClose
<1>9. ASSUME NEW fd \in DOMAIN sock, OriginReset(fd)
      PROVE  Alike(sock', sock)
  <2>1. PICK kept \in {0, sock[fd].rx} : sock' = [sock EXCEPT ![fd].rst = TRUE, ![fd].rx = kept]
    BY <1>9 DEF OriginReset
  <2>2. kept \in Int
    BY <1>1
  <2>3. QED
    BY <1>1, <2>1, <2>2
<1> QED
  BY <1>2, <1>3, <1>4, <1>5, <1>6, <1>7, <1>8, <1>9 DEF ClientStep, OriginStep

\* Neither does recv().
LEMMA ReceivingKeepsSockets ==
  ASSUME IInv, NEW fd, NEW n \in Int
  PROVE  Alike(Received(fd, n), sock)
<1>1. \A f \in DOMAIN sock : sock[f] \in Socket
  BY DEF IInv, Types
<1>2. QED
  BY <1>1 DEF Alike, Socket, Received

(***************************************************************************)
(* A step that moves no connection: it may change events, URLs, and what   *)
(* is in the sockets.                                                      *)
(***************************************************************************)
LEMMA NothingMoves ==
  ASSUME IInv, Running, Types',
         SameFds(pollFds', pollFds),
         SamePlaces(clientConnections', clientConnections),
         SamePlaces(serverConnections', serverConnections),
         Alike(sock', sock),
         backlog' = backlog, request' = request,
         DOMAIN heap' = DOMAIN heap, DOMAIN cacheOffsets' = DOMAIN cacheOffsets,
         Watched(pollFds', clientConnections', Whole'),
         Heard(pollFds', clientConnections', DOMAIN errors'),
         pc' = "accept" => backlog # <<>>
  PROVE  IInv'
<1>1. Linked(pollFds', clientConnections', serverConnections')
  BY TableFacts, LinkedStays DEF IInv
<1>2. Known(clientConnections', backlog', request')
  BY DEF IInv, Known, SamePlaces
<1>3. /\ FdsOf(clientConnections') = FdsOf(clientConnections)
      /\ BuffersOf(clientConnections') = BuffersOf(clientConnections)
  BY DEF FdsOf, BuffersOf, SamePlaces
<1>4. Open(pollFds', clientConnections', sock')
  <2>1. /\ \A fd \in Descriptors : Owned(sock, fd) <=> \E p \in 1..Len(pollFds) : pollFds[p].fd = fd
        /\ \A i \in 1..Len(clientConnections) :
                sock[clientConnections[i].socketFd].peer = clientConnections[i].buffer
    BY DEF IInv, Open
  <2>2. \A fd : Owned(sock', fd) <=> Owned(sock, fd)
    BY DEF Owned, Alike
  <2>3. \A fd : (\E p \in 1..Len(pollFds') : pollFds'[p].fd = fd)
                    <=> \E p \in 1..Len(pollFds) : pollFds[p].fd = fd
    BY DEF SameFds
  <2>4. ASSUME NEW i \in 1..Len(clientConnections')
        PROVE  sock'[clientConnections'[i].socketFd].peer = clientConnections'[i].buffer
    <3>1. /\ i \in 1..Len(clientConnections)
          /\ clientConnections'[i].socketFd = clientConnections[i].socketFd
          /\ clientConnections'[i].buffer = clientConnections[i].buffer
      BY DEF SamePlaces
    <3>2. /\ clientConnections[i].socketFd \in Descriptors
          /\ \E p \in 1..Len(pollFds) : pollFds[p].fd = clientConnections[i].socketFd
      BY <3>1, TableFacts DEF ClientConns, Conns, ConnectionsOf
    <3>3. clientConnections[i].socketFd \in DOMAIN sock
      BY <2>1, <3>2 DEF Owned
    <3>4. QED
      BY <2>1, <3>1, <3>3 DEF Alike
  <2>5. QED
    BY <2>1, <2>2, <2>3, <2>4 DEF Open
<1>5. DOMAIN heap' = BuffersOf(clientConnections')
  BY <1>3 DEF IInv
<1>6. DOMAIN cacheOffsets' = FdsOf(clientConnections')
  BY <1>3 DEF IInv
<1>7. QED
  BY <1>1, <1>2, <1>4, <1>5, <1>6 DEF IInv

\* Sockets that are alike are of the same types.
LEMMA AlikeIsTyped ==
  ASSUME IInv, Alike(sock', sock)
  PROVE  DOMAIN sock' \subseteq Descriptors /\ \A fd \in DOMAIN sock' : sock'[fd] \in Socket
BY DEF IInv, Types, Alike

\* The pages that are whole are a function of the cache.
LEMMA WholeStays == cacheMap' = cacheMap /\ cacheReady' = cacheReady => Whole' = Whole
BY DEF Whole, cacheNodeReady, nodeData, contains

\* So is the type of the cache.
LEMMA CacheTypedStays == cacheMap' = cacheMap /\ cacheReady' = cacheReady /\ CacheTyped => CacheTyped'
BY DEF CacheTyped

-----------------------------------------------------------------------------
(***************************************************************************)
(* The steps, beginning with those that touch neither tables nor cache.    *)
(***************************************************************************)
LEMMA InitIInv == Init => IInv
<1> SUFFICES ASSUME Init PROVE IInv
  OBVIOUS
<1> DEFINE e == [fd |-> listenFd, events |-> "IN", revents |-> {}]
<1>1. /\ pollFds = <<e>> /\ clientConnections = <<>> /\ serverConnections = <<>>
      /\ backlog = <<>> /\ DOMAIN sock = {} /\ DOMAIN heap = {} /\ DOMAIN errors = {}
      /\ DOMAIN cacheOffsets = {} /\ DOMAIN cacheMap = {} /\ DOMAIN cacheReady = {}
      /\ pc = "poll" /\ it = 1 /\ isInterrupted = FALSE /\ fetched = <<>>
      /\ request = [c \in Clients |-> NoUrl] /\ outcome = [c \in Clients |-> "none"]
  BY DEF Init, NetInit, CacheInit
<1>2. e \in Entry /\ e.fd = listenFd
  BY DEF Entry, Events
<1> HIDE DEF e
<1>3. pollFds \in Seq(Entry) /\ Len(pollFds) = 1 /\ pollFds[1].fd = listenFd
  <2>1. <<e>> \in Seq(Entry)
    BY <1>2
  <2>2. Len(<<e>>) = 1 /\ <<e>>[1] = e
    OBVIOUS
  <2>3. QED
    BY <1>1, <2>1, <2>2 DEF e
<1>4. Types
  <2>1. /\ backlog \in Seq(Clients) /\ clientConnections \in Seq(ClientConns)
        /\ serverConnections \in Seq(ServerConns) /\ fetched \in Seq(Urls)
    BY <1>1
  <2>2. /\ request \in [Clients -> Urls \cup {Malformed, NoUrl}]
        /\ outcome \in [Clients -> Outcomes]
    BY <1>1 DEF Outcomes
  <2>3. pc \in Clock /\ it \in Nat \ {0}
    BY <1>1 DEF Clock
  <2>4. isInterrupted \in BOOLEAN
    BY <1>1
  <2>5. QED
    BY <1>1, <1>3, <2>1, <2>2, <2>3, <2>4 DEF Types, CacheTyped
<1>5. Linked(pollFds, clientConnections, serverConnections)
  BY <1>1, <1>3 DEF Linked, PolledOnce, Home, Apart, Disjoint
<1>6. Known(clientConnections, backlog, request)
  BY <1>1 DEF Known
<1>7. Watched(pollFds, clientConnections, Whole) /\ Heard(pollFds, clientConnections, DOMAIN errors)
  BY <1>1 DEF Watched, Heard
<1>8. FdsOf(clientConnections) = {} /\ BuffersOf(clientConnections) = {}
  BY <1>1 DEF FdsOf, BuffersOf
<1>9. Open(pollFds, clientConnections, sock)
  <2>1. \A fd \in Descriptors : ~Owned(sock, fd)
    BY <1>1 DEF Owned
  <2>2. listenFd \notin Descriptors
    BY NetworkAssumption DEF listenFd
  <2>3. \A fd \in Descriptors, p \in 1..Len(pollFds) : pollFds[p].fd # fd
    BY <1>3, <2>2
  <2>4. QED
    BY <1>1, <2>1, <2>3 DEF Open
<1>10. QED
  BY <1>1, <1>4, <1>5, <1>6, <1>7, <1>8, <1>9 DEF IInv

\* A step that leaves the vectors, the maps and the cache alone.
LEMMA NothingTouched ==
  ASSUME IInv, Running, Alike(sock', sock),
         UNCHANGED <<tableVars, cacheVars, errors, cacheOffsets, backlog, request, outcome, fetched>>,
         DOMAIN heap' = DOMAIN heap,
         pc' \in Clock, it' \in Nat \ {0}, isInterrupted' \in BOOLEAN,
         pc' = "accept" => backlog # <<>>
  PROVE  IInv'
<1>1. /\ pollFds' = pollFds /\ clientConnections' = clientConnections
      /\ serverConnections' = serverConnections /\ cacheMap' = cacheMap
      /\ cacheReady' = cacheReady /\ errors' = errors /\ cacheOffsets' = cacheOffsets
      /\ backlog' = backlog /\ request' = request /\ outcome' = outcome /\ fetched' = fetched
  BY DEF tableVars, cacheVars
<1>2. Types'
  BY <1>1, AlikeIsTyped, CacheTypedStays DEF IInv, Types
<1>3. /\ SameFds(pollFds', pollFds)
      /\ SamePlaces(clientConnections', clientConnections)
      /\ SamePlaces(serverConnections', serverConnections)
  BY <1>1 DEF SameFds, SamePlaces
<1>4. /\ Watched(pollFds', clientConnections', Whole')
      /\ Heard(pollFds', clientConnections', DOMAIN errors')
  BY <1>1, WholeStays DEF IInv
<1>5. QED
  BY <1>1, <1>2, <1>3, <1>4, NothingMoves

\* What happens outside keeps the invariant.
LEMMA OutsideStep == ASSUME IInv, Outside PROVE IInv'
<1>1. /\ Running /\ Alike(sock', sock)
      /\ pollFds' = pollFds /\ clientConnections' = clientConnections
      /\ serverConnections' = serverConnections /\ cacheMap' = cacheMap
      /\ cacheReady' = cacheReady /\ errors' = errors /\ cacheOffsets' = cacheOffsets
      /\ heap' = heap /\ pc' = pc /\ it' = it /\ isInterrupted' = isInterrupted
      /\ fetched' = fetched
  BY PeersKeepSockets DEF Outside, ProgramVars, cacheVars, loopVars, tableVars, fdVars, histVars
<1>2. CASE backlog' = backlog /\ request' = request /\ outcome' = outcome
  <2>1. pc' \in Clock /\ it' \in Nat \ {0} /\ isInterrupted' \in BOOLEAN
    BY <1>1 DEF IInv, Types
  <2>2. pc' = "accept" => backlog # <<>>
    BY <1>1 DEF IInv
  <2>3. QED
    BY <1>1, <1>2, <2>1, <2>2, NothingTouched DEF tableVars, cacheVars
<1>3. ASSUME NEW c \in Clients, ClientConnect(c)
      PROVE  IInv'
  <2>1. /\ request[c] = NoUrl /\ backlog' = Append(backlog, c)
        /\ sock' = sock /\ outcome' = outcome
    BY <1>3 DEF ClientConnect
  <2>2. PICK r \in Urls \cup {Malformed} : request' = [request EXCEPT ![c] = r]
    BY <1>3 DEF ClientConnect
  <2>3. r # NoUrl
    BY NetworkAssumption
  <2>4. /\ backlog \in Seq(Clients) /\ request \in [Clients -> Urls \cup {Malformed, NoUrl}]
        /\ \A k \in 1..Len(backlog) : backlog[k] \in Clients
        /\ \A i \in 1..Len(clientConnections) : clientConnections[i].buffer \in Clients
    BY TableFacts, ElementOfSeq DEF IInv, Types, ClientConns, Conns, ConnectionsOf
  <2>5. /\ backlog' \in Seq(Clients) /\ Len(backlog) \in Nat
        /\ Len(backlog') = Len(backlog) + 1
        /\ \A k \in 1..Len(backlog) : backlog'[k] = backlog[k]
        /\ backlog'[Len(backlog) + 1] = c
    BY <2>1, <2>4, AppendProperties, LenProperties
  <2>6. \A k \in 1..Len(backlog') : k \in 1..Len(backlog) \/ k = Len(backlog) + 1
    BY <2>5
  <2>7. /\ \A k \in 1..Len(backlog) : backlog[k] # c
        /\ \A i \in 1..Len(clientConnections) : clientConnections[i].buffer # c
    BY <2>1 DEF IInv, Known
  <2>8. /\ request' \in [Clients -> Urls \cup {Malformed, NoUrl}]
        /\ request'[c] = r /\ \A d \in Clients : d # c => request'[d] = request[d]
    BY <2>2, <2>4
  <2>9. Known(clientConnections', backlog', request')
    <3>1. \A i, j \in 1..Len(clientConnections) :
            clientConnections[i].buffer = clientConnections[j].buffer => i = j
      BY DEF IInv, Known
    <3>2. \A k, l \in 1..Len(backlog') : backlog'[k] = backlog'[l] => k = l
      BY <2>5, <2>6, <2>7 DEF IInv, Known
    <3>3. \A i \in 1..Len(clientConnections), k \in 1..Len(backlog') :
            clientConnections[i].buffer # backlog'[k]
      BY <2>5, <2>6, <2>7 DEF IInv, Known
    <3>4. \A i \in 1..Len(clientConnections) : request'[clientConnections[i].buffer] # NoUrl
      BY <2>4, <2>7, <2>8 DEF IInv, Known
    <3>5. \A k \in 1..Len(backlog') : request'[backlog'[k]] # NoUrl
      BY <2>3, <2>4, <2>5, <2>6, <2>7, <2>8 DEF IInv, Known
    <3>6. QED
      BY <1>1, <3>1, <3>2, <3>3, <3>4, <3>5 DEF Known
  <2>10. Types'
    BY <1>1, <2>1, <2>5, <2>8, CacheTypedStays DEF IInv, Types
  <2>11. Watched(pollFds', clientConnections', Whole')
    BY <1>1, WholeStays DEF IInv
  <2>12. backlog' # <<>>
    BY <2>5
  <2>13. Running' <=> Running
    BY <1>1 DEF Running
  <2>14. QED
    BY <1>1, <2>1, <2>9, <2>10, <2>11, <2>12, <2>13 DEF IInv
<1>4. QED
  <2>1. ASSUME NEW fd \in DOMAIN sock,
               \/ ClientSend(fd) \/ ClientRead(fd) \/ ClientLeaves(fd)
               \/ OriginAccept(fd) \/ OriginSend(fd) \/ OriginClose(fd) \/ OriginReset(fd)
        PROVE  backlog' = backlog /\ request' = request /\ outcome' = outcome
    BY <2>1 DEF ClientSend, ClientRead, ClientLeaves, OriginAccept, OriginSend, OriginClose, OriginReset
  <2>2. QED
    BY <1>2, <1>3, <2>1 DEF Outside, ClientStep, OriginStep

(***************************************************************************)
(* poll() and accept().                                                    *)
(***************************************************************************)
LEMMA PollStep == ASSUME IInv, Poll PROVE IInv'
<1> DEFINE ready(p) == IF p = ACCEPT_INDEX
                       THEN {e \in {"IN"} : backlog # <<>>}
                       ELSE ReadyEvents(pollFds[p].fd, pollFds[p].events)
<1>1. /\ pollFds' = [p \in DOMAIN pollFds |-> [pollFds[p] EXCEPT !.revents = ready(p)]]
      /\ pc = "poll" /\ it' = 1
      /\ pc' = IF "IN" \in ready(ACCEPT_INDEX) THEN "accept" ELSE "clients"
      /\ clientConnections' = clientConnections /\ serverConnections' = serverConnections
      /\ sock' = sock /\ backlog' = backlog /\ request' = request /\ outcome' = outcome
      /\ cacheMap' = cacheMap /\ cacheReady' = cacheReady /\ isInterrupted' = isInterrupted
      /\ cacheOffsets' = cacheOffsets /\ errors' = errors /\ heap' = heap /\ fetched' = fetched
  <2>1. /\ 1 \in 1..Len(pollFds) /\ DOMAIN pollFds = 1..Len(pollFds)
    BY TableFacts DEF IInv, Linked
  <2>2. QED
    BY <2>1 DEF Poll, ACCEPT_INDEX, netVars, cacheVars, fdVars, histVars
<1>2. \A p \in 1..Len(pollFds) :
        /\ ready(p) \in SUBSET {"IN", "OUT", "ERR"}
        /\ p # 1 /\ pollFds[p].events = "IN" => "OUT" \notin ready(p)
  <2>1. \A p \in 1..Len(pollFds) : pollFds[p].events \in {"IN", "OUT"}
    BY TableFacts DEF Entry, Events
  <2>2. QED
    BY <2>1 DEF ReadyEvents, ACCEPT_INDEX
<1>3. pc' \in {"accept", "clients"} /\ (pc' = "accept" => backlog # <<>>)
  BY <1>1 DEF ACCEPT_INDEX
<1> HIDE DEF ready
<1>4. \A p \in 1..Len(pollFds) :
        /\ [pollFds[p] EXCEPT !.revents = ready(p)] \in Entry
        /\ [pollFds[p] EXCEPT !.revents = ready(p)].fd = pollFds[p].fd
        /\ [pollFds[p] EXCEPT !.revents = ready(p)].events = pollFds[p].events
        /\ [pollFds[p] EXCEPT !.revents = ready(p)].revents = ready(p)
  BY <1>2, TableFacts DEF Entry
<1>5. /\ Len(pollFds) \in Nat
      /\ pollFds' = [p \in 1..Len(pollFds) |-> [pollFds[p] EXCEPT !.revents = ready(p)]]
  BY <1>1, TableFacts
<1>6. pollFds' \in Seq(Entry) /\ Len(pollFds') = Len(pollFds)
  BY <1>4, <1>5
<1>7. \A p \in 1..Len(pollFds) :
        /\ pollFds'[p].fd = pollFds[p].fd /\ pollFds'[p].events = pollFds[p].events
        /\ pollFds'[p].revents = ready(p)
  BY <1>4, <1>5
<1>8. Types'
  BY <1>1, <1>3, <1>6, CacheTypedStays DEF IInv, Types, Clock
<1>9. /\ SameFds(pollFds', pollFds)
      /\ SamePlaces(clientConnections', clientConnections)
      /\ SamePlaces(serverConnections', serverConnections)
      /\ Alike(sock', sock)
  BY <1>1, <1>6, <1>7 DEF SameFds, SamePlaces, Alike, IInv, Types
<1>10. Watched(pollFds', clientConnections', Whole')
  <2>1. Whole' = Whole
    BY <1>1, WholeStays
  <2>2. QED
    BY <1>1, <1>2, <1>7, <2>1, TableFacts DEF IInv, Watched
<1>11. Heard(pollFds', clientConnections', DOMAIN errors')
  BY <1>1, <1>7, TableFacts DEF IInv, Heard
<1>12. QED
  BY <1>1, <1>3, <1>8, <1>9, <1>10, <1>11, NothingMoves DEF Running

\* A descriptor that accept() or socket() returns is not open, so not polled.
LEMMA NewDescriptorIsNew ==
  ASSUME IInv, Running, FreeDescriptors # {}
  PROVE  /\ NewDescriptor \in Descriptors /\ NewDescriptor \notin DOMAIN sock
         /\ \A p \in 1..Len(pollFds) : pollFds[p].fd # NewDescriptor
<1>1. FreeDescriptors \subseteq Nat
  BY NetworkAssumption DEF FreeDescriptors
<1>2. NewDescriptor \in FreeDescriptors
  BY <1>1, MinIsElement DEF NewDescriptor
<1>3. NewDescriptor \in Descriptors /\ NewDescriptor \notin DOMAIN sock
  BY <1>2 DEF FreeDescriptors
<1>4. QED
  BY <1>3 DEF IInv, Open, Owned

\* accept() keeps the invariant, with a free descriptor and without.
LEMMA AcceptStep == ASSUME IInv, addNewConnection PROVE IInv'
<1>1. /\ pc = "accept" /\ pc' = "clients" /\ Running
      /\ it' = it /\ isInterrupted' = isInterrupted
      /\ request' = request /\ outcome' = outcome /\ cacheMap' = cacheMap
      /\ cacheReady' = cacheReady /\ serverConnections' = serverConnections /\ fetched' = fetched
  BY DEF addNewConnection, cacheVars, histVars, Running
<1>2. CASE FreeDescriptors = {}
  <2>1. /\ sock' = sock /\ backlog' = backlog /\ pollFds' = pollFds /\ heap' = heap
        /\ clientConnections' = clientConnections /\ errors' = errors
        /\ cacheOffsets' = cacheOffsets
    BY <1>2 DEF addNewConnection, fdVars
  <2>2. Alike(sock', sock)
    BY <2>1 DEF Alike, IInv, Types
  <2>3. pc' \in Clock /\ it' \in Nat \ {0} /\ isInterrupted' \in BOOLEAN
    BY <1>1 DEF IInv, Types, Clock
  <2>4. QED
    BY <1>1, <2>1, <2>2, <2>3, NothingTouched DEF tableVars, cacheVars
<1>3. CASE FreeDescriptors # {}
  <2> DEFINE fd == NewDescriptor
             c == Head(backlog)
             e == [fd |-> fd, events |-> "IN", revents |-> {}]
             conn == [socketFd |-> fd, pollFdsIndex |-> Len(pollFds) + 1, URl |-> NoUrl, buffer |-> c]
  <2>1. /\ backlog' = Tail(backlog)
        /\ sock' = Assign(sock, fd, ClientSocket(c))
        /\ pollFds' = Append(pollFds, e)
        /\ clientConnections' = Append(clientConnections, conn)
        /\ cacheOffsets' = Assign(cacheOffsets, fd, 0)
        /\ heap' = Assign(heap, c, 0)
        /\ errors' = errors
    BY <1>3 DEF addNewConnection
  <2>2. /\ fd \in Descriptors /\ fd \notin DOMAIN sock
        /\ \A p \in 1..Len(pollFds) : pollFds[p].fd # fd
    BY <1>1, <1>3, NewDescriptorIsNew
  <2> HIDE DEF fd
  <2>3. /\ backlog \in Seq(Clients) /\ backlog # <<>> /\ Len(backlog) \in Nat /\ Len(backlog) > 0
        /\ c \in Clients /\ c = backlog[1]
        /\ Tail(backlog) \in Seq(Clients) /\ Len(Tail(backlog)) = Len(backlog) - 1
        /\ \A k \in 1..(Len(backlog) - 1) : Tail(backlog)[k] = backlog[k + 1]
    <3>1. backlog \in Seq(Clients) /\ backlog # <<>>
      BY <1>1 DEF IInv, Types
    <3>2. Len(backlog) \in Nat /\ Len(backlog) > 0
      BY <3>1, EmptySeq, LenProperties
    <3>3. QED
      BY <3>1, <3>2, HeadTailProperties, ElementOfSeq
  <2>4. e \in Entry /\ e.fd = fd /\ e.events = "IN" /\ e.revents = {}
    BY <2>2 DEF Entry, Events
  <2>5. /\ conn \in ClientConns /\ conn.socketFd = fd /\ conn.pollFdsIndex = Len(pollFds) + 1
        /\ conn.URl = NoUrl /\ conn.buffer = c
    BY <2>2, <2>3, TableFacts DEF ClientConns, Conns, ConnectionsOf
  <2> HIDE DEF c, e, conn
  <2>6. /\ pollFds' \in Seq(Entry) /\ clientConnections' \in Seq(ClientConns)
        /\ Len(pollFds') = Len(pollFds) + 1
        /\ Len(clientConnections') = Len(clientConnections) + 1
        /\ \A p \in 1..Len(pollFds) : pollFds'[p] = pollFds[p]
        /\ pollFds'[Len(pollFds) + 1] = e
        /\ \A i \in 1..Len(clientConnections) : clientConnections'[i] = clientConnections[i]
        /\ clientConnections'[Len(clientConnections) + 1] = conn
        /\ Linked(pollFds', clientConnections', serverConnections')
    <3>1. /\ pollFds \in Seq(Entry) /\ clientConnections \in Seq(Conns(Urls \cup {NoUrl}))
          /\ serverConnections \in Seq(Conns(Urls))
          /\ Linked(pollFds, clientConnections, serverConnections)
          /\ conn \in Conns(Urls \cup {NoUrl})
      BY <2>5 DEF IInv, Types, ClientConns, ServerConns
    <3>2. /\ \A p \in 1..Len(pollFds) : pollFds[p].fd # e.fd
          /\ conn.socketFd = e.fd /\ conn.pollFdsIndex = Len(pollFds) + 1
      BY <2>2, <2>4, <2>5
    <3> DEFINE t == Append(pollFds, e)
               o == Append(clientConnections, conn)
    <3>3. /\ t \in Seq(Entry) /\ o \in Seq(Conns(Urls \cup {NoUrl}))
          /\ Len(t) = Len(pollFds) + 1 /\ Len(o) = Len(clientConnections) + 1
          /\ \A p \in 1..Len(pollFds) : t[p] = pollFds[p]
          /\ t[Len(pollFds) + 1] = e
          /\ \A i \in 1..Len(clientConnections) : o[i] = clientConnections[i]
          /\ o[Len(clientConnections) + 1] = conn
          /\ Linked(t, o, serverConnections)
      BY <2>4, <3>1, <3>2, AdditionKeepsLinked
    <3>4. QED
      BY <1>1, <2>1, <3>3 DEF ClientConns
  <2>7. \A i \in 1..Len(clientConnections') :
            i \in 1..Len(clientConnections) \/ i = Len(clientConnections) + 1
    BY <2>6, TableFacts
  <2>8. \A p \in 1..Len(pollFds') : p \in 1..Len(pollFds) \/ p = Len(pollFds) + 1
    BY <2>6, TableFacts
  <2>9. /\ \A i \in 1..Len(clientConnections) : i \in 1..Len(clientConnections')
        /\ \A p \in 1..Len(pollFds) : p \in 1..Len(pollFds')
        /\ Len(clientConnections) + 1 \in 1..Len(clientConnections')
        /\ Len(pollFds) + 1 \in 1..Len(pollFds')
    BY <2>6, TableFacts
  <2>10. /\ ClientSocket(c) \in Socket /\ ClientSocket(c).peer = c
    BY <2>3 DEF ClientSocket, Socket
  <2>11. Types'
    <3>1. \A f \in DOMAIN sock' : sock'[f] \in Socket
      BY <2>1, <2>10 DEF IInv, Types, Assign
    <3>2. /\ DOMAIN sock' \subseteq Descriptors /\ DOMAIN heap' \subseteq Clients
      BY <2>1, <2>2, <2>3 DEF IInv, Types, Assign
    <3>3. \A f \in DOMAIN cacheOffsets' : cacheOffsets'[f] \in Int
      BY <2>1 DEF IInv, Types, Assign
    <3>4. CacheTyped'
      BY <1>1, CacheTypedStays DEF IInv, Types
    <3>5. QED
      BY <1>1, <2>1, <2>3, <2>6, <3>1, <3>2, <3>3, <3>4 DEF IInv, Types, Clock
  <2>12. Known(clientConnections', backlog', request')
    <3>1. /\ \A i \in 1..Len(clientConnections) : clientConnections[i].buffer # c
          /\ request[c] # NoUrl
      <4>1. 1 \in 1..Len(backlog)
        BY <2>3
      <4>2. QED
        BY <2>3, <4>1 DEF IInv, Known
    <3>2. \A i, j \in 1..Len(clientConnections') :
            clientConnections'[i].buffer = clientConnections'[j].buffer => i = j
      BY <2>5, <2>6, <2>7, <3>1 DEF IInv, Known
    <3>3. \A k \in 1..Len(backlog') :
            /\ k + 1 \in 1..Len(backlog) /\ backlog'[k] = backlog[k + 1] /\ k \in Nat /\ k + 1 # 1
      BY <2>1, <2>3
    <3>4. \A k, l \in 1..Len(backlog') : backlog'[k] = backlog'[l] => k = l
      <4> SUFFICES ASSUME NEW k \in 1..Len(backlog'), NEW l \in 1..Len(backlog'),
                          backlog'[k] = backlog'[l]
                   PROVE  k = l
        OBVIOUS
      <4>1. k + 1 = l + 1
        BY <3>3 DEF IInv, Known
      <4>2. QED
        BY <3>3, <4>1
    <3>5. \A k \in 1..Len(backlog') : backlog'[k] # c
      <4>1. 1 \in 1..Len(backlog)
        BY <2>3
      <4>2. QED
        BY <2>3, <3>3, <4>1 DEF IInv, Known
    <3>6. \A i \in 1..Len(clientConnections'), k \in 1..Len(backlog') :
            clientConnections'[i].buffer # backlog'[k]
      <4>1. \A i \in 1..Len(clientConnections), k \in 1..Len(backlog') :
                clientConnections[i].buffer # backlog'[k]
        BY <3>3 DEF IInv, Known
      <4>2. QED
        BY <2>5, <2>6, <2>7, <3>5, <4>1
    <3>7. \A i \in 1..Len(clientConnections') : request'[clientConnections'[i].buffer] # NoUrl
      BY <1>1, <2>5, <2>6, <2>7, <3>1 DEF IInv, Known
    <3>8. \A k \in 1..Len(backlog') : request'[backlog'[k]] # NoUrl
      BY <1>1, <3>3 DEF IInv, Known
    <3>9. QED
      BY <3>2, <3>4, <3>6, <3>7, <3>8 DEF Known
  <2>13. Watched(pollFds', clientConnections', Whole')
    <3>1. Whole' = Whole /\ NoUrl \notin Whole
      BY <1>1, WholeStays, NetworkAssumption DEF Whole
    <3>2. QED
      BY <2>4, <2>5, <2>6, <2>7, <3>1, TableFacts DEF IInv, Watched
  <2>14. Heard(pollFds', clientConnections', DOMAIN errors')
    <3> SUFFICES ASSUME NEW f \in DOMAIN errors
                 PROVE  \E i \in 1..Len(clientConnections') :
                            /\ clientConnections'[i].socketFd = f
                            /\ pollFds'[clientConnections'[i].pollFdsIndex].events = "OUT"
      BY <2>1 DEF Heard
    <3>1. PICK i \in 1..Len(clientConnections) :
            /\ clientConnections[i].socketFd = f
            /\ pollFds[clientConnections[i].pollFdsIndex].events = "OUT"
      BY DEF IInv, Heard
    <3>2. QED
      BY <2>6, <2>9, <3>1, TableFacts
  <2>15. /\ FdsOf(clientConnections') = FdsOf(clientConnections) \cup {fd}
         /\ BuffersOf(clientConnections') = BuffersOf(clientConnections) \cup {c}
    BY <2>5, <2>6, <2>7, <2>9 DEF FdsOf, BuffersOf
  <2>16. DOMAIN cacheOffsets' = FdsOf(clientConnections') /\ DOMAIN heap' = BuffersOf(clientConnections')
    BY <1>1, <2>1, <2>15 DEF IInv, Assign
  <2>17. Open(pollFds', clientConnections', sock')
    <3>1. /\ DOMAIN sock' = DOMAIN sock \cup {fd} /\ sock'[fd].peer = c
          /\ \A f \in DOMAIN sock : sock'[f] = sock[f]
      BY <2>1, <2>2, <2>10 DEF Assign
    <3>2. c # Origin
      BY <2>3, NetworkAssumption
    <3>3. \A f \in Descriptors : Owned(sock', f) <=> Owned(sock, f) \/ f = fd
      BY <2>2, <3>1, <3>2 DEF Owned
    <3>4. \A f : (\E p \in 1..Len(pollFds') : pollFds'[p].fd = f)
                    <=> (\E p \in 1..Len(pollFds) : pollFds[p].fd = f) \/ f = fd
      BY <2>4, <2>6, <2>8, <2>9
    <3>5. \A i \in 1..Len(clientConnections) : clientConnections[i].socketFd \in DOMAIN sock
      BY <1>1, TableFacts DEF IInv, Open, Owned, ClientConns, Conns, ConnectionsOf
    <3>6. \A i \in 1..Len(clientConnections') :
            sock'[clientConnections'[i].socketFd].peer = clientConnections'[i].buffer
      BY <1>1, <2>5, <2>6, <2>7, <3>1, <3>5 DEF IInv, Open
    <3>7. \A f \in Descriptors : Owned(sock, f) <=> \E p \in 1..Len(pollFds) : pollFds[p].fd = f
      BY <1>1 DEF IInv, Open
    <3>8. QED
      BY <3>3, <3>4, <3>6, <3>7 DEF Open
  <2>18. QED
    BY <1>1, <2>6, <2>11, <2>12, <2>13, <2>14, <2>16, <2>17 DEF IInv
<1>4. QED
  BY <1>2, <1>3

-----------------------------------------------------------------------------
(***************************************************************************)
(* The removals.  sockets is sock, or sock with the socket of an abandoned *)
(* fetch; table is pollFds, or pollFds prepared for writing.               *)
(***************************************************************************)
Grown(sockets, s) ==
    /\ DOMAIN s \subseteq DOMAIN sockets /\ DOMAIN sockets \subseteq Descriptors
    /\ \A fd \in DOMAIN sockets :
        /\ sockets[fd] \in Socket
        /\ fd \in DOMAIN s => sockets[fd].peer = s[fd].peer /\ sockets[fd].fetch = s[fd].fetch
        /\ fd \notin DOMAIN s => ~Owned(sockets, fd)

\* Sockets that are alike have grown by nothing.
LEMMA AlikeIsGrown ==
  ASSUME IInv, NEW sockets, Alike(sockets, sock)
  PROVE  Grown(sockets, sock)
BY DEF IInv, Types, Alike, Grown

\* What is polled is open after a connection has gone with its entry.
LEMMA ClosingKeepsOpen ==
  ASSUME NEW table, Len(table) \in Nat, NEW U, NEW conns \in Seq(Conns(U)), Home(table, conns),
         PolledOnce(table), NEW s, Open(table, conns, s),
         NEW p \in 1..Len(table), NEW t, Left(t, table, p), table[p].fd \in Descriptors,
         NEW o, \A j \in 1..Len(o) : \E i \in 1..Len(conns) :
                    conns[i].socketFd # table[p].fd /\ SameConnection(o[j], conns[i]),
         NEW sockets, Grown(sockets, s)
  PROVE  Open(t, o, Erase(sockets, table[p].fd))
<1> DEFINE fd == table[p].fd
           e == Erase(sockets, fd)
<1>0. /\ \A q \in 1..Len(t) : \E k \in 1..Len(table) : k # p /\ t[q].fd = table[k].fd
      /\ \A k \in 1..Len(table) : k # p => \E q \in 1..Len(t) : t[q].fd = table[k].fd
  BY DEF Left
<1>1. /\ DOMAIN e = DOMAIN sockets \ {fd}
      /\ \A f \in DOMAIN e : e[f] = sockets[f]
  BY DEF Erase
<1> HIDE DEF e
<1>2. \A f \in Descriptors : Owned(e, f) <=> Owned(s, f) /\ f # fd
  BY <1>1 DEF Owned, Grown
<1> HIDE DEF fd
<1>3. \A f \in Descriptors : Owned(s, f) <=> \E k \in 1..Len(table) : table[k].fd = f
  BY DEF Open
<1>4. \A k \in 1..Len(table) : table[k].fd = fd => k = p
  BY DEF PolledOnce, fd
<1>5. ASSUME NEW f \in Descriptors
      PROVE  Owned(e, f) <=> \E q \in 1..Len(t) : t[q].fd = f
  <2>1. ASSUME Owned(e, f)
        PROVE  \E q \in 1..Len(t) : t[q].fd = f
    <3>1. PICK k \in 1..Len(table) : table[k].fd = f
      BY <1>2, <1>3, <2>1
    <3>2. k # p
      BY <1>2, <2>1, <3>1 DEF fd
    <3>3. QED
      BY <1>0, <3>1, <3>2
  <2>2. ASSUME NEW q \in 1..Len(t), t[q].fd = f
        PROVE  Owned(e, f)
    <3>1. PICK k \in 1..Len(table) : k # p /\ t[q].fd = table[k].fd
      BY <1>0
    <3>2. Owned(s, f) /\ f # fd
      BY <1>3, <1>4, <2>2, <3>1
    <3>3. QED
      BY <1>2, <3>2
  <2>3. QED
    BY <2>1, <2>2
<1>6. ASSUME NEW j \in 1..Len(o)
      PROVE  e[o[j].socketFd].peer = o[j].buffer
  <2>1. PICK i \in 1..Len(conns) : conns[i].socketFd # fd /\ SameConnection(o[j], conns[i])
    BY DEF fd
  <2>2. conns[i].socketFd \in Descriptors
    <3>1. conns[i] \in Conns(U)
      BY ElementOfSeq
    <3>2. QED
      BY <3>1 DEF Conns, ConnectionsOf
  <2>3. conns[i].socketFd \in DOMAIN s
    <3>1. \A k \in 2..Len(table) : k \in 1..Len(table)
      OBVIOUS
    <3>2. \E k \in 1..Len(table) : table[k].fd = conns[i].socketFd
      BY <3>1 DEF Home
    <3>3. QED
      BY <1>3, <2>2, <3>2 DEF Owned
  <2>4. s[conns[i].socketFd].peer = conns[i].buffer
    BY DEF Open
  <2>5. QED
    BY <1>1, <2>1, <2>3, <2>4 DEF Grown, SameConnection
<1>7. QED
  BY <1>5, <1>6 DEF Open, e, fd

\* What a removal does to the tables.
LEMMA ClientRemovalMoves ==
  ASSUME IInv, NEW i \in 1..Len(clientConnections), NEW sockets, NEW how,
         removeClientConnection(i, sockets, how)
  PROVE  /\ pollFds' \in Seq(Entry) /\ clientConnections' \in Seq(ClientConns)
         /\ serverConnections' \in Seq(ServerConns)
         /\ Linked(pollFds', clientConnections', serverConnections')
         /\ Survive(pollFds', clientConnections', pollFds, clientConnections, i)
         /\ Stay(pollFds', serverConnections', pollFds, serverConnections)
         /\ Left(pollFds', pollFds, clientConnections[i].pollFdsIndex)
<1> DEFINE p == clientConnections[i].pollFdsIndex
           t == RemoveAt(pollFds, p)
           o == eraseConnection(updatePollFdIndexes(clientConnections, p), i)
           r == updatePollFdIndexes(serverConnections, p)
<1>1. /\ pollFds \in Seq(Entry) /\ clientConnections \in Seq(Conns(Urls \cup {NoUrl}))
      /\ serverConnections \in Seq(Conns(Urls))
      /\ Linked(pollFds, clientConnections, serverConnections)
  BY DEF IInv, Types, ClientConns, ServerConns
<1>2. /\ t \in Seq(Entry) /\ o \in Seq(Conns(Urls \cup {NoUrl})) /\ r \in Seq(Conns(Urls))
      /\ Linked(t, o, r)
      /\ Survive(t, o, pollFds, clientConnections, i)
      /\ Stay(t, r, pollFds, serverConnections)
      /\ Left(t, pollFds, p)
  BY <1>1, RemovalKeepsLinked
<1>3. pollFds' = t /\ clientConnections' = o /\ serverConnections' = r
  BY DEF removeClientConnection, removeConnection
<1> HIDE DEF t, o, r
<1>4. QED
  BY <1>2, <1>3 DEF ClientConns, ServerConns

\* What removeServerConnection does to the three vectors.
LEMMA ServerRemovalMoves ==
  ASSUME IInv, NEW j \in 1..Len(serverConnections), NEW table \in Seq(Entry),
         SameFds(table, pollFds), removeServerConnection(j, table)
  PROVE  /\ pollFds' \in Seq(Entry) /\ clientConnections' \in Seq(ClientConns)
         /\ serverConnections' \in Seq(ServerConns)
         /\ Linked(pollFds', serverConnections', clientConnections')
         /\ Survive(pollFds', serverConnections', table, serverConnections, j)
         /\ Stay(pollFds', clientConnections', table, clientConnections)
         /\ Left(pollFds', table, serverConnections[j].pollFdsIndex)
<1> DEFINE p == serverConnections[j].pollFdsIndex
           t == RemoveAt(table, p)
           o == eraseConnection(updatePollFdIndexes(serverConnections, p), j)
           r == updatePollFdIndexes(clientConnections, p)
<1>1. /\ clientConnections \in Seq(Conns(Urls \cup {NoUrl}))
      /\ serverConnections \in Seq(Conns(Urls))
  BY DEF IInv, Types, ClientConns, ServerConns
<1>2. Linked(table, serverConnections, clientConnections)
  <2>1. /\ SamePlaces(clientConnections, clientConnections)
        /\ SamePlaces(serverConnections, serverConnections)
    BY DEF SamePlaces
  <2>2. Linked(pollFds, clientConnections, serverConnections) /\ Len(pollFds) \in Nat
    BY TableFacts DEF IInv
  <2>3. Linked(table, clientConnections, serverConnections)
    BY <2>1, <2>2, LinkedStays
  <2>4. QED
    BY <2>3, LinkedSwaps
<1>3. /\ t \in Seq(Entry) /\ o \in Seq(Conns(Urls)) /\ r \in Seq(Conns(Urls \cup {NoUrl}))
      /\ Linked(t, o, r)
      /\ Survive(t, o, table, serverConnections, j)
      /\ Stay(t, r, table, clientConnections)
      /\ Left(t, table, p)
  BY <1>1, <1>2, RemovalKeepsLinked
<1>4. pollFds' = t /\ serverConnections' = o /\ clientConnections' = r
  BY DEF removeServerConnection, removeConnection
<1> HIDE DEF t, o, r
<1>5. QED
  BY <1>3, <1>4 DEF ClientConns, ServerConns

\* The invariant after a client is removed.
LEMMA ClientRemoved ==
  ASSUME IInv, Running, NEW i \in 1..Len(clientConnections), NEW sockets, NEW how \in Outcomes,
         removeClientConnection(i, sockets, how), Grown(sockets, sock),
         UNCHANGED <<backlog, request, fetched, pc, isInterrupted>>,
         CacheTyped', Whole' \subseteq Whole
  PROVE  IInv'
<1> DEFINE c == clientConnections[i]
           p == c.pollFdsIndex
<1>1. /\ errors' = Erase(errors, c.socketFd)
      /\ cacheOffsets' = Erase(cacheOffsets, c.socketFd)
      /\ heap' = Erase(heap, c.buffer)
      /\ pollFds' = RemoveAt(pollFds, p)
      /\ sock' = Erase(sockets, c.socketFd)
      /\ serverConnections' = updatePollFdIndexes(serverConnections, p)
      /\ clientConnections' = eraseConnection(updatePollFdIndexes(clientConnections, p), i)
      /\ outcome' = [outcome EXCEPT ![sock[c.socketFd].peer] = how]
      /\ it' = Len(clientConnections)
  BY DEF removeClientConnection, removeConnection, deleteBuffer
<1>2. /\ c \in ClientConns /\ c.socketFd \in Descriptors
      /\ p \in 1..Len(pollFds) /\ pollFds[p].fd = c.socketFd
  BY TableFacts DEF ClientConns, Conns, ConnectionsOf
<1>3. /\ pollFds' \in Seq(Entry) /\ clientConnections' \in Seq(ClientConns)
      /\ serverConnections' \in Seq(ServerConns)
      /\ Linked(pollFds', clientConnections', serverConnections')
      /\ Survive(pollFds', clientConnections', pollFds, clientConnections, i)
      /\ Left(pollFds', pollFds, p)
  BY ClientRemovalMoves
<1> HIDE DEF c, p
<1>4. /\ FdsOf(clientConnections') = FdsOf(clientConnections) \ {c.socketFd}
      /\ BuffersOf(clientConnections') = BuffersOf(clientConnections) \ {c.buffer}
      /\ Known(clientConnections', backlog, request)
  <2>1. /\ Linked(pollFds, clientConnections, serverConnections)
        /\ Known(clientConnections, backlog, request)
        /\ Len(pollFds) \in Nat /\ Len(pollFds') \in Nat
    BY <1>3, TableFacts, LenProperties DEF IInv
  <2>2. /\ FdsOf(clientConnections') = FdsOf(clientConnections) \ {clientConnections[i].socketFd}
        /\ BuffersOf(clientConnections') = BuffersOf(clientConnections) \ {clientConnections[i].buffer}
        /\ Known(clientConnections', backlog, request)
    BY <1>3, <2>1, RemovalLeavesOthers
  <2>3. QED
    BY <2>2 DEF c
<1>5. DOMAIN cacheOffsets' = FdsOf(clientConnections') /\ DOMAIN heap' = BuffersOf(clientConnections')
  BY <1>1, <1>4 DEF IInv, Erase
<1>6. Watched(pollFds', clientConnections', Whole')
  <2>1. Watched(pollFds, clientConnections, Whole')
    BY DEF IInv, Watched
  <2>2. QED
    BY <1>3, <2>1, RemovalKeepsWatched DEF Survive
<1>7. Heard(pollFds', clientConnections', DOMAIN errors')
  <2>1. DOMAIN errors' \subseteq DOMAIN errors /\ c.socketFd \notin DOMAIN errors'
    BY <1>1 DEF Erase
  <2>2. \A k \in 1..Len(clientConnections) : clientConnections[k].socketFd \in DOMAIN errors' =>
            \E j \in 1..Len(clientConnections') :
                Follows(pollFds', clientConnections'[j], pollFds, clientConnections[k])
    BY <1>3, <2>1 DEF c, Survive
  <2>3. Heard(pollFds, clientConnections, DOMAIN errors)
    BY DEF IInv
  <2>4. QED
    BY <2>1, <2>2, <2>3, RemovalKeepsHeard
<1>8. Open(pollFds', clientConnections', sock')
  <2>1. /\ Open(pollFds, clientConnections, sock) /\ PolledOnce(pollFds)
        /\ Home(pollFds, clientConnections) /\ Len(pollFds) \in Nat
        /\ clientConnections \in Seq(Conns(Urls \cup {NoUrl}))
    BY TableFacts DEF IInv, Types, Linked, ClientConns
  <2>2. \A k \in 1..Len(clientConnections) : k # i => clientConnections[k].socketFd # pollFds[p].fd
    BY <1>2, TableFacts, LinkedFdsDiffer DEF IInv, c
  <2>3. \A j \in 1..Len(clientConnections') : \E k \in 1..Len(clientConnections) :
            /\ clientConnections[k].socketFd # pollFds[p].fd
            /\ SameConnection(clientConnections'[j], clientConnections[k])
    BY <1>3, <2>2 DEF Survive, Follows
  <2>4. Open(pollFds', clientConnections', Erase(sockets, pollFds[p].fd))
    BY <1>2, <1>3, <2>1, <2>3, ClosingKeepsOpen
  <2>5. QED
    BY <1>1, <1>2, <2>4
<1>9. Types'
  <2>1. /\ DOMAIN sock' \subseteq Descriptors /\ \A fd \in DOMAIN sock' : sock'[fd] \in Socket
    BY <1>1 DEF Grown, Erase
  <2>2. /\ DOMAIN errors' \subseteq Descriptors /\ DOMAIN heap' \subseteq Clients
    BY <1>1 DEF IInv, Types, Erase
  <2>3. outcome' \in [Clients -> Outcomes]
    BY <1>1 DEF IInv, Types
  <2>4. it' \in Nat \ {0}
    BY <1>1, TableFacts
  <2>5. \A fd \in DOMAIN cacheOffsets' : cacheOffsets'[fd] \in Int
    BY <1>1 DEF IInv, Types, Erase
  <2>6. QED
    BY <1>3, <2>1, <2>2, <2>3, <2>4, <2>5 DEF IInv, Types
<1>10. QED
  BY <1>3, <1>4, <1>5, <1>6, <1>7, <1>8, <1>9 DEF IInv

\* The invariant after a fetch is removed.
LEMMA ServerRemoved ==
  ASSUME IInv, Running, NEW j \in 1..Len(serverConnections), NEW table \in Seq(Entry),
         SameFds(table, pollFds), removeServerConnection(j, table),
         Watched(table, clientConnections, Whole'), Heard(table, clientConnections, DOMAIN errors'),
         DOMAIN errors' \subseteq Descriptors,
         CacheTyped',
         UNCHANGED <<backlog, request, outcome, heap, cacheOffsets, fetched, pc, isInterrupted>>
  PROVE  IInv'
<1> DEFINE s == serverConnections[j]
           p == s.pollFdsIndex
<1>1. /\ pollFds' = RemoveAt(table, p)
      /\ sock' = Erase(sock, s.socketFd)
      /\ clientConnections' = updatePollFdIndexes(clientConnections, p)
      /\ serverConnections' = eraseConnection(updatePollFdIndexes(serverConnections, p), j)
      /\ it' = Len(serverConnections)
  BY DEF removeServerConnection, removeConnection
<1>2. /\ s \in ServerConns /\ s.socketFd \in Descriptors
      /\ p \in 1..Len(pollFds) /\ pollFds[p].fd = s.socketFd
  BY TableFacts DEF ServerConns, Conns, ConnectionsOf
<1>3. /\ pollFds' \in Seq(Entry) /\ clientConnections' \in Seq(ClientConns)
      /\ serverConnections' \in Seq(ServerConns)
      /\ Linked(pollFds', serverConnections', clientConnections')
      /\ Stay(pollFds', clientConnections', table, clientConnections)
      /\ Left(pollFds', table, p)
  BY ServerRemovalMoves
<1> HIDE DEF s, p
<1>4. /\ Len(clientConnections') = Len(clientConnections)
      /\ \A k \in 1..Len(clientConnections) :
            /\ Follows(pollFds', clientConnections'[k], table, clientConnections[k])
            /\ SameConnection(clientConnections'[k], clientConnections[k])
            /\ clientConnections'[k].socketFd = clientConnections[k].socketFd
            /\ clientConnections'[k].buffer = clientConnections[k].buffer
  BY <1>3 DEF Stay, Follows, SameConnection
<1>5. /\ FdsOf(clientConnections') = FdsOf(clientConnections)
      /\ BuffersOf(clientConnections') = BuffersOf(clientConnections)
  BY <1>4 DEF FdsOf, BuffersOf
<1>6. Known(clientConnections', backlog', request')
  BY <1>4 DEF IInv, Known
<1>7. DOMAIN cacheOffsets' = FdsOf(clientConnections') /\ DOMAIN heap' = BuffersOf(clientConnections')
  BY <1>5 DEF IInv
<1>8. Watched(pollFds', clientConnections', Whole')
  BY <1>4, RemovalKeepsWatched
<1>9. Heard(pollFds', clientConnections', DOMAIN errors')
  BY <1>4, RemovalKeepsHeard
<1>10. Open(pollFds', clientConnections', sock')
  <2>1. /\ Len(table) = Len(pollFds) /\ Len(table) \in Nat
        /\ \A q \in 1..Len(pollFds) : table[q].fd = pollFds[q].fd
    BY TableFacts DEF SameFds
  <2>2. /\ PolledOnce(table) /\ Open(table, clientConnections, sock)
    BY <2>1 DEF IInv, Linked, PolledOnce, Open
  <2>3. Home(table, clientConnections)
    <3>1. \A k \in 2..Len(pollFds) : k \in 1..Len(pollFds)
      BY <2>1
    <3>2. Home(pollFds, clientConnections)
      BY DEF IInv, Linked
    <3>3. QED
      BY <2>1, <3>1, <3>2 DEF Home
  <2>4. p \in 1..Len(table) /\ table[p].fd = s.socketFd /\ table[p].fd \in Descriptors
    BY <1>2, <2>1
  <2>5. \A k \in 1..Len(clientConnections) : clientConnections[k].socketFd # table[p].fd
    BY <2>4, TableFacts, LinkedFdsDiffer DEF IInv, s
  <2>6. \A k \in 1..Len(clientConnections') : \E l \in 1..Len(clientConnections) :
            /\ clientConnections[l].socketFd # table[p].fd
            /\ SameConnection(clientConnections'[k], clientConnections[l])
    BY <1>4, <2>5
  <2>7. Grown(sock, sock)
    BY DEF IInv, Types, Grown
  <2>8. clientConnections \in Seq(Conns(Urls \cup {NoUrl}))
    BY DEF IInv, Types, ClientConns
  <2>9. Open(pollFds', clientConnections', Erase(sock, table[p].fd))
    BY <1>3, <2>1, <2>2, <2>3, <2>4, <2>6, <2>7, <2>8, ClosingKeepsOpen
  <2>10. QED
    BY <1>1, <2>4, <2>9
<1>11. Types'
  <2>1. /\ DOMAIN sock' \subseteq Descriptors /\ \A fd \in DOMAIN sock' : sock'[fd] \in Socket
    BY <1>1 DEF IInv, Types, Erase
  <2>2. it' \in Nat \ {0}
    BY <1>1, TableFacts
  <2>3. QED
    BY <1>3, <2>1, <2>2 DEF IInv, Types
<1>12. Linked(pollFds', clientConnections', serverConnections')
  BY <1>3, LinkedSwaps
<1>13. QED
  BY <1>6, <1>7, <1>8, <1>9, <1>10, <1>11, <1>12 DEF IInv

-----------------------------------------------------------------------------
(***************************************************************************)
(* checkClientsConnections.                                                *)
(***************************************************************************)
\* Looking a page up creates its node, but no page.
LEMMA LookupKeepsWhole ==
  ASSUME NEW url \in Urls, getCurrentData(url), cacheReady' = cacheReady,
         CacheTyped
  PROVE  /\ Whole' = Whole /\ CacheTyped'
         /\ \A v \in Urls : nodeData(v)' = nodeData(v)
<1>1. /\ DOMAIN cacheMap' = DOMAIN cacheMap \cup {url}
      /\ \A v \in DOMAIN cacheMap : cacheMap'[v] = cacheMap[v]
      /\ url \notin DOMAIN cacheMap => cacheMap'[url] = <<>>
  BY DEF getCurrentData, Assign, nodeData, contains
<1>2. \A v \in Urls : nodeData(v)' = nodeData(v)
  BY <1>1 DEF nodeData, contains
<1>3. \A v \in Urls : v \in Whole' <=> v \in Whole
  BY <1>1, <1>2 DEF Whole, cacheNodeReady, nodeData, contains
<1>4. Whole' = Whole
  BY <1>3 DEF Whole
<1>5. CacheTyped'
  <2>1. <<>> \in Seq(Units)
    OBVIOUS
  <2>2. QED
    BY <1>1, <2>1 DEF CacheTyped
<1>6. QED
  BY <1>2, <1>4, <1>5

\* The turns that take a client away, but for the complete ones.
LEMMA ClientLeavesStep ==
  ASSUME IInv,
         ClientHungUp \/ ClientToldError \/ ClientSendFails \/ ClientReceivesEnd
  PROVE  IInv'
<1>1. ClientTurn
  BY DEF ClientHungUp, ClientToldError, ClientSendFails, ClientReceivesEnd, ClientWritable, ClientReadable
<1>2. PICK how \in Outcomes : removeClientConnection(it, sock, how)
  BY DEF ClientHungUp, ClientToldError, ClientSendFails, ClientReceivesEnd, Outcomes
<1>3. UNCHANGED <<backlog, request, fetched, pc, isInterrupted, cacheReady>>
  BY DEF ClientHungUp, ClientToldError, ClientSendFails, ClientReceivesEnd,
         peerVars, cacheVars, turnVars, histVars
<1>4. CacheTyped' /\ Whole' \subseteq Whole
  <2>1. CASE ClientSendFails
    <3>1. client.URl \in Urls
      BY <1>1, <2>1, ClientAtTurn
         DEF ClientSendFails, ClientWritable, ClientConns, Conns, ConnectionsOf
    <3>2. getCurrentData(client.URl)
      BY <2>1 DEF ClientSendFails
    <3>3. QED
      BY <1>3, <3>1, <3>2, LookupKeepsWhole DEF IInv, Types
  <2>2. CASE ~ClientSendFails
    <3>1. cacheMap' = cacheMap
      BY <2>2 DEF ClientHungUp, ClientToldError, ClientReceivesEnd, cacheVars
    <3>2. QED
      BY <1>3, <3>1, WholeStays, CacheTypedStays DEF IInv, Types
  <2>3. QED
    BY <2>1, <2>2
<1>5. Grown(sock, sock)
  BY DEF Grown, IInv, Types
<1>6. QED
  BY <1>1, <1>2, <1>3, <1>4, <1>5, ClientAtTurn, ClientRemoved

\* The socket of a fetch, or of an abandoned one.
LEMMA ServerSocketTyped ==
  ASSUME NEW f \in Nat
  PROVE  ServerSocket(f) \in Socket /\ ServerSocket(f).peer = Origin /\ ServerSocket(f).fetch = f
<1> DEFINE base == ClientSocket(Origin)
<1>1. base \in Socket /\ base.peer = Origin
  BY DEF ClientSocket, Socket
<1>2. ServerSocket(f) = [base EXCEPT !.up = FALSE, !.fetch = f]
  BY DEF ServerSocket
<1> HIDE DEF base
<1>3. QED
  BY <1>1, <1>2 DEF Socket

\* A fetch that cannot be started keeps the invariant.
LEMMA ClientFetchFailsStep == ASSUME IInv, ClientFetchFails PROVE IInv'
<1>1. ClientTurn
  BY DEF ClientFetchFails, ReceivesRequest, Receives, ClientReadable
<1>2. /\ UNCHANGED <<backlog, request, fetched, pc, isInterrupted, cacheMap, cacheReady>>
      /\ \/ removeClientConnection(it, sock, "error")
         \/ /\ FreeDescriptors # {}
            /\ removeClientConnection(it, Assign(sock, NewDescriptor, ServerSocket(0)), "error")
  BY DEF ClientFetchFails, peerVars, cacheVars, turnVars, histVars
<1>3. /\ CacheTyped' /\ Whole' \subseteq Whole
  BY <1>2, WholeStays, CacheTypedStays DEF IInv, Types
<1>4. "error" \in Outcomes
  BY DEF Outcomes
<1>5. CASE removeClientConnection(it, sock, "error")
  <2>1. Grown(sock, sock)
    BY DEF Grown, IInv, Types
  <2>2. QED
    BY <1>1, <1>2, <1>3, <1>4, <1>5, <2>1, ClientAtTurn, ClientRemoved
<1>6. CASE /\ FreeDescriptors # {}
           /\ removeClientConnection(it, Assign(sock, NewDescriptor, ServerSocket(0)), "error")
  <2> DEFINE sockets == Assign(sock, NewDescriptor, ServerSocket(0))
  <2>1. NewDescriptor \in Descriptors /\ NewDescriptor \notin DOMAIN sock
    BY <1>1, <1>6, ClientAtTurn, NewDescriptorIsNew
  <2>2. /\ ServerSocket(0) \in Socket /\ ServerSocket(0).peer = Origin
        /\ ServerSocket(0).fetch = 0
    BY ServerSocketTyped
  <2>3. /\ DOMAIN sockets = DOMAIN sock \cup {NewDescriptor}
        /\ sockets[NewDescriptor] = ServerSocket(0)
        /\ \A fd \in DOMAIN sock : sockets[fd] = sock[fd]
    BY <2>1 DEF Assign
  <2> HIDE DEF sockets
  <2>4. Grown(sockets, sock)
    BY <2>1, <2>2, <2>3 DEF Grown, Owned, IInv, Types
  <2>5. removeClientConnection(it, sockets, "error")
    BY <1>6 DEF sockets
  <2>6. QED
    BY <1>1, <1>2, <1>3, <1>4, <2>4, <2>5, ClientAtTurn, ClientRemoved
<1>7. QED
  BY <1>2, <1>5, <1>6

\* So do the turns of a client that change no vector.
LEMMA ClientIdleSteps ==
  ASSUME IInv, ClientIdle \/ ClientReceivesPart \/ ClientReceivesMalformed \/ ClientsDone
  PROVE  IInv'
<1>1. Running
  BY DEF ClientIdle, ClientReceivesPart, ClientReceivesMalformed, ClientsDone,
         ReceivesRequest, Receives, ClientReadable, ClientTurn, Running
<1>2. /\ UNCHANGED <<tableVars, cacheVars, errors, cacheOffsets, backlog, request, outcome, fetched>>
      /\ isInterrupted' = isInterrupted
      /\ it' \in {it, it + 1, 1} /\ pc' \in {pc, "crashed", "servers"}
      /\ \/ heap' = heap /\ sock' = sock
         \/ /\ DOMAIN heap' = DOMAIN heap
            /\ \E n \in 1..BUF_SIZE : sock' = Received(client.socketFd, n)
  BY DEF ClientIdle, ClientReceivesPart, ClientReceivesMalformed, ClientsDone,
         netVars, peerVars, turnVars, fdVars, histVars
<1>3. Alike(sock', sock) /\ DOMAIN heap' = DOMAIN heap
  <2>1. Alike(sock, sock)
    BY DEF Alike, IInv, Types
  <2>2. BUF_SIZE \in Nat
    BY NetworkAssumption
  <2>3. QED
    BY <1>2, <2>1, <2>2, ReceivingKeepsSockets
<1>4. pc' \in Clock /\ it' \in Nat \ {0} /\ isInterrupted' \in BOOLEAN
  BY <1>2 DEF IInv, Types, Clock
<1>5. pc' = "accept" => backlog # <<>>
  BY <1>2 DEF IInv
<1>6. QED
  BY <1>1, <1>2, <1>3, <1>4, <1>5, NothingTouched

\* Recording the URL of a client moves no connection.
LEMMA AskingIsTyped ==
  ASSUME IInv, it \in 1..Len(clientConnections), NEW url \in Urls
  PROVE  /\ Asking(url) \in Seq(ClientConns)
         /\ SamePlaces(Asking(url), clientConnections)
         /\ Asking(url)[it].URl = url
         /\ \A i \in 1..Len(clientConnections) : i # it => Asking(url)[i] = clientConnections[i]
<1> DEFINE c == [clientConnections[it] EXCEPT !.URl = url]
<1>1. /\ clientConnections[it] \in ClientConns
      /\ clientConnections \in Seq(ClientConns)
      /\ DOMAIN clientConnections = 1..Len(clientConnections)
  BY TableFacts DEF IInv, Types
<1>2. /\ c \in ClientConns /\ c.URl = url
      /\ c.socketFd = clientConnections[it].socketFd /\ c.buffer = clientConnections[it].buffer
      /\ c.pollFdsIndex = clientConnections[it].pollFdsIndex
  BY <1>1 DEF ClientConns, Conns, ConnectionsOf
<1>3. Asking(url) = [clientConnections EXCEPT ![it] = c]
  BY DEF Asking
<1> HIDE DEF c
<1>4. /\ Asking(url) \in Seq(ClientConns) /\ Len(Asking(url)) = Len(clientConnections)
      /\ Asking(url)[it] = c
      /\ \A i \in 1..Len(clientConnections) : i # it => Asking(url)[i] = clientConnections[i]
  BY <1>1, <1>2, <1>3
<1>5. SamePlaces(Asking(url), clientConnections)
  BY <1>2, <1>4 DEF SamePlaces
<1>6. QED
  BY <1>2, <1>4, <1>5

\* A request for a page of the cache keeps the invariant.
LEMMA ClientAsksForCachedStep == ASSUME IInv, ClientAsksForCached PROVE IInv'
<1> DEFINE url == request[client.buffer]
           p == client.pollFdsIndex
           e == [pollFds[p] EXCEPT !.revents = {}, !.events = "OUT"]
<1>1. ClientTurn
  BY DEF ClientAsksForCached, ReceivesRequest, Receives, ClientReadable
<1>2. PICK n \in 1..BUF_SIZE :
        /\ url # Malformed /\ contains(url)
        /\ heap' = [heap EXCEPT ![client.buffer] = ReqLen]
        /\ sock' = Received(client.socketFd, n)
        /\ clientConnections' = Asking(url)
        /\ pollFds' = [pollFds EXCEPT ![p].revents = {}, ![p].events = "OUT"]
        /\ it' = it + 1
  BY <1>1, ClientAtTurn DEF ClientAsksForCached
<1>3. /\ UNCHANGED <<backlog, request, outcome, cacheMap, cacheReady, pc, isInterrupted, fetched>>
      /\ UNCHANGED <<serverConnections, cacheOffsets, errors>>
  BY DEF ClientAsksForCached, peerVars, cacheVars, turnVars, histVars
<1>4. /\ Running /\ it \in 1..Len(clientConnections) /\ url \in Urls
      /\ p \in 1..Len(pollFds) /\ pollFds[p] \in Entry /\ pollFds \in Seq(Entry)
      /\ p = clientConnections[it].pollFdsIndex
  BY <1>1, <1>2, ClientAtTurn, TableFacts DEF IInv, Types, client
<1>5. e \in Entry /\ e.fd = pollFds[p].fd /\ e.events = "OUT"
  BY <1>4 DEF Entry, Events
<1>6. pollFds' = [pollFds EXCEPT ![p] = e]
  BY <1>2, <1>4, TableFacts
<1> HIDE DEF url, p, e
<1>7. /\ pollFds' \in Seq(Entry) /\ SameFds(pollFds', pollFds) /\ pollFds'[p] = e
      /\ \A q \in 1..Len(pollFds) : q # p => pollFds'[q] = pollFds[q]
  <2> DEFINE t == [pollFds EXCEPT ![p] = e]
  <2>1. /\ t \in Seq(Entry) /\ SameFds(t, pollFds) /\ t[p] = e
        /\ \A q \in 1..Len(pollFds) : q # p => t[q] = pollFds[q]
    BY <1>4, <1>5, EditedTable
  <2>2. QED
    BY <1>6, <2>1
<1>8. /\ clientConnections' \in Seq(ClientConns)
      /\ SamePlaces(clientConnections', clientConnections)
      /\ clientConnections'[it].URl = url
      /\ \A i \in 1..Len(clientConnections) : i # it => clientConnections'[i] = clientConnections[i]
  BY <1>2, <1>4, AskingIsTyped
<1>9. /\ Len(clientConnections') = Len(clientConnections)
      /\ \A i \in 1..Len(clientConnections) :
            /\ clientConnections'[i].pollFdsIndex = clientConnections[i].pollFdsIndex
            /\ clientConnections'[i].socketFd = clientConnections[i].socketFd
            /\ clientConnections[i].pollFdsIndex \in 1..Len(pollFds)
            /\ i # it => clientConnections[i].pollFdsIndex # p
  BY <1>4, <1>8, TableFacts DEF SamePlaces, IInv, Linked, Apart
<1>10. Alike(sock', sock)
  BY <1>2, ReceivingKeepsSockets
<1>11. Types'
  BY SMTT(20), <1>2, <1>3, <1>4, <1>7, <1>8, <1>10, AlikeIsTyped, CacheTypedStays DEF IInv, Types
<1>12. Watched(pollFds', clientConnections', Whole')
  <2>1. Whole' = Whole /\ url # NoUrl
    BY <1>3, <1>4, WholeStays, NetworkAssumption
  <2>2. Watched(pollFds, clientConnections, Whole)
    BY DEF IInv
  <2> SUFFICES ASSUME NEW i \in 1..Len(clientConnections)
               PROVE  LET c == clientConnections'[i]
                          entry == pollFds'[c.pollFdsIndex]
                      IN  /\ c.URl = NoUrl => entry.events = "IN" /\ "OUT" \notin entry.revents
                          /\ c.URl \in Whole => entry.events = "OUT"
    BY <1>9, <2>1 DEF Watched
  <2>3. CASE i = it
    BY <1>4, <1>5, <1>7, <1>8, <1>9, <2>1, <2>3
  <2>4. CASE i # it
    BY <1>7, <1>8, <1>9, <2>2, <2>4 DEF Watched
  <2>5. QED
    BY <2>3, <2>4
<1>13. Heard(pollFds', clientConnections', DOMAIN errors')
  <2> SUFFICES ASSUME NEW fd \in DOMAIN errors
               PROVE  \E i \in 1..Len(clientConnections') :
                        /\ clientConnections'[i].socketFd = fd
                        /\ pollFds'[clientConnections'[i].pollFdsIndex].events = "OUT"
    BY <1>3 DEF Heard
  <2>1. PICK i \in 1..Len(clientConnections) :
            /\ clientConnections[i].socketFd = fd
            /\ pollFds[clientConnections[i].pollFdsIndex].events = "OUT"
    BY DEF IInv, Heard
  <2>2. QED
    BY <1>4, <1>5, <1>7, <1>9, <2>1
<1>14. SamePlaces(serverConnections', serverConnections)
  BY <1>3 DEF SamePlaces
<1>15. QED
  BY <1>2, <1>3, <1>4, <1>7, <1>8, <1>10, <1>11, <1>12, <1>13, <1>14, NothingMoves DEF IInv

\* A request that starts a fetch keeps the invariant.
LEMMA ClientStartsFetchStep == ASSUME IInv, ClientStartsFetch PROVE IInv'
<1> DEFINE url == request[client.buffer]
           p == client.pollFdsIndex
           fd == NewDescriptor
           f == Len(fetched) + 1
           entry == [pollFds[p] EXCEPT !.revents = {}]
           table == [pollFds EXCEPT ![p] = entry]
           e == [fd |-> fd, events |-> "OUT", revents |-> {}]
           conn == [socketFd |-> fd, pollFdsIndex |-> Len(pollFds) + 1,
                    URl |-> url, buffer |-> client.buffer]
<1>1. ClientTurn
  BY DEF ClientStartsFetch, ReceivesRequest, Receives, ClientReadable
<1>2. /\ Running /\ it \in 1..Len(clientConnections) /\ client.buffer \in Clients
      /\ p \in 1..Len(pollFds) /\ pollFds[p] \in Entry /\ pollFds \in Seq(Entry)
      /\ p = clientConnections[it].pollFdsIndex /\ p # Len(pollFds) + 1
  BY <1>1, ClientAtTurn, TableFacts DEF IInv, Types, client
<1>3. PICK n \in 1..BUF_SIZE :
        /\ url # Malformed /\ ~contains(url) /\ FreeDescriptors # {}
        /\ heap' = [heap EXCEPT ![client.buffer] = ReqLen]
        /\ sock' = Assign(Received(client.socketFd, n), fd, ServerSocket(f))
        /\ fetched' = Append(fetched, url)
        /\ clientConnections' = Asking(url)
        /\ pollFds' = Append(table, e)
        /\ serverConnections' = Append(serverConnections, conn)
        /\ setNodeReady(url, FALSE)
        /\ it' = it + 1
  <2>1. table = [pollFds EXCEPT ![p].revents = {}]
    BY <1>2, TableFacts
  <2>2. QED
    BY <1>1, <2>1, ClientAtTurn DEF ClientStartsFetch
<1>4. UNCHANGED <<backlog, request, outcome, cacheMap, pc, isInterrupted, cacheOffsets, errors>>
  BY DEF ClientStartsFetch, peerVars, turnVars
<1>5. url \in Urls /\ url # NoUrl
  BY <1>1, <1>3, ClientAtTurn, NetworkAssumption
<1>6. /\ fd \in Descriptors /\ fd \notin DOMAIN sock
      /\ \A q \in 1..Len(pollFds) : pollFds[q].fd # fd
  BY <1>2, <1>3, NewDescriptorIsNew
<1>7. entry \in Entry /\ entry.fd = pollFds[p].fd /\ entry.events = pollFds[p].events /\ entry.revents = {}
  BY <1>2 DEF Entry
<1> HIDE DEF fd, url, entry
<1>8. e \in Entry /\ e.fd = fd
  BY <1>6 DEF Entry, Events
<1>9. conn \in Conns(Urls) /\ conn.socketFd = fd /\ conn.pollFdsIndex = Len(pollFds) + 1
  BY <1>2, <1>5, <1>6, TableFacts DEF Conns, ConnectionsOf
<1>10. /\ table \in Seq(Entry) /\ Len(table) = Len(pollFds) /\ SameFds(table, pollFds) /\ table[p] = entry
       /\ \A q \in 1..Len(pollFds) : q # p => table[q] = pollFds[q]
  BY <1>2, <1>7, EditedTable
<1> HIDE DEF p, table, e, conn
<1>11. /\ clientConnections' \in Seq(ClientConns)
       /\ SamePlaces(clientConnections', clientConnections)
       /\ clientConnections'[it].URl = url
       /\ \A i \in 1..Len(clientConnections) : i # it => clientConnections'[i] = clientConnections[i]
  BY <1>2, <1>3, <1>5, AskingIsTyped
<1>12. /\ Len(clientConnections') = Len(clientConnections)
       /\ \A i \in 1..Len(clientConnections) :
            /\ clientConnections'[i].pollFdsIndex = clientConnections[i].pollFdsIndex
            /\ clientConnections'[i].socketFd = clientConnections[i].socketFd
            /\ clientConnections'[i].buffer = clientConnections[i].buffer
            /\ clientConnections[i].pollFdsIndex \in 1..Len(pollFds)
            /\ i # it => clientConnections[i].pollFdsIndex # p
  BY <1>2, <1>11, TableFacts DEF SamePlaces, IInv, Linked, Apart
<1>13. /\ pollFds' \in Seq(Entry) /\ serverConnections' \in Seq(ServerConns)
       /\ Len(pollFds') = Len(pollFds) + 1
       /\ \A q \in 1..Len(pollFds) : pollFds'[q] = table[q]
       /\ pollFds'[Len(pollFds) + 1] = e
       /\ Linked(pollFds', clientConnections', serverConnections')
  <2>1. Linked(table, serverConnections, clientConnections')
    <3>1. SamePlaces(serverConnections, serverConnections)
      BY DEF SamePlaces
    <3>2. Linked(pollFds, clientConnections, serverConnections) /\ Len(pollFds) \in Nat
      BY TableFacts DEF IInv
    <3>3. Linked(table, clientConnections', serverConnections)
      BY <1>10, <1>11, <3>1, <3>2, LinkedStays
    <3>4. QED
      BY <3>3, LinkedSwaps
  <2>2. /\ serverConnections \in Seq(Conns(Urls))
        /\ clientConnections' \in Seq(Conns(Urls \cup {NoUrl}))
    BY <1>11 DEF IInv, Types, ClientConns, ServerConns
  <2>3. /\ \A q \in 1..Len(table) : table[q].fd # e.fd
        /\ conn.socketFd = e.fd /\ conn.pollFdsIndex = Len(table) + 1
    BY <1>6, <1>8, <1>9, <1>10 DEF SameFds
  <2> DEFINE t == Append(table, e)
             o == Append(serverConnections, conn)
  <2>4. /\ t \in Seq(Entry) /\ o \in Seq(Conns(Urls))
        /\ Len(t) = Len(table) + 1
        /\ \A q \in 1..Len(table) : t[q] = table[q]
        /\ t[Len(table) + 1] = e
        /\ Linked(t, o, clientConnections')
    <3>1. table \in Seq(Entry) /\ e \in Entry /\ conn \in Conns(Urls)
      BY <1>8, <1>9, <1>10
    <3>2. QED
      BY <2>1, <2>2, <2>3, <3>1, AdditionKeepsLinked
  <2>5. pollFds' = t /\ serverConnections' = o
    BY <1>3
  <2> HIDE DEF t, o
  <2>6. QED
    BY <1>10, <2>4, <2>5, LinkedSwaps DEF ServerConns
<1>14. /\ Len(pollFds) \in Nat
       /\ \A q \in 1..Len(pollFds') : q \in 1..Len(pollFds) \/ q = Len(pollFds) + 1
       /\ \A q \in 1..Len(pollFds) : q \in 1..Len(pollFds')
       /\ Len(pollFds) + 1 \in 1..Len(pollFds')
  BY <1>13, TableFacts
<1>15. Whole' = Whole
  <2>1. /\ DOMAIN cacheReady' = DOMAIN cacheReady \cup {url}
        /\ \A v \in DOMAIN cacheReady : v # url => cacheReady'[v] = cacheReady[v]
    BY <1>3 DEF setNodeReady, Assign
  <2>2. \A v \in Urls : v \in Whole' <=> v \in Whole
    BY <1>3, <1>4, <2>1 DEF Whole, cacheNodeReady, nodeData, contains
  <2>3. QED
    BY <2>2 DEF Whole
<1>16. Watched(pollFds', clientConnections', Whole')
  <2>1. url \notin Whole
    BY <1>3 DEF Whole, nodeData
  <2>2. QED
    BY <1>5, <1>7, <1>10, <1>11, <1>12, <1>13, <1>15, <2>1 DEF IInv, Watched
<1>17. Heard(pollFds', clientConnections', DOMAIN errors')
  <2> SUFFICES ASSUME NEW g \in DOMAIN errors
               PROVE  \E i \in 1..Len(clientConnections') :
                        /\ clientConnections'[i].socketFd = g
                        /\ pollFds'[clientConnections'[i].pollFdsIndex].events = "OUT"
    BY <1>4 DEF Heard
  <2>1. PICK i \in 1..Len(clientConnections) :
            /\ clientConnections[i].socketFd = g
            /\ pollFds[clientConnections[i].pollFdsIndex].events = "OUT"
    BY DEF IInv, Heard
  <2>2. \A q \in 1..Len(pollFds) : pollFds'[q].events = pollFds[q].events
    BY <1>7, <1>10, <1>13
  <2>3. QED
    BY <1>12, <2>1, <2>2
<1>18. Known(clientConnections', backlog', request')
  <2>1. Known(clientConnections, backlog, request)
    BY DEF IInv
  <2>2. QED
    BY <1>4, <1>12, <2>1 DEF Known
<1>19. /\ FdsOf(clientConnections') = FdsOf(clientConnections)
       /\ BuffersOf(clientConnections') = BuffersOf(clientConnections)
  BY <1>12 DEF FdsOf, BuffersOf
<1>20. DOMAIN cacheOffsets' = FdsOf(clientConnections') /\ DOMAIN heap' = BuffersOf(clientConnections')
  BY <1>2, <1>3, <1>4, <1>19 DEF IInv
<1>21. /\ DOMAIN sock' = DOMAIN sock \cup {fd} /\ sock'[fd] = ServerSocket(f)
       /\ \A g \in DOMAIN sock :
            /\ sock'[g] \in Socket
            /\ sock'[g].peer = sock[g].peer /\ sock'[g].fetch = sock[g].fetch
  <2>1. Alike(Received(client.socketFd, n), sock)
    BY ReceivingKeepsSockets
  <2>2. QED
    BY <1>3, <1>6, <2>1 DEF Alike, Assign
<1>22. f \in Nat /\ f > 0
  BY LenProperties DEF IInv, Types
<1>23. ServerSocket(f) \in Socket /\ ServerSocket(f).fetch = f
  BY <1>22, ServerSocketTyped
<1>24. Types'
  <2>1. DOMAIN sock' \subseteq Descriptors /\ \A g \in DOMAIN sock' : sock'[g] \in Socket
    BY <1>6, <1>21, <1>23 DEF IInv, Types
  <2>2. DOMAIN heap' \subseteq Clients /\ CacheTyped'
    BY <1>3, <1>4, <1>5 DEF IInv, Types, CacheTyped, setNodeReady, Assign
  <2>3. fetched' \in Seq(Urls)
    BY <1>3, <1>5, AppendProperties DEF IInv, Types
  <2>4. it' \in Nat \ {0}
    BY <1>3 DEF IInv, Types
  <2>5. QED
    BY <1>4, <1>11, <1>13, <2>1, <2>2, <2>3, <2>4 DEF IInv, Types
<1>25. Open(pollFds', clientConnections', sock')
  <2>1. \A g \in Descriptors : Owned(sock', g) <=> Owned(sock, g) \/ g = fd
    BY <1>6, <1>21, <1>22, <1>23 DEF Owned
  <2>2. \A q \in 1..Len(pollFds) : pollFds'[q].fd = pollFds[q].fd
    BY <1>10, <1>13 DEF SameFds
  <2>3. \A g : (\E q \in 1..Len(pollFds') : pollFds'[q].fd = g)
                    <=> (\E q \in 1..Len(pollFds) : pollFds[q].fd = g) \/ g = fd
    BY <1>8, <1>13, <1>14, <2>2
  <2>4. \A i \in 1..Len(clientConnections) : clientConnections[i].socketFd \in DOMAIN sock
    BY <1>2, TableFacts DEF IInv, Open, Owned, ClientConns, Conns, ConnectionsOf
  <2>5. \A i \in 1..Len(clientConnections') :
            sock'[clientConnections'[i].socketFd].peer = clientConnections'[i].buffer
    BY SMTT(20), <1>2, <1>12, <1>21, <2>4 DEF IInv, Open
  <2>6. \A g \in Descriptors : Owned(sock, g) <=> \E q \in 1..Len(pollFds) : pollFds[q].fd = g
    BY <1>2 DEF IInv, Open
  <2>7. QED
    BY <2>1, <2>3, <2>5, <2>6 DEF Open
<1>26. QED
  BY <1>4, <1>13, <1>16, <1>17, <1>18, <1>20, <1>24, <1>25 DEF IInv

\* How many units a send of some result puts on the wire.
LEMMA SentLength ==
  ASSUME NEW node, NEW offset \in Int, NEW n \in Int
  PROVE  Len(SentUnits(node, offset, n)) \in Nat
<1>1. CASE n >= 0
  BY <1>1 DEF SentUnits
<1>2. CASE n < 0
  <2>1. 1..n = {}
    BY <1>2
  <2>2. SentUnits(node, offset, n) =
            [i \in 1..0 |-> IF offset + i \in DOMAIN node THEN node[offset + i] ELSE Junk]
    BY <2>1 DEF SentUnits
  <2>3. QED
    BY <2>2
<1>3. QED
  BY <1>1, <1>2

\* A send() keeps the invariant, whether the client stays or goes.
LEMMA ClientServedStep == ASSUME IInv, ClientServed PROVE IInv'
<1> DEFINE fd == client.socketFd
           p == client.pollFdsIndex
           node == nodeData(client.URl)
           ready == cacheNodeReady(client.URl)
           old == cacheOffsets[fd]
<1>1. /\ ClientTurn /\ "OUT" \in reventsOf(client) /\ fd \notin DOMAIN errors
      /\ getCurrentData(client.URl)
  BY DEF ClientServed, ClientWritable
<1>2. UNCHANGED <<backlog, request, cacheReady, pc, isInterrupted, fetched>>
  BY DEF ClientServed, turnVars
<1>3. /\ Running /\ it \in 1..Len(clientConnections) /\ fd \in Descriptors
      /\ p \in 1..Len(pollFds) /\ pollFds[p] \in Entry /\ pollFds \in Seq(Entry)
      /\ client.URl \in Urls /\ fd \in DOMAIN sock /\ sock[fd] \in Socket
      /\ pollFds[p].fd = fd
  BY <1>1, ClientAtTurn, TableFacts DEF IInv, Types, ClientConns, Conns, ConnectionsOf
<1>4. Whole' = Whole /\ CacheTyped'
  BY <1>1, <1>2, <1>3, LookupKeepsWhole DEF IInv, Types
<1>5. Len(node) \in Nat
  <2>1. node \in Seq(Units)
    BY <1>3 DEF nodeData, contains, IInv, Types, CacheTyped
  <2>2. QED
    BY <2>1, LenProperties
<1>6. fd \in DOMAIN cacheOffsets /\ old \in Int
  BY <1>3 DEF IInv, Types, FdsOf, client
<1>7. PICK n \in SendResults(fd, Len(node) - old) :
        LET sockets == [sock EXCEPT ![fd].txq = @ + Len(SentUnits(node, old, n))]
        IN  \/ /\ allDataHasBeenSent(ready, old + n, node)
               /\ removeClientConnection(it, sockets, "complete")
            \/ /\ ~allDataHasBeenSent(ready, old + n, node)
               /\ cacheOffsets' = [cacheOffsets EXCEPT ![fd] = old + n]
               /\ sock' = sockets
               /\ pollFds' = [pollFds EXCEPT ![p].events =
                                IF ~ready \/ old + n = Len(node) THEN "IN" ELSE @]
               /\ it' = it + 1
               /\ UNCHANGED <<clientConnections, serverConnections, errors, heap, outcome>>
  BY DEF ClientServed
<1>8. n \in Int
  BY <1>3, <1>5, <1>6, NetworkAssumption DEF SendResults, SmallerOf, Socket
<1> DEFINE sockets == [sock EXCEPT ![fd].txq = @ + Len(SentUnits(node, old, n))]
           e == [pollFds[p] EXCEPT !.events = IF ~ready \/ old + n = Len(node) THEN "IN" ELSE @]
<1>9. Alike(sockets, sock)
  <2> DEFINE k == Len(SentUnits(node, old, n))
             base == sock[fd]
             one == [base EXCEPT !.txq = base.txq + k]
  <2>1. k \in Nat /\ base \in Socket
    BY <1>3, <1>6, <1>8, SentLength
  <2> HIDE DEF k, base
  <2>2. one \in Socket /\ one.peer = base.peer /\ one.fetch = base.fetch
    BY <2>1 DEF Socket
  <2> HIDE DEF one
  <2>3. sockets = [sock EXCEPT ![fd] = one] /\ base = sock[fd]
    BY <1>3 DEF one, k, base
  <2>4. \A f \in DOMAIN sock : sock[f] \in Socket
    BY DEF IInv, Types
  <2> HIDE DEF sockets
  <2>5. QED
    BY <1>3, <2>2, <2>3, <2>4 DEF Alike
<1> HIDE DEF sockets
<1>10. CASE /\ allDataHasBeenSent(ready, old + n, node)
            /\ removeClientConnection(it, sockets, "complete")
  <2>1. Grown(sockets, sock)
    BY <1>9, AlikeIsGrown
  <2>2. "complete" \in Outcomes
    BY DEF Outcomes
  <2>3. QED
    BY <1>2, <1>3, <1>4, <1>10, <2>1, <2>2, ClientRemoved
<1>11. CASE /\ ~allDataHasBeenSent(ready, old + n, node)
            /\ cacheOffsets' = [cacheOffsets EXCEPT ![fd] = old + n]
            /\ sock' = sockets
            /\ pollFds' = [pollFds EXCEPT ![p].events =
                                IF ~ready \/ old + n = Len(node) THEN "IN" ELSE @]
            /\ it' = it + 1
            /\ UNCHANGED <<clientConnections, serverConnections, errors, heap, outcome>>
  <2>1. e \in Entry /\ e.fd = pollFds[p].fd /\ e.revents = pollFds[p].revents
    BY <1>3 DEF Entry, Events
  <2>2. ready => e.events = pollFds[p].events
    BY <1>3, <1>11 DEF allDataHasBeenSent, Entry
  <2>3. pollFds' = [pollFds EXCEPT ![p] = e]
    BY <1>3, <1>11, TableFacts
  <2> HIDE DEF e
  <2>4. /\ pollFds' \in Seq(Entry) /\ SameFds(pollFds', pollFds) /\ pollFds'[p] = e
        /\ \A q \in 1..Len(pollFds) : q # p => pollFds'[q] = pollFds[q]
    <3> DEFINE t == [pollFds EXCEPT ![p] = e]
    <3>1. /\ t \in Seq(Entry) /\ SameFds(t, pollFds) /\ t[p] = e
          /\ \A q \in 1..Len(pollFds) : q # p => t[q] = pollFds[q]
      BY <1>3, <2>1, EditedTable
    <3>2. QED
      BY <2>3, <3>1
  <2>5. /\ DOMAIN cacheOffsets' = DOMAIN cacheOffsets
        /\ \A f \in DOMAIN cacheOffsets' : cacheOffsets'[f] \in Int
    BY <1>6, <1>8, <1>11 DEF IInv, Types
  <2>6. \A i \in 1..Len(clientConnections) :
            /\ clientConnections[i].pollFdsIndex \in 1..Len(pollFds)
            /\ clientConnections[i].pollFdsIndex = p => i = it
    BY <1>3, TableFacts DEF IInv, Linked, Apart, client
  <2>7. Types'
    BY <1>2, <1>4, <1>9, <1>11, <2>4, <2>5, AlikeIsTyped DEF IInv, Types
  <2>8. Watched(pollFds', clientConnections', Whole')
    <3>1. Watched(pollFds, clientConnections, Whole)
      BY DEF IInv
    <3>2. client.URl \in Whole => ready
      BY DEF Whole
    <3>3. client.URl # NoUrl
      BY <1>3, NetworkAssumption
    <3> SUFFICES ASSUME NEW i \in 1..Len(clientConnections)
                 PROVE  LET c == clientConnections[i]
                            entry == pollFds'[c.pollFdsIndex]
                        IN  /\ c.URl = NoUrl => entry.events = "IN" /\ "OUT" \notin entry.revents
                            /\ c.URl \in Whole => entry.events = "OUT"
      BY <1>4, <1>11 DEF Watched
    <3>4. CASE i = it
      BY <1>3, <2>2, <2>4, <3>1, <3>2, <3>3, <3>4 DEF Watched, client
    <3>5. CASE i # it
      BY <2>4, <2>6, <3>1, <3>5 DEF Watched
    <3>6. QED
      BY <3>4, <3>5
  <2>9. Heard(pollFds', clientConnections', DOMAIN errors')
    <3> SUFFICES ASSUME NEW f \in DOMAIN errors
                 PROVE  \E i \in 1..Len(clientConnections) :
                            /\ clientConnections[i].socketFd = f
                            /\ pollFds'[clientConnections[i].pollFdsIndex].events = "OUT"
      BY <1>11 DEF Heard
    <3>1. PICK i \in 1..Len(clientConnections) :
                /\ clientConnections[i].socketFd = f
                /\ pollFds[clientConnections[i].pollFdsIndex].events = "OUT"
      BY DEF IInv, Heard
    <3>2. i # it
      BY <1>1, <3>1 DEF client
    <3>3. QED
      BY <2>4, <2>6, <3>1, <3>2
  <2>10. /\ SamePlaces(clientConnections', clientConnections)
         /\ SamePlaces(serverConnections', serverConnections)
    BY <1>11 DEF SamePlaces
  <2>11. pc' = "accept" => backlog # <<>>
    BY <1>2 DEF IInv
  <2>12. QED
    BY <1>2, <1>3, <1>9, <1>11, <2>4, <2>5, <2>7, <2>8, <2>9, <2>10, <2>11, NothingMoves
<1>12. QED
  BY <1>7, <1>10, <1>11 DEF sockets

-----------------------------------------------------------------------------
(***************************************************************************)
(* checkServerConnections.  prepareClientsToWrite(url) has the loop watch  *)
(* the clients of url for output, so that url may be whole from then on    *)
(* and errors may be recorded for them.                                    *)
(***************************************************************************)
Told(url) == {clientConnections[i].socketFd : i \in ClientsOf(url)}

\* prepareClientsToWrite has every client of the URL watched for output.
LEMMA PreparingWatches ==
  ASSUME IInv, NEW url \in Urls
  PROVE  /\ prepareClientsToWrite(url) \in Seq(Entry)
         /\ SameFds(prepareClientsToWrite(url), pollFds)
         /\ Watched(prepareClientsToWrite(url), clientConnections, Whole \cup {url})
         /\ Heard(prepareClientsToWrite(url), clientConnections, DOMAIN errors \cup Told(url))
<1> DEFINE t == prepareClientsToWrite(url)
           Woken(p) == \E i \in ClientsOf(url) : clientConnections[i].pollFdsIndex = p
           woken(p) == [pollFds[p] EXCEPT !.events = "OUT"]
<1>1. /\ Len(pollFds) \in Nat /\ DOMAIN pollFds = 1..Len(pollFds)
      /\ \A p \in 1..Len(pollFds) : pollFds[p] \in Entry
      /\ DOMAIN clientConnections = 1..Len(clientConnections)
      /\ url # NoUrl
  BY TableFacts, NetworkAssumption
<1>2. \A p \in 1..Len(pollFds) :
        /\ woken(p) \in Entry /\ woken(p).fd = pollFds[p].fd
        /\ woken(p).events = "OUT" /\ woken(p).revents = pollFds[p].revents
  BY <1>1 DEF Entry, Events
<1>3. t = [p \in 1..Len(pollFds) |-> IF Woken(p) THEN woken(p) ELSE pollFds[p]]
  BY <1>1 DEF prepareClientsToWrite
<1> HIDE DEF t, Woken, woken
<1>4. t \in Seq(Entry) /\ Len(t) = Len(pollFds)
  BY <1>1, <1>2, <1>3
<1>5. \A p \in 1..Len(pollFds) :
        /\ t[p].fd = pollFds[p].fd /\ t[p].revents = pollFds[p].revents
        /\ Woken(p) => t[p].events = "OUT"
        /\ ~Woken(p) => t[p].events = pollFds[p].events
        /\ pollFds[p].events = "OUT" => t[p].events = "OUT"
  BY <1>2, <1>3
<1>6. \A i \in 1..Len(clientConnections) :
        /\ clientConnections[i].pollFdsIndex \in 1..Len(pollFds)
        /\ Woken(clientConnections[i].pollFdsIndex) <=> clientConnections[i].URl = url
  BY <1>1, TableFacts DEF Woken, ClientsOf, IInv, Linked, Apart
<1>7. Watched(t, clientConnections, Whole \cup {url})
  <2>1. Watched(pollFds, clientConnections, Whole)
    BY DEF IInv
  <2>2. QED
    BY <1>1, <1>5, <1>6, <2>1 DEF Watched
<1>8. Heard(t, clientConnections, DOMAIN errors \cup Told(url))
  <2> SUFFICES ASSUME NEW f \in DOMAIN errors \cup Told(url)
               PROVE  \E i \in 1..Len(clientConnections) :
                        /\ clientConnections[i].socketFd = f
                        /\ t[clientConnections[i].pollFdsIndex].events = "OUT"
    BY DEF Heard
  <2>1. CASE f \in DOMAIN errors
    <3>1. PICK i \in 1..Len(clientConnections) :
                /\ clientConnections[i].socketFd = f
                /\ pollFds[clientConnections[i].pollFdsIndex].events = "OUT"
      BY <2>1 DEF IInv, Heard
    <3>2. QED
      BY <1>5, <1>6, <3>1
  <2>2. CASE f \in Told(url)
    <3>1. PICK i \in 1..Len(clientConnections) :
                clientConnections[i].socketFd = f /\ clientConnections[i].URl = url
      BY <1>1, <2>2 DEF Told, ClientsOf
    <3>2. QED
      BY <1>5, <1>6, <3>1
  <2>3. QED
    BY <2>1, <2>2
<1>9. QED
  BY <1>4, <1>5, <1>7, <1>8 DEF SameFds, t

\* The turns of a fetch that change no vector keep the invariant.
LEMMA ServerIdleSteps == ASSUME IInv, ServerIdle \/ ServerReadsFreedBuffer PROVE IInv'
<1>1. Running
  BY DEF ServerIdle, ServerReadsFreedBuffer, ServerWritable, ServerTurn, Running
<1>2. /\ UNCHANGED <<tableVars, cacheVars, errors, cacheOffsets, backlog, request, outcome, fetched>>
      /\ isInterrupted' = isInterrupted /\ sock' = sock /\ heap' = heap
      /\ pc' \in {pc, "crashed"} /\ it' \in {it, it + 1}
  BY DEF ServerIdle, ServerReadsFreedBuffer, netVars, turnVars, fdVars, histVars
<1>3. Alike(sock', sock)
  BY <1>2 DEF Alike, IInv, Types
<1>4. pc' \in Clock /\ it' \in Nat \ {0} /\ isInterrupted' \in BOOLEAN
  BY <1>2 DEF IInv, Types, Clock
<1>5. pc' = "accept" => backlog # <<>>
  BY <1>2 DEF IInv
<1>6. QED
  BY <1>1, <1>2, <1>3, <1>4, <1>5, NothingTouched

\* A fetch that is dropped without a word.
LEMMA ServerHungUpStep == ASSUME IInv, ServerHungUp PROVE IInv'
<1>1. ServerTurn /\ removeServerConnection(it, pollFds)
  BY DEF ServerHungUp
<1>2. UNCHANGED <<backlog, request, outcome, heap, cacheOffsets, errors, fetched, pc,
                  isInterrupted, cacheMap, cacheReady>>
  BY DEF ServerHungUp, peerVars, cacheVars, turnVars, fdVars, histVars
<1>3. /\ pollFds \in Seq(Entry) /\ SameFds(pollFds, pollFds)
      /\ Watched(pollFds, clientConnections, Whole')
      /\ Heard(pollFds, clientConnections, DOMAIN errors')
      /\ DOMAIN errors' \subseteq Descriptors /\ CacheTyped'
  BY <1>2, WholeStays, CacheTypedStays DEF IInv, Types, SameFds
<1>4. QED
  BY <1>1, <1>2, <1>3, ServerAtTurn, ServerRemoved

\* A fetch that fails: its clients are told, and it goes.
LEMMA ServerFailsStep ==
  ASSUME IInv, ServerReceivesBadStatus \/ ServerReceiveFails \/ ServerSendFails
  PROVE  IInv'
<1>1. ServerTurn
  BY DEF ServerReceivesBadStatus, ServerReceiveFails, ServerSendFails, ServerReadable, ServerWritable
<1>2. PICK message : ServerFails(message)
  BY DEF ServerReceivesBadStatus, ServerReceiveFails, ServerSendFails
<1> DEFINE t == prepareClientsToWrite(server.URl)
<1>3. /\ UNCHANGED <<backlog, request, outcome, heap, cacheOffsets, fetched, pc,
                     isInterrupted, cacheMap, cacheReady>>
      /\ removeServerConnection(it, t)
  BY <1>2 DEF ServerFails, peerVars, cacheVars, turnVars, histVars
<1>4. DOMAIN errors' = DOMAIN errors \cup Told(server.URl)
  BY <1>2 DEF ServerFails, notifyClientsAboutError, Told
<1>5. /\ it \in 1..Len(serverConnections) /\ server.URl \in Urls /\ Running
  BY <1>1, ServerAtTurn
<1>6. /\ t \in Seq(Entry) /\ SameFds(t, pollFds)
      /\ Watched(t, clientConnections, Whole \cup {server.URl})
      /\ Heard(t, clientConnections, DOMAIN errors')
  BY <1>4, <1>5, PreparingWatches
<1> HIDE DEF t
<1>7. Whole' = Whole /\ CacheTyped'
  BY <1>3, WholeStays, CacheTypedStays DEF IInv, Types
<1>8. Watched(t, clientConnections, Whole')
  BY <1>6, <1>7 DEF Watched
<1>9. DOMAIN errors' \subseteq Descriptors
  <2>1. \A i \in 1..Len(clientConnections) : clientConnections[i].socketFd \in Descriptors
    BY TableFacts DEF ClientConns, Conns, ConnectionsOf
  <2>2. Told(server.URl) \subseteq Descriptors
    BY <2>1, TableFacts DEF Told, ClientsOf
  <2>3. QED
    BY <1>4, <2>2 DEF IInv, Types
<1>10. QED
  BY <1>3, <1>5, <1>6, <1>7, <1>8, <1>9, ServerRemoved

\* The end of a fetch: the page is there, and its clients are woken for it.
LEMMA ServerReceivesEndStep == ASSUME IInv, ServerReceivesEnd PROVE IInv'
<1> DEFINE t == prepareClientsToWrite(server.URl)
<1>1. ServerTurn /\ setNodeReady(server.URl, TRUE) /\ removeServerConnection(it, t)
  BY DEF ServerReceivesEnd, ServerReadable
<1>2. UNCHANGED <<backlog, request, outcome, heap, cacheOffsets, errors, fetched, pc,
                  isInterrupted, cacheMap>>
  BY DEF ServerReceivesEnd, peerVars, turnVars, fdVars, histVars
<1>3. /\ it \in 1..Len(serverConnections) /\ server.URl \in Urls /\ Running
  BY <1>1, ServerAtTurn
<1>4. /\ t \in Seq(Entry) /\ SameFds(t, pollFds)
      /\ Watched(t, clientConnections, Whole \cup {server.URl})
      /\ Heard(t, clientConnections, DOMAIN errors \cup Told(server.URl))
  BY <1>3, PreparingWatches
<1> HIDE DEF t
<1>5. /\ DOMAIN cacheReady' = DOMAIN cacheReady \cup {server.URl}
      /\ \A v \in DOMAIN cacheReady : v # server.URl => cacheReady'[v] = cacheReady[v]
  BY <1>1 DEF setNodeReady, Assign
<1>6. CacheTyped'
  BY <1>2, <1>3, <1>5 DEF IInv, Types, CacheTyped
<1>7. Whole' \subseteq Whole \cup {server.URl}
  BY <1>2, <1>5 DEF Whole, cacheNodeReady, nodeData, contains
<1>8. /\ Watched(t, clientConnections, Whole') /\ Heard(t, clientConnections, DOMAIN errors')
  BY <1>2, <1>4, <1>7 DEF Watched, Heard
<1>9. DOMAIN errors' \subseteq Descriptors
  BY <1>2 DEF IInv, Types
<1>10. QED
  BY <1>1, <1>2, <1>3, <1>4, <1>6, <1>8, <1>9, ServerRemoved

\* Data of a fetch goes into its node.
LEMMA DataIsTyped ==
  ASSUME IInv, NEW url \in Urls, NEW fd \in DOMAIN sock, NEW n \in Nat,
         addData(url, ReceivedUnits(fd, n)), cacheReady' = cacheReady
  PROVE  /\ CacheTyped' /\ Whole' \subseteq Whole \cup {url}
         /\ DOMAIN cacheMap' = DOMAIN cacheMap \cup {url}
         /\ \A v \in DOMAIN cacheMap : v # url => cacheMap'[v] = cacheMap[v]
<1>1. /\ DOMAIN cacheMap' = DOMAIN cacheMap \cup {url}
      /\ \A v \in DOMAIN cacheMap : v # url => cacheMap'[v] = cacheMap[v]
      /\ cacheMap'[url] = nodeData(url) \o ReceivedUnits(fd, n)
  BY DEF addData, Assign
<1>2. nodeData(url) \in Seq(Units)
  BY DEF nodeData, contains, IInv, Types, CacheTyped
<1>3. ReceivedUnits(fd, n) \in Seq(Units)
  <2>1. sock[fd] \in Socket
    BY DEF IInv, Types
  <2>2. /\ sock[fd].fetch \in Nat /\ sock[fd].next \in Int
        /\ sock[fd].req \in Urls \cup {Malformed, NoUrl}
    BY <2>1 DEF Socket
  <2>3. \A i \in 1..n : Unit(sock[fd].fetch, sock[fd].req, sock[fd].next + i) \in Units
    BY <2>2 DEF Unit, Units
  <2>4. QED
    BY <2>3 DEF ReceivedUnits
<1>4. nodeData(url) \o ReceivedUnits(fd, n) \in Seq(Units)
  BY <1>2, <1>3, ConcatProperties
<1>5. CacheTyped'
  BY <1>1, <1>4 DEF IInv, Types, CacheTyped
<1>6. Whole' \subseteq Whole \cup {url}
  BY <1>1 DEF Whole, cacheNodeReady, nodeData, contains
<1>7. QED
  BY <1>1, <1>5, <1>6

\* Storing a chunk keeps the invariant.
LEMMA ServerReceivesDataStep == ASSUME IInv, ServerReceivesData PROVE IInv'
<1> DEFINE url == server.URl
           t == prepareClientsToWrite(url)
           p == server.pollFdsIndex
           e == [t[p] EXCEPT !.revents = {}]
<1>1. ServerTurn
  BY DEF ServerReceivesData, ServerReadable
<1>2. PICK n \in 1..BUF_SIZE :
        /\ addData(url, ReceivedUnits(server.socketFd, n))
        /\ sock' = Received(server.socketFd, n)
        /\ pollFds' = [t EXCEPT ![p].revents = {}]
        /\ it' = it + 1
  BY DEF ServerReceivesData
<1>3. UNCHANGED <<backlog, request, outcome, cacheReady, pc, isInterrupted, clientConnections,
                  serverConnections, cacheOffsets, errors, heap, fetched>>
  BY DEF ServerReceivesData, peerVars, turnVars, fdVars, histVars
<1>4. /\ Running /\ it \in 1..Len(serverConnections) /\ url \in Urls /\ p \in 1..Len(pollFds)
      /\ server.socketFd \in DOMAIN sock
      /\ \A i \in 1..Len(clientConnections) : clientConnections[i].pollFdsIndex # p
  BY <1>1, ServerAtTurn
<1>5. n \in Nat
  BY NetworkAssumption
<1>6. CacheTyped' /\ Whole' \subseteq Whole \cup {url}
  BY <1>2, <1>3, <1>4, <1>5, DataIsTyped
<1>7. /\ t \in Seq(Entry) /\ SameFds(t, pollFds)
      /\ Watched(t, clientConnections, Whole \cup {url})
      /\ Heard(t, clientConnections, DOMAIN errors \cup Told(url))
  BY <1>4, PreparingWatches
<1> HIDE DEF t, url
<1>8. p \in 1..Len(t) /\ t[p] \in Entry
  BY <1>4, <1>7, ElementOfSeq DEF SameFds
<1>9. e \in Entry /\ e.fd = t[p].fd
  BY <1>8 DEF Entry
<1>10. pollFds' = [t EXCEPT ![p] = e]
  BY <1>2, <1>7, <1>8, LenProperties
<1> HIDE DEF e
<1>11. /\ pollFds' \in Seq(Entry) /\ SameFds(pollFds', t)
       /\ \A q \in 1..Len(t) : q # p => pollFds'[q] = t[q]
  <2> DEFINE u == [t EXCEPT ![p] = e]
  <2>1. /\ u \in Seq(Entry) /\ SameFds(u, t)
        /\ \A q \in 1..Len(t) : q # p => u[q] = t[q]
    BY <1>7, <1>8, <1>9, EditedTable
  <2>2. QED
    BY <1>10, <2>1
<1>12. SameFds(pollFds', pollFds)
  BY <1>7, <1>11 DEF SameFds
<1>13. \A i \in 1..Len(clientConnections) :
         pollFds'[clientConnections[i].pollFdsIndex] = t[clientConnections[i].pollFdsIndex]
  <2>1. Len(t) = Len(pollFds)
    BY <1>7 DEF SameFds
  <2>2. QED
    BY <1>4, <1>11, <2>1, TableFacts
<1>14. /\ Watched(pollFds', clientConnections', Whole')
       /\ Heard(pollFds', clientConnections', DOMAIN errors')
  BY <1>3, <1>6, <1>7, <1>13 DEF Watched, Heard
<1>15. Alike(sock', sock)
  BY <1>2, <1>5, ReceivingKeepsSockets
<1>16. Types'
  BY <1>2, <1>3, <1>6, <1>11, <1>15, AlikeIsTyped DEF IInv, Types
<1>17. /\ SamePlaces(clientConnections', clientConnections)
       /\ SamePlaces(serverConnections', serverConnections)
  BY <1>3 DEF SamePlaces
<1>18. pc' = "accept" => backlog # <<>>
  BY <1>3 DEF IInv
<1>19. QED
  BY <1>3, <1>4, <1>12, <1>14, <1>15, <1>16, <1>17, <1>18, NothingMoves

\* Sending the request of a fetch keeps the invariant.
LEMMA ServerSendsRequestStep == ASSUME IInv, ServerSendsRequest PROVE IInv'
<1> DEFINE fd == server.socketFd
           p == server.pollFdsIndex
           e == [pollFds[p] EXCEPT !.events = "IN", !.revents = {}]
<1>1. ServerTurn
  BY DEF ServerSendsRequest, ServerWritable
<1>2. /\ Running /\ it \in 1..Len(serverConnections) /\ p \in 1..Len(pollFds)
      /\ fd \in DOMAIN sock /\ server.URl \in Urls
      /\ \A i \in 1..Len(clientConnections) : clientConnections[i].pollFdsIndex # p
      /\ pollFds[p] \in Entry /\ pollFds \in Seq(Entry)
  BY <1>1, ServerAtTurn, TableFacts DEF IInv, Types
<1>3. PICK r \in RequestsSent(server) :
        /\ sock' = [sock EXCEPT ![fd].req = r]
        /\ pollFds' = [pollFds EXCEPT ![p].events = "IN", ![p].revents = {}]
        /\ it' = it + 1
  BY DEF ServerSendsRequest
<1>4. UNCHANGED <<backlog, request, outcome, cacheMap, cacheReady, pc, isInterrupted,
                  clientConnections, serverConnections, cacheOffsets, errors, heap, fetched>>
  BY DEF ServerSendsRequest, peerVars, cacheVars, turnVars, fdVars, histVars
<1>5. r \in Urls \cup {Malformed, NoUrl}
  BY <1>2 DEF RequestsSent
<1>6. Alike(sock', sock)
  <2>1. \A f \in DOMAIN sock : sock[f] \in Socket
    BY DEF IInv, Types
  <2>2. QED
    BY <1>2, <1>3, <1>5, <2>1 DEF Alike, Socket
<1>7. e \in Entry /\ e.fd = pollFds[p].fd
  BY <1>2 DEF Entry, Events
<1>8. pollFds' = [pollFds EXCEPT ![p] = e]
  BY <1>2, <1>3, TableFacts
<1> HIDE DEF e, p
<1>9. /\ pollFds' \in Seq(Entry) /\ SameFds(pollFds', pollFds)
      /\ \A q \in 1..Len(pollFds) : q # p => pollFds'[q] = pollFds[q]
  <2> DEFINE u == [pollFds EXCEPT ![p] = e]
  <2>1. /\ u \in Seq(Entry) /\ SameFds(u, pollFds)
        /\ \A q \in 1..Len(pollFds) : q # p => u[q] = pollFds[q]
    BY <1>2, <1>7, EditedTable
  <2>2. QED
    BY <1>8, <2>1
<1>10. \A i \in 1..Len(clientConnections) :
         pollFds'[clientConnections[i].pollFdsIndex] = pollFds[clientConnections[i].pollFdsIndex]
  BY <1>2, <1>9, TableFacts
<1>11. /\ Watched(pollFds', clientConnections', Whole')
       /\ Heard(pollFds', clientConnections', DOMAIN errors')
  <2>1. Watched(pollFds, clientConnections, Whole) /\ Heard(pollFds, clientConnections, DOMAIN errors)
    BY DEF IInv
  <2>2. Whole' = Whole /\ clientConnections' = clientConnections /\ errors' = errors
    BY <1>4, WholeStays
  <2>3. Watched(pollFds', clientConnections, Whole)
    BY <1>10, <2>1 DEF Watched
  <2>4. Heard(pollFds', clientConnections, DOMAIN errors)
    BY <1>10, <2>1 DEF Heard
  <2>5. QED
    BY <2>2, <2>3, <2>4
<1>12. Types'
  <2>1. it' \in Nat \ {0}
    BY <1>3 DEF IInv, Types
  <2>2. DOMAIN sock' \subseteq Descriptors /\ \A f \in DOMAIN sock' : sock'[f] \in Socket
    BY <1>6, AlikeIsTyped
  <2>3. CacheTyped'
    BY <1>4, CacheTypedStays DEF IInv, Types
  <2>4. QED
    BY <1>4, <1>9, <2>1, <2>2, <2>3 DEF IInv, Types
<1>13. /\ SamePlaces(clientConnections', clientConnections)
       /\ SamePlaces(serverConnections', serverConnections)
  BY <1>4 DEF SamePlaces
<1>14. pc' = "accept" => backlog # <<>>
  BY <1>4 DEF IInv
<1>15. QED
  BY <1>2, <1>4, <1>6, <1>9, <1>11, <1>12, <1>13, <1>14, NothingMoves

-----------------------------------------------------------------------------
(***************************************************************************)
(* The end of a round, and signals.                                        *)
(***************************************************************************)
LEMMA StopStep == ASSUME IInv, stop, isInterrupted' \in BOOLEAN PROVE IInv'
<1>1. /\ UNCHANGED <<backlog, request, outcome, cacheMap, cacheReady, it, pollFds, clientConnections,
                     serverConnections, cacheOffsets, errors, fetched>>
      /\ pc' = "exited"
      /\ DOMAIN sock' \subseteq DOMAIN sock /\ \A fd \in DOMAIN sock' : sock'[fd] = sock[fd]
      /\ DOMAIN heap' \subseteq DOMAIN heap
  BY DEF stop, peerVars, cacheVars, tableVars, histVars
<1>2. Types'
  BY <1>1, CacheTypedStays DEF IInv, Types, Clock
<1>3. Watched(pollFds', clientConnections', Whole')
  BY <1>1, WholeStays DEF IInv
<1>4. QED
  BY <1>1, <1>2, <1>3 DEF IInv, Running

\* So does the end of a round.
LEMMA RoundDoneStep == ASSUME IInv, RoundDone PROVE IInv'
<1>1. CASE isInterrupted /\ stop /\ UNCHANGED isInterrupted
  BY <1>1, StopStep DEF IInv, Types
<1>2. CASE /\ ~isInterrupted
           /\ pc' = "poll" /\ it' = 1
           /\ UNCHANGED <<netVars, cacheVars, isInterrupted, tableVars, fdVars, histVars>>
  <2>1. Running
    BY DEF RoundDone, Running
  <2>2. Alike(sock', sock)
    BY <1>2 DEF Alike, IInv, Types, netVars
  <2>3. pc' \in Clock /\ it' \in Nat \ {0} /\ isInterrupted' \in BOOLEAN
    BY <1>2 DEF IInv, Types, Clock
  <2>4. QED
    BY <1>2, <2>1, <2>2, <2>3, NothingTouched DEF netVars, fdVars, histVars
<1>3. QED
  BY <1>1, <1>2 DEF RoundDone

\* So does a signal.
LEMMA SignalSteps == ASSUME IInv, Running, Interrupt \/ InterruptPoll PROVE IInv'
<1>1. CASE InterruptPoll
  BY <1>1, StopStep DEF InterruptPoll
<1>2. CASE Interrupt
  <2>1. Alike(sock', sock)
    BY <1>2 DEF Alike, IInv, Types, Interrupt, netVars
  <2>2. pc' \in Clock /\ it' \in Nat \ {0} /\ isInterrupted' \in BOOLEAN
    BY <1>2 DEF IInv, Types, Interrupt, loopVars
  <2>3. pc' = "accept" => backlog # <<>>
    BY <1>2 DEF IInv, Interrupt, loopVars
  <2>4. QED
    BY <1>2, <2>1, <2>2, <2>3, NothingTouched DEF Interrupt, netVars, fdVars, histVars
<1>3. QED
  BY <1>1, <1>2

\* Every step keeps the invariant.
LEMMA StepIInv == IInv /\ [Next]_vars => IInv'
<1> SUFFICES ASSUME IInv, [Next]_vars PROVE IInv'
  OBVIOUS
<1>1. CASE Poll
  BY <1>1, PollStep
<1>2. CASE addNewConnection
  BY <1>2, AcceptStep
<1>3. CASE checkClientsConnections
  BY <1>3, ClientIdleSteps, ClientLeavesStep, ClientServedStep, ClientAsksForCachedStep,
     ClientStartsFetchStep, ClientFetchFailsStep DEF checkClientsConnections
<1>4. CASE checkServerConnections
  BY <1>4, ServerIdleSteps, ServerHungUpStep, ServerReceivesDataStep, ServerFailsStep,
     ServerReceivesEndStep, ServerSendsRequestStep, RoundDoneStep DEF checkServerConnections
<1>5. CASE Outside
  BY <1>5, OutsideStep
<1>6. CASE Running /\ (Interrupt \/ InterruptPoll)
  BY <1>6, SignalSteps
<1>7. CASE UNCHANGED vars
  <2>1. UNCHANGED <<sock, backlog, request, outcome, cacheMap, cacheReady, pc, it, isInterrupted,
                    pollFds, clientConnections, serverConnections, cacheOffsets, errors, heap, fetched>>
    BY <1>7 DEF vars, netVars, cacheVars, loopVars, tableVars, fdVars, histVars
  <2>2. Types' /\ Whole' = Whole
    BY <2>1, CacheTypedStays, WholeStays DEF IInv, Types
  <2>3. QED
    BY <2>1, <2>2 DEF IInv, Running
<1>8. QED
  BY <1>1, <1>2, <1>3, <1>4, <1>5, <1>6, <1>7 DEF Next, Program

-----------------------------------------------------------------------------
(***************************************************************************)
(* The inductive invariant holds of the loop, and says what the runs check.*)
(***************************************************************************)
THEOREM InvariantHolds == Spec => []IInv
<1>1. IInv /\ [Next]_vars => IInv'
  BY StepIInv
<1>2. QED
  BY <1>1, InitIInv, PTL DEF Spec

(***************************************************************************)
(* Type correctness, for any number of clients, URLs and descriptors, any  *)
(* lengths of requests and responses, and every fault of the surroundings. *)
(***************************************************************************)
THEOREM TypesHold == Spec => []TypeOK
<1>1. IInv => TypeOK
  <2> SUFFICES ASSUME IInv PROVE TypeOK
    OBVIOUS
  <2>1. \A p \in DOMAIN pollFds :
            /\ pollFds[p].events \in {"IN", "OUT"}
            /\ pollFds[p].revents \subseteq {"IN", "OUT", "ERR"}
    BY TableFacts DEF Entry, Events
  <2>2. \A i \in DOMAIN clientConnections :
            /\ clientConnections[i].URl \in Urls \cup {NoUrl}
            /\ clientConnections[i].socketFd \in Descriptors
    BY TableFacts DEF ClientConns, Conns, ConnectionsOf
  <2>3. \A j \in DOMAIN serverConnections : serverConnections[j].URl \in Urls
    BY TableFacts DEF ServerConns, Conns, ConnectionsOf
  <2>4. DOMAIN cacheOffsets \subseteq Descriptors
    BY <2>2, TableFacts DEF IInv, FdsOf
  <2>5. \A c \in Clients : outcome[c] \in {"none", "dropped", "error", "complete"}
    BY DEF IInv, Types, Outcomes
  <2>6. QED
    BY <2>1, <2>2, <2>3, <2>4, <2>5 DEF TypeOK, IInv, Types, CacheTyped
<1>2. QED
  BY <1>1, InvariantHolds, PTL

(***************************************************************************)
(* What is keyed by a descriptor goes with its connection (lines 517-518), *)
(* and every recorded error has somebody it will be told to.               *)
(***************************************************************************)
THEOREM DescriptorsKeyLiveClients == Spec => []KeyedByLiveClients
<1>1. IInv => KeyedByLiveClients
  <2> SUFFICES ASSUME IInv PROVE KeyedByLiveClients
    OBVIOUS
  <2>1. DOMAIN cacheOffsets = ClientFds
    BY TableFacts DEF IInv, FdsOf, ClientFds
  <2>2. Heard(pollFds, clientConnections, DOMAIN errors)
    BY DEF IInv
  <2>3. QED
    BY <2>1, <2>2, TableFacts DEF KeyedByLiveClients, Heard, eventsOf
<1>2. QED
  BY <1>1, InvariantHolds, PTL

(***************************************************************************)
(* No descriptor and no request buffer leaks while the loop runs, but for  *)
(* the sockets of the fetches that initServerConnection gave up.           *)
(***************************************************************************)
THEOREM NothingLeaks == Spec => []NothingElseOpen
<1>1. IInv => NothingElseOpen
  <2> SUFFICES ASSUME IInv, Running
               PROVE  /\ {fd \in DOMAIN sock : sock[fd].peer # Origin \/ sock[fd].fetch > 0} =
                            {pollFds[p].fd : p \in DOMAIN pollFds} \ {listenFd}
                      /\ DOMAIN heap = {clientConnections[i].buffer : i \in DOMAIN clientConnections}
    BY DEF NothingElseOpen
  <2>1. DOMAIN heap = {clientConnections[i].buffer : i \in DOMAIN clientConnections}
    BY TableFacts DEF IInv, BuffersOf
  <2>2. \A fd \in Descriptors : Owned(sock, fd) <=> \E p \in 1..Len(pollFds) : pollFds[p].fd = fd
    BY DEF IInv, Open
  <2>3. /\ DOMAIN sock \subseteq Descriptors /\ listenFd \notin Descriptors
        /\ \A p \in 1..Len(pollFds) : pollFds[p].fd \in Descriptors \cup {listenFd}
    BY TableFacts, NetworkAssumption DEF IInv, Types, Entry, listenFd
  <2>4. QED
    BY <2>1, <2>2, <2>3, TableFacts DEF Owned
<1>2. QED
  BY <1>1, InvariantHolds, PTL

(***************************************************************************)
(* However turns, fetches and faults interleave, no client of a whole page *)
(* is left waiting for input (lines 378-383, 291 and 266).                 *)
(***************************************************************************)
THEOREM NoWakeupIsLost == Spec => []NoLostWakeup
<1>1. IInv => NoLostWakeup
  <2> SUFFICES ASSUME IInv, NEW i \in DOMAIN clientConnections,
                      cacheNodeReady(clientConnections[i].URl),
                      nodeData(clientConnections[i].URl) # <<>>
               PROVE  eventsOf(clientConnections[i]) = "OUT"
    BY DEF NoLostWakeup
  <2>1. clientConnections[i].URl \in Whole
    BY DEF Whole, cacheNodeReady, contains, IInv, Types, CacheTyped
  <2>2. QED
    BY <2>1, TableFacts DEF IInv, Watched, eventsOf
<1>2. QED
  BY <1>1, InvariantHolds, PTL

-----------------------------------------------------------------------------
(***************************************************************************)
(* The refinement of PollTable.  What PollTable sees of the vectors, and   *)
(* what the three ways to change one do to that.                           *)
(***************************************************************************)
PolledFds(table) == [p \in DOMAIN table |-> table[p].fd]

Place == [socketFd : Descriptors, pollFdsIndex : Nat \ {0}]

\* The descriptors that PollTable sees in a table.
LEMMA FdsOfTable ==
  ASSUME NEW table \in Seq(Entry)
  PROVE  /\ PolledFds(table) \in Seq(Descriptors \cup {listenFd})
         /\ Len(PolledFds(table)) = Len(table)
         /\ \A p \in 1..Len(table) : PolledFds(table)[p] = table[p].fd
<1>1. /\ Len(table) \in Nat /\ DOMAIN table = 1..Len(table)
      /\ \A p \in 1..Len(table) : table[p] \in Entry
  BY LenProperties, ElementOfSeq
<1>2. \A p \in 1..Len(table) : table[p].fd \in Descriptors \cup {listenFd}
  BY <1>1 DEF Entry
<1>3. PolledFds(table) = [p \in 1..Len(table) |-> table[p].fd]
  BY <1>1 DEF PolledFds
<1>4. QED
  BY <1>1, <1>2, <1>3

\* The places that PollTable sees in a vector of connections.
LEMMA PlacesOfConnections ==
  ASSUME NEW U, NEW conns \in Seq(Conns(U))
  PROVE  /\ Positions(conns) \in Seq(Place)
         /\ Len(Positions(conns)) = Len(conns)
         /\ \A i \in 1..Len(conns) :
                Positions(conns)[i] = [socketFd |-> conns[i].socketFd,
                                       pollFdsIndex |-> conns[i].pollFdsIndex]
<1>1. /\ Len(conns) \in Nat /\ DOMAIN conns = 1..Len(conns)
      /\ \A i \in 1..Len(conns) : conns[i] \in Conns(U)
  BY LenProperties, ElementOfSeq
<1>2. \A i \in 1..Len(conns) :
        [socketFd |-> conns[i].socketFd, pollFdsIndex |-> conns[i].pollFdsIndex] \in Place
  BY <1>1 DEF Conns, ConnectionsOf, Place
<1>3. Positions(conns) = [i \in 1..Len(conns) |-> [socketFd |-> conns[i].socketFd,
                                                   pollFdsIndex |-> conns[i].pollFdsIndex]]
  BY <1>1 DEF Positions
<1>4. QED
  BY <1>1, <1>2, <1>3

\* Nothing that PollTable sees has changed.
LEMMA SameFdsSeenSame ==
  ASSUME NEW table \in Seq(Entry), NEW t \in Seq(Entry), SameFds(t, table)
  PROVE  PolledFds(t) = PolledFds(table)
<1>1. Len(t) = Len(table) /\ \A p \in 1..Len(table) : t[p].fd = table[p].fd
  BY DEF SameFds
<1>2. DOMAIN t = 1..Len(t) /\ DOMAIN table = 1..Len(table)
  BY LenProperties
<1>3. QED
  BY <1>1, <1>2 DEF PolledFds

\* Connections that keep their places look the same.
LEMMA SamePlacesSeenSame ==
  ASSUME NEW U, NEW conns \in Seq(Conns(U)), NEW c \in Seq(Conns(U)), SamePlaces(c, conns)
  PROVE  Positions(c) = Positions(conns)
<1>1. /\ Len(c) = Len(conns)
      /\ \A i \in 1..Len(conns) : /\ c[i].socketFd = conns[i].socketFd
                                  /\ c[i].pollFdsIndex = conns[i].pollFdsIndex
  BY DEF SamePlaces
<1>2. DOMAIN c = 1..Len(c) /\ DOMAIN conns = 1..Len(conns)
  BY LenProperties
<1>3. QED
  BY <1>1, <1>2 DEF Positions

\* An addition is seen as one.
LEMMA AppendSeen ==
  ASSUME NEW table \in Seq(Entry), NEW e \in Entry
  PROVE  PolledFds(Append(table, e)) = Append(PolledFds(table), e.fd)
<1> DEFINE t == Append(table, e)
           a == PolledFds(table)
           b == Append(a, e.fd)
           c == PolledFds(t)
<1>1. /\ t \in Seq(Entry) /\ Len(t) = Len(table) + 1 /\ Len(table) \in Nat
      /\ \A p \in 1..Len(table) : t[p] = table[p]
      /\ t[Len(table) + 1] = e
  BY AppendProperties, LenProperties
<1> HIDE DEF t
<1>2. /\ a \in Seq(Descriptors \cup {listenFd}) /\ Len(a) = Len(table)
      /\ \A p \in 1..Len(table) : a[p] = table[p].fd
  BY FdsOfTable
<1>3. /\ c \in Seq(Descriptors \cup {listenFd}) /\ Len(c) = Len(t)
      /\ \A p \in 1..Len(t) : c[p] = t[p].fd
  BY <1>1, FdsOfTable
<1> HIDE DEF a, c
<1>4. /\ b \in Seq(Descriptors \cup {listenFd}) /\ Len(b) = Len(a) + 1
      /\ \A p \in 1..Len(a) : b[p] = a[p]
      /\ b[Len(a) + 1] = e.fd
  <2>1. e.fd \in Descriptors \cup {listenFd}
    BY DEF Entry
  <2>2. QED
    BY <1>2, <2>1, AppendProperties
<1> HIDE DEF b
<1>5. \A p \in 1..Len(c) : c[p] = b[p]
  <2>1. \A p \in 1..Len(c) : p \in 1..Len(table) \/ p = Len(table) + 1
    BY <1>1, <1>3
  <2>2. \A p \in 1..Len(table) : p \in 1..Len(t)
    BY <1>1
  <2>3. Len(table) + 1 \in 1..Len(t)
    BY <1>1
  <2>4. QED
    BY <1>1, <1>2, <1>3, <1>4, <2>1, <2>2, <2>3
<1>6. c = b
  <2>1. Len(c) = Len(b)
    BY <1>1, <1>2, <1>3, <1>4
  <2>2. QED
    BY <1>3, <1>4, <1>5, <2>1, SeqEqual
<1>7. QED
  BY <1>6 DEF a, b, c, t

\* A connection added is seen as a place added.
LEMMA AppendPlaceSeen ==
  ASSUME NEW U, NEW conns \in Seq(Conns(U)), NEW d \in Conns(U)
  PROVE  Positions(Append(conns, d)) =
            Append(Positions(conns), [socketFd |-> d.socketFd, pollFdsIndex |-> d.pollFdsIndex])
<1> DEFINE t == Append(conns, d)
           a == Positions(conns)
           pl == [socketFd |-> d.socketFd, pollFdsIndex |-> d.pollFdsIndex]
           b == Append(a, pl)
           c == Positions(t)
<1>1. /\ t \in Seq(Conns(U)) /\ Len(t) = Len(conns) + 1 /\ Len(conns) \in Nat
      /\ \A i \in 1..Len(conns) : t[i] = conns[i]
      /\ t[Len(conns) + 1] = d
  BY AppendProperties, LenProperties
<1> HIDE DEF t
<1>2. /\ a \in Seq(Place) /\ Len(a) = Len(conns)
      /\ \A i \in 1..Len(conns) : a[i] = [socketFd |-> conns[i].socketFd,
                                          pollFdsIndex |-> conns[i].pollFdsIndex]
  BY PlacesOfConnections
<1>3. /\ c \in Seq(Place) /\ Len(c) = Len(t)
      /\ \A i \in 1..Len(t) : c[i] = [socketFd |-> t[i].socketFd, pollFdsIndex |-> t[i].pollFdsIndex]
  BY <1>1, PlacesOfConnections
<1> HIDE DEF a, c
<1>4. /\ b \in Seq(Place) /\ Len(b) = Len(a) + 1
      /\ \A i \in 1..Len(a) : b[i] = a[i]
      /\ b[Len(a) + 1] = pl
  <2>1. pl \in Place
    BY DEF Place, Conns, ConnectionsOf
  <2> HIDE DEF pl
  <2>2. QED
    BY <1>2, <2>1, AppendProperties
<1> HIDE DEF b
<1>5. \A i \in 1..Len(c) : c[i] = b[i]
  <2>1. \A i \in 1..Len(c) : i \in 1..Len(conns) \/ i = Len(conns) + 1
    BY <1>1, <1>3
  <2>2. /\ \A i \in 1..Len(conns) : i \in 1..Len(t)
        /\ Len(conns) + 1 \in 1..Len(t)
    BY <1>1
  <2>3. QED
    BY <1>1, <1>2, <1>3, <1>4, <2>1, <2>2
<1>6. c = b
  <2>1. Len(c) = Len(b)
    BY <1>1, <1>2, <1>3, <1>4
  <2>2. QED
    BY <1>3, <1>4, <1>5, <2>1, SeqEqual
<1>7. QED
  BY <1>6 DEF a, b, c, t, pl

\* So is a removal.
LEMMA RemoveAtSeen ==
  ASSUME NEW table \in Seq(Entry), NEW p \in 1..Len(table)
  PROVE  PolledFds(RemoveAt(table, p)) = RemoveAt(PolledFds(table), p)
<1> DEFINE t == RemoveAt(table, p)
           a == PolledFds(table)
           b == RemoveAt(a, p)
           c == PolledFds(t)
<1>1. /\ t \in Seq(Entry) /\ Len(t) = Len(table) - 1 /\ Len(table) \in Nat
      /\ \A j \in 1..(Len(table) - 1) : t[j] = IF j < p THEN table[j] ELSE table[j + 1]
  BY RemoveAtProperties, LenProperties
<1> HIDE DEF t
<1>2. /\ a \in Seq(Descriptors \cup {listenFd}) /\ Len(a) = Len(table)
      /\ \A q \in 1..Len(table) : a[q] = table[q].fd
  BY FdsOfTable
<1>3. /\ c \in Seq(Descriptors \cup {listenFd}) /\ Len(c) = Len(t)
      /\ \A q \in 1..Len(t) : c[q] = t[q].fd
  BY <1>1, FdsOfTable
<1> HIDE DEF a, c
<1>4. /\ b \in Seq(Descriptors \cup {listenFd}) /\ Len(b) = Len(a) - 1
      /\ \A j \in 1..(Len(a) - 1) : b[j] = IF j < p THEN a[j] ELSE a[j + 1]
  BY <1>2, RemoveAtProperties
<1> HIDE DEF b
<1>5. \A q \in 1..Len(c) : c[q] = b[q]
  <2>1. \A q \in 1..Len(c) : q \in 1..Len(table) /\ q + 1 \in 1..Len(table) /\ q \in 1..(Len(table) - 1)
    BY <1>1, <1>3
  <2>2. QED
    BY <1>1, <1>2, <1>3, <1>4, <2>1
<1>6. c = b
  <2>1. Len(c) = Len(b)
    BY <1>1, <1>2, <1>3, <1>4
  <2>2. QED
    BY <1>3, <1>4, <1>5, <2>1, SeqEqual
<1>7. QED
  BY <1>6 DEF a, b, c, t

\* A connection removed is seen as a place removed.
LEMMA RemovePlaceSeen ==
  ASSUME NEW U, NEW conns \in Seq(Conns(U)), NEW i \in 1..Len(conns)
  PROVE  Positions(RemoveAt(conns, i)) = RemoveAt(Positions(conns), i)
<1> DEFINE t == RemoveAt(conns, i)
           a == Positions(conns)
           b == RemoveAt(a, i)
           c == Positions(t)
           pl(d) == [socketFd |-> d.socketFd, pollFdsIndex |-> d.pollFdsIndex]
<1>1. /\ t \in Seq(Conns(U)) /\ Len(t) = Len(conns) - 1 /\ Len(conns) \in Nat
      /\ \A j \in 1..(Len(conns) - 1) : t[j] = IF j < i THEN conns[j] ELSE conns[j + 1]
  BY RemoveAtProperties, LenProperties
<1> HIDE DEF t
<1>2. /\ a \in Seq(Place) /\ Len(a) = Len(conns)
      /\ \A j \in 1..Len(conns) : a[j] = pl(conns[j])
  BY PlacesOfConnections
<1>3. /\ c \in Seq(Place) /\ Len(c) = Len(t)
      /\ \A j \in 1..Len(t) : c[j] = pl(t[j])
  BY <1>1, PlacesOfConnections
<1> HIDE DEF a, c, pl
<1>4. /\ b \in Seq(Place) /\ Len(b) = Len(a) - 1
      /\ \A j \in 1..(Len(a) - 1) : b[j] = IF j < i THEN a[j] ELSE a[j + 1]
  BY <1>2, RemoveAtProperties
<1> HIDE DEF b
<1>5. \A j \in 1..Len(c) : c[j] = b[j]
  <2>1. \A j \in 1..Len(c) : j \in 1..Len(conns) /\ j + 1 \in 1..Len(conns) /\ j \in 1..(Len(conns) - 1)
    BY <1>1, <1>3
  <2>2. QED
    BY <1>1, <1>2, <1>3, <1>4, <2>1
<1>6. c = b
  <2>1. Len(c) = Len(b)
    BY <1>1, <1>2, <1>3, <1>4
  <2>2. QED
    BY <1>3, <1>4, <1>5, <2>1, SeqEqual
<1>7. QED
  BY <1>6 DEF a, b, c, t

\* Renumbered connections are seen as renumbered places.
LEMMA UpdateSeen ==
  ASSUME NEW U, NEW conns \in Seq(Conns(U)), NEW p \in Nat \ {0}
  PROVE  /\ updatePollFdIndexes(conns, p) \in Seq(Conns(U))
         /\ Len(updatePollFdIndexes(conns, p)) = Len(conns)
         /\ Positions(updatePollFdIndexes(conns, p)) = updatePollFdIndexes(Positions(conns), p)
<1> DEFINE u == updatePollFdIndexes(conns, p)
           a == Positions(conns)
           b == updatePollFdIndexes(a, p)
           c == Positions(u)
           pl(f, k) == [socketFd |-> f, pollFdsIndex |-> k]
<1>1. /\ u \in Seq(Conns(U)) /\ Len(u) = Len(conns)
      /\ \A i \in 1..Len(conns) :
            SameConnection(u[i], conns[i]) /\ u[i].pollFdsIndex = Moved(conns[i].pollFdsIndex, p)
  BY UpdateMoves DEF Conns
<1> HIDE DEF u
<1>2. /\ a \in Seq(Place) /\ Len(a) = Len(conns)
      /\ \A i \in 1..Len(conns) : a[i] = pl(conns[i].socketFd, conns[i].pollFdsIndex)
  BY PlacesOfConnections
<1>3. /\ c \in Seq(Place) /\ Len(c) = Len(conns)
      /\ \A i \in 1..Len(conns) : c[i] = pl(conns[i].socketFd, Moved(conns[i].pollFdsIndex, p))
  BY <1>1, PlacesOfConnections DEF SameConnection
<1>4. \A f, k : /\ pl(f, k).pollFdsIndex = k
                /\ [pl(f, k) EXCEPT !.pollFdsIndex = k - 1] = pl(f, k - 1)
  OBVIOUS
<1> HIDE DEF c, pl
<1>5. DOMAIN a = 1..Len(conns) /\ DOMAIN c = 1..Len(conns) /\ c = [i \in 1..Len(conns) |-> c[i]]
  BY <1>2, <1>3, LenProperties
<1>6. b = [i \in 1..Len(conns) |->
            IF a[i].pollFdsIndex > p
            THEN [a[i] EXCEPT !.pollFdsIndex = a[i].pollFdsIndex - 1] ELSE a[i]]
  BY <1>5 DEF updatePollFdIndexes
<1> HIDE DEF a, b
<1>7. \A i \in 1..Len(conns) : b[i] = c[i]
  <2> SUFFICES ASSUME NEW i \in 1..Len(conns) PROVE b[i] = c[i]
    OBVIOUS
  <2> DEFINE f == conns[i].socketFd
             k == conns[i].pollFdsIndex
  <2>1. a[i] = pl(f, k) /\ a[i].pollFdsIndex = k /\ c[i] = pl(f, Moved(k, p))
    BY <1>2, <1>3, <1>4
  <2>2. [a[i] EXCEPT !.pollFdsIndex = k - 1] = pl(f, k - 1)
    BY <1>4, <2>1
  <2> HIDE DEF f, k
  <2>3. b[i] = IF k > p THEN [a[i] EXCEPT !.pollFdsIndex = k - 1] ELSE a[i]
    BY <1>6, <2>1
  <2>4. QED
    BY <2>1, <2>2, <2>3 DEF Moved
<1>8. b = c
  BY <1>5, <1>6, <1>7
<1>9. QED
  BY <1>1, <1>8 DEF a, b, c, u

\* The operators of the instance are those of this module.
LEMMA InstanceOperators ==
  /\ \A c, p : Table!updatePollFdIndexes(c, p) = updatePollFdIndexes(c, p)
  /\ \A c, i : Table!eraseConnection(c, i) = RemoveAt(c, i)
  /\ \A c, i : Table!RemoveAt(c, i) = RemoveAt(c, i)
BY DEF Table!updatePollFdIndexes, updatePollFdIndexes, Table!eraseConnection, Table!RemoveAt, RemoveAt

\* removeClientConnection is RemoveClient of PollTable.
LEMMA ClientRemovalSeen ==
  ASSUME IInv, NEW i \in 1..Len(clientConnections), NEW sockets, NEW how,
         removeClientConnection(i, sockets, how)
  PROVE  Table!RemoveClient(i)
<1> DEFINE p == clientConnections[i].pollFdsIndex
<1>1. /\ pollFds' = RemoveAt(pollFds, p)
      /\ serverConnections' = updatePollFdIndexes(serverConnections, p)
      /\ clientConnections' = RemoveAt(updatePollFdIndexes(clientConnections, p), i)
  BY DEF removeClientConnection, removeConnection, eraseConnection
<1>2. /\ pollFds \in Seq(Entry) /\ clientConnections \in Seq(Conns(Urls \cup {NoUrl}))
      /\ serverConnections \in Seq(Conns(Urls))
      /\ p \in 1..Len(pollFds) /\ p \in Nat \ {0}
  BY TableFacts DEF IInv, Types, ClientConns, ServerConns
<1>3. Positions(clientConnections)[i].pollFdsIndex = p
  <2>1. Positions(clientConnections)[i] =
            [socketFd |-> clientConnections[i].socketFd, pollFdsIndex |-> p]
    BY <1>2, PlacesOfConnections
  <2>2. QED
    BY <2>1
<1> HIDE DEF p
<1>4. PolledFds(pollFds') = RemoveAt(PolledFds(pollFds), p)
  BY <1>1, <1>2, RemoveAtSeen
<1>5. Positions(serverConnections') = updatePollFdIndexes(Positions(serverConnections), p)
  BY <1>1, <1>2, UpdateSeen
<1>6. Positions(clientConnections') =
        RemoveAt(updatePollFdIndexes(Positions(clientConnections), p), i)
  <2> DEFINE u == updatePollFdIndexes(clientConnections, p)
  <2>1. /\ u \in Seq(Conns(Urls \cup {NoUrl})) /\ Len(u) = Len(clientConnections)
        /\ Positions(u) = updatePollFdIndexes(Positions(clientConnections), p)
    BY <1>2, UpdateSeen
  <2> HIDE DEF u
  <2>2. i \in 1..Len(u)
    BY <2>1
  <2>3. Positions(RemoveAt(u, i)) = RemoveAt(Positions(u), i)
    BY <2>1, <2>2, RemovePlaceSeen
  <2>4. QED
    BY <1>1, <2>1, <2>3 DEF u
<1>7. QED
  BY <1>3, <1>4, <1>5, <1>6, InstanceOperators DEF Table!RemoveClient, PolledFds

\* removeServerConnection is RemoveServer of PollTable.
LEMMA ServerRemovalSeen ==
  ASSUME IInv, NEW j \in 1..Len(serverConnections), NEW table \in Seq(Entry),
         SameFds(table, pollFds), removeServerConnection(j, table)
  PROVE  Table!RemoveServer(j)
<1> DEFINE p == serverConnections[j].pollFdsIndex
<1>1. /\ pollFds' = RemoveAt(table, p)
      /\ clientConnections' = updatePollFdIndexes(clientConnections, p)
      /\ serverConnections' = RemoveAt(updatePollFdIndexes(serverConnections, p), j)
  BY DEF removeServerConnection, removeConnection, eraseConnection
<1>2. /\ pollFds \in Seq(Entry) /\ clientConnections \in Seq(Conns(Urls \cup {NoUrl}))
      /\ serverConnections \in Seq(Conns(Urls))
      /\ p \in 1..Len(table) /\ p \in Nat \ {0}
  BY TableFacts DEF IInv, Types, ClientConns, ServerConns, SameFds
<1>3. Positions(serverConnections)[j].pollFdsIndex = p
  <2>1. Positions(serverConnections)[j] =
            [socketFd |-> serverConnections[j].socketFd, pollFdsIndex |-> p]
    BY <1>2, PlacesOfConnections
  <2>2. QED
    BY <2>1
<1> HIDE DEF p
<1>4. PolledFds(pollFds') = RemoveAt(PolledFds(pollFds), p)
  <2>1. PolledFds(table) = PolledFds(pollFds)
    BY <1>2, SameFdsSeenSame
  <2>2. QED
    BY <1>1, <1>2, <2>1, RemoveAtSeen
<1>5. Positions(clientConnections') = updatePollFdIndexes(Positions(clientConnections), p)
  BY <1>1, <1>2, UpdateSeen
<1>6. Positions(serverConnections') =
        RemoveAt(updatePollFdIndexes(Positions(serverConnections), p), j)
  <2> DEFINE u == updatePollFdIndexes(serverConnections, p)
  <2>1. /\ u \in Seq(Conns(Urls)) /\ Len(u) = Len(serverConnections)
        /\ Positions(u) = updatePollFdIndexes(Positions(serverConnections), p)
    BY <1>2, UpdateSeen
  <2> HIDE DEF u
  <2>2. j \in 1..Len(u)
    BY <2>1
  <2>3. Positions(RemoveAt(u, j)) = RemoveAt(Positions(u), j)
    BY <2>1, <2>2, RemovePlaceSeen
  <2>4. QED
    BY <1>1, <2>1, <2>3 DEF u
<1>7. QED
  BY <1>3, <1>4, <1>5, <1>6, InstanceOperators DEF Table!RemoveServer, PolledFds

\* A new descriptor is new to PollTable, and its place is at the end.
LEMMA AdditionSeen ==
  ASSUME IInv, NEW fd \in Descriptors, \A p \in 1..Len(pollFds) : pollFds[p].fd # fd
  PROVE  /\ fd \notin Table!Polled
         /\ Table!NewConnection(fd) = [socketFd |-> fd, pollFdsIndex |-> Len(pollFds) + 1]
<1>1. /\ DOMAIN PolledFds(pollFds) = 1..Len(pollFds) /\ Len(PolledFds(pollFds)) = Len(pollFds)
      /\ \A p \in 1..Len(pollFds) : PolledFds(pollFds)[p] = pollFds[p].fd
  BY FdsOfTable, TableFacts DEF IInv, Types, PolledFds
<1>2. QED
  BY <1>1 DEF Table!Polled, Table!NewConnection, PolledFds

\* A step that adds nothing and removes nothing.
LEMMA StillSeen ==
  ASSUME IInv, IInv',
         SameFds(pollFds', pollFds),
         SamePlaces(clientConnections', clientConnections),
         SamePlaces(serverConnections', serverConnections)
  PROVE  UNCHANGED Table!vars
<1>1. /\ pollFds \in Seq(Entry) /\ pollFds' \in Seq(Entry)
      /\ clientConnections \in Seq(Conns(Urls \cup {NoUrl}))
      /\ clientConnections' \in Seq(Conns(Urls \cup {NoUrl}))
      /\ serverConnections \in Seq(Conns(Urls))
      /\ serverConnections' \in Seq(Conns(Urls))
  BY DEF IInv, Types, ClientConns, ServerConns
<1>2. /\ PolledFds(pollFds') = PolledFds(pollFds)
      /\ Positions(clientConnections') = Positions(clientConnections)
      /\ Positions(serverConnections') = Positions(serverConnections)
  BY <1>1, SameFdsSeenSame, SamePlacesSeenSame
<1>3. QED
  BY <1>2 DEF Table!vars, PolledFds

\* Vectors that stay look the same.
LEMMA UntouchedSeen ==
  ASSUME UNCHANGED tableVars
  PROVE  UNCHANGED Table!vars
BY DEF tableVars, Table!vars, Positions

\* The steps of PollTable that a step of the loop may be seen as.
LEMMA AdditionIsStep ==
  ASSUME NEW fd \in Descriptors, Table!AddClient(fd) \/ Table!AddServer(fd)
  PROVE  [Table!Next]_(Table!vars)
BY DEF Table!Next

\* Removing a client is a step of PollTable.
LEMMA ClientRemovalIsStep ==
  ASSUME NEW i \in DOMAIN clientConnections, Table!RemoveClient(i)
  PROVE  [Table!Next]_(Table!vars)
<1>1. i \in DOMAIN Positions(clientConnections)
  BY DEF Positions
<1>2. QED
  BY <1>1 DEF Table!Next

\* Removing a fetch is a step of PollTable.
LEMMA ServerRemovalIsStep ==
  ASSUME NEW j \in DOMAIN serverConnections, Table!RemoveServer(j)
  PROVE  [Table!Next]_(Table!vars)
<1>1. j \in DOMAIN Positions(serverConnections)
  BY DEF Positions
<1>2. QED
  BY <1>1 DEF Table!Next

\* accept() adds a client, or nothing.
LEMMA AcceptSeen ==
  ASSUME IInv, addNewConnection
  PROVE  [Table!Next]_(Table!vars)
<1>1. CASE FreeDescriptors = {}
  <2>1. UNCHANGED tableVars
    BY <1>1 DEF addNewConnection, tableVars
  <2>2. QED
    BY <2>1, UntouchedSeen
<1>2. CASE FreeDescriptors # {}
  <2> DEFINE fd == NewDescriptor
             c == Head(backlog)
             e == [fd |-> fd, events |-> "IN", revents |-> {}]
             conn == [socketFd |-> fd, pollFdsIndex |-> Len(pollFds) + 1, URl |-> NoUrl, buffer |-> c]
  <2>1. /\ pollFds' = Append(pollFds, e)
        /\ clientConnections' = Append(clientConnections, conn)
        /\ serverConnections' = serverConnections
    BY <1>2 DEF addNewConnection
  <2>2. fd \in Descriptors /\ \A p \in 1..Len(pollFds) : pollFds[p].fd # fd
    BY <1>2, NewDescriptorIsNew DEF addNewConnection, Running
  <2> HIDE DEF fd
  <2>3. c \in Clients
    <3>1. backlog \in Seq(Clients) /\ backlog # <<>>
      BY DEF IInv, Types, addNewConnection
    <3>2. QED
      BY <3>1, HeadTailProperties
  <2> HIDE DEF c
  <2>4. e \in Entry /\ e.fd = fd
    BY <2>2 DEF Entry, Events
  <2>5. /\ conn \in Conns(Urls \cup {NoUrl})
        /\ conn.socketFd = fd /\ conn.pollFdsIndex = Len(pollFds) + 1
    BY <2>2, <2>3, TableFacts DEF Conns, ConnectionsOf
  <2> HIDE DEF e, conn
  <2>6. pollFds \in Seq(Entry) /\ clientConnections \in Seq(Conns(Urls \cup {NoUrl}))
    BY DEF IInv, Types, ClientConns
  <2>7. PolledFds(pollFds') = Append(PolledFds(pollFds), fd)
    BY <2>1, <2>4, <2>6, AppendSeen
  <2>8. Positions(clientConnections') =
            Append(Positions(clientConnections), [socketFd |-> fd, pollFdsIndex |-> Len(pollFds) + 1])
    BY <2>1, <2>5, <2>6, AppendPlaceSeen
  <2>9. Positions(serverConnections') = Positions(serverConnections)
    BY <2>1
  <2>10. PICK d \in Descriptors : d = fd
    BY <2>2
  <2>11. Table!AddClient(d)
    BY <2>2, <2>7, <2>8, <2>9, <2>10, AdditionSeen DEF Table!AddClient, PolledFds
  <2>12. QED
    BY <2>11, AdditionIsStep
<1>3. QED
  BY <1>1, <1>2

\* A fetch that starts adds a server.
LEMMA StartsFetchSeen ==
  ASSUME IInv, ClientStartsFetch
  PROVE  [Table!Next]_(Table!vars)
<1> DEFINE url == request[client.buffer]
           p == client.pollFdsIndex
           fd == NewDescriptor
           entry == [pollFds[p] EXCEPT !.revents = {}]
           table == [pollFds EXCEPT ![p] = entry]
           e == [fd |-> fd, events |-> "OUT", revents |-> {}]
           conn == [socketFd |-> fd, pollFdsIndex |-> Len(pollFds) + 1,
                    URl |-> url, buffer |-> client.buffer]
<1>1. ClientTurn
  BY DEF ClientStartsFetch, ReceivesRequest, Receives, ClientReadable
<1>2. /\ Running /\ it \in 1..Len(clientConnections) /\ client.buffer \in Clients
      /\ p \in 1..Len(pollFds) /\ pollFds[p] \in Entry /\ pollFds \in Seq(Entry)
  BY <1>1, ClientAtTurn, TableFacts DEF IInv, Types
<1>3. /\ url # Malformed /\ FreeDescriptors # {}
      /\ clientConnections' = Asking(url)
      /\ pollFds' = Append(table, e)
      /\ serverConnections' = Append(serverConnections, conn)
  <2>1. table = [pollFds EXCEPT ![p].revents = {}]
    BY <1>2, TableFacts
  <2>2. QED
    BY <1>1, <2>1, ClientAtTurn DEF ClientStartsFetch
<1>4. url \in Urls
  BY <1>1, <1>3, ClientAtTurn, NetworkAssumption
<1>5. fd \in Descriptors /\ \A q \in 1..Len(pollFds) : pollFds[q].fd # fd
  BY <1>2, <1>3, NewDescriptorIsNew
<1>6. entry \in Entry /\ entry.fd = pollFds[p].fd
  BY <1>2 DEF Entry
<1> HIDE DEF fd, url, entry
<1>7. e \in Entry /\ e.fd = fd
  BY <1>5 DEF Entry, Events
<1>8. conn \in Conns(Urls) /\ conn.socketFd = fd /\ conn.pollFdsIndex = Len(pollFds) + 1
  BY <1>2, <1>4, <1>5, TableFacts DEF Conns, ConnectionsOf
<1>9. table \in Seq(Entry) /\ SameFds(table, pollFds)
  BY <1>2, <1>6, EditedTable
<1> HIDE DEF p, table, e, conn
<1>10. /\ serverConnections \in Seq(Conns(Urls))
       /\ clientConnections \in Seq(Conns(Urls \cup {NoUrl}))
       /\ Asking(url) \in Seq(Conns(Urls \cup {NoUrl}))
       /\ SamePlaces(Asking(url), clientConnections)
  BY <1>2, <1>4, AskingIsTyped DEF IInv, Types, ClientConns, ServerConns
<1>11. PolledFds(pollFds') = Append(PolledFds(pollFds), fd)
  <2>1. PolledFds(table) = PolledFds(pollFds)
    BY <1>2, <1>9, SameFdsSeenSame
  <2>2. QED
    BY <1>3, <1>7, <1>9, <2>1, AppendSeen
<1>12. Positions(serverConnections') =
         Append(Positions(serverConnections), [socketFd |-> fd, pollFdsIndex |-> Len(pollFds) + 1])
  BY <1>3, <1>8, <1>10, AppendPlaceSeen
<1>13. Positions(clientConnections') = Positions(clientConnections)
  BY <1>3, <1>10, SamePlacesSeenSame
<1>14. PICK d \in Descriptors : d = fd
  BY <1>5
<1>15. Table!AddServer(d)
  BY <1>5, <1>11, <1>12, <1>13, <1>14, AdditionSeen DEF Table!AddServer, PolledFds
<1>16. QED
  BY <1>15, AdditionIsStep

\* The turns that write events of entries and leave the rest of the table.
LEMMA EventsSeen ==
  ASSUME IInv, Poll \/ ClientAsksForCached \/ ServerReceivesData \/ ServerSendsRequest
  PROVE  UNCHANGED Table!vars
<1>1. IInv'
  BY PollStep, ClientAsksForCachedStep, ServerReceivesDataStep, ServerSendsRequestStep
<1>2. /\ DOMAIN pollFds = 1..Len(pollFds) /\ Len(pollFds) \in Nat
      /\ \A q \in 1..Len(pollFds) : pollFds[q] \in Entry
      /\ pollFds' \in Seq(Entry)
  BY <1>1, TableFacts DEF IInv, Types
<1>3. CASE Poll
  <2>1. /\ DOMAIN pollFds' = 1..Len(pollFds)
        /\ \A q \in 1..Len(pollFds) : pollFds'[q].fd = pollFds[q].fd
    BY <1>2, <1>3 DEF Poll, Entry
  <2>2. SameFds(pollFds', pollFds)
    BY <1>2, <2>1, LenProperties DEF SameFds
  <2>3. /\ SamePlaces(clientConnections', clientConnections)
        /\ SamePlaces(serverConnections', serverConnections)
    BY <1>3 DEF Poll, SamePlaces
  <2>4. QED
    BY <1>1, <2>2, <2>3, StillSeen
<1>4. CASE ClientAsksForCached
  <2>1. ClientTurn
    BY <1>4 DEF ClientAsksForCached, ReceivesRequest, Receives, ClientReadable
  <2> DEFINE url == request[client.buffer]
             p == client.pollFdsIndex
  <2>2. /\ pollFds' = [pollFds EXCEPT ![p].revents = {}, ![p].events = "OUT"]
        /\ url # Malformed /\ clientConnections' = Asking(url)
        /\ serverConnections' = serverConnections
    BY <1>4, <2>1, ClientAtTurn DEF ClientAsksForCached
  <2>3. p \in 1..Len(pollFds) /\ url \in Urls /\ it \in 1..Len(clientConnections)
    BY <2>1, <2>2, ClientAtTurn
  <2>4. /\ DOMAIN pollFds' = 1..Len(pollFds)
        /\ \A q \in 1..Len(pollFds) : pollFds'[q].fd = pollFds[q].fd
    BY <1>2, <2>2, <2>3 DEF Entry
  <2>5. SameFds(pollFds', pollFds)
    BY <1>2, <2>4, LenProperties DEF SameFds
  <2>6. /\ SamePlaces(clientConnections', clientConnections)
        /\ SamePlaces(serverConnections', serverConnections)
    BY <2>2, <2>3, AskingIsTyped DEF SamePlaces
  <2>7. QED
    BY <1>1, <2>5, <2>6, StillSeen
<1>5. CASE ServerReceivesData
  <2>1. ServerTurn
    BY <1>5 DEF ServerReceivesData, ServerReadable
  <2> DEFINE t == prepareClientsToWrite(server.URl)
             p == server.pollFdsIndex
  <2>2. /\ pollFds' = [t EXCEPT ![p].revents = {}]
        /\ clientConnections' = clientConnections /\ serverConnections' = serverConnections
    BY <1>5 DEF ServerReceivesData
  <2>3. t \in Seq(Entry) /\ SameFds(t, pollFds)
    BY <2>1, ServerAtTurn, PreparingWatches
  <2>4. p \in 1..Len(pollFds)
    BY <2>1, ServerAtTurn
  <2> HIDE DEF t, p
  <2>5. /\ DOMAIN t = 1..Len(pollFds)
        /\ \A q \in 1..Len(pollFds) : t[q] \in Entry /\ t[q].fd = pollFds[q].fd
    BY <2>3, LenProperties, ElementOfSeq DEF SameFds
  <2>6. /\ DOMAIN pollFds' = 1..Len(pollFds)
        /\ \A q \in 1..Len(pollFds) : pollFds'[q].fd = pollFds[q].fd
    BY <2>2, <2>4, <2>5 DEF Entry
  <2>7. SameFds(pollFds', pollFds)
    BY <1>2, <2>6, LenProperties DEF SameFds
  <2>8. /\ SamePlaces(clientConnections', clientConnections)
        /\ SamePlaces(serverConnections', serverConnections)
    BY <2>2 DEF SamePlaces
  <2>9. QED
    BY <1>1, <2>7, <2>8, StillSeen
<1>6. CASE ServerSendsRequest
  <2>1. ServerTurn
    BY <1>6 DEF ServerSendsRequest, ServerWritable
  <2> DEFINE p == server.pollFdsIndex
  <2>2. /\ pollFds' = [pollFds EXCEPT ![p].events = "IN", ![p].revents = {}]
        /\ clientConnections' = clientConnections /\ serverConnections' = serverConnections
    BY <1>6 DEF ServerSendsRequest
  <2>3. p \in 1..Len(pollFds)
    BY <2>1, ServerAtTurn
  <2> HIDE DEF p
  <2>4. /\ DOMAIN pollFds' = 1..Len(pollFds)
        /\ \A q \in 1..Len(pollFds) : pollFds'[q].fd = pollFds[q].fd
    BY <1>2, <2>2, <2>3 DEF Entry
  <2>5. SameFds(pollFds', pollFds)
    BY <1>2, <2>4, LenProperties DEF SameFds
  <2>6. /\ SamePlaces(clientConnections', clientConnections)
        /\ SamePlaces(serverConnections', serverConnections)
    BY <2>2 DEF SamePlaces
  <2>7. QED
    BY <1>1, <2>5, <2>6, StillSeen
<1>7. QED
  BY <1>3, <1>4, <1>5, <1>6

\* The turns in which a client is removed.
LEMMA ClientGoneSeen ==
  ASSUME IInv, ClientHungUp \/ ClientToldError \/ ClientSendFails \/ ClientReceivesEnd \/ ClientFetchFails
  PROVE  [Table!Next]_(Table!vars)
<1>1. ClientTurn
  BY DEF ClientHungUp, ClientToldError, ClientSendFails, ClientReceivesEnd, ClientFetchFails,
         ClientWritable, ClientReadable, ReceivesRequest, Receives
<1>2. PICK sockets, how : removeClientConnection(it, sockets, how)
  BY DEF ClientHungUp, ClientToldError, ClientSendFails, ClientReceivesEnd, ClientFetchFails
<1>3. it \in 1..Len(clientConnections) /\ it \in DOMAIN clientConnections
  BY <1>1, ClientAtTurn, TableFacts
<1>4. PICK i \in 1..Len(clientConnections) : i = it
  BY <1>3
<1>5. removeClientConnection(i, sockets, how) /\ i \in DOMAIN clientConnections
  BY <1>2, <1>3, <1>4 DEF removeClientConnection, deleteBuffer
<1>6. Table!RemoveClient(i)
  BY <1>5, ClientRemovalSeen
<1>7. QED
  BY <1>5, <1>6, ClientRemovalIsStep

\* A send() removes a client, or nothing.
LEMMA ServedSeen ==
  ASSUME IInv, ClientServed
  PROVE  [Table!Next]_(Table!vars)
<1>1. ClientTurn
  BY DEF ClientServed, ClientWritable
<1>2. /\ it \in 1..Len(clientConnections) /\ it \in DOMAIN clientConnections
      /\ client.pollFdsIndex \in 1..Len(pollFds)
  BY <1>1, ClientAtTurn, TableFacts
<1>3. CASE \E sockets : removeClientConnection(it, sockets, "complete")
  <2>1. PICK sockets : removeClientConnection(it, sockets, "complete")
    BY <1>3
  <2>2. PICK i \in 1..Len(clientConnections) : i = it
    BY <1>2
  <2>3. removeClientConnection(i, sockets, "complete") /\ i \in DOMAIN clientConnections
    BY <1>2, <2>1, <2>2 DEF removeClientConnection, deleteBuffer
  <2>4. Table!RemoveClient(i)
    BY <2>3, ClientRemovalSeen
  <2>5. QED
    BY <2>3, <2>4, ClientRemovalIsStep
<1>4. CASE /\ clientConnections' = clientConnections /\ serverConnections' = serverConnections
           /\ \E e \in {"IN", pollFds[client.pollFdsIndex].events} :
                    pollFds' = [pollFds EXCEPT ![client.pollFdsIndex].events = e]
  <2> DEFINE p == client.pollFdsIndex
  <2>1. PICK e : pollFds' = [pollFds EXCEPT ![p].events = e]
    BY <1>4
  <2>2. /\ DOMAIN pollFds = 1..Len(pollFds) /\ Len(pollFds) \in Nat
        /\ \A q \in 1..Len(pollFds) : pollFds[q] \in Entry
    BY TableFacts
  <2>3. p \in 1..Len(pollFds)
    BY <1>2
  <2> HIDE DEF p
  <2>4. /\ DOMAIN pollFds' = 1..Len(pollFds)
        /\ \A q \in 1..Len(pollFds) : pollFds'[q].fd = pollFds[q].fd
    BY <2>1, <2>2, <2>3 DEF Entry
  <2>5. IInv'
    BY ClientServedStep
  <2>6. SameFds(pollFds', pollFds)
    BY <2>2, <2>4, <2>5, LenProperties DEF SameFds, IInv, Types
  <2>7. /\ SamePlaces(clientConnections', clientConnections)
        /\ SamePlaces(serverConnections', serverConnections)
    BY <1>4 DEF SamePlaces
  <2>8. QED
    BY <2>5, <2>6, <2>7, StillSeen
<1>5. QED
  BY <1>3, <1>4 DEF ClientServed

\* The turns in which a fetch is removed, whatever events they write before.
LEMMA ServerGoneSeen ==
  ASSUME IInv,
         \/ ServerHungUp \/ ServerReceivesBadStatus \/ ServerReceivesEnd
         \/ ServerReceiveFails \/ ServerSendFails
  PROVE  [Table!Next]_(Table!vars)
<1>1. ServerTurn
  BY DEF ServerHungUp, ServerReceivesBadStatus, ServerReceivesEnd, ServerReceiveFails, ServerSendFails,
         ServerReadable, ServerWritable
<1>2. /\ it \in 1..Len(serverConnections) /\ it \in DOMAIN serverConnections
      /\ server.URl \in Urls
  BY <1>1, ServerAtTurn, TableFacts
<1>3. PICK table \in {pollFds, prepareClientsToWrite(server.URl)} : removeServerConnection(it, table)
  BY DEF ServerHungUp, ServerReceivesBadStatus, ServerReceivesEnd, ServerReceiveFails, ServerSendFails,
         ServerFails
<1>4. table \in Seq(Entry) /\ SameFds(table, pollFds)
  <2>1. CASE table = pollFds
    BY <2>1 DEF IInv, Types, SameFds
  <2>2. CASE table = prepareClientsToWrite(server.URl)
    BY <1>2, <2>2, PreparingWatches
  <2>3. QED
    BY <1>3, <2>1, <2>2
<1>5. PICK j \in 1..Len(serverConnections) : j = it
  BY <1>2
<1>6. removeServerConnection(j, table) /\ j \in DOMAIN serverConnections
  BY <1>2, <1>3, <1>5 DEF removeServerConnection
<1>7. Table!RemoveServer(j)
  BY <1>4, <1>6, ServerRemovalSeen
<1>8. QED
  BY <1>6, <1>7, ServerRemovalIsStep

\* Every step of the loop is a step of PollTable or leaves what it sees.
LEMMA StepSeen == IInv /\ [Next]_vars => [Table!Next]_(Table!vars)
<1> SUFFICES ASSUME IInv, [Next]_vars PROVE [Table!Next]_(Table!vars)
  OBVIOUS
<1>1. CASE addNewConnection
  BY <1>1, AcceptSeen
<1>2. CASE Poll \/ ClientAsksForCached \/ ServerReceivesData \/ ServerSendsRequest
  BY <1>2, EventsSeen
<1>3. CASE \/ ClientHungUp \/ ClientToldError \/ ClientSendFails \/ ClientReceivesEnd
           \/ ClientFetchFails
  BY <1>3, ClientGoneSeen
<1>4. CASE \/ ServerHungUp \/ ServerReceivesBadStatus \/ ServerReceivesEnd
           \/ ServerReceiveFails \/ ServerSendFails
  BY <1>4, ServerGoneSeen
<1>5. CASE ClientServed \/ ClientStartsFetch
  BY <1>5, ServedSeen, StartsFetchSeen
<1>6. CASE UNCHANGED tableVars
  BY <1>6, UntouchedSeen
<1>7. CASE \/ ClientIdle \/ ClientReceivesPart \/ ClientReceivesMalformed \/ ClientsDone
           \/ ServerIdle \/ ServerReadsFreedBuffer \/ RoundDone
  <2>1. UNCHANGED tableVars
    BY <1>7 DEF ClientIdle, ClientReceivesPart, ClientReceivesMalformed, ClientsDone,
                ServerIdle, ServerReadsFreedBuffer, RoundDone, stop
  <2>2. QED
    BY <1>6, <2>1
<1>8. CASE Outside \/ (Running /\ (Interrupt \/ InterruptPoll)) \/ UNCHANGED vars
  <2>1. UNCHANGED tableVars
    BY <1>8 DEF Outside, ProgramVars, Interrupt, InterruptPoll, stop, vars
  <2>2. QED
    BY <1>6, <2>1
<1>9. QED
  BY <1>1, <1>2, <1>3, <1>4, <1>5, <1>7, <1>8
     DEF Next, Program, checkClientsConnections, checkServerConnections

\* The loop begins with the table that PollTable begins with.
LEMMA InitSeen == Init => Table!Init
<1> SUFFICES ASSUME Init PROVE Table!Init
  OBVIOUS
<1> DEFINE e == [fd |-> listenFd, events |-> "IN", revents |-> {}]
<1>1. pollFds = <<e>> /\ clientConnections = <<>> /\ serverConnections = <<>>
  BY DEF Init
<1>2. DOMAIN <<e>> = 1..1 /\ <<e>>[1].fd = listenFd
  OBVIOUS
<1> HIDE DEF e
<1>3. [p \in DOMAIN pollFds |-> pollFds[p].fd] = <<listenFd>>
  BY <1>1, <1>2
<1>4. Positions(clientConnections) = <<>> /\ Positions(serverConnections) = <<>>
  BY <1>1 DEF Positions
<1>5. QED
  BY <1>3, <1>4 DEF Table!Init

(***************************************************************************)
(* The loop implements PollTable: with every fault of the surroundings, a  *)
(* turn changes the three vectors as one addition or one removal of        *)
(* PollTable does, or not at all (lines 216-217, 475-523).                 *)
(***************************************************************************)
THEOREM LoopImplementsTable == Spec => KeepsTable
<1>1. Init => Table!Init
  BY InitSeen
<1>2. IInv /\ [Next]_vars => [Table!Next]_(Table!vars)
  BY StepSeen
<1>3. QED
  BY <1>1, <1>2, InvariantHolds, PTL DEF Spec, KeepsTable, Table!Spec

=============================================================================
