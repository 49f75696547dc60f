-------------------------- MODULE PollTable_proofs --------------------------
(***************************************************************************)
(* Proofs that the positions of PollTable stay right for every set of      *)
(* descriptors, however many connections come and go, and that the loop of *)
(* eraseConnection takes out the connection that was meant.                *)
(***************************************************************************)
EXTENDS TableErase, VectorLemmas, TLAPS

(***************************************************************************)
(* updatePollFdIndexes changes positions only, and only those behind the   *)
(* deleted one, by one.                                                    *)
(***************************************************************************)
LEMMA UpdateProperties ==
  ASSUME NEW conns \in Seq(Connection), NEW p \in Nat \ {0}
  PROVE  /\ updatePollFdIndexes(conns, p) \in Seq(Connection)
         /\ Len(updatePollFdIndexes(conns, p)) = Len(conns)
         /\ \A i \in 1..Len(conns) :
              /\ updatePollFdIndexes(conns, p)[i].socketFd = conns[i].socketFd
              /\ updatePollFdIndexes(conns, p)[i].pollFdsIndex =
                    IF conns[i].pollFdsIndex > p
                    THEN conns[i].pollFdsIndex - 1 ELSE conns[i].pollFdsIndex
<1> DEFINE u == updatePollFdIndexes(conns, p)
<1>1. /\ Len(conns) \in Nat
      /\ DOMAIN conns = 1..Len(conns)
      /\ \A i \in 1..Len(conns) : conns[i] \in Connection
  BY LenProperties, ElementOfSeq
<1>2. \A i \in 1..Len(conns) :
        u[i] = IF conns[i].pollFdsIndex > p
               THEN [conns[i] EXCEPT !.pollFdsIndex = conns[i].pollFdsIndex - 1]
               ELSE conns[i]
  BY <1>1 DEF updatePollFdIndexes
<1>3. u = [i \in 1..Len(conns) |-> u[i]]
  BY <1>1 DEF updatePollFdIndexes
<1> HIDE DEF u
<1>4. ASSUME NEW i \in 1..Len(conns)
      PROVE  /\ u[i] \in Connection
             /\ u[i].socketFd = conns[i].socketFd
             /\ u[i].pollFdsIndex = IF conns[i].pollFdsIndex > p
                    THEN conns[i].pollFdsIndex - 1 ELSE conns[i].pollFdsIndex
  <2> DEFINE c == conns[i]
  <2>1. c \in Connection /\ c.pollFdsIndex \in Nat \ {0} /\ c.socketFd \in Fds
    BY <1>1 DEF Connection
  <2>2. u[i] = IF c.pollFdsIndex > p
               THEN [c EXCEPT !.pollFdsIndex = c.pollFdsIndex - 1] ELSE c
    BY <1>2
  <2> HIDE DEF c
  <2>3. CASE c.pollFdsIndex > p
    <3>1. c.pollFdsIndex - 1 \in Nat \ {0}
      BY <2>1, <2>3
    <3>2. u[i] = [c EXCEPT !.pollFdsIndex = c.pollFdsIndex - 1]
      BY <2>2, <2>3
    <3>3. /\ u[i] \in Connection
          /\ u[i].socketFd = c.socketFd
          /\ u[i].pollFdsIndex = c.pollFdsIndex - 1
      BY <2>1, <3>1, <3>2 DEF Connection
    <3>4. QED
      BY <2>3, <3>3 DEF c
  <2>4. CASE ~(c.pollFdsIndex > p)
    BY <2>1, <2>2, <2>4 DEF c
  <2>5. QED
    BY <2>3, <2>4
<1>5. u \in Seq(Connection) /\ Len(u) = Len(conns)
  BY <1>1, <1>3, <1>4
<1>6. QED
  BY <1>4, <1>5 DEF u

(***************************************************************************)
(* The heart of removeConnection: erasing the pollfd of connection i,      *)
(* moving the positions behind it down in both vectors, and erasing the    *)
(* connection leaves the three vectors consistent.                         *)
(***************************************************************************)
LEMMA RemovalKeepsConsistent ==
  ASSUME NEW table \in Seq(Fds \cup {listenFd}),
         NEW own \in Seq(Connection), NEW others \in Seq(Connection),
         NEW i \in 1..Len(own),
         Consistent(table, own, others)
  PROVE  LET p == own[i].pollFdsIndex
             t == RemoveAt(table, p)
             o == RemoveAt(updatePollFdIndexes(own, p), i)
             r == updatePollFdIndexes(others, p)
         IN  /\ t \in Seq(Fds \cup {listenFd})
             /\ o \in Seq(Connection) /\ r \in Seq(Connection)
             /\ Consistent(t, o, r)
<1> DEFINE p == own[i].pollFdsIndex
           t == RemoveAt(table, p)
           u == updatePollFdIndexes(own, p)
           o == RemoveAt(u, i)
           r == updatePollFdIndexes(others, p)
           Down(k) == IF k > p THEN k - 1 ELSE k
           Kept(j) == IF j < i THEN j ELSE j + 1
<1>1. /\ Len(table) \in Nat /\ Len(own) \in Nat /\ Len(others) \in Nat
      /\ Len(table) = 1 + Len(own) + Len(others)
      /\ table[1] = listenFd
      /\ \A j \in 1..Len(own) : own[j] \in Connection
      /\ \A j \in 1..Len(others) : others[j] \in Connection
  BY LenProperties, ElementOfSeq DEF Consistent, ACCEPT_INDEX
<1>2. /\ \A j \in 1..Len(own) :
            /\ own[j].pollFdsIndex \in 2..Len(table)
            /\ table[own[j].pollFdsIndex] = own[j].socketFd
      /\ \A j \in 1..Len(others) :
            /\ others[j].pollFdsIndex \in 2..Len(table)
            /\ table[others[j].pollFdsIndex] = others[j].socketFd
  BY DEF Consistent, PointsHome, ACCEPT_INDEX
<1>3. /\ \A j, k \in 1..Len(own) :
            own[j].pollFdsIndex = own[k].pollFdsIndex => j = k
      /\ \A j, k \in 1..Len(others) :
            others[j].pollFdsIndex = others[k].pollFdsIndex => j = k
      /\ \A j \in 1..Len(own), k \in 1..Len(others) :
            own[j].pollFdsIndex # others[k].pollFdsIndex
      /\ \A j, k \in 1..Len(table) : table[j] = table[k] => j = k
  BY DEF Consistent, Apart, Disjoint, PolledOnce
<1>4. p \in 2..Len(table)
  BY <1>2
<1>5. /\ t \in Seq(Fds \cup {listenFd})
      /\ Len(t) = Len(table) - 1
      /\ \A j \in 1..(Len(table) - 1) : t[j] = IF j < p THEN table[j] ELSE table[j + 1]
  <2>1. p \in 1..Len(table)
    BY <1>1, <1>4
  <2>2. QED
    BY <2>1, RemoveAtProperties
<1>6. /\ u \in Seq(Connection)
      /\ Len(u) = Len(own)
      /\ \A j \in 1..Len(own) :
            u[j].socketFd = own[j].socketFd /\ u[j].pollFdsIndex = Down(own[j].pollFdsIndex)
  <2>1. p \in Nat \ {0}
    BY <1>1, <1>4
  <2>2. QED
    BY <2>1, UpdateProperties
<1>7. /\ r \in Seq(Connection)
      /\ Len(r) = Len(others)
      /\ \A j \in 1..Len(others) :
            r[j].socketFd = others[j].socketFd /\ r[j].pollFdsIndex = Down(others[j].pollFdsIndex)
  <2>1. p \in Nat \ {0}
    BY <1>1, <1>4
  <2>2. QED
    BY <2>1, UpdateProperties
<1>8. /\ o \in Seq(Connection)
      /\ Len(o) = Len(own) - 1
      /\ \A j \in 1..(Len(own) - 1) : o[j] = u[Kept(j)]
  <2>1. i \in 1..Len(u)
    BY <1>6
  <2> HIDE DEF u
  <2>2. /\ RemoveAt(u, i) \in Seq(Connection)
        /\ Len(RemoveAt(u, i)) = Len(u) - 1
        /\ \A j \in 1..(Len(u) - 1) :
                RemoveAt(u, i)[j] = IF j < i THEN u[j] ELSE u[j + 1]
    BY <1>6, <2>1, RemoveAtProperties
  <2>3. QED
    BY <1>6, <2>2
<1>9. \A j \in 1..(Len(own) - 1) :
        /\ Kept(j) \in 1..Len(own) /\ Kept(j) # i
        /\ o[j].socketFd = own[Kept(j)].socketFd
        /\ o[j].pollFdsIndex = Down(own[Kept(j)].pollFdsIndex)
  BY <1>1, <1>6, <1>8
<1> HIDE DEF p, t, u, o, r
(* A position other than p keeps its pollfd when it moves. *)
<1>10. ASSUME NEW k \in 2..Len(table), k # p
       PROVE  /\ Down(k) \in 2..Len(t)
              /\ t[Down(k)] = table[k]
  BY <1>1, <1>4, <1>5, <1>10
<1>11. ASSUME NEW k \in 2..Len(table), NEW l \in 2..Len(table),
              k # p, l # p, Down(k) = Down(l)
       PROVE  k = l
  BY <1>1, <1>4, <1>11
<1>12. /\ \A j \in 1..Len(others) : others[j].pollFdsIndex # p
       /\ \A j \in 1..Len(own) : j # i => own[j].pollFdsIndex # p
  BY <1>3 DEF p
<1> HIDE DEF Down, Kept
<1>13. PointsHome(t, o)
  <2> SUFFICES ASSUME NEW j \in 1..Len(o)
               PROVE  /\ o[j].pollFdsIndex \in 2..Len(t)
                      /\ t[o[j].pollFdsIndex] = o[j].socketFd
    BY DEF PointsHome, ACCEPT_INDEX
  <2> DEFINE k == own[Kept(j)].pollFdsIndex
  <2>1. /\ Kept(j) \in 1..Len(own) /\ Kept(j) # i
        /\ o[j].socketFd = own[Kept(j)].socketFd
        /\ o[j].pollFdsIndex = Down(k)
    BY <1>8, <1>9
  <2>2. k \in 2..Len(table) /\ k # p /\ table[k] = own[Kept(j)].socketFd
    BY <1>2, <1>12, <2>1
  <2> HIDE DEF k
  <2>3. QED
    BY <1>10, <2>1, <2>2
<1>14. PointsHome(t, r)
  <2> SUFFICES ASSUME NEW j \in 1..Len(r)
               PROVE  /\ r[j].pollFdsIndex \in 2..Len(t)
                      /\ t[r[j].pollFdsIndex] = r[j].socketFd
    BY DEF PointsHome, ACCEPT_INDEX
  <2> DEFINE k == others[j].pollFdsIndex
  <2>1. /\ r[j].socketFd = others[j].socketFd
        /\ r[j].pollFdsIndex = Down(k)
    BY <1>7
  <2>2. k \in 2..Len(table) /\ k # p /\ table[k] = others[j].socketFd
    BY <1>2, <1>7, <1>12
  <2> HIDE DEF k
  <2>3. QED
    BY <1>10, <2>1, <2>2
<1>15. Apart(o)
  <2> SUFFICES ASSUME NEW j \in 1..Len(o), NEW k \in 1..Len(o),
                      o[j].pollFdsIndex = o[k].pollFdsIndex
               PROVE  j = k
    BY DEF Apart
  <2>1. own[Kept(j)].pollFdsIndex = own[Kept(k)].pollFdsIndex
    <3>1. /\ Kept(j) \in 1..Len(own) /\ Kept(j) # i
          /\ Kept(k) \in 1..Len(own) /\ Kept(k) # i
          /\ Down(own[Kept(j)].pollFdsIndex) = Down(own[Kept(k)].pollFdsIndex)
      BY <1>8, <1>9
    <3>2. /\ own[Kept(j)].pollFdsIndex \in 2..Len(table)
          /\ own[Kept(j)].pollFdsIndex # p
          /\ own[Kept(k)].pollFdsIndex \in 2..Len(table)
          /\ own[Kept(k)].pollFdsIndex # p
      BY <1>2, <1>12, <3>1
    <3>3. QED
      BY <1>11, <3>1, <3>2
  <2>2. Kept(j) = Kept(k)
    BY <1>3, <1>8, <1>9, <2>1
  <2>3. QED
    BY <1>1, <1>8, <2>2 DEF Kept
<1>16. Apart(r)
  <2> SUFFICES ASSUME NEW j \in 1..Len(r), NEW k \in 1..Len(r),
                      r[j].pollFdsIndex = r[k].pollFdsIndex
               PROVE  j = k
    BY DEF Apart
  <2>1. Down(others[j].pollFdsIndex) = Down(others[k].pollFdsIndex)
    BY <1>7
  <2>2. others[j].pollFdsIndex = others[k].pollFdsIndex
    <3>1. /\ others[j].pollFdsIndex \in 2..Len(table)
          /\ others[j].pollFdsIndex # p
          /\ others[k].pollFdsIndex \in 2..Len(table)
          /\ others[k].pollFdsIndex # p
      BY <1>2, <1>7, <1>12
    <3>2. QED
      BY <1>11, <2>1, <3>1
  <2>3. QED
    BY <1>3, <1>7, <2>2
<1>17. Disjoint(o, r)
  <2> SUFFICES ASSUME NEW j \in 1..Len(o), NEW k \in 1..Len(r),
                      o[j].pollFdsIndex = r[k].pollFdsIndex
               PROVE  FALSE
    BY DEF Disjoint
  <2>1. Kept(j) \in 1..Len(own) /\ Kept(j) # i
    BY <1>8, <1>9
  <2>2. Down(own[Kept(j)].pollFdsIndex) = Down(others[k].pollFdsIndex)
    BY <1>7, <1>8, <1>9
  <2>3. own[Kept(j)].pollFdsIndex = others[k].pollFdsIndex
    <3>1. /\ own[Kept(j)].pollFdsIndex \in 2..Len(table)
          /\ own[Kept(j)].pollFdsIndex # p
          /\ others[k].pollFdsIndex \in 2..Len(table)
          /\ others[k].pollFdsIndex # p
      BY <1>2, <1>7, <1>12, <2>1
    <3>2. QED
      BY <1>11, <2>2, <3>1
  <2>4. QED
    BY <1>3, <1>7, <2>1, <2>3
<1>18. PolledOnce(t)
  <2> SUFFICES ASSUME NEW j \in 1..Len(t), NEW k \in 1..Len(t), t[j] = t[k]
               PROVE  j = k
    BY DEF PolledOnce
  <2>1. /\ t[j] = table[IF j < p THEN j ELSE j + 1]
        /\ t[k] = table[IF k < p THEN k ELSE k + 1]
    BY <1>1, <1>4, <1>5
  <2>2. /\ (IF j < p THEN j ELSE j + 1) \in 1..Len(table)
        /\ (IF k < p THEN k ELSE k + 1) \in 1..Len(table)
    BY <1>1, <1>4, <1>5
  <2>3. (IF j < p THEN j ELSE j + 1) = (IF k < p THEN k ELSE k + 1)
    BY <1>3, <2>1, <2>2
  <2>4. QED
    BY <1>1, <1>4, <1>5, <2>3
<1>19. /\ Len(t) = 1 + Len(o) + Len(r)
       /\ t[ACCEPT_INDEX] = listenFd
  <2>1. Len(t) = 1 + Len(o) + Len(r)
    BY <1>1, <1>5, <1>7, <1>8
  <2>2. 1 < p /\ 1 \in 1..(Len(table) - 1)
    BY <1>1, <1>4
  <2>3. t[1] = table[1]
    BY <1>5, <2>2
  <2>4. QED
    BY <1>1, <2>1, <2>3 DEF ACCEPT_INDEX
<1>20. Consistent(t, o, r)
  BY <1>13, <1>14, <1>15, <1>16, <1>17, <1>18, <1>19 DEF Consistent
<1>21. QED
  BY <1>5, <1>7, <1>8, <1>20 DEF p, t, u, o, r

(***************************************************************************)
(* Accepting a client or starting a fetch: a new pollfd at the end and a   *)
(* new connection with its position leave the three vectors consistent.    *)
(***************************************************************************)
LEMMA AdditionKeepsConsistent ==
  ASSUME NEW table \in Seq(Fds \cup {listenFd}),
         NEW own \in Seq(Connection), NEW others \in Seq(Connection),
         Consistent(table, own, others),
         NEW fd \in Fds, \A k \in 1..Len(table) : table[k] # fd
  PROVE  LET c == [socketFd |-> fd, pollFdsIndex |-> Len(table) + 1]
         IN  /\ Append(table, fd) \in Seq(Fds \cup {listenFd})
             /\ Append(own, c) \in Seq(Connection)
             /\ Consistent(Append(table, fd), Append(own, c), others)
<1> DEFINE c == [socketFd |-> fd, pollFdsIndex |-> Len(table) + 1]
           t == Append(table, fd)
           o == Append(own, c)
<1>1. /\ Len(table) \in Nat /\ Len(own) \in Nat /\ Len(others) \in Nat
      /\ Len(table) = 1 + Len(own) + Len(others)
      /\ table[1] = listenFd
  BY LenProperties DEF Consistent, ACCEPT_INDEX
<1>2. /\ \A j \in 1..Len(own) :
            /\ own[j].pollFdsIndex \in 2..Len(table)
            /\ table[own[j].pollFdsIndex] = own[j].socketFd
      /\ \A j \in 1..Len(others) :
            /\ others[j].pollFdsIndex \in 2..Len(table)
            /\ table[others[j].pollFdsIndex] = others[j].socketFd
  BY DEF Consistent, PointsHome, ACCEPT_INDEX
<1>3. /\ t \in Seq(Fds \cup {listenFd})
      /\ Len(t) = Len(table) + 1
      /\ \A k \in 1..Len(table) : t[k] = table[k]
      /\ t[Len(table) + 1] = fd
  BY <1>1, AppendProperties
<1>4. c \in Connection /\ c.socketFd = fd /\ c.pollFdsIndex = Len(table) + 1
  BY <1>1 DEF Connection
<1> HIDE DEF c, t
<1>5. /\ o \in Seq(Connection)
      /\ Len(o) = Len(own) + 1
      /\ \A j \in 1..Len(own) : o[j] = own[j]
      /\ o[Len(own) + 1] = c
  BY <1>1, <1>4, AppendProperties
<1> HIDE DEF o
<1>6. PointsHome(t, o)
  <2> SUFFICES ASSUME NEW j \in 1..Len(o)
               PROVE  /\ o[j].pollFdsIndex \in 2..Len(t)
                      /\ t[o[j].pollFdsIndex] = o[j].socketFd
    BY DEF PointsHome, ACCEPT_INDEX
  <2>1. CASE j \in 1..Len(own)
    <3>1. o[j] = own[j] /\ own[j].pollFdsIndex \in 2..Len(table)
      BY <1>2, <1>5, <2>1
    <3>2. QED
      BY <1>1, <1>2, <1>3, <2>1, <3>1
  <2>2. CASE j = Len(own) + 1
    BY <1>1, <1>3, <1>4, <1>5, <2>2
  <2>3. QED
    BY <1>1, <1>5, <2>1, <2>2
<1>7. PointsHome(t, others)
  BY <1>1, <1>2, <1>3 DEF PointsHome, ACCEPT_INDEX
<1>8. PolledOnce(t)
  <2> SUFFICES ASSUME NEW j \in 1..Len(t), NEW k \in 1..Len(t), t[j] = t[k]
               PROVE  j = k
    BY DEF PolledOnce
  <2>1. CASE j \in 1..Len(table) /\ k \in 1..Len(table)
    BY <1>3, <2>1 DEF Consistent, PolledOnce
  <2>2. \A l \in 1..Len(t) : l \in 1..Len(table) \/ l = Len(table) + 1
    <3>1. Len(table) \in Nat /\ Len(t) = Len(table) + 1
      BY <1>1, <1>3
    <3>2. QED
      BY <3>1
  <2>3. \A l \in 1..Len(table) : t[l] # fd
    BY <1>3
  <2>4. QED
    BY <1>3, <2>1, <2>2, <2>3
<1>9. Apart(o)
  <2> SUFFICES ASSUME NEW j \in 1..Len(o), NEW k \in 1..Len(o),
                      o[j].pollFdsIndex = o[k].pollFdsIndex
               PROVE  j = k
    BY DEF Apart
  <2>1. \A l \in 1..Len(o) : l \in 1..Len(own) \/ l = Len(own) + 1
    BY <1>1, <1>5
  <2>2. ASSUME NEW l \in 1..Len(own)
        PROVE  o[l].pollFdsIndex # Len(table) + 1
    <3>1. o[l] = own[l]
      BY <1>5
    <3>2. own[l].pollFdsIndex \in 2..Len(table)
      BY <1>2
    <3>3. Len(table) \in Nat
      BY <1>1
    <3>4. QED
      BY <3>1, <3>2, <3>3
  <2>3. o[Len(own) + 1].pollFdsIndex = Len(table) + 1
    BY <1>4, <1>5
  <2>4. CASE j \in 1..Len(own) /\ k \in 1..Len(own)
    BY <1>5, <2>4 DEF Consistent, Apart
  <2>5. QED
    BY <2>1, <2>2, <2>3, <2>4
<1>10. Disjoint(o, others)
  <2> SUFFICES ASSUME NEW j \in 1..Len(o), NEW k \in 1..Len(others)
               PROVE  o[j].pollFdsIndex # others[k].pollFdsIndex
    BY DEF Disjoint
  <2>1. CASE j \in 1..Len(own)
    BY <1>5, <2>1 DEF Consistent, Disjoint
  <2>2. CASE j = Len(own) + 1
    BY <1>1, <1>2, <1>4, <1>5, <2>2
  <2>3. QED
    BY <1>1, <1>5, <2>1, <2>2
<1>11. /\ Len(t) = 1 + Len(o) + Len(others)
       /\ t[ACCEPT_INDEX] = listenFd
  BY <1>1, <1>3, <1>5 DEF ACCEPT_INDEX
<1>12. Apart(others)
  BY DEF Consistent
<1>13. Consistent(t, o, others)
  BY <1>6, <1>7, <1>8, <1>9, <1>10, <1>11, <1>12 DEF Consistent
<1>14. QED
  BY <1>3, <1>5, <1>13 DEF c, t, o

\* Clients and servers play the same part in Consistent.
LEMMA ConsistentSymmetric ==
  ASSUME NEW table \in Seq(Fds \cup {listenFd}),
         NEW own \in Seq(Connection), NEW others \in Seq(Connection),
         Consistent(table, own, others)
  PROVE  Consistent(table, others, own)
<1>1. Len(own) \in Nat /\ Len(others) \in Nat
  BY LenProperties
<1>2. Len(table) = 1 + Len(others) + Len(own)
  BY <1>1 DEF Consistent
<1>3. Disjoint(others, own)
  BY DEF Consistent, Disjoint
<1>4. QED
  BY <1>2, <1>3 DEF Consistent

-----------------------------------------------------------------------------
\* The invariant that induction needs: a type and the consistency of the
\* three vectors, which the positions' bounds make inductive together.
Inv == TypeOK /\ IndexConsistent

\* The empty table is consistent.
LEMMA InitInv == Init => Inv
<1> SUFFICES ASSUME Init PROVE Inv
  OBVIOUS
<1>1. TypeOK
  BY DEF Init, TypeOK
<1>2. Len(pollFds) = 1 /\ pollFds[1] = listenFd
  BY DEF Init
<1>3. Len(clientConnections) = 0 /\ Len(serverConnections) = 0
  BY DEF Init
<1>4. IndexConsistent
  BY <1>2, <1>3 DEF IndexConsistent, Consistent, PolledOnce, PointsHome, Apart,
                    Disjoint, ACCEPT_INDEX
<1>5. QED
  BY <1>1, <1>4 DEF Inv

\* Every operation on the table keeps it consistent.
LEMMA StepInv == Inv /\ [Next]_vars => Inv'
<1> SUFFICES ASSUME Inv, [Next]_vars PROVE Inv'
  OBVIOUS
<1> USE DEF Inv, TypeOK, IndexConsistent
<1>1. ASSUME NEW fd \in Fds, AddClient(fd)
      PROVE  Inv'
  <2>1. \A k \in 1..Len(pollFds) : pollFds[k] # fd
    BY <1>1, LenProperties DEF AddClient, Polled
  <2>2. QED
    BY <1>1, <2>1, AdditionKeepsConsistent DEF AddClient, NewConnection
<1>2. ASSUME NEW fd \in Fds, AddServer(fd)
      PROVE  Inv'
  <2>1. \A k \in 1..Len(pollFds) : pollFds[k] # fd
    BY <1>2, LenProperties DEF AddServer, Polled
  <2>2. Consistent(pollFds, serverConnections, clientConnections)
    BY ConsistentSymmetric
  <2>3. /\ pollFds' \in Seq(Fds \cup {listenFd})
        /\ serverConnections' \in Seq(Connection)
        /\ clientConnections' \in Seq(Connection)
        /\ Consistent(pollFds', serverConnections', clientConnections')
    BY <1>2, <2>1, <2>2, AdditionKeepsConsistent DEF AddServer, NewConnection
  <2>4. QED
    BY <2>3, ConsistentSymmetric
<1>3. ASSUME NEW i \in DOMAIN clientConnections, RemoveClient(i)
      PROVE  Inv'
  <2>1. i \in 1..Len(clientConnections)
    BY LenProperties
  <2>2. /\ pollFds' \in Seq(Fds \cup {listenFd})
        /\ clientConnections' \in Seq(Connection)
        /\ serverConnections' \in Seq(Connection)
        /\ Consistent(pollFds', clientConnections', serverConnections')
    BY <1>3, <2>1, RemovalKeepsConsistent DEF RemoveClient, eraseConnection
  <2>3. QED
    BY <2>2
<1>4. ASSUME NEW j \in DOMAIN serverConnections, RemoveServer(j)
      PROVE  Inv'
  <2>1. j \in 1..Len(serverConnections)
    BY LenProperties
  <2>2. Consistent(pollFds, serverConnections, clientConnections)
    BY ConsistentSymmetric
  <2>3. /\ pollFds' \in Seq(Fds \cup {listenFd})
        /\ serverConnections' \in Seq(Connection)
        /\ clientConnections' \in Seq(Connection)
        /\ Consistent(pollFds', serverConnections', clientConnections')
    BY <1>4, <2>1, <2>2, RemovalKeepsConsistent DEF RemoveServer, eraseConnection
  <2>4. QED
    BY <2>3, ConsistentSymmetric
<1>5. CASE UNCHANGED vars
  BY <1>5 DEF vars, Consistent, PolledOnce, PointsHome, Apart, Disjoint
<1>6. QED
  BY <1>1, <1>2, <1>3, <1>4, <1>5 DEF Next

(***************************************************************************)
(* In every behaviour of the three vectors (pollFds, clientConnections and *)
(* serverConnections of Proxy.h), for every set of descriptors, the        *)
(* vectors hold what they are declared to hold.                            *)
(***************************************************************************)
THEOREM TableTypeCorrect == Spec => []TypeOK
<1>1. Inv => TypeOK
  BY DEF Inv
<1>2. QED
  BY <1>1, InitInv, StepInv, PTL DEF Spec

(***************************************************************************)
(* In every behaviour of the three vectors, for every set of descriptors   *)
(* and any number of connections, each connection's pollFdsIndex is the    *)
(* position of its own pollfd and of nobody else's (Proxy.cpp 475-523).    *)
(***************************************************************************)
THEOREM PositionsStayRight == Spec => []IndexConsistent
<1>1. Inv => IndexConsistent
  BY DEF Inv
<1>2. QED
  BY <1>1, InitInv, StepInv, PTL DEF Spec

-----------------------------------------------------------------------------
(***************************************************************************)
(* The loop of eraseConnection by itself: it removes the connection it is  *)
(* asked to and no other, from any vector of connections with sockets of   *)
(* their own, however long.                                                *)
(***************************************************************************)
Elements == [socketFd : Fds, pollFdsIndex : Int]

OriginalOK ==
    /\ original \in Seq(Elements)
    /\ toRemove \in 1..Len(original)
    /\ Loop!SocketsApart(original)

\* Before the first move: the elements seen are not the one to remove.
Finding ==
    phase = "find" =>
        /\ vector = original
        /\ first \in 1..toRemove

\* Behind toRemove everything kept has moved by one; from result on
\* nothing has changed yet.
Shifting ==
    phase = "shift" =>
        /\ vector \in Seq(Elements) /\ Len(vector) = Len(original)
        /\ first \in (toRemove + 1)..(Len(original) + 1)
        /\ result = first - 1
        /\ \A k \in 1..Len(original) :
            vector[k] = IF toRemove <= k /\ k < result THEN original[k + 1] ELSE original[k]

LoopInv ==
    /\ phase \in {"idle", "find", "shift", "done"}
    /\ phase # "idle" => OriginalOK
    /\ Finding
    /\ Shifting
    /\ Loop!ErasesOne

\* The invariant when remove_if is entered.
LEMMA LoopInitInv == Loop!Init => LoopInv
  BY DEF Loop!Init, LoopInv, Finding, Shifting, Loop!ErasesOne

(***************************************************************************)
(* A call begins with connections whose sockets are their own; updating    *)
(* their positions leaves the sockets.                                     *)
(***************************************************************************)
LEMMA LoopCallInv ==
  ASSUME NEW before \in Seq(Elements), NEW i \in 1..Len(before),
         Loop!SocketsApart(before), Loop!Call(before, i)
  PROVE  LoopInv'
<1> DEFINE n == Len(before)
<1>1. n \in Nat /\ DOMAIN before = 1..n /\ \A k \in 1..n : before[k] \in Elements
  BY LenProperties, ElementOfSeq
<1>2. /\ original' = Loop!updatePollFdIndexes(before, before[i].pollFdsIndex)
      /\ toRemove' = i /\ vector' = original'
      /\ first' = 1 /\ result' = 1 /\ phase' = "find"
  BY DEF Loop!Call
<1>3. original' = [k \in 1..n |-> original'[k]]
  BY <1>1, <1>2 DEF Loop!updatePollFdIndexes
<1>4. ASSUME NEW k \in 1..n
      PROVE  original'[k] \in Elements /\ original'[k].socketFd = before[k].socketFd
  <2>1. original'[k] = IF before[k].pollFdsIndex > before[i].pollFdsIndex
                       THEN [before[k] EXCEPT !.pollFdsIndex = before[k].pollFdsIndex - 1]
                       ELSE before[k]
    BY <1>1, <1>2 DEF Loop!updatePollFdIndexes
  <2>2. before[k] \in Elements
    BY <1>1
  <2>3. QED
    BY <2>1, <2>2 DEF Elements
<1>5. original' \in [1..n -> Elements]
  BY <1>3, <1>4
<1>6. original' \in Seq(Elements) /\ Len(original') = n
  BY <1>1, <1>5, SeqDef
<1>7. \A k, l \in 1..n : original'[k].socketFd = original'[l].socketFd => k = l
  BY <1>4 DEF Loop!SocketsApart
<1>8. OriginalOK'
  BY <1>2, <1>6, <1>7 DEF OriginalOK, Loop!SocketsApart
<1>9. QED
  BY <1>1, <1>2, <1>8 DEF LoopInv, Finding, Shifting, Loop!ErasesOne

\* One comparison, with the move it may cause, keeps the invariant.
LEMMA LoopStepInv == LoopInv /\ Loop!Step => LoopInv'
<1> SUFFICES ASSUME LoopInv, Loop!Step PROVE LoopInv'
  OBVIOUS
<1> DEFINE n == Len(original)
<1>0. /\ OriginalOK /\ n \in Nat /\ toRemove \in 1..n
      /\ DOMAIN original = 1..n
      /\ \A k \in 1..n : original[k] \in Elements
      /\ \A i, j \in 1..n : original[i].socketFd = original[j].socketFd => i = j
  <2>1. OriginalOK
    BY DEF Loop!Step, Loop!Find, Loop!Shift, Loop!EraseRest, LoopInv
  <2>2. QED
    BY <2>1, LenProperties, ElementOfSeq DEF OriginalOK, Loop!SocketsApart
<1>1. CASE Loop!Find
  <2>0. /\ vector = original /\ first \in 1..toRemove
        /\ phase = "find" /\ first \in Nat /\ toRemove \in Nat
        /\ UNCHANGED <<original, toRemove, vector>>
    BY <1>0, <1>1 DEF Loop!Find, LoopInv, Finding
  <2>1. OriginalOK'
    BY <1>0, <2>0 DEF OriginalOK
  <2>2. CASE ~Loop!IsRemoved(first)
    <3>1. first # toRemove
      BY <2>2 DEF Loop!IsRemoved
    <3>2. /\ first' = first + 1 /\ phase' = "find"
      BY <1>1, <2>0, <2>2 DEF Loop!Find
    <3>3. first' \in 1..toRemove'
      BY <2>0, <3>1, <3>2
    <3>4. QED
      BY <2>0, <2>1, <3>2, <3>3 DEF LoopInv, Finding, Shifting, Loop!ErasesOne
  <2>3. CASE Loop!IsRemoved(first)
    <3>1. first = toRemove
      BY <1>0, <2>0, <2>3 DEF Loop!IsRemoved
    <3>2. result' = first /\ first' = first + 1 /\ phase' = "shift"
      BY <1>1, <2>3 DEF Loop!Find
    <3>3. Shifting'
      BY <1>0, <2>0, <3>1, <3>2 DEF Shifting, OriginalOK
    <3>4. QED
      BY <2>1, <3>2, <3>3 DEF LoopInv, Finding, Loop!ErasesOne
  <2>4. QED
    BY <2>2, <2>3
<1>2. CASE Loop!Shift
  <2>0. /\ vector \in Seq(Elements) /\ Len(vector) = n
        /\ DOMAIN vector = 1..n
        /\ first \in (toRemove + 1)..n
        /\ result = first - 1
        /\ phase = "shift" /\ phase' = "shift" /\ first' = first + 1
        /\ UNCHANGED <<original, toRemove>>
        /\ \A k \in 1..n : vector[k] =
                IF toRemove <= k /\ k < result THEN original[k + 1] ELSE original[k]
    BY <1>0, <1>2, LenProperties DEF Loop!Shift, LoopInv, Shifting
  <2>1. first \in 1..n /\ toRemove + 1 \in Nat /\ result \in 1..n
    BY <1>0, <2>0
  <2>2. vector[first] = original[first]
    BY <1>0, <2>0, <2>1
  <2>3. vector[toRemove] = original[toRemove] \/
          (first > toRemove + 1 /\ vector[toRemove] = original[toRemove + 1])
    BY <1>0, <2>0
  <2>4. ~Loop!IsRemoved(first)
    BY <1>0, <2>0, <2>1, <2>2, <2>3 DEF Loop!IsRemoved
  <2>5. /\ vector' = [vector EXCEPT ![result] = original[first]]
        /\ result' = result + 1
    BY <1>2, <2>2, <2>4 DEF Loop!Shift
  <2>6. vector' \in Seq(Elements) /\ Len(vector') = n
    BY <1>0, <2>0, <2>1, <2>5, ExceptSeq
  <2>7. \A k \in 1..n : vector'[k] = IF k = result THEN original[first] ELSE vector[k]
    BY <2>0, <2>5
  <2>8. \A k \in 1..n : vector'[k] =
            IF toRemove <= k /\ k < result' THEN original[k + 1] ELSE original[k]
    <3> SUFFICES ASSUME NEW k \in 1..n
                 PROVE  vector'[k] = IF toRemove <= k /\ k < result'
                                     THEN original[k + 1] ELSE original[k]
      OBVIOUS
    <3>1. /\ first \in Int /\ toRemove \in Int /\ k \in Int
          /\ result = first - 1 /\ result' = first /\ toRemove + 1 <= first
      BY <1>0, <2>0, <2>5
    <3>2. CASE k = result
      <4>1. k + 1 = first /\ toRemove <= k /\ k < result'
        BY <3>1, <3>2
      <4>2. QED
        BY <2>7, <3>2, <4>1
    <3>3. CASE k # result
      <4>1. vector'[k] = vector[k] /\ (k < result' <=> k < result)
        BY <2>7, <3>1, <3>3
      <4>2. QED
        BY <2>0, <4>1
    <3>4. QED
      BY <3>2, <3>3
  <2>9. first' \in (toRemove' + 1)..(n + 1) /\ result' = first' - 1
    BY <1>0, <2>0, <2>1, <2>5
  <2>10. Shifting'
    BY <2>0, <2>6, <2>8, <2>9 DEF Shifting
  <2>11. OriginalOK'
    BY <1>0, <2>0 DEF OriginalOK
  <2>12. QED
    BY <2>0, <2>10, <2>11 DEF LoopInv, Finding, Loop!ErasesOne
<1>3. CASE Loop!EraseRest
  <2>0. /\ vector \in Seq(Elements) /\ Len(vector) = n
        /\ DOMAIN vector = 1..n
        /\ result = n
        /\ vector' = SubSeq(vector, 1, n - 1)
        /\ phase' = "done"
        /\ UNCHANGED <<original, toRemove>>
        /\ \A k \in 1..n : vector[k] =
                IF toRemove <= k /\ k < n THEN original[k + 1] ELSE original[k]
    <3>1. /\ phase = "shift" /\ first \notin DOMAIN vector
          /\ vector' = SubSeq(vector, 1, result - 1)
          /\ phase' = "done" /\ UNCHANGED <<original, toRemove>>
      BY <1>3 DEF Loop!EraseRest
    <3>2. /\ vector \in Seq(Elements) /\ Len(vector) = n
          /\ first \in (toRemove + 1)..(n + 1) /\ result = first - 1
          /\ \A k \in 1..n : vector[k] =
                IF toRemove <= k /\ k < result THEN original[k + 1] ELSE original[k]
      BY <3>1 DEF LoopInv, Shifting
    <3>3. DOMAIN vector = 1..n
      BY <3>2, LenProperties
    <3>4. first = n + 1 /\ result = n
      <4>1. first \in Int /\ toRemove + 1 <= first /\ first <= n + 1 /\ 1 <= toRemove
        BY <1>0, <3>2
      <4>2. ~(first \in 1..n)
        BY <3>1, <3>3
      <4> HIDE DEF n
      <4>3. QED
        BY <1>0, <3>2, <4>1, <4>2
    <3>5. QED
      BY <3>1, <3>2, <3>3, <3>4
  <2>1. \A k \in 1..(n - 1) : vector[k] \in Elements
    BY <2>0, <1>0, ElementOfSeq
  <2>2. /\ vector' \in Seq(Elements)
        /\ Len(vector') = n - 1
        /\ \A k \in 1..(n - 1) : vector'[k] = vector[k]
    <3>1. /\ SubSeq(vector, 1, n - 1) \in Seq(Elements)
          /\ Len(SubSeq(vector, 1, n - 1)) = IF 1 <= n - 1 THEN (n - 1) - 1 + 1 ELSE 0
          /\ \A k \in 1..((n - 1) - 1 + 1) : SubSeq(vector, 1, n - 1)[k] = vector[1 + k - 1]
      BY <1>0, <2>0, <2>1, SubSeqProperties
    <3>2. QED
      BY <1>0, <2>0, <3>1
  <2>3. /\ RemoveAt(original, toRemove) \in Seq(Elements)
        /\ Len(RemoveAt(original, toRemove)) = n - 1
        /\ \A k \in 1..(n - 1) : RemoveAt(original, toRemove)[k] =
                IF k < toRemove THEN original[k] ELSE original[k + 1]
    BY <1>0, RemoveAtProperties DEF OriginalOK
  <2>4. \A k \in 1..(n - 1) : vector'[k] = RemoveAt(original, toRemove)[k]
    BY <1>0, <2>0, <2>2, <2>3
  <2>5. vector' = RemoveAt(original, toRemove)
    BY <1>0, <2>2, <2>3, <2>4, SeqEqual
  <2>6. Loop!ErasesOne'
    BY <2>0, <2>5 DEF Loop!ErasesOne, Loop!eraseConnection, Loop!RemoveAt, RemoveAt
  <2>7. OriginalOK'
    BY <1>0, <2>0 DEF OriginalOK
  <2>8. QED
    BY <2>0, <2>6, <2>7 DEF LoopInv, Finding, Shifting
<1>4. QED
  BY <1>1, <1>2, <1>3 DEF Loop!Step

\* So does every step.
LEMMA LoopNextInv == LoopInv /\ [Loop!Next]_(Loop!vars) => LoopInv'
<1> SUFFICES ASSUME LoopInv, [Loop!Next]_(Loop!vars) PROVE LoopInv'
  OBVIOUS
<1>1. ASSUME NEW connections \in Loop!Vectors, NEW i \in 1..Len(connections),
             Loop!SocketsApart(connections), Loop!Call(connections, i)
      PROVE  LoopInv'
  BY <1>1, LoopCallInv DEF Loop!Vectors, Elements
<1>2. CASE UNCHANGED Loop!vars
  BY <1>2 DEF Loop!vars, LoopInv, OriginalOK, Finding, Shifting, Loop!ErasesOne
<1>3. QED
  BY <1>1, <1>2, LoopStepInv DEF Loop!Next

(***************************************************************************)
(* eraseConnection (226-230) takes away the connection it was given and no *)
(* other, although its argument moves under the loop.                      *)
(***************************************************************************)
THEOREM EraseRemovesItsArgument == Loop!Spec => []Loop!ErasesOne
<1>1. LoopInv => Loop!ErasesOne
  BY DEF LoopInv
<1>2. QED
  BY LoopInitInv, LoopNextInv, <1>1, PTL DEF Loop!Spec

-----------------------------------------------------------------------------
(***************************************************************************)
(* The loop takes the right element out of every vector that Proxy.cpp can *)
(* build: that connections have sockets of their own, which remove_if      *)
(* needs, is what has been established above.                              *)
(***************************************************************************)
(***************************************************************************)
(* In a consistent table a socket belongs to one connection of a vector:   *)
(* two with the same descriptor would have pollfds with the same           *)
(* descriptor, and none is polled twice.                                   *)
(***************************************************************************)
LEMMA OwnSockets ==
  ASSUME NEW table \in Seq(Fds \cup {listenFd}),
         NEW own \in Seq(Connection), NEW others \in Seq(Connection),
         Consistent(table, own, others)
  PROVE  own \in Seq(Elements) /\ Loop!SocketsApart(own)
<1>1. \A k \in 1..Len(own) : own[k] \in Elements
  <2>1. Connection \subseteq Elements
    BY DEF Connection, Elements
  <2>2. QED
    BY <2>1, ElementOfSeq
<1>2. own \in Seq(Elements)
  <2>1. own \in [1..Len(own) -> Elements] /\ Len(own) \in Nat
    BY <1>1, LenProperties
  <2>2. QED
    BY <2>1, SeqDef
<1>3. ASSUME NEW i \in 1..Len(own), NEW j \in 1..Len(own),
             own[i].socketFd = own[j].socketFd
      PROVE  i = j
  <2>1. /\ own[i].pollFdsIndex \in 1..Len(table) /\ own[j].pollFdsIndex \in 1..Len(table)
        /\ table[own[i].pollFdsIndex] = own[i].socketFd
        /\ table[own[j].pollFdsIndex] = own[j].socketFd
    BY LenProperties DEF Consistent, PointsHome, ACCEPT_INDEX
  <2>2. own[i].pollFdsIndex = own[j].pollFdsIndex
    BY <1>3, <2>1 DEF Consistent, PolledOnce
  <2>3. QED
    BY <2>2 DEF Consistent, Apart
<1>4. Loop!SocketsApart(own)
  BY <1>3 DEF Loop!SocketsApart
<1>5. QED
  BY <1>2, <1>4

ErasingInv == Inv /\ LoopInv

\* The erasing passes start where the table and remove_if start.
LEMMA ErasingInitInv == ErasingInit => ErasingInv
  BY InitInv, LoopInitInv DEF ErasingInit, ErasingInv

\* Every step of the erasing table keeps its invariant.
LEMMA ErasingStepInv == ErasingInv /\ [ErasingNext]_<<vars, loopVars>> => ErasingInv'
<1> SUFFICES ASSUME ErasingInv, [ErasingNext]_<<vars, loopVars>> PROVE ErasingInv'
  OBVIOUS
<1>0. /\ Inv /\ LoopInv
      /\ UNCHANGED vars => Inv'
      /\ UNCHANGED loopVars => LoopInv'
  <2>1. UNCHANGED loopVars => UNCHANGED Loop!vars
    BY DEF loopVars, Loop!vars
  <2>2. Inv /\ LoopInv
    BY DEF ErasingInv
  <2>3. QED
    BY <2>1, <2>2, StepInv, LoopNextInv
<1>1. CASE Adding
  BY <1>0, <1>1, StepInv DEF Adding, Next, ErasingInv
<1>2. ASSUME NEW i \in DOMAIN clientConnections,
             RemoveClient(i), Loop!Call(clientConnections, i)
      PROVE  ErasingInv'
  <2>1. Inv'
    BY <1>0, <1>2, StepInv DEF Next
  <2>2. /\ clientConnections \in Seq(Elements)
        /\ Loop!SocketsApart(clientConnections)
    BY <1>0, OwnSockets DEF Inv, TypeOK, IndexConsistent
  <2>3. i \in 1..Len(clientConnections)
    BY <2>2, LenProperties
  <2>4. LoopInv'
    BY <1>2, <2>2, <2>3, LoopCallInv
  <2>5. QED
    BY <2>1, <2>4 DEF ErasingInv
<1>3. ASSUME NEW j \in DOMAIN serverConnections,
             RemoveServer(j), Loop!Call(serverConnections, j)
      PROVE  ErasingInv'
  <2>1. Inv'
    BY <1>0, <1>3, StepInv DEF Next
  <2>2. Consistent(pollFds, serverConnections, clientConnections)
    BY <1>0, ConsistentSymmetric DEF Inv, TypeOK, IndexConsistent
  <2>3. /\ serverConnections \in Seq(Elements)
        /\ Loop!SocketsApart(serverConnections)
    BY <1>0, <2>2, OwnSockets DEF Inv, TypeOK
  <2>4. j \in 1..Len(serverConnections)
    BY <2>3, LenProperties
  <2>5. LoopInv'
    BY <1>3, <2>3, <2>4, LoopCallInv
  <2>6. QED
    BY <2>1, <2>5 DEF ErasingInv
<1>4. CASE Erasing
  <2>1. LoopInv'
    BY <1>0, <1>4, LoopStepInv DEF Erasing
  <2>2. QED
    BY <1>0, <1>4, <2>1 DEF Erasing, ErasingInv
<1>5. CASE UNCHANGED <<vars, loopVars>>
  BY <1>0, <1>5 DEF ErasingInv
<1>6. QED
  BY <1>1, <1>2, <1>3, <1>4, <1>5 DEF ErasingNext, ErasingClient, ErasingServer

(***************************************************************************)
(* Whatever connections have come and gone, the loop of eraseConnection    *)
(* (226-230) removes the connection it was called for and no other.        *)
(***************************************************************************)
THEOREM EraseTakesTheRightOne == ErasingSpec => []ErasesOne
<1>1. ErasingInv => ErasesOne
  BY DEF ErasingInv, LoopInv, ErasesOne
<1>2. QED
  BY ErasingInitInv, ErasingStepInv, <1>1, PTL DEF ErasingSpec
=============================================================================
