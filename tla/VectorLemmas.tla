---------------------------- MODULE VectorLemmas ----------------------------
(***************************************************************************)
(* What erasing from a vector does, for the proofs about the tables.       *)
(***************************************************************************)
EXTENDS Connections, SequenceTheorems, WellFoundedInduction, TLAPS

\* The smallest of some numbers is one of them, and not above any.
LEMMA MinIsLeast ==
  ASSUME NEW S, S \subseteq Nat, S # {}
  PROVE  Min(S) \in S /\ \A y \in S : Min(S) <= y
<1>1. PICK x \in S : \A y \in S : ~ (<<y, x>> \in OpToRel(<, Nat))
  BY NatLessThanWellFounded, WFMin
<1>2. ASSUME NEW y \in S
      PROVE  x <= y
  <2>1. x \in Nat /\ y \in Nat
    OBVIOUS
  <2>2. ~(y < x)
    BY <1>1, <2>1 DEF OpToRel
  <2>3. QED
    BY <2>1, <2>2
<1>3. QED
  BY <1>2 DEF Min

\* The half of that which most need.
LEMMA MinIsElement ==
  ASSUME NEW S, S \subseteq Nat, S # {}
  PROVE  Min(S) \in S
  BY MinIsLeast

(***************************************************************************)
(* RemoveAt, the model of vector::erase(position): every element keeps its *)
(* value, and those behind the position move down by one.                  *)
(***************************************************************************)
LEMMA RemoveAtProperties ==
  ASSUME NEW S, NEW s \in Seq(S), NEW i \in 1..Len(s)
  PROVE  /\ RemoveAt(s, i) \in Seq(S)
         /\ Len(RemoveAt(s, i)) = Len(s) - 1
         /\ \A j \in 1..(Len(s) - 1) :
                RemoveAt(s, i)[j] = IF j < i THEN s[j] ELSE s[j + 1]
<1> DEFINE a == SubSeq(s, 1, i - 1)
           b == SubSeq(s, i + 1, Len(s))
<1>0. /\ Len(s) \in Nat
      /\ \A j \in 1..Len(s) : s[j] \in S
  BY LenProperties, ElementOfSeq
<1>1. /\ a \in Seq(S)
      /\ Len(a) = i - 1
      /\ \A j \in 1..(i - 1) : a[j] = s[j]
  <2>1. \A j \in 1..(i - 1) : s[j] \in S
    BY <1>0
  <2>2. /\ a \in Seq(S)
        /\ Len(a) = IF 1 <= i-1 THEN (i-1) - 1 + 1 ELSE 0
        /\ \A j \in 1..((i-1) - 1 + 1) : a[j] = s[1 + j - 1]
    BY <1>0, <2>1, SubSeqProperties
  <2> HIDE DEF a
  <2>3. QED
    BY <1>0, <2>2
<1>2. /\ b \in Seq(S)
      /\ Len(b) = Len(s) - i
      /\ \A j \in 1..(Len(s) - i) : b[j] = s[i + j]
  <2>1. \A j \in (i + 1)..Len(s) : s[j] \in S
    BY <1>0
  <2>2. /\ b \in Seq(S)
        /\ Len(b) = IF i+1 <= Len(s) THEN Len(s) - (i+1) + 1 ELSE 0
        /\ \A j \in 1..(Len(s) - (i+1) + 1) : b[j] = s[(i+1) + j - 1]
    BY <1>0, <2>1, SubSeqProperties
  <2> HIDE DEF b
  <2>3. QED
    BY <1>0, <2>2
<1>3. RemoveAt(s, i) = a \o b
  BY DEF RemoveAt
<1> HIDE DEF a, b
<1>4. /\ a \o b \in Seq(S)
      /\ Len(a \o b) = Len(a) + Len(b)
      /\ \A j \in 1..(Len(a) + Len(b)) :
            (a \o b)[j] = IF j <= Len(a) THEN a[j] ELSE b[j - Len(a)]
  BY <1>1, <1>2, ConcatProperties
<1>5. QED
  BY <1>0, <1>1, <1>2, <1>3, <1>4

(***************************************************************************)
(* The connections of Proxy.cpp with descriptors F, URLs U and buffers B,  *)
(* and what updatePollFdIndexes does to a vector of them: positions behind *)
(* the deleted one move down by one, and nothing else changes.             *)
(***************************************************************************)
ConnectionsOf(F, U, B) == [socketFd : F, pollFdsIndex : Nat \ {0}, URl : U, buffer : B]

Moved(k, p) == IF k > p THEN k - 1 ELSE k

\* c is d, but perhaps for its position.
SameConnection(c, d) == c.socketFd = d.socketFd /\ c.URl = d.URl /\ c.buffer = d.buffer

\* Renumbering touches positions only, each as Moved says.
LEMMA UpdateMoves ==
  ASSUME NEW F, NEW U, NEW B, NEW conns \in Seq(ConnectionsOf(F, U, B)), NEW p \in Nat \ {0}
  PROVE  /\ updatePollFdIndexes(conns, p) \in Seq(ConnectionsOf(F, U, B))
         /\ Len(updatePollFdIndexes(conns, p)) = Len(conns)
         /\ \A i \in 1..Len(conns) :
              /\ SameConnection(updatePollFdIndexes(conns, p)[i], conns[i])
              /\ updatePollFdIndexes(conns, p)[i].pollFdsIndex = Moved(conns[i].pollFdsIndex, p)
<1> DEFINE u == updatePollFdIndexes(conns, p)
<1>1. /\ Len(conns) \in Nat
      /\ DOMAIN conns = 1..Len(conns)
      /\ \A i \in 1..Len(conns) : conns[i] \in ConnectionsOf(F, U, B)
  BY LenProperties, ElementOfSeq
<1>2. \A i \in 1..Len(conns) :
        u[i] = IF conns[i].pollFdsIndex > p
               THEN [conns[i] EXCEPT !.pollFdsIndex = conns[i].pollFdsIndex - 1]
               ELSE conns[i]
  BY <1>1 DEF updatePollFdIndexes
<1>3. u = [i \in 1..Len(conns) |-> u[i]]
  BY <1>1 DEF updatePollFdIndexes
<1> HIDE DEF u
<1>4. ASSUME NEW i \in 1..Len(conns)
      PROVE  /\ u[i] \in ConnectionsOf(F, U, B)
             /\ SameConnection(u[i], conns[i])
             /\ u[i].pollFdsIndex = Moved(conns[i].pollFdsIndex, p)
  <2> DEFINE c == conns[i]
  <2>1. c \in ConnectionsOf(F, U, B) /\ c.pollFdsIndex \in Nat \ {0}
    BY <1>1 DEF ConnectionsOf
  <2>2. u[i] = IF c.pollFdsIndex > p
               THEN [c EXCEPT !.pollFdsIndex = c.pollFdsIndex - 1] ELSE c
    BY <1>2
  <2> HIDE DEF c
  <2>3. CASE c.pollFdsIndex > p
    <3>1. c.pollFdsIndex - 1 \in Nat \ {0}
      BY <2>1, <2>3
    <3>2. u[i] = [c EXCEPT !.pollFdsIndex = c.pollFdsIndex - 1]
      BY <2>2, <2>3
    <3>3. /\ u[i] \in ConnectionsOf(F, U, B)
          /\ SameConnection(u[i], c)
          /\ u[i].pollFdsIndex = c.pollFdsIndex - 1
      BY <2>1, <3>1, <3>2 DEF ConnectionsOf, SameConnection
    <3>4. QED
      BY <2>3, <3>3 DEF c, Moved
  <2>4. CASE ~(c.pollFdsIndex > p)
    BY <2>1, <2>2, <2>4 DEF c, Moved, SameConnection
  <2>5. QED
    BY <2>3, <2>4
<1>5. u \in Seq(ConnectionsOf(F, U, B)) /\ Len(u) = Len(conns)
  BY <1>1, <1>3, <1>4
<1>6. QED
  BY <1>4, <1>5 DEF u

=============================================================================
