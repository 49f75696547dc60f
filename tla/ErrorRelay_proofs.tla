-------------------------- MODULE ErrorRelay_proofs --------------------------
(***************************************************************************)
(* Proofs that clients are told the answers to their own requests, for     *)
(* every size of the buffer, any chunks and any number of them.            *)
(***************************************************************************)
EXTENDS ErrorRelay, VectorLemmas, TLAPS

Event == [kind : {"chunk", "failure"}, text : Chunks \cup Messages, to : SUBSET Clients]

\* What a record of errors may be, as an answer to a client.
Answers(c, text) ==
    \E n \in DOMAIN log :
        /\ LastRecordedFor(c, n)
        /\ IsPrefix(UpToNul(log[n].text), text)
        /\ text = UpToNul(log[n].text) \/ ShowsMore(n)

\* What the buffer holds behind its beginning came with a chunk that long.
BufferReceived ==
    \A k \in 1..BUF_SIZE : buf[k] # NUL =>
        \E m \in DOMAIN log : log[m].kind = "chunk" /\ Len(log[m].text) >= k

(***************************************************************************)
(* Besides: every record that is kept or told answers its client, who is   *)
(* watched for output until it is told, and told only once.                *)
(***************************************************************************)
RelayInv ==
    /\ buf \in [1..BUF_SIZE -> Bytes]
    /\ log \in Seq(Event)
    /\ BufferReceived
    /\ \A c \in DOMAIN errors : Answers(c, errors[c])
    /\ \A c \in DOMAIN told : Answers(c, told[c])
    /\ DOMAIN errors \subseteq woken
    /\ DOMAIN told \subseteq gone

-----------------------------------------------------------------------------
(***************************************************************************)
(* Strings of C in the buffer.                                             *)
(***************************************************************************)
\* A sequence that another one begins with.
LEMMA PrefixByElements ==
  ASSUME NEW s \in Seq(Bytes), NEW t \in Seq(Bytes), Len(s) <= Len(t),
         \A k \in 1..Len(s) : s[k] = t[k]
  PROVE  IsPrefix(s, t)
<1>1. Len(s) \in Nat /\ Len(t) \in Nat
  BY LenProperties
<1>2. \A k \in 1..Len(s) : s[k] \in Bytes /\ t[k] \in Bytes
  BY <1>1, ElementOfSeq
<1> DEFINE a == SubSeq(s, 1, Len(s))
           b == SubSeq(t, 1, Len(s))
<1>3. /\ a \in Seq(Bytes) /\ Len(a) = IF 1 <= Len(s) THEN Len(s) - 1 + 1 ELSE 0
      /\ \A k \in 1..(Len(s) - 1 + 1) : a[k] = s[1 + k - 1]
  BY <1>1, <1>2, SubSeqProperties
<1>4. /\ b \in Seq(Bytes) /\ Len(b) = IF 1 <= Len(s) THEN Len(s) - 1 + 1 ELSE 0
      /\ \A k \in 1..(Len(s) - 1 + 1) : b[k] = t[1 + k - 1]
  BY <1>1, <1>2, SubSeqProperties
<1> HIDE DEF a, b
<1>5. Len(a) = Len(s) /\ Len(b) = Len(s) /\ \A k \in 1..Len(s) : a[k] = b[k]
  BY <1>1, <1>3, <1>4
<1>6. a = b
  BY <1>3, <1>4, <1>5, SeqEqual
<1>7. QED
  BY <1>6 DEF IsPrefix, a, b

\* u is what bytes hold up to the first NUL.
IsCString(u, bytes) ==
    /\ u \in Seq(Bytes) /\ Len(u) <= Len(bytes)
    /\ \A k \in 1..Len(u) : u[k] = bytes[k] /\ bytes[k] # NUL
    /\ Len(u) < Len(bytes) => bytes[Len(u) + 1] = NUL

\* UpToNul finds it.
LEMMA UpToNulIsCString ==
  ASSUME NEW bytes \in Seq(Bytes)
  PROVE  IsCString(UpToNul(bytes), bytes)
<1>0. /\ Len(bytes) \in Nat /\ DOMAIN bytes = 1..Len(bytes)
      /\ \A k \in 1..Len(bytes) : bytes[k] \in Bytes
  BY LenProperties, ElementOfSeq
<1> DEFINE nuls == {k \in DOMAIN bytes : bytes[k] = NUL}
<1>1. CASE NUL \notin Range(bytes)
  <2>1. \A k \in 1..Len(bytes) : bytes[k] # NUL
    BY <1>0, <1>1 DEF Range
  <2>2. UpToNul(bytes) = bytes
    BY <1>1 DEF UpToNul
  <2>3. QED
    BY <1>0, <2>1, <2>2 DEF IsCString
<1>2. CASE NUL \in Range(bytes)
  <2>1. nuls \subseteq Nat /\ nuls # {}
    BY <1>0, <1>2 DEF Range
  <2> DEFINE f == Min(nuls)
             u == SubSeq(bytes, 1, f - 1)
  <2>2. f \in nuls /\ \A k \in nuls : f <= k
    BY <2>1, MinIsLeast
  <2>3. UpToNul(bytes) = u
    BY <1>2 DEF UpToNul
  <2>4. f \in 1..Len(bytes) /\ bytes[f] = NUL
    BY <1>0, <2>2
  <2>5. \A k \in 1..Len(bytes) : bytes[k] = NUL => f <= k
    BY <1>0, <2>2
  <2> HIDE DEF f, nuls
  <2>6. /\ u \in Seq(Bytes) /\ Len(u) = IF 1 <= f - 1 THEN (f - 1) - 1 + 1 ELSE 0
        /\ \A k \in 1..((f - 1) - 1 + 1) : u[k] = bytes[1 + k - 1]
    <3>1. \A k \in 1..(f - 1) : bytes[k] \in Bytes
      BY <1>0, <2>4
    <3>2. 1 \in Int /\ f - 1 \in Int
      BY <1>0, <2>4
    <3>3. QED
      BY <3>1, <3>2, SubSeqProperties
  <2> HIDE DEF u
  <2>7. Len(u) = f - 1 /\ \A k \in 1..(f - 1) : u[k] = bytes[k]
    BY <1>0, <2>4, <2>6
  <2>8. \A k \in 1..(f - 1) : bytes[k] # NUL
    BY <1>0, <2>4, <2>5
  <2>9. QED
    BY <1>0, <2>3, <2>4, <2>6, <2>7, <2>8 DEF IsCString
<1>3. QED
  BY <1>1, <1>2

\* A chunk fills the buffer or leaves room behind it.
LEMMA ChunkFits ==
  ASSUME NEW chunk \in Chunks
  PROVE  Len(chunk) = BUF_SIZE \/ Len(chunk) < BUF_SIZE
<1>1. Len(chunk) \in 1..BUF_SIZE /\ BUF_SIZE \in Nat
  BY RelayAssumption
<1> DEFINE l == Len(chunk)
<1>2. l \in Int /\ BUF_SIZE \in Int /\ l <= BUF_SIZE
  BY <1>1
<1> HIDE DEF l
<1>3. l = BUF_SIZE \/ l < BUF_SIZE
  BY <1>2
<1>4. QED
  BY <1>3 DEF l

(***************************************************************************)
(* The string at a buffer that a chunk has been received into begins with  *)
(* the string in the chunk, and is that string unless the chunk fills the  *)
(* buffer or ends where the buffer held something before.                  *)
(***************************************************************************)
LEMMA ChunkIsRelayed ==
  ASSUME buf \in [1..BUF_SIZE -> Bytes], NEW chunk \in Chunks,
         buf' = receiveData(chunk), NEW text, text \in CString(buf')
  PROVE  /\ buf' \in [1..BUF_SIZE -> Bytes]
         /\ IsPrefix(UpToNul(chunk), text)
         /\ \/ text = UpToNul(chunk)
            \/ Len(chunk) = BUF_SIZE
            \/ buf[Len(chunk) + 1] # NUL
<1> DEFINE u == UpToNul(chunk)
           a == UpToNul(buf')
<1>0. /\ chunk \in Seq(Bytes) /\ Len(chunk) \in 1..BUF_SIZE /\ BUF_SIZE \in Nat
      /\ DOMAIN chunk = 1..Len(chunk)
      /\ \A k \in 1..Len(chunk) : chunk[k] \in Bytes
  <2>1. chunk \in Seq(Bytes) /\ Len(chunk) \in 1..BUF_SIZE /\ BUF_SIZE \in Nat
    BY RelayAssumption
  <2>2. QED
    BY <2>1, LenProperties, ElementOfSeq
<1>1. /\ buf' = [k \in 1..BUF_SIZE |-> IF k \in DOMAIN chunk THEN chunk[k] ELSE buf[k]]
      /\ buf' \in [1..BUF_SIZE -> Bytes]
  BY <1>0 DEF receiveData
<1>2. \A k \in 1..BUF_SIZE : buf'[k] = IF k <= Len(chunk) THEN chunk[k] ELSE buf[k]
  BY <1>0, <1>1
<1>3. buf' \in Seq(Bytes) /\ Len(buf') = BUF_SIZE
  BY <1>0, <1>1, SeqDef
<1>4. IsCString(u, chunk) /\ IsCString(a, buf')
  BY <1>0, <1>3, UpToNulIsCString
<1> HIDE DEF u, a
<1>5. /\ u \in Seq(Bytes) /\ Len(u) \in Nat /\ a \in Seq(Bytes) /\ Len(a) \in Nat
      /\ Len(u) <= Len(chunk) /\ Len(a) <= BUF_SIZE
  BY <1>3, <1>4, LenProperties DEF IsCString
<1>6. Len(u) <= Len(a)
  <2> SUFFICES ASSUME Len(a) < Len(u) PROVE FALSE
    BY <1>5
  <2>1. Len(a) + 1 \in 1..Len(u) /\ Len(a) + 1 \in 1..BUF_SIZE /\ Len(a) + 1 <= Len(chunk)
    BY <1>0, <1>5
  <2>2. buf'[Len(a) + 1] = NUL
    BY <1>0, <1>3, <1>4, <1>5, <2>1 DEF IsCString
  <2>3. buf'[Len(a) + 1] = chunk[Len(a) + 1]
    BY <1>2, <2>1
  <2>4. QED
    BY <1>4, <2>1, <2>2, <2>3 DEF IsCString
<1>7. \A k \in 1..Len(u) : u[k] = buf'[k] /\ u[k] = a[k]
  <2> SUFFICES ASSUME NEW k \in 1..Len(u) PROVE u[k] = buf'[k] /\ u[k] = a[k]
    OBVIOUS
  <2>1. k \in 1..BUF_SIZE /\ k <= Len(chunk) /\ k \in 1..Len(a)
    BY <1>0, <1>5, <1>6
  <2>2. QED
    BY <1>2, <1>4, <2>1 DEF IsCString
<1>8. ASSUME Len(u) < BUF_SIZE, buf'[Len(u) + 1] = NUL
      PROVE  text = u
  <2>1. Len(u) + 1 \in 1..BUF_SIZE
    BY <1>0, <1>5, <1>8
  <2>2. NUL \in Range(buf')
    BY <1>1, <1>8, <2>1 DEF Range
  <2>3. text = a
    BY <2>2 DEF CString, a
  <2>4. Len(a) = Len(u)
    <3> SUFFICES ASSUME Len(u) < Len(a) PROVE FALSE
      BY <1>5, <1>6
    <3>1. Len(u) + 1 \in 1..Len(a)
      BY <1>5
    <3>2. QED
      BY <1>4, <1>8, <3>1 DEF IsCString
  <2>5. a = u
    BY <1>5, <1>7, <2>4, SeqEqual
  <2>6. QED
    BY <2>3, <2>5
<1>9. IsPrefix(u, text)
  <2>1. CASE NUL \in Range(buf')
    <3>1. text = a
      BY <2>1 DEF CString, a
    <3>2. QED
      BY <1>5, <1>6, <1>7, <3>1, PrefixByElements
  <2>2. CASE NUL \notin Range(buf')
    <3>1. PICK more \in Behind : text = buf' \o more
      BY <2>2 DEF CString
    <3>2. more \in Seq(Bytes)
      BY RelayAssumption
    <3>3. /\ text \in Seq(Bytes) /\ Len(text) = Len(buf') + Len(more)
          /\ \A k \in 1..Len(buf') : text[k] = buf'[k]
          /\ Len(more) \in Nat
      <4>1. /\ buf' \o more \in Seq(Bytes) /\ Len(buf' \o more) = Len(buf') + Len(more)
            /\ \A k \in 1..(Len(buf') + Len(more)) :
                 (buf' \o more)[k] = IF k <= Len(buf') THEN buf'[k] ELSE more[k - Len(buf')]
        BY <1>3, <3>2, ConcatProperties
      <4>2. Len(more) \in Nat
        BY <3>2, LenProperties
      <4>3. QED
        BY <1>0, <1>3, <3>1, <4>1, <4>2
    <3>4. Len(u) <= Len(text) /\ \A k \in 1..Len(u) : u[k] = text[k]
      BY <1>0, <1>3, <1>5, <1>7, <3>3
    <3>5. QED
      BY <1>5, <3>3, <3>4, PrefixByElements
  <2>3. QED
    BY <2>1, <2>2
<1>10. ASSUME Len(chunk) < BUF_SIZE, buf[Len(chunk) + 1] = NUL
       PROVE  text = u
  <2>1. Len(u) < BUF_SIZE
    BY <1>0, <1>5, <1>10
  <2>2. buf'[Len(u) + 1] = NUL
    <3>1. CASE Len(u) < Len(chunk)
      <4>1. chunk[Len(u) + 1] = NUL
        BY <1>4, <3>1 DEF IsCString
      <4>2. QED
        BY <1>0, <1>2, <1>5, <3>1, <4>1
    <3>2. CASE Len(u) = Len(chunk)
      BY <1>0, <1>2, <1>10, <2>1, <3>2
    <3>3. QED
      BY <1>0, <1>5, <3>1, <3>2
  <2>3. QED
    BY <1>8, <2>1, <2>2
<1>11. Len(chunk) = BUF_SIZE \/ Len(chunk) < BUF_SIZE
  BY ChunkFits
<1>12. QED
  BY <1>1, <1>9, <1>10, <1>11 DEF u

-----------------------------------------------------------------------------
\* Before anything is received.
LEMMA InitRelay == Init => RelayInv
<1> SUFFICES ASSUME Init PROVE RelayInv
  OBVIOUS
<1>1. buf \in [1..BUF_SIZE -> Bytes] /\ \A k \in 1..BUF_SIZE : buf[k] = NUL
  BY RelayAssumption DEF Init
<1>2. log = <<>> /\ log \in Seq(Event) /\ errors = <<>> /\ told = <<>>
  BY DEF Init
<1>3. QED
  BY <1>1, <1>2 DEF RelayInv, BufferReceived

\* The texts of events are strings of bytes.
LEMMA EventTexts ==
  ASSUME NEW event \in Event
  PROVE  /\ event.text \in Seq(Bytes) /\ Len(event.text) \in Nat
         /\ event.to \in SUBSET Clients
<1>1. event.text \in Seq(Bytes) /\ event.to \in SUBSET Clients
  BY RelayAssumption DEF Event
<1>2. QED
  BY <1>1, LenProperties

\* The log before and after an event.
LEMMA LogGrows ==
  ASSUME log \in Seq(Event), NEW event \in Event, log' = Append(log, event)
  PROVE  /\ Len(log) \in Nat /\ DOMAIN log = 1..Len(log)
         /\ log' \in Seq(Event) /\ DOMAIN log' = 1..(Len(log) + 1)
         /\ \A m \in 1..Len(log) : log'[m] = log[m] /\ log[m] \in Event
         /\ log'[Len(log) + 1] = event
BY LenProperties, AppendProperties, ElementOfSeq

\* An event that is not for a client leaves what its record answers.
LEMMA StillAnswers ==
  ASSUME log \in Seq(Event), NEW event \in Event, log' = Append(log, event),
         NEW c, NEW text, c \notin event.to, Answers(c, text)
  PROVE  Answers(c, text)'
<1>1. PICK n \in DOMAIN log :
        /\ LastRecordedFor(c, n)
        /\ IsPrefix(UpToNul(log[n].text), text)
        /\ text = UpToNul(log[n].text) \/ ShowsMore(n)
  BY DEF Answers
<1>2. n \in DOMAIN log' /\ log'[n] = log[n] /\ \A m \in 1..(n - 1) : log'[m] = log[m]
  BY <1>1, LogGrows
<1>3. LastRecordedFor(c, n)'
  BY <1>1, <1>2, LogGrows DEF LastRecordedFor
<1>4. ShowsMore(n) => ShowsMore(n)'
  BY <1>2 DEF ShowsMore
<1>5. QED
  BY <1>1, <1>2, <1>3, <1>4 DEF Answers

\* A message of a failure is its own beginning, and has nothing behind it.
LEMMA MessageIsRelayed ==
  ASSUME NEW message \in Messages
  PROVE  message = UpToNul(message) /\ IsPrefix(UpToNul(message), message)
<1>1. message \in Seq(Bytes) /\ NUL \notin Range(message)
  BY RelayAssumption
<1>2. UpToNul(message) = message
  BY <1>1 DEF UpToNul
<1>3. Len(message) \in Nat
  BY <1>1, LenProperties
<1>4. IsPrefix(message, message)
  BY <1>1, <1>3, PrefixByElements
<1>5. QED
  BY <1>2, <1>4

(***************************************************************************)
(* An event: what is recorded of it answers the clients it is for.         *)
(***************************************************************************)
LEMMA EventAnswers ==
  ASSUME RelayInv, NEW event \in Event, log' = Append(log, event),
         NEW c \in event.to, NEW text,
         \/ /\ event.kind = "chunk" /\ event.text \in Chunks
            /\ buf' = receiveData(event.text) /\ text \in CString(buf')
         \/ event.kind = "failure" /\ event.text \in Messages /\ text = event.text
  PROVE  Answers(c, text)'
<1>0. PICK n : n = Len(log) + 1
  OBVIOUS
<1>1. /\ Len(log) \in Nat /\ DOMAIN log = 1..Len(log)
      /\ n \in DOMAIN log' /\ log'[n] = event /\ n \in Nat
      /\ \A m \in DOMAIN log' : m <= n
      /\ \A m \in DOMAIN log : m \in 1..(n - 1) /\ log'[m] = log[m] /\ log[m] \in Event
  BY <1>0, LogGrows DEF RelayInv
<1>2. LastRecordedFor(c, n)'
  BY <1>1 DEF LastRecordedFor
<1>3. CASE event.kind = "failure" /\ event.text \in Messages /\ text = event.text
  <2>1. text = UpToNul(event.text) /\ IsPrefix(UpToNul(event.text), text)
    BY <1>3, MessageIsRelayed
  <2>2. QED
    BY <1>1, <1>2, <2>1 DEF Answers
<1>4. CASE /\ event.kind = "chunk" /\ event.text \in Chunks
           /\ buf' = receiveData(event.text) /\ text \in CString(buf')
  <2> DEFINE chunk == event.text
  <2>1. /\ IsPrefix(UpToNul(chunk), text)
        /\ \/ text = UpToNul(chunk)
           \/ Len(chunk) = BUF_SIZE
           \/ buf[Len(chunk) + 1] # NUL
    BY <1>4, ChunkIsRelayed DEF RelayInv
  <2>2. Len(chunk) = BUF_SIZE \/ Len(chunk) < BUF_SIZE
    BY <1>4, ChunkFits
  <2>3. ASSUME Len(chunk) < BUF_SIZE, buf[Len(chunk) + 1] # NUL
        PROVE  \E m \in 1..(n - 1) : log'[m].kind = "chunk" /\ Len(log'[m].text) > Len(chunk)
    <3>1. Len(chunk) \in Nat /\ BUF_SIZE \in Nat
      BY <1>4, RelayAssumption, EventTexts
    <3>2. Len(chunk) + 1 \in 1..BUF_SIZE
      BY <2>3, <3>1
    <3>3. PICK m \in DOMAIN log : log[m].kind = "chunk" /\ Len(log[m].text) >= Len(chunk) + 1
      BY <2>3, <3>2 DEF RelayInv, BufferReceived
    <3>4. m \in 1..(n - 1) /\ log'[m] = log[m] /\ Len(log[m].text) \in Nat
      BY <1>1, <3>3, EventTexts
    <3>5. Len(log[m].text) > Len(chunk)
      BY <3>1, <3>3, <3>4
    <3>6. QED
      BY <3>3, <3>4, <3>5
  <2>4. text = UpToNul(chunk) \/ ShowsMore(n)'
    BY <1>1, <1>4, <2>1, <2>2, <2>3 DEF ShowsMore
  <2>5. QED
    BY <1>1, <1>2, <2>1, <2>4 DEF Answers
<1>5. QED
  BY <1>3, <1>4

\* What a client was recorded or told before an event that is not for it.
LEMMA EventForOthers ==
  ASSUME RelayInv, NEW event \in Event, log' = Append(log, event)
  PROVE  \A c, text : c \notin event.to /\ Answers(c, text) => Answers(c, text)'
BY StillAnswers DEF RelayInv

\* The buffer and the log after an event.
LEMMA EventReceived ==
  ASSUME RelayInv, NEW event \in Event, log' = Append(log, event),
         \/ event.kind = "chunk" /\ event.text \in Chunks /\ buf' = receiveData(event.text)
         \/ buf' = buf
  PROVE  buf' \in [1..BUF_SIZE -> Bytes] /\ log' \in Seq(Event) /\ BufferReceived'
<1>1. /\ buf \in [1..BUF_SIZE -> Bytes] /\ log \in Seq(Event) /\ BufferReceived
  BY DEF RelayInv
<1>2. /\ log' \in Seq(Event) /\ Len(log) + 1 \in DOMAIN log' /\ log'[Len(log) + 1] = event
      /\ \A m \in DOMAIN log : m \in DOMAIN log' /\ log'[m] = log[m]
  BY <1>1, LogGrows
<1>3. ASSUME NEW k \in 1..BUF_SIZE, buf[k] # NUL
      PROVE  \E m \in DOMAIN log' : log'[m].kind = "chunk" /\ Len(log'[m].text) >= k
  <2>1. PICK m \in DOMAIN log : log[m].kind = "chunk" /\ Len(log[m].text) >= k
    BY <1>1, <1>3 DEF BufferReceived
  <2>2. QED
    BY <1>2, <2>1
<1>4. CASE buf' = buf
  BY <1>1, <1>2, <1>3, <1>4 DEF BufferReceived
<1>5. CASE event.kind = "chunk" /\ event.text \in Chunks /\ buf' = receiveData(event.text)
  <2> DEFINE chunk == event.text
  <2>1. chunk \in Seq(Bytes) /\ Len(chunk) \in 1..BUF_SIZE /\ BUF_SIZE \in Nat
    BY <1>5, RelayAssumption
  <2>2. /\ DOMAIN chunk = 1..Len(chunk)
        /\ \A k \in 1..Len(chunk) : chunk[k] \in Bytes
    BY <2>1, LenProperties, ElementOfSeq
  <2>3. buf' = [k \in 1..BUF_SIZE |-> IF k \in DOMAIN chunk THEN chunk[k] ELSE buf[k]]
    BY <1>5 DEF receiveData
  <2>4. buf' \in [1..BUF_SIZE -> Bytes]
    BY <1>1, <2>1, <2>2, <2>3
  <2>5. ASSUME NEW k \in 1..BUF_SIZE, buf'[k] # NUL
        PROVE  \E m \in DOMAIN log' : log'[m].kind = "chunk" /\ Len(log'[m].text) >= k
    <3>1. CASE k \in DOMAIN chunk
      BY <1>2, <1>5, <2>1, <2>2, <3>1
    <3>2. CASE k \notin DOMAIN chunk
      BY <1>3, <2>3, <2>5, <3>2
    <3>3. QED
      BY <3>1, <3>2
  <2>6. QED
    BY <1>2, <2>4, <2>5 DEF BufferReceived
<1>6. QED
  BY <1>4, <1>5

-----------------------------------------------------------------------------
\* A step with an event: what is new in the tables answers its clients.
LEMMA EventStep ==
  ASSUME RelayInv, NEW event \in Event, log' = Append(log, event),
         \/ event.kind = "chunk" /\ event.text \in Chunks /\ buf' = receiveData(event.text)
         \/ buf' = buf,
         (\A c \in DOMAIN errors : c \in event.to => Answers(c, errors[c]))',
         (\A c \in DOMAIN told : c \in event.to => Answers(c, told[c]))',
         \A c \in DOMAIN errors' :
            c \notin event.to => c \in DOMAIN errors /\ errors'[c] = errors[c],
         \A c \in DOMAIN told' :
            c \notin event.to => c \in DOMAIN told /\ told'[c] = told[c],
         DOMAIN errors' \subseteq woken', DOMAIN told' \subseteq gone'
  PROVE  RelayInv'
<1>1. buf' \in [1..BUF_SIZE -> Bytes] /\ log' \in Seq(Event) /\ BufferReceived'
  BY EventReceived
<1>2. (\A c \in DOMAIN errors : Answers(c, errors[c]))'
  <2> SUFFICES ASSUME NEW c \in DOMAIN errors', NEW text, text = errors'[c], c \notin event.to
               PROVE  Answers(c, text)'
    BY DEF Answers, LastRecordedFor, ShowsMore
  <2>1. Answers(c, text)
    BY DEF RelayInv
  <2>2. QED
    BY <2>1, EventForOthers
<1>3. (\A c \in DOMAIN told : Answers(c, told[c]))'
  <2> SUFFICES ASSUME NEW c \in DOMAIN told', NEW text, text = told'[c], c \notin event.to
               PROVE  Answers(c, text)'
    BY DEF Answers, LastRecordedFor, ShowsMore
  <2>1. Answers(c, text)
    BY DEF RelayInv
  <2>2. QED
    BY <2>1, EventForOthers
<1>4. QED
  BY <1>1, <1>2, <1>3 DEF RelayInv

(***************************************************************************)
(* A fetch is refused or fails: the clients of its URL get a record, and   *)
(* no other record changes.                                                *)
(***************************************************************************)
LEMMA NotifyStep ==
  ASSUME RelayInv, NEW url \in Urls, NEW event \in Event, log' = Append(log, event),
         event.to = ClientsOf(url), NEW text, Notify(ClientsOf(url), text), Wake(url),
         UNCHANGED <<gone, told>>,
         \/ /\ event.kind = "chunk" /\ event.text \in Chunks
            /\ buf' = receiveData(event.text) /\ text \in CString(buf')
         \/ /\ event.kind = "failure" /\ event.text \in Messages /\ text = event.text
            /\ buf' = buf
  PROVE  RelayInv'
<1>1. \A c \in event.to : Answers(c, text)'
  BY EventAnswers
<1>2. \A c \in DOMAIN errors' :
        \/ c \in event.to /\ errors'[c] = text
        \/ c \in DOMAIN errors /\ c \notin event.to /\ errors'[c] = errors[c]
  BY DEF Notify
<1>3. (\A c \in DOMAIN errors : c \in event.to => Answers(c, errors[c]))'
  BY <1>1, <1>2 DEF Answers, LastRecordedFor, ShowsMore
<1>4. \A c \in DOMAIN told' : c \notin event.to /\ c \in DOMAIN told /\ told'[c] = told[c]
  BY DEF RelayInv, ClientsOf
<1>5. (\A c \in DOMAIN told : c \in event.to => Answers(c, told[c]))'
  BY <1>4
<1>6. DOMAIN errors' \subseteq woken' /\ DOMAIN told' \subseteq gone'
  BY <1>2 DEF RelayInv, Wake
<1>7. QED
  BY <1>2, <1>3, <1>4, <1>5, <1>6, EventStep

\* A fetch reads a chunk, which is refused or stored.
LEMMA ReceiveStep ==
  ASSUME RelayInv, NEW url \in Urls, ReceiveFromServer(url)
  PROVE  RelayInv'
<1>1. Wake(url) /\ UNCHANGED <<gone, told>>
  BY DEF ReceiveFromServer
<1>2. PICK chunk \in Chunks :
        /\ buf' = receiveData(chunk)
        /\ \/ /\ Records("chunk", chunk, ClientsOf(url))
              /\ \E text \in CString(buf') : Notify(ClientsOf(url), text)
           \/ Records("chunk", chunk, {}) /\ UNCHANGED errors
  BY DEF ReceiveFromServer
<1>3. CASE /\ Records("chunk", chunk, ClientsOf(url))
           /\ \E text \in CString(buf') : Notify(ClientsOf(url), text)
  <2> DEFINE event == [kind |-> "chunk", text |-> chunk, to |-> ClientsOf(url)]
  <2>1. /\ event \in Event /\ log' = Append(log, event)
        /\ event.kind = "chunk" /\ event.text = chunk /\ event.to = ClientsOf(url)
    BY <1>3 DEF Event, Records, ClientsOf
  <2>2. PICK text \in CString(buf') : Notify(ClientsOf(url), text)
    BY <1>3
  <2> HIDE DEF event
  <2>3. QED
    BY <1>1, <1>2, <2>1, <2>2, NotifyStep
<1>4. CASE Records("chunk", chunk, {}) /\ UNCHANGED errors
  <2> DEFINE event == [kind |-> "chunk", text |-> chunk, to |-> {}]
  <2>1. /\ event \in Event /\ log' = Append(log, event)
        /\ event.kind = "chunk" /\ event.text = chunk /\ event.to = {}
    BY <1>4 DEF Event, Records
  <2> HIDE DEF event
  <2>2. DOMAIN errors' \subseteq woken' /\ DOMAIN told' \subseteq gone'
    BY <1>1, <1>4 DEF RelayInv, Wake
  <2>3. /\ \A c \in DOMAIN errors' : c \in DOMAIN errors /\ errors'[c] = errors[c]
        /\ \A c \in DOMAIN told' : c \in DOMAIN told /\ told'[c] = told[c]
    BY <1>1, <1>4
  <2>4. /\ (\A c \in DOMAIN errors : c \in event.to => Answers(c, errors[c]))'
        /\ (\A c \in DOMAIN told : c \in event.to => Answers(c, told[c]))'
    BY <2>1
  <2>5. QED
    BY <1>2, <2>1, <2>2, <2>3, <2>4, EventStep
<1>5. QED
  BY <1>2, <1>3, <1>4

\* A fetch fails.
LEMMA FailureStep ==
  ASSUME RelayInv, NEW url \in Urls, FetchFails(url)
  PROVE  RelayInv'
<1>1. PICK text \in Messages :
        Records("failure", text, ClientsOf(url)) /\ Notify(ClientsOf(url), text)
  BY DEF FetchFails
<1>2. Wake(url) /\ UNCHANGED <<buf, gone, told>>
  BY DEF FetchFails
<1> DEFINE event == [kind |-> "failure", text |-> text, to |-> ClientsOf(url)]
<1>3. /\ event \in Event /\ log' = Append(log, event)
      /\ event.kind = "failure" /\ event.text = text /\ event.to = ClientsOf(url)
  BY <1>1 DEF Event, Records, ClientsOf
<1> HIDE DEF event
<1>4. QED
  BY <1>1, <1>2, <1>3, NotifyStep

\* What the removal of a client leaves in the tables.
LEMMA RemovalLeaves ==
  ASSUME RelayInv, NEW c \in Clients, removeClientConnection(c)
  PROVE  /\ c \notin DOMAIN errors' /\ c \in gone' /\ gone \subseteq gone'
         /\ \A d \in DOMAIN errors' : d \in DOMAIN errors /\ errors'[d] = errors[d]
         /\ DOMAIN errors' \subseteq woken'
BY DEF RelayInv, removeClientConnection, Erase

\* The turn of a client throws: there is no record that emplace() keeps.
LEMMA ClientFailsStep ==
  ASSUME RelayInv, NEW c \in Clients, ClientFails(c)
  PROVE  RelayInv'
<1>1. PICK text \in Messages :
        Records("failure", text, {c}) /\ told' = Assign(told, c, Emplaced(c, text)[c])
  BY DEF ClientFails
<1>2. removeClientConnection(c) /\ buf' = buf /\ c \notin DOMAIN errors
  BY DEF ClientFails, RelayInv
<1>3. \A d \in DOMAIN told' : \/ d = c /\ told'[d] = text
                              \/ d # c /\ d \in DOMAIN told /\ told'[d] = told[d]
  BY <1>1, <1>2 DEF Assign, Emplaced
<1> DEFINE event == [kind |-> "failure", text |-> text, to |-> {c}]
<1>4. /\ event \in Event /\ log' = Append(log, event)
      /\ event.kind = "failure" /\ event.text = text /\ event.to = {c}
  BY <1>1 DEF Event, Records
<1> HIDE DEF event
<1>5. Answers(c, text)'
  BY <1>4, EventAnswers
<1>6. (\A d \in DOMAIN told : d \in event.to => Answers(d, told[d]))'
  BY <1>3, <1>4, <1>5 DEF Answers, LastRecordedFor, ShowsMore
<1>7. (\A d \in DOMAIN errors : d \in event.to => Answers(d, errors[d]))'
  BY <1>2, <1>4, RemovalLeaves
<1>8. DOMAIN told' \subseteq gone'
  BY <1>2, <1>3, RemovalLeaves DEF RelayInv
<1>9. QED
  BY <1>2, <1>3, <1>4, <1>6, <1>7, <1>8, RemovalLeaves, EventStep

\* The steps without an event: records are kept, dropped or told.
LEMMA QuietStep ==
  ASSUME RelayInv, UNCHANGED <<buf, log>>,
         \A c \in DOMAIN errors' : c \in DOMAIN errors /\ errors'[c] = errors[c],
         \A c \in DOMAIN told' :
            \/ c \in DOMAIN told /\ told'[c] = told[c]
            \/ c \in DOMAIN errors /\ told'[c] = errors[c],
         DOMAIN errors' \subseteq woken', DOMAIN told' \subseteq gone'
  PROVE  RelayInv'
<1>1. \A c, text : Answers(c, text) => Answers(c, text)'
  BY DEF Answers, LastRecordedFor, ShowsMore
<1>2. \A c \in DOMAIN errors' : Answers(c, errors'[c])
  BY DEF RelayInv
<1>3. \A c \in DOMAIN told' : Answers(c, told'[c])
  <2> SUFFICES ASSUME NEW c \in DOMAIN told' PROVE Answers(c, told'[c])
    OBVIOUS
  <2>1. CASE c \in DOMAIN told /\ told'[c] = told[c]
    BY <2>1 DEF RelayInv
  <2>2. CASE c \in DOMAIN errors /\ told'[c] = errors[c]
    BY <2>2 DEF RelayInv
  <2>3. QED
    BY <2>1, <2>2
<1>4. QED
  BY <1>1, <1>2, <1>3 DEF RelayInv, BufferReceived

\* A client is told what was recorded for it.
LEMMA TellingStep ==
  ASSUME RelayInv, NEW c \in Clients, checkForErrors(c)
  PROVE  RelayInv'
<1>1. /\ c \in DOMAIN errors /\ told' = Assign(told, c, errors[c])
      /\ removeClientConnection(c) /\ UNCHANGED <<buf, log>>
  BY DEF checkForErrors, MessageOf
<1>2. \A d \in DOMAIN told' : \/ d = c /\ told'[d] = errors[c]
                              \/ d \in DOMAIN told /\ told'[d] = told[d]
  BY <1>1 DEF Assign
<1>3. DOMAIN told' \subseteq gone'
  BY <1>1, <1>2, RemovalLeaves DEF RelayInv
<1>4. QED
  BY <1>1, <1>2, <1>3, RemovalLeaves, QuietStep

\* A client is removed without a word.
LEMMA RemovalStep ==
  ASSUME RelayInv, NEW c \in Clients, removeClientConnection(c), UNCHANGED <<buf, log, told>>
  PROVE  RelayInv'
<1>1. DOMAIN told' \subseteq gone'
  BY RemovalLeaves DEF RelayInv
<1>2. QED
  BY <1>1, RemovalLeaves, QuietStep

\* Every step of the relay keeps RelayInv.
LEMMA StepRelay == RelayInv /\ [Next]_vars => RelayInv'
<1> SUFFICES ASSUME RelayInv, [Next]_vars PROVE RelayInv'
  OBVIOUS
<1>0. DOMAIN errors \subseteq woken /\ DOMAIN told \subseteq gone
  BY DEF RelayInv
<1>1. ASSUME NEW c \in Clients, NEW url \in Urls, Ask(c, url) PROVE RelayInv'
  <2>1. UNCHANGED <<buf, log, errors, told, gone>> /\ woken \subseteq woken'
    BY <1>1 DEF Ask
  <2>2. QED
    BY <1>0, <2>1, QuietStep
<1>2. ASSUME NEW c \in Clients, Serve(c) PROVE RelayInv'
  <2>1. CASE removeClientConnection(c)
    BY <1>2, <2>1, RemovalStep DEF Serve
  <2>2. CASE woken' \in {woken, woken \ {c}} /\ UNCHANGED <<URl, gone, errors>>
    <3>1. UNCHANGED <<buf, log, errors, told, gone>> /\ c \notin DOMAIN errors
      BY <1>2, <2>2 DEF Serve
    <3>2. QED
      BY <1>0, <2>2, <3>1, QuietStep
  <2>3. QED
    BY <1>2, <2>1, <2>2 DEF Serve
<1>3. ASSUME NEW c \in Clients, ClientLeaves(c) PROVE RelayInv'
  BY <1>3, RemovalStep DEF ClientLeaves
<1>4. ASSUME NEW url \in Urls, FetchEnds(url) \/ ServerGone(url) PROVE RelayInv'
  <2>1. UNCHANGED <<buf, log, errors, told, gone>> /\ woken \subseteq woken'
    BY <1>4 DEF FetchEnds, ServerGone, Wake, clientVars
  <2>2. QED
    BY <1>0, <2>1, QuietStep
<1>5. CASE UNCHANGED vars
  BY <1>0, <1>5, QuietStep DEF vars, clientVars
<1>6. QED
  BY <1>1, <1>2, <1>3, <1>4, <1>5, ReceiveStep, FailureStep, ClientFailsStep, TellingStep DEF Next

(***************************************************************************)
(* However many fetches share the buffer, a client that is told an error   *)
(* is told what its request came to last, an answer that was refused or a  *)
(* failure of its own or of a fetch (386, 416, 326 and 240).               *)
(***************************************************************************)
THEOREM ClientsAreToldTheirAnswers == Spec => []ToldItsAnswer
<1>1. RelayInv => ToldItsAnswer
  BY DEF RelayInv, Answers, ToldItsAnswer
<1>2. QED
  BY InitRelay, StepRelay, <1>1, PTL DEF Spec

(***************************************************************************)
(* Behind that answer it is told nothing, unless a longer chunk was in the *)
(* buffer before or the answer leaves no room for a NUL (386).             *)
(***************************************************************************)
THEOREM NothingElseIsTold == Spec => []OnlyALongerChunkShows
<1>1. RelayInv => OnlyALongerChunkShows
  BY DEF RelayInv, Answers, OnlyALongerChunkShows
<1>2. QED
  BY InitRelay, StepRelay, <1>1, PTL DEF Spec
=============================================================================
