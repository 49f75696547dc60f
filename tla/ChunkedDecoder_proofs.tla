----------------------- MODULE ChunkedDecoder_proofs -----------------------
(***************************************************************************)
(* Proofs about ChunkedDecoder for streams of any length, in any pieces,   *)
(* and a size_t of any number of hexadecimal digits.                       *)
(***************************************************************************)
EXTENDS ChunkedDecoder, SequenceTheorems, TLAPS

(***************************************************************************)
(* decode_hex returns a digit or -1.                                       *)
(***************************************************************************)
LEMMA DigitRange == \A c : decode_hex(c) \in -1..15
<1>. SUFFICES ASSUME NEW c PROVE decode_hex(c) \in -1..15
  OBVIOUS
<1> DEFINE places == {i \in 1..22 : HexDigits[i] = c}
           place == CHOOSE i \in places : TRUE
<1>1. places # {} => place \in places
  OBVIOUS
<1>2. places # {} => place \in 1..22
  BY <1>1
<1>3. decode_hex(c) = IF places = {} THEN -1 ELSE IF place <= 16 THEN place - 1 ELSE place - 7
  BY DEF decode_hex
<1> HIDE DEF places, place
<1>4. QED
  BY <1>2, <1>3

(***************************************************************************)
(* memmove to a place in front of its source keeps the length and what     *)
(* lies behind the source.                                                 *)
(***************************************************************************)
LEMMA MemmoveProperties ==
  ASSUME NEW b \in Seq(Bytes), NEW to \in Nat, NEW from \in Nat, NEW n \in Nat,
         to <= from, from + n <= Len(b)
  PROVE  /\ memmove(b, to, from, n) \in Seq(Bytes)
         /\ Len(memmove(b, to, from, n)) = Len(b)
         /\ \A i \in from + n + 1..Len(b) : memmove(b, to, from, n)[i] = b[i]
<1> DEFINE m == memmove(b, to, from, n)
<1>1. /\ Len(b) \in Nat
      /\ DOMAIN b = 1..Len(b)
      /\ \A i \in 1..Len(b) : b[i] \in Bytes
  BY LenProperties, ElementOfSeq
<1>2. /\ m = [i \in 1..Len(b) |-> m[i]]
      /\ \A i \in 1..Len(b) : m[i] = IF i \in to + 1..to + n THEN b[i - to + from] ELSE b[i]
  BY <1>1 DEF memmove
<1> HIDE DEF m
<1>3. \A i \in 1..Len(b) : m[i] \in Bytes
  BY <1>1, <1>2
<1>4. m \in [1..Len(b) -> Bytes]
  BY <1>2, <1>3
<1>5. m \in Seq(Bytes) /\ Len(m) = Len(b)
  BY <1>1, <1>4
<1>6. \A i \in from + n + 1..Len(b) : m[i] = b[i]
  BY <1>1, <1>2
<1>7. QED
  BY <1>5, <1>6 DEF m

(***************************************************************************)
(* A prefix of a sequence is one.                                          *)
(***************************************************************************)
LEMMA PieceIsSeq ==
  ASSUME NEW s \in Seq(Bytes), NEW i \in Nat, NEW k \in Nat, i + k <= Len(s)
  PROVE  SubSeq(s, i + 1, i + k) \in Seq(Bytes) /\ Len(SubSeq(s, i + 1, i + k)) = k
<1>1. \A j \in i + 1..i + k : s[j] \in Bytes
  <2>1. Len(s) \in Nat
    BY LenProperties
  <2>2. \A j \in i + 1..i + k : j \in 1..Len(s)
    BY <2>1
  <2>3. QED
    BY <2>2, ElementOfSeq
<1>2. QED
  BY <1>1, SubSeqProperties

\* The elements of a piece, where they stand in the whole.
LEMMA PieceElements ==
  ASSUME NEW s \in Seq(Bytes), NEW i \in Nat, NEW k \in Nat, i + k <= Len(s)
  PROVE  \A j \in 1..k : SubSeq(s, i + 1, i + k)[j] = s[i + j]
<1>1. Len(s) \in Nat
  BY LenProperties
<1>2. \A j \in i + 1..i + k : j \in 1..Len(s)
  BY <1>1
<1>3. \A j \in i + 1..i + k : s[j] \in Bytes
  BY <1>2, ElementOfSeq
<1> DEFINE m == i + 1
           n == i + k
<1>4. m \in Int /\ n \in Int
  OBVIOUS
<1>5. \A j \in 1..n - m + 1 : SubSeq(s, m, n)[j] = s[m + j - 1]
  <2>1. \A j \in m..n : s[j] \in Bytes
    BY <1>3
  <2> HIDE DEF m, n
  <2>2. QED
    BY <1>4, <2>1, SubSeqProperties
<1>6. ASSUME NEW j \in 1..k
      PROVE  SubSeq(s, m, n)[j] = s[i + j]
  <2>1. j \in 1..n - m + 1 /\ m + j - 1 = i + j
    OBVIOUS
  <2> HIDE DEF m, n
  <2>2. QED
    BY <1>5, <2>1
<1>7. QED
  BY <1>6

(***************************************************************************)
(* One more digit: the number before it times 16, plus the digit, still    *)
(* has room if the number before it had.                                   *)
(***************************************************************************)
LEMMA DigitKeepsRoom ==
  ASSUME NEW left \in Nat, NEW v \in 0..15, NEW P \in Nat \ {0}, NEW R \in Nat,
         (left + 1) * (16 * P) <= R
  PROVE  /\ (left * 16 + v + 1) * P <= R
         /\ left * 16 + 15 < R
<1>1. (left + 1) * (16 * P) = (left * 16 + 16) * P
  OBVIOUS
<1> DEFINE x == left * 16 + v + 1
           y == left * 16 + 16
<1>2. x \in Nat /\ y \in Nat /\ x <= y
  OBVIOUS
<1>3. y * P <= R
  BY <1>1
<1>4. left * 16 + 15 < y
  OBVIOUS
<1> HIDE DEF x, y
<1>5. x * P <= y * P
  BY <1>2
<1>6. y <= y * P
  BY <1>2
<1>7. x * P \in Nat /\ y * P \in Nat
  BY <1>2
<1>8. x * P <= R
  BY <1>3, <1>5, <1>7
<1>9. y <= R
  BY <1>2, <1>3, <1>6, <1>7
<1>10. QED
  BY <1>4, <1>8, <1>9, <1>2 DEF x, y

-----------------------------------------------------------------------------
(***************************************************************************)
(* The inductive invariant.  Types alone are not inductive: the counts     *)
(* need the order of dst, src and the length of the buffer, and a digit    *)
(* needs the room that SizeHasRoom promises.                               *)
(***************************************************************************)
Inv == TypeOK /\ SizeHasRoom /\ UnreadIsIntact

\* The invariant before the first byte.
LEMMA InitInv == Init => Inv
<1> SUFFICES ASSUME Init PROVE Inv
  OBVIOUS
<1>1. <<>> \in Seq(Bytes) /\ Len(<<>>) = 0
  BY EmptySeq
<1>2. stream \in Seq(Bytes) /\ Len(stream) \in Nat
  BY DecoderAssumption, LenProperties DEF Init
<1>3. TypeOK
  <2>1. 0 \in 0..HexLimit /\ PARTIAL \in Int /\ given \in 0..Len(stream)
    BY <1>2, DecoderAssumption DEF Init, PARTIAL
  <2>2. QED
    BY <1>1, <1>2, <2>1 DEF Init, TypeOK, States
<1>4. SizeHasRoom
  BY DecoderAssumption DEF Init, SizeHasRoom, SizeRange
<1>5. UnreadIsIntact
  BY <1>1 DEF Init, UnreadIsIntact
<1>6. QED
  BY <1>3, <1>4, <1>5 DEF Inv

(***************************************************************************)
(* What the steps of a call find.                                          *)
(***************************************************************************)
LEMMA Found ==
  ASSUME Inv
  PROVE  /\ Len(buf) \in Nat /\ Len(stream) \in Nat
         /\ src \in 0..Len(buf) /\ dst \in 0..src
         /\ src < Len(buf) => ch \in Bytes
<1>1. Len(buf) \in Nat /\ Len(stream) \in Nat
  BY LenProperties DEF Inv, TypeOK
<1>2. src \in 0..Len(buf) /\ dst \in 0..src
  BY <1>1 DEF Inv, TypeOK, UnreadIsIntact
<1>3. src < Len(buf) => src + 1 \in 1..Len(buf)
  BY <1>1, <1>2
<1>4. QED
  BY <1>1, <1>2, <1>3, ElementOfSeq DEF Inv, TypeOK, ch

(***************************************************************************)
(* Reading one byte more keeps the buffer in order.                        *)
(***************************************************************************)
LEMMA ReadingKeepsOrder ==
  ASSUME Inv, src < Len(buf), Reads, SizeHasRoom',
         state' \in States, bytes_left_in_chunk' \in Nat, hex_count' \in 0..HexLimit
  PROVE  Inv'
<1>1. TypeOK'
  BY Found DEF Inv, TypeOK, Reads, call
<1>2. UnreadIsIntact'
  BY Found DEF Inv, UnreadIsIntact, Reads, call
<1>3. QED
  BY <1>1, <1>2 DEF Inv

(***************************************************************************)
(* Returning, with b in the buffer, from bytes read and to of them body.   *)
(***************************************************************************)
LEMMA ExitKeepsOrder ==
  ASSUME Inv, NEW r \in Int, NEW b \in Seq(Bytes), NEW from \in Nat, NEW to \in Nat,
         Len(b) = Len(buf), to <= from, from <= Len(b), Exit(r, b, from, to),
         SizeHasRoom',
         state' \in States, bytes_left_in_chunk' \in Nat, hex_count' \in 0..HexLimit
  PROVE  Inv'
<1>1. Len(b) \in Nat
  BY LenProperties
<1>2. buf' \in Seq(Bytes) /\ Len(buf') = Len(b)
  <2>1. Len(b) - from \in Nat /\ from + (Len(b) - from) <= Len(b)
    BY <1>1
  <2>2. buf' = memmove(b, to, from, Len(b) - from)
    BY DEF Exit
  <2>3. QED
    BY <2>1, <2>2, MemmoveProperties
<1>3. SubSeq(b, 1, to) \in Seq(Bytes)
  BY <1>1, PieceIsSeq, 0 + 1 = 1, 0 + to = to
<1>4. out' \in Seq(Bytes)
  BY <1>3, ConcatProperties DEF Exit, Inv, TypeOK
<1>5. TypeOK'
  BY <1>2, <1>4 DEF Exit, Inv, TypeOK
<1>6. UnreadIsIntact'
  BY <1>1, <1>2 DEF Exit, UnreadIsIntact
<1>7. QED
  BY <1>5, <1>6 DEF Inv

\* Leaving the decoder with an error keeps the invariant.
LEMMA ReturnKeepsInv ==
  ASSUME Inv, NEW r \in Int, Return(r)
  PROVE  Inv'
<1>1. UNCHANGED decoder /\ Exit(r, buf, src, dst)
  BY DEF Return
<1>2. /\ SizeHasRoom' /\ state' \in States
      /\ bytes_left_in_chunk' \in Nat /\ hex_count' \in 0..HexLimit
  BY <1>1 DEF decoder, Inv, TypeOK, SizeHasRoom
<1>3. buf \in Seq(Bytes) /\ src \in Nat /\ dst \in Nat /\ dst <= src /\ src <= Len(buf)
  BY Found DEF Inv, TypeOK
<1>4. QED
  BY <1>1, <1>2, <1>3, ExitKeepsOrder

\* So does the end of the last chunk.
LEMMA CompleteKeepsInv ==
  ASSUME Inv, src < Len(buf), Complete
  PROVE  Inv'
<1>1. UNCHANGED decoder /\ Exit(Len(buf) - (src + 1), buf, src + 1, dst)
  BY DEF Complete
<1>2. /\ SizeHasRoom' /\ state' \in States
      /\ bytes_left_in_chunk' \in Nat /\ hex_count' \in 0..HexLimit
  BY <1>1 DEF decoder, Inv, TypeOK, SizeHasRoom
<1>3. /\ buf \in Seq(Bytes) /\ src + 1 \in Nat /\ dst \in Nat
      /\ dst <= src + 1 /\ src + 1 <= Len(buf) /\ Len(buf) - (src + 1) \in Int
  BY Found DEF Inv, TypeOK
<1>4. QED
  BY <1>1, <1>2, <1>3, ExitKeepsOrder

\* So does a new call with the next bytes of the stream.
LEMMA SupplyKeepsInv ==
  ASSUME Inv, Supply
  PROVE  Inv'
<1> PICK n \in 0..Len(stream) - given :
        /\ piece' = SubSeq(stream, given + 1, given + n)
        /\ given' = given + n
  BY DEF Supply
<1>1. Len(stream) \in Nat /\ stream \in Seq(Bytes) /\ given \in 0..Len(stream)
  BY Found DEF Inv, TypeOK
<1>2. n \in Nat /\ given + n \in 0..Len(stream)
  BY <1>1
<1>3. piece' \in Seq(Bytes) /\ Len(piece') = n
  BY <1>1, <1>2, PieceIsSeq
<1>4. TypeOK'
  <2>1. /\ state' = state /\ bytes_left_in_chunk' = bytes_left_in_chunk
        /\ hex_count' = hex_count /\ stream' = stream /\ out' = out /\ ret' = ret
        /\ buf' = piece' /\ src' = 0 /\ dst' = 0 /\ busy' = TRUE
        /\ consume_trailer' = consume_trailer
    BY DEF Supply, decoder
  <2>2. QED
    BY <1>1, <1>2, <1>3, <2>1 DEF Inv, TypeOK
<1>5. SizeHasRoom'
  BY DEF Supply, decoder, Inv, SizeHasRoom
<1>6. UnreadIsIntact'
  BY <1>2, <1>3 DEF Supply, UnreadIsIntact
<1>7. QED
  BY <1>4, <1>5, <1>6 DEF Inv

\* So does a digit of a chunk size: the size has room for it.
LEMMA SizeDigitKeepsInv ==
  ASSUME Inv, SizeDigit
  PROVE  Inv'
<1> DEFINE v == decode_hex(ch)
           P == Power[HexLimit - hex_count']
<1>1. v \in 0..15 /\ hex_count \in 0..HexLimit - 1
  BY DigitRange, DecoderAssumption DEF SizeDigit, DigitHasRoom, Inv, TypeOK
<1>2. hex_count' = hex_count + 1 /\ hex_count' \in 0..HexLimit
  BY <1>1, DecoderAssumption DEF SizeDigit
<1>3. P \in Nat \ {0} /\ Power[HexLimit - hex_count] = 16 * P
  <2>1. HexLimit - hex_count \in 1..HexLimit /\ HexLimit - hex_count' = HexLimit - hex_count - 1
    BY <1>1, <1>2, DecoderAssumption
  <2>2. HexLimit - hex_count' \in 0..HexLimit
    BY <1>2, DecoderAssumption
  <2>3. QED
    BY <2>1, <2>2, DecoderAssumption
<1>4. bytes_left_in_chunk \in Nat /\ SizeRange \in Nat \ {0}
  BY DecoderAssumption DEF Inv, TypeOK, SizeRange
<1>5. (bytes_left_in_chunk + 1) * (16 * P) <= SizeRange
  BY <1>3 DEF Inv, SizeHasRoom, SizeDigit, Finds, In
<1> DEFINE left == bytes_left_in_chunk * 16 + v
<1>6. (left + 1) * P <= SizeRange /\ bytes_left_in_chunk * 16 + 15 < SizeRange
  <2> HIDE DEF v, P
  <2>1. QED
    BY <1>1, <1>3, <1>4, <1>5, DigitKeepsRoom
<1>7. bytes_left_in_chunk' = left /\ left \in Nat
  <2>1. left \in Nat /\ left < SizeRange
    BY <1>1, <1>4, <1>6
  <2>2. bytes_left_in_chunk' = left % SizeRange
    BY DEF SizeDigit
  <2> HIDE DEF left
  <2>3. QED
    BY <1>4, <2>1, <2>2
<1>8. state' = "SIZE" /\ src < Len(buf) /\ Reads
  BY DEF SizeDigit, Finds, In
<1>9. SizeHasRoom'
  BY <1>6, <1>7, <1>8 DEF SizeHasRoom, SizeRange
<1>10. QED
  BY <1>2, <1>7, <1>8, <1>9, ReadingKeepsOrder DEF States

\* So does data that ends with the buffer.
LEMMA DataPartKeepsInv ==
  ASSUME Inv, DataPart
  PROVE  Inv'
<1>1. /\ Len(buf) \in Nat /\ src \in 0..Len(buf) /\ dst \in 0..src
      /\ buf \in Seq(Bytes)
  BY Found DEF Inv, TypeOK
<1>2. avail \in Nat /\ src + avail = Len(buf)
  BY <1>1 DEF avail
<1> DEFINE b == memmove(buf, dst, src, avail)
<1>3. b \in Seq(Bytes) /\ Len(b) = Len(buf)
  BY <1>1, <1>2, MemmoveProperties
<1>4. Exit(PARTIAL, b, src + avail, dst + avail)
  BY DEF DataPart
<1>5. /\ state = "DATA" /\ state' = state /\ hex_count' = hex_count
      /\ avail < bytes_left_in_chunk
      /\ bytes_left_in_chunk' = bytes_left_in_chunk - avail
  BY DEF DataPart, In
<1>6. hex_count = 0 /\ hex_count \in 0..HexLimit /\ bytes_left_in_chunk \in Nat
  BY <1>5 DEF Inv, TypeOK, SizeHasRoom
<1>7. /\ SizeHasRoom' /\ state' \in States
      /\ bytes_left_in_chunk' \in Nat /\ hex_count' \in 0..HexLimit
  BY <1>2, <1>5, <1>6 DEF SizeHasRoom, States
<1>8. /\ PARTIAL \in Int /\ src + avail \in Nat /\ dst + avail \in Nat
      /\ dst + avail <= src + avail /\ src + avail <= Len(b)
  BY <1>1, <1>2, <1>3 DEF PARTIAL
<1> HIDE DEF b
<1>9. QED
  BY <1>3, <1>4, <1>7, <1>8, ExitKeepsOrder

\* So does data that ends inside the buffer.
LEMMA DataEndsKeepsInv ==
  ASSUME Inv, DataEnds
  PROVE  Inv'
<1>1. /\ Len(buf) \in Nat /\ src \in 0..Len(buf) /\ dst \in 0..src
      /\ buf \in Seq(Bytes)
  BY Found DEF Inv, TypeOK
<1> DEFINE n == bytes_left_in_chunk
<1>2. n \in Nat /\ src + n <= Len(buf)
  BY <1>1 DEF DataEnds, avail, Inv, TypeOK
<1>3. /\ buf' = memmove(buf, dst, src, n) /\ src' = src + n /\ dst' = dst + n
      /\ state = "DATA" /\ state' = "CRLF" /\ bytes_left_in_chunk' = 0
      /\ UNCHANGED hex_count /\ UNCHANGED call
  BY DEF DataEnds, In
<1>4. /\ buf' \in Seq(Bytes) /\ Len(buf') = Len(buf)
      /\ \A i \in src + n + 1..Len(buf) : buf'[i] = buf[i]
  BY <1>1, <1>2, <1>3, MemmoveProperties
<1>5. TypeOK'
  BY <1>1, <1>2, <1>3, <1>4 DEF Inv, TypeOK, call, States
<1>6. SizeHasRoom'
  BY <1>3 DEF Inv, SizeHasRoom
<1>7. UnreadIsIntact'
  <2>1. dst' <= src' /\ src' <= Len(buf')
    BY <1>1, <1>2, <1>3, <1>4
  <2>2. ASSUME busy', NEW i \in src' + 1..Len(buf')
        PROVE  buf'[i] = piece'[i]
    <3>1. i \in src + n + 1..Len(buf) /\ i \in src + 1..Len(buf)
      BY <1>1, <1>2, <1>3, <1>4
    <3>2. buf[i] = piece[i]
      BY <1>3, <2>2, <3>1 DEF Inv, UnreadIsIntact, call
    <3>3. QED
      BY <1>3, <1>4, <3>1, <3>2 DEF call
  <2>3. QED
    BY <2>1, <2>2 DEF UnreadIsIntact
<1>8. QED
  BY <1>5, <1>6, <1>7 DEF Inv

(***************************************************************************)
(* The steps that read one byte and at most go on to another state.        *)
(***************************************************************************)
LEMMA EnteringKeepsInv ==
  ASSUME Inv, src < Len(buf), Reads, NEW s \in States, Enters(s),
         state # "SIZE",
         s = "SIZE" => bytes_left_in_chunk = 0,
         s = "DATA" => bytes_left_in_chunk > 0,
         s \notin {"SIZE", "EXT", "DATA"} => bytes_left_in_chunk = 0
  PROVE  Inv'
<1>1. /\ state' = s /\ bytes_left_in_chunk' = bytes_left_in_chunk
      /\ hex_count' = hex_count /\ hex_count = 0
  BY DEF Enters, Inv, SizeHasRoom
<1>2. bytes_left_in_chunk \in Nat /\ hex_count \in 0..HexLimit
  BY DEF Inv, TypeOK
<1>3. s = "SIZE" => (bytes_left_in_chunk + 1) * Power[HexLimit - hex_count] <= SizeRange
  BY <1>1, DecoderAssumption DEF SizeRange
<1>4. SizeHasRoom'
  BY <1>1, <1>3 DEF SizeHasRoom, SizeRange
<1>5. QED
  BY <1>1, <1>2, <1>4, ReadingKeepsOrder

\* So does a byte that is read and dropped.
LEMMA ReadingOnKeepsInv ==
  ASSUME Inv, src < Len(buf), Reads, UNCHANGED decoder
  PROVE  Inv'
<1>1. /\ SizeHasRoom' /\ state' \in States
      /\ bytes_left_in_chunk' \in Nat /\ hex_count' \in 0..HexLimit
  BY DEF decoder, Inv, TypeOK, SizeHasRoom
<1>2. QED
  BY <1>1, ReadingKeepsOrder

\* So does the end of a chunk size.
LEMMA SizeEndsKeepsInv ==
  ASSUME Inv, SizeEnds
  PROVE  Inv'
<1>1. /\ state' = "EXT" /\ hex_count' = 0
      /\ UNCHANGED <<bytes_left_in_chunk, buffer, call>>
  BY DEF SizeEnds
<1>2. TypeOK'
  BY <1>1, DecoderAssumption DEF Inv, TypeOK, States, buffer, call
<1>3. SizeHasRoom'
  BY <1>1 DEF SizeHasRoom
<1>4. UnreadIsIntact'
  BY <1>1 DEF Inv, UnreadIsIntact, buffer, call
<1>5. QED
  BY <1>2, <1>3, <1>4 DEF Inv

-----------------------------------------------------------------------------
(***************************************************************************)
(* Every step keeps the invariant, whatever the bytes.                     *)
(***************************************************************************)
LEMMA StepInv == Inv /\ [Next]_vars => Inv'
<1> SUFFICES ASSUME Inv, [Next]_vars PROVE Inv'
  OBVIOUS
<1>0. PARTIAL \in Int /\ FAILED \in Int
  BY DEF PARTIAL, FAILED
<1>1. CASE Supply
  BY <1>1, SupplyKeepsInv
<1>2. CASE OutOfBytes
  BY <1>0, <1>2, ReturnKeepsInv DEF OutOfBytes
<1>3. CASE SizeDigit
  BY <1>3, SizeDigitKeepsInv
<1>4. CASE SizeFails
  BY <1>0, <1>4, ReturnKeepsInv DEF SizeFails
<1>5. CASE SizeEnds
  BY <1>5, SizeEndsKeepsInv
<1>6. CASE Extension
  BY <1>6, ReadingOnKeepsInv DEF Extension, Finds
<1>7. CASE ExtensionEnds
  <2>1. src < Len(buf) /\ state = "EXT" /\ bytes_left_in_chunk \in Nat
    BY <1>7 DEF ExtensionEnds, Finds, In, Inv, TypeOK
  <2>2. CASE bytes_left_in_chunk # 0 /\ Enters("DATA") /\ Reads
    BY <2>1, <2>2, EnteringKeepsInv DEF States
  <2>3. CASE bytes_left_in_chunk = 0 /\ Enters("LINE_HEAD") /\ Reads
    BY <2>1, <2>3, EnteringKeepsInv DEF States
  <2>4. CASE Complete
    BY <2>1, <2>4, CompleteKeepsInv
  <2>5. QED
    BY <1>7, <2>2, <2>3, <2>4 DEF ExtensionEnds
<1>8. CASE DataPart
  BY <1>8, DataPartKeepsInv
<1>9. CASE DataEnds
  BY <1>9, DataEndsKeepsInv
<1>10. CASE LineFeed
  <2>1. src < Len(buf) /\ state = "CRLF" /\ bytes_left_in_chunk = 0
    BY <1>10 DEF LineFeed, Finds, In, Inv, SizeHasRoom
  <2>2. CASE Reads /\ UNCHANGED decoder
    BY <2>1, <2>2, ReadingOnKeepsInv
  <2>3. CASE Reads /\ Enters("SIZE")
    BY <2>1, <2>3, EnteringKeepsInv DEF States
  <2>4. CASE Return(FAILED)
    BY <1>0, <2>4, ReturnKeepsInv
  <2>5. QED
    BY <1>10, <2>2, <2>3, <2>4 DEF LineFeed
<1>11. CASE TrailerHead
  <2>1. src < Len(buf) /\ state = "LINE_HEAD" /\ bytes_left_in_chunk = 0
    BY <1>11 DEF TrailerHead, Finds, In, Inv, SizeHasRoom
  <2>2. CASE Reads /\ UNCHANGED decoder
    BY <2>1, <2>2, ReadingOnKeepsInv
  <2>3. CASE Reads /\ Enters("LINE_MIDDLE")
    BY <2>1, <2>3, EnteringKeepsInv DEF States
  <2>4. CASE Complete
    BY <2>1, <2>4, CompleteKeepsInv
  <2>5. QED
    BY <1>11, <2>2, <2>3, <2>4 DEF TrailerHead
<1>12. CASE TrailerMiddle
  <2>1. /\ src < Len(buf) /\ state = "LINE_MIDDLE" /\ bytes_left_in_chunk = 0
        /\ Reads
    BY <1>12 DEF TrailerMiddle, Finds, In, Inv, SizeHasRoom
  <2>2. CASE UNCHANGED decoder
    BY <2>1, <2>2, ReadingOnKeepsInv
  <2>3. CASE Enters("LINE_HEAD")
    BY <2>1, <2>3, EnteringKeepsInv DEF States
  <2>4. QED
    BY <1>12, <2>2, <2>3 DEF TrailerMiddle
<1>13. CASE UNCHANGED vars
  BY <1>13 DEF vars, decoder, buffer, call, Inv, TypeOK, SizeHasRoom, UnreadIsIntact
<1>14. QED
  BY <1>1, <1>2, <1>3, <1>4, <1>5, <1>6, <1>7, <1>8, <1>9, <1>10, <1>11,
     <1>12, <1>13 DEF Next, phr_decode_chunked

(***************************************************************************)
(* The decoder's fields, the buffer and its counts keep their types: the   *)
(* counts stay within the buffer and hex_count within size_t's digits.     *)
(***************************************************************************)
THEOREM DecoderTypeCorrect == Spec => []TypeOK
<1>1. Inv => TypeOK
  BY DEF Inv
<1>2. QED
  BY <1>1, InitInv, StepInv, PTL DEF Spec

(***************************************************************************)
(* Whatever stream the decoder is given in whatever pieces, it never       *)
(* computes a chunk size that size_t cannot hold (HttpParser.c:530-548).   *)
(***************************************************************************)
THEOREM SizesNeverWrap == Spec => []SizeNeverWraps
<1>1. Inv => SizeNeverWraps
  <2> SUFFICES ASSUME Inv PROVE SizeNeverWraps
    OBVIOUS
  <2>1. ASSUME state = "SIZE", DigitHasRoom
        PROVE  bytes_left_in_chunk * 16 + 15 < SizeRange
    <3> DEFINE P == Power[HexLimit - hex_count - 1]
    <3>1. hex_count \in 0..HexLimit - 1
      BY <2>1, DecoderAssumption DEF DigitHasRoom, Inv, TypeOK
    <3>2. HexLimit - hex_count \in 1..HexLimit /\ HexLimit - hex_count - 1 \in 0..HexLimit
      BY <3>1, DecoderAssumption
    <3>3. P \in Nat \ {0} /\ Power[HexLimit - hex_count] = 16 * P
      BY <3>2, DecoderAssumption
    <3>4. bytes_left_in_chunk \in Nat /\ SizeRange \in Nat
      BY DecoderAssumption DEF Inv, TypeOK, SizeRange
    <3>5. (bytes_left_in_chunk + 1) * (16 * P) <= SizeRange
      BY <2>1, <3>3 DEF Inv, SizeHasRoom
    <3> HIDE DEF P
    <3>6. QED
      BY <3>3, <3>4, <3>5, 0 \in 0..15, DigitKeepsRoom
  <2>2. phr_decode_chunked_is_in_data => bytes_left_in_chunk > 0
    BY DEF Inv, SizeHasRoom, phr_decode_chunked_is_in_data
  <2>3. QED
    BY <2>1, <2>2 DEF SizeNeverWraps
<1>2. QED
  BY <1>1, InitInv, StepInv, PTL DEF Spec

(***************************************************************************)
(* Decoding in place never overwrites a byte that is still to be read, for *)
(* buffers, chunks and pieces of any size (HttpParser.c:571-587).          *)
(***************************************************************************)
THEOREM UnreadStaysIntact == Spec => []UnreadIsIntact
<1>1. Inv => UnreadIsIntact
  BY DEF Inv
<1>2. QED
  BY <1>1, InitInv, StepInv, PTL DEF Spec

-----------------------------------------------------------------------------
(***************************************************************************)
(* The octets left of a decoded body.  The property is stated where a call *)
(* has returned, so the inductive invariant adds where the bytes of a call *)
(* come from: its piece is the last of what was given.                     *)
(***************************************************************************)
TailInv == PieceIsLast /\ LeftIsTheTail

\* The invariant before the first call.
LEMMA InitTail == Init => TailInv
<1> SUFFICES ASSUME Init PROVE TailInv
  OBVIOUS
<1>1. piece = <<>> /\ given = 0 /\ ret = -2
  BY DEF Init, PARTIAL
<1>2. QED
  BY <1>1, EmptySeq DEF TailInv, PieceIsLast, LeftIsTheTail

(***************************************************************************)
(* A new call gets the next of the stream, and nothing else.               *)
(***************************************************************************)
LEMMA SupplyKeepsTail ==
  ASSUME Inv, Supply
  PROVE  TailInv'
<1> PICK n \in 0..Len(stream) - given :
        /\ piece' = SubSeq(stream, given + 1, given + n)
        /\ given' = given + n
  BY DEF Supply
<1>1. Len(stream) \in Nat /\ stream \in Seq(Bytes) /\ given \in 0..Len(stream)
  BY Found DEF Inv, TypeOK
<1>2. n \in Nat /\ given + n \in 0..Len(stream)
  BY <1>1
<1>3. piece' \in Seq(Bytes) /\ Len(piece') = n
  BY <1>1, <1>2, PieceIsSeq
<1>4. \A i \in 1..n : piece'[i] = stream[given + i]
  <2>1. given \in Nat /\ given + n <= Len(stream)
    BY <1>1, <1>2
  <2>2. QED
    BY <1>1, <1>2, <2>1, PieceElements
<1>5. stream' = stream /\ busy'
  BY DEF Supply
<1>6. PieceIsLast'
  <2>1. Len(piece') <= given'
    BY <1>1, <1>2, <1>3
  <2>2. ASSUME NEW i \in 1..Len(piece')
        PROVE  piece'[i] = stream'[given' - Len(piece') + i]
    <3>1. given' - Len(piece') + i = given + i
      BY <1>1, <1>2, <1>3
    <3>2. QED
      BY <1>3, <1>4, <1>5, <3>1
  <2>3. QED
    BY <2>1, <2>2 DEF PieceIsLast
<1>7. QED
  BY <1>5, <1>6 DEF TailInv, LeftIsTheTail

\* A step that leaves what was given alone keeps where the piece is from.
LEMMA PieceStays ==
  ASSUME PieceIsLast, UNCHANGED <<stream, given, piece>>
  PROVE  PieceIsLast'
BY DEF PieceIsLast

(***************************************************************************)
(* A call that goes on, and one that returns no count of octets.           *)
(***************************************************************************)
LEMMA UndecidedKeepsTail ==
  ASSUME PieceIsLast, UNCHANGED <<stream, given, piece>>, busy' \/ ret' \in {PARTIAL, FAILED}
  PROVE  TailInv'
<1>1. LeftIsTheTail'
  BY DEF LeftIsTheTail, PARTIAL, FAILED
<1>2. QED
  BY <1>1, PieceStays DEF TailInv

(***************************************************************************)
(* The end of the last chunk: what was not read yet is intact, so it is    *)
(* the end of the piece, and memmove puts it behind the body.              *)
(***************************************************************************)
LEMMA CompleteKeepsTail ==
  ASSUME Inv, PieceIsLast, busy, src < Len(buf), Complete
  PROVE  TailInv'
<1> DEFINE from == src + 1
           n == Len(buf) - from
<1>1. /\ Len(buf) \in Nat /\ src \in 0..Len(buf) /\ dst \in 0..src
      /\ buf \in Seq(Bytes) /\ piece \in Seq(Bytes) /\ Len(piece) = Len(buf)
      /\ stream \in Seq(Bytes) /\ Len(stream) \in Nat /\ given \in 0..Len(stream)
  BY Found DEF Inv, TypeOK
<1>2. from \in Nat /\ n \in Nat /\ dst + n <= Len(buf) /\ n <= given
  BY <1>1 DEF PieceIsLast
<1>3. /\ ret' = n /\ dst' = dst /\ stream' = stream /\ given' = given
      /\ piece' = piece /\ buf' = memmove(buf, dst, from, n)
  BY DEF Complete, Exit
<1>4. /\ buf' \in Seq(Bytes) /\ Len(buf') = Len(buf)
  BY <1>1, <1>3, CompleteKeepsInv DEF Inv, TypeOK
<1>5. \A i \in 1..n : buf'[dst + i] = stream[given - n + i]
  <2> SUFFICES ASSUME NEW i \in 1..n PROVE buf'[dst + i] = stream[given - n + i]
    OBVIOUS
  <2>1. dst + i \in 1..Len(buf) /\ DOMAIN buf = 1..Len(buf) /\ dst + i \in dst + 1..dst + n
    BY <1>1, <1>2
  <2>2. buf'[dst + i] = buf[(dst + i) - dst + from]
    <3> HIDE DEF from, n
    <3>1. buf' = [j \in DOMAIN buf |->
                    IF j \in dst + 1..dst + n THEN buf[j - dst + from] ELSE buf[j]]
      BY <1>3 DEF memmove
    <3>2. \A j \in DOMAIN buf : j \in dst + 1..dst + n => buf'[j] = buf[j - dst + from]
      BY ONLY <3>1
    <3>3. QED
      BY <2>1, <3>2
  <2>3. (dst + i) - dst + from = from + i /\ from + i \in src + 1..Len(buf)
    BY <1>1, <1>2
  <2>4. buf[from + i] = piece[from + i]
    BY <2>3 DEF Inv, UnreadIsIntact
  <2>5. from + i \in 1..Len(piece) /\ given - Len(piece) + (from + i) = given - n + i
    BY <1>1, <1>2
  <2>6. piece[from + i] = stream[given - n + i]
    <3> HIDE DEF from, n
    <3>1. QED
      BY <2>5 DEF PieceIsLast
  <2>7. QED
    BY <2>2, <2>3, <2>4, <2>6
<1> HIDE DEF from, n
<1>6. SubSeq(buf', dst + 1, dst + n) = SubSeq(stream, given - n + 1, given)
  <2> DEFINE s == SubSeq(buf', dst + 1, dst + n)
             t == SubSeq(stream, given - n + 1, given)
  <2>1. /\ s \in Seq(Bytes) /\ Len(s) = n
        /\ \A i \in 1..n : s[i] = buf'[dst + i]
    <3>1. dst \in Nat /\ dst + n <= Len(buf')
      BY <1>1, <1>2, <1>4
    <3>2. QED
      BY <1>2, <1>4, <3>1, PieceIsSeq, PieceElements
  <2>2. PICK skipped \in Nat : skipped = given - n
    BY <1>1, <1>2
  <2>3. /\ t \in Seq(Bytes) /\ Len(t) = n
        /\ \A i \in 1..n : t[i] = stream[given - n + i]
    <3>1. skipped + n = given /\ skipped + n <= Len(stream)
      BY <1>1, <1>2, <2>2
    <3>2. /\ SubSeq(stream, skipped + 1, skipped + n) \in Seq(Bytes)
          /\ Len(SubSeq(stream, skipped + 1, skipped + n)) = n
          /\ \A i \in 1..n : SubSeq(stream, skipped + 1, skipped + n)[i] = stream[skipped + i]
      BY <1>1, <1>2, <3>1, PieceIsSeq, PieceElements
    <3>3. QED
      BY <2>2, <3>1, <3>2
  <2>4. \A i \in 1..n : s[i] = t[i]
    BY <1>5, <2>1, <2>3
  <2> HIDE DEF s, t
  <2>5. s = t
    BY <2>1, <2>3, <2>4, SeqEqual
  <2>6. QED
    BY <2>5 DEF s, t
<1>7. LeftIsTheTail'
  BY <1>3, <1>6 DEF LeftIsTheTail
<1>8. QED
  BY <1>3, <1>7, PieceStays DEF TailInv

(***************************************************************************)
(* Every step keeps the two.                                               *)
(***************************************************************************)
LEMMA StepTail == Inv /\ TailInv /\ [Next]_vars => TailInv'
<1> SUFFICES ASSUME Inv, TailInv, [Next]_vars PROVE TailInv'
  OBVIOUS
<1>0. PieceIsLast
  BY DEF TailInv
<1>1. ASSUME busy, UNCHANGED call PROVE TailInv'
  BY <1>0, <1>1, UndecidedKeepsTail DEF call
<1>2. ASSUME NEW r \in {PARTIAL, FAILED}, Return(r) PROVE TailInv'
  BY <1>0, <1>2, UndecidedKeepsTail DEF Return, Exit
<1>3. CASE Supply
  BY <1>3, SupplyKeepsTail
<1>4. CASE OutOfBytes
  BY <1>2, <1>4 DEF OutOfBytes
<1>5. CASE SizeDigit
  BY <1>1, <1>5 DEF SizeDigit, Finds, In, Reads
<1>6. CASE SizeFails
  BY <1>2, <1>6 DEF SizeFails
<1>7. CASE SizeEnds
  BY <1>1, <1>7 DEF SizeEnds, Finds, In
<1>8. CASE Extension
  BY <1>1, <1>8 DEF Extension, Finds, In, Reads
<1>9. CASE ExtensionEnds
  <2>1. busy /\ src < Len(buf)
    BY <1>9 DEF ExtensionEnds, Finds, In
  <2>2. CASE Reads
    BY <1>1, <2>1, <2>2 DEF Reads
  <2>3. CASE Complete
    BY <1>0, <2>1, <2>3, CompleteKeepsTail
  <2>4. QED
    BY <1>9, <2>2, <2>3 DEF ExtensionEnds
<1>10. CASE DataPart
  BY <1>0, <1>10, UndecidedKeepsTail DEF DataPart, Exit
<1>11. CASE DataEnds
  BY <1>1, <1>11 DEF DataEnds, In
<1>12. CASE LineFeed
  BY <1>1, <1>2, <1>12 DEF LineFeed, Finds, In, Reads
<1>13. CASE TrailerHead
  <2>1. busy /\ src < Len(buf)
    BY <1>13 DEF TrailerHead, Finds, In
  <2>2. CASE Reads
    BY <1>1, <2>1, <2>2 DEF Reads
  <2>3. CASE Complete
    BY <1>0, <2>1, <2>3, CompleteKeepsTail
  <2>4. QED
    BY <1>13, <2>2, <2>3 DEF TrailerHead
<1>14. CASE TrailerMiddle
  BY <1>1, <1>14 DEF TrailerMiddle, Finds, In, Reads
<1>15. CASE UNCHANGED vars
  BY <1>15 DEF vars, buffer, call, TailInv, PieceIsLast, LeftIsTheTail
<1>16. QED
  BY <1>3, <1>4, <1>5, <1>6, <1>7, <1>8, <1>9, <1>10, <1>11, <1>12, <1>13,
     <1>14, <1>15 DEF Next, phr_decode_chunked

(***************************************************************************)
(* When the decoder says how many octets it left, those octets are the end *)
(* of what it was given, unchanged, and stand behind the body, for streams *)
(* of any length in any pieces (HttpParser.c:629-635).                     *)
(***************************************************************************)
THEOREM LeftoversAreTheTail == Spec => []LeftIsTheTail
<1>1. TailInv => LeftIsTheTail
  BY DEF TailInv
<1>2. QED
  BY <1>1, InitInv, StepInv, InitTail, StepTail, PTL DEF Spec

=============================================================================
