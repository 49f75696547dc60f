--------------------------- MODULE ChunkedDecoder ---------------------------
(***************************************************************************)
(* phr_decode_chunked of httpParser/HttpParser.c: a decoder that is called *)
(* again and again with whatever has arrived, and takes the chunk headers  *)
(* out of the buffer in place.  dst bytes at its front are body, src bytes *)
(* have been read, and memmove brings the pieces together.  A step is one  *)
(* byte of a header or one memmove; a call is the steps from Supply to     *)
(* the one that returns.                                                   *)
(***************************************************************************)
EXTENDS Integers, Sequences

CONSTANTS
    Bytes,
    Streams,            \* what the peer may send
    HexLimit,           \* sizeof(size_t) * 2
    Power               \* Power[n] = 16^n, up to HexLimit

ASSUME DecoderAssumption ==
    /\ Streams \subseteq Seq(Bytes)
    /\ HexLimit \in Nat \ {0}
    /\ Power \in [0..HexLimit -> Nat \ {0}]
    /\ Power[0] = 1
    /\ \A n \in 1..HexLimit : Power[n] = 16 * Power[n - 1]

VARIABLES
    consume_trailer,        \* set by the caller: are trailers read?
    state,                  \* decoder->_state
    bytes_left_in_chunk,
    hex_count,
    buf, src, dst,          \* the buffer and two counts of bytes in it
    ret,                    \* what the last call returned
    busy,                   \* is a call under way?
    stream, given,          \* what is sent, how much of it the calls got
    piece,                  \* history: the buffer as the call found it
    out                     \* history: the body so far

decoder == <<state, bytes_left_in_chunk, hex_count>>
buffer == <<buf, src, dst>>
call == <<consume_trailer, busy, ret, stream, given, piece, out>>
vars == <<decoder, buffer, call>>

PARTIAL == -2
FAILED == -1
CR == "\r"
LF == "\n"

States == {"SIZE", "EXT", "DATA", "CRLF", "LINE_HEAD", "LINE_MIDDLE"}

HexDigits == <<"0", "1", "2", "3", "4", "5", "6", "7", "8", "9",
               "A", "B", "C", "D", "E", "F", "a", "b", "c", "d", "e", "f">>

decode_hex(ch) ==
    LET places == {i \in 1..22 : HexDigits[i] = ch}
        place == CHOOSE i \in places : TRUE
    IN  IF places = {} THEN -1 ELSE IF place <= 16 THEN place - 1 ELSE place - 7

\* size_t holds the numbers below this one.
SizeRange == Power[HexLimit]

Init ==
    /\ state = "SIZE" /\ bytes_left_in_chunk = 0 /\ hex_count = 0
    /\ buf = <<>> /\ src = 0 /\ dst = 0
    /\ consume_trailer \in BOOLEAN /\ busy = FALSE /\ ret = PARTIAL
    /\ stream \in Streams /\ given = 0
    /\ piece = <<>> /\ out = <<>>

\* memmove(b + to, b + from, n).
memmove(b, to, from, n) ==
    [i \in DOMAIN b |-> IF i \in to + 1..to + n THEN b[i - to + from] ELSE b[i]]

\* The caller has new bytes and the decoder wants more.
Supply ==
    /\ ~busy /\ ret = PARTIAL
    /\ \E n \in 0..Len(stream) - given :
        /\ piece' = SubSeq(stream, given + 1, given + n)
        /\ given' = given + n
    /\ buf' = piece' /\ src' = 0 /\ dst' = 0
    /\ busy' = TRUE
    /\ UNCHANGED <<decoder, consume_trailer, ret, stream, out>>

\* Slip: what was not read stays where it is.
ExitUnmoved(r, b, from, to) ==
    /\ ret' = r
    /\ buf' = b
    /\ src' = from /\ dst' = to
    /\ out' = out \o SubSeq(b, 1, to)
    /\ busy' = FALSE
    /\ UNCHANGED <<consume_trailer, stream, given, piece>>

\* Exit: what was not read is moved behind the body, which the caller takes.
Exit(r, b, from, to) ==
    /\ ret' = r
    /\ buf' = memmove(b, to, from, Len(b) - from)
    /\ src' = from /\ dst' = to
    /\ out' = out \o SubSeq(b, 1, to)
    /\ busy' = FALSE
    /\ UNCHANGED <<consume_trailer, stream, given, piece>>

Return(r) == Exit(r, buf, src, dst) /\ UNCHANGED decoder

\* Complete: the next byte is the last.
Complete == Exit(Len(buf) - (src + 1), buf, src + 1, dst) /\ UNCHANGED decoder

Enters(s) == state' = s /\ UNCHANGED <<bytes_left_in_chunk, hex_count>>
Reads == src' = src + 1 /\ UNCHANGED <<buf, dst, call>>

In(s) == busy /\ state = s
ch == buf[src + 1]
Finds(s) == In(s) /\ src < Len(buf)

-----------------------------------------------------------------------------
OutOfBytes ==
    /\ busy /\ state # "DATA" /\ src = Len(buf)
    /\ Return(PARTIAL)

\* Slip: one digit too many is let in.
DigitFits == hex_count <= HexLimit

\* The test of hex_count before a digit is added.
DigitHasRoom == hex_count # HexLimit

SizeDigit ==
    /\ Finds("SIZE") /\ decode_hex(ch) # -1 /\ DigitHasRoom
    /\ bytes_left_in_chunk' = (bytes_left_in_chunk * 16 + decode_hex(ch)) % SizeRange
    /\ hex_count' = hex_count + 1
    /\ UNCHANGED state
    /\ Reads

SizeFails ==
    /\ Finds("SIZE")
    /\ IF decode_hex(ch) = -1 THEN hex_count = 0 ELSE ~DigitHasRoom
    /\ Return(FAILED)

\* Slip: the count of digits goes on over the next chunk.
SizeEndsUncounted ==
    /\ Finds("SIZE") /\ decode_hex(ch) = -1 /\ hex_count # 0
    /\ state' = "EXT"
    /\ UNCHANGED <<hex_count, bytes_left_in_chunk, buffer, call>>

SizeEnds ==
    /\ Finds("SIZE") /\ decode_hex(ch) = -1 /\ hex_count # 0
    /\ hex_count' = 0
    /\ state' = "EXT"
    /\ UNCHANGED <<bytes_left_in_chunk, buffer, call>>

Extension == Finds("EXT") /\ ch # LF /\ Reads /\ UNCHANGED decoder

ExtensionEnds ==
    /\ Finds("EXT") /\ ch = LF
    /\ \/ bytes_left_in_chunk # 0 /\ Enters("DATA") /\ Reads
       \/ bytes_left_in_chunk = 0 /\ consume_trailer /\ Enters("LINE_HEAD") /\ Reads
       \/ bytes_left_in_chunk = 0 /\ ~consume_trailer /\ Complete

avail == Len(buf) - src

\* The buffer ends inside the chunk: all of it is body, and the call is over.
DataPart ==
    /\ In("DATA") /\ avail < bytes_left_in_chunk
    /\ bytes_left_in_chunk' = bytes_left_in_chunk - avail
    /\ UNCHANGED <<state, hex_count>>
    /\ Exit(PARTIAL, memmove(buf, dst, src, avail), src + avail, dst + avail)

\* Slip: the whole rest of the buffer is moved.
DataEndsWithAll ==
    /\ In("DATA") /\ avail >= bytes_left_in_chunk
    /\ buf' = memmove(buf, dst, src, avail)
    /\ src' = src + bytes_left_in_chunk /\ dst' = dst + bytes_left_in_chunk
    /\ bytes_left_in_chunk' = 0
    /\ state' = "CRLF"
    /\ UNCHANGED <<hex_count, call>>

DataEnds ==
    /\ In("DATA") /\ avail >= bytes_left_in_chunk
    /\ buf' = memmove(buf, dst, src, bytes_left_in_chunk)
    /\ src' = src + bytes_left_in_chunk /\ dst' = dst + bytes_left_in_chunk
    /\ bytes_left_in_chunk' = 0
    /\ state' = "CRLF"
    /\ UNCHANGED <<hex_count, call>>

LineFeed ==
    /\ Finds("CRLF")
    /\ \/ ch = CR /\ Reads /\ UNCHANGED decoder
       \/ ch = LF /\ Reads /\ Enters("SIZE")
       \/ ch \notin {CR, LF} /\ Return(FAILED)

TrailerHead ==
    /\ Finds("LINE_HEAD")
    /\ \/ ch = CR /\ Reads /\ UNCHANGED decoder
       \/ ch = LF /\ Complete
       \/ ch \notin {CR, LF} /\ Reads /\ Enters("LINE_MIDDLE")

TrailerMiddle ==
    /\ Finds("LINE_MIDDLE")
    /\ IF ch = LF THEN Enters("LINE_HEAD") ELSE UNCHANGED decoder
    /\ Reads

phr_decode_chunked ==
    \/ OutOfBytes \/ SizeDigit \/ SizeFails \/ SizeEnds
    \/ Extension \/ ExtensionEnds \/ DataPart \/ DataEnds
    \/ LineFeed \/ TrailerHead \/ TrailerMiddle

Next == Supply \/ phr_decode_chunked

Spec == Init /\ [][Next]_vars

phr_decode_chunked_is_in_data == state = "DATA"

-----------------------------------------------------------------------------
\* The type invariant.
TypeOK ==
    /\ state \in States
    /\ bytes_left_in_chunk \in Nat /\ hex_count \in 0..HexLimit
    /\ buf \in Seq(Bytes) /\ piece \in Seq(Bytes) /\ Len(buf) = Len(piece)
    /\ stream \in Seq(Bytes) /\ given \in 0..Len(stream) /\ out \in Seq(Bytes)
    /\ src \in Nat /\ dst \in Nat
    /\ consume_trailer \in BOOLEAN /\ busy \in BOOLEAN /\ ret \in Int

(***************************************************************************)
(* A size is never cut to size_t, whatever digits come in whatever pieces: *)
(* as long as another digit is let in (line 542), there is room for any    *)
(* (line 546).  A chunk that is entered has data.                          *)
(***************************************************************************)
SizeNeverWraps ==
    /\ state = "SIZE" /\ DigitHasRoom => bytes_left_in_chunk * 16 + 15 < SizeRange
    /\ phr_decode_chunked_is_in_data => bytes_left_in_chunk > 0

(***************************************************************************)
(* Why: each digit that may still come leaves a sixteenth of size_t.  The  *)
(* counts of what is left are zero where the decoder does not use them.    *)
(***************************************************************************)
SizeHasRoom ==
    /\ state = "SIZE" => (bytes_left_in_chunk + 1) * Power[HexLimit - hex_count] <= SizeRange
    /\ state # "SIZE" => hex_count = 0
    /\ state = "DATA" => bytes_left_in_chunk > 0
    /\ state \notin {"SIZE", "EXT", "DATA"} => bytes_left_in_chunk = 0

(***************************************************************************)
(* Decoding in place destroys nothing: the body never reaches beyond what  *)
(* was read, and what was not read yet is as it was supplied, over all the *)
(* memmoves of the call (lines 575, 582).                                  *)
(***************************************************************************)
UnreadIsIntact ==
    /\ dst <= src /\ src <= Len(buf)
    /\ busy => \A i \in src + 1..Len(buf) : buf[i] = piece[i]

(***************************************************************************)
(* The octets that were not decoded are the last that were given, and      *)
(* stand behind the body when the call returns (lines 629-635).            *)
(***************************************************************************)
LeftIsTheTail ==
    ~busy /\ ret >= 0 =>
        SubSeq(buf, dst + 1, dst + ret) = SubSeq(stream, given - ret + 1, given)

(***************************************************************************)
(* Why: what a call found in the buffer is the last that was given.        *)
(***************************************************************************)
PieceIsLast ==
    /\ Len(piece) <= given
    /\ \A i \in 1..Len(piece) : piece[i] = stream[given - Len(piece) + i]

=============================================================================
