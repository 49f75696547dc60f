----------------------------- MODULE MCChunked -----------------------------
(***************************************************************************)
(* ChunkedDecoder for TLC, and what its callers rely on: the result does   *)
(* not depend on how the stream was cut into calls.  HexLimit stands for   *)
(* the 16 digits of a 64-bit size_t.                                       *)
(***************************************************************************)
EXTENDS ChunkedDecoder, SequencesExt, FiniteSetsExt, TLC

Text(bytes) == [i \in 1..Len(bytes) |-> SubSeq(bytes, i, i)]
CRLF == <<CR, LF>>

\* Two chunks, a trailer and what follows; a chunk of ten.
Texts == {
    Text("2;A") \o CRLF \o Text("1") \o CRLF \o CRLF \o Text("01") \o <<LF>> \o Text(";") \o <<LF>>
        \o Text("0") \o CRLF \o Text("A") \o CRLF \o CRLF \o Text("1;"),
    Text("a") \o CRLF \o Text("0123456789") \o CRLF \o Text("00") \o CRLF \o CRLF}

Strays == {"0", "1", "F", ";", CR, LF}

Edited(text) ==
    {text} \cup {RemoveAt(text, i) : i \in DOMAIN text}
    \cup {ReplaceAt(text, i, byte) : i \in DOMAIN text, byte \in Strays}
    \cup {InsertAt(text, i, byte) : i \in 1..Len(text) + 1, byte \in Strays}

EditedTexts == UNION {Edited(text) : text \in Texts}
AllBytes == {"0", "1", "2", "3", "4", "5", "6", "7", "8", "9", "A", "F", "a", ";", CR, LF}
PowersOf16 == 0 :> 1 @@ 1 :> 16 @@ 2 :> 256

(***************************************************************************)
(* The stream s read at once, as RFC 7230 and the comments describe it.    *)
(* First(s, Test) is the place of the first byte that passes.              *)
(***************************************************************************)
First(s, Test(_)) == Min({i \in DOMAIN s : Test(s[i])} \cup {Len(s) + 1})
From(s, i) == SubSeq(s, i, Len(s))
Answer(r, body) == [ret |-> r, body |-> body]

RECURSIVE Trailer(_)
Trailer(s) ==
    LET head == First(s, LAMBDA c : c # CR)
        feed == First(From(s, head), LAMBDA c : c = LF)
    IN  IF head > Len(s) THEN PARTIAL
        ELSE IF s[head] = LF THEN Len(s) - head
        ELSE IF head + feed - 1 > Len(s) THEN PARTIAL
        ELSE Trailer(From(s, head + feed))

SizeOf(digits) == FoldLeft(LAMBDA n, c : 16 * n + decode_hex(c), 0, digits)

RECURSIVE Chunks(_, _)
Chunks(s, body) ==
    LET sizeEnd == First(s, LAMBDA c : decode_hex(c) = -1)
        size == SizeOf(SubSeq(s, 1, sizeEnd - 1))
        feed == First(s, LAMBDA c : c = LF)
        rest == From(s, feed + 1)
        behind == From(rest, size + 1)
        lineEnd == First(behind, LAMBDA c : c # CR)
    IN  IF sizeEnd > HexLimit + 1 \/ (s # <<>> /\ sizeEnd = 1) THEN Answer(FAILED, body)
        ELSE IF feed > Len(s) THEN Answer(PARTIAL, body)
        ELSE IF size = 0 /\ consume_trailer THEN Answer(Trailer(rest), body)
        ELSE IF size = 0 THEN Answer(Len(rest), body)
        ELSE IF lineEnd > Len(behind) THEN Answer(PARTIAL, body \o SubSeq(rest, 1, Min({size, Len(rest)})))
        ELSE IF behind[lineEnd] # LF THEN Answer(FAILED, body)
        ELSE Chunks(From(behind, lineEnd + 1), body \o SubSeq(rest, 1, size))

fed == SubSeq(stream, 1, given)

-----------------------------------------------------------------------------
(***************************************************************************)
(* Whatever pieces a stream is given in, the decoder answers as if it had  *)
(* been given at once: the same verdict, the same body, the same number of *)
(* octets left at the tail (HttpParser.h:69-77).                           *)
(***************************************************************************)
SplitDoesNotMatter ==
    ~busy =>
        LET whole == Chunks(fed, <<>>)
        IN  /\ ret = whole.ret
            /\ ret # FAILED => out = whole.body

=============================================================================
