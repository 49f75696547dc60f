----------------------------- MODULE HttpParser -----------------------------
(***************************************************************************)
(* The head parsers of httpParser/HttpParser.c as functions on memory.     *)
(* A buffer b is [mem, len]: the parser was told len bytes and may, by     *)
(* mistake, look at the bytes of mem behind them; memory behind mem reads  *)
(* as NUL.  A pointer is a position in mem, from 1, so buf_end is          *)
(* len + 1; the C functions that return NULL with *ret = -1 or -2 return   *)
(* that number here, the others the pointer.                               *)
(*                                                                         *)
(* Bytes are strings of one character, and a few stand for many: NUL for   *)
(* every control character but the three that are named, "(" for the bytes *)
(* above SP that are neither named nor token characters.                   *)
(***************************************************************************)
EXTENDS Integers, Sequences, FiniteSetsExt, TLC

CONSTANT MaxHeaders     \* the size of the caller's array of headers

ASSUME ParserAssumption == MaxHeaders \in Nat \ {0}

PARTIAL == -2
FAILED == -1

CR == "\r"
LF == "\n"
SP == " "
HT == "\t"
NUL == "NUL"

Controls == {CR, LF, HT, NUL}
Blanks == {SP, HT}
LineEnds == {CR, LF}

\* token_char_map: what may not stand in the name of a header.
NoTokenChars == Controls \cup {SP, ":", "/", "("}

VersionText == <<"H", "T", "T", "P", "/", "1", ".">>

DigitValue ==
    "0" :> 0 @@ "1" :> 1 @@ "2" :> 2 @@ "3" :> 3 @@ "4" :> 4 @@
    "5" :> 5 @@ "6" :> 6 @@ "7" :> 7 @@ "8" :> 8 @@ "9" :> 9
Digits == DOMAIN DigitValue

\* A pointer or a slice that was never set: length 0.
NULL == <<>>

End(b) == b.len + 1
At(b, p) == IF p \in DOMAIN b.mem THEN b.mem[p] ELSE NUL
Slice(b, p, q) == SubSeq(b.mem, p, q - 1)

\* One step after another: a failure of the first is the result of both.
Then(result, Step(_)) == IF result < 0 THEN result ELSE Step(result)

(***************************************************************************)
(* The loops that check for buf_end: the first position from p on that is  *)
(* the end or holds one of the bytes.  findchar_fast does the same sixteen *)
(* bytes at a time.                                                        *)
(***************************************************************************)
findchar(b, p, bytes) ==
    Min({q \in p..Len(b.mem) + 1 : q = End(b) \/ At(b, q) \in bytes})

\* do ++buf while (*buf == ' '): the end is not looked for.
SkipSpaces(b, p) == Min({q \in p + 1..Len(b.mem) + 1 : At(b, q) # SP})

\* Slip: EXPECT_CHAR_NO_CHECK in place of EXPECT_CHAR.
LineEndUnchecked(b, p) ==
    IF At(b, p) = LF THEN p + 1
    ELSE IF At(b, p) = CR /\ At(b, p + 1) = LF THEN p + 2 ELSE FAILED

\* LF, or CR and what EXPECT_CHAR wants behind it.
LineEnd(b, p) ==
    IF At(b, p) = LF THEN p + 1
    ELSE IF At(b, p) # CR THEN FAILED
    ELSE IF p + 1 = End(b) THEN PARTIAL
    ELSE IF At(b, p + 1) = LF THEN p + 2 ELSE FAILED

\* ADVANCE_TOKEN: the space behind the token that starts at p.
AdvanceToken(b, p) ==
    LET q == findchar(b, p, Controls \cup {SP})
    IN  IF q = End(b) THEN PARTIAL ELSE IF At(b, q) = SP THEN q ELSE FAILED

tokenEnd(b, p) == findchar(b, p, Controls \ {HT})

\* The line that follows the token, which reaches up to tokenEnd.
get_token_to_eol(b, p) ==
    IF tokenEnd(b, p) = End(b) THEN PARTIAL ELSE LineEnd(b, tokenEnd(b, p))

(***************************************************************************)
(* is_complete: are there two line ends in a row, looked for from three    *)
(* bytes before those that are new?                                        *)
(***************************************************************************)
RECURSIVE is_complete_from(_, _, _)
is_complete_from(b, p, ret_cnt) ==
    IF p = End(b) THEN PARTIAL
    ELSE IF At(b, p) \in LineEnds
    THEN LET q == LineEnd(b, p)
         IN  IF q < 0 \/ ret_cnt = 1 THEN q ELSE is_complete_from(b, q, 1)
    ELSE is_complete_from(b, p + 1, 0)

\* Slip: the search starts with the new bytes.
is_complete_in_new(b, last_len) == is_complete_from(b, last_len + 1, 0)

is_complete(b, last_len) ==
    is_complete_from(b, IF last_len < 3 THEN 1 ELSE last_len - 2, 0)

\* Slip: one byte less is enough.
parse_http_version_early(b, p) ==
    IF End(b) - p < Len(VersionText) + 1 THEN PARTIAL
    ELSE IF Slice(b, p, p + Len(VersionText)) # VersionText THEN FAILED
    ELSE IF At(b, p + Len(VersionText)) \notin Digits THEN FAILED
    ELSE p + Len(VersionText) + 1

\* The version is looked at once it is all there, with one byte behind it.
parse_http_version(b, p) ==
    IF End(b) - p < Len(VersionText) + 2 THEN PARTIAL
    ELSE IF Slice(b, p, p + Len(VersionText)) # VersionText THEN FAILED
    ELSE IF At(b, p + Len(VersionText)) \notin Digits THEN FAILED
    ELSE p + Len(VersionText) + 1

-----------------------------------------------------------------------------
(***************************************************************************)
(* parse_headers.  A line that starts with a blank continues the header    *)
(* before it and is stored with a NULL name.                               *)
(***************************************************************************)
\* The value of the header whose name starts at p.
valueStart(b, p) ==
    LET colon == findchar(b, p, NoTokenChars)
        value == Min({q \in colon + 1..Len(b.mem) + 1 :
                        q = End(b) \/ At(b, q) \notin Blanks})
    IN  IF colon = End(b) THEN PARTIAL
        ELSE IF At(b, colon) # ":" \/ colon = p THEN FAILED
        ELSE IF value = End(b) THEN PARTIAL ELSE value

nameOf(b, p) == Slice(b, p, findchar(b, p, NoTokenChars))

\* The value that starts at p, without the blanks at its end.
valueOf(b, p) ==
    LET kept == {q \in p..tokenEnd(b, p) - 1 : At(b, q) \notin Blanks}
    IN  IF kept = {} THEN NULL ELSE Slice(b, p, Max(kept) + 1)

\* Slip: a continuation is looked for before the first header as well.
continuesAny(b, p, headers) == At(b, p) \in Blanks

continues(b, p, headers) == headers # <<>> /\ At(b, p) \in Blanks

RECURSIVE parse_headers(_, _, _)
parse_headers(b, p, headers) ==
    LET folded == continues(b, p, headers)
        value == IF folded THEN p ELSE valueStart(b, p)
        next == Then(value, LAMBDA v : get_token_to_eol(b, v))
        Stop(ret) == [ret |-> ret, headers |-> headers]
    IN  IF p = End(b) THEN Stop(PARTIAL)
        ELSE IF At(b, p) \in LineEnds THEN Stop(LineEnd(b, p))
        ELSE IF Len(headers) = MaxHeaders THEN Stop(FAILED)
        ELSE IF next < 0 THEN Stop(next)
        ELSE parse_headers(b, next, Append(headers,
                [name |-> IF folded THEN NULL ELSE nameOf(b, p),
                 value |-> valueOf(b, value)]))

HeadersAfter(b, p) ==
    IF p < 0 THEN [ret |-> p, headers |-> <<>>] ELSE parse_headers(b, p, <<>>)

-----------------------------------------------------------------------------
(***************************************************************************)
(* The three entries: ret is the number of bytes consumed, PARTIAL or      *)
(* FAILED; what was found before a failure stays in the other fields.      *)
(***************************************************************************)
parse_request(b) ==
    LET method == IF End(b) = 1 THEN PARTIAL
                  ELSE IF At(b, 1) \in LineEnds THEN LineEnd(b, 1) ELSE 1
        methodEnd == Then(method, LAMBDA p : AdvanceToken(b, p))
        path == Then(methodEnd, LAMBDA p : SkipSpaces(b, p))
        pathEnd == Then(path, LAMBDA p : AdvanceToken(b, p))
        version == Then(pathEnd, LAMBDA p : SkipSpaces(b, p))
        versionEnd == Then(version, LAMBDA p :
            IF method = methodEnd \/ path = pathEnd THEN FAILED
            ELSE parse_http_version(b, p))
        result == HeadersAfter(b, Then(versionEnd, LAMBDA p : LineEnd(b, p)))
    IN  [ret |-> result.ret, headers |-> result.headers,
         method |-> IF methodEnd < 0 THEN NULL ELSE Slice(b, method, methodEnd),
         path |-> IF pathEnd < 0 THEN NULL ELSE Slice(b, path, pathEnd)]

\* Slip: the digits are read as soon as there is one.
StatusDigitsEager == 1

\* How many bytes have to be there before the status is read.
StatusDigits == 4

(***************************************************************************)
(* PARSE_INT_3 stores the number digit by digit: what the digits before    *)
(* the first byte that is none are worth stays behind.                     *)
(***************************************************************************)
statusOf(b, p) ==
    LET worth == <<100, 10, 1>>
        IsRead(i) == \A j \in 1..i : At(b, p + j - 1) \in Digits
    IN  FoldSet(LAMBDA i, sum : sum + worth[i] * DigitValue[At(b, p + i - 1)],
                0, {i \in 1..3 : IsRead(i)})

parse_response(b) ==
    LET version == parse_http_version(b, 1)
        status == Then(version, LAMBDA p :
            IF At(b, p) # SP THEN FAILED ELSE SkipSpaces(b, p))
        isThere == status > 0 /\ End(b) - status >= StatusDigits
        msg == Then(status, LAMBDA p :
            IF ~isThere THEN PARTIAL
            ELSE IF \E i \in 0..2 : At(b, p + i) \notin Digits THEN FAILED
            ELSE p + 3)
        msgEnd == Then(msg, LAMBDA p : get_token_to_eol(b, p))
        result == HeadersAfter(b, Then(msgEnd, LAMBDA p :
            IF At(b, msg) \in {SP} \cup LineEnds THEN p ELSE FAILED))
    IN  [ret |-> result.ret, headers |-> result.headers,
         status |-> IF isThere THEN statusOf(b, status) ELSE 0]

\* ret as the entries return it.
Consumed(result) == [result EXCEPT !.ret = IF @ < 0 THEN @ ELSE @ - 1]

\* With last_len # 0 nothing is parsed before the head is complete.
Complete(b, last_len) == IF last_len = 0 THEN 0 ELSE is_complete(b, last_len)

phr_parse_request(b, last_len) ==
    LET complete == Complete(b, last_len)
    IN  IF complete < 0
        THEN [ret |-> complete, headers |-> <<>>, method |-> NULL, path |-> NULL]
        ELSE Consumed(parse_request(b))

phr_parse_response(b, last_len) ==
    LET complete == Complete(b, last_len)
    IN  IF complete < 0 THEN [ret |-> complete, headers |-> <<>>, status |-> 0]
        ELSE Consumed(parse_response(b))

phr_parse_headers(b, last_len) ==
    LET complete == Complete(b, last_len)
    IN  IF complete < 0 THEN [ret |-> complete, headers |-> <<>>]
        ELSE Consumed(parse_headers(b, 1, <<>>))

=============================================================================
