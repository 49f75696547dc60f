------------------------------ MODULE MCParser ------------------------------
(***************************************************************************)
(* What the peers of ParserFeed send: each message of a list, and each     *)
(* with any one byte changed, added or taken out.                          *)
(***************************************************************************)
EXTENDS ParserFeed

Bytes(text) == [i \in 1..Len(text) |-> SubSeq(text, i, i)]
CRLF == <<CR, LF>>

Strays == {"A", "1", ":", "(", SP, HT, CR, LF, NUL}

Edited(text) ==
    {text} \cup {RemoveAt(text, i) : i \in DOMAIN text}
    \cup {ReplaceAt(text, i, byte) : i \in DOMAIN text, byte \in Strays}
    \cup {InsertAt(text, i, byte) : i \in 1..Len(text) + 1, byte \in Strays}

HeaderTexts == {
    CRLF,
    Bytes("A:1") \o CRLF \o CRLF \o <<"A">>,
    Bytes("A: 1 1 ") \o <<LF, HT, "1">> \o CRLF \o <<LF>>,
    Bytes("A:") \o CRLF \o Bytes("1:(") \o CRLF \o CRLF,
    Bytes("A:1") \o <<LF>> \o Bytes("1:") \o <<LF, HT, "A", LF, LF>>}

RequestTexts == {
    CRLF \o Bytes("A  ( HTTP/1.0") \o CRLF \o CRLF,
    Bytes("A / HTTP/1.1") \o <<LF>> \o Bytes("A: 1") \o CRLF \o Bytes(" 1") \o CRLF \o CRLF}

ResponseTexts == {
    Bytes("HTTP/1.0 200 A") \o CRLF \o CRLF \o <<"1">>,
    Bytes("HTTP/1.1  101") \o <<LF>> \o Bytes("A:1") \o CRLF \o <<LF>>}

EditedTexts ==
    LET texts == [request |-> RequestTexts, response |-> ResponseTexts, headers |-> HeaderTexts]
    IN  [k \in DOMAIN texts |-> UNION {Edited(text) : text \in texts[k]}]

SomethingBehind == {<<>>, <<"1">>, <<LF, LF>>, <<SP, "1">>, <<SP, NUL>>}
=============================================================================
