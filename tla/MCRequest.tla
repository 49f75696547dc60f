----------------------------- MODULE MCRequest -----------------------------
(***************************************************************************)
(* What the client of ClientRequest sends: each of a few messages, and     *)
(* each with any one byte changed, added or taken out.  Names of headers   *)
(* are cut to one letter.                                                  *)
(***************************************************************************)
EXTENDS ClientRequest

Bytes(text) == [i \in 1..Len(text) |-> SubSeq(text, i, i)]
CRLF == <<CR, LF>>

HostName == <<"H">>
ConnectionName == <<"C">>
FitUrl == <<"f">>

Start == Bytes("A b HTTP/1.1") \o CRLF

Texts == {
    Start \o Bytes("H: 1") \o CRLF \o Bytes("C:2") \o CRLF \o CRLF,
    Start \o Bytes("H: 1 ") \o CRLF \o Bytes(" 2") \o CRLF \o CRLF,
    Bytes("A f HTTP/1.1") \o <<LF>> \o Bytes("x: y") \o <<LF>> \o Bytes("H:") \o CRLF \o CRLF,
    Start \o CRLF \o Bytes("A c HTTP/1.0") \o CRLF \o CRLF,
    Bytes("A f HTTP/1.1") \o CRLF \o CRLF \o CRLF \o CRLF}

Strays == {"H", ":", SP, CR, LF, NUL}

Edited(text) ==
    {text} \cup {RemoveAt(text, i) : i \in DOMAIN text}
    \cup {ReplaceAt(text, i, byte) : i \in DOMAIN text, byte \in Strays}
    \cup {InsertAt(text, i, byte) : i \in 1..Len(text) + 1, byte \in Strays}

EditedTexts == UNION {Edited(text) : text \in Texts}
=============================================================================
