---------------------------- MODULE HttpGrammar ----------------------------
(***************************************************************************)
(* The heads that HttpParser.c means to accept, as a grammar: what sets of *)
(* positions in a text s turn into.  From the positions X one gets behind  *)
(* some piece of text; nothing here says how a parser finds it.            *)
(***************************************************************************)
EXTENDS HttpParser, SequencesExt

Behind(s, X, text) ==
    {p + Len(text) : p \in {q \in X : q + Len(text) <= Len(s) + 1 /\
                                      SubSeq(s, q, q + Len(text) - 1) = text}}

Many(s, X, bytes) ==
    {q \in 1..Len(s) + 1 : \E p \in X : p <= q /\ \A i \in p..q - 1 : s[i] \in bytes}

Some(s, X, bytes) == Many(s, UNION {Behind(s, X, <<c>>) : c \in bytes}, bytes)

EndLine(s, X) == Behind(s, X, <<LF>>) \cup Behind(s, X, <<CR, LF>>)

Text(s) == ToSet(s) \ Controls
TokenChars(s) == ToSet(s) \ NoTokenChars

\* The rest of a line: what a value consists of.
RestOfLine(s, X) == EndLine(s, Many(s, X, Text(s) \cup {HT}))

NamedLine(s, X) ==
    RestOfLine(s, Many(s, Behind(s, Some(s, X, TokenChars(s)), <<":">>), Blanks))
FoldedLine(s, X) == RestOfLine(s, Some(s, X, Blanks))

RECURSIVE Lines(_, _, _)
Lines(s, X, n) ==
    IF n = 0 THEN X ELSE X \cup Lines(s, NamedLine(s, X) \cup FoldedLine(s, X), n - 1)

\* Up to MaxHeaders lines, the first of them named, and an empty one.
HeaderBlock(s, X) == EndLine(s, X \cup Lines(s, NamedLine(s, X), MaxHeaders - 1))

Version(s, X) == UNION {Behind(s, X, Append(VersionText, d)) : d \in Digits}

\* A line end is allowed before a request.
RequestLine(s) ==
    LET method == Some(s, {1} \cup EndLine(s, {1}), Text(s) \ {SP})
        path == Some(s, Some(s, method, {SP}), Text(s) \ {SP})
    IN  EndLine(s, Version(s, Some(s, path, {SP})))

ThreeDigits(s) == {<<d, e, f>> : d, e, f \in ToSet(s) \cap Digits}

StatusLine(s) ==
    LET status == UNION {Behind(s, Some(s, Version(s, {1}), {SP}), code) : code \in ThreeDigits(s)}
    IN  EndLine(s, status) \cup RestOfLine(s, Behind(s, status, <<SP>>))

\* Where the head that s begins with ends, if it begins with one.
RequestHead(s) == HeaderBlock(s, RequestLine(s))
ResponseHead(s) == HeaderBlock(s, StatusLine(s))

=============================================================================
