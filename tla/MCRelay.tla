------------------------------ MODULE MCRelay ------------------------------
EXTENDS ErrorRelay

AllBytes == {OK, NUL, "bad", "a", "b", "c", "d", "e", "f", "i", "s", "z"}

\* Heads of a 200 and of another answer, alone and with bodies of one or two
\* bytes, one of them a NUL.
Answers ==
    {<<OK>>, <<OK, "a", "b">>, <<"bad">>, <<"bad", "c">>,
     <<"bad", NUL, "d">>, <<"bad", "e", "f">>}

\* The message of a recv() and that of a send() or connect() that fails.
Failures == {<<"i">>, <<"s", "s">>}

SomethingBehind == {<<>>, <<"z">>}

Alike == Permutations(Clients) \cup Permutations(Urls)
=============================================================================
