------------------------------ MODULE Delivery ------------------------------
(***************************************************************************)
(* What the proxy promises its clients, without sockets, tables or cache:  *)
(* a client asks for a page once; it is sent the page from the start, in   *)
(* order and without gaps, in pieces of any size, and its connection ends  *)
(* once it has all of it; or it is refused, and then it has been sent      *)
(* nothing of a page.                                                      *)
(***************************************************************************)
EXTENDS Integers, Sequences

CONSTANTS
    Clients,
    Urls,       \* the pages that may be asked for
    OkUrls,     \* those that exist
    NoUrl

VARIABLES
    PageLen,    \* units in a page
    asked,      \* client -> the page it asked for
    content,    \* client -> what it was sent: units <<page, place>>
    end         \* client -> none, complete or error

vars == <<PageLen, asked, content, end>>

PagePrefix(url, n) == [k \in 1..n |-> <<url, k>>]

Init ==
    /\ PageLen \in Nat
    /\ asked = [c \in Clients |-> NoUrl]
    /\ content = [c \in Clients |-> <<>>]
    /\ end = [c \in Clients |-> "none"]

Ask(c) ==
    /\ asked[c] = NoUrl
    /\ \E url \in Urls : asked' = [asked EXCEPT ![c] = url]
    /\ UNCHANGED <<PageLen, content, end>>

\* A piece of the page; the last one may end the connection.
Send(c) ==
    /\ end[c] = "none" /\ asked[c] \in OkUrls
    /\ \E n \in Len(content[c])..PageLen :
        /\ content' = [content EXCEPT ![c] = PagePrefix(asked[c], n)]
        /\ \/ UNCHANGED end
           \/ n = PageLen /\ end' = [end EXCEPT ![c] = "complete"]
    /\ UNCHANGED <<PageLen, asked>>

Refuse(c) ==
    /\ end[c] = "none" /\ asked[c] # NoUrl
    /\ content[c] = <<>>
    /\ end' = [end EXCEPT ![c] = "error"]
    /\ UNCHANGED <<PageLen, asked, content>>

Next == \E c \in Clients : Ask(c) \/ Send(c) \/ Refuse(c)

(***************************************************************************)
(* A client that has asked is served to the end.                           *)
(***************************************************************************)
Spec ==
    /\ Init /\ [][Next]_vars
    /\ \A c \in Clients : WF_vars(Send(c) \/ Refuse(c))
=============================================================================
