------------------------------ MODULE Startup ------------------------------
(***************************************************************************)
(* main() from the command line to the loop and back: ArgResolver.cpp      *)
(* reads the port, start() installs the signal handlers, opens the         *)
(* listening socket and enters the loop (Proxy.cpp 66-96, 447-473).        *)
(* Signals may arrive at any time, also before there are handlers.  The    *)
(* loop is reduced to its test of the flag and to poll(); Proxy has the    *)
(* rest of it.                                                             *)
(***************************************************************************)
EXTENDS Integers, Sequences

CONSTANTS
    Numbers,    \* what "%d" may read
    Busy,       \* ports that bind() refuses
    Ephemeral,  \* ports the kernel may choose when it is asked for port 0
    NoPort,     \* not bound
    NoNumber    \* the argument is none

PortSpace == 65536

ASSUME StartupAssumption ==
    Numbers \subseteq Int /\ Ephemeral \subseteq 1..(PortSpace - 1)

VARIABLES
    argument,   \* [args, number, rest]: argc - 1, and of the last one the
                \* number read and whether something follows it
    pc,         \* the call main() is about to make, "waits" inside poll(), or
                \* how it ended
    handled,    \* setSignalHandlers has run
    isInterrupted,
    signals,    \* bound: signals still to come
    portToListen, port,  \* as asked, and as bound
    listening,  \* the socket accepts connections
    printed     \* what main() has written: usage, a message, or nothing

vars == <<argument, pc, handled, isInterrupted, signals, portToListen, port, listening, printed>>
envVars == <<argument, signals>>
sockVars == <<port, listening>>

Arguments == [args : 0..2, number : Numbers \cup {NoNumber}, rest : BOOLEAN]

Ended == {"returned", "failed", "killed"}

Init ==
    /\ argument \in Arguments
    /\ pc = "getPortToListen" /\ handled = FALSE /\ isInterrupted = FALSE
    /\ signals \in 0..2
    /\ portToListen = 0 /\ port = NoPort /\ listening = FALSE
    /\ printed = "nothing"

\* Slip: a number is enough, whatever follows it.
ScannedAny == argument.number # NoNumber

\* sscanf("%d%c") reads the number and nothing behind it.
ScannedOne == argument.number # NoNumber /\ ~argument.rest

\* getPortToListen; main() answers a WrongArgumentException with the usage.
getPortToListen ==
    /\ pc = "getPortToListen"
    /\ \/ /\ argument.args = 1 /\ ScannedOne
          /\ portToListen' = argument.number
          /\ pc' = "setSignalHandlers"
          /\ UNCHANGED printed
       \/ /\ ~(argument.args = 1 /\ ScannedOne)
          /\ printed' = "usage"
          /\ pc' = "returned"
          /\ UNCHANGED portToListen
    /\ UNCHANGED <<envVars, handled, isInterrupted, sockVars>>

setSignalHandlers ==
    /\ pc = "setSignalHandlers"
    /\ handled' = TRUE
    /\ pc' = "bind"
    /\ UNCHANGED <<envVars, isInterrupted, portToListen, sockVars, printed>>

\* Slip: the port keeps the width of the number.
htonsWide(number) == number

\* htons: sixteen bits of the number.
htons(number) == number % PortSpace

\* The ports bind() may take: with a sin_port of 0 the kernel chooses.
BindsTo(number) == IF htons(number) = 0 THEN Ephemeral ELSE {htons(number)}

\* initProxySocket: bind() fails when there is no such port free.
bind ==
    /\ pc = "bind"
    /\ \/ /\ port' \in BindsTo(portToListen) \ Busy
          /\ pc' = "listen"
          /\ UNCHANGED printed
       \/ /\ BindsTo(portToListen) \subseteq Busy
          /\ printed' = "message"
          /\ pc' = "failed"
          /\ UNCHANGED port
    /\ UNCHANGED <<envVars, handled, isInterrupted, portToListen, listening>>

\* listen() fails when another socket has taken the port since.
listen ==
    /\ pc = "listen"
    /\ \/ /\ listening' = TRUE
          /\ pc' = "test"
          /\ UNCHANGED printed
       \/ /\ printed' = "message"
          /\ pc' = "failed"
          /\ UNCHANGED listening
    /\ UNCHANGED <<envVars, handled, isInterrupted, portToListen, port>>

\* stop() closes the socket; the exception ends main() with its message.
stop ==
    /\ listening' = FALSE
    /\ printed' = "message"
    /\ pc' = "returned"

\* Slip: the flag is first looked at after an event.
LoopEnteredDeaf ==
    /\ pc = "test"
    /\ pc' = "poll"
    /\ UNCHANGED <<envVars, handled, isInterrupted, portToListen, sockVars, printed>>

LoopEntered ==
    /\ pc = "test"
    /\ \/ isInterrupted /\ stop
       \/ ~isInterrupted /\ pc' = "poll" /\ UNCHANGED <<listening, printed>>
    /\ UNCHANGED <<envVars, handled, isInterrupted, portToListen, port>>

\* The thread goes into poll(); until then a signal only sets the flag.
poll ==
    /\ pc = "poll"
    /\ pc' = "waits"
    /\ UNCHANGED <<envVars, handled, isInterrupted, portToListen, sockVars, printed>>

\* An event: a round of the loop, and back to the test.
Event ==
    /\ pc = "waits"
    /\ pc' = "test"
    /\ UNCHANGED <<envVars, handled, isInterrupted, portToListen, sockVars, printed>>

\* SIGINT, SIGQUIT or SIGTERM: without a handler they end the process; with
\* it they set the flag, and poll() fails with EINTR if the thread is in it.
Signal ==
    /\ pc \notin Ended
    /\ signals > 0
    /\ signals' = signals - 1
    /\ \/ /\ ~handled
          /\ pc' = "killed"
          /\ UNCHANGED <<isInterrupted, listening, printed>>
       \/ /\ handled /\ pc # "waits"
          /\ isInterrupted' = TRUE
          /\ UNCHANGED <<pc, listening, printed>>
       \/ /\ handled /\ pc = "waits"
          /\ isInterrupted' = TRUE
          /\ stop
    /\ UNCHANGED <<argument, handled, portToListen, port>>

Program ==
    getPortToListen \/ setSignalHandlers \/ bind \/ listen \/ LoopEntered \/ poll

Next == Program \/ Event \/ Signal

(***************************************************************************)
(* The thread moves while it can; nobody is obliged to connect or to send  *)
(* a signal.                                                               *)
(***************************************************************************)
Spec == Init /\ [][Next]_vars /\ WF_vars(Program)

-----------------------------------------------------------------------------
(***************************************************************************)
(* A signal that the test of the flag has not seen yet is not lost: once   *)
(* there are handlers, one that arrives before the first test ends the     *)
(* program without waiting for an event, and so does one that came in      *)
(* between a test (88) and poll() (93), from the next test on; nothing is  *)
(* left listening.                                                         *)
(***************************************************************************)
EarlySignalEnds ==
    isInterrupted /\ pc \in {"bind", "listen", "test"} ~> pc \in Ended /\ ~listening

(***************************************************************************)
(* The process ends in one of four ways and says which: by the usage,      *)
(* without a socket ever opened, if and only if the argument is not one    *)
(* whole number; by a message; or by a signal before it had handlers, and  *)
(* then without a word.  It never ends with the socket listening.          *)
(***************************************************************************)
EndsWithItsReason ==
    pc \in Ended =>
        /\ ~listening
        /\ (pc = "killed") = (printed = "nothing")
        /\ printed = "usage" =>
            port = NoPort /\ (argument.args # 1 \/ argument.number = NoNumber \/ argument.rest)
        /\ printed = "message" =>
            argument = [args |-> 1, number |-> portToListen, rest |-> FALSE]

(***************************************************************************)
(* It listens on the port that was asked for, if there is such a port, and *)
(* for a number beyond the ports on the one that differs from it by a      *)
(* multiple of 2^16, instead of the usage (450).  Port 0 and the multiples *)
(* of 2^16 are no port, and leave the choice to the kernel.                *)
(***************************************************************************)
ListensAsAsked ==
    listening =>
        /\ argument.args = 1 /\ ~argument.rest
        /\ port \in 1..(PortSpace - 1) \ Busy
        /\ argument.number \in 1..(PortSpace - 1) => port = argument.number
        /\ argument.number % PortSpace # 0 => (argument.number - port) % PortSpace = 0
        /\ argument.number % PortSpace = 0 => port \in Ephemeral

=============================================================================
