--------------------------- MODULE Startup_proofs ---------------------------
(***************************************************************************)
(* Proofs about the start and the end of main(), for every set of numbers  *)
(* that the argument may hold, of ports in use, of ports the kernel may    *)
(* choose, and of signals in time.                                         *)
(***************************************************************************)
EXTENDS Startup, TLAPS

\* The calls that are made with the socket listening, with it bound, and
\* before it is bound.
Looping == {"test", "poll", "waits"}
Bound == Looping \cup {"listen"}
Unbound == {"getPortToListen", "setSignalHandlers", "bind"}

\* The calls behind getPortToListen, which knows the port, and behind
\* setSignalHandlers.
Asked == {"setSignalHandlers", "bind"} \cup Bound
Handling == {"bind"} \cup Bound

(***************************************************************************)
(* What is so at each call: who has come past one has its result, and      *)
(* nothing is printed before the end.                                      *)
(***************************************************************************)
StartInv ==
    /\ argument \in Arguments
    /\ pc \in Unbound \cup Bound \cup Ended
    /\ pc \in Unbound \cup Bound => printed = "nothing"
    /\ pc \in Asked => /\ portToListen \in Numbers
                       /\ argument = [args |-> 1, number |-> portToListen, rest |-> FALSE]
    /\ pc \in Handling => handled
    /\ pc \in Unbound => port = NoPort
    /\ pc \in Bound => port \in BindsTo(portToListen) \ Busy
    /\ listening <=> pc \in Looping
    /\ EndsWithItsReason

-----------------------------------------------------------------------------
\* The argument of a command line is one.
LEMMA InitStart == Init => StartInv
  BY DEF Init, StartInv, Arguments, Unbound, Bound, Looping, Asked, Handling, Ended,
         EndsWithItsReason

\* The command line is read.
LEMMA ArgumentStep == ASSUME StartInv, getPortToListen PROVE StartInv'
<1> USE DEF StartInv, Unbound, Bound, Looping, Asked, Handling, Ended, EndsWithItsReason,
            getPortToListen, envVars, sockVars
<1>1. CASE argument.args = 1 /\ ScannedOne
  <2>1. argument.number \in Numbers /\ ~argument.rest
    BY <1>1 DEF Arguments, ScannedOne
  <2>2. argument = [args |-> 1, number |-> argument.number, rest |-> FALSE]
    BY <1>1, <2>1 DEF Arguments
  <2>3. portToListen' = argument.number /\ pc' = "setSignalHandlers"
    BY <1>1
  <2>4. QED
    BY <2>1, <2>2, <2>3
<1>2. CASE ~(argument.args = 1 /\ ScannedOne)
  <2>1. argument.args # 1 \/ argument.number = NoNumber \/ argument.rest
    BY <1>2 DEF Arguments, ScannedOne
  <2>2. printed' = "usage" /\ pc' = "returned"
    BY <1>2
  <2>3. QED
    BY <2>1, <2>2
<1>3. QED
  BY <1>1, <1>2

\* The socket is bound, or its port is taken.
LEMMA BindStep == ASSUME StartInv, bind PROVE StartInv'
  BY DEF StartInv, Unbound, Bound, Looping, Asked, Handling, Ended, EndsWithItsReason,
         bind, envVars

\* The calls that have nothing to do with the port, and the loop.
LEMMA OtherSteps ==
  ASSUME StartInv, setSignalHandlers \/ listen \/ LoopEntered \/ poll \/ Event
  PROVE  StartInv'
<1> USE DEF StartInv, Unbound, Bound, Looping, Asked, Handling, Ended, EndsWithItsReason,
            envVars, sockVars
<1>1. CASE setSignalHandlers
  BY <1>1 DEF setSignalHandlers
<1>2. CASE listen
  BY <1>2 DEF listen
<1>3. CASE LoopEntered
  BY <1>3 DEF LoopEntered, stop
<1>4. CASE poll
  BY <1>4 DEF poll
<1>5. CASE Event
  BY <1>5 DEF Event
<1>6. QED
  BY <1>1, <1>2, <1>3, <1>4, <1>5

\* A signal, wherever it finds the program.
LEMMA SignalStep == ASSUME StartInv, Signal PROVE StartInv'
<1> USE DEF StartInv, Unbound, Bound, Looping, Asked, Handling, Ended, EndsWithItsReason
<1>1. CASE ~handled
  BY <1>1 DEF Signal
<1>2. CASE handled /\ pc # "waits"
  BY <1>2 DEF Signal
<1>3. CASE handled /\ pc = "waits"
  BY <1>3 DEF Signal, stop
<1>4. QED
  BY <1>1, <1>2, <1>3

\* Every step of main() and of its surroundings keeps StartInv.
LEMMA StepStart == StartInv /\ [Next]_vars => StartInv'
<1> SUFFICES ASSUME StartInv, [Next]_vars PROVE StartInv'
  OBVIOUS
<1>1. CASE UNCHANGED vars
  BY <1>1 DEF vars, StartInv, EndsWithItsReason
<1>2. QED
  BY <1>1, ArgumentStep, BindStep, OtherSteps, SignalStep DEF Next, Program

(***************************************************************************)
(* However the command line reads and whenever signals come, the process   *)
(* ends in one of its four ways, says which, and has closed its socket     *)
(* (Proxy.cpp 66-96, ArgResolver.cpp, main.cpp).                           *)
(***************************************************************************)
THEOREM EndsAreTold == Spec => []EndsWithItsReason
<1>1. StartInv => EndsWithItsReason
  BY DEF StartInv
<1>2. QED
  BY InitStart, StepStart, <1>1, PTL DEF Spec

\* Sixteen bits of a number are a port, and the number's own if it is one.
LEMMA PortOfNumber ==
  ASSUME NEW number \in Int
  PROVE  /\ htons(number) # 0 => htons(number) \in 1..(PortSpace - 1)
         /\ number \in 1..(PortSpace - 1) => htons(number) = number /\ number # 0
         /\ (number - htons(number)) % PortSpace = 0
<1> DEFINE q == number \div 65536
           r == number % 65536
<1>1. /\ q \in Int /\ r \in Int /\ 0 <= r /\ r < 65536
      /\ number = 65536 * q + r
  OBVIOUS
<1>2. htons(number) = r
  BY DEF htons, PortSpace
<1> HIDE DEF q, r
<1>3. 0 <= number /\ number < 65536 => r = number
  <2>1. 0 <= number /\ number < 65536 => q = 0
    BY <1>1
  <2>2. QED
    BY <1>1, <2>1
<1>4. (65536 * q) % 65536 = 0
  BY <1>1
<1>5. (number - r) % 65536 = 0
  <2>1. number - r = 65536 * q
    BY <1>1
  <2>2. QED
    BY <1>4, <2>1
<1>6. (number - r) % PortSpace = 0
  BY <1>5 DEF PortSpace
<1>7. /\ PortSpace \in Int
      /\ \A n \in Int : n <= PortSpace - 1 <=> n < 65536
  BY DEF PortSpace
<1>8. /\ r # 0 => r \in 1..(PortSpace - 1)
      /\ number \in 1..(PortSpace - 1) => r = number /\ number # 0
  BY <1>1, <1>3, <1>7
<1>9. QED
  BY <1>2, <1>6, <1>8

(***************************************************************************)
(* A program that listens does so on the port that was asked for, or, for  *)
(* a number that is no port, on the one that htons() makes of it, and      *)
(* where that is 0 on one of the kernel's choice (450, 462).               *)
(***************************************************************************)
THEOREM PortIsTheOneAsked == Spec => []ListensAsAsked
<1>1. StartInv => ListensAsAsked
  <2> SUFFICES ASSUME StartInv, listening PROVE ListensAsAsked
    BY DEF ListensAsAsked
  <2>1. /\ argument = [args |-> 1, number |-> portToListen, rest |-> FALSE]
        /\ portToListen \in Int
        /\ port \in BindsTo(portToListen) /\ port \notin Busy
    BY StartupAssumption DEF StartInv, Asked, Bound, Looping
  <2>2. argument.args = 1 /\ ~argument.rest /\ argument.number = portToListen
    BY <2>1
  <2>3. htons(portToListen) = portToListen % PortSpace
    BY DEF htons
  <2>4. CASE htons(portToListen) = 0
    <3>1. port \in Ephemeral
      BY <2>1, <2>4 DEF BindsTo
    <3>2. portToListen \notin 1..(PortSpace - 1)
      BY <2>1, <2>4, PortOfNumber
    <3>3. QED
      BY <2>1, <2>2, <2>3, <2>4, <3>1, <3>2, StartupAssumption DEF ListensAsAsked
  <2>5. CASE htons(portToListen) # 0
    <3>1. port = htons(portToListen)
      BY <2>1, <2>5 DEF BindsTo
    <3>2. port \in 1..(PortSpace - 1)
      BY <2>1, <2>5, <3>1, PortOfNumber
    <3>3. portToListen \in 1..(PortSpace - 1) => port = portToListen
      BY <2>1, <3>1, PortOfNumber
    <3>4. QED
      BY <2>1, <2>2, <2>3, <2>5, <3>1, <3>2, <3>3, PortOfNumber DEF ListensAsAsked
  <2>6. QED
    BY <2>4, <2>5
<1>2. QED
  BY InitStart, StepStart, <1>1, PTL DEF Spec
=============================================================================
