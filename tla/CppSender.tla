------------------------------ MODULE CppSender ------------------------------
(***************************************************************************)
(* The C++ device (IotSender/CPPSender/CPPSender.cpp): a single thread     *)
(* that hands MESSAGE_COUNT messages with a confirmation callback, and as  *)
(* many without, to the IoT Hub client, calls DoWork in a loop until a     *)
(* cloud-to-device message says "quit", and then a few times more.         *)
(*                                                                         *)
(* The client (external) publishes what is queued once it is connected,    *)
(* and runs the callbacks inside DoWork and, for what is left, inside      *)
(* Destroy.                                                                *)
(***************************************************************************)
EXTENDS Integers, FiniteSets

CONSTANTS MESSAGE_COUNT, DOWORK_LOOP_NUM

ASSUME CountsAssumption == MESSAGE_COUNT \in Nat /\ DOWORK_LOOP_NUM \in Nat

Tracking == 0 .. MESSAGE_COUNT - 1   \* messageTrackingId, index of messages
Message  == [id : Tracking, callback : BOOLEAN]

VARIABLES
    pc,        \* "send", "work", "final", "ended" or "failed"
    iterator,  \* rounds of the loop, counted up to MESSAGE_COUNT
    handles,   \* how the handle of each message with callback is
    releases,  \* observation: how often it was destroyed
    waiting,   \* queued in the client, not published
    unacked,   \* published, not acknowledged
    callbackCounter,
    finals,    \* rounds of the last loop
    g_continueRunning

vars == <<pc, iterator, handles, releases, waiting, unacked, callbackCounter,
          finals, g_continueRunning>>

Init ==
    /\ pc = "send" /\ iterator = 0
    /\ handles = [i \in Tracking |-> "none"]
    /\ releases = [i \in Tracking |-> 0]
    /\ waiting = {} /\ unacked = {}
    /\ callbackCounter = 0 /\ finals = 0
    /\ g_continueRunning = TRUE

With(i)    == [id |-> i, callback |-> TRUE]
Without(i) == [id |-> i, callback |-> FALSE]

\* All messages are handed over, or this one could not be created.
NothingToSend ==
    /\ pc = "send"
    /\ pc' = "work"
    /\ UNCHANGED <<iterator, handles, releases, waiting, unacked,
                   callbackCounter, finals, g_continueRunning>>

\* A slip: the message is not needed any more once it is handed over.
SendAndRelease ==
    /\ pc = "send"
    /\ iterator < MESSAGE_COUNT
    /\ handles' = [handles EXCEPT ![iterator] = "released"]
    /\ releases' = [releases EXCEPT ![iterator] = @ + 1]
    /\ waiting' = waiting \union {With(iterator), Without(iterator)}
    /\ pc' = "work"
    /\ UNCHANGED <<iterator, unacked, callbackCounter, finals, g_continueRunning>>

\* One message with and one without callback.  The handle of the second is
\* destroyed at once, that of the first by its callback.
Send ==
    /\ pc = "send"
    /\ iterator < MESSAGE_COUNT
    /\ handles' = [handles EXCEPT ![iterator] = "created"]
    /\ waiting' = waiting \union {With(iterator), Without(iterator)}
    /\ pc' = "work"
    /\ UNCHANGED <<iterator, releases, unacked, callbackCounter, finals,
                   g_continueRunning>>

\* One of the calls fails, before or after the first message is queued.
SendFails ==
    /\ pc = "send"
    /\ iterator < MESSAGE_COUNT
    /\ handles' = [handles EXCEPT ![iterator] = "created"]
    /\ waiting' \in {waiting, waiting \union {With(iterator)}}
    /\ pc' = "failed"
    /\ UNCHANGED <<iterator, releases, unacked, callbackCounter, finals,
                   g_continueRunning>>

\* SendConfirmationCallback for each of some messages.
Confirm(acked) ==
    LET ids == {m.id : m \in {n \in acked : n.callback}}
    IN /\ handles' = [i \in Tracking |-> IF i \in ids THEN "released" ELSE handles[i]]
       /\ releases' = [i \in Tracking |-> IF i \in ids THEN releases[i] + 1 ELSE releases[i]]
       /\ callbackCounter' = callbackCounter + Cardinality(ids)

\* ReceiveMessageCallback: "quit" stops the loop.
Received(quit) == IF quit THEN FALSE ELSE g_continueRunning

Outstanding(acked) == unacked \ acked

\* IoTHubClient_LL_DoWork.
DoWork(connected, quit) ==
    \E acked \in IF connected THEN SUBSET unacked ELSE {{}} :
        /\ Confirm(acked)
        /\ unacked' = Outstanding(acked) \union (IF connected THEN waiting ELSE {})
        /\ waiting' = IF connected THEN {} ELSE waiting
        /\ g_continueRunning' = Received(quit /\ connected)

\* The end of a round of the first loop.
Work(connected, quit) ==
    /\ pc = "work"
    /\ DoWork(connected, quit)
    /\ iterator' = IF iterator < MESSAGE_COUNT THEN iterator + 1 ELSE iterator
    /\ pc' = IF g_continueRunning' THEN "send" ELSE "final"
    /\ UNCHANGED finals

\* A slip: the index does not grow.
SameRound(n) == n
NextRound(n) == n + 1

\* DOWORK_LOOP_NUM rounds more.
FinalWork(connected, quit) ==
    /\ pc = "final"
    /\ finals < DOWORK_LOOP_NUM
    /\ DoWork(connected, quit)
    /\ finals' = NextRound(finals)
    /\ UNCHANGED <<pc, iterator>>

\* A slip: the client is left to the end of the process.
ReturnOnly ==
    /\ pc = "final"
    /\ finals = DOWORK_LOOP_NUM
    /\ pc' = "ended"
    /\ UNCHANGED <<iterator, handles, releases, waiting, unacked, callbackCounter,
                   finals, g_continueRunning>>

\* IoTHubClient_LL_Destroy confirms what is left, as not sent.
Destroy ==
    /\ pc = "final"
    /\ finals = DOWORK_LOOP_NUM
    /\ Confirm(waiting \union unacked)
    /\ waiting' = {} /\ unacked' = {}
    /\ pc' = "ended"
    /\ UNCHANGED <<iterator, finals, g_continueRunning>>

Next ==
    \/ NothingToSend \/ Send \/ SendFails
    \/ \E connected, quit \in BOOLEAN :
           Work(connected, quit) \/ FinalWork(connected, quit)
    \/ Destroy

Spec == Init /\ [][Next]_vars

FairSpec == Spec /\ WF_vars(Next)
-----------------------------------------------------------------------------
\* Every variable keeps its type.
TypeOK ==
    /\ pc \in {"send", "work", "final", "ended", "failed"}
    /\ iterator \in 0 .. MESSAGE_COUNT
    /\ handles \in [Tracking -> {"none", "created", "released"}]
    /\ releases \in [Tracking -> 0 .. 1]
    /\ waiting \subseteq Message /\ unacked \subseteq Message
    /\ callbackCounter \in Nat
    /\ finals \in 0 .. DOWORK_LOOP_NUM
    /\ g_continueRunning \in BOOLEAN

\* A message that the client still holds has a handle that its callback can
\* use and destroy: nobody destroyed it before.
CallbackFindsMessage ==
    \A m \in waiting \union unacked : m.callback => handles[m.id] = "created"

\* When the program ends regularly every message was confirmed once, and its
\* handle destroyed once.
AllReleasedAtEnd ==
    pc = "ended" =>
        /\ \A i \in Tracking : releases[i] = (IF handles[i] = "none" THEN 0 ELSE 1)
        /\ callbackCounter = Cardinality({i \in Tracking : handles[i] = "released"})

\* The program ends after "quit".
QuitEnds == ~ g_continueRunning ~> pc = "ended"
=============================================================================
