---------------------------- MODULE CloudToDevice ----------------------------
(***************************************************************************)
(* Messages from the service to the device: TKConsoleServiceSend sends     *)
(* them, and "subscribe and wait for message" of the WPF device receives   *)
(* them (cmd07SubscribeAndWaitForMessage of MainWindow.xaml.cs), abandons  *)
(* each at its first delivery and ends with the first that it completes.   *)
(*                                                                         *)
(* The hub locks a message for who receives it.  A lock that expires       *)
(* brings the message back, and whoever then abandons or completes it with *)
(* the old lock is refused.  Every click is a receiver of its own; an      *)
(* exception that leaves one ends the window with all its handlers.        *)
(***************************************************************************)
EXTENDS BackgroundSend

CONSTANTS MaxMessages,   \* the messages that the service sends
          MaxReceivers,  \* bound: clicks
          MaxExpiries    \* bound: locks that expire

ASSUME MessageBounds ==
    MaxMessages \in Nat /\ MaxReceivers \in Nat /\ MaxExpiries \in Nat

Messages  == 1 .. MaxMessages
Receivers == 1 .. MaxReceivers
Nobody    == 0

VARIABLES
    message,    \* where each message is
    holder,     \* who holds its lock
    deliveries, \* how often it was delivered
    first,      \* what DeliveryCount says at the first delivery
    receiver,   \* the call that each receiver waits for
    got,        \* the message it has
    expiries

commands == <<message, holder, deliveries, first, receiver, got, expiries>>

\* The background sender, but for the program that they share.
sender == <<timer, client, startEnabled, running, open, waiting, inFlight,
            clicks, overlapped>>

\* Nothing here says whether DeliveryCount starts with zero or one: both.
InitCommands ==
    /\ message = [m \in Messages |-> "unsent"]
    /\ holder = [m \in Messages |-> Nobody]
    /\ deliveries = [m \in Messages |-> 0]
    /\ first \in {0, 1}
    /\ receiver = [r \in Receivers |-> "none"]
    /\ got = [r \in Receivers |-> 0]
    /\ expiries = 0

\* The service sends one message after the other.
SendCommand(m) ==
    /\ message[m] = "unsent"
    /\ \A n \in Messages : n < m => message[n] # "unsent"
    /\ message' = [message EXCEPT ![m] = "waiting"]
    /\ UNCHANGED <<holder, deliveries, first, receiver, got, expiries, crashed, sender>>

ClickReceive(r) ==
    /\ ~ crashed
    /\ receiver[r] = "none"
    /\ \A q \in Receivers : q < r => receiver[q] # "none"
    /\ receiver' = [receiver EXCEPT ![r] = "receiving"]
    /\ UNCHANGED <<message, holder, deliveries, first, got, expiries, crashed, sender>>

Completes(count) == count > 1

\* ReceiveAsync answers with a message; what to do with it is decided at once.
ReceiveCommand(r) ==
    /\ ~ crashed
    /\ receiver[r] = "receiving"
    /\ \E m \in Messages :
          /\ message[m] = "waiting"
          /\ message' = [message EXCEPT ![m] = "locked"]
          /\ holder' = [holder EXCEPT ![m] = r]
          /\ deliveries' = [deliveries EXCEPT ![m] = @ + 1]
          /\ got' = [got EXCEPT ![r] = m]
          /\ receiver' = [receiver EXCEPT ![r] =
                IF Completes(first + deliveries[m]) THEN "completing" ELSE "abandoning"]
    /\ UNCHANGED <<first, expiries, crashed, sender>>

\* Slips: a message is rejected, not abandoned; a lost lock is not noticed.
Rejected == "rejected"
HoldsAnyway(r) == TRUE

AfterAbandon == "waiting"
HoldsLock(r) == holder[got[r]] = r

\* The hub answers AbandonAsync or CompleteAsync.
Settle(r, state, next) ==
    /\ message' = [message EXCEPT ![got[r]] = state]
    /\ holder' = [holder EXCEPT ![got[r]] = Nobody]
    /\ receiver' = [receiver EXCEPT ![r] = next]

SettleAnswered(r) ==
    /\ ~ crashed
    /\ receiver[r] \in {"abandoning", "completing"} /\ HoldsLock(r)
    /\ \/ receiver[r] = "abandoning" /\ Settle(r, AfterAbandon, "receiving")
       \/ receiver[r] = "completing" /\ Settle(r, "done", "over")
    /\ UNCHANGED <<deliveries, first, got, expiries, crashed, sender>>

\* A call fails, in particular with a lock that was lost, and the exception
\* ends the program; the hub may have completed the message before.
ReceiverFails(r) ==
    /\ ~ crashed
    /\ receiver[r] \in {"receiving", "abandoning", "completing"}
    /\ crashed' = TRUE
    /\ \/ UNCHANGED <<message, holder>>
       \/ /\ receiver[r] = "completing" /\ HoldsLock(r)
          /\ message' = [message EXCEPT ![got[r]] = "done"]
          /\ holder' = [holder EXCEPT ![got[r]] = Nobody]
    /\ UNCHANGED <<deliveries, first, receiver, got, expiries, sender>>

\* The lock expires.  Bound: MaxExpiries, and only while the program runs.
LockExpires(m) ==
    /\ ~ crashed
    /\ message[m] = "locked"
    /\ expiries < MaxExpiries
    /\ expiries' = expiries + 1
    /\ message' = [message EXCEPT ![m] = "waiting"]
    /\ holder' = [holder EXCEPT ![m] = Nobody]
    /\ UNCHANGED <<deliveries, first, receiver, got, crashed, sender>>

CommandNext ==
    \/ \E m \in Messages : SendCommand(m) \/ LockExpires(m)
    \/ \E r \in Receivers : \/ ClickReceive(r) \/ ReceiveCommand(r)
                            \/ SettleAnswered(r) \/ ReceiverFails(r)

-----------------------------------------------------------------------------
Completed == {m \in Messages : message[m] = "done"}
Ended     == {r \in Receivers : receiver[r] = "over"}

\* Nobody completes a message that he sees for the first time, and every
\* receiver that ends has completed one of its own, whatever locks expire and
\* whichever receivers take each other's messages; no message is completed
\* for nobody, unless a call failed.
OneMessagePerClick ==
    /\ \A m \in Completed : deliveries[m] >= 2
    /\ \A r \in Ended : got[r] \in Completed
    /\ \A q, r \in Ended : got[q] = got[r] => q = r
    /\ \A m \in Completed : crashed \/ \E r \in Ended : got[r] = m

\* Waiting for a message ends, although the first delivery of each is sent
\* back; unless other receivers complete them all.
ReceivingEnds ==
    \A r \in Receivers :
        (receiver[r] = "receiving") ~>
            (receiver[r] = "over" \/ Completed = Messages \/ crashed)
=============================================================================
