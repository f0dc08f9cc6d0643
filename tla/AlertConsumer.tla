---------------------------- MODULE AlertConsumer ----------------------------
(***************************************************************************)
(* The console that shows alerts (ServiceBusConsoleAlert): a loop that     *)
(* receives a message of the subscription, prints it and completes it.     *)
(* The subscription locks a message for who receives it and delivers it    *)
(* again when the lock expires.  An exception leaves the async void        *)
(* processAll and ends the program; somebody may start it again.           *)
(***************************************************************************)
EXTENDS Integers

CONSTANTS MaxAlerts,   \* bound: alerts
          MaxLosses,   \* bound: locks of the subscription that expire
          MaxRestarts  \* bound: starts of the console after it ended

ASSUME AlertBounds ==
    MaxAlerts \in Nat /\ MaxLosses \in Nat /\ MaxRestarts \in Nat

Alerts == 1 .. MaxAlerts

VARIABLES
    alert,     \* where each alert is
    printed,   \* observation: how often it was printed
    lockLost,  \* observation: how often its lock expired
    console,   \* what the console does next
    held,      \* the alert it has received
    holds,     \* whether it still has the lock
    restarts

alerts == <<alert, printed, lockLost, console, held, holds, restarts>>

InitAlerts ==
    /\ alert = [a \in Alerts |-> "none"]
    /\ printed = [a \in Alerts |-> 0] /\ lockLost = [a \in Alerts |-> 0]
    /\ console = "receive" /\ held = 0 /\ holds = FALSE
    /\ restarts = 0

\* The hub routes an alert to the subscription.
AlertArrives(a) ==
    /\ alert[a] = "sent"
    /\ alert' = [alert EXCEPT ![a] = "waiting"]
    /\ UNCHANGED <<printed, lockLost, console, held, holds, restarts>>

\* A slip: completed without a look.
CompleteFirst == "complete"

AfterReceive == "print"

ReceiveAlert(a) ==
    /\ console = "receive" /\ alert[a] = "waiting"
    /\ alert' = [alert EXCEPT ![a] = "locked"]
    /\ held' = a /\ holds' = TRUE
    /\ console' = AfterReceive
    /\ UNCHANGED <<printed, lockLost, restarts>>

PrintAlert ==
    /\ console = "print"
    /\ printed' = [printed EXCEPT ![held] = @ + 1]
    /\ console' = "complete"
    /\ UNCHANGED <<alert, lockLost, held, holds, restarts>>

\* A slip: the message is abandoned, not completed.
Abandoned == "waiting"

AlertBecomes == "done"

\* CompleteAsync is answered; without the lock it fails.
CompleteAlert ==
    /\ console = "complete"
    /\ IF holds
       THEN /\ alert' = [alert EXCEPT ![held] = AlertBecomes]
            /\ console' = "receive"
       ELSE console' = "ended" /\ UNCHANGED alert
    /\ holds' = FALSE
    /\ UNCHANGED <<printed, lockLost, held, restarts>>

\* A call fails, or the program is ended, at any line.
ConsoleEnds ==
    /\ console # "ended"
    /\ console' = "ended"
    /\ UNCHANGED <<alert, printed, lockLost, held, holds, restarts>>

ConsoleStarts ==
    /\ console = "ended"
    /\ restarts < MaxRestarts
    /\ restarts' = restarts + 1
    /\ console' = "receive" /\ holds' = FALSE
    /\ UNCHANGED <<alert, printed, lockLost, held>>

\* The subscription's lock expires.  Bound: MaxLosses, as long as the console
\* holds it.
AlertLockExpires(a) ==
    /\ alert[a] = "locked"
    /\ console = "ended" \/ held # a \/ ~ holds \/ lockLost[a] < MaxLosses
    /\ alert' = [alert EXCEPT ![a] = "waiting"]
    /\ lockLost' = [lockLost EXCEPT ![a] = @ + 1]
    /\ holds' = (holds /\ held # a)
    /\ UNCHANGED <<printed, console, held, restarts>>
-----------------------------------------------------------------------------
\* No alert leaves the subscription without having been printed, and it is
\* printed again only because its lock was lost: never is one dropped or
\* repeated while all goes well.
AlertSeen ==
    \A a \in Alerts :
        /\ alert[a] = "done" => printed[a] > 0
        /\ printed[a] <= 1 + lockLost[a]

\* An alert that has reached the subscription is printed, as long as the
\* console runs.
AlertsReachConsole ==
    \A a \in Alerts :
        (alert[a] = "waiting") ~> (printed[a] > 0 \/ console = "ended")
=============================================================================
