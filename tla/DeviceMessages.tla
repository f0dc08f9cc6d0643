--------------------------- MODULE DeviceMessages ---------------------------
(***************************************************************************)
(* What the WPF device sends and receives: the background sender, whose    *)
(* alerts the hub routes to the console of ServiceBusConsoleAlert, and the *)
(* receivers of messages from the service.  The handlers of the window     *)
(* share one program, which ends with the first exception.                 *)
(***************************************************************************)
EXTENDS CloudToDevice, AlertConsumer

CONSTANT MaxUses  \* bound: clicks on all the buttons together

ASSUME UsesBound == MaxUses \in Nat

all == <<vars, commands, alerts>>

MessagesInit == Init /\ InitCommands /\ InitAlerts

Uses == clicks + Cardinality({r \in Receivers : receiver[r] # "none"})
               + Cardinality({a \in Alerts : alert[a] # "none"})

\* The alert button sends the next alert.  Bound: MaxAlerts.
SendAlert(a) ==
    /\ alert[a] = "none"
    /\ \A b \in Alerts : b < a => alert[b] # "none"
    /\ Alert
    /\ alert' = [alert EXCEPT ![a] = "sent"]
    /\ UNCHANGED <<commands, printed, lockLost, console, held, holds, restarts>>
    /\ Uses' <= MaxUses

Background ==
    /\ StartClick \/ StopClick \/ Tick \/ SendAnswered \/ Fail
    /\ UNCHANGED <<commands, alerts>>
    /\ Uses' <= MaxUses

ResumeHandler ==
    (\E h \in waiting : Resume(h)) /\ UNCHANGED <<commands, alerts>>

Commands == CommandNext /\ UNCHANGED alerts /\ Uses' <= MaxUses

Console ==
    /\ \/ PrintAlert \/ CompleteAlert \/ ConsoleEnds \/ ConsoleStarts
       \/ \E a \in Alerts : AlertArrives(a) \/ ReceiveAlert(a) \/ AlertLockExpires(a)
    /\ UNCHANGED <<vars, commands>>

MessagesNext ==
    Background \/ ResumeHandler \/ Commands \/ Console \/ \E a \in Alerts : SendAlert(a)

MessagesSpec == MessagesInit /\ [][MessagesNext]_all

\* Closes return, the service sends, the hub delivers what waits and answers;
\* the console goes on as long as it runs.
MessagesFairSpec ==
    /\ MessagesSpec
    /\ WF_all(ResumeHandler)
    /\ \A m \in Messages : WF_all(SendCommand(m) /\ UNCHANGED alerts)
    /\ \A r \in Receivers :
          /\ SF_all(ReceiveCommand(r) /\ UNCHANGED alerts)
          /\ WF_all(/\ receiver[r] # "receiving"
                    /\ SettleAnswered(r) \/ ReceiverFails(r)
                    /\ UNCHANGED alerts)
    /\ WF_all(PrintAlert /\ UNCHANGED <<vars, commands>>)
    /\ \A a \in Alerts : WF_all(ReceiveAlert(a) /\ UNCHANGED <<vars, commands>>)
=============================================================================
