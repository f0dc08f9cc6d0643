------------------------ MODULE DeviceMessages_proofs ------------------------
(***************************************************************************)
(* Proofs about DeviceMessages, for any number of clicks, sends, messages  *)
(* and alerts.  The arguments.  Background sender: as long as no Stop was  *)
(* clicked while another one waited, there is at most one waiting handler; *)
(* it is a Stop, it closes the current client, and no timer runs           *)
(* meanwhile.  Receivers: the holder of a lock is the one receiver that    *)
(* has this message in its hands.  Console: each print is paid for by a    *)
(* delivery, and each further delivery by a lock that expired.             *)
(***************************************************************************)
EXTENDS DeviceMessages, TLAPS

\* Only Stop ever waits, since Start finds no client to close.
OnlyStopWaits == \A h \in waiting : h.by = "Stop"

\* While one Stop waits, its client is the current one and no timer runs.
OneStopWaits ==
    ~ overlapped =>
        /\ \A g, h \in waiting : g = h
        /\ \A h \in waiting : h.closes = client
        /\ waiting # {} => client # None /\ running = {}

IInv ==
    /\ TypeOK
    /\ OneTimer
    /\ StartNeverWaits
    /\ OnlyStopWaits
    /\ OneStopWaits
    /\ TickFindsClient
    /\ NoClientForgotten

\* The program starts without timer, client or handler.
LEMMA InitIInv == Init => IInv
<1> SUFFICES ASSUME Init PROVE IInv
  OBVIOUS
<1> USE BoundsAssumption DEF Init
<1>1. TypeOK
  <2>1. clicks \in 0 .. MaxClicks /\ inFlight \in 0 .. MaxInFlight
    OBVIOUS
  <2> QED
    BY <2>1 DEF TypeOK
<1>2. OneTimer /\ StartNeverWaits /\ OnlyStopWaits /\ TickFindsClient
  BY DEF OneTimer, StartNeverWaits, OnlyStopWaits, TickFindsClient
<1>3. OneStopWaits /\ NoClientForgotten
  BY DEF OneStopWaits, NoClientForgotten
<1> QED
  BY <1>1, <1>2, <1>3 DEF IInv

\* Every step keeps the inductive invariant.
LEMMA StepIInv == IInv /\ [Next]_vars => IInv'
<1> SUFFICES ASSUME IInv, [Next]_vars
             PROVE  IInv'
  OBVIOUS
<1> USE BoundsAssumption DEF IInv, TypeOK, OneTimer, StartNeverWaits, OnlyStopWaits,
        OneStopWaits, TickFindsClient, NoClientForgotten, Ids, None, Handlers
<1>1. CASE StartClick
  <2>1. client = None /\ startEnabled /\ clicks + 1 \in Ids /\ clicks + 1 # None
    BY <1>1 DEF StartClick, Click
  <2>2. /\ client' = clicks + 1 /\ timer' = clicks + 1 /\ startEnabled' = FALSE
        /\ running' = (running \ {timer}) \union {clicks + 1}
        /\ open' = open \union {clicks + 1}
        /\ clicks' = clicks + 1
        /\ UNCHANGED <<waiting, inFlight, crashed, overlapped>>
    BY <1>1, <2>1 DEF StartClick, Click, StartSending
  <2>3. overlapped \/ waiting = {}
    BY <2>1
  <2>4. TypeOK'
    <3>1. clicks' \in 0 .. MaxClicks
      BY <2>1, <2>2
    <3>2. running' \subseteq Ids /\ open' \subseteq Ids /\ timer' \in Ids /\ client' \in Ids
      BY <2>1, <2>2
    <3> QED
      BY <2>2, <3>1, <3>2
  <2> QED
    BY <2>1, <2>2, <2>3, <2>4
<1>2. CASE StopClick
  <2>1. /\ timer' = None /\ running' = running \ {timer}
        /\ clicks' = clicks + 1 /\ clicks + 1 \in Ids
        /\ UNCHANGED <<client, open, inFlight, crashed>>
        /\ overlapped' = (overlapped \/ waiting # {})
    BY <1>2 DEF StopClick, Click, StopTimer
  <2>2. running' = {}
    BY <2>1
  <2>3. CASE client = None
    <3>1. startEnabled' = TRUE /\ waiting' = waiting
      BY <1>2, <2>3 DEF StopClick
    <3> QED
      BY <2>1, <2>2, <2>3, <3>1
  <2>4. CASE client # None
    <3> DEFINE n == [id |-> clicks + 1, by |-> "Stop", closes |-> client]
    <3>1. waiting' = waiting \union {n} /\ startEnabled' = startEnabled
      BY <1>2, <2>4 DEF StopClick
    <3>2. n \in Handlers /\ n.by = "Stop" /\ n.closes = client
      BY <2>1, <2>4
    <3>3. TypeOK'
      BY <2>1, <2>2, <3>1, <3>2
    <3>4. OnlyStopWaits' /\ OneStopWaits'
      BY <2>1, <2>2, <2>4, <3>1, <3>2
    <3>5. NoClientForgotten'
      BY <2>1, <2>4, <3>1, <3>2
    <3> QED
      BY <2>1, <2>2, <2>4, <3>1, <3>3, <3>4, <3>5
  <2> QED
    BY <2>3, <2>4
<1>3. ASSUME NEW h \in waiting, Resume(h)
      PROVE  IInv'
  <2>1. /\ waiting' = waiting \ {h}
        /\ client' = None /\ startEnabled' = TRUE
        /\ open' = open \ {h.closes}
        /\ UNCHANGED <<timer, running, inFlight, crashed, clicks, overlapped>>
    BY <1>3 DEF Resume
  <2>2. ~ overlapped => waiting' = {} /\ h.closes = client /\ running = {}
    BY <2>1
  <2>3. TypeOK'
    BY <2>1
  <2>4. NoClientForgotten'
    <3>1. CASE overlapped
      BY <2>1, <3>1
    <3>2. CASE ~ overlapped
      <4>1. {g.closes : g \in waiting} = {client}
        BY <2>2, <3>2
      <4>2. open \subseteq {client}
        BY <3>2, <4>1
      <4> QED
        BY <2>1, <2>2, <3>2, <4>2
    <3> QED
      BY <3>1, <3>2
  <2> QED
    BY <2>1, <2>2, <2>3, <2>4
<1>4. CASE Tick
  <2>1. UNCHANGED <<timer, client, startEnabled, running, open, waiting, clicks,
                    overlapped>>
    BY <1>4 DEF Tick
  <2>2. inFlight' \in 0 .. MaxInFlight /\ crashed' \in BOOLEAN
    <3>1. CASE client = None
      BY <1>4, <3>1 DEF Tick
    <3>2. CASE client # None
      BY <1>4, <3>2 DEF Tick
    <3> QED
      BY <3>1, <3>2
  <2> QED
    BY <2>1, <2>2
<1>5. CASE Alert
  BY <1>5 DEF Alert
<1>6. CASE SendAnswered
  BY <1>6 DEF SendAnswered
<1>7. CASE Fail
  BY <1>7 DEF Fail
<1>8. CASE UNCHANGED vars
  BY <1>8 DEF vars
<1> QED
  BY <1>1, <1>2, <1>3, <1>4, <1>5, <1>6, <1>7, <1>8 DEF Next

-----------------------------------------------------------------------------
CommandsTypeOK ==
    /\ message \in [Messages -> {"unsent", "waiting", "locked", "done"}]
    /\ holder \in [Messages -> Receivers \union {Nobody}]
    /\ deliveries \in [Messages -> Nat]
    /\ first \in {0, 1}
    /\ receiver \in [Receivers -> {"none", "receiving", "abandoning", "completing", "over"}]
    /\ got \in [Receivers -> Messages \union {0}]

\* The lock of a message is held by nobody, or by the receiver that has the
\* message and waits for the answer to abandoning or completing it.
LockInHand ==
    /\ \A m \in Messages : message[m] # "locked" => holder[m] = Nobody
    /\ \A m \in Messages : holder[m] # Nobody =>
          got[holder[m]] = m /\ receiver[holder[m]] \in {"abandoning", "completing"}
    /\ \A r \in Receivers : receiver[r] \in {"abandoning", "completing", "over"} => got[r] \in Messages
    /\ \A r \in Receivers : receiver[r] = "completing" => deliveries[got[r]] >= 2

CommandsIInv == CommandsTypeOK /\ LockInHand /\ OneMessagePerClick

LEMMA InitCommandsIInv == InitCommands => CommandsIInv
BY MessageBounds DEF InitCommands, CommandsIInv, CommandsTypeOK, LockInHand, OneMessagePerClick,
   Completed, Ended, Messages, Receivers, Nobody

\* Every step of the receivers, the service and the hub keeps it.
LEMMA StepCommandsIInv == CommandsIInv /\ CommandNext => CommandsIInv'
<1> SUFFICES ASSUME CommandsIInv, CommandNext PROVE CommandsIInv'
  OBVIOUS
<1> USE MessageBounds DEF CommandsIInv, CommandsTypeOK, LockInHand, OneMessagePerClick,
        Completed, Ended, Messages, Receivers, Nobody
<1>1. ASSUME NEW m \in Messages, SendCommand(m) PROVE CommandsIInv'
  BY <1>1 DEF SendCommand
<1>2. ASSUME NEW m \in Messages, LockExpires(m) PROVE CommandsIInv'
  BY <1>2 DEF LockExpires
<1>3. ASSUME NEW r \in Receivers, ClickReceive(r) PROVE CommandsIInv'
  BY <1>3 DEF ClickReceive
<1>4. ASSUME NEW r \in Receivers, ReceiveCommand(r) PROVE CommandsIInv'
  <2>1. PICK m \in Messages :
          /\ message[m] = "waiting"
          /\ message' = [message EXCEPT ![m] = "locked"]
          /\ holder' = [holder EXCEPT ![m] = r]
          /\ deliveries' = [deliveries EXCEPT ![m] = @ + 1]
          /\ got' = [got EXCEPT ![r] = m]
          /\ receiver' = [receiver EXCEPT ![r] =
                IF Completes(first + deliveries[m]) THEN "completing" ELSE "abandoning"]
    BY <1>4 DEF ReceiveCommand
  <2>2. receiver[r] = "receiving" /\ UNCHANGED <<first, crashed>>
    BY <1>4 DEF ReceiveCommand
  <2>3. /\ receiver'[r] \in {"abandoning", "completing"} /\ got'[r] = m
        /\ receiver'[r] = "completing" => deliveries[m] >= 1
        /\ \A q \in Receivers : q # r => receiver'[q] = receiver[q] /\ got'[q] = got[q]
        /\ \A n \in Messages : n # m => /\ message'[n] = message[n] /\ holder'[n] = holder[n]
                                        /\ deliveries'[n] = deliveries[n]
        /\ message'[m] = "locked" /\ holder'[m] = r /\ deliveries'[m] = deliveries[m] + 1
    BY <2>1, <2>2 DEF Completes
  <2>4. CommandsTypeOK'
    BY <2>1, <2>2
  <2>5. \A n \in Messages : /\ message'[n] # "locked" => holder'[n] = Nobody
                            /\ holder'[n] # Nobody => n = m \/ holder'[n] # r
    BY <2>2, <2>3
  <2>6. ASSUME NEW n \in Messages, holder'[n] # Nobody
        PROVE  got'[holder'[n]] = n /\ receiver'[holder'[n]] \in {"abandoning", "completing"}
    <3>1. CASE n = m
      BY <2>3, <3>1
    <3>2. CASE n # m
      <4>1. holder'[n] = holder[n] /\ holder[n] # Nobody
        BY <2>3, <2>6, <3>2
      <4>2. /\ holder[n] \in Receivers /\ got[holder[n]] = n
            /\ receiver[holder[n]] \in {"abandoning", "completing"}
        BY <4>1
      <4>3. holder[n] # r
        BY <2>2, <4>2
      <4>q. QED
        BY <2>3, <4>1, <4>2, <4>3
    <3>q. QED
      BY <3>1, <3>2
  <2>7. ASSUME NEW q \in Receivers, receiver'[q] = "completing"
        PROVE  deliveries'[got'[q]] >= 2
    <3>1. CASE q = r
      <4>1. deliveries[m] \in Nat /\ deliveries[m] >= 1
        BY <2>3, <2>7, <3>1
      <4>q. QED
        BY <2>3, <3>1, <4>1
    <3>2. CASE q # r
      <4>1. /\ got'[q] = got[q] /\ got[q] \in Messages /\ deliveries[got[q]] >= 2
            /\ deliveries[got[q]] \in Nat
        BY <2>3, <2>7, <3>2
      <4>2. deliveries'[got[q]] = deliveries[got[q]] \/ deliveries'[got[q]] = deliveries[got[q]] + 1
        BY <2>3, <4>1
      <4>q. QED
        BY <4>1, <4>2
    <3>q. QED
      BY <3>1, <3>2
  <2>8. Completed' = Completed /\ Ended' = Ended
    BY <2>1, <2>2, <2>3
  <2>9. OneMessagePerClick'
    <3>1. m \notin Completed /\ r \notin Ended
      BY <2>1, <2>2
    <3>2. \A n \in Completed : n \in Messages /\ n # m
      BY <3>1
    <3>3. \A q \in Ended : q \in Receivers /\ q # r
      BY <3>1
    <3> HIDE DEF Completed, Ended
    <3>4. /\ \A n \in Completed : deliveries'[n] = deliveries[n]
          /\ \A q \in Ended : got'[q] = got[q]
      BY <2>3, <3>2, <3>3
    <3>5. /\ \A n \in Completed' : deliveries'[n] >= 2
          /\ \A q \in Ended' : got'[q] \in Completed'
      BY <2>8, <3>4
    <3>6. \A p, q \in Ended' : got'[p] = got'[q] => p = q
      BY <2>8, <3>4
    <3>7. \A n \in Completed' : crashed' \/ \E q \in Ended' : got'[q] = n
      BY <2>2, <2>8, <3>4
    <3>q. QED
      BY <3>5, <3>6, <3>7
  <2>q. QED
    BY <2>3, <2>4, <2>5, <2>6, <2>7, <2>9
<1>5. ASSUME NEW r \in Receivers, SettleAnswered(r) PROVE CommandsIInv'
  <2> DEFINE m == got[r]
  <2>1. /\ m \in Messages /\ holder[m] = r
        /\ UNCHANGED <<deliveries, first, got, crashed>>
        /\ holder' = [holder EXCEPT ![m] = Nobody]
    BY <1>5 DEF SettleAnswered, Settle, HoldsLock
  <2>2. \/ /\ receiver[r] = "abandoning"
           /\ message' = [message EXCEPT ![m] = "waiting"]
           /\ receiver' = [receiver EXCEPT ![r] = "receiving"]
        \/ /\ receiver[r] = "completing"
           /\ message' = [message EXCEPT ![m] = "done"]
           /\ receiver' = [receiver EXCEPT ![r] = "over"]
    BY <1>5 DEF SettleAnswered, Settle, AfterAbandon
  <2>3. message[m] = "locked"
    BY <2>1
  <2>7. got[r] = m /\ (receiver[r] = "completing" => deliveries[m] >= 2)
    OBVIOUS
  <2> HIDE DEF m
  <2>4. CommandsTypeOK'
    <3>1. message' \in [Messages -> {"unsent", "waiting", "locked", "done"}]
      BY <2>2
    <3>2. receiver' \in [Receivers -> {"none", "receiving", "abandoning", "completing", "over"}]
      BY <2>2
    <3>3. holder' \in [Messages -> Receivers \union {Nobody}]
      BY <2>1
    <3>q. QED
      BY <2>1, <3>1, <3>2, <3>3
  <2>5. LockInHand'
    <3>1. \A n \in Messages : n # m => message'[n] = message[n] /\ holder'[n] = holder[n]
      BY <2>1, <2>2
    <3>2. holder'[m] = Nobody
      BY <2>1
    <3>3. \A q \in Receivers : q # r => receiver'[q] = receiver[q]
      BY <2>2
    <3>4. \A n \in Messages : n # m => holder[n] # r
      BY <2>1 DEF m
    <3>q. QED
      BY <2>1, <2>2, <3>1, <3>2, <3>3, <3>4
  <2>6. OneMessagePerClick'
    <3>1. CASE receiver[r] = "abandoning"
      <4>1. Completed' = Completed /\ Ended' = Ended
        BY <2>1, <2>2, <2>3, <3>1
      <4> HIDE DEF Completed, Ended
      <4>q. QED
        BY <2>1, <4>1
    <3>2. CASE receiver[r] = "completing"
      <4>1. Completed' = Completed \union {m} /\ Ended' = Ended \union {r} /\ m \notin Completed
        BY <2>1, <2>2, <2>3, <3>2
      <4>2. deliveries[m] >= 2 /\ got[r] = m
        BY <2>7, <3>2
      <4> HIDE DEF Completed, Ended
      <4>q. QED
        BY <2>1, <4>1, <4>2
    <3>q. QED
      BY <2>2, <3>1, <3>2
  <2>q. QED
    BY <2>4, <2>5, <2>6
<1>6. ASSUME NEW r \in Receivers, ReceiverFails(r) PROVE CommandsIInv'
  <2>1. /\ crashed' = TRUE
        /\ UNCHANGED <<deliveries, first, receiver, got>>
    BY <1>6 DEF ReceiverFails
  <2>2. CASE UNCHANGED <<message, holder>>
    BY <2>1, <2>2
  <2>3. CASE /\ receiver[r] = "completing" /\ holder[got[r]] = r
             /\ message' = [message EXCEPT ![got[r]] = "done"]
             /\ holder' = [holder EXCEPT ![got[r]] = Nobody]
    <3> DEFINE m == got[r]
    <3>1. m \in Messages /\ deliveries[m] >= 2 /\ message[m] = "locked"
      BY <2>3
    <3>2. /\ message' = [message EXCEPT ![m] = "done"]
          /\ holder' = [holder EXCEPT ![m] = Nobody]
      BY <2>3
    <3> HIDE DEF m
    <3>3. CommandsTypeOK' /\ LockInHand'
      BY <2>1, <3>1, <3>2
    <3>4. Completed' = Completed \union {m} /\ Ended' = Ended
      BY <2>1, <3>1, <3>2
    <3>5. OneMessagePerClick'
      <4> HIDE DEF Completed, Ended
      <4>q. QED
        BY <2>1, <3>1, <3>4
    <3>q. QED
      BY <3>3, <3>5
  <2>q. QED
    BY <1>6, <2>2, <2>3 DEF ReceiverFails, HoldsLock
<1>q. QED
  BY <1>1, <1>2, <1>3, <1>4, <1>5, <1>6 DEF CommandNext
-----------------------------------------------------------------------------
AlertsTypeOK ==
    /\ alert \in [Alerts -> {"none", "sent", "waiting", "locked", "done"}]
    /\ printed \in [Alerts -> Nat]
    /\ lockLost \in [Alerts -> Nat]
    /\ console \in {"receive", "print", "complete", "ended"}
    /\ held \in Alerts \union {0}
    /\ console \in {"print", "complete"} => held \in Alerts

AboutToPrint(a) == IF console = "print" /\ held = a THEN 1 ELSE 0
Delivered(a)    == IF alert[a] \in {"locked", "done"} THEN 1 ELSE 0

\* Each print is paid for by a delivery: the last one, or one whose lock
\* expired.
PrintsArePaid ==
    \A a \in Alerts : printed[a] + AboutToPrint(a) <= lockLost[a] + Delivered(a)

AlertsIInv ==
    /\ AlertsTypeOK
    /\ PrintsArePaid
    /\ console = "complete" => printed[held] > 0
    /\ AlertSeen

LEMMA InitAlertsIInv == InitAlerts => AlertsIInv
BY AlertBounds DEF InitAlerts, AlertsIInv, AlertsTypeOK, PrintsArePaid, AlertSeen,
   AboutToPrint, Delivered, Alerts

\* Every step of the console, the hub and the subscription keeps it.
LEMMA StepAlertsIInv ==
    AlertsIInv /\ (Console \/ \E a \in Alerts : SendAlert(a)) => AlertsIInv'
<1> SUFFICES ASSUME AlertsIInv, Console \/ \E a \in Alerts : SendAlert(a) PROVE AlertsIInv'
  OBVIOUS
<1> USE AlertBounds DEF AlertsIInv, AlertsTypeOK, PrintsArePaid, AlertSeen, AboutToPrint,
        Delivered, Alerts
<1>1. ASSUME NEW a \in Alerts, SendAlert(a) PROVE AlertsIInv'
  BY <1>1 DEF SendAlert
<1>2. ASSUME NEW a \in Alerts, AlertArrives(a) PROVE AlertsIInv'
  BY <1>2 DEF AlertArrives
<1>3. ASSUME NEW a \in Alerts, ReceiveAlert(a) PROVE AlertsIInv'
  BY <1>3 DEF ReceiveAlert, AfterReceive
<1>4. ASSUME NEW a \in Alerts, AlertLockExpires(a) PROVE AlertsIInv'
  BY <1>4 DEF AlertLockExpires
<1>5. CASE PrintAlert
  <2>1. /\ console = "print" /\ held \in Alerts /\ console' = "complete"
        /\ printed' = [printed EXCEPT ![held] = @ + 1]
        /\ UNCHANGED <<alert, lockLost, held>>
    BY <1>5 DEF PrintAlert
  <2>2. /\ printed'[held] = printed[held] + 1
        /\ \A a \in Alerts : a # held => printed'[a] = printed[a]
        /\ printed' \in [Alerts -> Nat]
    BY <2>1
  <2>3. ASSUME NEW a \in Alerts
        PROVE  /\ printed'[a] <= lockLost[a] + Delivered(a)
               /\ alert[a] = "done" => printed'[a] > 0
    <3>1. CASE a = held
      BY <2>1, <2>2, <3>1
    <3>2. CASE a # held
      BY <2>1, <2>2, <3>2
    <3>q. QED
      BY <3>1, <3>2
  <2>4. PrintsArePaid' /\ AlertSeen'
    BY <2>1, <2>2, <2>3
  <2>q. QED
    BY <2>1, <2>2, <2>4
<1>6. CASE CompleteAlert
  <2>1. /\ console = "complete" /\ held \in Alerts /\ console' \in {"receive", "ended"}
        /\ UNCHANGED <<printed, lockLost, held>>
        /\ alert' = [alert EXCEPT ![held] = "done"] \/ UNCHANGED alert
    BY <1>6 DEF CompleteAlert, AlertBecomes
  <2>2. /\ \A a \in Alerts : alert'[a] = alert[a] \/ (a = held /\ alert'[a] = "done")
        /\ alert' \in [Alerts -> {"none", "sent", "waiting", "locked", "done"}]
    BY <2>1
  <2>3. ASSUME NEW a \in Alerts
        PROVE  /\ printed[a] <= lockLost[a] + Delivered(a)'
               /\ alert'[a] = "done" => printed[a] > 0
               /\ printed[a] <= 1 + lockLost[a]
    BY <2>1, <2>2
  <2>q. QED
    BY <2>1, <2>2, <2>3
<1>7. CASE ConsoleEnds
  BY <1>7 DEF ConsoleEnds
<1>8. CASE ConsoleStarts
  BY <1>8 DEF ConsoleStarts
<1>q. QED
  BY <1>1, <1>2, <1>3, <1>4, <1>5, <1>6, <1>7, <1>8 DEF Console
-----------------------------------------------------------------------------
AllIInv == IInv /\ CommandsIInv /\ AlertsIInv

\* What one component does leaves the invariants of the others alone; all they
\* share is the end of the program.
LEMMA StepAllIInv == AllIInv /\ [MessagesNext]_all => AllIInv'
<1> SUFFICES ASSUME AllIInv, [MessagesNext]_all PROVE AllIInv'
  OBVIOUS
<1> USE DEF AllIInv
<1>1. ASSUME UNCHANGED sender, crashed' \in BOOLEAN PROVE IInv'
  BY <1>1 DEF sender, IInv, TypeOK, OneTimer, StartNeverWaits, OnlyStopWaits, OneStopWaits,
              TickFindsClient, NoClientForgotten
<1>2. ASSUME UNCHANGED <<message, holder, deliveries, first, receiver, got>>,
             crashed => crashed'
      PROVE  CommandsIInv'
  BY <1>2 DEF CommandsIInv, CommandsTypeOK, LockInHand, OneMessagePerClick, Completed, Ended
<1>3. ASSUME UNCHANGED alerts PROVE AlertsIInv'
  BY <1>3 DEF alerts, AlertsIInv, AlertsTypeOK, PrintsArePaid, AlertSeen, AboutToPrint, Delivered
<1>4. CASE Background \/ ResumeHandler
  <2>1. Next /\ UNCHANGED <<commands, alerts>>
    BY <1>4 DEF Background, ResumeHandler, Next
  <2>2. crashed => crashed'
    BY <1>4 DEF Background, ResumeHandler, StartClick, StopClick, Click, Tick, SendAnswered,
                Fail, Resume
  <2>q. QED
    BY <1>2, <1>3, <2>1, <2>2, StepIInv DEF commands
<1>5. ASSUME NEW a \in Alerts, SendAlert(a) PROVE AllIInv'
  <2>1. Next /\ UNCHANGED commands /\ UNCHANGED crashed
    BY <1>5 DEF SendAlert, Next, Alert
  <2>q. QED
    BY <1>2, <1>5, <2>1, StepIInv, StepAlertsIInv DEF commands
<1>6. CASE Commands
  <2>1. UNCHANGED sender /\ crashed' \in BOOLEAN /\ UNCHANGED alerts
    BY <1>6 DEF Commands, CommandNext, SendCommand, LockExpires, ClickReceive,
                ReceiveCommand, SettleAnswered, ReceiverFails, IInv, TypeOK
  <2>q. QED
    BY <1>1, <1>3, <1>6, <2>1, StepCommandsIInv DEF Commands
<1>7. CASE Console
  <2>1. UNCHANGED vars /\ UNCHANGED commands
    BY <1>7 DEF Console
  <2>q. QED
    BY <1>2, <1>7, <2>1, StepIInv, StepAlertsIInv DEF vars, commands
<1>8. CASE UNCHANGED all
  BY <1>2, <1>3, <1>8, StepIInv DEF all, vars, commands
<1>q. QED
  BY <1>4, <1>5, <1>6, <1>7, <1>8 DEF MessagesNext

\* The inductive invariant holds in every reachable state.
THEOREM InvariantHolds == MessagesSpec => []AllIInv
<1>1. MessagesInit => AllIInv
  BY InitIInv, InitCommandsIInv, InitAlertsIInv DEF MessagesInit, AllIInv
<1>q. QED
  BY <1>1, StepAllIInv, PTL DEF MessagesSpec

\* Every variable of the three components keeps its type.
THEOREM TypeCorrect == MessagesSpec => [](TypeOK /\ CommandsTypeOK /\ AlertsTypeOK)
<1>1. AllIInv => TypeOK /\ CommandsTypeOK /\ AlertsTypeOK
  BY DEF AllIInv, IInv, CommandsIInv, AlertsIInv
<1>q. QED
  BY <1>1, InvariantHolds, PTL

\* However often and whenever the buttons are clicked, telemetry is sent by
\* at most one timer, the one that Stop reaches.
THEOREM OneTimerSends == MessagesSpec => []OneTimer
<1>1. AllIInv => OneTimer
  BY DEF AllIInv, IInv
<1>q. QED
  BY <1>1, InvariantHolds, PTL

\* A tick meets no missing client, unless Stop was clicked again while one
\* waited.
THEOREM TicksFindTheirClient == MessagesSpec => []TickFindsClient
<1>1. AllIInv => TickFindsClient
  BY DEF AllIInv, IInv
<1>q. QED
  BY <1>1, InvariantHolds, PTL

\* With the same exception no open client is forgotten.
THEOREM ClientsAreClosed == MessagesSpec => []NoClientForgotten
<1>1. AllIInv => NoClientForgotten
  BY DEF AllIInv, IInv
<1>q. QED
  BY <1>1, InvariantHolds, PTL

\* Start is never clicked while there is a client to close: its await is
\* never reached.
THEOREM StartRunsInOneGo == MessagesSpec => []StartNeverWaits
<1>1. AllIInv => StartNeverWaits
  BY DEF AllIInv, IInv
<1>q. QED
  BY <1>1, InvariantHolds, PTL

\* For any number of messages, receivers and expired locks, every receiver
\* that ends has completed a message of its own, at a later delivery than the
\* first.
THEOREM EachClickCompletesOne == MessagesSpec => []OneMessagePerClick
<1>1. AllIInv => OneMessagePerClick
  BY DEF AllIInv, CommandsIInv
<1>q. QED
  BY <1>1, InvariantHolds, PTL

\* For any number of alerts, expired locks and starts of the console, no alert
\* is dropped unseen or shown again without a lost lock.
THEOREM AlertsAreSeen == MessagesSpec => []AlertSeen
<1>1. AllIInv => AlertSeen
  BY DEF AllIInv, AlertsIInv
<1>q. QED
  BY <1>1, InvariantHolds, PTL
=============================================================================
