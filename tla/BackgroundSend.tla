--------------------------- MODULE BackgroundSend ---------------------------
(***************************************************************************)
(* Background telemetry of the WPF device (WpfPC/MainWindow.xaml.cs,       *)
(* "Send in background, send alert"): a timer that sends every 5 seconds,  *)
(* and the buttons that start it, stop it and send an alert.               *)
(*                                                                         *)
(* Handlers run on the UI thread, one at a time, but each of them gives    *)
(* the thread up at its await; other clicks and ticks run in between.      *)
(* An exception in an async void handler ends the program.                 *)
(***************************************************************************)
EXTENDS Integers, FiniteSets

CONSTANTS MaxClicks,   \* bound: clicks on Start and Stop
          MaxInFlight  \* bound: sends not yet answered

ASSUME BoundsAssumption == MaxClicks \in Nat /\ MaxInFlight \in Nat

None == 0                \* null; clients and timers are numbered by click
Ids  == 1 .. MaxClicks

VARIABLES
    timer,        \* m_t
    client,       \* m_dc
    startEnabled, \* cmd05SendTelemetryStart.IsEnabled
    running,      \* the timers that tick
    open,         \* the clients created and not closed
    waiting,      \* the handlers at "await m_dc.CloseAsync()"
    inFlight,     \* sends that wait for their answer
    crashed,      \* an exception left an async void handler
    clicks,       \* the bound on clicks
    overlapped    \* observation: Stop was clicked while a handler waited

vars == <<timer, client, startEnabled, running, open, waiting, inFlight,
          crashed, clicks, overlapped>>

Handlers == [id : Ids, by : {"Start", "Stop"}, closes : Ids]

Init ==
    /\ timer = None /\ client = None
    /\ startEnabled = TRUE
    /\ running = {} /\ open = {} /\ waiting = {}
    /\ inFlight = 0 /\ crashed = FALSE
    /\ clicks = 0 /\ overlapped = FALSE

Click == ~ crashed /\ clicks < MaxClicks /\ clicks' = clicks + 1

\* Slips: the reference is dropped and the timer ticks on; the timer is not
\* looked at.
ForgetTimer == timer' = None /\ UNCHANGED running
KeepTimer   == UNCHANGED <<timer, running>>

\* if (m_t!=null) { m_t.Stop(); m_t = null; }
StopTimer == timer' = None /\ running' = running \ {timer}

\* Line 170 to the end of Start: a new client, a new running timer.
StartSending(id) ==
    /\ client' = id
    /\ timer' = id
    /\ startEnabled' = FALSE

\* Start is clicked.  It waits if there is still a client to close.
StartClick ==
    /\ startEnabled
    /\ Click
    /\ LET id == clicks + 1
       IN IF client = None
          THEN /\ StartSending(id)
               /\ running' = (running \ {timer}) \union {id}
               /\ open' = open \union {id}
               /\ UNCHANGED waiting
          ELSE /\ StopTimer
               /\ waiting' = waiting \union
                             {[id |-> id, by |-> "Start", closes |-> client]}
               /\ UNCHANGED <<client, startEnabled, open>>
    /\ UNCHANGED <<inFlight, crashed, overlapped>>

\* A slip: the client is dropped, not closed.
DropClient ==
    /\ Click
    /\ StopTimer
    /\ client' = None
    /\ startEnabled' = TRUE
    /\ UNCHANGED <<open, waiting, inFlight, crashed, overlapped>>

\* Stop is clicked.
StopClick ==
    /\ Click
    /\ StopTimer
    /\ IF client = None
       THEN /\ startEnabled' = TRUE
            /\ UNCHANGED waiting
       ELSE /\ waiting' = waiting \union
                   {[id |-> clicks + 1, by |-> "Stop", closes |-> client]}
            /\ UNCHANGED startEnabled
    /\ overlapped' = (overlapped \/ waiting # {})
    /\ UNCHANGED <<client, open, inFlight, crashed>>

\* CloseAsync returns to the handler that waits for it.
Resume(h) ==
    /\ ~ crashed
    /\ waiting' = waiting \ {h}
    /\ IF h.by = "Start"
       THEN /\ StartSending(h.id)
            /\ running' = running \union {h.id}
            /\ open' = (open \ {h.closes}) \union {h.id}
       ELSE /\ client' = None
            /\ startEnabled' = TRUE
            /\ open' = open \ {h.closes}
            /\ UNCHANGED <<timer, running>>
    /\ UNCHANGED <<inFlight, crashed, clicks, overlapped>>

\* The timer ticks: M_t_Tick dereferences m_dc.
Tick ==
    /\ ~ crashed
    /\ running # {}
    /\ IF client = None
       THEN crashed' = TRUE /\ UNCHANGED inFlight
       ELSE /\ inFlight < MaxInFlight
            /\ inFlight' = inFlight + 1
            /\ UNCHANGED crashed
    /\ UNCHANGED <<timer, client, startEnabled, running, open, waiting, clicks,
                   overlapped>>

\* The alert looks first whether there is a timer and a client.
Alert ==
    /\ ~ crashed
    /\ timer # None /\ client # None
    /\ inFlight < MaxInFlight
    /\ inFlight' = inFlight + 1
    /\ UNCHANGED <<timer, client, startEnabled, running, open, waiting, crashed,
                   clicks, overlapped>>

SendAnswered ==
    /\ ~ crashed
    /\ inFlight > 0
    /\ inFlight' = inFlight - 1
    /\ UNCHANGED <<timer, client, startEnabled, running, open, waiting, crashed,
                   clicks, overlapped>>

\* A send or a close fails, and nobody catches the exception.
Fail ==
    /\ ~ crashed
    /\ inFlight > 0 \/ waiting # {}
    /\ crashed' = TRUE
    /\ UNCHANGED <<timer, client, startEnabled, running, open, waiting,
                   inFlight, clicks, overlapped>>

Next == \/ StartClick \/ StopClick \/ (\E h \in waiting : Resume(h))
        \/ Tick \/ Alert \/ SendAnswered \/ Fail

Spec == Init /\ [][Next]_vars
-----------------------------------------------------------------------------
\* Every variable keeps its type.
TypeOK ==
    /\ timer \in Ids \union {None} /\ client \in Ids \union {None}
    /\ startEnabled \in BOOLEAN
    /\ running \subseteq Ids /\ open \subseteq Ids
    /\ waiting \subseteq Handlers
    /\ inFlight \in 0 .. MaxInFlight
    /\ crashed \in BOOLEAN /\ overlapped \in BOOLEAN
    /\ clicks \in 0 .. MaxClicks

\* There is never a timer that Stop no longer reaches, so telemetry is sent
\* by one timer at a time however the clicks interleave.
OneTimer == running \subseteq {timer}

\* A running timer finds a client to send with, unless Stop was clicked again
\* while an earlier handler still waited for its close.
TickFindsClient == running # {} /\ client = None => overlapped

\* When Start can be clicked there is no client to close: its await is never
\* reached, and Start runs in one go.
StartNeverWaits == startEnabled => client = None

\* With the same exception, every open client is the current one or one that
\* a handler is closing.
NoClientForgotten ==
    overlapped \/ open \subseteq {client} \union {h.closes : h \in waiting}
=============================================================================
