---------------------------- MODULE DeviceClients ----------------------------
(***************************************************************************)
(* The two simulated devices of the WPF program (WpfPC/MainWindow.xaml.cs, *)
(* "Call Method" and "sheduledtask"): their clients live in the static     *)
(* fields dcPC and dcPC1, which the buttons replace and set to null while  *)
(* callbacks of the old clients run on other threads and read them.        *)
(*                                                                         *)
(* A click runs on the UI thread up to its first await; other clicks come  *)
(* only after that, callbacks at any time.  Click k creates the clients    *)
(* <<"PC", k>> and <<"PC1", k>>.  Of the callbacks only the one for new    *)
(* desired properties changes what is modelled; it is in DeviceTwin.       *)
(***************************************************************************)
EXTENDS Integers

CONSTANT MaxClicks   \* bound: clicks that create clients

ASSUME BoundAssumption == MaxClicks \in Nat

None    == 0
Clicks  == 1 .. MaxClicks
Devices == {"PC", "PC1"}
Clients == Devices \X Clicks

VARIABLES
    current,   \* the fields dcPC and dcPC1
    client,    \* how each client is
    kind,      \* what each click was: "methods" (cmd08) or "update" (cmd11)
    ui,        \* what the UI thread does next in the click under way
    clicks,    \* clicks so far
    desired,   \* clicks whose SetDesiredPropertyUpdateCallback has returned
    phase,     \* the job that each click waits for
    job,       \* how that job is, in the service
    crashed    \* an exception left an async void handler

vars == <<current, client, kind, ui, clicks, desired, phase, job, crashed>>

Init ==
    /\ current = [d \in Devices |-> None]
    /\ client  = [c \in Clients |-> "unused"]
    /\ kind    = [k \in Clicks |-> "none"]
    /\ ui = "free" /\ clicks = 0
    /\ desired = {}
    /\ phase   = [k \in Clicks |-> "none"]
    /\ job     = [k \in Clicks |-> "none"]
    /\ crashed = FALSE

Open == {"created", "subscribed"}

\* A slip: only the first client is closed.
CloseFirstOnly ==
    /\ client' = [c \in Clients |->
          IF c[1] = "PC" /\ current[c[1]] = c[2] THEN "closing" ELSE client[c]]
    /\ current' = [d \in Devices |-> None]

\* removeAndCloseClientDevicesConnections; the CloseAsync calls are not
\* awaited.
RemoveAndClose ==
    /\ client' = [c \in Clients |-> IF current[c[1]] = c[2] THEN "closing" ELSE client[c]]
    /\ current' = [d \in Devices |-> None]

\* cmd08SubscribeAndWaitForMethod and cmd11ScheduledUpdate begin.
ClickSubscribe(what) ==
    /\ ~ crashed /\ ui = "free"
    /\ clicks < MaxClicks
    /\ clicks' = clicks + 1
    /\ kind' = [kind EXCEPT ![clicks + 1] = what]
    /\ RemoveAndClose
    /\ ui' = "createPC"
    /\ UNCHANGED <<desired, phase, job, crashed>>

\* cmd08Unsubscribe.
ClickUnsubscribe ==
    /\ ~ crashed /\ ui = "free"
    /\ RemoveAndClose
    /\ UNCHANGED <<kind, ui, clicks, desired, phase, job, crashed>>

\* A slip: the new client gets its field after its handlers.
CreateUnassigned(d) ==
    /\ client' = [client EXCEPT ![<<d, clicks>>] = "created"]
    /\ UNCHANGED current

\* dcPC = DeviceClient.Create...; likewise dcPC1.
Create(d) ==
    /\ client' = [client EXCEPT ![<<d, clicks>>] = "created"]
    /\ current' = [current EXCEPT ![d] = clicks]

CreatePC ==
    /\ ~ crashed /\ ui = "createPC"
    /\ Create("PC")
    /\ ui' = "handlersPC"
    /\ UNCHANGED <<kind, clicks, desired, phase, job, crashed>>

\* SetMethodHandler.
HandlersPC ==
    /\ ~ crashed /\ ui = "handlersPC"
    /\ client' = [client EXCEPT ![<<"PC", clicks>>] = "subscribed"]
    /\ ui' = "createPC1"
    /\ UNCHANGED <<current, kind, clicks, desired, phase, job, crashed>>

CreatePC1 ==
    /\ ~ crashed /\ ui = "createPC1"
    /\ Create("PC1")
    /\ ui' = "handlersPC1"
    /\ UNCHANGED <<kind, clicks, desired, phase, job, crashed>>

\* The last handlers, up to the first await: cmd08 waits for the desired
\* properties, cmd11 for its first job.
HandlersPC1 ==
    /\ ~ crashed /\ ui = "handlersPC1"
    /\ client' = [client EXCEPT ![<<"PC1", clicks>>] = "subscribed"]
    /\ ui' = "free"
    /\ IF kind[clicks] = "update"
       THEN /\ phase' = [phase EXCEPT ![clicks] = "twin"]
            /\ job' = [job EXCEPT ![clicks] = "running"]
       ELSE UNCHANGED <<phase, job>>
    /\ UNCHANGED <<current, kind, clicks, desired, crashed>>

\* SetDesiredPropertyUpdateCallback returns to cmd08, or fails.
DesiredSet(k) ==
    /\ ~ crashed
    /\ kind[k] = "methods"
    /\ k \notin desired
    /\ \/ client[<<"PC1", k>>] = "subscribed" /\ desired' = desired \union {k}
          /\ UNCHANGED crashed
       \/ client[<<"PC1", k>>] \in {"subscribed", "closing", "closed"} /\ crashed' = TRUE
          /\ UNCHANGED desired
    /\ UNCHANGED <<current, client, kind, ui, clicks, phase, job>>

\* CloseAsync completes.
Closed(c) ==
    /\ ~ crashed
    /\ client[c] = "closing"
    /\ client' = [client EXCEPT ![c] = "closed"]
    /\ UNCHANGED <<current, kind, ui, clicks, desired, phase, job, crashed>>

\* The service ends a job.
JobEnds(k) ==
    /\ ~ crashed
    /\ job[k] = "running"
    /\ \E s \in {"completed", "failed", "cancelled"} : job' = [job EXCEPT ![k] = s]
    /\ UNCHANGED <<current, client, kind, ui, clicks, desired, phase, crashed>>

\* A slip: the loop goes on until the status is both.
BothOver(status) == status = "completed" /\ status = "failed"

\* MonitorJob ends with a job that is completed or failed; it polls a
\* cancelled one for ever.
MonitorOver(status) == status \in {"completed", "failed"}

\* cmd11 goes on with its method job, then is over.
MonitorReturns(k) ==
    /\ ~ crashed /\ ui = "free"
    /\ phase[k] \in {"twin", "method"}
    /\ MonitorOver(job[k])
    /\ IF phase[k] = "twin"
       THEN /\ phase' = [phase EXCEPT ![k] = "method"]
            /\ job' = [job EXCEPT ![k] = "running"]
       ELSE /\ phase' = [phase EXCEPT ![k] = "over"]
            /\ UNCHANGED job
    /\ UNCHANGED <<current, client, kind, ui, clicks, desired, crashed>>

\* Scheduling a job or asking for it fails.
JobCallFails(k) ==
    /\ ~ crashed /\ ui = "free"
    /\ phase[k] \in {"twin", "method"}
    /\ crashed' = TRUE
    /\ UNCHANGED <<current, client, kind, ui, clicks, desired, phase, job>>

UIThread == CreatePC \/ HandlersPC \/ CreatePC1 \/ HandlersPC1

Next ==
    \/ \E what \in {"methods", "update"} : ClickSubscribe(what)
    \/ ClickUnsubscribe \/ UIThread
    \/ \E k \in Clicks : DesiredSet(k) \/ JobEnds(k) \/ MonitorReturns(k) \/ JobCallFails(k)
    \/ \E c \in Clients : Closed(c)

Spec == Init /\ [][Next]_vars

-----------------------------------------------------------------------------
\* Every variable keeps its type, and the fields hold clients of theirs that
\* nobody has closed.
TypeOK ==
    /\ current \in [Devices -> Clicks \union {None}]
    /\ client \in [Clients -> {"unused", "closing", "closed"} \union Open]
    /\ kind \in [Clicks -> {"none", "methods", "update"}]
    /\ ui \in {"free", "createPC", "handlersPC", "createPC1", "handlersPC1"}
    /\ clicks \in 0 .. MaxClicks
    /\ desired \subseteq Clicks
    /\ phase \in [Clicks -> {"none", "twin", "method", "over"}]
    /\ job \in [Clicks -> {"none", "running", "completed", "failed", "cancelled"}]
    /\ crashed \in BOOLEAN
    /\ \A d \in Devices : current[d] # None => client[<<d, current[d]>>] \in Open

\* Each device has one connection: a client that nobody has begun to close is
\* the one in the field, so it can still be closed.
OneConnectionPerDevice ==
    \A c \in Clients : client[c] \in Open => current[c[1]] = c[2]

\* A scheduled update comes to its end unless a job of it is cancelled.
ScheduledUpdateEnds ==
    \A k \in Clicks :
        (phase[k] = "twin") ~> (phase[k] = "over" \/ job[k] = "cancelled" \/ crashed)
=============================================================================
