----------------------------- MODULE DeviceTwin -----------------------------
(***************************************************************************)
(* The twins of the two simulated devices, and the exercise that updates   *)
(* them (cmd10WorkWithTwins of WpfPC/MainWindow.xaml.cs): both twins are   *)
(* read, then both are updated with the etags read, each call an await of  *)
(* its own.  Meanwhile others change the twins: a second exercise, the     *)
(* twin job of cmd11, the portal.  A change of PC1's desired properties    *)
(* goes to the client that asked for them, whose callback reports them     *)
(* through whatever client is in the field by then.                        *)
(***************************************************************************)
EXTENDS DeviceClients, FiniteSets

CONSTANTS MaxExercises, \* bound: clicks on "Twins"
          MaxEdits,     \* bound: changes by others
          MaxBegun      \* bound: subscribing clicks and exercises together

ASSUME TwinBounds == MaxExercises \in Nat /\ MaxEdits \in Nat /\ MaxBegun \in Nat

Exercises == 1 .. MaxExercises
Versions  == 1 .. MaxExercises + MaxEdits \* etags that a changed PC1 may have

VARIABLES
    etag,     \* the etag of each twin: how often it was changed
    at,       \* the call that each exercise waits for
    read,     \* the etags it has read
    touched,  \* observation: twins that others changed after it read them
    updated,  \* observation: the twins it has updated
    refused,  \* observation: the twins whose update was refused
    news,     \* <<k, v>>: version v of PC1's desired properties is on its way to
              \* PC1's client of click k, or the callback has not read the field
    sending,  \* <<k, v, x>>: the callback's report is on its way through the
              \* client of click x
    reported, \* observation: the <<k, v>> whose report has arrived
    failed,   \* observation: those whose report failed though the client that
              \* sent it was open
    edits

reports == <<sending, reported, failed>>
twins   == <<etag, at, read, touched, updated, refused, news, reports, edits>>
all   == <<vars, twins>>

TwinInit ==
    /\ etag = [d \in Devices |-> 0]
    /\ at = [x \in Exercises |-> "none"]
    /\ read = [x \in Exercises |-> [d \in Devices |-> 0]]
    /\ touched = [x \in Exercises |-> {}]
    /\ updated = [x \in Exercises |-> {}]
    /\ refused = [x \in Exercises |-> {}]
    /\ news = {} /\ sending = {} /\ reported = {} /\ failed = {}
    /\ edits = 0

\* Thread.Sleep keeps the UI thread.
Awake == \A x \in Exercises : at[x] # "sleep"

\* The answer to an await is handled on the UI thread.
Answered(x, call) == ~ crashed /\ ui = "free" /\ Awake /\ at[x] = call

Goto(x, call) == at' = [at EXCEPT ![x] = call]

\* The hub may call a device Connected that has had a subscribed client; its
\* answer lags behind.
MayBeConnected(d) ==
    \E c \in Clients : c[1] = d /\ client[c] \in {"subscribed", "closing", "closed"}

\* The calls that x waits for between reading d and updating it.
Between(d) == IF d = "PC" THEN {"twinPC1", "patchPC"} ELSE {"patchPC", "patchPC1"}

\* A twin has a new etag; exercises that read it before hold an old one.
Changed(d, except) ==
    /\ etag' = [etag EXCEPT ![d] = @ + 1]
    /\ touched' = [x \in Exercises |->
          touched[x] \union (IF x # except /\ at[x] \in Between(d) THEN {d} ELSE {})]
    /\ LET due == {k \in desired : d = "PC1" /\ client[<<d, k>>] = "subscribed"}
       IN  news' = news \union {<<k, etag[d] + 1>> : k \in due}

\* Clicks on the buttons that MaxBegun bounds.
Begun == clicks + Cardinality({x \in Exercises : at[x] # "none"})

ClickTwins(x) ==
    /\ Begun < MaxBegun
    /\ Answered(x, "none")
    /\ \A y \in Exercises : y < x => at[y] # "none"
    /\ Goto(x, "devicePC")
    /\ UNCHANGED <<vars, etag, read, touched, updated, refused, news, reports, edits>>

\* GetDeviceAsync twice; unless both are connected the exercise returns.
GetDevice(x) ==
    /\ \/ /\ Answered(x, "devicePC")
          /\ (Goto(x, "devicePC1") /\ MayBeConnected("PC")) \/ Goto(x, "over")
       \/ /\ Answered(x, "devicePC1")
          /\ (Goto(x, "twinPC") /\ MayBeConnected("PC1")) \/ Goto(x, "over")
    /\ UNCHANGED <<vars, etag, read, touched, updated, refused, news, reports, edits>>

GetTwin(x) ==
    /\ \/ /\ Answered(x, "twinPC")
          /\ read' = [read EXCEPT ![x]["PC"] = etag["PC"]]
          /\ Goto(x, "twinPC1")
       \/ /\ Answered(x, "twinPC1")
          /\ read' = [read EXCEPT ![x]["PC1"] = etag["PC1"]]
          /\ Goto(x, "patchPC")
    /\ UNCHANGED <<vars, etag, touched, updated, refused, news, reports, edits>>

\* A slip: the etag of the other twin.
OtherEtag(x, d) == read[x]["PC"]

\* The etag given to UpdateTwinAsync.
EtagFor(x, d) == read[x][d]

\* UpdateTwinAsync; an exception leaves the handler, and the program ends.
UpdateTwin(x, d) ==
    IF EtagFor(x, d) = etag[d]
    THEN /\ Changed(d, x)
         /\ updated' = [updated EXCEPT ![x] = @ \union {d}]
         /\ UNCHANGED <<crashed, refused>>
    ELSE /\ crashed' = TRUE
         /\ refused' = [refused EXCEPT ![x] = @ \union {d}]
         /\ UNCHANGED <<etag, touched, news, updated>>

PatchTwins(x) ==
    /\ \/ Answered(x, "patchPC") /\ UpdateTwin(x, "PC") /\ Goto(x, "patchPC1")
       \/ Answered(x, "patchPC1") /\ UpdateTwin(x, "PC1") /\ Goto(x, "sleep")
    /\ UNCHANGED <<current, client, kind, ui, clicks, desired, phase, job, read,
                   reports, edits>>

\* Any other failure of one of these calls leaves the handler, too.
ExerciseFails(x) ==
    /\ \E call \in {"devicePC", "devicePC1", "twinPC", "twinPC1", "patchPC", "patchPC1"} :
          Answered(x, call)
    /\ crashed' = TRUE
    /\ UNCHANGED <<current, client, kind, ui, clicks, desired, phase, job, twins>>

\* Ten seconds later; what follows are queries.
WakeUp(x) ==
    /\ ~ crashed /\ at[x] = "sleep"
    /\ Goto(x, "over")
    /\ UNCHANGED <<vars, etag, read, touched, updated, refused, news, reports, edits>>

\* Somebody else changes a twin.  Bound: while an exercise is under way.
Edit(d) ==
    /\ ~ crashed
    /\ edits < MaxEdits
    /\ \E x \in Exercises : at[x] \notin {"none", "over"}
    /\ edits' = edits + 1
    /\ Changed(d, 0)
    /\ UNCHANGED <<vars, at, read, updated, refused, reports>>

\* devicePC1_configupdate of the client of click k reports version v through the field.
\* Without a client in it, that is a NullReferenceException on a thread of the
\* SDK, and nothing is reported.
ConfigUpdate(k, v) ==
    /\ ~ crashed
    /\ <<k, v>> \in news
    /\ news' = news \ {<<k, v>>}
    /\ sending' = IF current["PC1"] = None THEN sending
                  ELSE sending \union {<<k, v, current["PC1"]>>}
    /\ UNCHANGED <<vars, etag, at, read, touched, updated, refused, reported, failed, edits>>

\* UpdateReportedPropertiesAsync of client <<"PC1", x>> returns.
ReportConfig(k, v, x) ==
    /\ ~ crashed
    /\ <<k, v, x>> \in sending
    /\ client[<<"PC1", x>>] # "closed"
    /\ sending' = sending \ {<<k, v, x>>}
    /\ reported' = reported \union {<<k, v>>}
    /\ UNCHANGED <<vars, etag, at, read, touched, updated, refused, news, failed, edits>>

\* Or it throws, because the client is being closed or for any other reason.
\* Nobody sends the report again.
ReportFails(k, v, x) ==
    /\ ~ crashed
    /\ <<k, v, x>> \in sending
    /\ sending' = sending \ {<<k, v, x>>}
    /\ failed' = IF client[<<"PC1", x>>] \in Open THEN failed \union {<<k, v>>} ELSE failed
    /\ UNCHANGED <<vars, etag, at, read, touched, updated, refused, news, reported, edits>>

SomeConfigUpdate == \E n \in news : ConfigUpdate(n[1], n[2])
SomeReportEnds == \E s \in sending : ReportConfig(s[1], s[2], s[3]) \/ ReportFails(s[1], s[2], s[3])

Exercise(x) == \/ ClickTwins(x) \/ GetDevice(x) \/ GetTwin(x) \/ PatchTwins(x)
               \/ ExerciseFails(x) \/ WakeUp(x)
-----------------------------------------------------------------------------
(* Together with the rest of the window.                                   *)

WindowInit == Init /\ TwinInit

Window ==
    /\ Awake
    /\ \/ Begun < MaxBegun /\ \E what \in {"methods", "update"} : ClickSubscribe(what)
       \/ ClickUnsubscribe \/ UIThread
       \/ \E k \in Clicks : DesiredSet(k) \/ MonitorReturns(k) \/ JobCallFails(k)
    /\ UNCHANGED twins

Services ==
    /\ \/ \E k \in Clicks : JobEnds(k)
       \/ \E c \in Clients : Closed(c)
    /\ UNCHANGED twins

TwinNext ==
    \/ Window \/ Services
    \/ SomeConfigUpdate \/ SomeReportEnds
    \/ \E x \in Exercises : Exercise(x)
    \/ \E d \in Devices : Edit(d)

TwinSpec == WindowInit /\ [][TwinNext]_all

\* The UI thread goes on and wakes up, jobs end and their monitors are
\* answered, callbacks run on the thread pool, and what they send is answered
\* or fails.
TwinFairSpec ==
    /\ TwinSpec
    /\ WF_all(Awake /\ UIThread /\ UNCHANGED twins)
    /\ WF_all(\E x \in Exercises : WakeUp(x))
    /\ WF_all(\E k \in Clicks : JobEnds(k) /\ UNCHANGED twins)
    /\ SF_all(\E k \in Clicks : Awake /\ MonitorReturns(k) /\ UNCHANGED twins)
    /\ WF_all(SomeConfigUpdate) /\ WF_all(SomeReportEnds)
-----------------------------------------------------------------------------
\* An exercise updates a twin exactly when nobody else has changed it since it
\* read it: no change of others is lost, and no update is refused without one,
\* although the two etags are read and used in four separate calls.
UpdatedUnlessTouched ==
    \A x \in Exercises :
        /\ updated[x] \intersect touched[x] = {}
        /\ refused[x] \subseteq touched[x]

\* Every change of PC1's desired properties that is sent to a client is
\* reported, or its one attempt to report it fails, unless the client is
\* closed meanwhile: the callback of an open client finds a client in the
\* field, and it is not one that was closed in its place.
ChangesReported ==
    \A k \in Clicks, v \in Versions :
        (<<k, v>> \in news)
            ~> \/ <<k, v>> \in reported \union failed
               \/ client[<<"PC1", k>>] \notin Open \/ crashed
=============================================================================
