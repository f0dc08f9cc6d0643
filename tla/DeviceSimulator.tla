--------------------------- MODULE DeviceSimulator ---------------------------
(***************************************************************************)
(* The simulated device in Node.js (2017Node/devmgmt/simdev): it answers   *)
(* direct methods and reports a reboot or the stages of a firmware update  *)
(* in its twin.                                                            *)
(*                                                                         *)
(* One event loop runs the handlers and callbacks, each in one go; the     *)
(* invocations overlap between them.  All timers last 4000 ms, so they     *)
(* fire in the order in which they were started.  An exception that leaves *)
(* a callback ends the process, and the timers with it.                    *)
(***************************************************************************)
EXTENDS Integers, Sequences, SequencesExt

CONSTANTS Methods,   \* the methods the back end invokes
          MaxCalls   \* bound: invocations

\* The methods for which a handler is registered.
Registered == {"writeLine", "reboot", "lockDoor", "firmwareUpdate"}

ASSUME MethodsAssumption == Methods \subseteq Registered
ASSUME BoundsAssumption == MaxCalls \in Nat

None    == 0
Calls   == 1 .. MaxCalls
\* The stages of an update; nothing is reported when it is over.
Stages  == <<"waiting", "downloading", "downloadComplete", "applying",
             "applyComplete", "over">>
Report  == [call : Calls, what : ToSet(Stages) \union {"reboot"}]

VARIABLES
    process,    \* how the process is: "opening", "open", "unopened" or "dead"
    calls,      \* the methods invoked, in their order
    responding, \* calls whose response.send has not called back
    asking,     \* calls whose getTwin has not called back
    timers,     \* started timers, the next to fire first
    reports,    \* twin updates on their way, oldest first
    twin,       \* reported.iothubDM as the hub has it
    stage,      \* history: the stage of each update, 0 before the first
    started     \* history: updates in the order in which they started

vars == <<process, calls, responding, asking, timers, reports, twin, stage,
          started>>

Init ==
    /\ process = "opening"
    /\ calls = <<>>
    /\ responding = {} /\ asking = {}
    /\ timers = <<>> /\ reports = <<>>
    /\ twin = [uri |-> None, status |-> "none", reboot |-> None]
    /\ stage = [c \in Calls |-> 0]
    /\ started = <<>>

\* client.open calls back; the handlers are registered in either case.
Opened(ok) ==
    /\ process = "opening"
    /\ process' = IF ok THEN "open" ELSE "unopened"
    /\ UNCHANGED <<calls, responding, asking, timers, reports, twin, stage,
                   started>>

\* A method is invoked: its handler sends the response and, for a reboot or
\* an update, asks for the twin.
Invoke(m) ==
    LET c == Len(calls) + 1
    IN /\ process = "open"
       /\ c \in Calls
       /\ calls' = Append(calls, m)
       /\ responding' = responding \union {c}
       /\ asking' = IF m \in {"reboot", "firmwareUpdate"}
                    THEN asking \union {c} ELSE asking
       /\ UNCHANGED <<process, timers, reports, twin, stage, started>>

\* JSON.parse throws for the payload of an update, after the response was sent.
InvokeMalformed ==
    /\ process = "open"
    /\ "firmwareUpdate" \in Methods
    /\ process' = "dead"
    /\ UNCHANGED <<calls, responding, asking, timers, reports, twin, stage, started>>

\* Only onWriteLine tests the error the right way round.  The others call
\* err.toString() when there is no error, which throws.
Throws(m, ok) == m # "writeLine" /\ ok

ResponseSent(c, ok) ==
    /\ process = "open"
    /\ responding' = responding \ {c}
    /\ process' = IF Throws(calls[c], ok) THEN "dead" ELSE process
    /\ UNCHANGED <<calls, asking, timers, reports, twin, stage, started>>

\* The stages that are reported and followed by a timer.
Enter(c, n) ==
    /\ stage' = [stage EXCEPT ![c] = n]
    /\ reports' = IF Stages[n] = "over" THEN reports
                  ELSE Append(reports, [call |-> c, what |-> Stages[n]])

\* A slip: the first wait is short, and overtakes the timers set before it.
ShortFirstTimer(ts, c, n) == IF n = 1 THEN <<c>> \o ts ELSE Append(ts, c)

\* setTimeout(..., 4000) when call c has entered stage n.
SetTimer(ts, c, n) == Append(ts, c)

\* Slips: no timer is started, or two.
StartUpdateForgotten(c) ==
    /\ Enter(c, 1)
    /\ started' = Append(started, c)
    /\ UNCHANGED timers
StartUpdateTwice(c) ==
    /\ Enter(c, 1)
    /\ started' = Append(started, c)
    /\ timers' = timers \o <<c, c>>

\* waitToDownload.
StartUpdate(c) ==
    /\ Enter(c, 1)
    /\ timers' = SetTimer(timers, c, 1)
    /\ started' = Append(started, c)

\* getTwin calls back with the twin.
TwinAcquired(c) ==
    /\ process = "open"
    /\ asking' = asking \ {c}
    /\ IF calls[c] = "reboot"
       THEN /\ reports' = Append(reports, [call |-> c, what |-> "reboot"])
            /\ UNCHANGED <<timers, stage, started>>
       ELSE StartUpdate(c)
    /\ UNCHANGED <<process, calls, responding, twin>>

\* getTwin calls back with an error, which is only logged.
TwinRefused(c) ==
    /\ process = "open"
    /\ asking' = asking \ {c}
    /\ UNCHANGED <<process, calls, responding, timers, reports, twin, stage,
                   started>>

\* The oldest timer fires: the update of its call goes on, and starts the
\* next timer unless it is over.
TimerFires ==
    /\ process = "open"
    /\ timers # <<>>
    /\ LET c == Head(timers)
           n == stage[c] + 1    \* downloadImage, applyImage and their timers
       IN /\ Enter(c, n)
          /\ timers' = IF Stages[n] = "over" THEN Tail(timers)
                       ELSE SetTimer(Tail(timers), c, n)
    /\ UNCHANGED <<process, calls, responding, asking, twin, started>>

\* Slips: a reboot goes under the status; the patch does not name the package.
MergedFlat(t, r) == [t EXCEPT !.status = r.what]
MergedNameless(t, r) ==
    IF r.what = "reboot" THEN [t EXCEPT !.reboot = r.call]
    ELSE [t EXCEPT !.status = r.what]

\* The hub merges a patch; only the first stage names the package.
Merged(t, r) ==
    IF r.what = "reboot" THEN [t EXCEPT !.reboot = r.call]
    ELSE [t EXCEPT !.status = r.what,
                   !.uri = IF r.what = "waiting" THEN r.call ELSE @]

Reported ==
    /\ process = "open"
    /\ reports # <<>>
    /\ twin' = Merged(twin, Head(reports))
    /\ reports' = Tail(reports)
    /\ UNCHANGED <<process, calls, responding, asking, timers, stage, started>>

\* The update calls back with an error, which is thrown.
ReportFails ==
    /\ process = "open"
    /\ reports # <<>>
    /\ process' = "dead"
    /\ UNCHANGED <<calls, responding, asking, timers, reports, twin, stage,
                   started>>

Next ==
    \/ \E ok \in BOOLEAN : Opened(ok)
    \/ (\E m \in Methods : Invoke(m)) \/ InvokeMalformed
    \/ \E c \in responding, ok \in BOOLEAN : ResponseSent(c, ok)
    \/ \E c \in asking : TwinAcquired(c) \/ TwinRefused(c)
    \/ TimerFires \/ Reported \/ ReportFails

Spec == Init /\ [][Next]_vars

\* The event loop runs a timer that is due, and the hub answers.
FairSpec ==
    /\ Spec
    /\ WF_vars(TimerFires)
    /\ WF_vars(Reported)
    /\ \A c \in Calls : WF_vars(c \in asking /\ (TwinAcquired(c) \/ TwinRefused(c)))
-----------------------------------------------------------------------------
\* Every variable keeps its type.
TypeOK ==
    /\ process \in {"opening", "open", "unopened", "dead"}
    /\ calls \in Seq(Registered) /\ Len(calls) <= MaxCalls
    /\ responding \subseteq Calls /\ asking \subseteq Calls
    /\ timers \in Seq(Calls) /\ reports \in Seq(Report)
    /\ twin \in [uri : Calls \union {None},
                 status : ToSet(Stages) \union {"none"},
                 reboot : Calls \union {None}]
    /\ stage \in [Calls -> 0 .. Len(Stages)]
    /\ started \in Seq(Calls)

\* Updates that overlap do not overtake each other: one that started later is
\* never further.
NoOvertaking ==
    \A i, j \in DOMAIN started :
        i < j => stage[started[i]] >= stage[started[j]]

\* An update under way has exactly one timer: its stages do not run twice and
\* do not stop half way.
OneTimerPerUpdate ==
    /\ IsInjective(timers)
    /\ ToSet(timers) = {c \in Calls : stage[c] \in 1 .. Len(Stages) - 1}

\* When nothing is under way the twin tells the end of the update that
\* started last, and its package, however the updates overlapped.
TwinTellsLastUpdate ==
    process = "open" /\ timers = <<>> /\ reports = <<>> /\ started # <<>> =>
        twin.status = "applyComplete" /\ twin.uri = Last(started)

\* An update that started is reported complete, unless the process dies.
UpdateCompletes ==
    \A c \in Calls :
        stage[c] > 0 ~> (stage[c] = Len(Stages) /\ reports = <<>>) \/ process = "dead"
=============================================================================
