------------------------------- MODULE BackEnd -------------------------------
(***************************************************************************)
(* The back end in Node.js (2017Node/devmgmt/callmethodondevice) composed  *)
(* with the simulated device: it schedules a job that locks the door of    *)
(* the device and polls the job service for its status.                    *)
(*                                                                         *)
(* An interval asks every five seconds, whether or not the last answer has *)
(* come, and the answers come in any order: several answers on their way   *)
(* may each have found the job ended.  A second job, which edits a twin,   *)
(* goes through the same monitor, and the device does not look at it.      *)
(***************************************************************************)
EXTENDS DeviceSimulator

CONSTANT MaxPolls   \* bound: questions to the job service on their way

ASSUME PollsAssumption == MaxPolls \in Nat \ {0}

VARIABLES
    job,      \* the status of the job: "none", "running" or how it ended
    jobCall,  \* the call in which the job locks the door, or None
    monitor,  \* "scheduling", "refused", "polling" or "cleared"
    asked,    \* questions that the service has not answered
    found,    \* answers on their way which found that the job has ended
    reported  \* history: the callback of the monitor was called

jobVars == <<job, jobCall, monitor, asked, found, reported>>
backEndVars == <<vars, jobVars>>

Ended == {"completed", "failed", "cancelled"}

BackEndInit ==
    /\ Init
    /\ job = "none" /\ jobCall = None
    /\ monitor = "scheduling"
    /\ asked = 0 /\ found = 0 /\ reported = FALSE

\* The service takes the job, or refuses it; a refusal is only logged.  The
\* condition on the device has no value yet when the job is scheduled (158,
\* 198): what comes of that is left to the service.
JobAccepted ==
    /\ monitor = "scheduling" /\ job = "none"
    /\ job' = "running"
    /\ UNCHANGED <<vars, jobCall, monitor, asked, found, reported>>

JobRefused ==
    /\ monitor = "scheduling" /\ job = "none"
    /\ monitor' = "refused"
    /\ UNCHANGED <<vars, job, jobCall, asked, found, reported>>

\* scheduleDeviceMethod calls back without an error: setInterval.
MonitorStarts ==
    /\ monitor = "scheduling" /\ job # "none"
    /\ monitor' = "polling"
    /\ UNCHANGED <<vars, job, jobCall, asked, found, reported>>

\* The service invokes the method on the device.
JobInvokes ==
    /\ job = "running" /\ jobCall = None
    /\ Invoke("lockDoor")
    /\ jobCall' = Len(calls')
    /\ UNCHANGED <<job, monitor, asked, found, reported>>

\* A job completes when the device has answered; it fails, or is cancelled,
\* when it pleases, at the latest when its hour is over.
JobEnds(status) ==
    /\ job = "running"
    /\ status = "completed" => jobCall # None /\ jobCall \notin responding
    /\ job' = status
    /\ UNCHANGED <<vars, jobCall, monitor, asked, found, reported>>

\* The interval fires.
Poll ==
    /\ monitor = "polling"
    /\ asked + found < MaxPolls
    /\ asked' = asked + 1
    /\ UNCHANGED <<vars, job, jobCall, monitor, found, reported>>

\* What monitorJob takes for the end of the job.
SeenToEnd(status) == status \in Ended

\* The service answers; an answer to which the callback does nothing but log,
\* because the job runs or the question failed, needs no step of its own.
PollFails ==
    /\ asked > 0
    /\ asked' = asked - 1
    /\ UNCHANGED <<vars, job, jobCall, monitor, found, reported>>

PollAnswered ==
    /\ asked > 0
    /\ asked' = asked - 1
    /\ found' = IF SeenToEnd(job) THEN found + 1 ELSE found
    /\ UNCHANGED <<vars, job, jobCall, monitor, reported>>

\* A slip: the interval goes on.
KeepPolling == monitor

\* clearInterval
ClearInterval == "cleared"

\* getJob calls back with a job that has ended.
JobReported ==
    /\ found > 0
    /\ found' = found - 1
    /\ monitor' = ClearInterval
    /\ reported' = TRUE
    /\ UNCHANGED <<vars, job, jobCall, asked>>

BackEndNext ==
    \/ Next /\ UNCHANGED jobVars
    \/ JobAccepted \/ JobRefused \/ MonitorStarts \/ JobInvokes
    \/ \E status \in Ended : JobEnds(status)
    \/ Poll \/ PollFails \/ PollAnswered \/ JobReported

BackEndSpec == BackEndInit /\ [][BackEndNext]_backEndVars

\* The event loop of the device runs, the hub and the job service answer, and
\* not every question fails for ever.
BackEndFairSpec ==
    /\ BackEndSpec
    /\ WF_backEndVars(TimerFires /\ UNCHANGED jobVars)
    /\ WF_backEndVars(Reported /\ UNCHANGED jobVars)
    /\ \A c \in Calls :
           WF_backEndVars(/\ c \in asking /\ (TwinAcquired(c) \/ TwinRefused(c))
                          /\ UNCHANGED jobVars)
    /\ WF_backEndVars(MonitorStarts)
    /\ WF_backEndVars(\E status \in Ended : JobEnds(status))
    /\ WF_backEndVars(Poll)
    /\ SF_backEndVars(PollAnswered)
    /\ WF_backEndVars(JobReported)
-----------------------------------------------------------------------------
\* Every variable keeps its type.
BackEndTypeOK ==
    /\ TypeOK
    /\ job \in Ended \union {"none", "running"}
    /\ jobCall \in Calls \union {None}
    /\ monitor \in {"scheduling", "refused", "polling", "cleared"}
    /\ asked \in 0 .. MaxPolls /\ found \in 0 .. MaxPolls
    /\ reported \in BOOLEAN

\* The end of a job that was accepted is reported, however it ended, and the
\* monitor then falls silent for good: the interval is cleared, and the
\* questions still on their way do not set it going again.
MonitorFallsSilent ==
    job = "running" ~> reported /\ [](monitor = "cleared" /\ asked + found = 0)
=============================================================================
