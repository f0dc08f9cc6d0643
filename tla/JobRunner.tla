------------------------------ MODULE JobRunner ------------------------------
(***************************************************************************)
(* The Data Lake client (TK_SendUSQLAndDownloadResult/Program.cs): it logs *)
(* in, submits a U-SQL job, polls it until it has ended and downloads the  *)
(* output file, with a new login after every failed attempt.               *)
(*                                                                         *)
(* Main ignores the job's result, and a failed download leaves its streams *)
(* open: the local file cannot be created again unless the garbage         *)
(* collector closes the one that was left.  It may, but need not: an       *)
(* unoptimised build keeps the local variable, and with it the stream,     *)
(* until DownloadFile returns.                                             *)
(***************************************************************************)
EXTENDS Integers

CONSTANT MaxFailures   \* bound: calls that fail for a passing reason

ASSUME BoundAssumption == MaxFailures \in Nat

VARIABLES
    pc,       \* how far Main is
    job,      \* the job, in the service
    output,   \* whose output the file in the store is: "none", "old" or "new"
    source,   \* what the open download stream reads
    local,    \* the local file
    writing,  \* fileStream of this attempt is open
    left,     \* fileStream of an earlier attempt is still open
    failures

vars == <<pc, job, output, source, local, writing, left, failures>>

Versions == {"none", "old", "new"}
NoFile   == [of |-> "none", whole |-> FALSE]
Ended    == {"succeeded", "failed"}

Init ==
    /\ pc = "login"
    /\ job = "none"
    /\ output \in {"none", "old"}
    /\ source = "none"
    /\ local \in {NoFile, [of |-> "old", whole |-> TRUE]}
    /\ writing = FALSE /\ left = FALSE
    /\ failures = 0

Fails == failures < MaxFailures /\ failures' = failures + 1

\* Login, at the start.
Login ==
    /\ pc = "login"
    /\ pc' = "submit"
    /\ UNCHANGED <<job, output, source, local, writing, left, failures>>

\* SubmitJobByPath.
Submit ==
    /\ pc = "submit"
    /\ pc' = "wait"
    /\ job' = "queued"
    /\ UNCHANGED <<output, source, local, writing, left, failures>>

\* A failure in Login, SubmitJobByPath or WaitForJob ends the program.
Abort ==
    /\ pc \in {"login", "submit", "wait", "relogin"}
    /\ Fails
    /\ pc' = "aborted"
    /\ UNCHANGED <<job, output, source, local, writing, left>>

\* The service runs the job; its output replaces the file when it succeeds.
RunJob ==
    /\ \/ job = "queued" /\ job' \in {"running", "failed"} /\ UNCHANGED output
       \/ job = "running" /\ job' = "failed" /\ UNCHANGED output
       \/ job = "running" /\ job' = "succeeded" /\ output' = "new"
    /\ UNCHANGED <<pc, source, local, writing, left, failures>>

\* Slips: the job counts as ended only when it failed; as soon as it runs.
HasFailed(j) == j = "failed"
HasBegun(j)  == j # "queued"

JobEnded(j) == j \in Ended

\* WaitForJob asks until the job has ended, however it ended.
Poll ==
    /\ pc = "wait"
    /\ JobEnded(job)
    /\ pc' = "open"
    /\ UNCHANGED <<job, output, source, local, writing, left, failures>>

\* DownloadFile: FileSystem.Open.
Open ==
    /\ pc = "open"
    /\ output # "none"
    /\ source' = output
    /\ pc' = "create"
    /\ UNCHANGED <<job, output, local, writing, left, failures>>

\* new FileStream(destFilePath, FileMode.Create) truncates the file, unless
\* somebody writes to it.
CanCreate == ~ left

Create ==
    /\ pc = "create"
    /\ CanCreate
    /\ local' = NoFile
    /\ writing' = TRUE
    /\ pc' = "copy"
    /\ UNCHANGED <<job, output, source, left, failures>>

Copy ==
    /\ pc = "copy"
    /\ local' = [of |-> source, whole |-> TRUE]
    /\ pc' = "close"
    /\ UNCHANGED <<job, output, source, writing, left, failures>>

\* Both streams are closed; ok = true.
Close ==
    /\ pc = "close"
    /\ writing' = FALSE
    /\ source' = "none"
    /\ pc' = "end"
    /\ UNCHANGED <<job, output, local, left, failures>>

\* catch: the streams of the attempt stay as they are.
Retry(unclosed) ==
    /\ pc' = "relogin"
    /\ left' = (left \/ unclosed)
    /\ writing' = FALSE
    /\ source' = "none"

\* There is no such file in the store.
OpenMissing ==
    /\ pc = "open"
    /\ output = "none"
    /\ Retry(writing)
    /\ UNCHANGED <<job, output, local, failures>>

\* The local file is still open from an earlier attempt.
CreateRefused ==
    /\ pc = "create"
    /\ ~ CanCreate
    /\ Retry(writing)
    /\ UNCHANGED <<job, output, local, failures>>

\* The connection, the token or the disk fails; a copy may have begun, and of
\* the two streams to close the local one may be closed.
DownloadFails ==
    /\ pc \in {"open", "create", "copy", "close"}
    /\ Fails
    /\ IF pc = "copy" THEN local' \in {local, [of |-> source, whole |-> FALSE]}
                      ELSE UNCHANGED local
    /\ \E unclosed \in IF pc = "close" THEN BOOLEAN ELSE {writing} : Retry(unclosed)
    /\ UNCHANGED <<job, output>>

\* A slip: the failed attempt counts.
ReloginEnds ==
    /\ pc = "relogin"
    /\ pc' = "end"
    /\ UNCHANGED <<job, output, source, local, writing, left, failures>>

\* Login in the catch block, then the next attempt.
Relogin ==
    /\ pc = "relogin"
    /\ pc' = "open"
    /\ UNCHANGED <<job, output, source, local, writing, left, failures>>

\* The garbage collector may finalize the stream that was left.
CollectGarbage ==
    /\ left
    /\ left' = FALSE
    /\ UNCHANGED <<pc, job, output, source, local, writing, failures>>

Main == \/ Login \/ Submit \/ Poll \/ Open \/ Create \/ Copy \/ Close
        \/ OpenMissing \/ CreateRefused \/ Relogin

Next == Main \/ RunJob \/ Abort \/ DownloadFails \/ CollectGarbage

Spec == Init /\ [][Next]_vars

\* The program goes on, and jobs end.  Nobody owes a garbage collection.
FairSpec == Spec /\ WF_vars(Main) /\ WF_vars(RunJob)
-----------------------------------------------------------------------------
\* Every variable keeps its type, and streams are open in the steps that use
\* them only.
TypeOK ==
    /\ pc \in {"login", "submit", "wait", "open", "create", "copy", "close",
               "relogin", "end", "aborted"}
    /\ job \in {"none", "queued", "running"} \union Ended
    /\ output \in Versions /\ source \in Versions
    /\ local \in [of : Versions, whole : BOOLEAN]
    /\ writing \in BOOLEAN /\ left \in BOOLEAN
    /\ failures \in 0 .. MaxFailures
    /\ source # "none" <=> pc \in {"create", "copy", "close"}
    /\ writing <=> pc \in {"copy", "close"}

\* When the program ends after a job that succeeded, the local file is the
\* whole output of that job, whatever failed on the way and whatever file of
\* an earlier job there was.
DownloadedIsTheResult ==
    pc = "end" /\ job = "succeeded" => local = [of |-> "new", whole |-> TRUE]

\* The output of an earlier job is read only when this one has failed: never
\* while it runs, however early the file is there.
StaleOnlyAfterFailure == source = "old" => job = "failed"

\* What keeps DownloadFile in its loop: a stream that a failed attempt left
\* open, or a job without output.
Blocked == left \/ output = "none"

\* Once the job has ended the program comes to its end, through any number of
\* failed attempts and new logins, unless it is blocked like that.
EndsUnlessBlocked == (job \in Ended) ~> (pc \in {"end", "aborted"} \/ Blocked)
=============================================================================
