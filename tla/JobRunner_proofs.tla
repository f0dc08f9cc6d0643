--------------------------- MODULE JobRunner_proofs ---------------------------
(***************************************************************************)
(* Proofs about JobRunner, for any number of failures.  The argument: Main *)
(* downloads only after the job has ended, from then on the file in the    *)
(* store does not change, and it is the new output exactly when the job    *)
(* succeeded.                                                              *)
(***************************************************************************)
EXTENDS JobRunner, TLAPS

USE BoundAssumption

AfterWait == {"open", "create", "copy", "close", "relogin", "end"}

\* Whoever downloads has waited for the end of the job.
WaitedForJob == pc \in AfterWait => job \in Ended

\* There is one job, and none before it is submitted.
OneJob == pc \in {"login", "submit"} => job = "none"

\* A job that succeeded, and no other, has replaced the file in the store.
OutputTellsJob == job = "succeeded" <=> output = "new"

\* The download stream reads the file as it is in the store.
SourceIsOutput == source # "none" => source = output

\* What was copied is that file, whole.
CopiedWhole == pc \in {"close", "end"} => local = [of |-> output, whole |-> TRUE]

IInv == /\ TypeOK
        /\ OneJob /\ WaitedForJob /\ OutputTellsJob /\ SourceIsOutput /\ CopiedWhole

\* Main starts before any job, and with no output newer than the last one.
LEMMA InitIInv == Init => IInv
<1> SUFFICES ASSUME Init PROVE IInv
  OBVIOUS
<1>1. local \in [of : Versions, whole : BOOLEAN]
  <2>1. "none" \in Versions /\ "old" \in Versions
    BY DEF Versions
  <2>2. CASE local = NoFile
    BY <2>1, <2>2 DEF NoFile
  <2>3. CASE local = [of |-> "old", whole |-> TRUE]
    BY <2>1, <2>3
  <2>q. QED
    BY <2>2, <2>3 DEF Init
<1>2. TypeOK
  <2>1. /\ pc = "login" /\ job = "none" /\ output \in Versions /\ source = "none"
        /\ writing = FALSE /\ left = FALSE /\ failures = 0
    BY DEF Init, Versions
  <2>2. source \in Versions /\ failures \in 0 .. MaxFailures
    BY <2>1 DEF Versions
  <2>3. /\ writing \in BOOLEAN /\ left \in BOOLEAN
        /\ source # "none" <=> pc \in {"create", "copy", "close"}
        /\ writing <=> pc \in {"copy", "close"}
    BY <2>1
  <2>q. QED
    BY <1>1, <2>1, <2>2, <2>3 DEF TypeOK
<1>q. QED
  BY <1>2 DEF Init, IInv, OneJob, WaitedForJob, OutputTellsJob,
              SourceIsOutput, CopiedWhole, AfterWait

\* A failed attempt leaves the conditions on streams in force.
LEMMA RetryIInv ==
    ASSUME IInv, NEW unclosed \in BOOLEAN, Retry(unclosed),
           pc \in {"open", "create", "copy", "close"},
           local' \in [of : Versions, whole : BOOLEAN],
           failures' \in 0 .. MaxFailures, UNCHANGED <<job, output>>
    PROVE  IInv'
BY DEF IInv, TypeOK, OneJob, WaitedForJob, OutputTellsJob, SourceIsOutput,
       CopiedWhole, AfterWait, Versions, Ended, Retry

\* Every step keeps the invariant.
LEMMA StepIInv == IInv /\ [Next]_vars => IInv'
<1> SUFFICES ASSUME IInv, [Next]_vars PROVE IInv'
  OBVIOUS
<1>t. /\ writing \in BOOLEAN /\ failures \in 0 .. MaxFailures
      /\ local \in [of : Versions, whole : BOOLEAN]
      /\ source \in Versions
  BY DEF IInv, TypeOK
\* The attempts that fail.
<1>1. CASE OpenMissing
  BY <1>1, <1>t, RetryIInv DEF OpenMissing
<1>2. CASE CreateRefused
  BY <1>2, <1>t, RetryIInv DEF CreateRefused
<1>3. CASE DownloadFails
  <2>1. PICK unclosed \in BOOLEAN : Retry(unclosed)
    BY <1>3, <1>t DEF DownloadFails
  <2>2. failures' \in 0 .. MaxFailures
    BY <1>3, <1>t DEF DownloadFails, Fails
  <2>3. local' \in [of : Versions, whole : BOOLEAN]
    <3>1. [of |-> source, whole |-> FALSE] \in [of : Versions, whole : BOOLEAN]
      BY <1>t
    <3>2. local' = local \/ local' = [of |-> source, whole |-> FALSE]
      BY <1>3 DEF DownloadFails
    <3>q. QED
      BY <1>t, <3>1, <3>2
  <2>q. QED
    BY <1>3, <2>1, <2>2, <2>3, RetryIInv DEF DownloadFails
\* The other steps.
<1> USE DEF IInv, TypeOK, OneJob, WaitedForJob, OutputTellsJob,
            SourceIsOutput, CopiedWhole, AfterWait
<1>4. CASE Login
  BY <1>4 DEF Login
<1>5. CASE Submit
  BY <1>5 DEF Submit, Ended
<1>6. CASE Abort
  BY <1>6 DEF Abort, Fails
<1>7. CASE RunJob
  BY <1>7 DEF RunJob, Ended, Versions
<1>8. CASE Poll
  BY <1>8 DEF Poll, JobEnded
<1>9. CASE Open
  BY <1>9 DEF Open
<1>10. CASE Create
  BY <1>10 DEF Create, CanCreate, NoFile, Versions
<1>11. CASE Copy
  BY <1>11 DEF Copy
<1>12. CASE Close
  BY <1>12 DEF Close, Versions
<1>13. CASE Relogin
  BY <1>13 DEF Relogin
<1>14. CASE CollectGarbage
  BY <1>14 DEF CollectGarbage
<1>15. CASE UNCHANGED vars
  BY <1>15 DEF vars
<1>q. QED
  BY <1>1, <1>2, <1>3, <1>4, <1>5, <1>6, <1>7, <1>8, <1>9, <1>10, <1>11, <1>12,
     <1>13, <1>14, <1>15 DEF Next, Main

\* The inductive invariant holds in every reachable state.
THEOREM InvariantHolds == Spec => []IInv
BY InitIInv, StepIInv, PTL DEF Spec

\* After a job that succeeded Main ends with its whole output, and an older
\* output is downloaded only when the job failed (Main ignores the result of
\* WaitForJob).
THEOREM ResultIsDownloaded ==
    Spec => [](DownloadedIsTheResult /\ StaleOnlyAfterFailure)
<1>1. IInv => DownloadedIsTheResult
  BY DEF IInv, OutputTellsJob, CopiedWhole, DownloadedIsTheResult
<1>2. IInv => StaleOnlyAfterFailure
  BY DEF IInv, TypeOK, WaitedForJob, AfterWait, OutputTellsJob, SourceIsOutput,
         Ended, StaleOnlyAfterFailure
<1>q. QED
  BY <1>1, <1>2, InvariantHolds, PTL
=============================================================================
