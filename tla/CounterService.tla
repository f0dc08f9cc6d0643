--------------------------- MODULE CounterService ---------------------------
(***************************************************************************)
(* The stateful service Stateful1 (TK2017Processing/Stateful1): while its  *)
(* replica is the primary it adds one to a replicated counter in a         *)
(* transaction, once a second.                                             *)
(*                                                                         *)
(* A deposed replica goes on until its token or a failing commit stops it. *)
(* Its uncommitted change is discarded with the transaction.               *)
(***************************************************************************)
EXTENDS Integers

CONSTANTS Replicas,
          MaxCommits,   \* bound: commits
          MaxFaults,    \* bound: failovers and exceptions
          Nobody

ASSUME ReplicasAssumption == Nobody \notin Replicas
ASSUME BoundsAssumption   == MaxCommits \in Nat /\ MaxFaults \in Nat

None == -1   \* "Value does not exist."

VARIABLES
    counter,   \* myDictionary["Counter"], as committed
    primary,   \* the replica whose commits are accepted
    pc,        \* how far the run of each replica is
    pending,   \* the value its transaction wrote
    commits,   \* observation: commits that took effect
    faults

vars == <<counter, primary, pc, pending, commits, faults>>

PcValues == {"idle", "top", "read", "written", "committed", "delay"}

Init ==
    /\ counter = None
    /\ primary = Nobody
    /\ pc      = [r \in Replicas |-> "idle"]
    /\ pending = [r \in Replicas |-> None]
    /\ commits = 0
    /\ faults = 0

Goto(r, from, to) == pc[r] = from /\ pc' = [pc EXCEPT ![r] = to]

Fault == faults < MaxFaults /\ faults' = faults + 1

\* Whatever is thrown leaves the using block, which aborts the transaction,
\* and ends RunAsync.
EndRun(r) ==
    /\ pc'      = [pc EXCEPT ![r] = "idle"]
    /\ pending' = [pending EXCEPT ![r] = None]
    /\ primary' = IF primary = r THEN Nobody ELSE primary

-----------------------------------------------------------------------------
Depose ==
    /\ primary # Nobody
    /\ Fault
    /\ primary' = Nobody
    /\ UNCHANGED <<counter, pc, pending, commits>>

\* RunAsync is called on the new primary.
Promote(r) ==
    /\ primary = Nobody
    /\ primary' = r
    /\ Goto(r, "idle", "top")
    /\ UNCHANGED <<counter, pending, commits, faults>>

\* TryGetValueAsync in a new transaction; the value is only logged.
ReadCounter(r) ==
    /\ primary = r
    /\ Goto(r, "top", "read")
    /\ UNCHANGED <<counter, primary, pending, commits, faults>>

\* AddOrUpdateAsync: 0 when the key is absent, one more otherwise.
Updated(value) == IF value = None THEN 0 ELSE value + 1

Update(r) ==
    /\ primary = r
    /\ Goto(r, "read", "written")
    /\ pending' = [pending EXCEPT ![r] = Updated(counter)]
    /\ UNCHANGED <<counter, primary, commits, faults>>

\* A slip: the commit is made again when its answer got lost.
RetriedCommit(r) ==
    /\ primary = r
    /\ commits < MaxCommits
    /\ \/ Goto(r, "written", "committed")
       \/ Goto(r, "written", "written")
    /\ counter' = pending[r]
    /\ commits' = commits + 1
    /\ UNCHANGED <<primary, pending, faults>>

\* CommitAsync: the new value replaces the old one everywhere.
Commit(r) ==
    /\ primary = r
    /\ commits < MaxCommits
    /\ Goto(r, "written", "committed")
    /\ counter' = pending[r]
    /\ commits' = commits + 1
    /\ UNCHANGED <<primary, pending, faults>>

StartDelay(r) ==
    /\ Goto(r, "committed", "delay")
    /\ pending' = [pending EXCEPT ![r] = None]
    /\ UNCHANGED <<counter, primary, commits, faults>>

\* A slip: nothing follows the delay.
DelayEndsLoop(r) == FALSE

\* Task.Delay has elapsed.
DelayOver(r) ==
    /\ Goto(r, "delay", "top")
    /\ UNCHANGED <<counter, primary, pending, commits, faults>>

\* The token is cancelled, or the store refuses a deposed replica.
Stopped(r) ==
    /\ primary # r
    /\ pc[r] # "idle"
    /\ EndRun(r)
    /\ UNCHANGED <<counter, commits, faults>>

\* Any other exception, a crash, or the answer of a commit that gets lost.
Fails(r) ==
    /\ pc[r] # "idle"
    /\ Fault
    /\ EndRun(r)
    /\ UNCHANGED <<counter, commits>>
-----------------------------------------------------------------------------
Run(r) == \/ ReadCounter(r) \/ Update(r) \/ Commit(r) \/ StartDelay(r)
          \/ DelayOver(r) \/ Stopped(r)

Next == \/ Depose
        \/ \E r \in Replicas : Promote(r) \/ Run(r) \/ Fails(r)

Spec == Init /\ [][Next]_vars

FairSpec == /\ Spec
            /\ WF_vars(\E r \in Replicas : Promote(r))
            /\ \A r \in Replicas : WF_vars(Run(r))
-----------------------------------------------------------------------------
\* Every variable keeps its type; a run has a pending value from its update to
\* the answer of its commit.
TypeOK ==
    /\ counter \in Nat \union {None}
    /\ primary \in Replicas \union {Nobody}
    /\ pc \in [Replicas -> PcValues]
    /\ pending \in [Replicas -> Nat \union {None}]
    /\ \A r \in Replicas : pending[r] # None <=> pc[r] \in {"written", "committed"}
    /\ commits \in Nat
    /\ faults \in Nat

\* No increment is lost or applied twice, whoever commits when: n commits
\* leave the counter at n - 1 (the first one stores 0).
CounterCountsCommits == counter + 1 = commits

\* The service implements the register that counts commits.
Register == INSTANCE CommitCounter
ImplementsCommitCounter == Register!Spec

\* After finitely many faults the counter still goes on.
CountingGoesOn == <>(commits = MaxCommits)
=============================================================================
