----------------------- MODULE CounterService_proofs -----------------------
(***************************************************************************)
(* Theorems about CounterService for any set of replicas and any bounds.   *)
(***************************************************************************)
EXTENDS CounterService, TLAPS

USE ReplicasAssumption, BoundsAssumption
USE DEF None, vars

\* The value the primary is about to commit continues the counter, although
\* deposed runs still hold older values.
PrimaryIsCurrent ==
    \A r \in Replicas :
        primary = r /\ pc[r] = "written" => pending[r] = counter + 1

IInv == TypeOK /\ CounterCountsCommits /\ PrimaryIsCurrent

\* Every step keeps it: only the primary's update and commit change the count.
LEMMA InvariantStep == IInv /\ [Next]_vars => IInv'
<1> SUFFICES ASSUME IInv, [Next]_vars PROVE IInv'
  OBVIOUS
<1> USE DEF IInv, PrimaryIsCurrent,
           TypeOK, PcValues, CounterCountsCommits
<1>1. CASE Depose
  BY <1>1 DEF Depose, Fault
<1>2. ASSUME NEW r \in Replicas, Promote(r) PROVE IInv'
  BY <1>2 DEF Promote, Goto
<1>3. ASSUME NEW r \in Replicas, ReadCounter(r) PROVE IInv'
  BY <1>3 DEF ReadCounter, Goto
<1>4. ASSUME NEW r \in Replicas, Update(r) PROVE IInv'
  BY <1>4 DEF Update, Goto, Updated
<1>5. ASSUME NEW r \in Replicas, Commit(r) PROVE IInv'
  BY <1>5 DEF Commit, Goto
<1>6. ASSUME NEW r \in Replicas, StartDelay(r) PROVE IInv'
  BY <1>6 DEF StartDelay, Goto
<1>7. ASSUME NEW r \in Replicas, DelayOver(r) PROVE IInv'
  BY <1>7 DEF DelayOver, Goto
<1>8. ASSUME NEW r \in Replicas, Stopped(r) PROVE IInv'
  BY <1>8 DEF Stopped, EndRun
<1>9. ASSUME NEW r \in Replicas, Fails(r) PROVE IInv'
  BY <1>9 DEF Fails, Fault, EndRun
<1>10. CASE UNCHANGED vars
  BY <1>10
<1>q. QED
  BY <1>1, <1>2, <1>3, <1>4, <1>5, <1>6, <1>7, <1>8, <1>9, <1>10 DEF Next, Run

\* Typing, the count and what the primary knows hold in every state.
THEOREM InvariantHolds == Spec => []IInv
<1>1. Init => IInv
  BY DEF Init, IInv, PrimaryIsCurrent,
         TypeOK, PcValues, CounterCountsCommits
<1>q. QED
  BY <1>1, InvariantStep, PTL DEF Spec

\* Typing: in particular a run has a pending value exactly while it commits.
THEOREM TypeCorrect == Spec => []TypeOK
<1>1. IInv => TypeOK
  BY DEF IInv
<1>q. QED
  BY <1>1, InvariantHolds, PTL

\* No committed increment is lost or applied twice.
THEOREM NoIncrementLost == Spec => []CounterCountsCommits
<1>1. IInv => CounterCountsCommits
  BY DEF IInv
<1>q. QED
  BY <1>1, InvariantHolds, PTL

\* Every commit of the service is a step of the register, and nothing else is.
THEOREM Refinement == Spec => ImplementsCommitCounter
<1>1. Init => Register!Init
  BY DEF Init, Register!Init, Register!None
<1>2. IInv /\ [Next]_vars => [Register!Commit]_<<counter, commits>>
  <2> SUFFICES ASSUME IInv, [Next]_vars,
                      ~ UNCHANGED <<counter, commits>>
               PROVE  Register!Commit
    OBVIOUS
  <2>1. PICK r \in Replicas : Commit(r)
    BY DEF Next, Run, Depose, Promote,
           ReadCounter, Update, StartDelay,
           DelayOver, Stopped, Fails
  <2>2. pending[r] = counter + 1
    BY <2>1 DEF Commit, Goto, IInv, PrimaryIsCurrent
  <2>q. QED
    BY <2>1, <2>2 DEF Commit, Register!Commit
<1>q. QED
  BY <1>1, <1>2, InvariantHolds, PTL
     DEF Spec, ImplementsCommitCounter, Register!Spec
=============================================================================
