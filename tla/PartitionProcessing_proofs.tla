--------------------- MODULE PartitionProcessing_proofs ---------------------
(***************************************************************************)
(* Theorems about PartitionProcessing for any set of replicas, any save    *)
(* interval, any answer of the hub to an equal epoch and any bounds.       *)
(***************************************************************************)
EXTENDS PartitionProcessing, TLAPS

USE ReplicasAssumption, MarkersAssumption, IntervalAssumption,
    AnswersAssumption, BoundsAssumption
USE DEF None, hub, store, locals, ghosts, vars

-----------------------------------------------------------------------------
\* Every variable keeps its type, whatever the replicas, the hub and the
\* fabric do.
LEMMA TypeStep == TypeOK /\ [Next]_vars => TypeOK'
<1> SUFFICES ASSUME TypeOK, [Next]_vars PROVE TypeOK'
  OBVIOUS
<1> USE DEF TypeOK, PcValues, Connecting, InLoop
<1>1. CASE EnqueueEvent
  BY <1>1 DEF EnqueueEvent
<1>2. CASE DropLeaked
  BY <1>2 DEF DropLeaked
<1>3. CASE Depose
  BY <1>3 DEF Depose, Fault
<1>4. ASSUME NEW r \in Replicas, Promote(r)
      PROVE  TypeOK'
  BY <1>4 DEF Promote, Goto
<1>5. ASSUME NEW r \in Replicas, Crash(r)
      PROVE  TypeOK'
  BY <1>5 DEF Crash, Fault, EndRun
<1>6. ASSUME NEW r \in Replicas, OpenFactory(r)
      PROVE  TypeOK'
  BY <1>6 DEF OpenFactory, Goto
<1>7. ASSUME NEW r \in Replicas, ReadPosition(r)
      PROVE  TypeOK'
  BY <1>7 DEF ReadPosition, Goto, NewEpoch
<1>8. ASSUME NEW r \in Replicas, Attach(r)
      PROVE  TypeOK'
  BY <1>8 DEF Attach, Goto, StartPosition
<1>9. ASSUME NEW r \in Replicas, AttachRefused(r)
      PROVE  TypeOK'
  BY <1>9 DEF AttachRefused, LeaveUnclosed, EndRun
<1>10. ASSUME NEW r \in Replicas, CommitEpoch(r)
      PROVE  TypeOK'
  BY <1>10 DEF CommitEpoch, Goto
<1>11. ASSUME NEW r \in Replicas, EnterLoop(r)
      PROVE  TypeOK'
  BY <1>11 DEF EnterLoop, Goto
<1>12. ASSUME NEW r \in Replicas, ConnectDenied(r)
      PROVE  TypeOK'
  BY <1>12 DEF ConnectDenied, LeaveUnclosed, EndRun
<1>13. ASSUME NEW r \in Replicas, ConnectFails(r)
      PROVE  TypeOK'
  BY <1>13 DEF ConnectFails, Fault, LeaveUnclosed, EndRun
<1>14. ASSUME NEW r \in Replicas, Receive(r)
      PROVE  TypeOK'
  <2>1. pc' \in [Replicas -> PcValues]
    <3>1. CASE SaveDue(iteration[r] + 1)
      BY <1>14, <3>1 DEF Receive
    <3>2. CASE ~ SaveDue(iteration[r] + 1)
      BY <1>14, <3>2 DEF Receive
    <3>q. QED
      BY <3>1, <3>2
  <2>2. cursor' \in [Replicas -> Nat] /\ iteration' \in [Replicas -> Nat]
    BY <1>14 DEF Receive
  <2>4. handled' \subseteq Nat
    <3>1. handled' = handled \union {cursor[r] + 1}
      BY <1>14 DEF Receive
    <3>2. cursor[r] + 1 \in Nat /\ handled \subseteq Nat
      OBVIOUS
    <3>q. QED
      BY <3>1, <3>2
  <2>3. UNCHANGED <<hub, store, primary, from, epoch, factory, origin, faults>>
    BY <1>14 DEF Receive
  <2>q. QED
    BY <2>1, <2>2, <2>4, <2>3
<1>15. ASSUME NEW r \in Replicas, SaveApplied(r)
      PROVE  TypeOK'
  BY <1>15 DEF SaveApplied, Goto
<1>16. ASSUME NEW r \in Replicas, SaveAcked(r)
      PROVE  TypeOK'
  BY <1>16 DEF SaveAcked, Goto
<1>17. ASSUME NEW r \in Replicas, SaveInterrupted(r)
      PROVE  TypeOK'
  BY <1>17 DEF SaveInterrupted, Goto, Fault
<1>18. ASSUME NEW r \in Replicas, SaveNotPrimary(r)
      PROVE  TypeOK'
  BY <1>18 DEF SaveNotPrimary
<1>19. ASSUME NEW r \in Replicas, Cancelled(r)
      PROVE  TypeOK'
  BY <1>19 DEF Cancelled, Goto
<1>20. ASSUME NEW r \in Replicas, Disconnected(r)
      PROVE  TypeOK'
  BY <1>20 DEF Disconnected, Goto
<1>21. ASSUME NEW r \in Replicas, Throw(r)
      PROVE  TypeOK'
  BY <1>21 DEF Throw, Fault
<1>22. ASSUME NEW r \in Replicas, Close(r)
      PROVE  TypeOK'
  BY <1>22 DEF Close, EndRun
<1>23. CASE UNCHANGED vars
  BY <1>23
<1>q. QED
  BY <1>1, <1>2, <1>3, <1>4, <1>5, <1>6, <1>7, <1>8, <1>9, <1>10, <1>11, <1>12, <1>13, <1>14, <1>15, <1>16, <1>17, <1>18, <1>19, <1>20, <1>21, <1>22, <1>23
  DEF Next, Fabric, Connect, Loop, Failure

\* In every reachable state the variables have their types.
THEOREM TypeCorrect == Spec => []TypeOK
<1>1. Init => TypeOK
  BY DEF Init, TypeOK, PcValues
<1>2. QED
  BY <1>1, TypeStep, PTL DEF Spec

-----------------------------------------------------------------------------
(* The inductive invariant.  A run has a position from the creation of its *)
(* receiver on, and a recorded epoch from the commit of its epoch on.      *)

Recorded   == {"recorded"} \union InLoop
Positioned == {"attached"} \union Recorded

\* A run has handled everything between its start and its cursor.
RunCovered ==
    \A r \in Replicas :
        pc[r] \in Positioned
        => /\ from[r] \in Nat /\ from[r] <= cursor[r]
           /\ (from[r] + 1) .. cursor[r] \subseteq handled

\* What the primary read is still what is stored: nobody else could write.
PrimaryKnowsStore ==
    \A r \in Replicas : primary = r =>
        /\ pc[r] = "attaching" => from[r] = savedOffset
        /\ pc[r] \in {"attaching", "attached"} => epoch[r] = savedEpoch + 1
        /\ pc[r] \in Recorded => epoch[r] = savedEpoch
        /\ pc[r] \in Positioned /\ savedOffset # None
           => from[r] <= savedOffset /\ savedOffset <= cursor[r]

\* The chain of checkpoints has a beginning exactly when there is one.
ChainCovered ==
    /\ savedOffset # None => origin \in Nat /\ origin <= savedOffset
    /\ savedOffset = None => origin = None
    /\ CheckpointCovered

\* No epoch is ahead of the stored one by more than one, recorded epochs are
\* not ahead of it at all, and no two runs have recorded the same one.
EpochsInOrder ==
    /\ linkEpoch <= savedEpoch + 1
    /\ \A r \in Replicas :
         /\ epoch[r] <= savedEpoch + 1
         /\ pc[r] \in Recorded => epoch[r] <= savedEpoch
         /\ linkOwner = r => /\ pc[r] \in Positioned \union {"closing"}
                             /\ linkEpoch = epoch[r]
    /\ \A r, s \in Replicas :
         pc[r] \in Recorded /\ pc[s] \in Recorded /\ r # s
         => epoch[r] # epoch[s]

\* No position lies beyond the end of the stream.
WithinStream ==
    /\ head <= MaxEvents /\ savedOffset <= head
    /\ \A r \in Replicas : from[r] <= head /\ cursor[r] <= head

IInv == TypeOK /\ RunCovered /\ PrimaryKnowsStore /\ ChainCovered
               /\ EpochsInOrder /\ WithinStream
-----------------------------------------------------------------------------
(* The steps.                                                              *)

\* Only Receive moves a cursor, and it handles the event it moves over.
LEMMA RunCoveredStep ==
    TypeOK /\ RunCovered /\ [Next]_vars => RunCovered'
<1> SUFFICES ASSUME TypeOK /\ RunCovered, [Next]_vars
             PROVE  RunCovered'
  OBVIOUS
<1> USE DEF RunCovered, TypeOK, Positioned, Recorded, InLoop
<1>1. CASE EnqueueEvent
  BY <1>1 DEF EnqueueEvent
<1>2. CASE DropLeaked
  BY <1>2 DEF DropLeaked
<1>3. CASE Depose
  BY <1>3 DEF Depose, Fault
<1>4. ASSUME NEW r \in Replicas, Promote(r)
      PROVE  RunCovered'
  BY <1>4 DEF Promote, Goto
<1>5. ASSUME NEW r \in Replicas, Crash(r)
      PROVE  RunCovered'
  BY <1>5 DEF Crash, Fault, EndRun
<1>6. ASSUME NEW r \in Replicas, OpenFactory(r)
      PROVE  RunCovered'
  BY <1>6 DEF OpenFactory, Goto
<1>7. ASSUME NEW r \in Replicas, ReadPosition(r)
      PROVE  RunCovered'
  BY <1>7 DEF ReadPosition, Goto, NewEpoch
<1>8. ASSUME NEW r \in Replicas, Attach(r)
      PROVE  RunCovered'
  BY <1>8 DEF Attach, Goto, StartPosition
<1>9. ASSUME NEW r \in Replicas, AttachRefused(r)
      PROVE  RunCovered'
  BY <1>9 DEF AttachRefused, LeaveUnclosed, EndRun
<1>10. ASSUME NEW r \in Replicas, CommitEpoch(r)
      PROVE  RunCovered'
  BY <1>10 DEF CommitEpoch, Goto
<1>11. ASSUME NEW r \in Replicas, EnterLoop(r)
      PROVE  RunCovered'
  BY <1>11 DEF EnterLoop, Goto
<1>12. ASSUME NEW r \in Replicas, ConnectDenied(r)
      PROVE  RunCovered'
  BY <1>12 DEF ConnectDenied, LeaveUnclosed, EndRun
<1>13. ASSUME NEW r \in Replicas, ConnectFails(r)
      PROVE  RunCovered'
  BY <1>13 DEF ConnectFails, Fault, LeaveUnclosed, EndRun, Connecting
<1>14. ASSUME NEW r \in Replicas, Receive(r)
      PROVE  RunCovered'
  BY <1>14 DEF Receive
<1>15. ASSUME NEW r \in Replicas, SaveApplied(r)
      PROVE  RunCovered'
  BY <1>15 DEF SaveApplied, Goto
<1>16. ASSUME NEW r \in Replicas, SaveAcked(r)
      PROVE  RunCovered'
  BY <1>16 DEF SaveAcked, Goto
<1>17. ASSUME NEW r \in Replicas, SaveInterrupted(r)
      PROVE  RunCovered'
  BY <1>17 DEF SaveInterrupted, Goto, Fault
<1>18. ASSUME NEW r \in Replicas, SaveNotPrimary(r)
      PROVE  RunCovered'
  BY <1>18 DEF SaveNotPrimary
<1>19. ASSUME NEW r \in Replicas, Cancelled(r)
      PROVE  RunCovered'
  BY <1>19 DEF Cancelled, Goto
<1>20. ASSUME NEW r \in Replicas, Disconnected(r)
      PROVE  RunCovered'
  BY <1>20 DEF Disconnected, Goto
<1>21. ASSUME NEW r \in Replicas, Throw(r)
      PROVE  RunCovered'
  BY <1>21 DEF Throw, Fault, InLoop
<1>22. ASSUME NEW r \in Replicas, Close(r)
      PROVE  RunCovered'
  BY <1>22 DEF Close, EndRun
<1>23. CASE UNCHANGED vars
  BY <1>23
<1>q. QED
  BY <1>1, <1>2, <1>3, <1>4, <1>5, <1>6, <1>7, <1>8, <1>9, <1>10, <1>11, <1>12, <1>13, <1>14, <1>15, <1>16, <1>17, <1>18, <1>19, <1>20, <1>21, <1>22, <1>23
  DEF Next, Fabric, Connect, Loop, Failure

\* Only the primary writes the store, so what it read stays true.
LEMMA PrimaryKnowsStoreStep ==
    TypeOK /\ RunCovered /\ PrimaryKnowsStore /\ [Next]_vars => PrimaryKnowsStore'
<1> SUFFICES ASSUME TypeOK /\ RunCovered /\ PrimaryKnowsStore, [Next]_vars
             PROVE  PrimaryKnowsStore'
  OBVIOUS
<1> USE DEF RunCovered, PrimaryKnowsStore, TypeOK, Positioned, Recorded, InLoop
<1>1. CASE EnqueueEvent
  BY <1>1 DEF EnqueueEvent
<1>2. CASE DropLeaked
  BY <1>2 DEF DropLeaked
<1>3. CASE Depose
  BY <1>3 DEF Depose, Fault
<1>4. ASSUME NEW r \in Replicas, Promote(r)
      PROVE  PrimaryKnowsStore'
  BY <1>4 DEF Promote, Goto
<1>5. ASSUME NEW r \in Replicas, Crash(r)
      PROVE  PrimaryKnowsStore'
  BY <1>5 DEF Crash, Fault, EndRun
<1>6. ASSUME NEW r \in Replicas, OpenFactory(r)
      PROVE  PrimaryKnowsStore'
  BY <1>6 DEF OpenFactory, Goto
<1>7. ASSUME NEW r \in Replicas, ReadPosition(r)
      PROVE  PrimaryKnowsStore'
  BY <1>7 DEF ReadPosition, Goto, NewEpoch
<1>8. ASSUME NEW r \in Replicas, Attach(r)
      PROVE  PrimaryKnowsStore'
  BY <1>8 DEF Attach, Goto, StartPosition
<1>9. ASSUME NEW r \in Replicas, AttachRefused(r)
      PROVE  PrimaryKnowsStore'
  BY <1>9 DEF AttachRefused, LeaveUnclosed, EndRun
<1>10. ASSUME NEW r \in Replicas, CommitEpoch(r)
      PROVE  PrimaryKnowsStore'
  BY <1>10 DEF CommitEpoch, Goto
<1>11. ASSUME NEW r \in Replicas, EnterLoop(r)
      PROVE  PrimaryKnowsStore'
  BY <1>11 DEF EnterLoop, Goto
<1>12. ASSUME NEW r \in Replicas, ConnectDenied(r)
      PROVE  PrimaryKnowsStore'
  BY <1>12 DEF ConnectDenied, LeaveUnclosed, EndRun
<1>13. ASSUME NEW r \in Replicas, ConnectFails(r)
      PROVE  PrimaryKnowsStore'
  BY <1>13 DEF ConnectFails, Fault, LeaveUnclosed, EndRun, Connecting
<1>14. ASSUME NEW r \in Replicas, Receive(r)
      PROVE  PrimaryKnowsStore'
  BY <1>14 DEF Receive
<1>15. ASSUME NEW r \in Replicas, SaveApplied(r)
      PROVE  PrimaryKnowsStore'
  BY <1>15 DEF SaveApplied, Goto
<1>16. ASSUME NEW r \in Replicas, SaveAcked(r)
      PROVE  PrimaryKnowsStore'
  BY <1>16 DEF SaveAcked, Goto
<1>17. ASSUME NEW r \in Replicas, SaveInterrupted(r)
      PROVE  PrimaryKnowsStore'
  BY <1>17 DEF SaveInterrupted, Goto, Fault
<1>18. ASSUME NEW r \in Replicas, SaveNotPrimary(r)
      PROVE  PrimaryKnowsStore'
  BY <1>18 DEF SaveNotPrimary
<1>19. ASSUME NEW r \in Replicas, Cancelled(r)
      PROVE  PrimaryKnowsStore'
  BY <1>19 DEF Cancelled, Goto
<1>20. ASSUME NEW r \in Replicas, Disconnected(r)
      PROVE  PrimaryKnowsStore'
  BY <1>20 DEF Disconnected, Goto
<1>21. ASSUME NEW r \in Replicas, Throw(r)
      PROVE  PrimaryKnowsStore'
  BY <1>21 DEF Throw, Fault, InLoop
<1>22. ASSUME NEW r \in Replicas, Close(r)
      PROVE  PrimaryKnowsStore'
  BY <1>22 DEF Close, EndRun
<1>23. CASE UNCHANGED vars
  BY <1>23
<1>q. QED
  BY <1>1, <1>2, <1>3, <1>4, <1>5, <1>6, <1>7, <1>8, <1>9, <1>10, <1>11, <1>12, <1>13, <1>14, <1>15, <1>16, <1>17, <1>18, <1>19, <1>20, <1>21, <1>22, <1>23
  DEF Next, Fabric, Connect, Loop, Failure

\* A save extends the chain of checkpoints over handled events.
LEMMA ChainCoveredStep ==
    TypeOK /\ RunCovered /\ PrimaryKnowsStore /\ ChainCovered /\ [Next]_vars => ChainCovered'
<1> SUFFICES ASSUME TypeOK /\ RunCovered /\ PrimaryKnowsStore /\ ChainCovered, [Next]_vars
             PROVE  ChainCovered'
  OBVIOUS
<1> USE DEF RunCovered, PrimaryKnowsStore, ChainCovered, CheckpointCovered, TypeOK, Positioned, Recorded, InLoop
<1>1. CASE EnqueueEvent
  BY <1>1 DEF EnqueueEvent
<1>2. CASE DropLeaked
  BY <1>2 DEF DropLeaked
<1>3. CASE Depose
  BY <1>3 DEF Depose, Fault
<1>4. ASSUME NEW r \in Replicas, Promote(r)
      PROVE  ChainCovered'
  BY <1>4 DEF Promote, Goto
<1>5. ASSUME NEW r \in Replicas, Crash(r)
      PROVE  ChainCovered'
  BY <1>5 DEF Crash, Fault, EndRun
<1>6. ASSUME NEW r \in Replicas, OpenFactory(r)
      PROVE  ChainCovered'
  BY <1>6 DEF OpenFactory, Goto
<1>7. ASSUME NEW r \in Replicas, ReadPosition(r)
      PROVE  ChainCovered'
  BY <1>7 DEF ReadPosition, Goto, NewEpoch
<1>8. ASSUME NEW r \in Replicas, Attach(r)
      PROVE  ChainCovered'
  BY <1>8 DEF Attach, Goto, StartPosition
<1>9. ASSUME NEW r \in Replicas, AttachRefused(r)
      PROVE  ChainCovered'
  BY <1>9 DEF AttachRefused, LeaveUnclosed, EndRun
<1>10. ASSUME NEW r \in Replicas, CommitEpoch(r)
      PROVE  ChainCovered'
  BY <1>10 DEF CommitEpoch, Goto
<1>11. ASSUME NEW r \in Replicas, EnterLoop(r)
      PROVE  ChainCovered'
  BY <1>11 DEF EnterLoop, Goto
<1>12. ASSUME NEW r \in Replicas, ConnectDenied(r)
      PROVE  ChainCovered'
  BY <1>12 DEF ConnectDenied, LeaveUnclosed, EndRun
<1>13. ASSUME NEW r \in Replicas, ConnectFails(r)
      PROVE  ChainCovered'
  BY <1>13 DEF ConnectFails, Fault, LeaveUnclosed, EndRun, Connecting
<1>14. ASSUME NEW r \in Replicas, Receive(r)
      PROVE  ChainCovered'
  BY <1>14 DEF Receive
<1>15. ASSUME NEW r \in Replicas, SaveApplied(r)
      PROVE  ChainCovered'
  BY <1>15 DEF SaveApplied, Goto
<1>16. ASSUME NEW r \in Replicas, SaveAcked(r)
      PROVE  ChainCovered'
  BY <1>16 DEF SaveAcked, Goto
<1>17. ASSUME NEW r \in Replicas, SaveInterrupted(r)
      PROVE  ChainCovered'
  BY <1>17 DEF SaveInterrupted, Goto, Fault
<1>18. ASSUME NEW r \in Replicas, SaveNotPrimary(r)
      PROVE  ChainCovered'
  BY <1>18 DEF SaveNotPrimary
<1>19. ASSUME NEW r \in Replicas, Cancelled(r)
      PROVE  ChainCovered'
  BY <1>19 DEF Cancelled, Goto
<1>20. ASSUME NEW r \in Replicas, Disconnected(r)
      PROVE  ChainCovered'
  BY <1>20 DEF Disconnected, Goto
<1>21. ASSUME NEW r \in Replicas, Throw(r)
      PROVE  ChainCovered'
  BY <1>21 DEF Throw, Fault, InLoop
<1>22. ASSUME NEW r \in Replicas, Close(r)
      PROVE  ChainCovered'
  BY <1>22 DEF Close, EndRun
<1>23. CASE UNCHANGED vars
  BY <1>23
<1>q. QED
  BY <1>1, <1>2, <1>3, <1>4, <1>5, <1>6, <1>7, <1>8, <1>9, <1>10, <1>11, <1>12, <1>13, <1>14, <1>15, <1>16, <1>17, <1>18, <1>19, <1>20, <1>21, <1>22, <1>23
  DEF Next, Fabric, Connect, Loop, Failure

\* A new epoch is one above the stored one, which only the primary raises.
LEMMA EpochsInOrderStep ==
    TypeOK /\ PrimaryKnowsStore /\ EpochsInOrder /\ [Next]_vars => EpochsInOrder'
<1> SUFFICES ASSUME TypeOK /\ PrimaryKnowsStore /\ EpochsInOrder, [Next]_vars
             PROVE  EpochsInOrder'
  OBVIOUS
<1> USE DEF PrimaryKnowsStore, EpochsInOrder, TypeOK, Positioned, Recorded, InLoop
<1>1. CASE EnqueueEvent
  BY <1>1 DEF EnqueueEvent
<1>2. CASE DropLeaked
  BY <1>2 DEF DropLeaked
<1>3. CASE Depose
  BY <1>3 DEF Depose, Fault
<1>4. ASSUME NEW r \in Replicas, Promote(r)
      PROVE  EpochsInOrder'
  BY <1>4 DEF Promote, Goto
<1>5. ASSUME NEW r \in Replicas, Crash(r)
      PROVE  EpochsInOrder'
  BY <1>5 DEF Crash, Fault, EndRun
<1>6. ASSUME NEW r \in Replicas, OpenFactory(r)
      PROVE  EpochsInOrder'
  BY <1>6 DEF OpenFactory, Goto
<1>7. ASSUME NEW r \in Replicas, ReadPosition(r)
      PROVE  EpochsInOrder'
  BY <1>7 DEF ReadPosition, Goto, NewEpoch
<1>8. ASSUME NEW r \in Replicas, Attach(r)
      PROVE  EpochsInOrder'
  BY <1>8 DEF Attach, Goto, StartPosition
<1>9. ASSUME NEW r \in Replicas, AttachRefused(r)
      PROVE  EpochsInOrder'
  BY <1>9 DEF AttachRefused, LeaveUnclosed, EndRun
<1>10. ASSUME NEW r \in Replicas, CommitEpoch(r)
      PROVE  EpochsInOrder'
  BY <1>10 DEF CommitEpoch, Goto
<1>11. ASSUME NEW r \in Replicas, EnterLoop(r)
      PROVE  EpochsInOrder'
  BY <1>11 DEF EnterLoop, Goto
<1>12. ASSUME NEW r \in Replicas, ConnectDenied(r)
      PROVE  EpochsInOrder'
  BY <1>12 DEF ConnectDenied, LeaveUnclosed, EndRun
<1>13. ASSUME NEW r \in Replicas, ConnectFails(r)
      PROVE  EpochsInOrder'
  BY <1>13 DEF ConnectFails, Fault, LeaveUnclosed, EndRun, Connecting
<1>14. ASSUME NEW r \in Replicas, Receive(r)
      PROVE  EpochsInOrder'
  BY <1>14 DEF Receive
<1>15. ASSUME NEW r \in Replicas, SaveApplied(r)
      PROVE  EpochsInOrder'
  BY <1>15 DEF SaveApplied, Goto
<1>16. ASSUME NEW r \in Replicas, SaveAcked(r)
      PROVE  EpochsInOrder'
  BY <1>16 DEF SaveAcked, Goto
<1>17. ASSUME NEW r \in Replicas, SaveInterrupted(r)
      PROVE  EpochsInOrder'
  BY <1>17 DEF SaveInterrupted, Goto, Fault
<1>18. ASSUME NEW r \in Replicas, SaveNotPrimary(r)
      PROVE  EpochsInOrder'
  BY <1>18 DEF SaveNotPrimary
<1>19. ASSUME NEW r \in Replicas, Cancelled(r)
      PROVE  EpochsInOrder'
  BY <1>19 DEF Cancelled, Goto
<1>20. ASSUME NEW r \in Replicas, Disconnected(r)
      PROVE  EpochsInOrder'
  BY <1>20 DEF Disconnected, Goto
<1>21. ASSUME NEW r \in Replicas, Throw(r)
      PROVE  EpochsInOrder'
  BY <1>21 DEF Throw, Fault, InLoop
<1>22. ASSUME NEW r \in Replicas, Close(r)
      PROVE  EpochsInOrder'
  BY <1>22 DEF Close, EndRun
<1>23. CASE UNCHANGED vars
  BY <1>23
<1>q. QED
  BY <1>1, <1>2, <1>3, <1>4, <1>5, <1>6, <1>7, <1>8, <1>9, <1>10, <1>11, <1>12, <1>13, <1>14, <1>15, <1>16, <1>17, <1>18, <1>19, <1>20, <1>21, <1>22, <1>23
  DEF Next, Fabric, Connect, Loop, Failure

\* Positions come from the end of the stream or from events received.
LEMMA WithinStreamStep ==
    TypeOK /\ WithinStream /\ [Next]_vars => WithinStream'
<1> SUFFICES ASSUME TypeOK /\ WithinStream, [Next]_vars
             PROVE  WithinStream'
  OBVIOUS
<1> USE DEF WithinStream, TypeOK
<1>1. CASE EnqueueEvent
  BY <1>1 DEF EnqueueEvent
<1>2. CASE DropLeaked
  BY <1>2 DEF DropLeaked
<1>3. CASE Depose
  BY <1>3 DEF Depose, Fault
<1>4. ASSUME NEW r \in Replicas, Promote(r)
      PROVE  WithinStream'
  BY <1>4 DEF Promote, Goto
<1>5. ASSUME NEW r \in Replicas, Crash(r)
      PROVE  WithinStream'
  BY <1>5 DEF Crash, Fault, EndRun
<1>6. ASSUME NEW r \in Replicas, OpenFactory(r)
      PROVE  WithinStream'
  BY <1>6 DEF OpenFactory, Goto
<1>7. ASSUME NEW r \in Replicas, ReadPosition(r)
      PROVE  WithinStream'
  BY <1>7 DEF ReadPosition, Goto, NewEpoch
<1>8. ASSUME NEW r \in Replicas, Attach(r)
      PROVE  WithinStream'
  BY <1>8 DEF Attach, Goto, StartPosition
<1>9. ASSUME NEW r \in Replicas, AttachRefused(r)
      PROVE  WithinStream'
  BY <1>9 DEF AttachRefused, LeaveUnclosed, EndRun
<1>10. ASSUME NEW r \in Replicas, CommitEpoch(r)
      PROVE  WithinStream'
  BY <1>10 DEF CommitEpoch, Goto
<1>11. ASSUME NEW r \in Replicas, EnterLoop(r)
      PROVE  WithinStream'
  BY <1>11 DEF EnterLoop, Goto
<1>12. ASSUME NEW r \in Replicas, ConnectDenied(r)
      PROVE  WithinStream'
  BY <1>12 DEF ConnectDenied, LeaveUnclosed, EndRun
<1>13. ASSUME NEW r \in Replicas, ConnectFails(r)
      PROVE  WithinStream'
  BY <1>13 DEF ConnectFails, Fault, LeaveUnclosed, EndRun
<1>14. ASSUME NEW r \in Replicas, Receive(r)
      PROVE  WithinStream'
  BY <1>14 DEF Receive
<1>15. ASSUME NEW r \in Replicas, SaveApplied(r)
      PROVE  WithinStream'
  BY <1>15 DEF SaveApplied, Goto
<1>16. ASSUME NEW r \in Replicas, SaveAcked(r)
      PROVE  WithinStream'
  BY <1>16 DEF SaveAcked, Goto
<1>17. ASSUME NEW r \in Replicas, SaveInterrupted(r)
      PROVE  WithinStream'
  BY <1>17 DEF SaveInterrupted, Goto, Fault
<1>18. ASSUME NEW r \in Replicas, SaveNotPrimary(r)
      PROVE  WithinStream'
  BY <1>18 DEF SaveNotPrimary
<1>19. ASSUME NEW r \in Replicas, Cancelled(r)
      PROVE  WithinStream'
  BY <1>19 DEF Cancelled, Goto
<1>20. ASSUME NEW r \in Replicas, Disconnected(r)
      PROVE  WithinStream'
  BY <1>20 DEF Disconnected, Goto
<1>21. ASSUME NEW r \in Replicas, Throw(r)
      PROVE  WithinStream'
  BY <1>21 DEF Throw, Fault
<1>22. ASSUME NEW r \in Replicas, Close(r)
      PROVE  WithinStream'
  BY <1>22 DEF Close, EndRun
<1>23. CASE UNCHANGED vars
  BY <1>23
<1>q. QED
  BY <1>1, <1>2, <1>3, <1>4, <1>5, <1>6, <1>7, <1>8, <1>9, <1>10, <1>11, <1>12, <1>13, <1>14, <1>15, <1>16, <1>17, <1>18, <1>19, <1>20, <1>21, <1>22, <1>23
  DEF Next, Fabric, Connect, Loop, Failure

-----------------------------------------------------------------------------
(* The theorems.                                                           *)

\* Together: every step keeps the inductive invariant.
LEMMA InvariantStep == IInv /\ [Next]_vars => IInv'
BY TypeStep, RunCoveredStep, PrimaryKnowsStoreStep, ChainCoveredStep,
   EpochsInOrderStep, WithinStreamStep DEF IInv

\* The inductive invariant holds of every state of every behaviour.
THEOREM InvariantHolds == Spec => []IInv
<1>1. Init => IInv
  <2> SUFFICES ASSUME Init PROVE IInv
    OBVIOUS
  <2>1. TypeOK
    BY DEF Init, TypeOK, PcValues
  <2>2. RunCovered /\ PrimaryKnowsStore /\ WithinStream
    BY DEF Init, RunCovered, PrimaryKnowsStore, WithinStream, Positioned,
           Recorded, InLoop
  <2>3. ChainCovered
    BY DEF Init, ChainCovered, CheckpointCovered
  <2>4. EpochsInOrder
    BY DEF Init, EpochsInOrder, Recorded, InLoop
  <2>q. QED
    BY <2>1, <2>2, <2>3, <2>4 DEF IInv
<1>q. QED
  BY <1>1, InvariantStep, PTL DEF Spec

\* The stored offset never lies beyond an event that was not handled.
THEOREM NoEventLostBelowCheckpoint == Spec => []CheckpointCovered
<1>1. IInv => CheckpointCovered
  BY DEF IInv, ChainCovered
<1>q. QED
  BY <1>1, InvariantHolds, PTL

\* Epochs of overlapping runs differ, and the primary's is the highest.
THEOREM EpochsFenceOldRuns == Spec => []NewestRunHasHighestEpoch
<1>1. IInv => NewestRunHasHighestEpoch
  <2> SUFFICES ASSUME IInv, NEW r \in Replicas, NEW s \in Replicas,
                      pc[r] \in InLoop, pc[s] \in InLoop, r # s
               PROVE  epoch[r] # epoch[s] /\ (primary = r => epoch[r] > epoch[s])
    BY DEF NewestRunHasHighestEpoch
  <2>1. epoch[r] # epoch[s] /\ epoch[s] <= savedEpoch
    BY DEF IInv, EpochsInOrder, Recorded
  <2>2. primary = r => epoch[r] = savedEpoch
    BY DEF IInv, PrimaryKnowsStore, Recorded
  <2>q. QED
    BY <2>1, <2>2 DEF IInv, TypeOK
<1>q. QED
  BY <1>1, InvariantHolds, PTL

\* A connecting primary meets no higher epoch at the hub.
THEOREM ReconnectionIsNeverOutbid == Spec => []PrimaryIsNeverOutbid
<1>1. IInv => PrimaryIsNeverOutbid
  <2> SUFFICES ASSUME IInv, NEW r \in Replicas, NEW s \in Replicas,
                      primary = r, pc[r] = "attaching"
               PROVE  /\ epoch[r] >= linkEpoch
                      /\ linkOwner = s /\ pc[s] \in InLoop
                         => epoch[r] > linkEpoch
    BY DEF PrimaryIsNeverOutbid
  <2>1. epoch[r] = savedEpoch + 1
    BY DEF IInv, PrimaryKnowsStore
  <2>2. linkEpoch <= savedEpoch + 1
    BY DEF IInv, EpochsInOrder
  <2>3. linkOwner = s /\ pc[s] \in InLoop => linkEpoch <= savedEpoch
    BY DEF IInv, EpochsInOrder, Recorded
  <2>q. QED
    BY <2>1, <2>2, <2>3 DEF IInv, TypeOK
<1>q. QED
  BY <1>1, InvariantHolds, PTL

\* The offset is written by SaveApplied alone, the epoch by CommitEpoch alone,
\* and events are handled by Receive alone.
LEMMA Writers ==
    [Next]_vars =>
      \/ UNCHANGED <<store, ghosts>>
      \/ \E r \in Replicas : CommitEpoch(r) \/ SaveApplied(r) \/ Receive(r)
BY DEF Next, Fabric, Connect, Loop, Failure, EnqueueEvent, DropLeaked, Depose,
       Promote, Crash, OpenFactory, ReadPosition, Attach, AttachRefused,
       EnterLoop, ConnectDenied, ConnectFails, SaveAcked, SaveInterrupted,
       SaveNotPrimary, Cancelled, Disconnected, Throw, Close, LeaveUnclosed

\* Neither the stored offset nor the stored epoch ever goes back.
THEOREM StoreIsMonotone == Spec => StoreNeverRegresses
<1> DEFINE Grows == /\ savedOffset' >= savedOffset
                    /\ savedEpoch' # savedEpoch => savedEpoch' > savedEpoch
<1>1. IInv /\ [Next]_vars => Grows
  <2> SUFFICES ASSUME IInv, [Next]_vars PROVE Grows
    OBVIOUS
  <2>1. savedOffset \in Int /\ savedEpoch \in Int
    BY DEF IInv, TypeOK
  <2>2. CASE UNCHANGED <<store, ghosts>>
    BY <2>1, <2>2
  <2>3. ASSUME NEW r \in Replicas, CommitEpoch(r) PROVE Grows
    BY <2>1, <2>3 DEF CommitEpoch, Goto, IInv, PrimaryKnowsStore
  <2>4. ASSUME NEW r \in Replicas, SaveApplied(r) PROVE Grows
    <3>1. savedOffset # None => savedOffset <= cursor[r]
      BY <2>4 DEF SaveApplied, Goto, IInv, PrimaryKnowsStore, Positioned,
                  Recorded, InLoop
    <3>2. cursor[r] \in Nat
      BY DEF IInv, TypeOK
    <3>q. QED
      BY <2>1, <2>4, <3>1, <3>2 DEF SaveApplied
  <2>5. ASSUME NEW r \in Replicas, Receive(r) PROVE Grows
    BY <2>1, <2>5 DEF Receive
  <2>q. QED
    BY <2>2, <2>3, <2>4, <2>5, Writers
<1>2. IInv /\ [Next]_vars => [Grows]_vars
  BY <1>1
<1>q. QED
  BY <1>2, InvariantHolds, PTL DEF Spec, StoreNeverRegresses

\* The service, with its overlapping runs, failovers, crashes and repeated
\* deliveries, implements the checkpointed reader.
THEOREM Refinement == Spec => ImplementsCheckpointedReader
<1>1. Init => Abstract!Init
  BY DEF Init, Abstract!Init, Abstract!None
<1>2. IInv /\ [Next]_vars => [Abstract!Next]_(Abstract!vars)
  <2> SUFFICES ASSUME IInv, [Next]_vars, ~ UNCHANGED Abstract!vars
               PROVE  Abstract!Next
    OBVIOUS
  <2> USE DEF Abstract!vars
  <2>1. ASSUME NEW r \in Replicas, CommitEpoch(r) PROVE FALSE
    BY <2>1 DEF CommitEpoch
  <2>2. ASSUME NEW r \in Replicas, Receive(r) PROVE Abstract!Next
    <3>1. cursor[r] + 1 \in 0 .. MaxEvents
      BY <2>2 DEF Receive, IInv, TypeOK, WithinStream
    <3>2. Abstract!HandleEvent(cursor[r] + 1)
      BY <2>2 DEF Receive, Abstract!HandleEvent
    <3>q. QED
      BY <3>1, <3>2 DEF Abstract!Next
  <2>3. ASSUME NEW r \in Replicas, SaveApplied(r) PROVE Abstract!Next
    <3>1. pc[r] \in Positioned /\ primary = r
      BY <2>3 DEF SaveApplied, Goto, Positioned, Recorded, InLoop
    <3>2. /\ from[r] \in 0 .. MaxEvents /\ cursor[r] \in 0 .. MaxEvents
          /\ (from[r] + 1) .. cursor[r] \subseteq handled
      BY <3>1 DEF IInv, TypeOK, WithinStream, RunCovered
    <3>3. CASE savedOffset = None
      <4>1. Abstract!FirstCheckpoint(from[r], cursor[r])
        BY <2>3, <3>2, <3>3 DEF SaveApplied, Abstract!FirstCheckpoint,
                                Abstract!None
      <4>q. QED
        BY <3>2, <4>1 DEF Abstract!Next
    <3>4. CASE savedOffset # None
      <4>1. from[r] <= savedOffset /\ savedOffset <= cursor[r]
        BY <3>1, <3>4 DEF IInv, PrimaryKnowsStore
      <4>2. savedOffset \in Nat
        BY <3>4 DEF IInv, TypeOK
      <4>3. (savedOffset + 1) .. cursor[r] \subseteq handled
        BY <3>2, <4>1, <4>2
      <4>4. Abstract!MoveCheckpoint(cursor[r])
        BY <2>3, <3>4, <4>1, <4>3 DEF SaveApplied, Abstract!MoveCheckpoint,
                                      Abstract!None
      <4>q. QED
        BY <3>2, <4>4 DEF Abstract!Next
    <3>q. QED
      BY <3>3, <3>4
  <2>q. QED
    BY <2>1, <2>2, <2>3, Writers
<1>q. QED
  BY <1>1, <1>2, InvariantHolds, PTL
     DEF Spec, ImplementsCheckpointedReader, Abstract!Spec
-----------------------------------------------------------------------------
(***************************************************************************)
(* The redelivery bound.  The argument: offsetIteration counts at least    *)
(* what was received since the last offset stored, and it grows over a     *)
(* multiple of the interval only when the save made there is interrupted,  *)
(* which is a fault each time.                                             *)
(***************************************************************************)
\* The highest count that so many faults allow.
Cap(n) == OffsetInterval * (n + 1)

\* The highest count is one at which a save is due, and each fault adds an
\* interval to it.
LEMMA CapFacts ==
    ASSUME NEW n \in Nat
    PROVE  /\ Cap(n) \in Nat
           /\ Cap(n) < Cap(n + 1)
           /\ 0 < Cap(n)
           /\ SaveDue(Cap(n))
<1>1. OffsetInterval \in Nat /\ OffsetInterval >= 1
  OBVIOUS
<1>2. Cap(n) \in Nat
  BY <1>1, SMTT(30) DEF Cap
<1>3. Cap(n + 1) = Cap(n) + OffsetInterval
  BY <1>1, SMTT(30) DEF Cap
<1>4. 0 < Cap(n)
  <2>1. Cap(n) = OffsetInterval * n + OffsetInterval
    BY <1>1, SMTT(30) DEF Cap
  <2>2. OffsetInterval * n >= 0
    BY <1>1, SMTT(30)
  <2>q. QED
    BY <1>1, <2>1, <2>2
<1>5. SaveDue(Cap(n))
  BY <1>1, SMTT(30) DEF Cap, SaveDue
<1>q. QED
  BY <1>1, <1>2, <1>3, <1>4, <1>5

\* The primary has received at most offsetIteration events since the offset
\* that is stored, and none between a save that took effect and its answer.
CountsSinceSave ==
    \A r \in Replicas : primary = r /\ savedOffset # None =>
        /\ pc[r] \in {"attached", "recorded", "saved"} => cursor[r] = savedOffset
        /\ pc[r] \in {"polling", "saving"} => cursor[r] - savedOffset <= iteration[r]

\* No run counts further than the faults allow; one that goes on receiving
\* has not come so far.
CountIsCapped ==
    \A r \in Replicas :
        /\ pc[r] = "polling" => iteration[r] < Cap(faults)
        /\ pc[r] \in {"saving", "saved"} => iteration[r] <= Cap(faults)

\* Only the primary's own steps move its cursor, its count and the store.
LEMMA CountsSinceSaveStep ==
    IInv /\ CountsSinceSave /\ [Next]_vars => CountsSinceSave'
<1> SUFFICES ASSUME IInv, CountsSinceSave, [Next]_vars PROVE CountsSinceSave'
  OBVIOUS
<1>0. TypeOK
  BY DEF IInv
<1> USE <1>0 DEF CountsSinceSave, TypeOK
<1>1. CASE EnqueueEvent
  BY <1>1 DEF EnqueueEvent
<1>2. CASE DropLeaked
  BY <1>2 DEF DropLeaked
<1>3. CASE Depose
  BY <1>3 DEF Depose
<1>4. ASSUME NEW r \in Replicas, Promote(r) PROVE CountsSinceSave'
  BY <1>4 DEF Promote, Goto
<1>5. ASSUME NEW r \in Replicas, Crash(r) PROVE CountsSinceSave'
  BY <1>5 DEF Crash, EndRun
<1>6. ASSUME NEW r \in Replicas, OpenFactory(r) PROVE CountsSinceSave'
  BY <1>6 DEF OpenFactory, Goto
<1>7. ASSUME NEW r \in Replicas, ReadPosition(r) PROVE CountsSinceSave'
  BY <1>7 DEF ReadPosition, Goto
<1>8. ASSUME NEW r \in Replicas, Attach(r) PROVE CountsSinceSave'
  <2>1. primary = r => from[r] = savedOffset
    BY <1>8 DEF Attach, Goto, IInv, PrimaryKnowsStore
  <2>q. QED
    BY <1>8, <2>1 DEF Attach, Goto, StartPosition
<1>9. ASSUME NEW r \in Replicas, AttachRefused(r) PROVE CountsSinceSave'
  BY <1>9 DEF AttachRefused, LeaveUnclosed, EndRun
<1>10. ASSUME NEW r \in Replicas, CommitEpoch(r) PROVE CountsSinceSave'
  BY <1>10 DEF CommitEpoch, Goto
<1>11. ASSUME NEW r \in Replicas, EnterLoop(r) PROVE CountsSinceSave'
  BY <1>11 DEF EnterLoop, Goto
<1>12. ASSUME NEW r \in Replicas, ConnectDenied(r) PROVE CountsSinceSave'
  BY <1>12 DEF ConnectDenied, LeaveUnclosed, EndRun
<1>13. ASSUME NEW r \in Replicas, ConnectFails(r) PROVE CountsSinceSave'
  BY <1>13 DEF ConnectFails, LeaveUnclosed, EndRun
<1>14. ASSUME NEW r \in Replicas, Receive(r) PROVE CountsSinceSave'
  <2>1. CASE SaveDue(iteration[r] + 1)
    BY <1>14, <2>1 DEF Receive
  <2>2. CASE ~ SaveDue(iteration[r] + 1)
    BY <1>14, <2>2 DEF Receive
  <2>q. QED
    BY <2>1, <2>2
<1>15. ASSUME NEW r \in Replicas, SaveApplied(r) PROVE CountsSinceSave'
  BY <1>15 DEF SaveApplied, Goto
<1>16. ASSUME NEW r \in Replicas, SaveAcked(r) PROVE CountsSinceSave'
  BY <1>16 DEF SaveAcked, Goto
<1>17. ASSUME NEW r \in Replicas, SaveInterrupted(r) PROVE CountsSinceSave'
  BY <1>17 DEF SaveInterrupted, Goto
<1>18. ASSUME NEW r \in Replicas, SaveNotPrimary(r) PROVE CountsSinceSave'
  BY <1>18 DEF SaveNotPrimary
<1>19. ASSUME NEW r \in Replicas, Cancelled(r) PROVE CountsSinceSave'
  BY <1>19 DEF Cancelled, Goto
<1>20. ASSUME NEW r \in Replicas, Disconnected(r) PROVE CountsSinceSave'
  BY <1>20 DEF Disconnected, Goto
<1>21. ASSUME NEW r \in Replicas, Throw(r) PROVE CountsSinceSave'
  BY <1>21 DEF Throw
<1>22. ASSUME NEW r \in Replicas, Close(r) PROVE CountsSinceSave'
  BY <1>22 DEF Close, EndRun
<1>23. CASE UNCHANGED vars
  BY <1>23
<1>q. QED
  BY <1>1, <1>2, <1>3, <1>4, <1>5, <1>6, <1>7, <1>8, <1>9, <1>10, <1>11, <1>12, <1>13, <1>14, <1>15, <1>16, <1>17, <1>18, <1>19, <1>20, <1>21, <1>22, <1>23
  DEF Next, Fabric, Connect, Loop, Failure

\* A count is lowered to 0 or raised by Receive, which stops at the cap for a
\* save; only a fault takes a run beyond it.
LEMMA CountIsCappedStep ==
    TypeOK /\ CountIsCapped /\ [Next]_vars => CountIsCapped'
<1> SUFFICES ASSUME TypeOK, CountIsCapped, [Next]_vars PROVE CountIsCapped'
  OBVIOUS
<1>0. /\ Cap(faults) \in Nat
      /\ 0 < Cap(faults) /\ Cap(faults) < Cap(faults + 1)
      /\ SaveDue(Cap(faults))
      /\ Cap(faults + 1) \in Nat
  <2>1. faults \in Nat /\ faults + 1 \in Nat
    BY DEF TypeOK
  <2>q. QED
    BY <2>1, CapFacts
\* A step that is no fault, and one that is.
<1>a. UNCHANGED faults => Cap(faults') = Cap(faults)
  OBVIOUS
<1>b. Fault => Cap(faults') = Cap(faults + 1)
  BY DEF Fault
<1> USE <1>0, <1>a, <1>b DEF CountIsCapped, TypeOK
<1>1. CASE EnqueueEvent
  BY <1>1 DEF EnqueueEvent
<1>2. CASE DropLeaked
  BY <1>2 DEF DropLeaked
<1>3. CASE Depose
  BY <1>3 DEF Depose
<1>4. ASSUME NEW r \in Replicas, Promote(r) PROVE CountIsCapped'
  BY <1>4 DEF Promote, Goto
<1>5. ASSUME NEW r \in Replicas, Crash(r) PROVE CountIsCapped'
  BY <1>5 DEF Crash, EndRun
<1>6. ASSUME NEW r \in Replicas, OpenFactory(r) PROVE CountIsCapped'
  BY <1>6 DEF OpenFactory, Goto
<1>7. ASSUME NEW r \in Replicas, ReadPosition(r) PROVE CountIsCapped'
  BY <1>7 DEF ReadPosition, Goto
<1>8. ASSUME NEW r \in Replicas, Attach(r) PROVE CountIsCapped'
  BY <1>8 DEF Attach, Goto
<1>9. ASSUME NEW r \in Replicas, AttachRefused(r) PROVE CountIsCapped'
  BY <1>9 DEF AttachRefused, LeaveUnclosed, EndRun
<1>10. ASSUME NEW r \in Replicas, CommitEpoch(r) PROVE CountIsCapped'
  BY <1>10 DEF CommitEpoch, Goto
<1>11. ASSUME NEW r \in Replicas, EnterLoop(r) PROVE CountIsCapped'
  BY <1>11 DEF EnterLoop, Goto
<1>12. ASSUME NEW r \in Replicas, ConnectDenied(r) PROVE CountIsCapped'
  BY <1>12 DEF ConnectDenied, LeaveUnclosed, EndRun
<1>13. ASSUME NEW r \in Replicas, ConnectFails(r) PROVE CountIsCapped'
  BY <1>13 DEF ConnectFails, LeaveUnclosed, EndRun
<1>14. ASSUME NEW r \in Replicas, Receive(r) PROVE CountIsCapped'
  <2>1. iteration[r] + 1 <= Cap(faults)
    BY <1>14 DEF Receive
  <2>2. CASE SaveDue(iteration[r] + 1)
    BY <1>14, <2>1, <2>2 DEF Receive
  <2>3. CASE ~ SaveDue(iteration[r] + 1)
    <3>1. iteration[r] + 1 # Cap(faults)
      BY <2>3
    <3>q. QED
      BY <1>14, <2>1, <2>3, <3>1 DEF Receive
  <2>q. QED
    BY <2>2, <2>3
<1>15. ASSUME NEW r \in Replicas, SaveApplied(r) PROVE CountIsCapped'
  BY <1>15 DEF SaveApplied, Goto
<1>16. ASSUME NEW r \in Replicas, SaveAcked(r) PROVE CountIsCapped'
  BY <1>16 DEF SaveAcked, Goto
<1>17. ASSUME NEW r \in Replicas, SaveInterrupted(r) PROVE CountIsCapped'
  BY <1>17 DEF SaveInterrupted, Goto
<1>18. ASSUME NEW r \in Replicas, SaveNotPrimary(r) PROVE CountIsCapped'
  BY <1>18 DEF SaveNotPrimary
<1>19. ASSUME NEW r \in Replicas, Cancelled(r) PROVE CountIsCapped'
  BY <1>19 DEF Cancelled, Goto
<1>20. ASSUME NEW r \in Replicas, Disconnected(r) PROVE CountIsCapped'
  BY <1>20 DEF Disconnected, Goto
<1>21. ASSUME NEW r \in Replicas, Throw(r) PROVE CountIsCapped'
  BY <1>21 DEF Throw
<1>22. ASSUME NEW r \in Replicas, Close(r) PROVE CountIsCapped'
  BY <1>22 DEF Close, EndRun
<1>23. CASE UNCHANGED vars
  BY <1>23
<1>q. QED
  BY <1>1, <1>2, <1>3, <1>4, <1>5, <1>6, <1>7, <1>8, <1>9, <1>10, <1>11, <1>12, <1>13, <1>14, <1>15, <1>16, <1>17, <1>18, <1>19, <1>20, <1>21, <1>22, <1>23
  DEF Next, Fabric, Connect, Loop, Failure

\* A failover delivers again at most OffsetInterval events, and OffsetInterval
\* more for every save that was interrupted (the duplicates that RunAsync's
\* comment at line 112 warns of).
THEOREM RedeliveryIsBounded == Spec => []RedeliveryBounded
<1>1. Init => CountsSinceSave /\ CountIsCapped
  BY DEF Init, CountsSinceSave, CountIsCapped
<1>2. IInv /\ CountsSinceSave /\ CountIsCapped => RedeliveryBounded
  <2> SUFFICES ASSUME IInv, CountsSinceSave, CountIsCapped,
                      NEW r \in Replicas,
                      primary = r, pc[r] \in InLoop, savedOffset # None
               PROVE  /\ cursor[r] - savedOffset <= iteration[r]
                      /\ iteration[r] <= OffsetInterval * (faults + 1)
    BY DEF RedeliveryBounded
  <2>1. /\ savedOffset \in Nat /\ cursor[r] \in Nat /\ iteration[r] \in Nat
        /\ faults \in Nat
    BY DEF IInv, TypeOK
  <2>2. cursor[r] - savedOffset <= iteration[r]
    BY <2>1 DEF CountsSinceSave, InLoop
  <2>3. iteration[r] <= Cap(faults)
    BY <2>1, CapFacts DEF CountIsCapped, InLoop
  <2>q. QED
    BY <2>2, <2>3 DEF Cap
<1>3. IInv => TypeOK
  BY DEF IInv
<1>q. QED
  BY <1>1, <1>2, <1>3, CountsSinceSaveStep, CountIsCappedStep, InvariantHolds,
     PTL DEF Spec

=============================================================================
