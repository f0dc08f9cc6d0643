------------------------ MODULE PartitionProcessing -------------------------
(***************************************************************************)
(* The stateful Service Fabric service that reads one IoT Hub partition    *)
(* (TK2017Processing/PartitionProcessing/PartitionProcessing.cs).          *)
(*                                                                         *)
(* A replica runs RunAsync while Service Fabric holds it for the primary.  *)
(* A run reads the stored offset and epoch, creates a receiver with the    *)
(* next epoch, stores that epoch, and then receives events one at a time,  *)
(* storing the offset at every OffsetInterval-th event.  A replica that is *)
(* deposed keeps running until its token or a failing write tells it, so   *)
(* several runs overlap; the hub gives the partition to one receiver.      *)
(*                                                                         *)
(* The events of the partition are numbered 1..head; a position is the     *)
(* number of the last event passed, which is what the offset string of an  *)
(* event denotes for CreateReceiver.                                       *)
(***************************************************************************)
EXTENDS Integers

CONSTANTS
    Replicas,          \* the replicas of one service partition
    OffsetInterval,    \* events between two saves of the offset
    EqualEpochAnswers, \* does the hub let a receiver in when the connected
                       \* one has the same epoch?  Not documented: a set of
                       \* possible answers
    MaxEvents,         \* bound: events enqueued in the partition
    MaxFaults,         \* bound: failovers, crashes and exceptions
    Nobody,            \* no replica
    Leaked             \* the connection of a run that ended without closing it

ASSUME ReplicasAssumption == Nobody \notin Replicas /\ Leaked \notin Replicas
ASSUME MarkersAssumption  == Nobody # Leaked
ASSUME IntervalAssumption == OffsetInterval \in Nat \ {0}
ASSUME AnswersAssumption  == EqualEpochAnswers \subseteq BOOLEAN
ASSUME BoundsAssumption   == MaxEvents \in Nat /\ MaxFaults \in Nat

None == -1    \* a key absent from a reliable dictionary

VARIABLES
    \* the hub
    head,        \* events enqueued so far
    linkOwner,   \* whose receiver the hub serves
    linkEpoch,   \* the epoch that receiver was created with
    \* the replicated store and the fabric
    savedOffset, \* OffsetDictionary["offset"], as committed
    savedEpoch,  \* EpochDictionary["epoch"], as committed
    primary,     \* the replica whose writes are accepted
    \* the locals of each replica's run
    pc,          \* how far RunAsync is
    from,        \* the stored offset read, then the position started from
    epoch,       \* newEpoch
    cursor,      \* the last event received
    iteration,   \* offsetIteration
    factory,     \* is a MessagingFactory of this replica open?
    \* observation only, and the bound on faults
    handled, origin, faults

hub    == <<head, linkOwner, linkEpoch>>
store  == <<savedOffset, savedEpoch>>
locals == <<from, epoch, cursor, iteration>>
ghosts == <<handled, origin>>
vars   == <<hub, store, primary, pc, locals, factory, ghosts, faults>>

Connecting == {"started", "opened", "attaching", "attached", "recorded"}
InLoop     == {"polling", "saving", "saved"}
PcValues   == {"idle", "closing"} \union Connecting \union InLoop

Init ==
    /\ head = 0 /\ linkOwner = Nobody /\ linkEpoch = None
    /\ savedOffset = None /\ savedEpoch = None
    /\ primary = Nobody
    /\ pc        = [r \in Replicas |-> "idle"]
    /\ from      = [r \in Replicas |-> None]
    /\ epoch     = [r \in Replicas |-> None]
    /\ cursor    = [r \in Replicas |-> 0]
    /\ iteration = [r \in Replicas |-> 0]
    /\ factory   = [r \in Replicas |-> FALSE]
    /\ handled = {} /\ origin = None
    /\ faults = 0

-----------------------------------------------------------------------------
(* Steps shared by several actions.                                        *)

Goto(r, from1, to) == pc[r] = from1 /\ pc' = [pc EXCEPT ![r] = to]

Fault == faults < MaxFaults /\ faults' = faults + 1

\* The run is over; its locals are gone.  A run that ends while its replica
\* is still the primary is a fault, and the fabric looks for a new primary.
EndRun(r) ==
    /\ pc'        = [pc EXCEPT ![r] = "idle"]
    /\ from'      = [from EXCEPT ![r] = None]
    /\ epoch'     = [epoch EXCEPT ![r] = None]
    /\ cursor'    = [cursor EXCEPT ![r] = 0]
    /\ iteration' = [iteration EXCEPT ![r] = 0]
    /\ primary'   = IF primary = r THEN Nobody ELSE primary

\* An exception inside ConnectToIoTHubAsync: the caller's messagingFactory is
\* still null, so the finally block closes nothing and the connection stays.
LeaveUnclosed(r) ==
    /\ EndRun(r)
    /\ linkOwner' = IF linkOwner = r THEN Leaked ELSE linkOwner
    /\ UNCHANGED <<head, linkEpoch, store, factory, ghosts>>

-----------------------------------------------------------------------------
(* The hub and the fabric: not code of this repository.                    *)

EnqueueEvent ==
    /\ head < MaxEvents
    /\ head' = head + 1
    /\ UNCHANGED <<linkOwner, linkEpoch, store, primary, pc, locals, factory,
                   ghosts, faults>>

\* The process that still holds an unclosed connection ends, or its
\* connection breaks.
DropLeaked ==
    /\ linkOwner = Leaked
    /\ linkOwner' = Nobody
    /\ UNCHANGED <<head, linkEpoch, store, primary, pc, locals, factory,
                   ghosts, faults>>

\* The primary loses its role; its run has not noticed yet.
Depose ==
    /\ primary # Nobody
    /\ Fault
    /\ primary' = Nobody
    /\ UNCHANGED <<hub, store, pc, locals, factory, ghosts>>

\* A replica without a run becomes the primary and RunAsync is called.
Promote(r) ==
    /\ primary = Nobody
    /\ primary' = r
    /\ Goto(r, "idle", "started")
    /\ UNCHANGED <<hub, store, locals, factory, ghosts, faults>>

\* The process of a running replica dies, and its connections with it.
Crash(r) ==
    /\ pc[r] # "idle"
    /\ Fault
    /\ EndRun(r)
    /\ factory' = [factory EXCEPT ![r] = FALSE]
    /\ linkOwner' = IF linkOwner = r THEN Nobody ELSE linkOwner
    /\ UNCHANGED <<head, linkEpoch, store, ghosts>>

-----------------------------------------------------------------------------
(* RunAsync up to the receive loop: ConnectToIoTHubAsync.                  *)

\* The dictionaries are opened and the MessagingFactory is created.
OpenFactory(r) ==
    /\ Goto(r, "started", "opened")
    /\ factory' = [factory EXCEPT ![r] = TRUE]
    /\ UNCHANGED <<hub, store, primary, locals, ghosts, faults>>

\* A slip: the stored epoch is used as it is.
NewEpochSame == IF savedEpoch # None THEN savedEpoch ELSE 0

NewEpoch == IF savedEpoch # None THEN savedEpoch + 1 ELSE 0

\* The transaction reads offset and epoch; only the primary may read.
ReadPosition(r) ==
    /\ primary = r
    /\ Goto(r, "opened", "attaching")
    /\ from'  = [from EXCEPT ![r] = savedOffset]
    /\ epoch' = [epoch EXCEPT ![r] = NewEpoch]
    /\ UNCHANGED <<hub, store, primary, cursor, iteration, factory, ghosts,
                   faults>>

\* What the hub may answer: a receiver with a higher epoch is let in and
\* disconnects the connected one, a receiver with a lower epoch is refused.
Answers(r) == CASE linkOwner = Nobody   -> {TRUE}
                [] epoch[r] > linkEpoch -> {TRUE}
                [] epoch[r] < linkEpoch -> {FALSE}
                [] OTHER                -> EqualEpochAnswers

\* A slip: every run starts at the beginning of the stream.
StartOfStream(r) == 0

\* The stored offset, or the current time when no offset is stored: then only
\* events enqueued from now on arrive.
StartPosition(r) == IF from[r] # None THEN from[r] ELSE head

\* The receiver is created.  The new epoch is not stored yet.
Attach(r) ==
    /\ Goto(r, "attaching", "attached")
    /\ TRUE \in Answers(r)
    /\ from'   = [from EXCEPT ![r] = StartPosition(r)]
    /\ cursor' = [cursor EXCEPT ![r] = StartPosition(r)]
    /\ linkOwner' = r
    /\ linkEpoch' = epoch[r]
    /\ UNCHANGED <<head, store, primary, epoch, iteration, factory, ghosts,
                   faults>>

AttachRefused(r) ==
    /\ pc[r] = "attaching"
    /\ FALSE \in Answers(r)
    /\ LeaveUnclosed(r)
    /\ UNCHANGED faults

\* The commit takes effect; the run learns of it in the next step, if it does.
CommitEpoch(r) ==
    /\ primary = r
    /\ Goto(r, "attached", "recorded")
    /\ savedEpoch' = epoch[r]
    /\ UNCHANGED <<hub, savedOffset, primary, locals, factory, ghosts, faults>>

EnterLoop(r) ==
    /\ Goto(r, "recorded", "polling")
    /\ iteration' = [iteration EXCEPT ![r] = 0]
    /\ UNCHANGED <<hub, store, primary, from, epoch, cursor, factory, ghosts,
                   faults>>

\* A slip: the exception is swallowed and the call made again.
DenialIgnored(r) == FALSE

\* Reads and writes of a deposed replica throw FabricNotPrimaryException, and
\* here nothing catches it.
ConnectDenied(r) ==
    /\ pc[r] \in {"started", "opened", "attached", "recorded"}
    /\ primary # r
    /\ LeaveUnclosed(r)
    /\ UNCHANGED faults

\* Any other exception before the loop: the hub cannot be reached, the
\* partition key has no hub partition, the transaction times out.
ConnectFails(r) ==
    /\ pc[r] \in Connecting
    /\ Fault
    /\ LeaveUnclosed(r)

-----------------------------------------------------------------------------
(* The receive loop.  A receive that returns null, or that times out,      *)
(* changes nothing and is a stuttering step.                               *)

\* A slip: only every other save is made.
SaveDueLate(n) == n % (2 * OffsetInterval) = 0

SaveDue(n) == n % OffsetInterval = 0

\* One event is handled; every OffsetInterval-th one opens the transaction
\* that saves its offset.
Receive(r) ==
    /\ pc[r] = "polling"
    /\ linkOwner = r
    /\ cursor[r] < head
    /\ cursor'    = [cursor EXCEPT ![r] = @ + 1]
    /\ iteration' = [iteration EXCEPT ![r] = @ + 1]
    /\ handled'   = handled \union {cursor[r] + 1}
    /\ pc' = [pc EXCEPT ![r] = IF SaveDue(iteration[r] + 1)
                               THEN "saving" ELSE "polling"]
    /\ UNCHANGED <<hub, store, primary, from, epoch, factory, origin, faults>>

\* The commit of the offset takes effect.
SaveApplied(r) ==
    /\ primary = r
    /\ Goto(r, "saving", "saved")
    /\ savedOffset' = cursor[r]
    /\ origin' = IF savedOffset = None THEN from[r] ELSE origin
    /\ UNCHANGED <<hub, savedEpoch, primary, locals, factory, handled, faults>>

\* The run learns of it and starts counting anew.
SaveAcked(r) ==
    /\ Goto(r, "saved", "polling")
    /\ iteration' = [iteration EXCEPT ![r] = 0]
    /\ UNCHANGED <<hub, store, primary, from, epoch, cursor, factory, ghosts,
                   faults>>

\* TimeoutException or FabricTransientException, before or after the commit
\* took effect: the loop goes on, and the counter is not reset.
SaveInterrupted(r) ==
    /\ \/ Goto(r, "saving", "polling")
       \/ Goto(r, "saved", "polling")
    /\ Fault
    /\ UNCHANGED <<hub, store, primary, locals, factory, ghosts>>

\* FabricNotPrimaryException: not primary any more, time to quit.
SaveNotPrimary(r) ==
    /\ pc[r] \in {"saving", "saved"}
    /\ primary # r
    /\ pc' = [pc EXCEPT ![r] = "closing"]
    /\ UNCHANGED <<hub, store, primary, locals, factory, ghosts, faults>>

\* ThrowIfCancellationRequested at the top of the loop.
Cancelled(r) ==
    /\ primary # r
    /\ Goto(r, "polling", "closing")
    /\ UNCHANGED <<hub, store, primary, locals, factory, ghosts, faults>>

\* A slip: the exception is taken for a transient one, and the loop goes on.
DisconnectionIgnored(r) == FALSE

\* Another receiver has taken the partition: ReceiveAsync throws.
Disconnected(r) ==
    /\ linkOwner # r
    /\ Goto(r, "polling", "closing")
    /\ UNCHANGED <<hub, store, primary, locals, factory, ghosts, faults>>

\* Any other exception in the loop is thrown again.
Throw(r) ==
    /\ pc[r] \in InLoop
    /\ Fault
    /\ pc' = [pc EXCEPT ![r] = "closing"]
    /\ UNCHANGED <<hub, store, primary, locals, factory, ghosts>>

\* finally: the factory is closed, and the receiver with it.
Close(r) ==
    /\ pc[r] = "closing"
    /\ EndRun(r)
    /\ factory' = [factory EXCEPT ![r] = FALSE]
    /\ linkOwner' = IF linkOwner = r THEN Nobody ELSE linkOwner
    /\ UNCHANGED <<head, linkEpoch, store, ghosts, faults>>

-----------------------------------------------------------------------------
Connect(r) == \/ OpenFactory(r) \/ ReadPosition(r) \/ Attach(r)
              \/ AttachRefused(r) \/ CommitEpoch(r) \/ EnterLoop(r)
              \/ ConnectDenied(r)

Loop(r) == \/ Receive(r) \/ SaveApplied(r) \/ SaveAcked(r)
           \/ SaveNotPrimary(r) \/ Cancelled(r) \/ Disconnected(r) \/ Close(r)

Failure(r) == Crash(r) \/ ConnectFails(r) \/ SaveInterrupted(r) \/ Throw(r)

Fabric == Depose \/ \E r \in Replicas : Promote(r)

Next == \/ EnqueueEvent \/ DropLeaked \/ Fabric
        \/ \E r \in Replicas : Connect(r) \/ Loop(r) \/ Failure(r)

Spec == Init /\ [][Next]_vars

\* The steps of a run are taken by the thread pool, and the fabric replaces
\* a lost primary.  Faults, new events and the end of a leaked connection are
\* not owed to anybody.
Fairness == /\ WF_vars(\E r \in Replicas : Promote(r))
            /\ \A r \in Replicas : WF_vars(Connect(r)) /\ WF_vars(Loop(r))

FairSpec == Spec /\ Fairness

-----------------------------------------------------------------------------
(* Properties.                                                             *)

\* Every variable keeps its type.
TypeOK ==
    /\ head \in Nat
    /\ linkOwner \in Replicas \union {Nobody, Leaked}
    /\ linkEpoch \in Nat \union {None}
    /\ savedOffset \in Nat \union {None}
    /\ savedEpoch \in Nat \union {None}
    /\ primary \in Replicas \union {Nobody}
    /\ pc \in [Replicas -> PcValues]
    /\ from \in [Replicas -> Nat \union {None}]
    /\ epoch \in [Replicas -> Nat \union {None}]
    /\ cursor \in [Replicas -> Nat]
    /\ iteration \in [Replicas -> Nat]
    /\ factory \in [Replicas -> BOOLEAN]
    /\ handled \subseteq Nat
    /\ origin \in Nat \union {None}
    /\ faults \in Nat

\* The stored offset never lies beyond an event nobody handled: a failover
\* that resumes at it skips nothing (RunAsync's "pick up where it left off").
CheckpointCovered ==
    savedOffset # None => (origin + 1) .. savedOffset \subseteq handled

\* Of all the runs in the receive loop, the primary's has the highest epoch,
\* so the hub can tell the current reader from a deposed one that has not
\* stopped yet, and no two of them carry the same epoch.
NewestRunHasHighestEpoch ==
    \A r, s \in Replicas :
        pc[r] \in InLoop /\ pc[s] \in InLoop /\ r # s
        => epoch[r] # epoch[s] /\ (primary = r => epoch[r] > epoch[s])

\* A primary that connects is never refused because some older run, or a
\* connection somebody leaked, holds a higher epoch; and it always takes the
\* partition from a run whose epoch was recorded.
PrimaryIsNeverOutbid ==
    \A r, s \in Replicas :
        primary = r /\ pc[r] = "attaching"
        => /\ epoch[r] >= linkEpoch
           /\ linkOwner = s /\ pc[s] \in InLoop => epoch[r] > linkEpoch

\* How many handled events a failover would deliver again: those the primary
\* counted since its last acknowledged save, at most OffsetInterval and then
\* OffsetInterval more for every save that was interrupted.
RedeliveryBounded ==
    \A r \in Replicas :
        primary = r /\ pc[r] \in InLoop /\ savedOffset # None
        => /\ cursor[r] - savedOffset <= iteration[r]
           /\ iteration[r] <= OffsetInterval * (faults + 1)

\* What is stored never goes back: a deposed replica never overwrites the
\* offset or the epoch its successor stored.
StoreNeverRegresses ==
    [][/\ savedOffset' >= savedOffset
       /\ savedEpoch' # savedEpoch => savedEpoch' > savedEpoch]_vars

\* The service implements the checkpointed reader.
Abstract == INSTANCE CheckpointedReader WITH Positions <- 0 .. MaxEvents,
                                               checkpoint <- savedOffset
ImplementsCheckpointedReader == Abstract!Spec

\* Once an offset has been stored, every event enqueued after the position
\* the chain of checkpoints began at is handled, whatever fails over.
ResumesAfterFailover ==
    \A e \in 1 .. MaxEvents :
        (origin # None /\ origin < e /\ e <= head) ~> (e \in handled)

\* A run whose replica was deposed comes to its end: RunAsync does not block
\* the role change.
DeposedRunEnds ==
    \A r \in Replicas :
        (pc[r] # "idle" /\ primary # r) ~> (pc[r] = "idle" \/ primary = r)

\* The comment on messagingFactory: it is "saved for later so it can be
\* closed before RunAsync exits".
FactoryClosedBeforeExit ==
    \A r \in Replicas : pc[r] = "idle" => ~ factory[r]

\* The comment on the dictionaries: "if this service fails over, this will
\* allow it to pick up where it left off": no event is skipped between the
\* first event handled and the position of a run.
PicksUpWhereItLeftOff ==
    \A r \in Replicas : \A first \in handled :
        pc[r] \in InLoop => first .. cursor[r] \subseteq handled
=============================================================================
