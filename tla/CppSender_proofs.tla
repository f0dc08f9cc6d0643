--------------------------- MODULE CppSender_proofs ---------------------------
(***************************************************************************)
(* Proofs about CppSender, for any number of messages and of final rounds. *)
(* The argument: a handle is created exactly as long as its message is in  *)
(* one of the client's two lists, and the callback that releases it takes  *)
(* the message out of the list.                                            *)
(***************************************************************************)
EXTENDS CppSender, FiniteSetTheorems, TLAPS

USE CountsAssumption

Held     == waiting \union unacked
Released == {i \in Tracking : handles[i] = "released"}

\* Messages of later rounds do not exist yet.
NotYetSent ==
    \A i \in Tracking :
        i > iterator \/ (pc = "send" /\ i = iterator)
        => handles[i] = "none" /\ With(i) \notin Held

\* Unless a call failed, a handle that exists will be released: the client
\* still holds its message.
HandleIsHeld ==
    pc # "failed" => \A i \in Tracking : handles[i] = "created" => With(i) \in Held

\* A message is published or not, never both.
PublishedOnce == \A m \in waiting : m.callback => m \notin unacked

\* At the end the client holds nothing.
NothingHeldAtEnd == pc = "ended" => Held = {}

\* Releases are counted right.
ReleasesCounted ==
    /\ \A i \in Tracking : releases[i] = (IF handles[i] = "released" THEN 1 ELSE 0)
    /\ callbackCounter = Cardinality(Released)

IInv == TypeOK /\ NotYetSent /\ CallbackFindsMessage /\ HandleIsHeld
               /\ PublishedOnce /\ ReleasesCounted /\ NothingHeldAtEnd

\* The messages with callback among acked.
Ids(acked) == {m.id : m \in {n \in acked : n.callback}}

\* A message with callback is the one of its tracking id.
LEMMA MessageOfId ==
    ASSUME NEW m \in Message, m.callback
    PROVE  m.id \in Tracking /\ m = With(m.id)
BY DEF Message, With

\* Ids yields the tracking ids of the messages with callback.
LEMMA MessagesOfIds ==
    ASSUME NEW acked \in SUBSET Message
    PROVE  /\ Ids(acked) \subseteq Tracking
           /\ \A i \in Tracking : i \in Ids(acked) <=> With(i) \in acked
<1>1. \A i \in Tracking : With(i) \in acked => i \in Ids(acked)
  <2> SUFFICES ASSUME NEW i \in Tracking, With(i) \in acked PROVE i \in Ids(acked)
    OBVIOUS
  <2>1. With(i).callback /\ With(i).id = i
    BY DEF With
  <2>q. QED
    BY <2>1 DEF Ids
<1>2. \A i \in Ids(acked) : i \in Tracking /\ With(i) \in acked
  <2> SUFFICES ASSUME NEW i \in Ids(acked) PROVE i \in Tracking /\ With(i) \in acked
    OBVIOUS
  <2>1. PICK m \in acked : m.callback /\ i = m.id
    BY DEF Ids
  <2>q. QED
    BY <2>1, MessageOfId
<1>q. QED
  BY <1>1, <1>2

\* The callbacks for messages that the client holds release each handle once
\* and count it.
LEMMA ConfirmCounts ==
    ASSUME IInv, NEW acked \in SUBSET Held, Confirm(acked)
    PROVE  /\ handles' \in [Tracking -> {"none", "created", "released"}]
           /\ releases' \in [Tracking -> 0 .. 1]
           /\ callbackCounter' \in Nat
           /\ ReleasesCounted'
           /\ \A i \in Tracking :
                handles'[i] = (IF With(i) \in acked THEN "released" ELSE handles[i])
<1> DEFINE ids == Ids(acked)
<1>1. acked \in SUBSET Message
  BY DEF IInv, TypeOK, Held
<1>2. ids \subseteq Tracking /\ \A i \in Tracking : i \in ids <=> With(i) \in acked
  BY <1>1, MessagesOfIds
<1>3. \A i \in ids : handles[i] = "created"
  <2> SUFFICES ASSUME NEW i \in ids PROVE handles[i] = "created"
    OBVIOUS
  <2>1. With(i) \in Held /\ With(i).callback /\ With(i).id = i
    BY <1>2 DEF With
  <2>q. QED
    BY <2>1 DEF IInv, CallbackFindsMessage, Held
<1>4. /\ handles' = [i \in Tracking |-> IF i \in ids THEN "released" ELSE handles[i]]
      /\ releases' = [i \in Tracking |-> IF i \in ids THEN releases[i] + 1 ELSE releases[i]]
      /\ callbackCounter' = callbackCounter + Cardinality(ids)
  BY DEF Confirm, Ids
<1>5. Released' = Released \union ids /\ Released \intersect ids = {}
  BY <1>2, <1>3, <1>4 DEF Released
<1>6. IsFiniteSet(ids) /\ IsFiniteSet(Released)
  <2>1. IsFiniteSet(Tracking)
    BY FS_Interval DEF Tracking
  <2>q. QED
    BY <2>1, <1>2, FS_Subset DEF Released
<1>7. Cardinality(Released') = Cardinality(Released) + Cardinality(ids)
  <2>1. Cardinality(Released \intersect ids) = 0
    BY <1>5, FS_EmptySet
  <2>2. Cardinality(Released) \in Nat /\ Cardinality(ids) \in Nat
    BY <1>6, FS_CardinalityType
  <2>3. Cardinality(Released \union ids) =
            Cardinality(Released) + Cardinality(ids) - Cardinality(Released \intersect ids)
    BY <1>6, FS_Union
  <2>q. QED
    BY <1>5, <2>1, <2>2, <2>3
<1>8. \A i \in Tracking :
        releases'[i] = (IF handles'[i] = "released" THEN 1 ELSE 0)
  BY <1>2, <1>3, <1>4 DEF IInv, ReleasesCounted
<1>9. callbackCounter' = Cardinality(Released') /\ callbackCounter' \in Nat
  <2>1. Cardinality(ids) \in Nat
    BY <1>6, FS_CardinalityType
  <2>2. callbackCounter = Cardinality(Released) /\ callbackCounter \in Nat
    BY DEF IInv, TypeOK, ReleasesCounted
  <2>q. QED
    BY <1>4, <1>7, <2>1, <2>2
<1>10. handles' \in [Tracking -> {"none", "created", "released"}]
  BY <1>4 DEF IInv, TypeOK
<1>11. releases' \in [Tracking -> 0 .. 1]
  BY <1>4, <1>8
<1>q. QED
  BY <1>2, <1>4, <1>8, <1>9, <1>10, <1>11 DEF ReleasesCounted

\* DoWork keeps the invariant's parts on handles; the round may change.
LEMMA DoWorkKeeps ==
    ASSUME IInv, NEW connected \in BOOLEAN, NEW quit \in BOOLEAN,
           DoWork(connected, quit)
    PROVE  /\ handles' \in [Tracking -> {"none", "created", "released"}]
           /\ releases' \in [Tracking -> 0 .. 1]
           /\ callbackCounter' \in Nat
           /\ waiting' \subseteq Message /\ unacked' \subseteq Message
           /\ g_continueRunning' \in BOOLEAN
           /\ CallbackFindsMessage' /\ PublishedOnce' /\ ReleasesCounted'
           /\ Held' \subseteq Held
           /\ \A i \in Tracking : handles[i] = "none" <=> handles'[i] = "none"
           /\ \A i \in Tracking :
                handles'[i] = "created" => handles[i] = "created" /\ (With(i) \in Held => With(i) \in Held')
<1>1. PICK acked \in (IF connected THEN SUBSET unacked ELSE {{}}) :
          /\ Confirm(acked)
          /\ unacked' = Outstanding(acked) \union (IF connected THEN waiting ELSE {})
          /\ waiting' = (IF connected THEN {} ELSE waiting)
          /\ g_continueRunning' = Received(quit /\ connected)
  BY DEF DoWork
<1>2. acked \in SUBSET unacked /\ acked \in SUBSET Held
  BY <1>1 DEF Held
<1>3. /\ handles' \in [Tracking -> {"none", "created", "released"}]
      /\ releases' \in [Tracking -> 0 .. 1]
      /\ callbackCounter' \in Nat
      /\ ReleasesCounted'
      /\ \A i \in Tracking :
           handles'[i] = (IF With(i) \in acked THEN "released" ELSE handles[i])
  BY <1>1, <1>2, ConfirmCounts
<1>4. waiting \subseteq Message /\ unacked \subseteq Message
  BY DEF IInv, TypeOK
<1>5. waiting' \subseteq Message /\ unacked' \subseteq Message
  BY <1>1, <1>4 DEF Outstanding
<1>6. Held' = Held \ (acked \ waiting) /\ waiting' \subseteq waiting
  BY <1>1, <1>2 DEF Outstanding, Held
<1>7. g_continueRunning' \in BOOLEAN
  BY <1>1 DEF Received, IInv, TypeOK
\* What is confirmed was published, and is held no longer.
<1>8. \A m \in acked : m.callback => m \notin waiting
  BY <1>2 DEF IInv, PublishedOnce
<1>9. CallbackFindsMessage'
  <2> SUFFICES ASSUME NEW m \in Held', m.callback PROVE handles'[m.id] = "created"
    BY DEF CallbackFindsMessage, Held
  <2>1. m \in Held /\ m \in Message
    BY <1>4, <1>6 DEF Held
  <2>2. m.id \in Tracking /\ m = With(m.id)
    BY <2>1, MessageOfId
  <2>3. m \notin acked
    BY <1>6, <1>8
  <2>4. handles[m.id] = "created"
    BY <2>1 DEF IInv, CallbackFindsMessage, Held
  <2>q. QED
    BY <1>3, <2>2, <2>3, <2>4
<1>10. PublishedOnce'
  <2> SUFFICES ASSUME NEW m \in waiting', m.callback PROVE m \notin unacked'
    BY DEF PublishedOnce
  <2>1. m \in waiting /\ ~ connected
    BY <1>1
  <2>q. QED
    BY <1>1, <2>1 DEF Outstanding, IInv, PublishedOnce
<1>11. \A i \in Tracking : handles[i] = "none" <=> handles'[i] = "none"
  <2> SUFFICES ASSUME NEW i \in Tracking, With(i) \in acked PROVE handles[i] = "created"
    BY <1>3
  <2>1. With(i).callback /\ With(i).id = i
    BY DEF With
  <2>q. QED
    BY <1>2, <2>1 DEF IInv, CallbackFindsMessage
<1>12. \A i \in Tracking :
          handles'[i] = "created"
          => handles[i] = "created" /\ (With(i) \in Held => With(i) \in Held')
  BY <1>3, <1>6
<1>q. QED
  BY <1>3, <1>5, <1>6, <1>7, <1>9, <1>10, <1>11, <1>12

\* At first there is no message.
LEMMA InitIInv == Init => IInv
<1> SUFFICES ASSUME Init PROVE IInv
  OBVIOUS
<1>1. TypeOK
  <2>1. /\ handles \in [Tracking -> {"none", "created", "released"}]
        /\ releases \in [Tracking -> 0 .. 1]
    BY DEF Init
  <2>2. /\ pc = "send" /\ iterator \in 0 .. MESSAGE_COUNT /\ callbackCounter \in Nat
        /\ finals \in 0 .. DOWORK_LOOP_NUM
    BY DEF Init
  <2>3. waiting \subseteq Message /\ unacked \subseteq Message
    BY DEF Init
  <2>4. g_continueRunning \in BOOLEAN
    BY DEF Init
  <2>q. QED
    BY <2>1, <2>2, <2>3, <2>4 DEF TypeOK
<1>2. ReleasesCounted
  <2>1. Released = {}
    BY DEF Init, Released
  <2>q. QED
    BY <2>1, FS_EmptySet DEF Init, ReleasesCounted
<1>q. QED
  BY <1>1, <1>2 DEF Init, IInv, NotYetSent, CallbackFindsMessage, HandleIsHeld,
                    PublishedOnce, NothingHeldAtEnd, Held

\* Every step keeps the invariant.
LEMMA StepIInv == IInv /\ [Next]_vars => IInv'
<1> SUFFICES ASSUME IInv, [Next]_vars PROVE IInv'
  OBVIOUS
<1>t. /\ handles \in [Tracking -> {"none", "created", "released"}]
      /\ releases \in [Tracking -> 0 .. 1]
      /\ waiting \subseteq Message /\ unacked \subseteq Message
  BY DEF IInv, TypeOK
<1>1. CASE NothingToSend
  <2>1. Released' = Released /\ Held' = Held
    BY <1>1 DEF NothingToSend, Released, Held
  <2>q. QED
    BY <1>1, <2>1 DEF NothingToSend, IInv, TypeOK, NotYetSent, CallbackFindsMessage,
                      HandleIsHeld, PublishedOnce, ReleasesCounted,
                      NothingHeldAtEnd
<1>2. CASE Send \/ SendFails
  <2>1. /\ pc = "send" /\ iterator \in Tracking
        /\ handles' = [handles EXCEPT ![iterator] = "created"]
        /\ waiting \subseteq waiting'
        /\ waiting' \subseteq waiting \union {With(iterator), Without(iterator)}
        /\ pc' = "work" => With(iterator) \in waiting'
        /\ pc' \in {"work", "failed"}
        /\ UNCHANGED <<iterator, releases, unacked, callbackCounter, finals,
                       g_continueRunning>>
    BY <1>2 DEF Send, SendFails, IInv, TypeOK, Tracking
  <2>2. /\ handles[iterator] = "none"
        /\ With(iterator) \notin Held
    BY <2>1 DEF IInv, NotYetSent
  <2>3. /\ With(iterator) \in Message /\ With(iterator).callback
        /\ With(iterator).id = iterator
        /\ Without(iterator) \in Message /\ ~ Without(iterator).callback
        /\ \A i \in Tracking : i # iterator => With(i) # With(iterator)
        /\ \A i \in Tracking : With(i) # Without(iterator)
    BY <2>1 DEF With, Without, Message
  <2>4. TypeOK'
    BY <2>1, <2>3 DEF IInv, TypeOK
  <2>5. NotYetSent'
    BY <2>1, <2>3 DEF IInv, NotYetSent, Held, Tracking
  <2>6. CallbackFindsMessage'
    <3> SUFFICES ASSUME NEW m \in waiting' \union unacked', m.callback
                 PROVE  handles'[m.id] = "created"
      BY DEF CallbackFindsMessage
    <3>1. CASE m = With(iterator)
      BY <1>t, <2>1, <2>3, <3>1
    <3>2. CASE m \in Held
      <4>1. handles[m.id] = "created"
        BY <3>2 DEF IInv, CallbackFindsMessage, Held
      <4>q. QED
        BY <1>t, <2>1, <2>2, <4>1
    <3>q. QED
      BY <2>1, <2>3, <3>1, <3>2 DEF Held
  <2>7. HandleIsHeld'
    BY <1>t, <2>1 DEF IInv, HandleIsHeld, Held
  <2>8. PublishedOnce'
    BY <2>1, <2>2, <2>3 DEF IInv, PublishedOnce, Held
  <2>9. ReleasesCounted'
    <3>1. Released' = Released
      BY <1>t, <2>1, <2>2 DEF Released
    <3>q. QED
      BY <1>t, <2>1, <2>2, <3>1 DEF IInv, ReleasesCounted
  <2>q. QED
    BY <2>1, <2>4, <2>5, <2>6, <2>7, <2>8, <2>9 DEF IInv, NothingHeldAtEnd
<1>3. ASSUME NEW connected \in BOOLEAN, NEW quit \in BOOLEAN,
             Work(connected, quit) \/ FinalWork(connected, quit)
      PROVE  IInv'
  <2>1. DoWork(connected, quit)
    BY <1>3 DEF Work, FinalWork
  <2>2. /\ handles' \in [Tracking -> {"none", "created", "released"}]
        /\ releases' \in [Tracking -> 0 .. 1]
        /\ callbackCounter' \in Nat
        /\ waiting' \subseteq Message /\ unacked' \subseteq Message
        /\ g_continueRunning' \in BOOLEAN
        /\ CallbackFindsMessage' /\ PublishedOnce' /\ ReleasesCounted'
        /\ Held' \subseteq Held
        /\ \A i \in Tracking : handles[i] = "none" <=> handles'[i] = "none"
        /\ \A i \in Tracking :
             handles'[i] = "created" => handles[i] = "created" /\ (With(i) \in Held => With(i) \in Held')
    BY <2>1, DoWorkKeeps
  <2>3. /\ pc \in {"work", "final"} /\ pc' \in {"send", "final"}
        /\ pc' = "send" /\ iterator # MESSAGE_COUNT => iterator' = iterator + 1
        /\ iterator' \in {iterator, iterator + 1}
        /\ iterator' \in 0 .. MESSAGE_COUNT
        /\ finals' \in 0 .. DOWORK_LOOP_NUM
        /\ iterator \in 0 .. MESSAGE_COUNT
    BY <1>3 DEF Work, FinalWork, NextRound, IInv, TypeOK
  <2>4. TypeOK'
    BY <2>2, <2>3 DEF TypeOK
  <2>5. NotYetSent'
    <3> SUFFICES ASSUME NEW i \in Tracking,
                        i > iterator' \/ (pc' = "send" /\ i = iterator')
                 PROVE  handles'[i] = "none" /\ With(i) \notin Held'
      BY DEF NotYetSent
    <3>1. i > iterator
      BY <2>3 DEF Tracking
    <3>q. QED
      BY <2>2, <3>1 DEF IInv, NotYetSent
  <2>6. HandleIsHeld'
    BY <2>2, <2>3 DEF IInv, HandleIsHeld
  <2>q. QED
    BY <2>2, <2>3, <2>4, <2>5, <2>6 DEF IInv, NothingHeldAtEnd
<1>4. CASE Destroy
  <2>1. /\ Confirm(Held) /\ waiting' = {} /\ unacked' = {} /\ pc' = "ended"
        /\ UNCHANGED <<iterator, finals, g_continueRunning>> /\ pc = "final"
    BY <1>4 DEF Destroy, Held
  <2>2. Held \in SUBSET Held
    OBVIOUS
  <2>3. /\ handles' \in [Tracking -> {"none", "created", "released"}]
        /\ releases' \in [Tracking -> 0 .. 1]
        /\ callbackCounter' \in Nat
        /\ ReleasesCounted'
        /\ \A i \in Tracking :
             handles'[i] = (IF With(i) \in Held THEN "released" ELSE handles[i])
    BY <2>1, <2>2, ConfirmCounts
  <2>4. TypeOK'
    BY <2>1, <2>3 DEF IInv, TypeOK
  <2>5. Held' = {}
    BY <2>1 DEF Held
  <2>6. NotYetSent'
    BY <2>1, <2>3, <2>5 DEF IInv, NotYetSent
  <2>7. HandleIsHeld'
    BY <2>1, <2>3 DEF IInv, HandleIsHeld
  <2>8. CallbackFindsMessage' /\ PublishedOnce'
    BY <2>1 DEF CallbackFindsMessage, PublishedOnce
  <2>q. QED
    BY <2>3, <2>4, <2>5, <2>6, <2>7, <2>8 DEF IInv, NothingHeldAtEnd
<1>5. CASE UNCHANGED vars
  <2>1. Released' = Released /\ Held' = Held
    BY <1>5 DEF vars, Released, Held
  <2>q. QED
    BY <1>5, <2>1 DEF vars, IInv, TypeOK, NotYetSent, CallbackFindsMessage,
                      HandleIsHeld, PublishedOnce, ReleasesCounted,
                      NothingHeldAtEnd
<1>q. QED
  BY <1>1, <1>2, <1>3, <1>4, <1>5 DEF Next

\* The inductive invariant holds in every reachable state.
THEOREM InvariantHolds == Spec => []IInv
BY InitIInv, StepIInv, PTL DEF Spec

\* Every variable keeps its type; in particular no handle is destroyed twice.
THEOREM TypeCorrect == Spec => []TypeOK
<1>1. IInv => TypeOK
  BY DEF IInv
<1>q. QED
  BY <1>1, InvariantHolds, PTL

\* Whenever the client calls SendConfirmationCallback, the message it gets has
\* its handle, although main goes on creating messages.
THEOREM CallbacksFindTheirMessage == Spec => []CallbackFindsMessage
<1>1. IInv => CallbackFindsMessage
  BY DEF IInv
<1>q. QED
  BY <1>1, InvariantHolds, PTL

\* When the program ends regularly, every message that was created has been
\* confirmed once and its handle destroyed once, the ones left to Destroy too.
THEOREM AllReleased == Spec => []AllReleasedAtEnd
<1>1. IInv => AllReleasedAtEnd
  <2> SUFFICES ASSUME IInv, pc = "ended"
               PROVE  /\ \A i \in Tracking :
                            releases[i] = (IF handles[i] = "none" THEN 0 ELSE 1)
                      /\ callbackCounter = Cardinality(Released)
    BY DEF AllReleasedAtEnd, Released
  <2>1. \A i \in Tracking : handles[i] \in {"none", "released"}
    BY DEF IInv, TypeOK, HandleIsHeld, NothingHeldAtEnd
  <2>q. QED
    BY <2>1 DEF IInv, ReleasesCounted
<1>q. QED
  BY <1>1, InvariantHolds, PTL
=============================================================================
