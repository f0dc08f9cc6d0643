-------------------------- MODULE DeviceTwin_proofs --------------------------
(***************************************************************************)
(* Proofs about DeviceClients and DeviceTwin, for any number of clicks,    *)
(* exercises and changes.  The arguments: between the click that closes    *)
(* the old clients and the creation of the new ones the UI thread does     *)
(* nothing else, so a field is empty whenever it gets its client; and from *)
(* reading a twin to updating it an exercise holds an etag that is current *)
(* exactly as long as nobody else changes the twin.                        *)
(***************************************************************************)
EXTENDS DeviceTwin, TLAPS

USE BoundAssumption, TwinBounds
USE DEF Clicks, Devices, Clients, Open, None, Exercises

\* The fields in the steps of a subscribing click: empty until they get the
\* client of this click.
FieldsFollowClick ==
    /\ ui = "createPC"    => current["PC"] = None
    /\ ui = "handlersPC"  => current["PC"] = clicks
    /\ ui \in {"createPC", "handlersPC", "createPC1"} => current["PC1"] = None
    /\ ui = "handlersPC1" => current["PC1"] = clicks
    /\ ui # "free"        => clicks \in Clicks

IInv == TypeOK /\ FieldsFollowClick /\ OneConnectionPerDevice

\* At first nobody has clicked, and the fields are empty.
LEMMA InitIInv == Init => IInv
<1> SUFFICES ASSUME Init PROVE IInv
  OBVIOUS
<1>1. TypeOK
  <2>1. /\ current \in [Devices -> Clicks \union {None}]
        /\ client \in [Clients -> {"unused", "closing", "closed"} \union Open]
        /\ kind \in [Clicks -> {"none", "methods", "update"}]
        /\ phase \in [Clicks -> {"none", "twin", "method", "over"}]
        /\ job \in [Clicks -> {"none", "running", "completed", "failed", "cancelled"}]
    BY DEF Init
  <2>2. \A d \in Devices : current[d] # None => client[<<d, current[d]>>] \in Open
    BY DEF Init
  <2>3. /\ ui \in {"free", "createPC", "handlersPC", "createPC1", "handlersPC1"}
        /\ clicks \in 0 .. MaxClicks
    BY DEF Init
  <2>4. crashed \in BOOLEAN
    BY DEF Init
  <2>5. desired \subseteq Clicks
    BY DEF Init
  <2>q. QED
    BY <2>1, <2>2, <2>3, <2>4, <2>5 DEF TypeOK
<1>2. FieldsFollowClick
  BY DEF Init, FieldsFollowClick
<1>3. OneConnectionPerDevice
  BY DEF Init, OneConnectionPerDevice
<1>q. QED
  BY <1>1, <1>2, <1>3 DEF IInv

\* Every step keeps it: the clients of a click are created one after the other
\* into empty fields, and leave them only to be closed.
LEMMA StepIInv == IInv /\ [Next]_vars => IInv'
<1> SUFFICES ASSUME IInv, [Next]_vars PROVE IInv'
  OBVIOUS
<1> USE DEF IInv, TypeOK, FieldsFollowClick, OneConnectionPerDevice
<1>1. ASSUME NEW what \in {"methods", "update"}, ClickSubscribe(what) PROVE IInv'
  BY <1>1 DEF ClickSubscribe, RemoveAndClose
<1>2. CASE ClickUnsubscribe
  BY <1>2 DEF ClickUnsubscribe, RemoveAndClose
<1>3. CASE CreatePC
  BY <1>3 DEF CreatePC, Create
<1>4. CASE HandlersPC
  BY <1>4 DEF HandlersPC
<1>5. CASE CreatePC1
  BY <1>5 DEF CreatePC1, Create
<1>6. CASE HandlersPC1
  <2>1. /\ phase' \in [Clicks -> {"none", "twin", "method", "over"}]
        /\ job' \in [Clicks -> {"none", "running", "completed", "failed", "cancelled"}]
    BY <1>6 DEF HandlersPC1
  <2>2. /\ client' = [client EXCEPT ![<<"PC1", clicks>>] = "subscribed"] /\ ui' = "free"
        /\ UNCHANGED <<current, kind, clicks, desired, crashed>>
        /\ current["PC1"] = clicks /\ clicks \in Clicks
    BY <1>6 DEF HandlersPC1
  <2>3. TypeOK'
    BY <2>1, <2>2
  <2>q. QED
    BY <2>2, <2>3
<1>7. ASSUME NEW k \in Clicks, DesiredSet(k) PROVE IInv'
  BY <1>7 DEF DesiredSet
<1>8. ASSUME NEW k \in Clicks, JobEnds(k) PROVE IInv'
  BY <1>8 DEF JobEnds
<1>9. ASSUME NEW k \in Clicks, MonitorReturns(k) PROVE IInv'
  BY <1>9 DEF MonitorReturns
<1>10. ASSUME NEW k \in Clicks, JobCallFails(k) PROVE IInv'
  BY <1>10 DEF JobCallFails
<1>11. ASSUME NEW c \in Clients, Closed(c) PROVE IInv'
  BY <1>11 DEF Closed
<1>12. CASE UNCHANGED vars
  BY <1>12 DEF vars
<1>q. QED
  BY <1>1, <1>2, <1>3, <1>4, <1>5, <1>6, <1>7, <1>8, <1>9, <1>10, <1>11, <1>12
     DEF Next, UIThread

-----------------------------------------------------------------------------
Calls == {"none", "devicePC", "devicePC1", "twinPC", "twinPC1", "patchPC",
          "patchPC1", "sleep", "over"}

\* The calls before d is read.
BeforeReading(d) ==
    {"none", "devicePC", "devicePC1", "twinPC"} \union (IF d = "PC" THEN {} ELSE {"twinPC1"})

TwinTypeOK ==
    /\ etag \in [Devices -> Nat]
    /\ at \in [Exercises -> Calls]
    /\ read \in [Exercises -> [Devices -> Nat]]
    /\ touched \in [Exercises -> SUBSET Devices]
    /\ updated \in [Exercises -> SUBSET Devices]
    /\ refused \in [Exercises -> SUBSET Devices]

\* Before it reads a twin an exercise x has nothing to do with it; then, until it
\* updates it, its etag is the current one unless the twin was touched.
Tells(x, d) ==
    /\ read[x][d] <= etag[d]
    /\ at[x] \in BeforeReading(d) \union Between(d) => d \notin updated[x]
    /\ at[x] \in BeforeReading(d) => d \notin touched[x]
    /\ at[x] \in Between(d) => (d \in touched[x] <=> read[x][d] # etag[d])

EtagTellsTouch == \A x \in Exercises, d \in Devices : Tells(x, d)

TwinIInv == TwinTypeOK /\ EtagTellsTouch /\ UpdatedUnlessTouched

\* At first no exercise has begun.
LEMMA InitTwinIInv == TwinInit => TwinIInv
BY DEF TwinInit, TwinIInv, TwinTypeOK, EtagTellsTouch, UpdatedUnlessTouched,
       Tells, Calls, BeforeReading, Between

\* Every step keeps it.
LEMMA StepTwinIInv == TwinIInv /\ [TwinNext]_all => TwinIInv'
<1> SUFFICES ASSUME TwinIInv, [TwinNext]_all PROVE TwinIInv'
  OBVIOUS
<1> USE DEF TwinIInv, TwinTypeOK, EtagTellsTouch, Tells, UpdatedUnlessTouched
<1>1. ASSUME NEW x \in Exercises, ClickTwins(x) PROVE TwinIInv'
  BY <1>1 DEF ClickTwins, Answered, Goto, Calls, BeforeReading, Between
<1>2. ASSUME NEW x \in Exercises, GetDevice(x) PROVE TwinIInv'
  <2>1. /\ UNCHANGED <<etag, read, touched, updated, refused>>
        /\ \E call \in {"devicePC1", "twinPC", "over"} : Goto(x, call)
        /\ at[x] \in {"devicePC", "devicePC1"}
    BY <1>2 DEF GetDevice, Answered
  <2>2. PICK call \in {"devicePC1", "twinPC", "over"} : Goto(x, call)
    BY <2>1
  <2>3. TwinTypeOK'
    BY <2>1, <2>2 DEF Goto, Calls
  <2>4. ASSUME NEW z \in Exercises, NEW e \in Devices PROVE Tells(z, e)'
    <3>1. /\ Tells(z, e) /\ at'[z] = IF z = x THEN call ELSE at[z]
          /\ read'[z][e] = read[z][e] /\ etag'[e] = etag[e]
          /\ touched'[z] = touched[z] /\ updated'[z] = updated[z]
      BY <2>1, <2>2 DEF Goto
    <3>2. call \notin Between(e) /\ at[x] \in BeforeReading(e)
      BY <2>1 DEF Between, BeforeReading
    <3>q. QED
      BY <3>1, <3>2
  <2>q. QED
    BY <2>1, <2>3, <2>4
<1>3. ASSUME NEW x \in Exercises, GetTwin(x) PROVE TwinIInv'
  <2>1. UNCHANGED <<etag, touched, updated, refused>>
    BY <1>3 DEF GetTwin
  <2>2. ASSUME NEW d \in Devices, at[x] = (IF d = "PC" THEN "twinPC" ELSE "twinPC1"),
               read' = [read EXCEPT ![x][d] = etag[d]],
               NEW call \in {"twinPC1", "patchPC"}, d = "PC" <=> call = "twinPC1",
               Goto(x, call)
        PROVE  TwinIInv'
    <3>1. TwinTypeOK'
      BY <2>1, <2>2 DEF Goto, Calls
    <3>2. ASSUME NEW z \in Exercises, NEW e \in Devices PROVE Tells(z, e)'
      <4>1. /\ Tells(z, e) /\ read[z][e] \in Nat /\ etag[e] \in Nat
            /\ read'[z][e] = IF z = x /\ e = d THEN etag[e] ELSE read[z][e]
            /\ at'[z] = IF z = x THEN call ELSE at[z]
            /\ etag'[e] = etag[e] /\ touched'[z] = touched[z] /\ updated'[z] = updated[z]
        BY <2>1, <2>2 DEF Goto
      <4>2. CASE z # x
        BY <4>1, <4>2
      <4>3. CASE z = x /\ e = d
        <5>1. read'[x][d] = etag[d] /\ etag'[d] = etag[d] /\ d \notin touched[x]
              /\ d \notin updated[x] /\ call \in Between(d) /\ call \notin BeforeReading(d)
          BY <2>2, <4>1, <4>3, SMTT(30) DEF BeforeReading, Between
        <5>q. QED
          BY <4>1, <4>3, <5>1
      <4>4. CASE z = x /\ e # d
        <5>1. /\ call \in BeforeReading(e) => at[x] \in BeforeReading(e)
              /\ call \in Between(e) => at[x] \in Between(e)
          BY <2>2, <4>4, SMTT(30) DEF BeforeReading, Between
        <5>q. QED
          BY <4>1, <4>4, <5>1
      <4>q. QED
        BY <4>2, <4>3, <4>4
    <3>q. QED
      BY <2>1, <3>1, <3>2
  <2>3. CASE at[x] = "twinPC"
    BY <1>3, <2>2, <2>3 DEF GetTwin, Answered
  <2>4. CASE at[x] = "twinPC1"
    BY <1>3, <2>2, <2>4 DEF GetTwin, Answered
  <2>q. QED
    BY <1>3, <2>3, <2>4 DEF GetTwin, Answered
<1>4. ASSUME NEW x \in Exercises, PatchTwins(x) PROVE TwinIInv'
  <2>1. ASSUME NEW d \in Devices, UpdateTwin(x, d), at[x] \in Between(d), UNCHANGED read,
               NEW call \in {"patchPC1", "sleep"}, Goto(x, call),
               d = "PC" <=> call = "patchPC1",
               at[x] = IF d = "PC" THEN "patchPC" ELSE "patchPC1"
        PROVE  TwinIInv'
    <3>1. CASE read[x][d] = etag[d]
      <4>1. Changed(d, x) /\ updated' = [updated EXCEPT ![x] = @ \union {d}] /\ UNCHANGED refused
        BY <2>1, <3>1 DEF UpdateTwin, EtagFor
      <4>2. /\ etag' = [etag EXCEPT ![d] = @ + 1]
            /\ touched' \in [Exercises -> SUBSET Devices]
            /\ \A z \in Exercises : touched'[z] =
                  IF z # x /\ at[z] \in Between(d) THEN touched[z] \union {d} ELSE touched[z]
        BY <4>1 DEF Changed
      <4>3. TwinTypeOK'
        BY <2>1, <4>1, <4>2 DEF Goto, Calls
      <4>4. ASSUME NEW z \in Exercises, z # x, NEW e \in Devices PROVE Tells(z, e)'
        <5>1. at'[z] = at[z] /\ updated'[z] = updated[z] /\ Tells(z, e)
          BY <2>1, <4>1, <4>4 DEF Goto
        <5>2. touched'[z] = IF at[z] \in Between(d) THEN touched[z] \union {d} ELSE touched[z]
          BY <4>2, <4>4
        <5>3. /\ etag[e] \in Nat /\ read[z][e] \in Nat /\ read'[z][e] = read[z][e]
              /\ etag'[e] = IF e = d THEN etag[e] + 1 ELSE etag[e]
          BY <2>1, <4>2
        <5>q. QED
          BY <5>1, <5>2, <5>3 DEF BeforeReading, Between
      <4>6. ASSUME NEW e \in Devices PROVE Tells(x, e)'
        <5>1. /\ at'[x] = call /\ updated'[x] = updated[x] \union {d}
              /\ touched'[x] = touched[x] /\ read'[x][e] = read[x][e]
              /\ etag'[e] = IF e = d THEN etag[e] + 1 ELSE etag[e]
              /\ etag[e] \in Nat /\ read[x][e] \in Nat
          BY <2>1, <4>1, <4>2 DEF Goto
        <5>2. Tells(x, e)
          OBVIOUS
        <5>3. CASE d = "PC"
          BY <2>1, <5>1, <5>2, <5>3 DEF BeforeReading, Between
        <5>4. CASE d = "PC1"
          BY <2>1, <5>1, <5>2, <5>4 DEF BeforeReading, Between
        <5>q. QED
          BY <5>3, <5>4
      <4>5. ASSUME NEW z \in Exercises
            PROVE  updated'[z] \intersect touched'[z] = {} /\ refused'[z] \subseteq touched'[z]
        <5>1. CASE z = x
          <6>1. touched'[x] = touched[x] /\ updated'[x] = updated[x] \union {d}
            BY <4>1, <4>2
          <6>2. d \notin touched[x]
            BY <2>1, <3>1
          <6>q. QED
            BY <4>1, <5>1, <6>1, <6>2
        <5>2. CASE z # x
          <6>1. updated'[z] = updated[z]
                /\ touched'[z] = IF at[z] \in Between(d) THEN touched[z] \union {d} ELSE touched[z]
            BY <4>1, <4>2, <5>2
          <6>2. at[z] \in Between(d) => d \notin updated[z]
            OBVIOUS
          <6>q. QED
            BY <4>1, <6>1, <6>2
        <5>q. QED
          BY <5>1, <5>2
      <4>q. QED
        BY <4>3, <4>4, <4>5, <4>6
    <3>2. CASE read[x][d] # etag[d]
      <4>1. /\ UNCHANGED <<etag, touched, updated>>
            /\ refused' = [refused EXCEPT ![x] = @ \union {d}]
        BY <2>1, <3>2 DEF UpdateTwin, EtagFor
      <4>q. QED
        BY <2>1, <3>2, <4>1 DEF Goto, BeforeReading, Between, Calls
    <3>q. QED
      BY <3>1, <3>2
  <2>2. CASE Answered(x, "patchPC") /\ UpdateTwin(x, "PC") /\ Goto(x, "patchPC1")
    BY <1>4, <2>1, <2>2 DEF PatchTwins, Answered, Between
  <2>3. CASE Answered(x, "patchPC1") /\ UpdateTwin(x, "PC1") /\ Goto(x, "sleep")
    BY <1>4, <2>1, <2>3 DEF PatchTwins, Answered, Between
  <2>q. QED
    BY <1>4, <2>2, <2>3 DEF PatchTwins
<1>5. ASSUME NEW x \in Exercises, WakeUp(x) PROVE TwinIInv'
  BY <1>5 DEF WakeUp, Goto, Calls, BeforeReading, Between
<1>6. ASSUME NEW d \in Devices, Edit(d) PROVE TwinIInv'
  <2>1. /\ etag' = [etag EXCEPT ![d] = @ + 1]
        /\ touched' \in [Exercises -> SUBSET Devices]
        /\ \A x \in Exercises : touched'[x] =
              IF x # 0 /\ at[x] \in Between(d) THEN touched[x] \union {d} ELSE touched[x]
        /\ UNCHANGED <<at, read, updated, refused>>
    BY <1>6 DEF Edit, Changed
  <2>2. TwinTypeOK'
    BY <2>1
  <2>4. ASSUME NEW x \in Exercises
        PROVE  updated'[x] \intersect touched'[x] = {} /\ refused'[x] \subseteq touched'[x]
    <3>1. touched'[x] = IF at[x] \in Between(d) THEN touched[x] \union {d} ELSE touched[x]
      BY <2>1
    <3>2. at[x] \in Between(d) => d \notin updated[x]
      OBVIOUS
    <3>q. QED
      BY <2>1, <3>1, <3>2
  <2>3. ASSUME NEW x \in Exercises, NEW e \in Devices PROVE Tells(x, e)'
    <3>1. Tells(x, e) /\ at'[x] = at[x] /\ updated'[x] = updated[x]
      BY <2>1
    <3>2. touched'[x] = IF at[x] \in Between(d) THEN touched[x] \union {d} ELSE touched[x]
      BY <2>1
    <3>3. /\ etag[e] \in Nat /\ read[x][e] \in Nat /\ read'[x][e] = read[x][e]
          /\ etag'[e] = IF e = d THEN etag[e] + 1 ELSE etag[e]
      BY <2>1
    <3>q. QED
      BY <3>1, <3>2, <3>3 DEF BeforeReading, Between
  <2>q. QED
    BY <2>2, <2>3, <2>4
<1>7. CASE UNCHANGED <<etag, at, read, touched, updated, refused>>
  BY <1>7
<1>8. CASE SomeConfigUpdate \/ SomeReportEnds
  BY <1>7, <1>8 DEF SomeConfigUpdate, SomeReportEnds, ConfigUpdate, ReportConfig, ReportFails
<1>9. CASE Window \/ Services \/ UNCHANGED all
  BY <1>7, <1>9 DEF Window, Services, twins, all
<1>10. ASSUME NEW x \in Exercises, ExerciseFails(x) PROVE TwinIInv'
  BY <1>7, <1>10 DEF ExerciseFails, twins
<1>q. QED
  BY <1>1, <1>2, <1>3, <1>4, <1>5, <1>6, <1>8, <1>9, <1>10 DEF TwinNext, Exercise

\* The exercise leaves the clients alone; all it may do to the rest of the
\* window is to end the program.
LEMMA TwinStepIInv == IInv /\ [TwinNext]_all => IInv'
<1> SUFFICES ASSUME IInv, [TwinNext]_all PROVE IInv'
  OBVIOUS
<1>1. CASE [Next]_vars
  BY <1>1, StepIInv
<1>2. ASSUME crashed' = TRUE, UNCHANGED <<current, client, kind, ui, clicks, desired,
                                         phase, job>>
      PROVE  IInv'
  BY <1>2 DEF IInv, TypeOK, FieldsFollowClick, OneConnectionPerDevice
<1>3. CASE Window \/ Services \/ UNCHANGED all
  BY <1>1, <1>3 DEF Window, Services, Next, all
<1>4. CASE SomeConfigUpdate \/ SomeReportEnds
  BY <1>1, <1>4 DEF SomeConfigUpdate, SomeReportEnds, ConfigUpdate, ReportConfig, ReportFails
<1>5. ASSUME NEW x \in Exercises, PatchTwins(x) PROVE IInv'
  <2>1. \/ crashed' = TRUE
        \/ UNCHANGED crashed
    BY <1>5 DEF PatchTwins, UpdateTwin
  <2>2. UNCHANGED <<current, client, kind, ui, clicks, desired, phase, job>>
    BY <1>5 DEF PatchTwins
  <2>q. QED
    BY <1>1, <1>2, <2>1, <2>2 DEF vars
<1>6. ASSUME NEW x \in Exercises, ClickTwins(x) \/ GetDevice(x) \/ GetTwin(x) \/ WakeUp(x)
      PROVE  IInv'
  BY <1>1, <1>6 DEF ClickTwins, GetDevice, GetTwin, WakeUp
<1>7. ASSUME NEW d \in Devices, Edit(d) PROVE IInv'
  BY <1>1, <1>7 DEF Edit
<1>8. ASSUME NEW x \in Exercises, ExerciseFails(x) PROVE IInv'
  BY <1>2, <1>8 DEF ExerciseFails
<1>q. QED
  BY <1>3, <1>4, <1>5, <1>6, <1>7, <1>8 DEF TwinNext, Exercise

\* Changes and reports are of clicks, and go through clients of clicks.
ReportTypeOK ==
    /\ news \subseteq Clicks \X Nat
    /\ sending \subseteq Clicks \X Nat \X Clicks
    /\ reported \subseteq Clicks \X Nat /\ failed \subseteq Clicks \X Nat
    /\ edits \in Nat

\* Only clients of clicks get changes, and only they are in the fields.
LEMMA ReportStep ==
    IInv /\ TwinIInv /\ ReportTypeOK /\ [TwinNext]_all => ReportTypeOK'
<1> SUFFICES ASSUME IInv, TwinIInv, ReportTypeOK, [TwinNext]_all PROVE ReportTypeOK'
  OBVIOUS
<1>1. CASE UNCHANGED <<news, reports, edits>>
  BY <1>1 DEF ReportTypeOK, reports
<1>2. /\ desired \subseteq Clicks /\ etag \in [Devices -> Nat]
      /\ current["PC1"] # None => current["PC1"] \in Clicks
  BY DEF IInv, TypeOK, TwinIInv, TwinTypeOK
<1>3. ASSUME NEW d \in Devices, NEW x, Changed(d, x), UNCHANGED reports, edits' \in Nat
      PROVE  ReportTypeOK'
  <2>1. etag[d] + 1 \in Nat
    BY <1>2
  <2>2. news' \subseteq news \union (Clicks \X {etag[d] + 1})
    <3>1. PICK due \in SUBSET desired : news' = news \union {<<k, etag[d] + 1>> : k \in due}
      BY <1>3 DEF Changed
    <3>2. due \subseteq Clicks
      BY <1>2, <3>1
    <3>q. QED
      BY <3>1, <3>2
  <2>q. QED
    BY <1>3, <2>1, <2>2 DEF ReportTypeOK, reports
<1>4. ASSUME NEW x \in Exercises, PatchTwins(x) PROVE ReportTypeOK'
  <2>1. edits' \in Nat /\ UNCHANGED <<reports, edits>>
    BY <1>4 DEF PatchTwins, ReportTypeOK
  <2>2. ASSUME NEW d \in Devices, UpdateTwin(x, d) PROVE ReportTypeOK'
    BY <1>1, <1>3, <2>1, <2>2 DEF UpdateTwin
  <2>q. QED
    BY <1>4, <2>2 DEF PatchTwins
<1>5. ASSUME NEW d \in Devices, Edit(d) PROVE ReportTypeOK'
  BY <1>3, <1>5 DEF Edit, ReportTypeOK
<1>6. ASSUME NEW n \in news, ConfigUpdate(n[1], n[2]) PROVE ReportTypeOK'
  <2>1. n \in Clicks \X Nat
    BY DEF ReportTypeOK
  <2>2. current["PC1"] # None => <<n[1], n[2], current["PC1"]>> \in Clicks \X Nat \X Clicks
    BY <1>2, <2>1
  <2>q. QED
    BY <1>6, <2>2 DEF ConfigUpdate, ReportTypeOK
<1>7. ASSUME NEW s \in sending, ReportConfig(s[1], s[2], s[3]) \/ ReportFails(s[1], s[2], s[3])
      PROVE  ReportTypeOK'
  <2>1. <<s[1], s[2]>> \in Clicks \X Nat
    BY DEF ReportTypeOK
  <2>q. QED
    BY <1>7, <2>1 DEF ReportConfig, ReportFails, ReportTypeOK
<1>8. CASE Window \/ Services \/ UNCHANGED all
  BY <1>1, <1>8 DEF Window, Services, twins, all
<1>9. ASSUME NEW x \in Exercises,
             ClickTwins(x) \/ GetDevice(x) \/ GetTwin(x) \/ WakeUp(x) \/ ExerciseFails(x)
      PROVE  ReportTypeOK'
  BY <1>1, <1>9 DEF ClickTwins, GetDevice, GetTwin, WakeUp, ExerciseFails, twins
<1>q. QED
  BY <1>4, <1>5, <1>6, <1>7, <1>8, <1>9
     DEF TwinNext, Exercise, SomeConfigUpdate, SomeReportEnds

\* The inductive invariant of the window: an empty field gets the client, and
\* the etags tell what others changed.
THEOREM InvariantHolds == TwinSpec => [](IInv /\ TwinIInv /\ ReportTypeOK)
<1>1. TwinInit => ReportTypeOK
  BY DEF TwinInit, ReportTypeOK
<1>q. QED
  BY <1>1, InitIInv, InitTwinIInv, TwinStepIInv, StepTwinIInv, ReportStep, PTL
     DEF TwinSpec, WindowInit

\* Every variable keeps its type, and the fields hold clients that nobody has
\* begun to close.
THEOREM TypeCorrect == TwinSpec => [](TypeOK /\ TwinTypeOK /\ ReportTypeOK)
<1>1. IInv /\ TwinIInv => TypeOK /\ TwinTypeOK
  BY DEF IInv, TwinIInv
<1>q. QED
  BY <1>1, InvariantHolds, PTL

\* However often the buttons are clicked, each device has at most one client
\* that is not being closed, and the program can still reach it.
THEOREM OneConnection == TwinSpec => []OneConnectionPerDevice
<1>1. IInv => OneConnectionPerDevice
  BY DEF IInv
<1>q. QED
  BY <1>1, InvariantHolds, PTL

\* However many exercises and others change the twins, an exercise overwrites
\* no change of others, and is refused only where there is one.
THEOREM NoChangeLost == TwinSpec => []UpdatedUnlessTouched
<1>1. TwinIInv => UpdatedUnlessTouched
  BY DEF TwinIInv
<1>q. QED
  BY <1>1, InvariantHolds, PTL
=============================================================================
