# Verification of the 2017 IoT Workshop code

The repository is the code of a workshop on Azure IoT: devices (Windows, Node.js,
Python, C++, Arduino) that send telemetry to an IoT Hub and take commands from it,
back ends that read the hub, control devices and run Data Lake jobs. This directory
holds TLA+ models of that code, TLC runs over small instances, and theorems with
proofs that TLAPS checks for all instances.

Paths below are relative to `src/`; `2017IoT` stands for `IoTHub/2017IoT`.

## 1. The system's parts

Everything talks through the IoT Hub, which is not part of the repository: an
ordered log of events per hub partition, a queue of messages per device, direct
methods (request/response), device twins (documents with an etag) and jobs.

| Part | Source | State it keeps | Operations | What is hard |
|---|---|---|---|---|
| Partition processing service | `2017IoT/TK2017Processing/PartitionProcessing` | stored offset and epoch (replicated), position and counter of each run, its connection | connect, receive, save offset, close | failover while an old run goes on, crash between two commits, exceptions between connecting and storing |
| Counter service | `.../Stateful1` | replicated counter | increment in a transaction, once a second | failover between read and commit |
| Event listeners | `.../ConsoleDemoProcessing`, `2017IoT/TKConsoleSend/SimpleEventListener` | one receive loop per hub partition | receive, print | captured loop variables, loops that end alone |
| Background sender | `.../WpfPC/MainWindow.xaml.cs` 163-234 | one timer, one static client | Start, Stop, Tick, Alert | handlers that await, so the user interleaves them |
| Device callbacks | `.../WpfPC/MainWindow.xaml.cs` 268-428, 454-536 | static clients, subscriptions, twin etag | subscribe, unsubscribe, method and twin callbacks, job monitor | static clients nulled under a running callback, etag read-modify-write |
| Cloud-to-device messages | `.../WpfPC/MainWindow.xaml.cs` 236-265, `TKConsoleServiceSend` | device queue with delivery counts | send, receive, abandon, complete | redelivery, two receivers |
| Device simulator (Node) | `IoTHub/2017Node/devmgmt/simdev` | reported twin properties, firmware stages | reboot, lockDoor, writeLine, firmwareUpdate | timers and callbacks of overlapping invocations |
| Back end (Node) | `IoTHub/2017Node/devmgmt/callmethodondevice`, `devmethod` | polled job | method calls, job monitor, twin queries | overlapping polls, one reply used twice |
| C++ sender | `2017IoT/IotSender/CPPSender` | messages in flight, counters | send with and without callback, receive, quit | callbacks after the last DoWork |
| Python sender | `IoTHub/2017PythonIoT` | messages and contexts, callback counters | send rounds, confirm, twin and method callbacks | confirmation against timeout, reused context |
| Arduino client | `IoTHub/_DEMO_DEVICES/Arduino-...` | WiFi pair index, timers, EEPROM records | roam, get time, publish, encode, configure | millisecond counter wraps at 2^32, partial reads |
| Console sender | `2017IoT/TKConsoleSend/TKConsoleSend` | registry entries, parallel sends | get-or-add device, send | check then act, sends after "END" |
| Alert consumer | `.../ServiceBusConsoleAlert` | peek-locked queue | receive, print, complete | lock expiry and redelivery |
| Twin editor | `.../Twins` | twin etag | read, update, query | lost updates |
| Data Lake job runner | `DataLake/TK_SendUSQLAndDownloadResult` | remote files, job state | login, upload, submit, wait, download | a failed job's stale output, retries that leave streams open |
| U-SQL scripts | `DataLake/*/*.usql` | table partitions | create, insert, truncate, update, query | re-running a partly run script |
| Gateway host | `2017IoT/TK_GATEWAYNET/TK_SAMPLE` | a gateway process | create from JSON, wait, destroy | everything is in the vendored SDK |
| Deployment | `.../SFTK2017IoTProcessing` | application package | deploy, upgrade | PowerShell around cluster calls |
| Vendored tools | `IoTHub/_DeviceExplorer`, `_ServiceBusExplorer`, `TK_GATEWAYNET/INC_*`, XML docs | - | - | not this repository's code |

### What makes each part correct

* **Partition processing.** A failover resumes at the stored offset and skips no event
  after the first one stored; what is delivered twice is bounded by the save interval;
  a deposed replica neither writes the store nor keeps the partition; every event is
  handled in the end.
* **Counter service.** The counter grows by one per commit; a failover neither repeats
  nor loses a committed increment.
* **Background sender.** At most one timer sends; a tick never meets a missing client.
* **Device callbacks, twins.** A callback uses a live client; an update based on an old
  twin does not overwrite a newer one; a job monitor ends with its job.
* **Messages.** Every message is completed once or comes back; an abandoned message is
  delivered again.
* **Device simulator.** Every invocation is answered exactly once; firmware stages are
  reported in order.
* **Senders.** Each confirmation is matched with the message it confirms; counters add up.
* **Arduino.** A reconnect is tried at least every minute; a publish reads the whole
  response; what is encoded or stored decodes to itself.
* **Data Lake.** The result downloaded is the result of the job submitted.

## 2. How the project is built

Most important behaviour first; then each part was composed with what it talks to:

| Part | Modules | Composes |
|---|---|---|
| Partition service | `PartitionProcessing`, `CheckpointedReader`, `PartitionProcessing_proofs` | detailed and abstract reader |
| Counter service | `CounterService`, `CommitCounter`, `CounterService_proofs` | replicated and abstract counter |
| WPF device, clients and twins | `DeviceClients`, `DeviceTwin`, `DeviceTwin_proofs` | subscriptions, jobs, twins, twin callbacks, twin exercise |
| WPF device, messages | `BackgroundSend`, `CloudToDevice`, `AlertConsumer`, `DeviceMessages`, `DeviceMessages_proofs` | sender, receivers and alert console |
| Node.js | `DeviceSimulator`, `BackEnd`, `BackEnd_proofs` | device and back end |
| Arduino, roaming and publishing | `WifiRoaming`, `Publishing`, `AzureClient`, `Arduino_proofs` | radio, clock, time server, host in one loop |
| Arduino, tokens | `Base64`, `SasReference`, `SasToken`, `MCSasToken`, `Arduino_proofs` | encoders, configuration, reference |
| Data Lake | `JobRunner`, `JobRunner_proofs` | |
| C++ sender | `CppSender`, `CppSender_proofs` | |

A composition EXTENDS its parts: `DeviceMessages` for instance takes one step of the sender, of a
receiver or of the console and leaves the others unchanged, and lets two of them take a step
together where one calls the other (the alert that the hub routes to the console). Each
composition has one run that checks its invariants, action properties and liveness
together. A disagreement between the code and its comments has a run of its own.

Left for later, in this order: `PythonSender` (rounds of messages against a message timeout shorter
than a round, on the protocol of `CppSender`); `ConsoleSend` with `EventListeners` (get-or-add of
devices in parallel, sends that outlive "END", one receive loop per partition); the life cycle of
U-SQL partitions (007, 009, 010).

## 3. The modules

Names are the code's where TLA+ allows. Every module says in its first comment what a step is:
code between two awaits, or one call whose effect others can see. Definitions introduced by "A
slip" or "Slips" are plausible errors in the code that follows them. No specification uses
them; each one, put in the place of the definition below it, is known to violate a property.

### PartitionProcessing (`PartitionProcessing.cs`)

*State.* `savedOffset` and `savedEpoch` are the two reliable dictionaries, `None` for an absent
key. `primary` is the replica whose reads and writes the store accepts. Each replica has the
locals of its run: `pc`, `from` (the offset read, then the position started from), `epoch`
(`newEpoch`), `cursor` (last event received), `iteration` (`offsetIteration`), `factory` (is a
`MessagingFactory` open). `head`, `linkOwner` and `linkEpoch` are the hub's: events enqueued, the
receiver it serves and that receiver's epoch. An offset string is modelled by the number of the
event it belongs to. `handled` and `origin` only observe.

| Action | Code |
|---|---|
| `Promote`, `Depose`, `Crash` | the fabric calls `RunAsync` (58), takes the role away, loses the process |
| `OpenFactory` | 60-74, 181-196 |
| `ReadPosition` | the reads of the transaction, 198-205 |
| `Attach`, `AttachRefused` | `CreateReceiverAsync`, 207-232, and the hub's answer |
| `CommitEpoch`, `EnterLoop` | 235-239, and the return to 87-91 |
| `Receive` | one event, 103-114 |
| `SaveApplied`, `SaveAcked` | the commit of 121-125 takes effect; the run learns of it, 127 |
| `SaveInterrupted`, `SaveNotPrimary`, `Throw` | the catch blocks 132-152 |
| `Cancelled`, `Disconnected` | 94; the exception of a receiver that was displaced |
| `ConnectDenied`, `ConnectFails` | exceptions before line 91, which close nothing |
| `Close` | finally, 155-161 |

A commit is two steps, so a failure between its effect and its answer is possible. Assumed of
the outside: only the primary reads and writes; a commit that timed out either took effect
before the exception or not at all; a receiver with a higher epoch displaces the connected one
and one with a lower epoch is refused. What the hub does with an equal epoch is documented
nowhere, so `EqualEpochAnswers` is a constant, and the two violation runs and the proofs allow both
answers.

`CheckpointedReader` says what all this is for, without replicas and connections: a checkpoint
never goes back and never passes an event that has not been handled.

### CounterService (`Stateful1.cs`)

The same world with one transaction per second: `ReadCounter` (49), `Update` (57), `Commit` (61),
`DelayOver` (64); every exception leaves the `using` block and ends the run. `pending` is what the
transaction wrote. `CommitCounter` is the register it implements.

### BackgroundSend (`MainWindow.xaml.cs` 163-234)

`timer` and `client` are `m_t` and `m_dc`; `running` and `open` are the timers that tick and the
clients not closed, so that a lost reference is visible. A handler that is at its `await
CloseAsync()` is a record in `waiting`, and `Resume` is the rest of the handler. Ticks and alerts
send; `Fail` is any exception in an `async void` handler, which ends the program.

### CloudToDevice, AlertConsumer, DeviceMessages (cmd07, `TKConsoleServiceSend`, `ServiceBusConsoleAlert`)

`CloudToDevice`: `message` is where each message is, `holder` who has its lock, `deliveries` how often
it was delivered. Every click (`ClickReceive`) is a receiver: `ReceiveCommand` (243-249) decides at
once by the delivery count whether to abandon or complete, `SettleAnswered` is the hub's answer,
`ReceiverFails` an exception that ends the window. `LockExpires` brings a message back while a
receiver has it in hand. Whether a delivery count starts at zero or one is said nowhere: both.
`AlertConsumer` is the console's loop in three steps, `ReceiveAlert`, `PrintAlert`, `CompleteAlert`; it may
end at any of them and be started again. `DeviceMessages` puts both beside `BackgroundSend`: the
handlers share one window, which an exception in any of them ends, and the alert that one
button sends is the one the console shows.

### DeviceClients, DeviceTwin (`MainWindow.xaml.cs` 268-308, 341-427, 454-536)

`current` are the static fields `dcPC` and `dcPC1`; click k creates the clients <<"PC", k>> and
<<"PC1", k>>, and `client` tells how far each is. The UI thread runs one click at a time, but in
steps (`CreatePC`, `HandlersPC`, `CreatePC1`, `HandlersPC1`), because callbacks on other threads
read the fields between them. `phase` and `job` are the two jobs of a scheduled update and
`MonitorReturns` the end of a `MonitorJob` loop.

`DeviceTwin` adds the twins with their etags (a number that counts changes) and cmd10: `GetDevice` and
`GetTwin` twice each, `PatchTwins` twice with the etags read, `WakeUp` after the ten seconds in which
`Thread.Sleep` keeps the UI thread (`Awake`); any of these calls may fail instead (`ExerciseFails`).
`Edit` is anybody else. A change of PC1's desired properties goes to the client that asked for them:
<<k, v>> in `news` is version v on its way to the client of click k, or in its callback before line
424 has read the field. `ConfigUpdate` reads the field: without a client in it nothing is reported
(an exception on a thread of the SDK), otherwise the report is <<k, v, x>> in `sending`, where x is
the click of the client that was found, which need not be k. `ReportConfig` is its arrival,
`ReportFails` the failure of `UpdateReportedPropertiesAsync`, which nobody catches or repeats and
which ends nothing. Each version is a callback of its own, so the callbacks of one client overlap.
`touched`, `updated`, `refused`, `reported` and `failed` observe.

`ChangesReported` therefore excuses a report that failed (the code gives it one attempt, and the
change is not reported until the next one) and a client that was closed meanwhile. It does not
excuse a callback of an open client that finds no client, or that finds another one which was closed
in its place.

### DeviceSimulator, BackEnd (`simdev/SimulatedDevice.js`, `callmethodondevice/CallMethodOnDevice.js`)

Each action of the device is one turn of its event loop: `Opened`, `Invoke` (a method handler),
`ResponseSent`, `TwinAcquired`, `TwinRefused`, `TimerFires`, `Reported`, `ReportFails`. `timers` is a queue
because every timer lasts 4000 ms. `reports` are the patches on their way to the twin; the hub
merges them in order. `process` becomes `dead` where the code throws out of a callback: the inverted
tests of `err` (lines 25, 63, 191: `if (!err)` where `if (err)` is meant, so `err.toString()`
throws exactly when the response was sent), a refused report, a malformed payload.

`BackEnd` schedules the job that locks the device's door (`JobInvokes` is the device's `Invoke`) and
polls for its end. `asked` are the questions without an answer, `found` the answers on their way
that found an end; answers that found none only log, so that `PollAnswered` drops them. `JobReported`
clears the interval and calls back, and may happen again for an answer that was on its way.
Line 158 passes `queryCondition` before line 198 gives it a value; whether the service takes such a
job is left open (`JobAccepted`, `JobRefused`).

### WifiRoaming, Publishing, AzureClient (the Arduino sketch)

`until` is `LastWifiTime`, `index` is `WifiIndex`, `left` what is left of the current `delay()`. Time
passes in `Delay` and `NtpPoll` only, one unit at a time, modulo `Wrap` (2^32 in the code, where `millis()`
and `LastWifiTime` are `unsigned long`). `InitWifi` is `initWifi` with its early returns. `since`,
`offline` and `wrapped` observe. `Drop` and `Join` are the radio.

`Publishing` is the rest of a round, in `stage`: `getCurrentTime` with its retries (`RequestTime`,
`TimeIsOver`), `getNtpTime` and its wait in 32-bit arithmetic (`StillWaiting`), `connectToAzure` with its
delays and the time that the TLS connection takes (`CallHost`, then `HostConnected` or
`HostConnectionFails`; `NoNetwork` is the return of line 51), and the loop that reads the response, with the limit and the chunk that keeps its value
when the connection breaks (`ReadChunk`, `GoesOnReading`). `SynchronizeAgain` is the hourly call of
`getNtpTime` that the time library makes when it is asked for the time (`setSyncInterval`, line 190):
it takes up to the wait and leaves the time as it is if there is no answer. It happens where a round
first asks; that the hour may end between that and the message a little later is left out, for the
wait is the same. `AzureClient` is `setup` and `loop` around them: a
configuration from code or EEPROM, or none (`SetupFails`: `ssid[0]` of an array that was never made,
taken as an exception that restarts the board), and deep sleep, which starts from the beginning.

### Base64, SasReference, SasToken, MCSasToken (`Base64.cpp`, `sha256.cpp`, `Helpers.ino`, `ConfigServices.ino`, `Publish.ino`)

`Base64` is the encoder and decoder on numbers for characters. Both end with a '\0' that is not counted
in the length they return (`Base64.cpp` 45, 91); the sketch gives them arrays of exactly that length,
so the '\0' of the key and of the signature lies one byte behind each array
(`Publish.ino` 73-76, 84-86, 109-111). What lies there is the compiler's choice. The models say what
is written (`base64_encode` and `base64_decode` with the `Nul`, `CString` where `urlEncode` reads up to
it) and assume that nothing else uses that byte before the token is made. `SasToken` follows one
request from the connection string, or the record in the EEPROM, to the token in the header:
`splitStringByIndex` (where the last character belongs to a field even if it is the separator), `urlEncode`, `initHmac`, `print`,
`resultHmac` with the object's one buffer used for all of it, and the byte order of the words.
`SasReference` says what the token has to be by the standards, without buffers and blocks. The 64
rounds of SHA-256 are the parameter `Compress` of both; `MCSasToken` gives it a function in which every
byte and its place count. A device is a mode, a host, an identity and a key with lengths
around the block sizes. The phases of a request are `ConfigureInline` or `ConfigureFromEEPROM`,
`InitHmac`, `SignString`, `ResultHmac` and `CreateSas`.

The names in the string, hosts and identities are taken not to contain `=` or `;`, and identities not
to contain `%`: the registry allows them in identities, but `splitStringByIndex` would cut such an
identity off (`ConfigServices.ino` 53-55), and `initialiseIotHub` puts it into the address without
encoding it (`Publish.ino` 35). For such devices the sketch signs another address.

### JobRunner (`TK_SendUSQLAndDownloadResult/Program.cs`)

`Main` as it is: `Login`, `Submit`, `Poll` (`WaitForJob`), then `DownloadFile` with its loop of
`Open`, `Create`, `Copy`, `Close`, and `Retry` with `Relogin` in the catch block. `output` tells whose
output the file in the store is, `local` what the local file holds and whether it is whole.
`left` is a `FileStream` that a failed attempt did not close: `new FileStream(.., Create)` is
refused until the collector has finalised it. That `CollectGarbage` step may happen but nothing makes
it: an unoptimised build keeps the local variable of line 134, and with it the stream, until
`DownloadFile` returns.

### CppSender (`CPPSender.cpp`)

One thread. `handles` are the message handles that `main` creates and `SendConfirmationCallback`
destroys, `waiting` and `unacked` the two lists of the client library, `DoWork` its step, which
may confirm any set of published messages and deliver "quit". `Destroy` is
`IoTHubClient_LL_Destroy`, which is assumed to confirm, as not sent, what the client still holds (the SDK has a confirmation
result for it).

## 4. The runs

`tlc -config <cfg> <module>`; every run also checks the assumptions on the constants.

| Run | Bounds | What it shows |
|---|---|---|
| `partition` | 2 replicas, 4 events, save interval 2, 3 faults, equal epochs let in | 283 thousand states. Overlapping runs are told apart by their epochs; a new primary is not refused; redelivery is bounded; the abstract reader is implemented (no checkpoint beyond an unhandled event, none taken back); after the first checkpoint's start every event is handled in the end; deposed runs end. |
| `partition_leak` | 2 replicas, 3 events, 2 faults | *violation*: see section 7. |
| `partition_skip` | the same | *violation*: see section 7. |
| `counter` | 3 replicas, 5 commits, 4 faults | The register that counts commits is implemented: no increment is lost or repeated; counting goes on. |
| `background` | 4 clicks on Start and Stop, 1 send in flight, 2 messages, 2 receivers, 1 expired lock, 1 alert, 1 lost lock, 1 restart; 4 clicks on all buttons together | One timer; ticks find a client; no client is forgotten (the exception in these two, `overlapped`, is a second Stop while the first still waits: there the code does lose a client); every receiver that ends has completed a message of its own at a later delivery than the first, and does end; an alert is not dropped unseen, not shown twice without a lost lock, and reaches the console. |
| `callbacks` | 2 subscribing clicks and 2 exercises, at most 3 of these together, any number of unsubscribes, 1 change by others | 428 thousand states. One open client per device; an exercise updates a twin exactly if nobody changed it since it was read; a change sent to a client is reported, or its one report fails, unless the client is closed meanwhile; a scheduled update ends unless a job of it is cancelled (`MonitorJob` polls such a job for ever). |
| `simulator` | 2 invocations besides or including the job's, 2 questions on their way | Updates do not overtake each other, have one timer each, leave the twin with the end of the last, and complete unless the process dies; the end of the job is reported and the monitor falls silent. |
| `wifi` | 3 pairs of which one works, timeout 7, wrap at 31, 2 drops, 2 requests for the time of 2 units each, a connection of up to 1 unit, 2 lines of response; with and without deep sleep and configuration | 881 thousand states. Attempts are spaced and come in time until the clock wraps; messages go out without the time only after all requests were waited for in full, across the wrap too; a board with a working pair publishes again and again. |
| `wifi_wrap` | the same | *violation*: see section 7. |
| `sas` | keys of 1 to 66 bytes and addresses on both sides of every block size, two modes, both configurations | The token is the one the hub computes from its own key; what is written to the two arrays ends one byte behind them, with the final '\0', for all lengths. |
| `jobrunner` | 4 passing failures | Whatever fails, the result of a successful job is downloaded whole; an earlier job's output is read only when this one has failed; the program ends unless there is no output file or a stream of a failed attempt stays open (then every attempt fails, for ever). |
| `cpp` | 4 pairs of messages, 3 final rounds | Callbacks find their handle, all handles are destroyed once, the program ends after "quit". |

*Why the bounds are enough.* Two replicas give a primary and a deposed run beside it; three faults
let a run be interrupted in a save, deposed and then crash; four events at interval 2 reach a
second save after a resume. More replicas, events and other answers of the hub are covered
by the proofs. Four clicks allow start, stop, stop again, start, with ticks between; the clicks are
shared with the buttons of the alert and of the receivers, so that each combination of two
features is reached with the steps that make it hard (`MaxUses`). Two receivers and two messages are
the least with which receivers take each other's messages. Two exercises are the least that
can refuse each other, and two subscribing clicks the least with which a callback finds another's
client. Any three of these four clicks are explored in any order (`MaxBegun`), since all four are
beyond a run of minutes; `MaxClicks`, `MaxExercises` and `MaxBegun` are constants that the proofs leave
open. Two invocations are two updates that overlap, or an
update and the job's call; the proofs have any number. The Arduino times keep the order of the
real ones (1500 ms for the time, 500 ms and 2 s to connect, 60 s timeout, wrap far above) at a scale
where a minute is 7 units; the wrap is a prime, so it is a multiple of no period of looking at the
clock, as 2^32 is none of 750 ms: were it one, the same millisecond would be missed in every round.
Four failures let the job runner fail in an attempt and log in again, fail in the next one, and so on
after the stream of the first was closed or while it stays open. The keys and addresses of
`sas` lie on both sides of the 55, 64 and 119 bytes at which padding and hashing change.

*Deadlock* is not checked where the system stops by itself: a bound on events, clicks or faults is
used up, the program ended, or an exception ended it. The board never stops, so the WiFi runs
check it.

## 5. Fairness

Each liveness property is checked under the weakest fairness that the code's scheduling gives:

* Partition and counter service: `WF(Promote)` (the fabric always appoints a primary) and weak
  fairness of each replica's steps (the thread pool runs its continuations). Faults are finite;
  new events, lost leaked connections and failures are owed by nobody. For `partition` the
  hub lets an equal epoch in: if it refused, a run that ended between creating its receiver and
  committing its epoch (231, 236), leaving the connection open, could keep its successor out
  until that connection breaks.
* `background`: a close that was asked for returns; the service sends; the hub answers (weak). A
  receiver that asks again and again while messages wait gets one: strong, since others may take
  each of them first. The console goes on as long as it runs; nobody owes its restart.
* `callbacks`: the UI thread goes on and wakes up; the service ends its jobs; callbacks run on the
  thread pool and their reports arrive or fail (weak). The monitor's answer is processed when the UI thread is free, which clicks
  interrupt again and again: strong fairness.
* `simulator`: due timers run, getTwin calls back, reports arrive, the interval fires, the job ends
  (after its `maxExecutionTimeInSeconds` at the latest; weak each). Questions to the job service
  may fail, but not all of them for ever: strong fairness of `PollAnswered`.
* `wifi`: the program goes on (weak). A network that works is joined if it is tried often enough, a
  host that is called again and again answers, and one connection stands until the message is
  written: strong, since each new attempt, and each break, disables them. Nobody owes the time.
* `jobrunner`: the program goes on and jobs end (weak). Nothing is assumed of the garbage collector,
  so a download may fail for ever after its first failure; `EndsUnlessBlocked` says that this and a
  missing output file are the only ways not to end.
* `cpp`: the program takes steps; nothing is assumed of the network.

## 6. What is proved

TLAPS checks the theorems for every value of the constants that the named assumptions admit.
These say that replicas differ from the markers `Nobody` and `Leaked`, that `OffsetInterval` is at
least 1 (the code's is a constant), that `EqualEpochAnswers` holds Booleans, that bounds are
natural numbers, and what is said below of the Arduino client.

**PartitionProcessing.** None of the properties is inductive. The invariant is

* `RunCovered`: a run has handled all events from its start to its cursor. Needed because
  `SaveApplied` stores the cursor, and nothing else says what lies below it.
* `PrimaryKnowsStore`: what the primary read is still what is stored, since only the primary
  writes. It makes the chain of checkpoints continuous: the run that saves started at or
  below the stored offset.
* `ChainCovered`: the property itself, with where the chain begins.
* `EpochsInOrder`: no epoch is ahead of the stored one by more than one, recorded epochs are not
  ahead at all and are distinct, and the receiver the hub serves carries its run's epoch. A
  receiver that was created but whose epoch was not committed is why "one ahead" is allowed.
* `WithinStream`: positions stay within the stream, for the refinement.

From it follow `CheckpointCovered`, `NewestRunHasHighestEpoch`, `PrimaryIsNeverOutbid`,
`StoreNeverRegresses`, and that every step is a step of `CheckpointedReader` or a stutter. The bound
on redelivery needs in addition `CountsSinceSave` (the primary's count covers what it received since
the stored offset, and none lies between a save that took effect and its answer) and
`CountIsCapped` (a count beyond a multiple of the interval costs a fault).

**CounterService.** `CounterCountsCommits` is not inductive because a commit writes `pending`; the
invariant adds `PrimaryIsCurrent`: the primary's pending value is the counter plus one. Deposed
runs may hold older ones. The refinement to `CommitCounter` follows.

**DeviceMessages.** Each part has its invariant, and the composition their conjunction, because a
step of one leaves the variables of the others alone but for the shared window, in which nothing
happens after a crash. *Sender:* `OnlyStopWaits` and `OneStopWaits`: Start never reaches its await, and
as long as no Stop overlapped another, the one waiting handler closes the current client while no
timer runs. *Receivers:* `LockInHand`: who holds a lock is about to settle that message, so nobody
completes a message for somebody else. *Console:* `PrintsArePaid` and `AboutToPrint`: each print beyond
the first is paid for by a lock that expired.

**DeviceTwin.** The theorems hold for any number of clicks, exercises and edits. `FieldsFollowClick`: between the click that closes the old clients and the creation of
the new ones the fields are empty, so no client is overwritten. `EtagTellsTouch`: from reading a twin to
updating it the etag held is the current one exactly as long as nobody else changed the twin.
`UpdatedUnlessTouched` alone is not inductive because it says nothing before the update.

**BackEnd.** `NoOvertaking` says nothing about two updates at the same stage. `SameStageInOrder` does: the
one that started first is ahead in the queue of timers, so it moves on first. This needs the timers
to be exactly those of the updates under way (`Queued`, which is `OneTimerPerUpdate`), and that calls,
questions for the twin and starts belong together (`StartedOnce`, `AskingNotStarted`, `CallsMade`). The
back end's steps are steps of the device or leave it alone (`DeviceSteps`).

The twin that `TwinTellsLastUpdate` reads is written by reports that arrive later, in the order in
which they were sent. `TwinFollows` says what it will be when those on their way have arrived: the stage
that was entered last, which the youngest timer tells (`LastStage`), and the package of the update that
started last. It needs `SameStageInOrder`: only the last to start finds the others gone ahead.

**AzureClient.** `RetriedInTime` speaks of a moment at which `InitWifi` looks at the clock; between two
such moments lies a whole round of `loop()` with its delays, a request for the time and a response.
The invariant counts: `RoundInTime` says that what is left of the round fits into `OnlineTime` together
with the time already spent without a connection, and `Delays`, `WaitCounted` and `RequestsCounted` say
what is left of each of its parts. `OnlineCounts` and `AttemptKnown` say that `offline` and `since` can be
read off the clock and `LastWifiTime` as long as nothing has wrapped; `AttemptsSpaced` follows from the
same. `TimelessOnlyUnanswered` needs no such restriction: the wait of `getNtpTime` is computed as a
difference modulo 2^32, and is right across the wrap as long as one wait is shorter than a turn of
the clock (`NtpWait < Wrap`, 1.5 seconds against 49 days), because the time already waited is then the
remainder itself. A call of the host takes at most `ConnectTime`, which is whatever the TLS client
allows it, and counts in `OnlineTime`. A clock that is set asks again in place of the first request
of a round, so it needs no time of its own as long as at least one request is made
(`NtpRetries > 1`; 10 in the code). `ResponseLimit > 1` says that more than one line of a response is
read (100 in the code). `Booting` and `Looping` tie the stage of the round to the program's.

**Base64.** Decoding undoes encoding, and the two sizing functions give the numbers of characters and
bytes written before the final '\0', for every string of bytes: block by block, from the arithmetic of
one block of three bytes. `EncodesBase64`: what
is written is the Base64 of the standard, which is defined bit by bit.

**SasToken.** The token is right for keys, names and addresses of any length (below 65536) and with
whatever the hash object has in it from before (`TokensAreAccepted`, `BuffersHold`, `StringsAndBuffers`). The
steps of the argument:

* `Absorbed`: after any sequence of calls since `init`, the object's state is that after all full
  blocks of what was written, and its buffer is the rest. `write` keeps this whatever the
  length of its argument (`WriteAbsorbs`), and `pad` completes the last block as the standard does,
  through one more block if the length does not fit (`PadCompletes`). So `result` is SHA-256
  (`ResultIsHash`), and `initHmac`, `print` and `resultHmac` together are HMAC (`InitHmacAbsorbs`,
  `ResultHmacIs`), though all three hashes go through one object and one buffer.
* `UrlDecoded`, `PlainDecoded`: behind whole codes, what `urlEncode` wrote decodes to what it was given,
  and characters without `%` to themselves.
* `ThreeFields`, `ValueOf`, `KeyField`: `splitStringByIndex` finds host, identity and key. A key that
  ends with two `=` loses both: the last character belongs to a field even if it is the
  separator, but the one before ends the field. It decodes to the same bytes without them.
* The invariant `TokenInv` says which intermediate value of HMAC the object holds in each phase.

The recursive definitions behind this (states after each block, what is decoded after each
character) are functions on `0 .. n`. That they exist and agree is proved by induction over sets of
numbers (`Induct`, `Recursion`), since the library's induction theorems take an operator as parameter.
The theorems have one hypothesis, `CompressMakesWords`: the rounds of `hashBlock` make eight words of
eight words and a block. It cannot be an assumption on the constant that TLC evaluates, because it
ranges over all blocks. Nothing else is assumed of `Compress`, so what the rounds compute is left
open; the device and the hub use the same.

**JobRunner.** The invariant adds `WaitedForJob`, `OutputTellsJob`, `SourceIsOutput` and `CopiedWhole`:
from the end of the wait on, the file in the store no longer changes and is the new one exactly
if the job succeeded.

**CppSender.** The invariant adds `HandleIsHeld`, `PublishedOnce`, `NotYetSent`, `ReleasesCounted` and
`NothingHeldAtEnd`: a handle exists exactly as long as its message is in one of the client's
lists. The counter is the cardinality of the set of released handles.

*Only model-checked:* the liveness properties (`KeepsPublishing`, `ReceivingEnds`, `AlertsReachConsole`,
`ScheduledUpdateEnds`, `ChangesReported`, `ResumesAfterFailover`, `DeposedRunEnds`, `CountingGoesOn`,
`UpdateCompletes`, `MonitorFallsSilent`, `EndsUnlessBlocked`, `QuitEnds`), since the prover does not reason about
fairness or ENABLED, and the runs that look for a violation. All other properties of the runs,
invariants, action properties and refinements, are theorems.

## 7. Where the code disagrees with its comments

* **The factory is not always closed** (`partition_leak`). `PartitionProcessing.cs:85` says the
  `MessagingFactory` is kept "so it can be closed before RunAsync exits". An exception anywhere in
  `ConnectToIoTHubAsync` after line 186 leaves the caller's variable null, and the factory open.
* **A failover before the first save skips events** (`partition_skip`). Line 61 promises to "pick up
  where it left off"; until the first `OffsetInterval` events are through there is no offset,
  and the successor starts at the current time.
* **The WiFi timeout after a wrap** (`wifi_wrap`). `WiFi.ino:3` says 60 seconds; an absolute due time
  from before the wrap of `millis()` blocks attempts until the clock reaches it again.

Seen while reading, without a run: `PartitionProcessing.cs:234` says the epoch "is recorded each
time the service fails over", but a run that ends between 231 and 236 has used an epoch that
is not recorded (`PrimaryIsNeverOutbid` holds all the same). The simulator's inverted tests of `err`
are modelled as they are and end the process; `SimulatedDevice.js:32` wants the
reboot reported before the physical restart, but the report starts only when `getTwin` calls
back, after the line where the restart belongs (55). `SetEEPROMConfiguration.ino` defines two
WiFi pairs (7) and stores one (26). `Publish.ino:74` calls its array "big enough for the base64
decoded key", and it is one byte too small for what `base64_decode` writes (`Base64.cpp:91`); lines 85
and 110 and `Base64.cpp:45` are the same for the signature. `OnlyTerminatorOutside` says exactly by how
much.

## 8. What is not modelled

The vendored tools and SDKs, deployment scripts, event logging, data classes, sensors, LEDs and the
hosted Stream Analytics query hold no state of this repository's code. The gateway host creates,
waits and destroys. The one-off exercises of the WPF program (cmd01 to cmd06) are straight
sequences of calls on clients of their own. Of the callbacks of
methods, m1 and m2 touch no state; `update_pc` and `update_pc1` (518-536) report a time that nothing reads,
through the same fields as the twin callback that is modelled. `UploadFile` and `Test` of the job runner are never
called. The twin editor reads, updates and queries the twin of a device that no other part of the
repository uses. The back end's second job goes through the same monitor as the first. The Python
sender, the console sender, the event listeners and the U-SQL scripts are left for later (section 2).

Of the C, C++, C# and JavaScript files that the repository holds, nearly all lines are headers of
SDKs under `TK_GATEWAYNET/INC*`, copied in for the build of the gateway sample; the programs of the
workshop itself, which are the subject here, are a few thousand lines with their comments.

Within the modelled parts: contents of messages, log texts and telemetry values are left out;
what a handler reports is kept as far as a property tells it apart. The IoT Hub, Service Fabric,
the Data Lake service and the client SDKs are modelled from how this code uses them, in actions
that their modules mark as not code of this repository.
