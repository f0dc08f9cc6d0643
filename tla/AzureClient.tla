----------------------------- MODULE AzureClient -----------------------------
(***************************************************************************)
(* The Arduino sketch (setup and loop of AzureClient.ino): the WiFi and the*)
(* publishing in one loop, with or without deep sleep between the rounds,  *)
(* with a configuration in the code or in the EEPROM.                      *)
(***************************************************************************)
EXTENDS Publishing

CONSTANT PublishDelay \* publishRateInSeconds

\* OnlineTime is what the longest round takes.
ASSUME OnlineAssumption ==
    LET failed == FailureDelay
        read   == (ResponseLimit - 1) * ReadTimeout
    IN  /\ PublishDelay \in Nat \ {0}
        /\ OnlineTime = (NtpRetries - 1) * NtpWait + ConnectDelay + ConnectTime
                        + (IF failed > read THEN failed ELSE read) + PublishDelay

VARIABLES
    pc,         \* "boot", "setup" or "loop"
    deepSleep,  \* deepSleepSeconds > 0
    configured  \* the pairs of the sketch or of the EEPROM; none if the EEPROM
                \* cannot be parsed

vars == <<wifi, publishing, pc, deepSleep, configured>>

Init ==
    /\ WifiInit /\ PublishingInit
    /\ pc = "boot"
    /\ deepSleep \in BOOLEAN
    /\ configured \in {wifiPairs, 0}

\* The board starts again, with empty memory.
Restart ==
    /\ Restarted /\ PublishingRestarted
    /\ pc' = "boot"
    /\ UNCHANGED <<drops, deepSleep, configured>>

\* initCloudConfig, which leaves wifiPairs alone if it cannot parse the EEPROM.
InitCloudConfig ==
    /\ pc = "boot"
    /\ pairs' = configured
    /\ pc' = "setup"
    /\ UNCHANGED <<millis, until, index, online, target, left, since, offline,
                   wrapped, drops, publishing, deepSleep, configured>>

Setup ==
    /\ pc = "setup" /\ pairs > 0
    /\ pc' = "loop"
    /\ InitWifi(0)
    /\ UNCHANGED <<publishing, deepSleep, configured>>

\* ssid[0] of an array that was never made: an exception restarts the board.
SetupFails ==
    /\ pc = "setup" /\ pairs = 0
    /\ Restart

Looking == pc = "loop" /\ stage = "idle" /\ left = 0

LoopOffline ==
    /\ Looking /\ ~ online
    /\ InitWifi(LoopDelay)
    /\ UNCHANGED <<publishing, pc, deepSleep, configured>>

LoopJustJoined ==
    /\ Looking
    /\ InitWifiJustJoined(LoopDelay)
    /\ UNCHANGED <<publishing, pc, deepSleep, configured>>

LoopOnline ==
    /\ Looking /\ online
    /\ StartRound
    /\ UNCHANGED <<wifi, pc, deepSleep, configured>>

LoopWaits ==
    /\ ~ deepSleep
    /\ EndRound
    /\ StartDelay(PublishDelay)
    /\ UNCHANGED <<pc, deepSleep, configured>>

\* The board sleeps, and starts again from the beginning.
LoopSleeps ==
    /\ deepSleep
    /\ stage = "read" /\ left = 0
    /\ Restart

DelayGoesOn == Delay /\ UNCHANGED <<publishing, pc, deepSleep, configured>>

Round ==
    /\ \/ RequestTime \/ TimeIsOver \/ SynchronizeAgain \/ NtpPoll \/ NoNtpResponse
       \/ ConnectToAzure \/ CallHost \/ NoNetwork \/ HostConnectionFails
       \/ NotConnected \/ SendMessage \/ ReadChunk
    /\ UNCHANGED <<pc, deepSleep, configured>>

Radio ==
    /\ Join \/ Drop
    /\ UNCHANGED <<publishing, pc, deepSleep, configured>>

Network ==
    /\ NtpResponse \/ HostConnected \/ TlsBreaks
    /\ UNCHANGED <<pc, deepSleep, configured>>

Program == \/ InitCloudConfig \/ Setup \/ SetupFails \/ LoopOffline \/ LoopOnline
           \/ LoopWaits \/ LoopSleeps \/ DelayGoesOn \/ Round

Next == Program \/ LoopJustJoined \/ Radio \/ Network

Spec == Init /\ [][Next]_vars

Sends == SendMessage /\ UNCHANGED <<pc, deepSleep, configured>>

\* The program goes on; a network that works is joined if it is tried again
\* and again; a host that is called again and again answers, and one of the
\* connections stands until the message is sent.  Nobody owes the time.
FairSpec ==
    /\ Spec
    /\ WF_vars(Program)
    /\ SF_vars(Join /\ UNCHANGED <<publishing, pc, deepSleep, configured>>)
    /\ SF_vars(HostConnected /\ UNCHANGED <<pc, deepSleep, configured>>)
    /\ SF_vars(Sends)
-----------------------------------------------------------------------------
\* Every variable keeps its type, and the pair that is tried exists.
TypeOK ==
    /\ WifiTypeOK /\ PublishingTypeOK
    /\ pc \in {"boot", "setup", "loop"} /\ deepSleep \in BOOLEAN
    /\ configured \in {wifiPairs, 0}
    /\ stage # "idle" => pc = "loop"

\* A message goes out without the time only when all the requests of the round
\* were waited for in full, wherever the clock wraps meanwhile.
TimelessOnlyUnanswered ==
    [][Sends /\ ~ timeSet => unanswered = NtpRetries - 1]_vars

\* A board with a pair that works goes on publishing, whatever is lost and
\* when: the network, the connection before or while the response is read, the
\* answers to the requests for the time.  The wrap delays this but does not
\* prevent it.
KeepsPublishing == configured > 0 => []<><<Sends>>_vars
=============================================================================
