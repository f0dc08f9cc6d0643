----------------------------- MODULE Publishing -----------------------------
(***************************************************************************)
(* What the Arduino client does in a round of loop() with a connection:    *)
(* getCurrentTime asks for the time (NTPTimeServices.ino, AzureClient.ino),*)
(* publishToAzure connects, sends and reads the response (Publish.ino).    *)
(* The radio goes on underneath: the network and the TLS connection may be *)
(* lost at any moment.                                                     *)
(***************************************************************************)
EXTENDS WifiRoaming

CONSTANTS NtpWait,       \* 1500 ms
          NtpRetries,    \* ntpRetryCount < 10
          ConnectDelay,  \* delay(500)
          ConnectTime,   \* the longest that tlsClient.connect takes
          FailureDelay,  \* delay(2000)
          ReadTimeout,   \* readStringUntil's time-out, 1 s
          ResponseLimit  \* limit < 100

\* A wait for the time is shorter than a turn of the clock, the time is asked
\* for at least once, and more than one line of the response is read.
ASSUME PublishAssumption ==
    /\ {NtpWait, NtpRetries, ConnectDelay, FailureDelay, ReadTimeout} \subseteq Nat \ {0}
    /\ NtpWait < Wrap /\ NtpRetries > 1 /\ ConnectTime \in Nat
    /\ ResponseLimit \in Nat /\ ResponseLimit > 1

VARIABLES
    stage,   \* where the round is; "idle" outside
    timeSet, \* timeStatus() # timeNotSet
    retries, \* ntpRetryCount
    begin,   \* beginWait
    waited,  \* observation: how long the request has been waited for
    unanswered, \* observation: requests of the round waited for in full
    tls,     \* tlsClient.connected()
    chunk,   \* chunk.length() > 0
    limit    \* as far as ResponseLimit

publishing == <<stage, timeSet, retries, begin, waited, unanswered, tls, chunk,
                limit>>

Stages == {"idle", "time", "ntp", "publish", "connecting", "calling", "connected",
           "reading", "read"}

PublishingInit ==
    /\ stage = "idle" /\ timeSet = FALSE /\ tls = FALSE
    /\ retries = 0 /\ begin = 0 /\ waited = 0 /\ unanswered = 0
    /\ chunk = FALSE /\ limit = 0

\* What a restart of the board clears.
PublishingRestarted ==
    /\ stage' = "idle" /\ timeSet' = FALSE /\ tls' = FALSE
    /\ retries' = 0 /\ begin' = 0 /\ waited' = 0 /\ unanswered' = 0
    /\ chunk' = FALSE /\ limit' = 0

\* The locals of getCurrentTime, getNtpTime and publishToAzure.
local == <<retries, begin, waited, unanswered, chunk, limit>>

\* Slips: the end of the waiting is computed beforehand; reading has no limit.
WaitsUntil   == millis < (begin + NtpWait) % Wrap
ReadsForever == chunk'

-----------------------------------------------------------------------------
(* getCurrentTime and getNtpTime.                                          *)

StartRound ==
    /\ stage' = "time"
    /\ UNCHANGED <<timeSet, tls, local>>

\* setSyncProvider asks for the time at once.
RequestTime ==
    /\ stage = "time" /\ ~ timeSet /\ retries + 1 < NtpRetries
    /\ retries' = retries + 1
    /\ begin' = millis /\ waited' = 0
    /\ stage' = "ntp"
    /\ UNCHANGED <<wifi, timeSet, unanswered, tls, chunk, limit>>

TimeIsOver ==
    /\ stage = "time" /\ (timeSet \/ retries + 1 >= NtpRetries)
    /\ stage' = "publish"
    /\ retries' = 0 /\ begin' = 0 /\ waited' = 0
    /\ UNCHANGED <<wifi, timeSet, unanswered, tls, chunk, limit>>

\* The hour of setSyncInterval is over: asked for its status, the clock calls
\* getNtpTime once more.  It keeps its time if there is no answer.
SynchronizeAgain ==
    /\ stage = "time" /\ timeSet /\ retries = 0
    /\ stage' = "publish"
    /\ \E t \in 1 .. NtpWait : StartDelay(t)
    /\ UNCHANGED <<timeSet, tls, local>>

\* millis() - beginWait < 1500, in 32 bits.
StillWaiting == (millis + Wrap - begin) % Wrap < NtpWait

NtpResponse ==
    /\ stage = "ntp" /\ StillWaiting /\ online
    /\ timeSet' = TRUE
    /\ stage' = "time"
    /\ UNCHANGED <<wifi, tls, local>>

NtpPoll ==
    /\ stage = "ntp" /\ StillWaiting
    /\ Elapse
    /\ waited' = waited + 1
    /\ UNCHANGED <<left, stage, timeSet, retries, begin, unanswered, tls, chunk,
                   limit>>

NoNtpResponse ==
    /\ stage = "ntp" /\ ~ StillWaiting
    /\ stage' = "time"
    /\ unanswered' = unanswered + (IF waited = NtpWait THEN 1 ELSE 0)
    /\ UNCHANGED <<wifi, timeSet, retries, begin, waited, tls, chunk, limit>>

-----------------------------------------------------------------------------
(* publishToAzure.                                                         *)

\* connectToAzure begins with a delay, unless the last connection still stands.
ConnectToAzure ==
    /\ stage = "publish" /\ left = 0
    /\ IF tls THEN /\ stage' = "connected"
                   /\ UNCHANGED wifi
              ELSE /\ stage' = "connecting"
                   /\ StartDelay(ConnectDelay)
    /\ UNCHANGED <<timeSet, tls, local>>

\* tlsClient.connect: the name, the connection and the handshake take a while.
CallHost ==
    /\ stage = "connecting" /\ left = 0
    /\ online
    /\ stage' = "calling"
    /\ \E t \in 0 .. ConnectTime : StartDelay(t)
    /\ UNCHANGED <<timeSet, tls, local>>

\* Without a network connectToAzure returns at once.
NoNetwork ==
    /\ stage = "connecting" /\ left = 0
    /\ ~ online
    /\ stage' = "connected"
    /\ UNCHANGED <<wifi, timeSet, tls, local>>

HostConnected ==
    /\ stage = "calling" /\ left = 0
    /\ online
    /\ tls' = TRUE
    /\ stage' = "connected"
    /\ UNCHANGED <<wifi, timeSet, local>>

HostConnectionFails ==
    /\ stage = "calling" /\ left = 0
    /\ stage' = "connected"
    /\ StartDelay(FailureDelay)
    /\ UNCHANGED <<timeSet, tls, local>>

NotConnected ==
    /\ stage = "connected" /\ left = 0 /\ ~ tls
    /\ stage' = "read"
    /\ UNCHANGED <<wifi, timeSet, tls, local>>

\* The message, with the time the clock has, is written to the connection.
SendMessage ==
    /\ stage = "connected" /\ left = 0 /\ tls
    /\ stage' = "reading"
    /\ chunk' = FALSE /\ limit' = 1
    /\ UNCHANGED <<wifi, timeSet, retries, begin, waited, unanswered, tls>>

\* chunk.length() > 0 && ++limit < 100, where a chunk is what was read last.
GoesOnReading == chunk' /\ limit + 1 < ResponseLimit

\* A line of the response, at once or after the time-out, or nothing within
\* it; a broken connection is not read, and chunk keeps what it had.
ReadChunk ==
    /\ stage = "reading" /\ left = 0
    /\ \/ tls /\ chunk' = TRUE /\ UNCHANGED wifi
       \/ tls /\ chunk' \in BOOLEAN /\ StartDelay(ReadTimeout)
       \/ ~ tls /\ UNCHANGED <<chunk, wifi>>
    /\ stage' = IF GoesOnReading THEN "reading" ELSE "read"
    /\ limit' = IF chunk' THEN Least(limit + 1, ResponseLimit) ELSE limit
    /\ UNCHANGED <<timeSet, retries, begin, waited, unanswered, tls>>

EndRound ==
    /\ stage = "read" /\ left = 0
    /\ stage' = "idle"
    /\ chunk' = FALSE /\ limit' = 0 /\ unanswered' = 0
    /\ UNCHANGED <<timeSet, retries, begin, waited, tls>>

\* The other end closes the connection, or the network is gone.
TlsBreaks ==
    /\ tls
    /\ tls' = FALSE
    /\ UNCHANGED <<wifi, stage, timeSet, local>>
-----------------------------------------------------------------------------
PublishingTypeOK ==
    /\ stage \in Stages /\ {timeSet, tls, chunk} \subseteq BOOLEAN
    /\ retries \in 0 .. NtpRetries - 1 /\ unanswered \in 0 .. retries + NtpRetries
    /\ begin \in 0 .. Wrap - 1 /\ waited \in 0 .. NtpWait
    /\ limit \in 0 .. ResponseLimit
=============================================================================
