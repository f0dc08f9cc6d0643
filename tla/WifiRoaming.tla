----------------------------- MODULE WifiRoaming -----------------------------
(***************************************************************************)
(* How the Arduino client keeps its WiFi connection (WiFi.ino): while it is*)
(* offline it tries the configured pairs of SSID and password in turn, one *)
(* per minute, and decides that the minute is over by comparing            *)
(* LastWifiTime with millis(), which wraps.                                *)
(*                                                                         *)
(* Time passes one unit at a time, in delays and in busy waiting; the      *)
(* connection may come and go meanwhile.                                   *)
(***************************************************************************)
EXTENDS Integers

CONSTANTS wifiPairs,    \* number of SSID/password pairs
          Working,      \* the pairs with which a connection is possible
          Timeout,      \* WifiTimeoutMilliseconds
          BlockDelay,   \* delay(500)
          LoopDelay,    \* delay(250)
          OnlineTime,   \* the longest that loop() takes with a connection
          Wrap,         \* 2^32: millis() and LastWifiTime are unsigned long;
                        \* no multiple of BlockDelay + LoopDelay, so that the
                        \* looks at the clock shift with each wrap
          MaxDrops      \* bound: how often the connection is lost

ASSUME PairsAssumption == wifiPairs \in Nat \ {0} /\ Working \subseteq 0 .. wifiPairs - 1
ASSUME TimesAssumption ==
    /\ {Timeout, BlockDelay, LoopDelay, OnlineTime} \subseteq Nat \ {0}
    /\ Wrap \in Nat /\ Wrap > Timeout /\ MaxDrops \in Nat

None == -1

VARIABLES
    pairs,   \* device.wifiPairs
    millis,  \* milliseconds since the start of the board
    until,   \* LastWifiTime
    index,   \* WifiIndex
    online,  \* WiFi.status() == WL_CONNECTED
    target,  \* the pair given to WiFi.begin last
    left,    \* what is left of a delay
    since,   \* observation: time since the last attempt, up to Patience
    offline, \* observation: time without connection or attempt
    wrapped, \* observation: millis() or LastWifiTime has wrapped
    drops

wifi == <<pairs, millis, until, index, online, target, left, since, offline,
          wrapped, drops>>

\* The longest time between two looks at the connection, and between two
\* attempts.
Pause    == BlockDelay + LoopDelay
Patience == IF OnlineTime > Timeout + Pause THEN OnlineTime ELSE Timeout + Pause

Least(a, b) == IF a < b THEN a ELSE b

\* The board starts: nothing of an earlier life is left.
Restarted ==
    /\ pairs' = 0
    /\ millis' = 0 /\ until' = 0 /\ index' = 0
    /\ online' = FALSE /\ target' = None
    /\ left' = 0
    /\ since' = Timeout /\ offline' = 0 /\ wrapped' = FALSE

WifiInit ==
    /\ pairs = 0
    /\ millis = 0 /\ until = 0 /\ index = 0
    /\ online = FALSE /\ target = None
    /\ left = 0
    /\ since = Timeout /\ offline = 0 /\ wrapped = FALSE
    /\ drops = 0

\* Slips: the next attempt may come at once; the index stays, or grows on;
\* the timeout counts twice.
DueAtOnce(t)  == t
SameIndex(i)  == i
NoReset(i)    == i
BlockedLonger == until + Timeout > millis

Due(t)        == (t + Timeout) % Wrap
NextIndex(i)  == i + 1
ResetIndex(i) == IF i >= pairs THEN 0 ELSE i
Blocked       == until > millis

\* initWifi, followed by a delay, with at least one pair.
InitWifi(pause) ==
    /\ IF online
       THEN /\ left' = pause
            /\ UNCHANGED <<until, index, target, since, offline, wrapped>>
       ELSE IF Blocked
       THEN /\ left' = BlockDelay + pause
            /\ UNCHANGED <<until, index, target, since, offline, wrapped>>
       ELSE /\ target' = ResetIndex(index)
            /\ until' = Due(millis)
            /\ index' = NextIndex(ResetIndex(index))
            /\ left' = pause
            /\ since' = 0 /\ offline' = 0
            /\ wrapped' = (wrapped \/ millis + Timeout >= Wrap)
    /\ UNCHANGED <<pairs, millis, online, drops>>

\* The connection comes between the looks of loop and initWifi at it.
InitWifiJustJoined(pause) ==
    /\ ~ online /\ target \in Working
    /\ online' = TRUE
    /\ left' = pause
    /\ offline' = 0
    /\ UNCHANGED <<pairs, millis, until, index, target, since, wrapped, drops>>

\* A unit of time.
Elapse ==
    /\ millis' = (millis + 1) % Wrap
    /\ since' = Least(since + 1, Patience)
    /\ offline' = IF online THEN 0 ELSE Least(offline + 1, Patience + 1)
    /\ wrapped' = (wrapped \/ millis' = 0)
    /\ UNCHANGED <<pairs, until, index, online, target, drops>>

Delay ==
    /\ left > 0
    /\ left' = left - 1
    /\ Elapse

\* delay(t), with everything else in wifi as it is.
StartDelay(t) ==
    /\ left' = t
    /\ UNCHANGED <<pairs, millis, until, index, online, target, since, offline,
                   wrapped, drops>>

\* The radio joins the network it was given, or loses it.
Join ==
    /\ ~ online /\ target \in Working
    /\ online' = TRUE
    /\ offline' = 0
    /\ UNCHANGED <<pairs, millis, until, index, target, left, since, wrapped, drops>>

Drop ==
    /\ online
    /\ drops < MaxDrops
    /\ drops' = drops + 1
    /\ online' = FALSE
    /\ UNCHANGED <<pairs, millis, until, index, target, left, since, offline, wrapped>>
-----------------------------------------------------------------------------
\* The pair that is tried is one of those configured.
WifiTypeOK ==
    /\ pairs \in {wifiPairs, 0}
    /\ millis \in 0 .. Wrap - 1 /\ until \in 0 .. Wrap - 1
    /\ index \in 0 .. pairs
    /\ target \in 0 .. pairs - 1 \union {None}
    /\ {online, wrapped} \subseteq BOOLEAN
    /\ left \in 0 .. OnlineTime + Pause
    /\ since \in 0 .. Patience /\ offline \in 0 .. Patience + 1
    /\ drops \in 0 .. MaxDrops

\* An attempt has the whole timeout before the next one begins, as long as
\* the clock has not wrapped.
AttemptsSpaced ==
    [][since' = 0 /\ since # 0 => since >= Timeout \/ wrapped]_wifi

\* A board without a connection tries again when the timeout and a delay, or
\* the publishing that was under way, are over, again as long as the clock
\* has not wrapped.
RetriedInTime == wrapped \/ offline <= Patience

\* "WifiTimeoutMilliseconds = 60000;  // 60 seconds": the same at any time.
RetriedAlwaysInTime == offline <= Patience
=============================================================================
