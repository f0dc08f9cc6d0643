---------------------------- MODULE BackEnd_proofs ----------------------------
(***************************************************************************)
(* Theorems about the simulated device and the back end, for any number of *)
(* invocations and of questions on their way.  The argument: all timers    *)
(* last equally long, so they form a queue; of two updates at the same     *)
(* stage the one that started first is further ahead in it, hence the next *)
(* to move on.                                                             *)
(***************************************************************************)
EXTENDS BackEnd, TLAPS

USE MethodsAssumption, BoundsAssumption, PollsAssumption
USE DEF None

\* An update starts once, and has a stage from then on.
StartedOnce == IsInjective(started)
StartedHaveStage ==
    \A c \in Calls : stage[c] > 0 <=> \E i \in DOMAIN started : started[i] = c

\* A call asks for the twin before its update starts, and was made before.
AskingNotStarted == \A c \in asking : stage[c] = 0
CallsMade == \A c \in Calls : c \in asking \/ stage[c] > 0 => c <= Len(calls)

\* The timers are those of the updates under way.
Queued ==
    /\ \A p \in DOMAIN timers : stage[timers[p]] \in 1 .. 5
    /\ \A c \in Calls : stage[c] \in 1 .. 5 => \E p \in DOMAIN timers : timers[p] = c
    /\ IsInjective(timers)

\* Of two updates at the same stage the first to start has the first timer.
SameStageInOrder ==
    \A i, j \in DOMAIN started, p, q \in DOMAIN timers :
        /\ i < j
        /\ timers[p] = started[i] /\ timers[q] = started[j]
        /\ stage[started[i]] = stage[started[j]]
        => p < q

IInv == /\ TypeOK /\ StartedOnce /\ StartedHaveStage /\ AskingNotStarted /\ CallsMade
        /\ Queued /\ NoOvertaking /\ SameStageInOrder

\* An element and what is appended to it.
LEMMA AppendFacts ==
    ASSUME NEW S, NEW s \in Seq(S), NEW e \in S
    PROVE  /\ Append(s, e) \in Seq(S)
           /\ DOMAIN Append(s, e) = 1 .. Len(s) + 1
           /\ DOMAIN s = 1 .. Len(s) /\ Len(s) \in Nat
           /\ \A i \in 1 .. Len(s) : Append(s, e)[i] = s[i] /\ s[i] \in S
           /\ Append(s, e)[Len(s) + 1] = e
OBVIOUS

\* The head and the rest.
LEMMA TailFacts ==
    ASSUME NEW S, NEW s \in Seq(S), s # <<>>
    PROVE  /\ Tail(s) \in Seq(S) /\ Head(s) = s[1]
           /\ DOMAIN s = 1 .. Len(s) /\ Len(s) \in Nat \ {0}
           /\ DOMAIN Tail(s) = 1 .. Len(s) - 1
           /\ Len(Tail(s)) = Len(s) - 1
           /\ \A i \in 1 .. Len(s) - 1 : Tail(s)[i] = s[i + 1]
           /\ \A i \in 1 .. Len(s) : s[i] \in S
OBVIOUS

\* There are six stages.
LEMMA StageFacts ==
    /\ Len(Stages) = 6
    /\ \A n \in 1 .. 6 : Stages[n] \in ToSet(Stages)
    /\ \A n \in 1 .. 6 : Stages[n] = "over" <=> n = 6
<1>1. Len(Stages) = 6 /\ DOMAIN Stages = 1 .. 6
  BY DEF Stages
<1>2. \A n \in 1 .. 6 : Stages[n] = "over" <=> n = 6
  BY DEF Stages
<1>q. QED
  BY <1>1, <1>2 DEF ToSet

-----------------------------------------------------------------------------
\* No call is made at the start.
LEMMA InitIInv == Init => IInv
<1> SUFFICES ASSUME Init PROVE IInv
  OBVIOUS
<1>1. /\ calls = <<>> /\ timers = <<>> /\ reports = <<>> /\ started = <<>>
      /\ stage = [c \in Calls |-> 0]
      /\ responding = {} /\ asking = {} /\ process = "opening"
  BY DEF Init
<1>2. TypeOK
  <2>1. 0 \in 0 .. Len(Stages)
    BY StageFacts
  <2>2. stage \in [Calls -> 0 .. Len(Stages)]
    BY <1>1, <2>1
  <2>3. twin \in [uri : Calls \union {None},
                  status : ToSet(Stages) \union {"none"},
                  reboot : Calls \union {None}]
    BY DEF Init
  <2>q. QED
    BY <1>1, <2>2, <2>3 DEF TypeOK
<1>q. QED
  BY <1>1, <1>2 DEF IInv, StartedOnce, StartedHaveStage, AskingNotStarted, CallsMade,
                    Queued, NoOvertaking, SameStageInOrder, IsInjective

\* What an update reports as it enters a stage.
LEMMA EnterType ==
    ASSUME TypeOK, NEW c \in Calls, NEW n \in 1 .. 6, Enter(c, n)
    PROVE  /\ reports' \in Seq(Report)
           /\ stage' \in [Calls -> 0 .. Len(Stages)]
           /\ stage'[c] = n
           /\ \A d \in Calls : d # c => stage'[d] = stage[d]
<1>1. stage \in [Calls -> 0 .. 6] /\ n \in 0 .. 6 /\ Len(Stages) = 6
  BY StageFacts DEF TypeOK
<1>2. stage' = [stage EXCEPT ![c] = n]
  BY DEF Enter
<1>3. [call |-> c, what |-> Stages[n]] \in Report
  BY StageFacts DEF Report
<1>4. reports' \in Seq(Report)
  BY <1>3, AppendFacts DEF Enter, TypeOK
<1>q. QED
  BY <1>1, <1>2, <1>4

\* A call that is made is a new one.
LEMMA InvokeIInv ==
    ASSUME IInv, NEW m \in Registered, Invoke(m)
    PROVE  IInv'
<1>1. /\ calls \in Seq(Registered) /\ Len(calls) + 1 \in Calls
      /\ calls' = Append(calls, m)
      /\ UNCHANGED <<process, timers, reports, twin, stage, started>>
      /\ responding' = responding \union {Len(calls) + 1}
      /\ asking' \subseteq asking \union {Len(calls) + 1}
  BY DEF Invoke, IInv, TypeOK
<1>2. calls' \in Seq(Registered) /\ Len(calls') = Len(calls) + 1 /\ Len(calls) \in Nat
  BY <1>1, AppendFacts
<1>3. TypeOK'
  <2>1. TypeOK
    BY DEF IInv
  <2>2. Len(calls') <= MaxCalls
    BY <1>1, <1>2 DEF Calls
  <2>3. responding' \subseteq Calls /\ asking' \subseteq Calls
    BY <1>1, <2>1 DEF TypeOK
  <2>q. QED
    BY <1>1, <1>2, <2>1, <2>2, <2>3 DEF TypeOK
<1>4. stage[Len(calls) + 1] = 0
  <2>1. stage[Len(calls) + 1] \in 0 .. 6
    BY <1>1, StageFacts DEF IInv, TypeOK
  <2>q. QED
    BY <1>1, <1>2, <2>1 DEF IInv, CallsMade, Calls
<1>5. AskingNotStarted' /\ CallsMade'
  BY <1>1, <1>2, <1>4 DEF IInv, AskingNotStarted, CallsMade, Calls
<1>q. QED
  BY <1>1, <1>3, <1>5 DEF IInv, StartedOnce, StartedHaveStage, Queued, NoOvertaking,
                          SameStageInOrder

\* An update that starts is last in the order and in the queue.
LEMMA StartIInv ==
    ASSUME IInv, NEW c \in asking, StartUpdate(c), asking' = asking \ {c},
           UNCHANGED <<process, calls, responding, twin>>
    PROVE  IInv'
<1> USE DEF IInv
<1>1. /\ c \in Calls /\ stage[c] = 0 /\ Enter(c, 1)
      /\ timers' = Append(timers, c) /\ started' = Append(started, c)
      /\ timers \in Seq(Calls) /\ started \in Seq(Calls)
      /\ stage \in [Calls -> 0 .. 6]
  BY StageFacts DEF StartUpdate, SetTimer, TypeOK, AskingNotStarted
<1>2. /\ reports' \in Seq(Report) /\ stage' \in [Calls -> 0 .. Len(Stages)]
      /\ stage'[c] = 1 /\ \A d \in Calls : d # c => stage'[d] = stage[d]
  <2>1. TypeOK /\ c \in Calls /\ 1 \in 1 .. 6 /\ Enter(c, 1)
    BY <1>1
  <2>q. QED
    BY <2>1, EnterType
<1>3. /\ timers' \in Seq(Calls) /\ started' \in Seq(Calls)
      /\ DOMAIN timers = 1 .. Len(timers) /\ DOMAIN timers' = 1 .. Len(timers) + 1
      /\ DOMAIN started = 1 .. Len(started) /\ DOMAIN started' = 1 .. Len(started) + 1
      /\ Len(timers) \in Nat /\ Len(started) \in Nat
      /\ \A p \in DOMAIN timers : timers'[p] = timers[p] /\ timers[p] \in Calls
      /\ \A i \in DOMAIN started : started'[i] = started[i] /\ started[i] \in Calls
      /\ timers'[Len(timers) + 1] = c /\ started'[Len(started) + 1] = c
  BY <1>1, AppendFacts
<1>d. /\ Len(timers) + 1 \in DOMAIN timers' /\ Len(started) + 1 \in DOMAIN started'
      /\ \A p \in DOMAIN timers' : p \in DOMAIN timers \/ p = Len(timers) + 1
      /\ \A i \in DOMAIN started' : i \in DOMAIN started \/ i = Len(started) + 1
      /\ DOMAIN timers \subseteq Nat /\ DOMAIN started \subseteq Nat
  BY <1>3
<1>4. /\ \A i \in DOMAIN started : started[i] # c /\ stage[started[i]] >= 1
      /\ \A p \in DOMAIN timers : timers[p] # c
  <2>1. \A d \in Calls : stage[d] \in 0 .. 6
    BY <1>1
  <2>2. \A i \in DOMAIN started : stage[started[i]] > 0
    BY <1>3 DEF StartedHaveStage
  <2>3. \A i \in DOMAIN started : stage[started[i]] >= 1
    BY <1>3, <2>1, <2>2
  <2>4. \A i \in DOMAIN started : started[i] # c
    BY <1>1, <2>2
  <2>5. \A p \in DOMAIN timers : timers[p] # c
    <3>1. \A p \in DOMAIN timers : stage[timers[p]] \in 1 .. 5
      BY DEF Queued
    <3>2. 0 \notin 1 .. 5
      OBVIOUS
    <3>q. QED
      BY <1>1, <3>1, <3>2
  <2>q. QED
    BY <2>3, <2>4, <2>5
<1>5. TypeOK'
  BY <1>1, <1>2, <1>3 DEF TypeOK
<1>6. StartedOnce'
  BY <1>3, <1>4 DEF StartedOnce, IsInjective
<1>7. StartedHaveStage'
  <2> SUFFICES ASSUME NEW d \in Calls
               PROVE  stage'[d] > 0 <=> \E i \in DOMAIN started' : started'[i] = d
    BY DEF StartedHaveStage
  <2>1. CASE d = c
    <3>1. stage'[d] > 0
      BY <1>2, <2>1
    <3>2. \E i \in DOMAIN started' : started'[i] = d
      BY <1>3, <1>d, <2>1
    <3>q. QED
      BY <3>1, <3>2
  <2>2. CASE d # c
    <3>1. stage'[d] > 0 <=> \E i \in DOMAIN started : started[i] = d
      BY <1>2, <2>2 DEF StartedHaveStage
    <3>q. QED
      BY <1>3, <2>2, <3>1
  <2>q. QED
    BY <2>1, <2>2
<1>8. AskingNotStarted' /\ CallsMade'
  BY <1>1, <1>2 DEF AskingNotStarted, CallsMade, TypeOK
<1>9. Queued'
  <2>1. \A p \in DOMAIN timers' : stage'[timers'[p]] \in 1 .. 5
    <3> SUFFICES ASSUME NEW p \in DOMAIN timers' PROVE stage'[timers'[p]] \in 1 .. 5
      OBVIOUS
    <3>1. CASE p = Len(timers) + 1
      BY <1>2, <1>3, <3>1
    <3>2. CASE p \in DOMAIN timers
      BY <1>2, <1>3, <1>4, <3>2 DEF Queued
    <3>q. QED
      BY <1>d, <3>1, <3>2
  <2>2. \A d \in Calls : stage'[d] \in 1 .. 5 => \E p \in DOMAIN timers' : timers'[p] = d
    <3> SUFFICES ASSUME NEW d \in Calls, stage'[d] \in 1 .. 5
                 PROVE  \E p \in DOMAIN timers' : timers'[p] = d
      OBVIOUS
    <3>1. CASE d = c
      BY <1>3, <3>1
    <3>2. CASE d # c
      <4>1. PICK p \in DOMAIN timers : timers[p] = d
        BY <1>2, <3>2 DEF Queued
      <4>q. QED
        BY <1>3, <4>1
    <3>q. QED
      BY <3>1, <3>2
  <2>3. IsInjective(timers')
    BY <1>3, <1>4 DEF Queued, IsInjective
  <2>q. QED
    BY <2>1, <2>2, <2>3 DEF Queued
<1>10. NoOvertaking'
  <2> SUFFICES ASSUME NEW i \in DOMAIN started', NEW j \in DOMAIN started', i < j
               PROVE  stage'[started'[i]] >= stage'[started'[j]]
    BY DEF NoOvertaking
  <2>1. i \in DOMAIN started /\ stage'[started'[i]] = stage[started[i]]
    BY <1>2, <1>3, <1>4
  <2>2. CASE j = Len(started) + 1
    BY <1>2, <1>3, <1>4, <2>1, <2>2
  <2>3. CASE j # Len(started) + 1
    <3>1. j \in DOMAIN started
      BY <1>d, <2>3
    <3>2. stage'[started'[j]] = stage[started[j]]
      BY <1>2, <1>3, <1>4, <3>1
    <3>q. QED
      BY <2>1, <3>1, <3>2 DEF NoOvertaking
  <2>q. QED
    BY <2>2, <2>3
<1>11. SameStageInOrder'
  <2> SUFFICES ASSUME NEW i \in DOMAIN started', NEW j \in DOMAIN started',
                      NEW p \in DOMAIN timers', NEW q \in DOMAIN timers', i < j,
                      timers'[p] = started'[i], timers'[q] = started'[j],
                      stage'[started'[i]] = stage'[started'[j]]
               PROVE  p < q
    BY DEF SameStageInOrder
  <2>1. i \in DOMAIN started /\ started'[i] = started[i] /\ started[i] # c
    BY <1>3, <1>4
  <2>2. p \in DOMAIN timers
    BY <1>3, <2>1
  <2>3. CASE q = Len(timers) + 1
    BY <1>3, <2>2, <2>3
  <2>4. CASE q # Len(timers) + 1
    <3>1. q \in DOMAIN timers /\ timers'[q] # c
      BY <1>3, <1>4, <2>4
    <3>2. j \in DOMAIN started /\ started'[j] = started[j]
      BY <1>3, <3>1
    <3>3. timers[p] = started[i] /\ timers[q] = started[j]
      BY <1>3, <2>1, <2>2, <3>1, <3>2
    <3>4. stage[started[i]] = stage[started[j]]
      BY <1>2, <1>3, <1>4, <2>1, <3>2
    <3>q. QED
      BY <2>1, <2>2, <3>1, <3>2, <3>3, <3>4 DEF SameStageInOrder
  <2>q. QED
    BY <2>3, <2>4
<1>q. QED
  BY <1>5, <1>6, <1>7, <1>8, <1>9, <1>10, <1>11

\* The timer that fires is the one of the update that started first among
\* those at its stage: it catches up with none that started before.
LEMMA TimerIInv ==
    ASSUME IInv, TimerFires
    PROVE  IInv'
<1> USE DEF IInv
<1> DEFINE c == Head(timers)
           n == stage[c] + 1
           L == Len(timers)
<1>1. /\ timers \in Seq(Calls) /\ timers # <<>> /\ stage \in [Calls -> 0 .. 6]
      /\ started \in Seq(Calls)
  BY StageFacts DEF TypeOK, TimerFires
<1>2. /\ L \in Nat \ {0} /\ DOMAIN timers = 1 .. L /\ c = timers[1] /\ c \in Calls
      /\ Tail(timers) \in Seq(Calls) /\ Len(Tail(timers)) = L - 1
      /\ \A p \in 1 .. L - 1 : Tail(timers)[p] = timers[p + 1]
  BY <1>1, TailFacts
<1>3. stage[c] \in 1 .. 5 /\ n \in 2 .. 6 /\ 1 \in DOMAIN timers
  <2>1. 1 \in DOMAIN timers
    BY <1>2
  <2>2. stage[c] \in 1 .. 5
    BY <1>2, <2>1 DEF Queued
  <2>q. QED
    BY <2>1, <2>2
<1>4. /\ Enter(c, n)
      /\ timers' = IF n = 6 THEN Tail(timers) ELSE Append(Tail(timers), c)
      /\ UNCHANGED <<process, calls, responding, asking, twin, started>>
  <2>1. Stages[n] = "over" <=> n = 6
    BY <1>3, StageFacts
  <2>q. QED
    BY <2>1 DEF TimerFires, SetTimer
<1>5. /\ reports' \in Seq(Report) /\ stage' \in [Calls -> 0 .. Len(Stages)]
      /\ stage'[c] = n /\ \A d \in Calls : d # c => stage'[d] = stage[d]
  <2>1. TypeOK /\ c \in Calls /\ n \in 1 .. 6 /\ Enter(c, n)
    BY <1>2, <1>3, <1>4
  <2>q. QED
    BY <2>1, EnterType
<1>i. \A p, q \in DOMAIN timers : timers[p] = timers[q] => p = q
  BY DEF Queued, IsInjective
<1> HIDE DEF c, n, L
<1>6. /\ timers' \in Seq(Calls)
      /\ \A p \in DOMAIN timers' :
            \/ p \in 1 .. L - 1 /\ timers'[p] = timers[p + 1]
            \/ n # 6 /\ p = L /\ timers'[p] = c
      /\ \A p \in 1 .. L - 1 : p \in DOMAIN timers' /\ timers'[p] = timers[p + 1]
      /\ n # 6 => L \in DOMAIN timers' /\ timers'[L] = c
  <2>1. CASE n = 6
    BY <1>2, <1>4, <2>1
  <2>2. CASE n # 6
    <3>1. /\ timers' \in Seq(Calls) /\ DOMAIN timers' = 1 .. (L - 1) + 1
          /\ \A p \in 1 .. L - 1 : timers'[p] = Tail(timers)[p]
          /\ timers'[(L - 1) + 1] = c
      BY <1>2, <1>4, <2>2, AppendFacts
    <3>2. (L - 1) + 1 = L
      BY <1>2
    <3>3. DOMAIN timers' = 1 .. L /\ timers'[L] = c
      BY <3>1, <3>2
    <3>4. \A p \in 1 .. L : p \in 1 .. L - 1 \/ p = L
      BY <1>2
    <3>5. L \in 1 .. L /\ \A p \in 1 .. L - 1 : p \in 1 .. L
      BY <1>2
    <3>q. QED
      BY <1>2, <2>2, <3>1, <3>3, <3>4, <3>5
  <2>q. QED
    BY <2>1, <2>2
<1>7. \A p \in 1 .. L - 1 : p + 1 \in DOMAIN timers /\ timers[p + 1] # c /\ timers[p + 1] \in Calls
  <2> SUFFICES ASSUME NEW p \in 1 .. L - 1
               PROVE  p + 1 \in DOMAIN timers /\ timers[p + 1] # c /\ timers[p + 1] \in Calls
    OBVIOUS
  <2>1. p + 1 \in DOMAIN timers /\ p + 1 # 1
    BY <1>2
  <2>q. QED
    BY <1>1, <1>2, <1>3, <1>i, <2>1
<1>8. \A p \in DOMAIN timers : timers[p] # c => p - 1 \in 1 .. L - 1 /\ (p - 1) + 1 = p
  BY <1>2
<1>9. TypeOK'
  BY <1>4, <1>5, <1>6 DEF TypeOK
<1>10. StartedOnce'
  BY <1>4 DEF StartedOnce
<1>11. StartedHaveStage'
  <2> SUFFICES ASSUME NEW d \in Calls
               PROVE  stage'[d] > 0 <=> \E i \in DOMAIN started : started[i] = d
    BY <1>4 DEF StartedHaveStage
  <2>1. stage[d] > 0 <=> stage'[d] > 0
    <3>1. CASE d = c
      BY <1>3, <1>5, <3>1
    <3>2. CASE d # c
      BY <1>5, <3>2
    <3>q. QED
      BY <3>1, <3>2
  <2>q. QED
    BY <2>1 DEF StartedHaveStage
<1>12. AskingNotStarted' /\ CallsMade'
  <2>1. c \notin asking
    BY <1>3 DEF AskingNotStarted
  <2>2. asking \subseteq Calls
    BY DEF TypeOK
  <2>3. AskingNotStarted'
    BY <1>4, <1>5, <2>1, <2>2 DEF AskingNotStarted
  <2>4. c <= Len(calls)
    BY <1>2, <1>3 DEF CallsMade
  <2>5. CallsMade'
    BY <1>4, <1>5, <2>4 DEF CallsMade
  <2>q. QED
    BY <2>3, <2>5
<1>13. Queued'
  <2>1. ASSUME NEW p \in DOMAIN timers' PROVE stage'[timers'[p]] \in 1 .. 5
    <3>1. CASE n # 6 /\ timers'[p] = c
      BY <1>3, <1>5, <3>1
    <3>2. CASE p \in 1 .. L - 1 /\ timers'[p] = timers[p + 1]
      <4>1. stage[timers[p + 1]] \in 1 .. 5
        BY <1>7, <3>2 DEF Queued
      <4>q. QED
        BY <1>5, <1>7, <3>2, <4>1
    <3>q. QED
      BY <1>6, <3>1, <3>2
  <2>2. ASSUME NEW d \in Calls, stage'[d] \in 1 .. 5 PROVE \E p \in DOMAIN timers' : timers'[p] = d
    <3>1. CASE d = c
      BY <1>5, <1>6, <2>2, <3>1
    <3>2. CASE d # c
      <4>1. PICK p \in DOMAIN timers : timers[p] = d
        BY <1>5, <2>2, <3>2 DEF Queued
      <4>2. p - 1 \in 1 .. L - 1 /\ (p - 1) + 1 = p
        BY <1>8, <3>2, <4>1
      <4>3. p - 1 \in DOMAIN timers' /\ timers'[p - 1] = d
        BY <1>6, <4>1, <4>2
      <4>q. QED
        BY <4>3
    <3>q. QED
      BY <3>1, <3>2
  <2>3. ASSUME NEW p \in DOMAIN timers', NEW q \in DOMAIN timers', timers'[p] = timers'[q]
        PROVE  p = q
    <3>1. CASE p \in 1 .. L - 1 /\ q \in 1 .. L - 1
      <4>1. p + 1 = q + 1
        BY <1>6, <1>7, <1>i, <2>3, <3>1
      <4>q. QED
        BY <1>2, <3>1, <4>1
    <3>2. CASE ~ (p \in 1 .. L - 1 /\ q \in 1 .. L - 1)
      BY <1>6, <1>7, <2>3, <3>2
    <3>q. QED
      BY <3>1, <3>2
  <2>q. QED
    BY <2>1, <2>2, <2>3 DEF Queued, IsInjective
<1>14. \A i \in DOMAIN started : started[i] \in Calls /\ i \in Nat
  BY <1>1
<1>15. \A i, j \in DOMAIN started : i < j => started[i] # started[j]
  BY <1>14 DEF StartedOnce, IsInjective
<1>16. \A d \in Calls : stage[d] \in 0 .. 6
  BY <1>1
<1>17. ASSUME NEW i \in DOMAIN started, NEW j \in DOMAIN started, i < j, started[j] = c
       PROVE  stage[started[i]] >= n
  <2>1. stage[started[i]] >= stage[c]
    BY <1>17 DEF NoOvertaking
  <2>2. ASSUME stage[started[i]] = stage[c] PROVE FALSE
    <3>1. PICK p \in DOMAIN timers : timers[p] = started[i]
      BY <1>3, <1>14, <2>2 DEF Queued
    <3>2. p < 1
      BY <1>2, <1>3, <1>17, <2>2, <3>1 DEF SameStageInOrder
    <3>q. QED
      BY <1>2, <3>2
  <2>3. n = stage[c] + 1
    BY DEF n
  <2>4. stage[started[i]] \in 0 .. 6 /\ stage[c] \in 0 .. 6
    BY <1>2, <1>14, <1>16
  <2>q. QED
    BY <2>1, <2>2, <2>3, <2>4
<1>18. ASSUME NEW i \in DOMAIN started, NEW j \in DOMAIN started, i < j, started[i] = c
       PROVE  stage[started[j]] < n /\ started[j] # c
  <2>1. stage[started[j]] <= stage[c]
    <3>1. stage[started[i]] >= stage[started[j]]
      BY <1>18 DEF NoOvertaking
    <3>q. QED
      BY <1>14, <1>16, <1>18, <3>1
  <2>2. stage[started[j]] \in 0 .. 6 /\ stage[c] \in 0 .. 6
    BY <1>2, <1>14, <1>16
  <2>q. QED
    BY <1>15, <1>18, <2>1, <2>2 DEF n
<1>19. NoOvertaking'
  <2> SUFFICES ASSUME NEW i \in DOMAIN started, NEW j \in DOMAIN started, i < j
               PROVE  stage'[started[i]] >= stage'[started[j]]
    BY <1>4 DEF NoOvertaking
  <2>1. CASE started[j] = c
    BY <1>5, <1>14, <1>15, <1>17, <2>1
  <2>2. CASE started[i] = c
    <3>1. stage'[started[i]] = n /\ stage'[started[j]] = stage[started[j]]
      BY <1>5, <1>14, <1>18, <2>2
    <3>2. stage[started[j]] < n /\ stage[started[j]] \in 0 .. 6
      BY <1>14, <1>16, <1>18, <2>2
    <3>q. QED
      BY <1>3, <3>1, <3>2
  <2>3. CASE started[i] # c /\ started[j] # c
    BY <1>5, <1>14, <2>3 DEF NoOvertaking
  <2>q. QED
    BY <2>1, <2>2, <2>3
<1>20. SameStageInOrder'
  <2> SUFFICES ASSUME NEW i \in DOMAIN started, NEW j \in DOMAIN started,
                      NEW p \in DOMAIN timers', NEW q \in DOMAIN timers', i < j,
                      timers'[p] = started[i], timers'[q] = started[j],
                      stage'[started[i]] = stage'[started[j]]
               PROVE  p < q
    BY <1>4 DEF SameStageInOrder
  <2>1. CASE started[i] = c
    <3>1. stage'[started[i]] = n /\ stage'[started[j]] = stage[started[j]]
      BY <1>5, <1>14, <1>18, <2>1
    <3>2. stage[started[j]] < n /\ stage[started[j]] \in 0 .. 6
      BY <1>14, <1>16, <1>18, <2>1
    <3>3. stage[started[j]] = n
      BY <3>1
    <3>4. n < n /\ n \in Int
      BY <1>3, <3>2, <3>3
    <3>q. QED
      BY <3>4
  <2>2. CASE started[i] # c /\ started[j] = c
    <3>1. p \in 1 .. L - 1
      BY <1>6, <2>2
    <3>2. q = L
      BY <1>6, <1>7, <2>2
    <3>q. QED
      BY <1>2, <3>1, <3>2
  <2>3. CASE started[i] # c /\ started[j] # c
    <3>1. /\ p \in 1 .. L - 1 /\ timers[p + 1] = started[i]
          /\ q \in 1 .. L - 1 /\ timers[q + 1] = started[j]
      BY <1>6, <2>3
    <3>2. stage[started[i]] = stage[started[j]]
      BY <1>5, <1>14, <2>3
    <3>3. p + 1 \in DOMAIN timers /\ q + 1 \in DOMAIN timers
      BY <1>7, <3>1
    <3>a. \A k, m \in DOMAIN timers :
              timers[k] = started[i] /\ timers[m] = started[j] => k < m
      BY <3>2 DEF SameStageInOrder
    <3>4. p + 1 < q + 1
      BY <3>1, <3>3, <3>a
    <3>q. QED
      BY <1>2, <3>1, <3>4
  <2>q. QED
    BY <2>1, <2>2, <2>3
<1>q. QED
  BY <1>9, <1>10, <1>11, <1>12, <1>13, <1>19, <1>20

-----------------------------------------------------------------------------
\* A step of the device or of the job on it.
DeviceNext == Next \/ Invoke("lockDoor")

\* The steps that leave updates, timers and calls alone.
LEMMA OtherIInv ==
    ASSUME IInv, TypeOK', UNCHANGED <<calls, timers, stage, started>>, asking' \subseteq asking
    PROVE  IInv'
BY DEF IInv, StartedOnce, StartedHaveStage, AskingNotStarted, CallsMade, Queued, NoOvertaking,
       SameStageInOrder

\* What the hub merges keeps the twin's type.
LEMMA MergedType ==
    ASSUME TypeOK, reports # <<>>
    PROVE  Merged(twin, Head(reports)) \in [uri : Calls \union {None},
                                           status : ToSet(Stages) \union {"none"},
                                           reboot : Calls \union {None}]
<1> DEFINE r == Head(reports)
<1>1. r \in Report
  BY TailFacts DEF TypeOK
<1>2. r.call \in Calls /\ r.what \in ToSet(Stages) \union {"reboot"}
  BY <1>1 DEF Report
<1>3. twin \in [uri : Calls \union {None}, status : ToSet(Stages) \union {"none"},
               reboot : Calls \union {None}]
  BY DEF TypeOK
<1>q. QED
  BY <1>2, <1>3 DEF Merged

\* Every step of the device keeps the invariant.
LEMMA StepIInv == IInv /\ [DeviceNext]_vars => IInv'
<1> SUFFICES ASSUME IInv, [DeviceNext]_vars PROVE IInv'
  OBVIOUS
<1>t. TypeOK
  BY DEF IInv
<1>1. ASSUME NEW ok \in BOOLEAN, Opened(ok) PROVE IInv'
  <2>1. TypeOK'
    BY <1>t, <1>1 DEF Opened, TypeOK
  <2>q. QED
    BY <1>1, <2>1, OtherIInv DEF Opened
<1>2. ASSUME NEW m \in Registered, Invoke(m) PROVE IInv'
  BY <1>2, InvokeIInv
<1>3. CASE InvokeMalformed
  <2>1. TypeOK'
    BY <1>t, <1>3 DEF InvokeMalformed, TypeOK
  <2>q. QED
    BY <1>3, <2>1, OtherIInv DEF InvokeMalformed
<1>4. ASSUME NEW d \in responding, NEW ok \in BOOLEAN, ResponseSent(d, ok) PROVE IInv'
  <2>1. TypeOK'
    BY <1>t, <1>4 DEF ResponseSent, TypeOK
  <2>q. QED
    BY <1>4, <2>1, OtherIInv DEF ResponseSent
<1>5. ASSUME NEW d \in asking, TwinAcquired(d) PROVE IInv'
  <2>1. CASE calls[d] = "reboot"
    <3>1. /\ reports' = Append(reports, [call |-> d, what |-> "reboot"])
          /\ asking' = asking \ {d}
          /\ UNCHANGED <<process, calls, responding, timers, twin, stage, started>>
      BY <1>5, <2>1 DEF TwinAcquired
    <3>2. [call |-> d, what |-> "reboot"] \in Report
      BY <1>t DEF TypeOK, Report
    <3>3. reports' \in Seq(Report)
      BY <1>t, <3>1, <3>2, AppendFacts DEF TypeOK
    <3>4. TypeOK'
      BY <1>t, <3>1, <3>3 DEF TypeOK
    <3>q. QED
      BY <3>1, <3>4, OtherIInv
  <2>2. CASE calls[d] # "reboot"
    BY <1>5, <2>2, StartIInv DEF TwinAcquired
  <2>q. QED
    BY <2>1, <2>2
<1>6. ASSUME NEW d \in asking, TwinRefused(d) PROVE IInv'
  <2>1. TypeOK'
    BY <1>t, <1>6 DEF TwinRefused, TypeOK
  <2>q. QED
    BY <1>6, <2>1, OtherIInv DEF TwinRefused
<1>7. CASE TimerFires
  BY <1>7, TimerIInv
<1>8. CASE Reported
  <2>1. /\ reports # <<>> /\ reports' = Tail(reports)
        /\ twin' = Merged(twin, Head(reports))
        /\ UNCHANGED <<process, calls, responding, asking, timers, stage, started>>
    BY <1>8 DEF Reported
  <2>2. reports' \in Seq(Report)
    BY <1>t, <2>1, TailFacts DEF TypeOK
  <2>3. TypeOK'
    BY <1>t, <2>1, <2>2, MergedType DEF TypeOK
  <2>q. QED
    BY <2>1, <2>3, OtherIInv
<1>9. CASE ReportFails
  <2>1. TypeOK'
    BY <1>t, <1>9 DEF ReportFails, TypeOK
  <2>q. QED
    BY <1>9, <2>1, OtherIInv DEF ReportFails
<1>10. CASE UNCHANGED vars
  <2>1. TypeOK'
    BY <1>t, <1>10 DEF vars, TypeOK
  <2>q. QED
    BY <1>10, <2>1, OtherIInv DEF vars
<1>q. QED
  BY <1>1, <1>2, <1>3, <1>4, <1>5, <1>6, <1>7, <1>8, <1>9, <1>10
     DEF DeviceNext, Next, Registered

-----------------------------------------------------------------------------
(* What the twin tells once the reports on their way have been merged.     *)

\* Its status is s: that of the last report which is not about a reboot.
FinalStatus(s) ==
    \/ \E p \in DOMAIN reports :
          /\ reports[p].what = s /\ s # "reboot"
          /\ \A q \in DOMAIN reports : q > p => reports[q].what = "reboot"
    \/ twin.status = s /\ \A q \in DOMAIN reports : reports[q].what = "reboot"

\* Its package is that of update c: the last to begin waiting.
FinalUri(c) ==
    \/ \E p \in DOMAIN reports :
          /\ reports[p].what = "waiting" /\ reports[p].call = c
          /\ \A q \in DOMAIN reports : q > p => reports[q].what # "waiting"
    \/ twin.uri = c /\ \A q \in DOMAIN reports : reports[q].what # "waiting"

\* The last to enter a stage has the last timer; the last of all to move on
\* had applied its package, without anything to report after that.
LastStage == IF timers = <<>> THEN 5 ELSE stage[timers[Len(timers)]]

\* The twin will tell the stage entered last and the update started last.
TwinFollows ==
    started # <<>> => FinalStatus(Stages[LastStage]) /\ FinalUri(started[Len(started)])

\* A report of a reboot changes neither.
LEMMA RebootReported ==
    ASSUME TypeOK, NEW c \in Calls, TwinFollows,
           reports' = Append(reports, [call |-> c, what |-> "reboot"]),
           UNCHANGED <<timers, stage, started, twin>>
    PROVE  TwinFollows'
<1> DEFINE e == [call |-> c, what |-> "reboot"]
           L == Len(reports)
<1>1. /\ DOMAIN reports = 1 .. L /\ L \in Nat
      /\ DOMAIN reports' = 1 .. L + 1
      /\ \A i \in 1 .. L : reports'[i] = reports[i]
      /\ reports'[L + 1] = e
  <2>1. reports \in Seq(Report) /\ e \in Report
    BY DEF TypeOK, Report
  <2> HIDE DEF e
  <2>q. QED
    BY <2>1, AppendFacts DEF e
<1>2. \A q \in DOMAIN reports' : q \in DOMAIN reports \/ reports'[q].what = "reboot"
  BY <1>1
<1>3. \A p \in DOMAIN reports : p \in DOMAIN reports' /\ reports'[p] = reports[p]
  BY <1>1
<1>4. \A s : FinalStatus(s) => FinalStatus(s)'
  BY <1>2, <1>3 DEF FinalStatus
<1>5. \A d : FinalUri(d) => FinalUri(d)'
  BY <1>2, <1>3 DEF FinalUri
<1>6. PICK s, d : s = Stages[LastStage] /\ d = started[Len(started)]
  OBVIOUS
<1>7. started # <<>> => FinalStatus(s)' /\ FinalUri(d)'
  BY <1>4, <1>5, <1>6 DEF TwinFollows
<1>8. LastStage' = LastStage /\ Stages' = Stages
  BY DEF LastStage, Stages
<1>9. started # <<>> => FinalStatus(Stages[LastStage])' /\ FinalUri(started[Len(started)])'
  BY <1>6, <1>7, <1>8 DEF FinalStatus, FinalUri
<1>q. QED
  BY <1>9 DEF TwinFollows

\* An update that enters a stage says so last.
LEMMA StageReported ==
    ASSUME TypeOK, NEW c \in Calls, NEW n \in 1 .. 5, Enter(c, n), twin' = twin
    PROVE  /\ FinalStatus(Stages[n])'
           /\ n = 1 => FinalUri(c)'
           /\ n # 1 => \A d : FinalUri(d) => FinalUri(d)'
<1> DEFINE e == [call |-> c, what |-> Stages[n]]
           L == Len(reports)
<1>1. /\ Stages[n] # "over" /\ Stages[n] # "reboot"
      /\ Stages[n] = "waiting" <=> n = 1
      /\ e \in Report
  <2>1. /\ Stages[n] # "over" /\ Stages[n] # "reboot"
        /\ Stages[n] = "waiting" <=> n = 1
    BY DEF Stages
  <2>2. n \in 1 .. 6
    OBVIOUS
  <2>q. QED
    BY <2>1, <2>2, StageFacts DEF Report
<1>2. /\ DOMAIN reports = 1 .. L /\ L \in Nat
      /\ DOMAIN reports' = 1 .. L + 1
      /\ \A i \in 1 .. L : reports'[i] = reports[i]
      /\ reports'[L + 1] = e
  <2>1. reports \in Seq(Report) /\ reports' = Append(reports, e)
    BY <1>1 DEF TypeOK, Enter
  <2> HIDE DEF e
  <2>q. QED
    BY <1>1, <2>1, AppendFacts
<1>3. /\ L + 1 \in DOMAIN reports'
      /\ \A q \in DOMAIN reports' : ~ (q > L + 1)
      /\ \A q \in DOMAIN reports' : q \in DOMAIN reports \/ q = L + 1
      /\ \A p \in DOMAIN reports : p \in DOMAIN reports' /\ reports'[p] = reports[p]
  BY <1>2
<1>4. reports'[L + 1].what = Stages[n] /\ reports'[L + 1].call = c
  BY <1>2
<1> HIDE DEF e, L
<1>5. FinalStatus(Stages[n])'
  <2>1. Stages' = Stages
    BY DEF Stages
  <2>q. QED
    BY <1>1, <1>3, <1>4, <2>1 DEF FinalStatus
<1>6. n = 1 => FinalUri(c)'
  BY <1>1, <1>3, <1>4 DEF FinalUri
<1>7. n # 1 => \A d : FinalUri(d) => FinalUri(d)'
  BY <1>1, <1>3, <1>4 DEF FinalUri
<1>q. QED
  BY <1>5, <1>6, <1>7

\* Merging the oldest report leaves what the twin tells in the end.
LEMMA MergeKeepsEnd ==
    ASSUME TypeOK, Reported
    PROVE  /\ \A s : FinalStatus(s) => FinalStatus(s)'
           /\ \A d : FinalUri(d) => FinalUri(d)'
<1> DEFINE r == reports[1]
           L == Len(reports)
<1>1. /\ L \in Nat \ {0} /\ DOMAIN reports = 1 .. L /\ r \in Report
      /\ DOMAIN reports' = 1 .. L - 1
      /\ \A i \in 1 .. L - 1 : reports'[i] = reports[i + 1]
      /\ twin' = Merged(twin, r)
  <2>1. reports \in Seq(Report) /\ reports # <<>> /\ reports' = Tail(reports)
        /\ twin' = Merged(twin, Head(reports))
    BY DEF TypeOK, Reported
  <2>2. Head(reports) = r
    BY <2>1, TailFacts
  <2>3. 1 \in 1 .. Len(reports)
    BY <2>1, TailFacts
  <2>q. QED
    BY <2>1, <2>2, <2>3, TailFacts
<1>2. /\ 1 \in DOMAIN reports
      /\ \A q \in DOMAIN reports' : q + 1 \in DOMAIN reports /\ reports'[q] = reports[q + 1]
      /\ \A p \in DOMAIN reports : p # 1 => p - 1 \in DOMAIN reports' /\ (p - 1) + 1 = p
      /\ \A p \in DOMAIN reports : p \in Nat /\ p >= 1
      /\ \A q \in DOMAIN reports' : q \in Nat /\ q >= 1
  BY <1>1
<1>3. /\ r.what = "reboot" => twin'.status = twin.status /\ twin'.uri = twin.uri
      /\ r.what # "reboot" => twin'.status = r.what
      /\ r.what # "reboot" /\ r.what # "waiting" => twin'.uri = twin.uri
      /\ r.what = "waiting" => twin'.uri = r.call
  <2>1. twin \in [uri : Calls \union {None}, status : ToSet(Stages) \union {"none"},
                 reboot : Calls \union {None}]
    BY DEF TypeOK
  <2>q. QED
    BY <1>1, <2>1 DEF Merged
<1> HIDE DEF L
<1>4. ASSUME NEW s, FinalStatus(s) PROVE FinalStatus(s)'
  <2>1. CASE twin.status = s /\ \A q \in DOMAIN reports : reports[q].what = "reboot"
    BY <1>2, <1>3, <2>1 DEF FinalStatus
  <2>2. CASE \E p \in DOMAIN reports :
                /\ reports[p].what = s /\ s # "reboot"
                /\ \A q \in DOMAIN reports : q > p => reports[q].what = "reboot"
    <3>1. PICK p \in DOMAIN reports :
                /\ reports[p].what = s /\ s # "reboot"
                /\ \A q \in DOMAIN reports : q > p => reports[q].what = "reboot"
      BY <2>2
    <3>2. CASE p = 1
      <4>1. twin'.status = s
        BY <1>3, <3>1, <3>2
      <4>2. ASSUME NEW q \in DOMAIN reports' PROVE reports'[q].what = "reboot"
        <5>1. q + 1 > 1 /\ q + 1 \in DOMAIN reports /\ reports'[q] = reports[q + 1]
          BY <1>2
        <5>q. QED
          BY <3>1, <3>2, <5>1
      <4>q. QED
        BY <4>1, <4>2 DEF FinalStatus
    <3>3. CASE p # 1
      <4>1. p - 1 \in DOMAIN reports' /\ reports'[p - 1].what = s
        BY <1>2, <3>1, <3>3
      <4>2. ASSUME NEW q \in DOMAIN reports', q > p - 1 PROVE reports'[q].what = "reboot"
        <5>1. q + 1 > p /\ q + 1 \in DOMAIN reports /\ reports'[q] = reports[q + 1]
          BY <1>2, <4>2
        <5>q. QED
          BY <3>1, <5>1
      <4>q. QED
        BY <3>1, <4>1, <4>2 DEF FinalStatus
    <3>q. QED
      BY <3>2, <3>3
  <2>q. QED
    BY <1>4, <2>1, <2>2 DEF FinalStatus
<1>5. ASSUME NEW d, FinalUri(d) PROVE FinalUri(d)'
  <2>1. CASE twin.uri = d /\ \A q \in DOMAIN reports : reports[q].what # "waiting"
    BY <1>2, <1>3, <2>1 DEF FinalUri
  <2>2. CASE \E p \in DOMAIN reports :
                /\ reports[p].what = "waiting" /\ reports[p].call = d
                /\ \A q \in DOMAIN reports : q > p => reports[q].what # "waiting"
    <3>1. PICK p \in DOMAIN reports :
                /\ reports[p].what = "waiting" /\ reports[p].call = d
                /\ \A q \in DOMAIN reports : q > p => reports[q].what # "waiting"
      BY <2>2
    <3>2. CASE p = 1
      <4>1. twin'.uri = d
        BY <1>3, <3>1, <3>2
      <4>2. ASSUME NEW q \in DOMAIN reports' PROVE reports'[q].what # "waiting"
        <5>1. q + 1 > 1 /\ q + 1 \in DOMAIN reports /\ reports'[q] = reports[q + 1]
          BY <1>2
        <5>q. QED
          BY <3>1, <3>2, <5>1
      <4>q. QED
        BY <4>1, <4>2 DEF FinalUri
    <3>3. CASE p # 1
      <4>1. p - 1 \in DOMAIN reports' /\ reports'[p - 1] = reports[p]
        BY <1>2, <3>1, <3>3
      <4>2. ASSUME NEW q \in DOMAIN reports', q > p - 1 PROVE reports'[q].what # "waiting"
        <5>1. q + 1 > p /\ q + 1 \in DOMAIN reports /\ reports'[q] = reports[q + 1]
          BY <1>2, <4>2
        <5>q. QED
          BY <3>1, <5>1
      <4>q. QED
        BY <3>1, <4>1, <4>2 DEF FinalUri
    <3>q. QED
      BY <3>2, <3>3
  <2>q. QED
    BY <1>5, <2>1, <2>2 DEF FinalUri
<1>q. QED
  BY <1>4, <1>5

\* An update that starts has the last timer and is the last to start.
LEMMA StartTwin ==
    ASSUME IInv, NEW c \in asking, StartUpdate(c), twin' = twin
    PROVE  TwinFollows'
<1>1. /\ c \in Calls /\ Enter(c, 1)
      /\ timers' = Append(timers, c) /\ started' = Append(started, c)
      /\ timers \in Seq(Calls) /\ started \in Seq(Calls)
      /\ TypeOK /\ 1 \in 1 .. 5 /\ 1 \in 1 .. 6
  BY DEF StartUpdate, SetTimer, IInv, TypeOK
<1>2. FinalStatus(Stages[1])' /\ FinalUri(c)'
  BY <1>1, StageReported
<1>3. stage'[c] = 1
  BY <1>1, EnterType
<1>4. timers' # <<>> /\ timers'[Len(timers')] = c /\ started'[Len(started')] = c
  BY <1>1
<1>5. LastStage' = 1
  BY <1>3, <1>4 DEF LastStage
<1>6. Stages' = Stages
  BY DEF Stages
<1>q. QED
  BY <1>2, <1>4, <1>5, <1>6 DEF TwinFollows, FinalStatus, FinalUri

\* A timer that fires: its update enters the next stage with the last timer,
\* or it was the last timer of all, or the last timer stays what it was.
LEMMA TimerTwin ==
    ASSUME IInv, TwinFollows, TimerFires
    PROVE  TwinFollows'
<1> DEFINE L == Len(timers)
<1>1. /\ timers \in Seq(Calls) /\ timers # <<>> /\ stage \in [Calls -> 0 .. 6]
      /\ started \in Seq(Calls) /\ TypeOK
  BY StageFacts DEF TimerFires, IInv, TypeOK
<1>0. PICK c, n : c = Head(timers) /\ n = stage[c] + 1
  OBVIOUS
<1>2. /\ L \in Nat \ {0} /\ DOMAIN timers = 1 .. L /\ c = timers[1] /\ c \in Calls
      /\ Tail(timers) \in Seq(Calls) /\ Len(Tail(timers)) = L - 1
      /\ \A p \in 1 .. L - 1 : Tail(timers)[p] = timers[p + 1]
  <2>1. 1 \in 1 .. Len(timers)
    BY <1>1, TailFacts
  <2>q. QED
    BY <1>0, <1>1, <2>1, TailFacts
<1>3. stage[c] \in 1 .. 5 /\ n \in 2 .. 6
  <2>1. 1 \in DOMAIN timers
    BY <1>2
  <2>2. stage[c] \in 1 .. 5
    BY <1>2, <2>1 DEF IInv, Queued
  <2>q. QED
    BY <1>0, <2>1, <2>2
<1>4. /\ Enter(c, n)
      /\ timers' = IF n = 6 THEN Tail(timers) ELSE Append(Tail(timers), c)
      /\ UNCHANGED <<twin, started>>
  <2>1. Stages[n] = "over" <=> n = 6
    BY <1>3, StageFacts
  <2>q. QED
    BY <1>0, <2>1 DEF TimerFires, SetTimer
<1>5. stage'[c] = n /\ \A d \in Calls : d # c => stage'[d] = stage[d]
  <2>1. TypeOK /\ c \in Calls /\ n \in 1 .. 6 /\ Enter(c, n)
    BY <1>1, <1>2, <1>3, <1>4
  <2>q. QED
    BY <2>1, EnterType
<1>s. Stages' = Stages
  BY DEF Stages
<1>6. CASE n # 6
  <2>1. n \in 1 .. 5 /\ n # 1
    BY <1>3, <1>6
  <2>2. FinalStatus(Stages[n])' /\ \A d : FinalUri(d) => FinalUri(d)'
    BY <1>1, <1>2, <1>4, <2>1, StageReported
  <2>3. timers' # <<>> /\ timers'[Len(timers')] = c
    BY <1>2, <1>4, <1>6
  <2>4. LastStage' = n
    BY <1>5, <2>3 DEF LastStage
  <2>5. PICK d : d = started[Len(started)]
    OBVIOUS
  <2>6. started # <<>> => FinalUri(d)'
    BY <2>2, <2>5 DEF TwinFollows
  <2>7. FinalStatus(Stages[LastStage])'
    BY <1>s, <2>2, <2>4 DEF FinalStatus
  <2>8. started # <<>> => FinalUri(started[Len(started)])'
    BY <1>4, <2>5, <2>6 DEF FinalUri
  <2>q. QED
    BY <1>4, <2>7, <2>8 DEF TwinFollows
<1>7. CASE n = 6
  <2>1. UNCHANGED <<reports, twin, started>>
    BY <1>4, <1>7, StageFacts DEF Enter
  <2>2. stage[c] = 5
    BY <1>0, <1>3, <1>7
  <2>3. LastStage' = LastStage
    <3>1. CASE L = 1
      <4>1. timers' = <<>>
        BY <1>2, <1>4, <1>7, <3>1
      <4>2. timers[Len(timers)] = c
        BY <1>2, <3>1
      <4>q. QED
        BY <1>1, <2>2, <4>1, <4>2 DEF LastStage
    <3>2. CASE L # 1
      <4>1. /\ timers' # <<>> /\ Len(timers') = L - 1 /\ L - 1 \in 1 .. L - 1
            /\ (L - 1) + 1 = L
        <5>1. L - 1 \in Nat \ {0} /\ (L - 1) + 1 = L
          BY <1>2, <3>2
        <5>2. timers' = Tail(timers) /\ Len(timers') = L - 1
          BY <1>2, <1>4, <1>7
        <5>q. QED
          BY <5>1, <5>2
      <4>2. timers'[Len(timers')] = timers[L]
        BY <1>2, <1>4, <1>7, <4>1
      <4>3. timers[L] # c /\ timers[L] \in Calls
        <5>1. 1 \in DOMAIN timers /\ L \in DOMAIN timers
          BY <1>2
        <5>q. QED
          BY <1>1, <1>2, <3>2, <5>1 DEF IInv, Queued, IsInjective
      <4>q. QED
        BY <1>1, <1>5, <4>1, <4>2, <4>3 DEF LastStage
    <3>q. QED
      BY <3>1, <3>2
  <2>q. QED
    BY <1>s, <2>1, <2>3 DEF TwinFollows, FinalStatus, FinalUri
<1>q. QED
  BY <1>6, <1>7

\* The steps that touch neither updates, nor reports, nor the twin.
LEMMA OtherTwin ==
    ASSUME TwinFollows, UNCHANGED <<timers, reports, twin, stage, started>>
    PROVE  TwinFollows'
BY DEF TwinFollows, FinalStatus, FinalUri, LastStage, Stages

\* Every step of the device keeps what the twin will tell.
LEMMA StepTwin == IInv /\ TwinFollows /\ [DeviceNext]_vars => TwinFollows'
<1> SUFFICES ASSUME IInv, TwinFollows, [DeviceNext]_vars PROVE TwinFollows'
  OBVIOUS
<1>t. TypeOK
  BY DEF IInv
<1>1. ASSUME NEW ok \in BOOLEAN, Opened(ok) PROVE TwinFollows'
  BY <1>1, OtherTwin DEF Opened
<1>2. ASSUME NEW m \in Registered, Invoke(m) PROVE TwinFollows'
  BY <1>2, OtherTwin DEF Invoke
<1>3. CASE InvokeMalformed
  BY <1>3, OtherTwin DEF InvokeMalformed
<1>4. ASSUME NEW d \in responding, NEW ok \in BOOLEAN, ResponseSent(d, ok) PROVE TwinFollows'
  BY <1>4, OtherTwin DEF ResponseSent
<1>5. ASSUME NEW d \in asking, TwinAcquired(d) PROVE TwinFollows'
  <2>1. CASE calls[d] = "reboot"
    <3>1. /\ d \in Calls /\ reports' = Append(reports, [call |-> d, what |-> "reboot"])
          /\ UNCHANGED <<timers, stage, started, twin>>
      BY <1>t, <1>5, <2>1 DEF TwinAcquired, TypeOK
    <3>q. QED
      BY <1>t, <3>1, RebootReported
  <2>2. CASE calls[d] # "reboot"
    BY <1>5, <2>2, StartTwin DEF TwinAcquired
  <2>q. QED
    BY <2>1, <2>2
<1>6. ASSUME NEW d \in asking, TwinRefused(d) PROVE TwinFollows'
  BY <1>6, OtherTwin DEF TwinRefused
<1>7. CASE TimerFires
  BY <1>7, TimerTwin
<1>8. CASE Reported
  <2>1. UNCHANGED <<timers, stage, started>>
    BY <1>8 DEF Reported
  <2>2. LastStage' = LastStage /\ Stages' = Stages
    BY <2>1 DEF LastStage, Stages
  <2>3. /\ \A s : FinalStatus(s) => FinalStatus(s)'
        /\ \A d : FinalUri(d) => FinalUri(d)'
    BY <1>t, <1>8, MergeKeepsEnd
  <2>4. PICK s, d : s = Stages[LastStage] /\ d = started[Len(started)]
    OBVIOUS
  <2>5. started # <<>> => FinalStatus(s)' /\ FinalUri(d)'
    BY <2>3, <2>4 DEF TwinFollows
  <2>6. started # <<>> => FinalStatus(Stages[LastStage])' /\ FinalUri(started[Len(started)])'
    BY <2>1, <2>2, <2>4, <2>5 DEF FinalStatus, FinalUri
  <2>q. QED
    BY <2>1, <2>6 DEF TwinFollows
<1>9. CASE ReportFails
  BY <1>9, OtherTwin DEF ReportFails
<1>10. CASE UNCHANGED vars
  BY <1>10, OtherTwin DEF vars
<1>q. QED
  BY <1>1, <1>2, <1>3, <1>4, <1>5, <1>6, <1>7, <1>8, <1>9, <1>10
     DEF DeviceNext, Next, Registered

-----------------------------------------------------------------------------
\* The job asks about one call, and no more questions are on their way than
\* are allowed.
JobTypeOK ==
    /\ job \in Ended \union {"none", "running"}
    /\ jobCall \in Calls \union {None}
    /\ monitor \in {"scheduling", "refused", "polling", "cleared"}
    /\ asked \in Nat /\ found \in Nat /\ asked + found <= MaxPolls
    /\ reported \in BOOLEAN

\* Nobody finds an end, and nothing is reported, before the job has ended.
EndIsReal == found > 0 \/ reported => job \in Ended

\* The interval is cleared as soon as one answer was reported.
ClearedIsReported == monitor = "cleared" <=> reported

BackEndIInv == IInv /\ TwinFollows /\ JobTypeOK /\ EndIsReal /\ ClearedIsReported

\* Every step of back end and device is one of the device or leaves it alone.
LEMMA DeviceSteps == [BackEndNext]_backEndVars => [DeviceNext]_vars
BY DEF BackEndNext, backEndVars, DeviceNext, JobAccepted, JobRefused, MonitorStarts, JobInvokes,
       JobEnds, Poll, PollFails, PollAnswered, JobReported

\* Every step keeps the invariant of the job and its monitor.
LEMMA BackEndStep == BackEndIInv /\ [BackEndNext]_backEndVars => BackEndIInv'
<1> SUFFICES ASSUME BackEndIInv, [BackEndNext]_backEndVars PROVE BackEndIInv'
  OBVIOUS
<1>1. IInv' /\ TwinFollows'
  BY DeviceSteps, StepIInv, StepTwin DEF BackEndIInv
<1>2. IInv /\ JobTypeOK /\ EndIsReal /\ ClearedIsReported
  BY DEF BackEndIInv
<1>3. JobTypeOK' /\ EndIsReal' /\ ClearedIsReported'
  <2> USE <1>2 DEF JobTypeOK, EndIsReal, ClearedIsReported, Ended
  <2>1. CASE Next /\ UNCHANGED jobVars
    BY <2>1 DEF jobVars
  <2>2. CASE JobAccepted
    BY <2>2 DEF JobAccepted
  <2>3. CASE JobRefused
    BY <2>3 DEF JobRefused
  <2>4. CASE MonitorStarts
    BY <2>4 DEF MonitorStarts
  <2>5. CASE JobInvokes
    <3>1. jobCall' \in Calls
      <4>1. calls' = Append(calls, "lockDoor") /\ Len(calls) + 1 \in Calls
        BY <2>5 DEF JobInvokes, Invoke
      <4>2. calls \in Seq(Registered) /\ "lockDoor" \in Registered
        BY DEF IInv, TypeOK, Registered
      <4>3. Len(calls') = Len(calls) + 1
        BY <4>1, <4>2
      <4>q. QED
        BY <2>5, <4>1, <4>3 DEF JobInvokes
    <3>q. QED
      BY <2>5, <3>1 DEF JobInvokes
  <2>6. ASSUME NEW status \in Ended, JobEnds(status)
        PROVE  JobTypeOK' /\ EndIsReal' /\ ClearedIsReported'
    BY <2>6 DEF JobEnds
  <2>7. CASE Poll
    BY <2>7 DEF Poll
  <2>8. CASE PollFails
    BY <2>8 DEF PollFails
  <2>9. CASE PollAnswered
    <3>1. CASE SeenToEnd(job)
      BY <2>9, <3>1 DEF PollAnswered, SeenToEnd
    <3>2. CASE ~ SeenToEnd(job)
      BY <2>9, <3>2 DEF PollAnswered, SeenToEnd
    <3>q. QED
      BY <3>1, <3>2
  <2>10. CASE JobReported
    BY <2>10 DEF JobReported, ClearInterval
  <2>11. CASE UNCHANGED backEndVars
    BY <2>11 DEF backEndVars, jobVars
  <2>q. QED
    BY <2>1, <2>2, <2>3, <2>4, <2>5, <2>6, <2>7, <2>8, <2>9, <2>10, <2>11 DEF BackEndNext
<1>q. QED
  BY <1>1, <1>3 DEF BackEndIInv

\* The inductive invariant holds in every reachable state.
THEOREM InvariantHolds == BackEndSpec => []BackEndIInv
<1>1. ASSUME BackEndInit PROVE BackEndIInv
  <2>1. IInv
    BY <1>1, InitIInv DEF BackEndInit
  <2>2. JobTypeOK
    <3>1. /\ job = "none" /\ jobCall = None /\ monitor = "scheduling"
          /\ asked = 0 /\ found = 0 /\ reported = FALSE
      BY <1>1 DEF BackEndInit
    <3>2. asked + found <= MaxPolls
      BY <3>1
    <3>q. QED
      BY <3>1, <3>2 DEF JobTypeOK
  <2>3. EndIsReal /\ ClearedIsReported
    BY <1>1 DEF BackEndInit, EndIsReal, ClearedIsReported
  <2>4. TwinFollows
    BY <1>1 DEF BackEndInit, Init, TwinFollows
  <2>q. QED
    BY <2>1, <2>2, <2>3, <2>4 DEF BackEndIInv
<1>q. QED
  BY <1>1, BackEndStep, PTL DEF BackEndSpec

\* Every variable of the device and of the back end keeps its type.
THEOREM TypeCorrect == BackEndSpec => []BackEndTypeOK
<1>1. JobTypeOK => asked \in 0 .. MaxPolls /\ found \in 0 .. MaxPolls
  BY DEF JobTypeOK
<1>2. JobTypeOK /\ TypeOK => BackEndTypeOK
  BY <1>1 DEF JobTypeOK, BackEndTypeOK
<1>3. BackEndIInv => BackEndTypeOK
  BY <1>2 DEF BackEndIInv, IInv
<1>q. QED
  BY <1>3, InvariantHolds, PTL

\* Firmware updates that overlap do not overtake each other.
THEOREM UpdatesKeepTheirOrder == BackEndSpec => []NoOvertaking
<1>1. BackEndIInv => NoOvertaking
  BY DEF BackEndIInv, IInv
<1>q. QED
  BY <1>1, InvariantHolds, PTL

\* An update under way has one timer, and no other timer runs.
THEOREM TimersFollowUpdates == BackEndSpec => []OneTimerPerUpdate
<1>1. BackEndIInv => OneTimerPerUpdate
  <2> SUFFICES ASSUME IInv PROVE OneTimerPerUpdate
    BY DEF BackEndIInv
  <2>1. Len(Stages) - 1 = 5
    BY StageFacts
  <2>2. \A p \in DOMAIN timers : timers[p] \in Calls
    BY DEF IInv, TypeOK
  <2>3. ToSet(timers) = {c \in Calls : stage[c] \in 1 .. 5}
    BY <2>2 DEF IInv, Queued, ToSet
  <2>q. QED
    BY <2>1, <2>3 DEF IInv, Queued, OneTimerPerUpdate
<1>q. QED
  BY <1>1, InvariantHolds, PTL

\* When nothing is under way the twin tells the end and the package of the
\* update that started last, however the updates, their timers and the
\* reports on their way to the hub overlapped.
THEOREM TwinIsCurrent == BackEndSpec => []TwinTellsLastUpdate
<1>1. BackEndIInv => TwinTellsLastUpdate
  <2> SUFFICES ASSUME IInv, TwinFollows, timers = <<>>, reports = <<>>, started # <<>>
               PROVE  twin.status = "applyComplete" /\ twin.uri = Last(started)
    BY DEF BackEndIInv, TwinTellsLastUpdate
  <2>1. FinalStatus(Stages[5]) /\ FinalUri(started[Len(started)])
    BY DEF TwinFollows, LastStage
  <2>2. DOMAIN reports = {}
    OBVIOUS
  <2>3. twin.status = Stages[5] /\ twin.uri = started[Len(started)]
    BY <2>1, <2>2 DEF FinalStatus, FinalUri
  <2>q. QED
    BY <2>3 DEF Stages, Last
<1>q. QED
  BY <1>1, InvariantHolds, PTL
=============================================================================
