------------------------ MODULE StunConnectionProofs ------------------------
(***************************************************************************)
(* The safety properties of StunConnection, for all durations that the     *)
(* code could have and any goroutines.                                     *)
(***************************************************************************)
EXTENDS StunConnection, TLAPS

\* A goroutine that waits sends its next request before the pause is too long;
\* one that has sent has done so now.
PausesBounded ==
  \A g \in Retriers :
    /\ retry[g].at = "off" => retry[g] = Off
    /\ retry[g].at = "waiting" => quiet + retry[g].timer <= LongestPause
    /\ retry[g].at = "sent" => quiet = 0

\* Only hadStunChecking keeps a second goroutine from being started.
RetrierSetsChecking == \A g \in Retriers : Retrying(g) => checking

RetryInv == TypeOK /\ OneRetrier /\ RetrierSetsChecking /\ PausesBounded

-----------------------------------------------------------------------------

LEMMA DurationsFit ==
  /\ RetryAfter \in Nat \ {0} /\ AdjustAfter \in Nat \ {0} /\ GiveUpAfter \in Nat \ {0}
  /\ LongestPause \in Nat
  /\ RetryAfter \in 0..LongestPause
BY DurationsAssumption, SMT DEF LongestPause

\* The interval never exceeds LongestPause, while the silence is no longer than
\* the code looks at it.
LEMMA IntervalBounded ==
  ASSUME interval \in 0..LongestPause, NEW delta \in 0..GiveUpAfter, delta < GiveUpAfter
  PROVE  NextInterval(delta) \in 0..LongestPause
BY DurationsFit, SMT DEF NextInterval, LongestPause

LEMMA RetryTypes ==
  ASSUME TypeOK, NEW g \in Retriers
  PROVE  /\ retry[g].at \in {"off", "waiting", "sent"}
         /\ retry[g].timer \in 0..LongestPause
         /\ retry[g] = [at |-> retry[g].at, timer |-> retry[g].timer]
BY DEF TypeOK, RetryStates

LEMMA OffIsState == Off \in RetryStates
BY DurationsFit DEF Off, RetryStates

LEMMA WaitingIsState ==
  ASSUME NEW t \in 0..LongestPause
  PROVE  Waiting(t) \in RetryStates
BY DEF Waiting, RetryStates

LEMMA RetryInit == Init => RetryInv
<1> SUFFICES ASSUME Init PROVE RetryInv
  OBVIOUS
<1>1. TypeOK
  <2>1. retry \in [Retriers -> RetryStates]
    BY OffIsState DEF Init
  <2>2. 0 \in 0..LongestPause /\ 0 \in 0..GiveUpAfter /\ LongestPause + 1 \in 0..LongestPause + 1
    BY DurationsFit
  <2> QED BY <2>1, <2>2 DEF Init, TypeOK
<1>2. \A g \in Retriers : retry[g] = Off
  BY DEF Init
<1> QED
  BY <1>1, <1>2 DEF RetryInv, OneRetrier, RetrierSetsChecking, PausesBounded, Retrying, Off

\* A goroutine is started only where none lives.
LEMMA StartKeeps ==
  ASSUME RetryInv, NEW g \in Retriers, StartRetrier(g), quiet' = 0, age' = 0, UNCHANGED flags
  PROVE  RetryInv'
<1>1. \A h \in Retriers : ~Retrying(h)
  BY DEF RetryInv, RetrierSetsChecking, StartRetrier
<1>2. \A h \in Retriers : retry'[h] = IF h = g THEN Waiting(RetryAfter) ELSE retry[h]
  BY DEF RetryInv, TypeOK, StartRetrier
<1>3. TypeOK'
  BY WaitingIsState, DurationsFit DEF RetryInv, TypeOK, StartRetrier, flags
<1>4. OneRetrier' /\ RetrierSetsChecking'
  BY <1>1, <1>2 DEF OneRetrier, RetrierSetsChecking, Retrying, StartRetrier
<1>5. PausesBounded'
  <2> SUFFICES ASSUME NEW h \in Retriers
      PROVE  /\ retry'[h].at = "off" => retry'[h] = Off
             /\ retry'[h].at = "waiting" => quiet' + retry'[h].timer <= LongestPause
             /\ retry'[h].at = "sent" => quiet' = 0
    BY DEF PausesBounded
  <2>1. CASE h = g
    BY <2>1, <1>2, DurationsFit DEF Waiting
  <2>2. CASE h # g
    BY <2>2, <1>1, <1>2, RetryTypes DEF RetryInv, PausesBounded, Retrying
  <2> QED BY <2>1, <2>2
<1> QED BY <1>3, <1>4, <1>5 DEF RetryInv

\* A step of the goroutine g alone, that leaves the flags but for checking.
LEMMA RetrierKeeps ==
  ASSUME RetryInv, NEW g \in Retriers, Retrier(g)
  PROVE  RetryInv'
<1> USE DEF RetryInv
<1>1. g \in Retriers /\ Retrying(g)
  BY DEF Retrier, Quit, SendAgain, WaitAgain, GiveUp, Waiting, Retrying
<1>2. \A h \in Retriers \ {g} : ~Retrying(h)
  BY <1>1 DEF OneRetrier
<1>3. CASE Quit(g) \/ GiveUp(g)
  <2>1. \A h \in Retriers : retry'[h] = IF h = g THEN Off ELSE retry[h]
    BY <1>3 DEF TypeOK, Quit, GiveUp
  <2>2. \A h \in Retriers : ~Retrying(h)'
    BY <1>2, <2>1 DEF Retrying, Off
  <2>3. TypeOK'
    BY <1>3, OffIsState DEF TypeOK, Quit, GiveUp, flags
  <2>4. PausesBounded'
    <3> SUFFICES ASSUME NEW h \in Retriers PROVE retry'[h] = Off
      BY DEF PausesBounded, Off
    <3> QED BY <1>2, <2>1, RetryTypes DEF PausesBounded, Retrying
  <2> QED BY <2>2, <2>3, <2>4 DEF OneRetrier, RetrierSetsChecking
<1>4. CASE SendAgain(g)
  <2>1. \A h \in Retriers : retry'[h] =
          IF h = g THEN [at |-> "sent", timer |-> retry[g].timer] ELSE retry[h]
    BY <1>4, RetryTypes DEF TypeOK, SendAgain
  <2>2. TypeOK'
    <3>1. [at |-> "sent", timer |-> retry[g].timer] \in RetryStates
      BY RetryTypes DEF RetryStates
    <3>2. retry' \in [Retriers -> RetryStates]
      BY <1>4, <2>1, <3>1 DEF TypeOK, SendAgain
    <3> QED BY <1>4, <3>2, DurationsFit DEF TypeOK, SendAgain, flags
  <2>3. OneRetrier' /\ RetrierSetsChecking'
    BY <1>1, <1>2, <1>4, <2>1 DEF OneRetrier, RetrierSetsChecking, Retrying, SendAgain
  <2>4. PausesBounded'
    BY <1>2, <1>4, <2>1, RetryTypes DEF PausesBounded, Retrying, SendAgain
  <2> QED BY <2>2, <2>3, <2>4
<1>5. CASE WaitAgain(g)
  <2> DEFINE pause == NextInterval(age)
  <2>1. pause \in 0..LongestPause
    BY <1>5, IntervalBounded DEF TypeOK, WaitAgain
  <2>2. \A h \in Retriers : retry'[h] = IF h = g THEN Waiting(pause) ELSE retry[h]
    BY <1>5 DEF TypeOK, WaitAgain
  <2>3. TypeOK'
    BY <1>5, <2>1, WaitingIsState DEF TypeOK, WaitAgain, flags
  <2>4. OneRetrier' /\ RetrierSetsChecking'
    BY <1>1, <1>2, <1>5, <2>2 DEF OneRetrier, RetrierSetsChecking, Retrying, WaitAgain
  <2>5. quiet' = 0
    BY <1>5 DEF PausesBounded, WaitAgain
  <2> HIDE DEF pause
  <2>6. PausesBounded'
    <3> SUFFICES ASSUME NEW h \in Retriers
        PROVE  /\ retry'[h].at = "off" => retry'[h] = Off
               /\ retry'[h].at = "waiting" => quiet' + retry'[h].timer <= LongestPause
               /\ retry'[h].at = "sent" => quiet' = 0
      BY DEF PausesBounded
    <3>1. CASE h = g
      BY <3>1, <2>1, <2>2, <2>5, DurationsFit DEF Waiting
    <3>2. CASE h # g
      BY <3>2, <1>2, <2>2, RetryTypes DEF PausesBounded, Retrying
    <3> QED BY <3>1, <3>2
  <2> QED BY <2>3, <2>4, <2>6
<1> QED BY <1>3, <1>4, <1>5 DEF Retrier

LEMMA TickKeeps == RetryInv /\ Tick => RetryInv'
<1> SUFFICES ASSUME RetryInv, Tick PROVE RetryInv'
  OBVIOUS
<1> USE DEF RetryInv
<1>1. \A h \in Retriers :
        retry'[h] = IF retry[h] = Off THEN Off ELSE Waiting(retry[h].timer - 1)
  BY DEF Tick
<1>0. ASSUME NEW h \in Retriers, retry[h] # Off
      PROVE  retry[h].timer \in 1..LongestPause
  <2>1. retry[h].timer > 0
    BY <1>0 DEF Tick
  <2>2. retry[h].timer \in 0..LongestPause
    BY RetryTypes
  <2> QED BY <2>1, <2>2, DurationsFit
<1>2. ASSUME NEW h \in Retriers, Retrying(h)'
      PROVE  Retrying(h) /\ retry[h].at = "waiting" /\ retry[h].timer \in 1..LongestPause
  <2>1. retry[h] # Off
    BY <1>1, <1>2 DEF Retrying, Off
  <2>2. retry[h].at = "waiting"
    BY <2>1, RetryTypes DEF Tick, PausesBounded
  <2> QED BY <1>0, <2>1, <2>2 DEF Retrying
<1>3. TypeOK'
  <2>1. ASSUME NEW h \in Retriers PROVE retry'[h] \in RetryStates
    <3>1. CASE retry[h] = Off
      BY <3>1, <1>1, OffIsState
    <3>2. CASE retry[h] # Off
      <4>1. retry[h].timer - 1 \in 0..LongestPause
        BY <3>2, <1>0, DurationsFit
      <4> QED BY <3>2, <4>1, <1>1, WaitingIsState
    <3> QED BY <3>1, <3>2
  <2>2. retry' \in [Retriers -> RetryStates]
    BY <2>1 DEF Tick
  <2> QED BY <2>2, DurationsFit DEF TypeOK, Tick, flags
<1>4. OneRetrier' /\ RetrierSetsChecking'
  BY <1>2 DEF OneRetrier, RetrierSetsChecking, Tick
<1>5. PausesBounded'
  <2> SUFFICES ASSUME NEW h \in Retriers
      PROVE  /\ retry'[h].at = "off" => retry'[h] = Off
             /\ retry'[h].at = "waiting" => quiet' + retry'[h].timer <= LongestPause
             /\ retry'[h].at = "sent" => quiet' = 0
    BY DEF PausesBounded
  <2>1. CASE retry[h] = Off
    BY <2>1, <1>1 DEF Off
  <2>2. CASE retry[h] # Off
    <3>1. retry'[h] = Waiting(retry[h].timer - 1)
      BY <2>2, <1>1
    <3>2. /\ quiet + retry[h].timer <= LongestPause
          /\ retry[h].timer \in 1..LongestPause
      BY <3>1, <1>2 DEF Retrying, Waiting, PausesBounded
    <3>3. quiet' = quiet + 1
      BY <3>2, DurationsFit DEF Tick, TypeOK
    <3> QED BY <3>1, <3>2, <3>3, DurationsFit DEF Waiting, TypeOK
  <2> QED BY <2>1, <2>2
<1> QED BY <1>3, <1>4, <1>5

LEMMA RetryStep == RetryInv /\ [Next]_vars => RetryInv'
<1> SUFFICES ASSUME RetryInv, [Next]_vars PROVE RetryInv'
  OBVIOUS
<1>1. CASE ReceiveData \/ ReceiveResponse \/ ReceiveOther
  <2>1. /\ age' = 0 /\ ready' \in BOOLEAN /\ response' \in BOOLEAN
        /\ UNCHANGED <<checking, interval, retry, quiet>>
    BY <1>1 DEF ReceiveData, ReceiveResponse, ReceiveOther, RetryInv, TypeOK, flags
  <2>2. TypeOK'
    BY <2>1, DurationsFit DEF RetryInv, TypeOK
  <2> QED BY <2>1, <2>2 DEF RetryInv, OneRetrier, RetrierSetsChecking, PausesBounded, Retrying
<1>2. CASE ReceiveRequest
  <2>1. CASE \E g \in Retriers : StartRetrier(g) /\ quiet' = 0
    BY <1>2, <2>1, StartKeeps DEF ReceiveRequest
  <2>2. CASE UNCHANGED <<checking, interval, retry>> /\ quiet' \in {0, quiet}
    <3>1. quiet' \in 0..quiet /\ age' = 0
      BY <1>2, <2>2, DurationsFit DEF ReceiveRequest, RetryInv, TypeOK
    <3>2. PausesBounded'
      <4> SUFFICES ASSUME NEW h \in Retriers
          PROVE  /\ retry[h].at = "off" => retry[h] = Off
                 /\ retry[h].at = "waiting" => quiet' + retry[h].timer <= LongestPause
                 /\ retry[h].at = "sent" => quiet' = 0
        BY <2>2 DEF PausesBounded
      <4> QED BY <3>1, RetryTypes, DurationsFit DEF RetryInv, PausesBounded, TypeOK
    <3> QED BY <1>2, <2>2, <3>1, <3>2, DurationsFit DEF ReceiveRequest, RetryInv, TypeOK,
            OneRetrier, RetrierSetsChecking, Retrying, flags
  <2> QED BY <1>2, <2>1, <2>2 DEF ReceiveRequest
<1>3. CASE Tick
  BY <1>3, TickKeeps
<1>4. CASE \E g \in Retriers : Retrier(g)
  BY <1>4, RetrierKeeps
<1>5. CASE UNCHANGED vars
  BY <1>5 DEF vars, flags, RetryInv, TypeOK, OneRetrier, RetrierSetsChecking, PausesBounded,
     Retrying
<1> QED BY <1>1, <1>2, <1>3, <1>4, <1>5 DEF Next

LEMMA RetryAlways == Spec => []RetryInv
BY RetryInit, RetryStep, PTL DEF Spec

-----------------------------------------------------------------------------

\* The interval stays within the pause it may cause, whatever the silences.
THEOREM TypeCorrect == Spec => []TypeOK
<1>1. RetryInv => TypeOK
  BY DEF RetryInv
<1> QED BY <1>1, RetryAlways, PTL

\* Requests, responses, timers and silences in any order start no second
\* goroutine (connection.go:144-148).
THEOREM AtMostOneRetrier == Spec => []OneRetrier
<1>1. RetryInv => OneRetrier
  BY DEF RetryInv
<1> QED BY <1>1, RetryAlways, PTL

\* While the goroutine lives no pause is longer than half the time after which it
\* gives up (connection.go:150-168).
THEOREM RequestsKeepBeingSent == Spec => []RequestsKeepComing
<1>1. RetryInv => RequestsKeepComing
  BY RetryTypes, DurationsFit DEF RetryInv, RequestsKeepComing, PausesBounded, Retrying, TypeOK
<1> QED BY <1>1, RetryAlways, PTL

\* A goroutine that has sent a request without an answer, and finds the peer
\* silent, still has no answer: that would have ended the silence.
SilentMeansUnanswered ==
  \A g \in Retriers : retry[g].at = "sent" /\ age = GiveUpAfter => ~response

LEMMA SilenceStep ==
  ASSUME RetryInv, SilentMeansUnanswered, [Next]_vars
  PROVE  SilentMeansUnanswered'
<1> USE DEF SilentMeansUnanswered
<1>1. CASE age' = 0
  BY <1>1, DurationsFit
<1>2. CASE Tick
  <2>1. ASSUME NEW h \in Retriers PROVE retry'[h].at # "sent"
    BY <1>2 DEF Tick, Off, Waiting
  <2> QED BY <2>1
<1>3. ASSUME NEW g \in Retriers, Retrier(g)
      PROVE  SilentMeansUnanswered'
  <2>1. \A h \in Retriers \ {g} : retry'[h] = retry[h]
    BY <1>3 DEF Retrier, Quit, SendAgain, WaitAgain, GiveUp, RetryInv, TypeOK
  <2>2. UNCHANGED <<age, response>>
    BY <1>3 DEF Retrier, Quit, SendAgain, WaitAgain, GiveUp, flags
  <2>3. retry'[g].at = "sent" => ~response
    BY <1>3 DEF Retrier, Quit, SendAgain, WaitAgain, GiveUp, Off, Waiting, RetryInv, TypeOK
  <2> QED BY <2>1, <2>2, <2>3
<1>4. CASE UNCHANGED vars
  BY <1>4 DEF vars, flags
<1> QED
  BY <1>1, <1>2, <1>3, <1>4
     DEF Next, ReceiveData, ReceiveResponse, ReceiveOther, ReceiveRequest

\* Whatever the packets and the durations, the goroutine ends with an answer, and
\* then clears its flag, or after a silence in which there was none
\* (connection.go:151-170).
THEOREM RetrierEndsWithAnswerOrSilence == Spec => EndsWithAnswerOrSilence
<1>1. Init => SilentMeansUnanswered
  BY DEF Init, Off, SilentMeansUnanswered
<1>2. ASSUME RetryInv, SilentMeansUnanswered, [Next]_vars
      PROVE  [\A g \in Retriers : Retrying(g) /\ ~Retrying(g)' =>
                \/ response /\ ~checking'
                \/ ~response /\ age = GiveUpAfter]_vars
  <2> SUFFICES ASSUME Next, NEW g \in Retriers, Retrying(g), ~Retrying(g)'
      PROVE  (response /\ ~checking') \/ (~response /\ age = GiveUpAfter)
    BY <1>2
  <2>1. CASE Tick
    <3>1. retry'[g] = Waiting(retry[g].timer - 1)
      BY <2>1 DEF Tick, Retrying, Off
    <3> QED BY <3>1 DEF Waiting, Retrying
  <2>2. ASSUME NEW h \in Retriers, StartRetrier(h) PROVE FALSE
    BY <1>2, <2>2 DEF RetryInv, RetrierSetsChecking, StartRetrier
  <2>3. CASE retry' = retry
    BY <2>3 DEF Retrying
  <2>4. ASSUME NEW h \in Retriers, Retrier(h)
        PROVE  (response /\ ~checking') \/ (~response /\ age = GiveUpAfter)
    <3>1. CASE SendAgain(h)
      BY <3>1 DEF RetryInv, TypeOK, SendAgain, Retrying
    <3>2. CASE WaitAgain(h)
      BY <3>2 DEF RetryInv, TypeOK, WaitAgain, Waiting, Retrying
    <3>3. CASE Quit(h)
      BY <3>3 DEF Quit
    <3>4. CASE GiveUp(h)
      BY <1>2, <3>4 DEF GiveUp, SilentMeansUnanswered
    <3> QED BY <2>4, <3>1, <3>2, <3>3, <3>4 DEF Retrier
  <2> QED
    BY <2>1, <2>2, <2>3, <2>4
       DEF Next, ReceiveData, ReceiveResponse, ReceiveOther, ReceiveRequest
<1>3. QED
  BY <1>1, <1>2, RetryAlways, SilenceStep, PTL DEF Spec, EndsWithAnswerOrSilence

=============================================================================
