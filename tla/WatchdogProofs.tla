--------------------------- MODULE WatchdogProofs ---------------------------
(***************************************************************************)
(* The gatekeeper's rate and its breaker, alone and inside the game loop,  *)
(* and the watchdog's promise, for every value of the constants.           *)
(***************************************************************************)
EXTENDS Watchdog, TLAPS

\* Multiplication by a natural number is monotone.
LEMMA TimesMonotone ==
  ASSUME NEW a \in Nat, NEW b \in Nat, NEW k \in Nat, a <= b
  PROVE  a * k <= b * k
<1>1. b * k = a * k + (b - a) * k
  OBVIOUS
<1>2. (b - a) * k \in Nat
  OBVIOUS
<1> QED
  BY <1>1, <1>2

LEMMA TimesSuccessor ==
  ASSUME NEW a \in Nat, NEW k \in Nat
  PROVE  (a + 1) * k = a * k + k  /\ a * k \in Nat
OBVIOUS

-----------------------------------------------------------------------------
(* The gatekeeper alone *)

\* Every call has paid for itself: what was spent and what is left came from the
\* first bucket and the refills since.
Paid ==
  /\ tokens \in 0 .. Capacity
  /\ watch \in [ticks : Nat, calls : Nat]
  /\ watch.calls * Cost + tokens <= Capacity + watch.ticks * Refill

LEMMA PaidInit == Init => Paid
BY GatekeeperAssumption DEF Init, Paid, GatekeeperAssumption

LEMMA PaidStep == Paid /\ [Next]_vars => Paid'
<1> USE GatekeeperAssumption DEF GatekeeperAssumption
<1> SUFFICES ASSUME Paid, [Next]_vars PROVE Paid'
  OBVIOUS
<1> Capacity \in Nat /\ Refill \in Nat /\ Cost \in Nat
  OBVIOUS
<1>1. CASE Tick
  <2>1. /\ tokens' \in 0 .. Capacity /\ tokens' <= tokens + Refill
    BY <1>1 DEF Tick, Refilled, Paid
  <2>2. CASE watch' = [ticks |-> 0, calls |-> 0]
    <3>1. watch'.calls = 0 /\ watch'.ticks = 0 /\ watch' \in [ticks : Nat, calls : Nat]
      BY <2>2
    <3>2. watch'.calls * Cost = 0 /\ watch'.ticks * Refill = 0
      BY <3>1
    <3>3. watch'.calls * Cost + tokens' <= Capacity + watch'.ticks * Refill
      BY <2>1, <3>2
    <3> QED
      BY <2>1, <3>1, <3>3 DEF Paid
  <2>3. CASE watch' = [watch EXCEPT !.ticks = @ + 1]
    <3>1. /\ watch'.calls = watch.calls /\ watch'.ticks = watch.ticks + 1
          /\ watch' \in [ticks : Nat, calls : Nat]
      BY <2>3 DEF Paid
    <3>2. watch'.ticks * Refill = watch.ticks * Refill + Refill
      BY <3>1, TimesSuccessor DEF Paid
    <3>3. watch.ticks * Refill \in Nat /\ watch.calls * Cost \in Nat
      BY TimesSuccessor DEF Paid
    <3> QED
      BY <2>1, <3>1, <3>2, <3>3 DEF Paid
  <2> QED
    BY <1>1, <2>2, <2>3 DEF Tick
<1>2. CASE PollGranted
  <2>1. tokens' = tokens - Cost /\ tokens >= Cost
    BY <1>2 DEF PollGranted
  <2>2. /\ watch'.calls = watch.calls + 1 /\ watch'.ticks = watch.ticks
        /\ watch' \in [ticks : Nat, calls : Nat]
    BY <1>2 DEF PollGranted, Paid
  <2>3. watch'.calls * Cost = watch.calls * Cost + Cost
    BY <2>2, TimesSuccessor DEF Paid
  <2>4. watch.ticks * Refill \in Nat /\ watch.calls * Cost \in Nat
    BY TimesSuccessor DEF Paid
  <2> QED
    BY <2>1, <2>2, <2>3, <2>4 DEF Paid
<1>3. CASE ~Tick /\ ~PollGranted
  BY <1>3 DEF Next, Poll, Call, Request, PollLocked, PollQuota, PollEmpty,
              CallSucceeds, CallFails, CallRaises, Requeue, vars, Paid
<1> QED
  BY <1>1, <1>2, <1>3

LEMMA PaidImpliesRate == Paid => RateBounded
<1> SUFFICES ASSUME Paid PROVE RateBounded
  OBVIOUS
<1>1. watch.ticks * Refill \in Nat /\ watch.calls * Cost \in Nat
  BY GatekeeperAssumption, TimesSuccessor DEF Paid, GatekeeperAssumption
<1> QED
  BY <1>1, GatekeeperAssumption DEF Paid, RateBounded, GatekeeperAssumption

\* Whatever the bucket, the quota, the retries and the provider do, no stretch of
\* time holds more calls than the burst and the rate (shared/rate_limiter.py).
THEOREM RateIsBounded == Spec => []RateBounded
<1>1. Init => Paid
  BY PaidInit
<1>2. Paid /\ [Next]_vars => Paid'
  BY PaidStep
<1>3. Paid => RateBounded
  BY PaidImpliesRate
<1> QED
  BY <1>1, <1>2, <1>3, PTL DEF Spec

LEMMA LockStep ==
  ASSUME watch \in [ticks : Nat, calls : Nat], [Next]_vars, locked
  PROVE  locked' /\ watch'.calls <= watch.calls
<1>1. CASE Tick
  <2>1. locked'
    BY <1>1 DEF Tick
  <2>2. watch'.calls <= watch.calls
    BY <1>1 DEF Tick
  <2> QED
    BY <2>1, <2>2
<1>2. CASE ~Tick
  <2>1. watch' = watch /\ ((locked' <=> locked) \/ Record(FALSE))
    BY <1>2 DEF Next, Poll, Call, Request, PollLocked, PollQuota, PollGranted,
                PollEmpty, CallSucceeds, CallFails, CallRaises, Requeue, vars
  <2>2. locked'
    BY <2>1, Zenon DEF Record
  <2> QED
    BY <2>1, <2>2
<1> QED
  BY <1>1, <1>2

\* Once the breaker is open it stays open, and no call passes it.
THEOREM LockHolds == Spec => LockIsFinal
<1>1. Init => Paid
  BY PaidInit
<1>2. Paid /\ [Next]_vars => Paid'
  BY PaidStep
<1>3. Paid /\ [Next]_vars => [locked => locked' /\ watch'.calls <= watch.calls]_vars
  BY LockStep DEF Paid
<1> QED
  BY <1>1, <1>2, <1>3, PTL DEF Spec, LockIsFinal

-----------------------------------------------------------------------------
(* The gatekeeper inside the game loop *)

LEMMA GameStepIsGatekeeperStep == [GameNext]_allVars => [Next]_vars
<1> SUFFICES ASSUME [GameNext]_allVars PROVE [Next]_vars
  OBVIOUS
<1>1. CASE UNCHANGED allVars
  BY <1>1 DEF allVars
<1>2. CASE Pass
  BY <1>2 DEF Pass, Next
<1>3. CASE Decide
  BY <1>3 DEF Decide, Next
<1>4. CASE Talk
  BY <1>4 DEF Talk, Next
<1>5. CASE Spoken \/ Beat \/ GiveUp \/ RivalAnswers \/ Acknowledged \/ Hang \/ Return
  BY <1>5 DEF Spoken, Beat, GiveUp, RivalAnswers, Acknowledged, Hang, Return, Classify
<1>6. CASE Thread
  BY <1>6 DEF Thread, Watch, Fire
<1> QED
  BY <1>1, <1>2, <1>3, <1>4, <1>5, <1>6 DEF GameNext, Progress

\* The game loop uses the gatekeeper as execute allows: the game implements the
\* gatekeeper alone (talk_providers.py calls nothing but execute).
THEOREM GameImplementsGatekeeper == GameSpec => Spec
<1>1. GameInit => Init
  BY DEF GameInit
<1>2. [GameNext]_allVars => [Next]_vars
  BY GameStepIsGatekeeperStep
<1> QED
  BY <1>1, <1>2, PTL DEF GameSpec, Spec

\* The agreed rate and the breaker hold for a whole game.
THEOREM GameRateIsBounded == GameSpec => []RateBounded
BY GameImplementsGatekeeper, RateIsBounded, PTL

-----------------------------------------------------------------------------
(* The watchdog spares a loop that works *)

Period == WaitTimeout + CallTimeout + Backoff

\* What n failed calls may have cost.
Allowance(n) == n * Period

\* How long the loop may have been silent at each place of a talk.
InTime ==
  /\ pc = "polling" =>
       /\ attempt <= MaxRetries
       /\ \/ pause = 0 /\ waited <= WaitTimeout
          \/ pause = 1 /\ waited < WaitTimeout
       /\ silence <= Allowance(attempt) + waited
  /\ pc = "calling" =>
       /\ attempt \in 1 .. MaxRetries + 1 /\ waited <= CallTimeout
       /\ silence <= Allowance(attempt - 1) + WaitTimeout + waited
  /\ pc = "backoff" =>
       attempt \in 1 .. MaxRetries /\ silence + pause <= Allowance(attempt)
  /\ pc = "idle" =>
       silence <= Allowance(MaxRetries) + WaitTimeout + CallTimeout

Counts ==
  /\ pc \in {"idle", "polling", "calling", "backoff"}
  /\ attempt \in Nat /\ waited \in Nat /\ pause \in Nat /\ silence \in Nat

\* A loop that never hung: what it does is in time, and the thread has not fired.
Alive ==
  /\ loop \in {"waiting", "deciding", "talking", "sending", "over"}
  /\ dog \in {"watching", "stopped"}
  /\ loop = "talking" => InTime
  /\ loop # "talking" => pc = "idle" /\ silence <= Timeout
  /\ loop = "deciding" => silence = 0

LEMMA CountsStep == Counts /\ [GameNext]_allVars => Counts'
<1> USE GatekeeperAssumption DEF GatekeeperAssumption
<1> SUFFICES ASSUME Counts, [GameNext]_allVars PROVE Counts'
  OBVIOUS
<1>1. CASE UNCHANGED allVars
  BY <1>1 DEF allVars, vars, loopVars, Counts
<1>2. CASE Pass
  BY <1>2, WatchdogAssumption DEF Pass, Tick, Counts, WatchdogAssumption
<1>3. CASE Decide
  BY <1>3 DEF Decide, Request, Enter, vars, Counts
<1>4. CASE Talk
  <2>1. silence' = silence
    BY <1>4 DEF Talk, loopVars
  <2>2. CASE PollLocked
    BY <2>1, <2>2 DEF PollLocked, End, Counts
  <2>6. CASE PollQuota
    BY <2>1, <2>6 DEF PollQuota, End, Counts
  <2>7. CASE PollGranted
    BY <2>1, <2>7 DEF PollGranted, Counts
  <2>3. CASE PollEmpty
    BY <2>1, <2>3 DEF PollEmpty, End, Counts
  <2>4. CASE Requeue
    BY <2>1, <2>4 DEF Requeue, Counts
  <2>5. CASE Call
    BY <2>1, <2>5 DEF Call, CallSucceeds, CallFails, CallRaises, End, Counts
  <2> QED
    BY <1>4, <2>2, <2>3, <2>4, <2>5, <2>6, <2>7 DEF Talk, Poll
<1>5. CASE Spoken \/ Beat \/ GiveUp \/ RivalAnswers \/ Acknowledged \/ Hang \/ Return
  BY <1>5 DEF Spoken, Beat, GiveUp, RivalAnswers, Acknowledged, Hang, Return, Classify,
              Enter, vars, Counts
<1>6. CASE Thread
  BY <1>6 DEF Thread, Watch, Fire, vars, Counts
<1> QED
  BY <1>1, <1>2, <1>3, <1>4, <1>5, <1>6 DEF GameNext, Progress

LEMMA Periods ==
  /\ Period \in Nat
  /\ Allowance(0) = 0
  /\ \A n \in Nat : Allowance(n) \in Nat /\ Allowance(n + 1) = Allowance(n) + Period
  /\ \A n \in Nat : n <= MaxRetries => Allowance(n) <= Allowance(MaxRetries)
  /\ Allowance(MaxRetries) \in Nat
<1>1. Period \in Nat
  BY GatekeeperAssumption DEF GatekeeperAssumption, Period
<1>2. MaxRetries \in Nat
  BY GatekeeperAssumption DEF GatekeeperAssumption
<1>3. \A n \in Nat : Allowance(n) \in Nat /\ Allowance(n + 1) = Allowance(n) + Period
  BY <1>1, TimesSuccessor DEF Allowance
<1>4. \A n \in Nat : n <= MaxRetries => Allowance(n) <= Allowance(MaxRetries)
  BY <1>1, <1>2, TimesMonotone DEF Allowance
<1>5. Allowance(0) = 0
  BY <1>1 DEF Allowance
<1> QED
  BY <1>1, <1>2, <1>3, <1>4, <1>5

LEMMA TalkIsBounded ==
  LongestTalk <= Timeout => Allowance(MaxRetries) + WaitTimeout + CallTimeout <= Timeout
<1> USE GatekeeperAssumption, WatchdogAssumption DEF GatekeeperAssumption, WatchdogAssumption
<1>1. Allowance(MaxRetries) = MaxRetries * (WaitTimeout + CallTimeout) + MaxRetries * Backoff
  BY DEF Period, Allowance
<1>2. (MaxRetries + 1) * (WaitTimeout + 1 + CallTimeout) =
        MaxRetries * (WaitTimeout + CallTimeout) + MaxRetries
          + (WaitTimeout + CallTimeout) + 1
  OBVIOUS
<1> DEFINE A == MaxRetries * (WaitTimeout + CallTimeout)
           B == MaxRetries * Backoff
<1>3. A \in Nat /\ B \in Nat
  OBVIOUS
<1> HIDE DEF A, B
<1>4. LongestTalk = A + MaxRetries + (WaitTimeout + CallTimeout) + 1 + B
  BY <1>2, <1>3 DEF LongestTalk, A, B
<1>5. Allowance(MaxRetries) = A + B
  BY <1>1 DEF A, B
<1> QED
  BY <1>3, <1>4, <1>5

LEMMA SilenceInTalk ==
  ASSUME Counts, InTime
  PROVE  silence <= Allowance(MaxRetries) + WaitTimeout + CallTimeout
<1> USE GatekeeperAssumption, Periods DEF GatekeeperAssumption
<1>1. CASE pc = "polling"
  <2>1. Allowance(attempt) <= Allowance(MaxRetries)
    BY <1>1 DEF Counts, InTime
  <2> QED
    BY <1>1, <2>1 DEF Counts, InTime
<1>2. CASE pc = "calling"
  <2>1. attempt - 1 \in Nat /\ attempt - 1 <= MaxRetries
    <3>1. attempt \in 1 .. MaxRetries + 1
      BY <1>2 DEF InTime
    <3> QED
      BY <3>1
  <2>2. Allowance(attempt - 1) <= Allowance(MaxRetries) /\ Allowance(attempt - 1) \in Nat
    BY <2>1
  <2> QED
    BY <1>2, <2>1, <2>2 DEF Counts, InTime
<1>3. CASE pc = "backoff"
  <2>1. Allowance(attempt) <= Allowance(MaxRetries)
    BY <1>3 DEF Counts, InTime
  <2> QED
    BY <1>3, <2>1 DEF Counts, InTime
<1>4. CASE pc = "idle"
  BY <1>4 DEF InTime
<1> QED
  BY <1>1, <1>2, <1>3, <1>4 DEF Counts

LEMMA TalkInTime ==
  ASSUME Counts, InTime, Poll \/ Call, silence' = silence
  PROVE  InTime'
<1> USE GatekeeperAssumption, Periods DEF GatekeeperAssumption
<1>0. silence <= Allowance(MaxRetries) + WaitTimeout + CallTimeout
  BY SilenceInTalk
<1>1. CASE PollLocked \/ PollQuota
  <2>1. pc' = "idle"
    BY <1>1 DEF PollLocked, PollQuota, End
  <2> QED
    BY <1>0, <2>1 DEF InTime
<1>2. CASE PollGranted
  <2>1. attempt' = attempt + 1 /\ waited' = 0 /\ pc' = "calling"
    BY <1>2 DEF PollGranted
  <2>2. attempt <= MaxRetries /\ silence <= Allowance(attempt) + WaitTimeout
    BY <1>2 DEF PollGranted, Polling, Counts, InTime
  <2>3. attempt' - 1 = attempt /\ attempt \in Nat
    BY <2>1 DEF Counts
  <2> QED
    BY <2>1, <2>2, <2>3 DEF InTime, Counts
<1>3. CASE PollEmpty
  <2>1. /\ pc = "polling" /\ pause = 0 /\ attempt' = attempt /\ waited' = waited
        /\ silence' = silence
    BY <1>3 DEF PollEmpty, Polling
  <2>2. CASE waited >= WaitTimeout /\ pc' = "idle"
    BY <2>1, <2>2 DEF Counts, InTime
  <2>3. CASE waited < WaitTimeout /\ pc' = pc /\ pause' = 1
    BY <2>1, <2>3 DEF Counts, InTime
  <2> QED
    BY <1>3, <2>2, <2>3 DEF PollEmpty, End, Counts
<1>4. CASE Requeue
  BY <1>4 DEF Requeue, Counts, InTime
<1>5. CASE Call
  <2>1. pc = "calling" /\ attempt' = attempt /\ attempt \in 1 .. MaxRetries + 1
    BY <1>5 DEF Call, CallSucceeds, CallFails, CallRaises, Counts, InTime
  <2>2. silence <= Allowance(attempt - 1) + WaitTimeout + CallTimeout
    BY <2>1 DEF Counts, InTime
  <2>3. attempt - 1 \in Nat /\ attempt = (attempt - 1) + 1
    BY <2>1
  <2>5. CASE pc' = "idle"
    BY <1>0, <2>5 DEF InTime
  <2>6. CASE pc' = "backoff" /\ pause' = Backoff /\ attempt <= MaxRetries
    <3>1. Allowance((attempt - 1) + 1) = Allowance(attempt - 1) + Period
      BY <2>3
    <3>2. Allowance(attempt) = Allowance(attempt - 1) + Period
      BY <2>3, <3>1
    <3>3. Allowance(attempt - 1) \in Nat
      BY <2>3
    <3> QED
      BY <2>1, <2>2, <2>6, <3>2, <3>3 DEF InTime, Counts, Period
  <2> QED
    BY <1>5, <2>1, <2>5, <2>6 DEF Call, CallSucceeds, CallFails, CallRaises, End
<1> QED
  BY <1>1, <1>2, <1>3, <1>4, <1>5 DEF Poll

LEMMA TickInTime ==
  ASSUME Counts, InTime, Asleep \/ pc = "calling", Tick, silence' <= silence + 1, silence' \in Nat
  PROVE  InTime'
<1> USE GatekeeperAssumption, Periods DEF GatekeeperAssumption
<1>1. attempt' = attempt /\ pc' = pc /\ attempt \in Nat
  BY DEF Tick, Counts
<1>2. CASE pc = "polling"
  BY <1>1, <1>2 DEF Tick, Asleep, Limit, Counts, InTime
<1>3. CASE pc = "calling"
  <2>1. waited' = waited + 1 /\ waited' <= CallTimeout
    BY <1>3 DEF Tick, Limit, Counts
  <2>2. attempt - 1 \in Nat /\ Allowance(attempt - 1) \in Nat
    <3>1. attempt \in 1 .. MaxRetries + 1
      BY <1>3 DEF InTime
    <3>2. attempt - 1 \in Nat
      BY <3>1
    <3> QED
      BY <3>2
  <2> QED
    BY <1>1, <1>3, <2>1, <2>2 DEF InTime, Counts
<1>4. CASE pc = "backoff"
  <2>1. pause' = pause - 1 /\ pause > 0
    BY <1>4 DEF Tick, Asleep, Counts
  <2> QED
    BY <1>1, <1>4, <2>1 DEF InTime, Counts
<1> QED
  BY <1>2, <1>3, <1>4 DEF Asleep

LEMMA AliveStep ==
  ASSUME LongestTalk <= Timeout, Counts, Alive, [GameNext]_allVars, ~hung'
  PROVE  Alive'
<1> USE GatekeeperAssumption, WatchdogAssumption DEF GatekeeperAssumption, WatchdogAssumption
<1>0. CASE UNCHANGED allVars
  BY <1>0 DEF allVars, vars, loopVars, Alive, InTime
<1>1. CASE Pass
  <2>1. silence' \in Nat /\ silence' <= silence + 1
    BY <1>1 DEF Pass, Counts
  <2>2. loop' = loop /\ dog' = dog /\ pc' = pc
    BY <1>1 DEF Pass, Tick
  <2>3. CASE loop = "talking"
    <3>1. InTime'
      BY <1>1, <2>1, <2>3, TickInTime DEF Pass, MayPass, Alive
    <3> QED
      BY <2>2, <2>3, <3>1 DEF Alive
  <2>4. CASE loop \in {"waiting", "sending"}
    <3>1. silence' <= Timeout
      BY <1>1, <2>1, <2>4 DEF Pass, MayPass, Block, Counts
    <3> QED
      BY <2>2, <2>4, <3>1 DEF Alive
  <2> QED
    BY <1>1, <2>3, <2>4 DEF Pass, MayPass, Alive
<1>2. CASE Decide
  <2>1. silence' = 0 /\ dog' = dog /\ pc = "idle"
    BY <1>2 DEF Decide, Alive
  <2>2. CASE loop' = "sending" /\ UNCHANGED vars
    BY <2>1, <2>2 DEF Alive, vars
  <2>3. CASE loop' = "talking" /\ Request
    <3>1. InTime'
      BY <2>1, <2>3, Periods DEF Request, InTime
    <3> QED
      BY <2>1, <2>3, <3>1 DEF Alive
  <2> QED
    BY <1>2, <2>2, <2>3 DEF Decide, Enter
<1>3. CASE Talk
  <2>1. loop' = loop /\ dog' = dog /\ silence' = silence /\ loop = "talking"
    BY <1>3 DEF Talk, loopVars
  <2>2. InTime'
    BY <1>3, <2>1, TalkInTime DEF Talk, Alive
  <2> QED
    BY <2>1, <2>2 DEF Alive
<1>4. CASE Spoken
  <2>1. silence' = silence /\ dog' = dog /\ loop' = "sending" /\ pc' = "idle" /\ InTime /\ pc = "idle"
    BY <1>4 DEF Spoken, Enter, vars, Alive
  <2>2. silence <= Timeout
    <3>1. Allowance(MaxRetries) + WaitTimeout + CallTimeout <= Timeout
      BY TalkIsBounded
    <3>2. Allowance(MaxRetries) \in Nat
      BY Periods
    <3> QED
      BY <2>1, <3>1, <3>2 DEF InTime, Counts
  <2> QED
    BY <2>1, <2>2 DEF Alive
<1>5. CASE Beat
  BY <1>5 DEF Beat, vars, Alive
<1>6. CASE GiveUp \/ RivalAnswers \/ Acknowledged
  BY <1>6 DEF GiveUp, RivalAnswers, Acknowledged, Classify, Enter, vars, Alive
<1>7. CASE Hang \/ Return
  BY <1>7 DEF Hang, Return, Alive
<1>8. CASE Thread
  <2>1. CASE loop = "talking"
    <3>1. ~Fire
      BY DEF Fire, Alive
    <3>2. silence <= Timeout
      <4>1. Allowance(MaxRetries) + WaitTimeout + CallTimeout <= Timeout
        BY TalkIsBounded
      <4>2. silence <= Allowance(MaxRetries) + WaitTimeout + CallTimeout
        BY <2>1, SilenceInTalk DEF Alive
      <4>3. Allowance(MaxRetries) \in Nat
        BY Periods
      <4> QED
        BY <4>1, <4>2, <4>3 DEF Counts
    <3> QED
      BY <1>8, <3>1, <3>2 DEF Thread, Watch, Counts
  <2>2. CASE loop # "talking"
    BY <1>8, <2>2 DEF Thread, Watch, Fire, Alive, Counts
  <2> QED
    BY <2>1, <2>2
<1> QED
  BY <1>0, <1>1, <1>2, <1>3, <1>4, <1>5, <1>6, <1>7, <1>8 DEF GameNext, Progress

\* A loop that works is never shot when the watchdog outlasts the longest talk:
\* for every timeout, bucket, number of retries and length of slice
\* (peer/watchdog.py:55-91, infra/mcp_client.py:59-86).
THEOREM WatchdogSparesTheLiving == GameSpec => []LiveLoopSpared
<1> DEFINE Inv == Counts /\ (LongestTalk <= Timeout /\ ~hung => Alive)
<1>1. GameInit => Inv
  BY GatekeeperAssumption, WatchdogAssumption
     DEF GatekeeperAssumption, WatchdogAssumption, GameInit, Init, Counts, Alive
<1>2. Inv /\ [GameNext]_allVars => Inv'
  <2> SUFFICES ASSUME Inv, [GameNext]_allVars PROVE Inv'
    OBVIOUS
  <2>1. Counts'
    BY CountsStep
  <2>2. ASSUME LongestTalk <= Timeout, ~hung' PROVE Alive'
    <3>1. ~hung
      BY <2>2 DEF GameNext, Progress, Pass, Decide, Talk, Spoken, Beat, GiveUp, RivalAnswers,
                  Acknowledged, Hang, Return, Thread, Watch, Fire, Classify, loopVars, allVars
    <3> QED
      BY <2>2, <3>1, AliveStep
  <2> QED
    BY <2>1, <2>2
<1>3. Inv => LiveLoopSpared
  BY DEF LiveLoopSpared, Alive
<1> HIDE DEF Inv
<1> QED
  BY <1>1, <1>2, <1>3, PTL DEF GameSpec
=============================================================================
