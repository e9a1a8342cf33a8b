----------------------------- MODULE Gatekeeper -----------------------------
(***************************************************************************)
(* ApiGatekeeper.execute for one service: token bucket, daily quota, DOS   *)
(* breaker, the polling queue and the bounded retries.                     *)
(*                                                                         *)
(* One caller, the game loop: it is the only thread that uses a gatekeeper,*)
(* so the queue never holds another waiter and the concurrency semaphore is*)
(* always free.  Time is counted in drain intervals; tokens in fractions   *)
(* small enough that one interval refills a whole number of them.          *)
(***************************************************************************)
EXTENDS Integers

CONSTANTS
  Capacity,      \* of the bucket, in fractions of a token
  Cost,          \* fractions that make one token
  Refill,        \* fractions refilled per drain interval
  Threshold,     \* daily_quota_safety_threshold
  Day,           \* drain intervals in a quota window
  TripAfter,     \* dos_trip_after
  WaitTimeout,   \* wait_timeout_seconds, in drain intervals
  Backoff,       \* retry_after_seconds, in drain intervals
  MaxRetries,    \* max_retries
  CallTimeout,   \* the timeout every provider puts on its call
  Horizon        \* longest stretch the rate is observed over

ASSUME GatekeeperAssumption ==
  /\ Capacity \in Nat /\ Cost \in Nat \ {0} /\ Capacity >= Cost
  /\ Refill \in Nat \ {0}
  /\ Threshold \in Nat /\ Day \in Nat \ {0}
  /\ TripAfter \in Nat \ {0}
  /\ WaitTimeout \in Nat /\ Backoff \in Nat /\ MaxRetries \in Nat
  /\ CallTimeout \in Nat
  /\ Horizon \in Nat

VARIABLES
  pc,        \* idle, polling (inside wait_for_token), calling, or backing off
  tokens,    \* TokenBucket._tokens
  count,     \* QuotaManager._count
  age,       \* time since QuotaManager._window_start, up to a day
  denials,   \* DosDetector._consecutive_denials
  locked,    \* DosDetector.locked
  attempt,   \* execute's attempt
  waited,    \* time in wait_for_token or in the call, up to its timeout
  pause,     \* sleep left, before the next poll or the next attempt
  ended,     \* how the last request ended
  watch      \* history: intervals observed and calls let through in them

vars == <<pc, tokens, count, age, denials, locked, attempt, waited, pause, ended,
          watch>>

Init ==
  /\ pc = "idle" /\ tokens = Capacity /\ count = 0 /\ age = 0
  /\ denials = 0 /\ locked = FALSE
  /\ attempt = 0 /\ waited = 0 /\ pause = 0 /\ ended = "none"
  /\ watch = [ticks |-> 0, calls |-> 0]

\* TokenBucket.allow's refill; the minimum with the capacity may be taken at
\* every interval instead of at the next call.
Refilled(t) == IF t + Refill > Capacity THEN Capacity ELSE t + Refill

Limit == IF pc = "calling" THEN CallTimeout ELSE WaitTimeout

\* Time passes, but not past the timeout of a call; the observation may start
\* anew.
Tick ==
  /\ pc = "calling" => waited < CallTimeout
  /\ tokens' = Refilled(tokens)
  /\ age' = IF age < Day THEN age + 1 ELSE age
  /\ waited' = IF pc \in {"polling", "calling"} /\ waited < Limit THEN waited + 1 ELSE waited
  /\ pause' = IF pause > 0 THEN pause - 1 ELSE 0
  /\ \/ watch' = [ticks |-> 0, calls |-> 0]
     \/ watch.ticks < Horizon /\ watch' = [watch EXCEPT !.ticks = @ + 1]
  /\ UNCHANGED <<pc, count, denials, locked, attempt, ended>>

\* execute is called.
Request ==
  /\ pc = "idle"
  /\ pc' = "polling" /\ attempt' = 0 /\ waited' = 0 /\ pause' = 0
  /\ ended' = "none"
  /\ UNCHANGED <<tokens, count, age, denials, locked, watch>>

\* QuotaManager.allow: a new day empties the count.
Counted == IF age >= Day THEN 0 ELSE count

NewAge == IF age >= Day THEN 0 ELSE age

\* DosDetector.record
Record(allowed) ==
  /\ denials' = IF allowed THEN 0 ELSE denials + 1
  /\ locked' = (locked \/ (~allowed /\ denials + 1 >= TripAfter))

End(how) == pc' = "idle" /\ ended' = how

Polling == pc = "polling" /\ pause = 0

\* check: the breaker is open.
PollLocked ==
  /\ Polling /\ locked
  /\ End("dos")
  /\ UNCHANGED <<tokens, count, age, denials, locked, attempt, waited, pause, watch>>

\* check: the quota stops the call.
PollQuota ==
  /\ Polling /\ ~locked
  /\ Counted >= Threshold
  /\ count' = Counted /\ age' = NewAge
  /\ Record(FALSE)
  /\ End("quota")
  /\ UNCHANGED <<tokens, attempt, waited, pause, watch>>

\* Mutant: a poll that finds no token lets the call through.
PollGrantedUnpaid ==
  /\ Polling /\ ~locked /\ Counted < Threshold
  /\ tokens' = IF tokens >= Cost THEN tokens - Cost ELSE 0
  /\ count' = Counted + 1 /\ age' = NewAge
  /\ Record(TRUE)
  /\ attempt' = attempt + 1 /\ pc' = "calling" /\ waited' = 0
  /\ watch' = [watch EXCEPT !.calls = @ + 1]
  /\ UNCHANGED <<pause, ended>>

\* Mutant: the breaker is not consulted when a token is there.
PollGrantedThroughLock ==
  /\ Polling /\ Counted < Threshold /\ tokens >= Cost
  /\ tokens' = tokens - Cost
  /\ count' = Counted + 1 /\ age' = NewAge
  /\ Record(TRUE)
  /\ attempt' = attempt + 1 /\ pc' = "calling" /\ waited' = 0
  /\ watch' = [watch EXCEPT !.calls = @ + 1]
  /\ UNCHANGED <<pause, ended>>

\* check passes: the call is made.
PollGranted ==
  /\ Polling /\ ~locked /\ Counted < Threshold /\ tokens >= Cost
  /\ tokens' = tokens - Cost
  /\ count' = Counted + 1 /\ age' = NewAge
  /\ Record(TRUE)
  /\ attempt' = attempt + 1 /\ pc' = "calling" /\ waited' = 0
  /\ watch' = [watch EXCEPT !.calls = @ + 1]
  /\ UNCHANGED <<pause, ended>>

\* check finds the bucket empty: the quota has been charged and the breaker
\* has recorded a denial all the same; wait_for_token sleeps or times out.
PollEmpty ==
  /\ Polling /\ ~locked /\ Counted < Threshold /\ tokens < Cost
  /\ count' = Counted + 1 /\ age' = NewAge
  /\ Record(FALSE)
  /\ IF waited >= WaitTimeout
     THEN End("timeout") /\ UNCHANGED pause
     ELSE pause' = 1 /\ UNCHANGED <<pc, ended>>
  /\ UNCHANGED <<tokens, attempt, waited, watch>>

CallSucceeds ==
  /\ pc = "calling" /\ End("ok")
  /\ UNCHANGED <<tokens, count, age, denials, locked, attempt, waited, pause, watch>>

\* TransientProviderError: sleep and queue again, a bounded number of times.
CallFails ==
  /\ pc = "calling"
  /\ IF attempt > MaxRetries
     THEN End("provider") /\ UNCHANGED pause
     ELSE pc' = "backoff" /\ pause' = Backoff /\ UNCHANGED ended
  /\ UNCHANGED <<tokens, count, age, denials, locked, attempt, waited, watch>>

\* After the sleep, wait_for_token is entered again with a new deadline.
Requeue ==
  /\ pc = "backoff" /\ pause = 0
  /\ pc' = "polling" /\ waited' = 0
  /\ UNCHANGED <<tokens, count, age, denials, locked, attempt, pause, ended, watch>>

\* Any other error of the call propagates.
CallRaises ==
  /\ pc = "calling" /\ End("raised")
  /\ UNCHANGED <<tokens, count, age, denials, locked, attempt, waited, pause, watch>>

Call == CallSucceeds \/ CallFails \/ CallRaises

Poll == Requeue \/ PollLocked \/ PollQuota \/ PollGranted \/ PollEmpty

Next == Tick \/ Request \/ Poll \/ Call

Spec == Init /\ [][Next]_vars
-----------------------------------------------------------------------------
(* Properties *)

\* The types of the state.
TypeOK ==
  /\ pc \in {"idle", "polling", "calling", "backoff"}
  /\ tokens \in 0 .. Capacity
  /\ count \in 0 .. Threshold
  /\ age \in 0 .. Day
  /\ denials \in Nat /\ locked \in BOOLEAN
  /\ attempt \in 0 .. MaxRetries + 1
  /\ waited \in Nat
  /\ pause \in Nat
  /\ ended \in {"none", "ok", "dos", "quota", "timeout", "provider", "raised"}
  /\ watch \in [ticks : Nat, calls : Nat]

\* Over any stretch of time the provider sees no more calls than the burst and
\* the agreed rate allow, retries included.
RateBounded == watch.calls * Cost <= Capacity + watch.ticks * Refill

\* An open breaker lets nothing through: no sequence of refills, retries or new
\* days reaches the provider again.
LockIsFinal == [][locked => locked' /\ watch'.calls <= watch.calls]_vars
=============================================================================
