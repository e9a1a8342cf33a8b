------------------------------ MODULE Watchdog ------------------------------
(***************************************************************************)
(* The game loop of one peer and the watchdog thread that monitors it.     *)
(*                                                                         *)
(* The loop alternates waiting for the rival, talking (one call through    *)
(* the gatekeeper, module Gatekeeper) and sending.  Waits and sends are    *)
(* cut in slices and beat the heartbeat at each; the gatekeeper does not.  *)
(* The thread compares the age of the heartbeat with its timeout and shuts *)
(* the transport down; the comparison and the shutdown are two steps.      *)
(*                                                                         *)
(* Time is the gatekeeper's.  It passes only as far as the sleeps of a     *)
(* runnable thread allow: a slice, a poll and a provider's timeout end on  *)
(* time.  Only a hang makes the loop overrun them.                         *)
(***************************************************************************)
EXTENDS Gatekeeper

CONSTANTS
  Timeout,      \* watchdog_timeout_sec
  Slice,        \* the longest wait between two beats
  TurnTimeout,  \* turn_timeout_seconds
  HalfTurns     \* bound on the half-turns of a game

ASSUME WatchdogAssumption ==
  /\ Timeout \in Nat \ {0} /\ Slice \in Nat \ {0} /\ Slice <= Timeout
  /\ TurnTimeout \in Nat \ {0} /\ HalfTurns \in Nat

VARIABLES
  loop,      \* where the game loop is
  silence,   \* age of _last_beat, up to one past the timeout
  patience,  \* what is left of the deadline of a wait or a send
  played,    \* messages of the rival absorbed
  dog,       \* the thread: watching, firing, fired, or stopped
  closed,    \* transport._closed
  hung       \* history: the loop was stuck outside every timeout

loopVars == <<loop, silence, patience, played, dog, closed, hung>>
allVars == <<vars, loopVars>>

Over == loop = "over"

\* Mutant: a send is awaited in one piece.
BlockUnsliced(where) == IF where = "sending" THEN TurnTimeout ELSE Slice

\* _wait polls its inbox and _submit its future, a slice at a time.
Block(where) == Slice

\* The sleep of the gatekeeper's poll and of its backoff.
Asleep == pc \in {"polling", "backoff"} /\ pause > 0

MayPass ==
  \/ loop \in {"waiting", "sending"} /\ silence < Block(loop) /\ patience > 0
  \/ loop = "talking" /\ (Asleep \/ pc = "calling")
  \/ loop = "stuck"

Pass ==
  /\ MayPass /\ Tick
  /\ silence' = IF silence > Timeout THEN silence ELSE silence + 1
  /\ patience' = IF patience > 0 THEN patience - 1 ELSE 0
  /\ UNCHANGED <<loop, played, dog, closed, hung>>

-----------------------------------------------------------------------------
(* The game loop *)

Enter(where) ==
  /\ loop' = where
  /\ patience' = IF where \in {"waiting", "sending"} THEN TurnTimeout ELSE 0

\* Mutant: every slice is given a deadline of its own.
BeatRenewing ==
  /\ loop \in {"waiting", "sending"} /\ silence > 0 /\ patience > 0
  /\ silence' = 0 /\ patience' = TurnTimeout
  /\ UNCHANGED <<vars, loop, played, dog, closed, hung>>

\* The next slice of a wait or of a send starts with a beat.
Beat ==
  /\ loop \in {"waiting", "sending"} /\ silence > 0 /\ patience > 0
  /\ silence' = 0
  /\ UNCHANGED <<vars, loop, patience, played, dog, closed, hung>>

\* The end of play, in whatever way: the watchdog is told to stop.
Classify ==
  /\ Enter("over")
  /\ dog' = IF dog = "watching" THEN "stopped" ELSE dog
  /\ UNCHANGED <<vars, silence, played, closed, hung>>

\* The rival's message is there: the game is over, or it is our half-turn.
RivalAnswers ==
  /\ loop = "waiting" /\ patience > 0
  /\ \/ Classify
     \/ /\ played < HalfTurns /\ played' = played + 1
        /\ Enter("deciding") /\ silence' = 0
        /\ UNCHANGED <<vars, dog, closed, hung>>

\* A template hint, or a hint asked of the provider.
Decide ==
  /\ loop = "deciding"
  /\ \/ Enter("sending") /\ UNCHANGED vars
     \/ Enter("talking") /\ Request
  /\ UNCHANGED <<silence, played, dog, closed, hung>>

\* Inside ApiGatekeeper.execute.
Talk ==
  /\ loop = "talking"
  /\ Poll \/ Call
  /\ UNCHANGED loopVars

\* The hint, or on any refusal the template: the game goes on.
Spoken ==
  /\ loop = "talking" /\ pc = "idle"
  /\ Enter("sending")
  /\ UNCHANGED <<vars, silence, played, dog, closed, hung>>

\* The rival acknowledges; a last message ends the game.
Acknowledged ==
  /\ loop = "sending" /\ patience > 0 /\ ~closed
  /\ \/ Classify
     \/ /\ Enter("waiting") /\ silence' = 0
        /\ UNCHANGED <<vars, played, dog, closed, hung>>

\* DeadlineExpiredError, of a lapsed deadline or a closed transport.
GiveUp ==
  /\ \/ loop \in {"waiting", "sending"} /\ patience = 0
     \/ loop = "sending" /\ closed
  /\ Classify

\* A hang no timeout covers, and a late return from it.
Hang ==
  /\ loop \in {"waiting", "deciding", "sending"} /\ ~hung
  /\ Enter("stuck") /\ hung' = TRUE
  /\ UNCHANGED <<vars, silence, played, dog, closed>>

Return ==
  /\ loop = "stuck"
  /\ Enter("sending")
  /\ UNCHANGED <<vars, silence, played, dog, closed, hung>>

-----------------------------------------------------------------------------
(* The watchdog thread *)

\* Mutant: the thread ends after a check that found the loop alive.
WatchOnce ==
  /\ dog = "watching"
  /\ dog' = IF silence <= Timeout THEN "stopped" ELSE "firing"
  /\ UNCHANGED <<vars, loop, silence, patience, played, closed, hung>>

\* check: ALIVE, or the decision to fire.
Watch ==
  /\ dog = "watching" /\ silence > Timeout
  /\ dog' = "firing"
  /\ UNCHANGED <<vars, loop, silence, patience, played, closed, hung>>

\* The dump, and on_shutdown.
Fire ==
  /\ dog = "firing"
  /\ dog' = "fired" /\ closed' = TRUE
  /\ UNCHANGED <<vars, loop, silence, patience, played, hung>>

-----------------------------------------------------------------------------
GameInit ==
  /\ Init
  /\ loop = "waiting" /\ patience = TurnTimeout /\ silence = 0 /\ played = 0
  /\ dog = "watching" /\ closed = FALSE /\ hung = FALSE

Progress == Decide \/ Talk \/ Spoken \/ Beat \/ GiveUp

Thread == Watch \/ Fire

GameNext ==
  \/ ~Over /\ (Pass \/ Progress \/ RivalAnswers \/ Acknowledged \/ Hang \/ Return)
  \/ Thread

\* Time passes, a runnable loop runs, the thread polls.  Neither the rival nor a
\* stuck loop has to do anything.
GameSpec ==
  /\ GameInit /\ [][GameNext]_allVars
  /\ WF_allVars(~Over /\ Pass) /\ WF_allVars(~Over /\ Progress) /\ WF_allVars(Thread)
-----------------------------------------------------------------------------
(* Properties *)

\* The longest the gatekeeper may hold the loop.
LongestTalk ==
  (MaxRetries + 1) * (WaitTimeout + 1 + CallTimeout) + MaxRetries * Backoff

\* A loop that works is never shot, however slow the rival, the network and the
\* provider are, as long as the watchdog outlasts the longest talk: waits and
\* sends beat, and what does not beat is bounded (watchdog.py:1-8,
\* mcp_client.py:60-66).
LiveLoopSpared ==
  LongestTalk <= Timeout => (dog \in {"firing", "fired"} => hung)

\* A stuck loop is shot, or comes back by itself.
StuckLoopShot == (loop = "stuck") ~> (loop # "stuck" \/ closed)

\* Every game ends or hangs: requests, sends and waits are all bounded.
EveryGameEnds == []<>(loop \in {"over", "stuck"})

\* The claim of talk_providers.py:3, "an LLM failure NEVER blocks a game", whatever
\* the provider's timeouts: a loop that only waits for its hint is not shot.
LlmFailureIsFree == dog = "fired" => hung
=============================================================================
