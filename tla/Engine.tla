------------------------------- MODULE Engine -------------------------------
(***************************************************************************)
(* One GameEngine driven by arbitrary callers.  It is the authoritative    *)
(* game: what the two replicas of the bookletter wire are shown to         *)
(* implement together (module Lockstep).                                   *)
(***************************************************************************)
EXTENDS GamePhysics

VARIABLE engine

\* Callers may name any cell next to the board as a barrier target.
Target == (-1 .. GridSize) \X (-1 .. GridSize)

Init == engine = NewEngine

\* GameEngine.police_move
PoliceMove(move) ==
  /\ RequireTurn(engine, "police")
  /\ MoveLegal(engine.barriers, engine.positions["police"], move)
  /\ engine' = AfterPoliceMove(engine, move)

\* GameEngine.police_place_barrier
PolicePlaceBarrier(target) ==
  /\ RequireTurn(engine, "police")
  /\ BarrierLegal(engine.barriers, engine.positions["police"], target)
  /\ engine' = AfterBarrier(engine, target)

\* GameEngine.thief_move
ThiefMove(move) ==
  /\ RequireTurn(engine, "thief")
  /\ MoveLegal(engine.barriers, engine.positions["thief"], move)
  /\ engine' = AfterThiefMove(engine, move)

Next ==
  \/ \E move \in Move : PoliceMove(move)
  \/ \E target \in Target : PolicePlaceBarrier(target)
  \/ \E move \in Move : ThiefMove(move)

Spec == Init /\ [][Next]_engine
-----------------------------------------------------------------------------
(* Properties *)

\* The engine never leaves its types; engine operations never produce the
\* technical loss that only the runtimes assign.
TypeOK == engine \in EngineType /\ engine.outcome # "technical_loss"

Cop == engine.positions["police"]

Thief == engine.positions["thief"]

\* The three capture families of rules 46-48, as a state of the board.
Caught ==
  \/ Cop = Thief
  \/ Thief \in engine.barriers
  \/ IsSurrounded(engine.barriers, Thief)

TurnLimit == IF MaxMoves < SurvivalThreshold THEN MaxMoves ELSE SurvivalThreshold

\* Once an action has been played, the game is a capture exactly when the
\* thief is caught on the board: no family is missed by the check of the one
\* action that completes it, and none is declared too early.
CaptureExact ==
  engine = NewEngine \/ ((engine.outcome = "capture") <=> Caught)

\* Survival is declared at the agreed limit, at once and not later, and never
\* for a thief that was caught on that last turn; a game still on has turns
\* left.
SurvivalEarned ==
  /\ engine.outcome = "survival" =>
       engine.turns_completed = TurnLimit /\ ~Caught
  /\ engine.outcome = "ongoing" => engine.turns_completed < TurnLimit

\* Barriers are paid for: at most one per round the cop has played, and never
\* more than the quota.
BarrierBudget ==
  /\ Cardinality(engine.barriers) <= MaxBarriers
  /\ Cardinality(engine.barriers) <=
       engine.turns_completed +
         (IF engine.next_actor = "thief" \/ engine.outcome = "capture" THEN 1 ELSE 0)

\* What one step may do to the barriers.
BarrierStep ==
  /\ engine.barriers \subseteq engine'.barriers
  /\ engine'.barriers # engine.barriers =>
       /\ engine.next_actor = "police"
       /\ engine'.positions = engine.positions
       /\ \E c \in Cell : /\ Distance(Cop, c) <= 1
                          /\ engine'.barriers = engine.barriers \cup {c}

\* Barriers are permanent; a new one lies within one step of a cop that
\* stood still for it, and only the police's half-turn adds one.
LawOfBarriers == [][BarrierStep]_engine
=============================================================================
