---------------------------- MODULE GamePhysics ----------------------------
(***************************************************************************)
(* The physics both peers replicate: the board, the law of barriers, the   *)
(* win conditions and the effect of one action on a GameEngine.            *)
(*                                                                         *)
(* A GameEngine is a record; an operation of the Python class is a         *)
(* predicate (would it be accepted?) and a function (the engine after it). *)
(* An operation that raises leaves the engine as it was: every check comes *)
(* before the first assignment.                                            *)
(*                                                                         *)
(* The two scent fields are a function of where the agents stood at the    *)
(* closed full turns, so the engine keeps that history (emissions) in      *)
(* place of the two matrices of intensities.                               *)
(***************************************************************************)
EXTENDS Integers, FiniteSets, Sequences

CONSTANTS
  GridSize,           \* side of the square board
  MaxBarriers,        \* quota of barriers
  MaxMoves,           \* full turns after which the game stops
  SurvivalThreshold,  \* full turns after which the thief has survived
  CopStart,           \* the signed start cells
  ThiefStart

Cell == (0 .. GridSize - 1) \X (0 .. GridSize - 1)

\* Board, RuleSet and GameEngine refuse to be built on anything else.
ASSUME PhysicsAssumption ==
  /\ GridSize \in Nat /\ GridSize >= 2
  /\ MaxBarriers \in Nat
  /\ MaxMoves \in Nat \ {0}
  /\ SurvivalThreshold \in Nat \ {0}
  /\ CopStart \in Cell
  /\ ThiefStart \in Cell

Role == {"police", "thief"}

Rival(role) == IF role = "police" THEN "thief" ELSE "police"

Delta == [N |-> <<-1, 0>>, S |-> <<1, 0>>, E |-> <<0, 1>>, W |-> <<0, -1>>,
          STAY |-> <<0, 0>>]

OrthogonalMoves == {"N", "S", "E", "W"}

Move == OrthogonalMoves \cup {"STAY"}

AppliedTo(move, cell) ==
  <<cell[1] + Delta[move][1], cell[2] + Delta[move][2]>>

Outcome == {"ongoing", "capture", "survival", "technical_loss"}

-----------------------------------------------------------------------------
(* Board *)

InBounds(cell) ==
  /\ 0 <= cell[1] /\ cell[1] < GridSize
  /\ 0 <= cell[2] /\ cell[2] < GridSize

IsPassable(barriers, cell) == InBounds(cell) /\ cell \notin barriers

\* STAY is legal even on a cell that has become a barrier.
MoveLegal(barriers, cell, move) ==
  move = "STAY" \/ IsPassable(barriers, AppliedTo(move, cell))

IsSurrounded(barriers, cell) ==
  \A move \in OrthogonalMoves : ~IsPassable(barriers, AppliedTo(move, cell))

-----------------------------------------------------------------------------
(* Rules *)

Abs(n) == IF n < 0 THEN -n ELSE n

Distance(a, b) == Abs(a[1] - b[1]) + Abs(a[2] - b[2])

BarrierLegal(barriers, cop, target) ==
  /\ Cardinality(barriers) < MaxBarriers
  /\ Distance(cop, target) <= 1
  /\ InBounds(target)
  /\ target \notin barriers

\* Landing, and no orthogonal escape.
CapturedMidRound(barriers, cop, thief) ==
  cop = thief \/ IsSurrounded(barriers, thief)

\* Mutant: survival is checked before capture, and one turn late.
OutcomeOneTurnLate(barriers, cop, thief, turns) ==
  IF turns > SurvivalThreshold \/ turns > MaxMoves THEN "survival"
  ELSE IF CapturedMidRound(barriers, cop, thief) THEN "capture"
  ELSE "ongoing"

OutcomeAfterFullTurn(barriers, cop, thief, turns) ==
  IF CapturedMidRound(barriers, cop, thief) THEN "capture"
  ELSE IF turns >= SurvivalThreshold \/ turns >= MaxMoves THEN "survival"
  ELSE "ongoing"

-----------------------------------------------------------------------------
(* GameEngine *)

\* A fresh engine; the police opens every round of the bookletter wire.
NewEngine ==
  [positions |-> [police |-> CopStart, thief |-> ThiefStart],
   barriers |-> {},
   emissions |-> << >>,
   turns_completed |-> 0,
   outcome |-> "ongoing",
   next_actor |-> "police"]

EngineType ==
  [positions : [Role -> Cell],
   barriers : SUBSET Cell,
   emissions : Seq([Role -> Cell]),
   turns_completed : Nat,
   outcome : Outcome,
   next_actor : Role]

RequireTurn(e, role) == e.outcome = "ongoing" /\ e.next_actor = role

CheckCapturesMidRound(e) ==
  [e EXCEPT !.outcome =
     IF CapturedMidRound(e.barriers, e.positions["police"], e.positions["thief"])
     THEN "capture" ELSE @]

AfterPoliceMove(e, move) ==
  CheckCapturesMidRound(
    [e EXCEPT !.positions["police"] = AppliedTo(move, @),
              !.next_actor = "thief"])

\* Mutant: police_place_barrier forgets the surrounded check.
AfterBarrierUnchecked(e, target) ==
  [e EXCEPT !.barriers = @ \cup {target}, !.next_actor = "thief",
            !.outcome = IF target = e.positions["thief"] THEN "capture" ELSE @]

AfterBarrier(e, target) ==
  LET placed == [e EXCEPT !.barriers = @ \cup {target}, !.next_actor = "thief"]
  IN  IF target = e.positions["thief"]
      THEN [placed EXCEPT !.outcome = "capture"]
      ELSE CheckCapturesMidRound(placed)

\* The full-turn boundary: both scent fields emit once, then the verdict.
CloseFullTurn(e) ==
  [e EXCEPT
     !.emissions = Append(@, e.positions),
     !.turns_completed = @ + 1,
     !.outcome = OutcomeAfterFullTurn(e.barriers, e.positions["police"],
                                      e.positions["thief"],
                                      e.turns_completed + 1)]

AfterThiefMove(e, move) ==
  LET moved == CheckCapturesMidRound(
                 [e EXCEPT !.positions["thief"] = AppliedTo(move, @),
                           !.next_actor = "police"])
  IN  IF moved.outcome = "ongoing" THEN CloseFullTurn(moved) ELSE moved

-----------------------------------------------------------------------------
(* Actions on the wire *)

MoveAction(move) == [type |-> "move", move |-> move]

BarrierAction(cell) == [type |-> "barrier", cell |-> cell]

Action == {MoveAction(m) : m \in Move} \cup {BarrierAction(c) : c \in Cell}

\* Would apply_action accept this action of this actor?
ActionLegal(e, actor, action) ==
  /\ RequireTurn(e, actor)
  /\ \/ /\ action.type = "barrier"
        /\ actor = "police"
        /\ BarrierLegal(e.barriers, e.positions["police"], action.cell)
     \/ /\ action.type = "move"
        /\ MoveLegal(e.barriers, e.positions[actor], action.move)

ApplyAction(e, actor, action) ==
  IF action.type = "barrier" THEN AfterBarrier(e, action.cell)
  ELSE IF actor = "police" THEN AfterPoliceMove(e, action.move)
  ELSE AfterThiefMove(e, action.move)

\* What end_state_digest hashes; equal digests are equal values of this.
EndStateDigest(e) ==
  [positions |-> e.positions, barriers |-> e.barriers,
   turns_completed |-> e.turns_completed, outcome |-> e.outcome]
=============================================================================
