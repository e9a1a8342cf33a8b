---------------------------- MODULE MCHiddenGame ----------------------------
(* A 2x2 board: the cop can land on the thief, wall it in or wall it over;  *)
(* the thief can walk into the cop or into a pocket, or survive.            *)
EXTENDS HiddenGame

Origin == <<0, 0>>
Opposite == <<1, 1>>
Beside == <<0, 1>>

Moves == {MoveAction("STAY"), MoveAction("S"), MoveAction("W")}
MovesAndWalls == Moves \cup {BarrierAction(<<0, 1>>), BarrierAction(<<1, 0>>)}
StayTwoWalls == {MoveAction("STAY"), BarrierAction(<<0, 1>>), BarrierAction(<<1, 0>>)}
=============================================================================
