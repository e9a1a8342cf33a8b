----------------------------- MODULE MCLockstep -----------------------------
(* A 2x2 board: the cop can capture on its first or second action by moving *)
(* S, or let the thief survive.                                             *)
EXTENDS Lockstep

Origin == <<0, 0>>
Below == <<1, 0>>

StayOrS == {MoveAction("STAY"), MoveAction("S")}
StaySE == StayOrS \cup {MoveAction("E")}
=============================================================================
