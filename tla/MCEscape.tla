------------------------------ MODULE MCEscape ------------------------------
(* A 3x3 board: the smallest with a cell that has four neighbours. *)
EXTENDS Escape

Edge == <<0, 1>>
Far == <<2, 0>>
=============================================================================
