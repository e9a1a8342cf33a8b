---------------------------- MODULE MCHandshake ----------------------------
(* The shipped configuration of each wire and its one-step neighbours. *)
EXTENDS Handshake

CONSTANTS m1, m2

Shipped ==
  [fixed |-> "appendix VI", grid_size |-> 7, max_moves |-> 35,
   survival_threshold |-> 35, requests_per_minute |-> 30, num_games |-> 6]

Hidden ==
  [shared |-> Shipped, wire |-> "reference", mode |-> "belief",
   scent |-> m1, shape |-> m1, counted |-> FALSE]

Bookletter == [Hidden EXCEPT !.wire = "bookletter", !.shape = Undeclared]

MCConfigurations ==
  {Hidden,
   [Hidden EXCEPT !.scent = Undeclared, !.shape = Undeclared],
   [Hidden EXCEPT !.scent = m2],
   [Hidden EXCEPT !.shape = m2],
   [Hidden EXCEPT !.mode = "exact"],
   [Hidden EXCEPT !.counted = TRUE],
   [Hidden EXCEPT !.shared.num_games = 2],
   [Hidden EXCEPT !.shared.num_games = 2, !.counted = TRUE],
   [Hidden EXCEPT !.shared.grid_size = 6],
   [Hidden EXCEPT !.shared.max_moves = 40],
   [Hidden EXCEPT !.shared.requests_per_minute = 60],
   Bookletter,
   [Bookletter EXCEPT !.mode = "exact"],
   [Bookletter EXCEPT !.shared.fixed = "changed"],
   [Bookletter EXCEPT !.shared.requests_per_minute = 60]}
=============================================================================
