---------------------------- MODULE Negotiation ----------------------------
(***************************************************************************)
(* What two peers must agree on before the first move (domain/negotiation, *)
(* wire/terms, wire/lock, shared/info_modes): the shared terms Appendix VI *)
(* admits, the agreement each wire shape makes of them, and the verdict on *)
(* the rival's.                                                            *)
(*                                                                         *)
(* A configuration is a record: shared (the signed game.json), and from the*)
(* private file wire, mode (information regime), scent and shape (the      *)
(* declared hashes of the scent model and of the wire documents), counted. *)
(***************************************************************************)
EXTENDS Integers

CONSTANT Undeclared  \* a family the agreement does not mention

\* Appendix VI: the FIXED values are one value here, the MINIMUMS numbers.
FixedTerms == [fixed |-> "appendix VI"]

MinimumTerms ==
  [grid_size |-> 7, max_moves |-> 35, survival_threshold |-> 35,
   requests_per_minute |-> 30]

\* Table 18, of a counted run only.
CountedFixedTerms == [num_games |-> 6]

Holds(shared, table) == \A t \in DOMAIN table : shared[t] = table[t]

\* validate_shared_terms
ValidShared(shared) ==
  /\ Holds(shared, FixedTerms)
  /\ \A t \in DOMAIN MinimumTerms : shared[t] >= MinimumTerms[t]

\* resolve: replicated engines exist on the bookletter wire only.
Serves(wire) == IF wire = "bookletter" THEN {"belief", "exact"} ELSE {"belief"}

\* The configuration loads and the instance may be built.
Ready(c) ==
  /\ ValidShared(c.shared)
  /\ c.counted => Holds(c.shared, CountedFixedTerms)
  /\ c.mode \in Serves(c.wire)

\* The flat terms carry a single max_steps.
Expressible(shared) == shared.max_moves = shared.survival_threshold

\* terms_from_shared: the rate limits are not among the signed terms.
FlatTerms(shared) ==
  [fixed |-> shared.fixed, board_size |-> shared.grid_size,
   max_steps |-> shared.survival_threshold, num_games |-> shared.num_games]

\* build_agreement: all of the shared terms; no window and no role.
BookletterAgreement(c) ==
  [wire |-> "bookletter", terms |-> c.shared, mode |-> c.mode, scent |-> c.scent]

\* build_negotiate_message, then extend_agreement's declarations.
ReferenceAgreement(c, window, role) ==
  [wire |-> "reference", terms |-> FlatTerms(c.shared), mode |-> c.mode,
   scent |-> c.scent, shape |-> c.shape, sub_game_number |-> window, role |-> role]

\* Mutant: a family only one side declares is a mismatch.
DiffersOneSided(mine, other) == mine # Undeclared /\ mine # other

\* The registry refusal rule: both declare, and the values differ.
Differs(mine, other) ==
  mine # Undeclared /\ other # Undeclared /\ mine # other

\* verify_agreement: every field but the mode must be there and equal, and the
\* mode is always declared.
VerifyAgreement(mine, other) ==
  IF other = mine THEN "accepted" ELSE "violation"

\* Mutant: the sub-game number is not compared.
VerifyAnyWindow(mine, other) ==
  IF \/ other.wire # mine.wire \/ other.terms # mine.terms \/ other.mode # mine.mode
     \/ Differs(mine.scent, other.scent) \/ Differs(mine.shape, other.shape)
  THEN "violation"
  ELSE IF other.role = mine.role THEN "bystander"
  ELSE "accepted"

\* verify_terms_message, verify_declarations, verify_wire_shape and
\* verify_info_mode in their order: terms, scent model and mode are compared
\* before the window and the role, the wire documents (shape) after them.
VerifyReference(mine, other) ==
  IF \/ other.wire # mine.wire \/ other.terms # mine.terms \/ other.mode # mine.mode
     \/ Differs(mine.scent, other.scent)
  THEN "violation"
  ELSE IF other.sub_game_number # mine.sub_game_number \/ other.role = mine.role
  THEN "bystander"
  ELSE IF Differs(mine.shape, other.shape) THEN "violation"
  ELSE "accepted"

Verdict(mine, other) ==
  IF mine.wire = "bookletter" THEN VerifyAgreement(mine, other)
                              ELSE VerifyReference(mine, other)
-----------------------------------------------------------------------------
(* When two configurations may play, said without the agreements. *)

Playable(c) == Ready(c) /\ (c.wire = "reference" => Expressible(c.shared))

Compatible(a, b) ==
  /\ Playable(a) /\ Playable(b)
  /\ a.wire = b.wire /\ a.mode = b.mode
  /\ \/ a.wire = "bookletter" /\ a.shared = b.shared /\ a.scent = b.scent
     \/ /\ a.wire = "reference"
        /\ a.shared.grid_size = b.shared.grid_size
        /\ a.shared.survival_threshold = b.shared.survival_threshold
        /\ a.shared.num_games = b.shared.num_games
        /\ a.scent = b.scent \/ Undeclared \in {a.scent, b.scent}
        /\ a.shape = b.shape \/ Undeclared \in {a.shape, b.shape}
=============================================================================
