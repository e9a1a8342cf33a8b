----------------------------- MODULE Perception -----------------------------
(***************************************************************************)
(* What a hidden-wire thief makes of the trail its rival transmits.        *)
(*                                                                         *)
(* The police rival walks the board, walls cells, and sends beside each    *)
(* move the field its own ScentField holds. The thief's Perception holds   *)
(* every frame to the update law (consecutive frames must differ by one    *)
(* deposit) and to the movement model (no clamp-level deposit out of       *)
(* reach of the signed start cell), and moves its belief.                  *)
(*                                                                         *)
(* The rival follows the book's law, or has declared the league's other one*)
(* (subtractive_chebyshev): then its frames are solved, never judged.      *)
(*                                                                         *)
(* Intensities are integers in millionths. A frame goes wrong in the ways  *)
(* the code comments on: it arrives stale, it is empty, or its emitter     *)
(* zeroes small residues. The observer may be restarted from its snapshot. *)
(* The belief is abstracted to its support, the cells of non-zero mass:    *)
(* every likelihood in the code is a positive factor except the barriers'. *)
(***************************************************************************)
EXTENDS GamePhysics

CONSTANTS
  None,
  FloorEps,       \* floor_tolerance_eps, in millionths
  Floors,         \* the floors a rival's serializer may have; 0 is none
  MaxTurns,       \* bound: frames sent
  MaxEvents,      \* bound: steps and walls of the rival, and all that goes wrong
  MaxGlitches,    \* bound: stale frames
  MaxSilences,    \* bound: empty frames
  MaxRestarts     \* bound: restarts of the observer

ASSUME PerceptionAssumption ==
  /\ None \notin Cell
  /\ Floors \subseteq Nat /\ FloorEps \in Nat

VARIABLES
  cell,     \* where the rival stands
  walls,    \* the public board
  field,    \* the rival's own ScentField
  path,     \* its boundary_cells: where each emission took place
  percep,   \* the observer's Perception
  hist      \* what went wrong so far

vars == <<cell, walls, field, path, percep, hist>>

-----------------------------------------------------------------------------
(* The scent physics *)

Center == 900000

Kernel == << << 40000, 140000, 200000, 140000,  40000>>,
             <<140000, 420000, 620000, 420000, 140000>>,
             <<200000, 620000, 900000, 620000, 200000>>,
             <<140000, 420000, 620000, 420000, 140000>>,
             << 40000, 140000, 200000, 140000,  40000>> >>

Radius == 2

Silence == [c \in Cell |-> 0]

Keep(value) == (9 * value) \div 10

DeltaAt(c, emitter) ==
  LET dr == c[1] - emitter[1]
      dc == c[2] - emitter[2]
  IN  IF Abs(dr) <= Radius /\ Abs(dc) <= Radius
      THEN Kernel[dr + Radius + 1][dc + Radius + 1] ELSE 0

Clamp(value) == IF value > Center THEN Center ELSE value

\* One full-turn update: decay, then this turn's deposit.
Updated(f, emitter) == [c \in Cell |-> Clamp(Keep(f[c]) + DeltaAt(c, emitter))]

-----------------------------------------------------------------------------
(* The other branch's physics: merge by maximum, then subtract *)

ForeignKernelAt(c, emitter) ==
  LET dr == Abs(c[1] - emitter[1])
      dc == Abs(c[2] - emitter[2])
  IN  IF dr > Radius \/ dc > Radius THEN 0
      ELSE Center - 300000 * (IF dr > dc THEN dr ELSE dc)

\* What is left under 0.0005 is dropped.
Predict(previous, emitter) ==
  [c \in Cell |->
     LET deposit == ForeignKernelAt(c, emitter)
         faded   == (IF previous[c] > deposit THEN previous[c] ELSE deposit) - 100000
     IN  IF faded <= 500 THEN 0 ELSE faded]

-----------------------------------------------------------------------------
(* Trail forensics *)

Tolerance == 1000

ForeignEmitters(previous, current) ==
  {e \in Cell : LET predicted == Predict(previous, e)
                IN  \A c \in Cell : Abs(predicted[c] - current[c]) <= Tolerance}

Explains(previous, current, emitter) ==
  \A c \in Cell :
    Abs(Clamp(Keep(previous[c]) + DeltaAt(c, emitter)) - current[c]) <= Tolerance

\* Mutant: walls are struck from the candidates.
EmittersOffWalls(previous, current, board) ==
  {e \in Cell \ board : Explains(previous, current, e)}

\* The candidate is not filtered by walls: the police may wall its own cell.
Emitters(previous, current, board) ==
  {e \in Cell : Explains(previous, current, e)}

\* decoded_reach is 0 above 0.9 * 0.9^(1/2).
Saturated(f, board) == {c \in Cell \ board : f[c] >= 853815}

\* c is one of credible_cells. Walls are ignored: they appear during the game,
\* and only shrink what the emitter could really reach.
Credible(c, anchor, elapsed) ==
  \E r \in Cell : /\ Distance(r, anchor) <= elapsed
                 /\ Abs(c[1] - r[1]) <= Radius /\ Abs(c[2] - r[2]) <= Radius

IncredibleSaturation(f, board, elapsed) ==
  \E c \in Saturated(f, board) : ~Credible(c, CopStart, elapsed)

Floored(previous, current) ==
  {c \in Cell : /\ previous[c] > 0 /\ current[c] = 0
                /\ 0 < Keep(previous[c]) /\ Keep(previous[c]) <= FloorEps}

\* Mutant: no second look at a frame with floored residues.
SolveStrictly(previous, current, board) ==
  [emitters |-> Emitters(previous, current, board), floored |-> {}]

SolveWithTolerance(previous, current, board) ==
  LET raw     == Emitters(previous, current, board)
      floored == Floored(previous, current)
      patched == [c \in Cell |-> IF c \in floored THEN Keep(previous[c])
                                 ELSE current[c]]
      again   == Emitters(previous, patched, board)
  IN  IF raw # {} \/ floored = {} \/ again = {}
      THEN [emitters |-> raw, floored |-> {}]
      ELSE [emitters |-> again, floored |-> floored]

-----------------------------------------------------------------------------
(* The plateau a dweller saturates *)

SaturatingWindow(c, board) ==
  {w \in Cell \ board : DeltaAt(w, c) >= 90000}

\* Jaccard(plateau, window), as a pair of counts.
Fit(plateau, c, board) ==
  LET window == SaturatingWindow(c, board)
  IN  <<Cardinality(plateau \cap window), Cardinality(plateau \cup window)>>

\* a leads b by n per cent.
Leads(a, b, n) == 100 * (a[1] * b[2] - b[1] * a[2]) >= n * a[2] * b[2]

\* The cell whose window fits by 90 %, 5 % ahead of every other; or none.
PlateauOrigin(f, board) ==
  LET plateau == Saturated(f, board)
      fit     == [c \in plateau |-> Fit(plateau, c, board)]
  IN  IF Cardinality(plateau) < 4 THEN {}
      ELSE {c \in plateau : /\ Leads(fit[c], <<0, 1>>, 90)
                            /\ \A d \in plateau \ {c} : Leads(fit[c], fit[d], 5)}

-----------------------------------------------------------------------------
(* The belief's support *)

Normalized(support) == IF support = {} THEN Cell ELSE support

Steps(c, board) ==
  {c} \cup {AppliedTo(m, c) : m \in {n \in OrthogonalMoves :
                                     IsPassable(board, AppliedTo(n, c))}}

Diffuse(support, board) ==
  Normalized(UNION {Steps(c, board) : c \in support \ board})

\* Mutant: the shift is gathered from the wrong side, new[c] = old[c + delta].
ObserveMotionGathered(support, move, board) ==
  IF move = "STAY" THEN support
  ELSE Normalized({c \in Cell : /\ IsPassable(board, AppliedTo(move, c))
                               /\ AppliedTo(move, c) \in support})

\* A literal move-echo translates the whole posterior.
ObserveMotion(support, move, board) ==
  IF move = "STAY" THEN support
  ELSE {IF IsPassable(board, AppliedTo(move, c)) THEN AppliedTo(move, c) ELSE c
          : c \in support}

\* The placer stands beside its wall; a wall with no passable side says nothing.
ObserveBarrier(support, wall, board) ==
  IF IsSurrounded(board, wall) THEN support ELSE Normalized(support \ {wall})

ObserveScent(support, board) == Normalized(support \ board)

-----------------------------------------------------------------------------
(* Perception *)

NewPerception(law) ==
  [law |-> law, support |-> Cell, age |-> 0, trusted |-> TRUE, previous |-> None,
   breaks |-> 0, head |-> None, refused |-> {}, floored |-> {},
   track |-> << >>]

\* Mutant: the head is the strongest reading, not the law's emitter.
Strongest(emitters, f) == CHOOSE c \in Cell : \A d \in Cell : f[d] <= f[c]

\* The unique emitter that solves the transition, if there is one.
Solved(emitters, f) ==
  IF Cardinality(emitters) = 1 THEN CHOOSE e \in emitters : TRUE ELSE None

\* A declared foreign law is solved for the pin; it never breaks.
ForeignVerdict(p, f) ==
  [broken |-> FALSE,
   percep |-> [p EXCEPT !.head =
                 IF p.previous = None THEN None
                 ELSE Solved(ForeignEmitters(p.previous, f), f)]]

\* The law check: three broken transitions without one that holds latch trust
\* off; an empty frame is neither.
LawVerdict(p, f, board) ==
  IF f = Silence THEN [broken |-> FALSE, percep |-> p]
  ELSE IF p.law = "foreign" THEN ForeignVerdict(p, f)
  ELSE IF p.previous = None THEN [broken |-> FALSE, percep |-> p]
  ELSE
    LET solved == SolveWithTolerance(p.previous, f, board)
        noted  == [p EXCEPT !.floored = IF solved.floored = {} THEN @
                                        ELSE @ \cup {p.age}]
    IN  IF solved.emitters # {}
        THEN [broken |-> FALSE,
              percep |-> [noted EXCEPT !.breaks = 0,
                                       !.head = Solved(solved.emitters, f)]]
        ELSE [broken |-> TRUE,
              percep |-> [noted EXCEPT !.breaks = @ + 1,
                                       !.trusted = @ /\ p.breaks + 1 < 3]]

\* Mutant: the baseline stays at the last frame that held.
BaselineHeld(p, f, refused) == IF refused THEN p.previous ELSE f

\* The baseline advances to whatever arrived.
Baseline(p, f, refused) == f

\* Mutant: a claim pins wherever it likes.
PinUngated(head, wall, claim) == IF claim # None THEN claim ELSE head

\* The emitter pins unless a fresh wall contradicts it; a claim replaces it only
\* where it agrees, and not when it merely names the wall.
Pin(head, wall, claim) ==
  IF head = None \/ (wall # None /\ Distance(head, wall) > 1) THEN None
  ELSE IF claim # None /\ claim # wall /\ Distance(claim, head) <= 2 THEN claim
  ELSE head

Observe(p, f, board, echo, wall) ==
  LET moved   == IF echo # None THEN ObserveMotion(p.support, echo, board)
                 ELSE Diffuse(p.support, board)
      walled  == IF wall # None THEN ObserveBarrier(moved, wall, board) ELSE moved
      verdict == LawVerdict([p EXCEPT !.support = walled, !.age = @ + 1], f, board)
      v       == verdict.percep
      trusted == v.trusted /\ ~IncredibleSaturation(f, board, v.age)
      refused == verdict.broken \/ ~trusted
      judged  == [v EXCEPT !.trusted = trusted,
                           !.previous = Baseline(p, f, refused)]
  IN  IF refused THEN [judged EXCEPT !.refused = @ \cup {v.age}]
      ELSE [judged EXCEPT !.support = ObserveScent(@, board),
                          !.head = None,
                          !.track = Append(@, v.head)]

-----------------------------------------------------------------------------
(* The rival's turn, and the observer's restart *)

Init ==
  /\ cell = CopStart /\ walls = {} /\ field = Silence /\ path = << >>
  /\ \E law \in {"book", "foreign"} : percep = NewPerception(law)
  /\ \E floor \in Floors, echoes \in BOOLEAN :
       /\ percep.law = "foreign" => floor = 0
       /\ hist = [sent |-> 0, acts |-> 0, glitches |-> 0, silences |-> 0,
                  restarts |-> 0, floor |-> floor, echoes |-> echoes,
                  revisited |-> FALSE, onWall |-> FALSE, frame |-> Silence,
                  wall |-> None]

Events == hist.acts + hist.glitches + hist.silences + hist.restarts
            + (IF hist.floor = 0 /\ percep.law = "book" THEN 0 ELSE 1)

\* serialize_scent of a peer whose serializer zeroes residues up to floor.
Serialized(f) == [c \in Cell |-> IF f[c] <= hist.floor THEN 0 ELSE f[c]]

\* The police's field takes the boundary's update when the thief's message
\* arrives, then the police acts, then the frame leaves: one turn behind.
Turn(action, to, board, wall) ==
  LET emitted == IF percep.law = "book" THEN Updated(field, cell)
                                         ELSE Predict(field, cell)
      honest  == Serialized(emitted)
      quiet   == action = MoveAction("STAY")
      loaded  == {c \in Cell : field[c] > 0 /\ field[c] <= hist.floor
                               /\ DeltaAt(c, cell) > 0}
      echo    == IF hist.echoes /\ action.type = "move" THEN action.move ELSE None
  IN  \E frame \in {honest, hist.frame, Silence} :
        LET silent == frame = Silence
            stale  == frame # honest /\ ~silent
        IN  /\ hist.sent < MaxTurns
            /\ stale => hist.glitches < MaxGlitches
            /\ silent => hist.silences < MaxSilences
            /\ cell' = to
            /\ walls' = board
            /\ field' = emitted
            /\ path' = Append(path, cell)
            /\ percep' = Observe(percep, frame, board, echo, wall)
            /\ hist' = [hist EXCEPT !.sent = @ + 1,
                          !.acts = IF quiet THEN @ ELSE @ + 1,
                          !.glitches = IF stale THEN @ + 1 ELSE @,
                          !.silences = IF silent THEN @ + 1 ELSE @,
                          !.revisited = @ \/ loaded # {},
                          !.onWall = @ \/ wall = cell,
                          !.frame = frame, !.wall = wall]
            /\ Events' <= MaxEvents

RivalMoves(move) ==
  /\ MoveLegal(walls, cell, move)
  /\ Turn(MoveAction(move), AppliedTo(move, cell), walls, None)

RivalWalls(target) ==
  /\ BarrierLegal(walls, cell, target)
  /\ Turn(BarrierAction(target), cell, walls \cup {target}, target)

\* rearm: the board and the last frame come back, the Perception is new.
Restart ==
  /\ hist.restarts < MaxRestarts
  /\ percep' = NewPerception(percep.law)
  /\ hist' = [hist EXCEPT !.restarts = @ + 1]
  /\ Events' <= MaxEvents
  /\ UNCHANGED <<cell, walls, field, path>>

Next == \/ \E move \in Move : RivalMoves(move)
        \/ \E target \in Cell : RivalWalls(target)
        \/ Restart

Spec == Init /\ [][Next]_vars

-----------------------------------------------------------------------------
(* Properties *)

Undisturbed == hist.glitches = 0 /\ hist.silences = 0 /\ hist.restarts = 0

\* An honest trail is believed to the end, wherever its emitter walks, stays or
\* walls, its own cell included: neither the law check nor the envelope ever
\* refuses one of its frames (perception.py:123-147, trail_forensics.py:38-78).
\* A rival that declared the other law is not blinded whatever is lost, stale or
\* restarted (foreign_scent.py:17-20).
HonestTrailTrusted ==
  (Undisturbed /\ hist.floor = 0) \/ percep.law = "foreign" =>
    percep.trusted /\ percep.refused = {}

\* A stale frame costs two readings at most, and one alone never costs the trust:
\* the baseline moves to whatever arrived, so the third transition holds again
\* (perception.py:137-142).
GlitchCostsTwo ==
  hist.silences = 0 /\ hist.restarts = 0 /\ hist.floor = 0 =>
    /\ hist.glitches <= 1 => percep.trusted
    /\ percep.trusted => Cardinality(percep.refused) <= 2 * hist.glitches

\* A serializer that zeroes residues under the tolerated floor is not refused,
\* as long as no cell it zeroed takes a new deposit (floor_tolerance.py:13-21).
FloorTolerated ==
  Undisturbed /\ ~hist.revisited /\ hist.floor <= FloorEps =>
    percep.trusted /\ percep.refused = {}

\* The rival is always somewhere in the belief's support, whatever frames were
\* lost, refused or restarted away, unless it has stood on a wall of its own
\* (belief.py:54-80, 106-125, 152-167).
TruthInSupport == ~hist.onWall => cell \in percep.support

\* With no reading refused, the k-th emitter the observer solved is the cell the
\* rival emitted from at its k-th boundary: the rule-36 track reproduces the
\* path one turn behind (perception.py:172-176, hidden_turns.py:180-184).
TrackIsPath ==
  Undisturbed /\ percep.refused = {} =>
    /\ Len(percep.track) = Len(path)
    /\ \A k \in 1 .. Len(path) : percep.track[k] \in {None, path[k]}

\* No claim steers the pin away from where the trail puts the rival: whatever
\* cell is claimed, the pinned one is within three steps of the rival, and an
\* honest claim of the cell it stands on is what is pinned (perception.py:177-192).
PinNearTruth ==
  percep.track # << >> /\ percep.age \notin percep.refused /\ Undisturbed =>
    LET head == percep.track[Len(percep.track)]
    IN  /\ \A claim \in Cell \cup {None} :
             LET pin == Pin(head, hist.wall, claim)
             IN  pin # None => Distance(pin, cell) <= 3
        /\ head # None /\ hist.wall # cell => Pin(head, hist.wall, cell) = cell

\* The claim of perception.py:58-62, "SOUND by construction", of an observer that
\* may be resumed: the trail of an honest rival is never distrusted.
AnchorSound == hist.glitches = 0 /\ hist.silences = 0 /\ hist.floor = 0 => percep.trusted

\* The claim of evidence.py:96-103, that the pin is "the emitter's own cell" and that
\* a walker's smeared trail stays silent: what a book trail pins, it was emitted from.
PlateauTrue ==
  percep.law = "book" =>
    \A c \in PlateauOrigin(field, walls) : \E k \in 1 .. Len(path) : path[k] = c
=============================================================================
