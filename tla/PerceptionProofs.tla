-------------------------- MODULE PerceptionProofs --------------------------
(***************************************************************************)
(* For every board, start cell and walk, however long, and every quota of  *)
(* walls: an honest trail is never refused, a stale frame costs two        *)
(* readings, residues a serializer zeroes are tolerated, the track is the  *)
(* rival's path and the pin stays beside it; and whatever happens to the   *)
(* frames the belief never rules out the cell the rival stands on.         *)
(***************************************************************************)
EXTENDS Perception, FiniteSetTheorems, TLAPS

Slots == {"law", "support", "age", "trusted", "previous", "breaks", "head",
          "refused", "floored", "track"}

Tallies == {"sent", "acts", "glitches", "silences", "restarts", "floor", "echoes",
            "revisited", "onWall", "frame", "wall"}

Shape ==
  /\ cell \in Cell
  /\ field \in [Cell -> 0 .. Center]
  /\ DOMAIN percep = Slots /\ DOMAIN hist = Tallies
  /\ percep.law \in {"book", "foreign"}
  /\ hist.sent \in Nat /\ hist.acts \in Nat
  /\ hist.glitches \in Nat /\ hist.silences \in Nat /\ hist.restarts \in Nat

Honest == Undisturbed /\ hist.floor = 0 /\ percep.law = "book"

\* No cell of f reads unless a rival that left the anchor could have marked it.
Anchored(f, elapsed) == \A c \in Cell : f[c] > 0 => Credible(c, CopStart, elapsed)

\* The observer's clock and baseline are the rival's own.
InStep ==
  Honest =>
    /\ percep.age = hist.sent
    /\ Distance(cell, CopStart) <= hist.sent
    /\ Anchored(field, hist.sent)
    /\ percep.previous \in {None, field}
    /\ percep.trusted /\ percep.refused = {}

\* The other law subtracts after it merges: it never reaches the ceiling.
Faint(f) == \A c \in Cell : f[c] \in Int /\ 0 <= f[c] /\ f[c] <= 800000

Foreign ==
  percep.law = "foreign" =>
    /\ Faint(field) /\ Faint(hist.frame)
    /\ percep.trusted /\ percep.refused = {}

Inv == Shape /\ InStep /\ Foreign

-----------------------------------------------------------------------------
(* The grid *)

LEMMA Coordinates ==
  ASSUME NEW c \in Cell
  PROVE  /\ c = <<c[1], c[2]>> /\ c[1] \in Int /\ c[2] \in Int
         /\ 0 <= c[1] /\ c[1] < GridSize /\ 0 <= c[2] /\ c[2] < GridSize
BY PhysicsAssumption DEF Cell

\* One step changes the distance to any cell by at most one.
LEMMA StepLands ==
  ASSUME NEW board, NEW from \in Cell, NEW anchor \in Cell, NEW move \in Move,
         MoveLegal(board, from, move)
  PROVE  /\ AppliedTo(move, from) \in Cell
         /\ Distance(AppliedTo(move, from), anchor) <= Distance(from, anchor) + 1
<1> DEFINE to == AppliedTo(move, from)
<1>1. from[1] \in Int /\ from[2] \in Int /\ anchor[1] \in Int /\ anchor[2] \in Int
  BY Coordinates
<1>2. \/ to = <<from[1] - 1, from[2]>> \/ to = <<from[1] + 1, from[2]>>
      \/ to = <<from[1], from[2] - 1>> \/ to = <<from[1], from[2] + 1>>
      \/ to = <<from[1], from[2]>> /\ move = "STAY"
  BY <1>1 DEF AppliedTo, Delta, Move, OrthogonalMoves
<1>3. to[1] \in Int /\ to[2] \in Int /\ to = <<to[1], to[2]>>
  BY <1>1, <1>2
<1> HIDE DEF to
<1>4. Distance(to, anchor) <= Distance(from, anchor) + 1
  <2> DEFINE dr == from[1] - anchor[1]
             dc == from[2] - anchor[2]
  <2>1. /\ dr \in Int /\ dc \in Int
        /\ Abs(dr - 1) <= Abs(dr) + 1 /\ Abs(dr + 1) <= Abs(dr) + 1
        /\ Abs(dc - 1) <= Abs(dc) + 1 /\ Abs(dc + 1) <= Abs(dc) + 1
        /\ Abs(dr) \in Int /\ Abs(dc) \in Int
        /\ Abs(dr - 1) \in Int /\ Abs(dr + 1) \in Int
        /\ Abs(dc - 1) \in Int /\ Abs(dc + 1) \in Int
    BY <1>1 DEF Abs
  <2>2. Distance(from, anchor) = Abs(dr) + Abs(dc)
    BY DEF Distance
  <2>3. \/ to[1] - anchor[1] = dr - 1 /\ to[2] - anchor[2] = dc
        \/ to[1] - anchor[1] = dr + 1 /\ to[2] - anchor[2] = dc
        \/ to[1] - anchor[1] = dr /\ to[2] - anchor[2] = dc - 1
        \/ to[1] - anchor[1] = dr /\ to[2] - anchor[2] = dc + 1
        \/ to[1] - anchor[1] = dr /\ to[2] - anchor[2] = dc
    BY <1>1, <1>2
  <2> HIDE DEF dr, dc
  <2>4. Distance(to, anchor) \in {Abs(dr - 1) + Abs(dc), Abs(dr + 1) + Abs(dc),
                                  Abs(dr) + Abs(dc - 1), Abs(dr) + Abs(dc + 1),
                                  Abs(dr) + Abs(dc)}
    BY <2>3 DEF Distance
  <2> QED
    BY <2>1, <2>2, <2>4
<1>5. CASE move = "STAY"
  <2>1. to = <<from[1], from[2]>>
    BY <1>1, <1>5 DEF to, AppliedTo, Delta
  <2> QED
    BY <1>4, <2>1, Coordinates DEF to
<1>6. CASE move # "STAY"
  <2>1. InBounds(to)
    BY <1>6 DEF MoveLegal, IsPassable, to
  <2>2. to \in Cell
    BY <1>3, <2>1, PhysicsAssumption DEF InBounds, Cell
  <2> QED
    BY <1>4, <2>2 DEF to
<1> QED
  BY <1>5, <1>6

LEMMA Distances ==
  ASSUME NEW a \in Cell, NEW b \in Cell
  PROVE  Distance(a, b) \in Nat /\ Distance(a, a) = 0
BY Coordinates DEF Distance, Abs

\* What was within reach stays within reach.
LEMMA CredibleLonger ==
  ASSUME NEW c \in Cell, NEW elapsed \in Nat, Credible(c, CopStart, elapsed)
  PROVE  Credible(c, CopStart, elapsed + 1)
<1>1. PICK r \in Cell : /\ Distance(r, CopStart) <= elapsed
                        /\ Abs(c[1] - r[1]) <= Radius /\ Abs(c[2] - r[2]) <= Radius
  BY DEF Credible
<1>2. Distance(r, CopStart) <= elapsed + 1
  BY <1>1, Distances, PhysicsAssumption
<1> QED
  BY <1>1, <1>2 DEF Credible

-----------------------------------------------------------------------------
(* The two laws *)

\* The numerals of the scent, as the provers can use them.
LEMMA Levels ==
  /\ Center \in Nat /\ Tolerance \in Nat /\ 800000 <= Center
  /\ \A x \in Int : x >= 853815 => x > 0 /\ x > 800000
BY SMT DEF Center, Tolerance

LEMMA KernelBounds ==
  ASSUME NEW i \in 1 .. 5, NEW j \in 1 .. 5
  PROVE  Kernel[i][j] \in Nat /\ Kernel[i][j] <= Center
<1>1. i \in {1, 2, 3, 4, 5} /\ j \in {1, 2, 3, 4, 5}
  BY SMT
<1>2. CASE i = 1 \/ i = 5
  BY SMT, <1>1, <1>2 DEF Center, Kernel
<1>3. CASE i = 2 \/ i = 4
  BY SMT, <1>1, <1>3 DEF Center, Kernel
<1>4. CASE i = 3
  BY SMT, <1>1, <1>4 DEF Center, Kernel
<1> QED
  BY <1>1, <1>2, <1>3, <1>4

\* A deposit is bounded, and falls within the kernel's radius.
LEMMA DepositBounds ==
  ASSUME NEW c \in Cell, NEW emitter \in Cell
  PROVE  /\ DeltaAt(c, emitter) \in Nat /\ DeltaAt(c, emitter) <= Center
         /\ DeltaAt(c, emitter) > 0 => /\ Abs(c[1] - emitter[1]) <= Radius
                                       /\ Abs(c[2] - emitter[2]) <= Radius
<1> DEFINE dr == c[1] - emitter[1]
           dc == c[2] - emitter[2]
<1>1. dr \in Int /\ dc \in Int
  BY Coordinates
<1>2. DeltaAt(c, emitter) = IF Abs(dr) <= Radius /\ Abs(dc) <= Radius
                            THEN Kernel[dr + Radius + 1][dc + Radius + 1] ELSE 0
  BY DEF DeltaAt
<1> HIDE DEF dr, dc
<1>3. CASE Abs(dr) <= Radius /\ Abs(dc) <= Radius
  <2>1. dr + Radius + 1 \in 1 .. 5 /\ dc + Radius + 1 \in 1 .. 5
    BY <1>1, <1>3 DEF Abs, Radius
  <2>2. /\ Kernel[dr + Radius + 1][dc + Radius + 1] \in Nat
        /\ Kernel[dr + Radius + 1][dc + Radius + 1] <= Center
    BY <2>1, KernelBounds
  <2> QED
    BY <1>2, <1>3, <2>2 DEF dr, dc
<1>4. CASE ~(Abs(dr) <= Radius /\ Abs(dc) <= Radius)
  BY <1>2, <1>4, Levels
<1> QED
  BY <1>3, <1>4

LEMMA KeepBounds ==
  ASSUME NEW value \in Nat
  PROVE  Keep(value) \in Nat /\ (value = 0 => Keep(value) = 0)
BY DEF Keep

\* An update of the book's law stays within bounds, and what reads after it read
\* before or was just marked.
LEMMA UpdateBounds ==
  ASSUME NEW f \in [Cell -> 0 .. Center], NEW emitter \in Cell
  PROVE  /\ Updated(f, emitter) \in [Cell -> 0 .. Center]
         /\ \A c \in Cell : /\ Updated(f, emitter)[c] = Clamp(Keep(f[c]) + DeltaAt(c, emitter))
                            /\ Updated(f, emitter)[c] > 0 => f[c] > 0 \/ DeltaAt(c, emitter) > 0
<1>1. SUFFICES ASSUME NEW c \in Cell
               PROVE  /\ Clamp(Keep(f[c]) + DeltaAt(c, emitter)) \in 0 .. Center
                      /\ Clamp(Keep(f[c]) + DeltaAt(c, emitter)) > 0
                           => f[c] > 0 \/ DeltaAt(c, emitter) > 0
  BY DEF Updated
<1>2. f[c] \in Nat
  BY Levels
<1>3. /\ Keep(f[c]) \in Nat /\ (f[c] = 0 => Keep(f[c]) = 0)
      /\ DeltaAt(c, emitter) \in Nat
  BY <1>2, KeepBounds, DepositBounds
<1> QED
  BY <1>2, <1>3, Levels DEF Clamp

\* An honest transition is explained by its emitter.
LEMMA HonestSolves ==
  ASSUME NEW f \in [Cell -> 0 .. Center], NEW emitter \in Cell, NEW board
  PROVE  SolveWithTolerance(f, Updated(f, emitter), board).emitters # {}
<1> DEFINE g == Updated(f, emitter)
<1>1. Explains(f, g, emitter)
  <2> SUFFICES ASSUME NEW c \in Cell
               PROVE  Abs(Clamp(Keep(f[c]) + DeltaAt(c, emitter)) - g[c]) <= Tolerance
    BY DEF Explains
  <2>1. g[c] = Clamp(Keep(f[c]) + DeltaAt(c, emitter)) /\ g[c] \in 0 .. Center
    BY UpdateBounds
  <2> HIDE DEF g
  <2> QED
    BY <2>1, Levels DEF Abs
<1>2. emitter \in Emitters(f, g, board)
  BY <1>1 DEF Emitters
<1> HIDE DEF g
<1>3. Emitters(f, g, board) # {}
  BY <1>2
<1>4. SolveWithTolerance(f, g, board).emitters = Emitters(f, g, board)
  BY <1>3 DEF SolveWithTolerance
<1> QED
  BY <1>3, <1>4 DEF g

\* The other law keeps a faint field faint.
LEMMA PredictFaint ==
  ASSUME NEW f, Faint(f), NEW emitter \in Cell
  PROVE  Faint(Predict(f, emitter)) /\ Predict(f, emitter) \in [Cell -> 0 .. Center]
<1>1. ASSUME NEW c \in Cell
      PROVE  LET x == Predict(f, emitter)[c] IN x \in Int /\ 0 <= x /\ x <= 800000
  <2>1. f[c] \in Int /\ 0 <= f[c] /\ f[c] <= 800000
    BY SMT DEF Faint
  <2>2. LET deposit == ForeignKernelAt(c, emitter) IN deposit \in Int /\ deposit <= 900000
    BY SMT, Coordinates DEF ForeignKernelAt, Abs, Radius, Center
  <2> QED
    BY SMT, <2>1, <2>2 DEF Predict
<1>2. Faint(Predict(f, emitter))
  BY SMT, <1>1 DEF Faint
<1>3. \A c \in Cell : Predict(f, emitter)[c] \in 0 .. Center
  BY SMT, <1>1, Levels
<1>4. Predict(f, emitter) = [c \in Cell |-> Predict(f, emitter)[c]]
  BY SMT DEF Predict
<1> QED
  BY SMT, <1>2, <1>3, <1>4

\* Nothing faint is incredible, wherever it stands.
LEMMA FaintIsCredible ==
  ASSUME NEW f, Faint(f), NEW board, NEW elapsed
  PROVE  ~IncredibleSaturation(f, board, elapsed)
BY SMT, Levels DEF IncredibleSaturation, Saturated, Faint

\* Nor is what a rival that set out from the anchor can have marked.
LEMMA AnchoredIsCredible ==
  ASSUME NEW f \in [Cell -> 0 .. Center], NEW board, NEW elapsed, Anchored(f, elapsed)
  PROVE  ~IncredibleSaturation(f, board, elapsed)
BY SMT, Levels DEF IncredibleSaturation, Saturated, Anchored

\* One more turn of the walk, one more turn of reach.
LEMMA UpdateAnchored ==
  ASSUME NEW f \in [Cell -> 0 .. Center], NEW emitter \in Cell, NEW elapsed \in Nat,
         Anchored(f, elapsed), Distance(emitter, CopStart) <= elapsed
  PROVE  Anchored(Updated(f, emitter), elapsed + 1)
<1> SUFFICES ASSUME NEW c \in Cell, Updated(f, emitter)[c] > 0
             PROVE  Credible(c, CopStart, elapsed + 1)
  BY DEF Anchored
<1>1. CASE f[c] > 0
  BY <1>1, CredibleLonger DEF Anchored
<1>2. CASE DeltaAt(c, emitter) > 0
  <2>1. Credible(c, CopStart, elapsed)
    BY <1>2, DepositBounds DEF Credible
  <2> QED
    BY <2>1, CredibleLonger
<1> QED
  BY <1>1, <1>2, UpdateBounds

-----------------------------------------------------------------------------
(* The observer *)

\* The slots the verdict on a frame carries over.
Carried(p, q) ==
  DOMAIN q = Slots /\ q.law = p.law /\ q.age = p.age /\ q.refused = p.refused

\* The check has nothing to hold against the frame.
Lawful(p, f, board) ==
  \/ p.law = "foreign" \/ p.previous = None
  \/ SolveWithTolerance(p.previous, f, board).emitters # {}

Acquitted(p, verdict) == verdict.broken = FALSE /\ verdict.percep.trusted = p.trusted

LEMMA VerdictFacts ==
  ASSUME NEW p, DOMAIN p = Slots, NEW f, NEW board
  PROVE  /\ Carried(p, LawVerdict(p, f, board).percep)
         /\ Lawful(p, f, board) => Acquitted(p, LawVerdict(p, f, board))
<1> DEFINE solved == SolveWithTolerance(p.previous, f, board)
           noted  == [p EXCEPT !.floored = IF solved.floored = {} THEN @
                                           ELSE @ \cup {p.age}]
           v == LawVerdict(p, f, board)
<1>1. CASE f = Silence
  <2>1. v = [broken |-> FALSE, percep |-> p]
    BY <1>1 DEF LawVerdict
  <2> QED
    BY <2>1 DEF Carried, Acquitted
<1>2. CASE f # Silence /\ p.law = "foreign"
  <2>1. v = ForeignVerdict(p, f)
    BY <1>2 DEF LawVerdict
  <2>2. PICK head : v = [broken |-> FALSE, percep |-> [p EXCEPT !.head = head]]
    BY <2>1 DEF ForeignVerdict
  <2> HIDE DEF v
  <2>3. Carried(p, v.percep) /\ Acquitted(p, v)
    BY <2>2 DEF Slots, Carried, Acquitted
  <2> QED
    BY <2>3 DEF v
<1>3. CASE f # Silence /\ p.law # "foreign" /\ p.previous = None
  <2>1. v = [broken |-> FALSE, percep |-> p]
    BY <1>3 DEF LawVerdict
  <2> QED
    BY <2>1 DEF Carried, Acquitted
<1>4. CASE f # Silence /\ p.law # "foreign" /\ p.previous # None
  <2>1. v = IF solved.emitters # {}
            THEN [broken |-> FALSE,
                  percep |-> [noted EXCEPT !.breaks = 0,
                                           !.head = Solved(solved.emitters, f)]]
            ELSE [broken |-> TRUE,
                  percep |-> [noted EXCEPT !.breaks = @ + 1,
                                           !.trusted = @ /\ p.breaks + 1 < 3]]
    BY <1>4 DEF LawVerdict
  <2>2. /\ DOMAIN noted = Slots /\ noted.law = p.law /\ noted.age = p.age
        /\ noted.refused = p.refused /\ noted.trusted = p.trusted
    BY DEF Slots
  <2> HIDE DEF v, noted, solved
  <2>3. CASE solved.emitters # {}
    <3>1. PICK head : v = [broken |-> FALSE, percep |-> [noted EXCEPT !.breaks = 0,
                                                                     !.head = head]]
      BY <2>1, <2>3
    <3>2. Carried(p, v.percep) /\ Acquitted(p, v)
      BY <2>2, <3>1 DEF Slots, Carried, Acquitted
    <3> QED
      BY <3>2 DEF v
  <2>4. CASE solved.emitters = {}
    <3>1. v = [broken |-> TRUE, percep |-> [noted EXCEPT !.breaks = @ + 1,
                                           !.trusted = @ /\ p.breaks + 1 < 3]]
      BY <2>1, <2>4
    <3>2. Carried(p, v.percep)
      BY <2>2, <3>1 DEF Slots, Carried
    <3>3. ~Lawful(p, f, board)
      BY <1>4, <2>4 DEF Lawful, solved
    <3> QED
      BY <3>2, <3>3 DEF v
  <2> QED
    BY <2>3, <2>4
<1> QED
  BY <1>1, <1>2, <1>3, <1>4

\* A frame the law explains and the envelope allows is believed.
LEMMA ObserveFacts ==
  ASSUME NEW p, DOMAIN p = Slots, NEW f, NEW board, NEW echo, NEW wall
  PROVE  LET q == Observe(p, f, board, echo, wall) IN
         /\ DOMAIN q = Slots /\ q.law = p.law /\ q.age = p.age + 1
         /\ /\ p.trusted /\ p.refused = {} /\ Lawful(p, f, board)
            /\ ~IncredibleSaturation(f, board, p.age + 1)
            => q.trusted /\ q.refused = {} /\ q.previous = f
<1> DEFINE moved  == IF echo # None THEN ObserveMotion(p.support, echo, board)
                     ELSE Diffuse(p.support, board)
           walled == IF wall # None THEN ObserveBarrier(moved, wall, board) ELSE moved
           aged   == [p EXCEPT !.support = walled, !.age = @ + 1]
           verdict == LawVerdict(aged, f, board)
           v       == verdict.percep
           trusted == v.trusted /\ ~IncredibleSaturation(f, board, v.age)
           refused == verdict.broken \/ ~trusted
           judged  == [v EXCEPT !.trusted = trusted,
                                !.previous = Baseline(p, f, refused)]
           q == Observe(p, f, board, echo, wall)
<1>1. q = IF refused THEN [judged EXCEPT !.refused = @ \cup {v.age}]
          ELSE [judged EXCEPT !.support = ObserveScent(@, board),
                              !.head = None,
                              !.track = Append(@, v.head)]
  BY DEF Observe
<1>2. /\ DOMAIN aged = Slots /\ aged.law = p.law /\ aged.age = p.age + 1
      /\ aged.refused = p.refused /\ aged.trusted = p.trusted
      /\ aged.previous = p.previous
  BY DEF Slots
<1> HIDE DEF aged, q
<1>3. Carried(aged, v) /\ (Lawful(aged, f, board) => Acquitted(aged, verdict))
  BY <1>2, VerdictFacts
<1> HIDE DEF verdict, v
<1>4. /\ DOMAIN v = Slots /\ v.law = p.law
      /\ v.age = p.age + 1 /\ v.refused = p.refused
  BY <1>2, <1>3 DEF Carried
<1>5. Lawful(p, f, board) => verdict.broken = FALSE /\ v.trusted = p.trusted
  BY <1>2, <1>3 DEF Lawful, Acquitted, v
<1>6. /\ DOMAIN judged = Slots /\ judged.law = p.law /\ judged.age = p.age + 1
      /\ judged.refused = p.refused /\ judged.trusted = trusted
      /\ judged.previous = f
  BY <1>4 DEF Slots, Baseline
<1> HIDE DEF judged
<1>7. DOMAIN q = Slots /\ q.law = p.law /\ q.age = p.age + 1
  BY <1>1, <1>6 DEF Slots
<1>8. ASSUME p.trusted, p.refused = {}, Lawful(p, f, board),
             ~IncredibleSaturation(f, board, p.age + 1)
      PROVE  q.trusted /\ q.refused = {} /\ q.previous = f
  <2>1. trusted /\ ~refused
    BY <1>4, <1>5, <1>8
  <2>2. q = [judged EXCEPT !.support = ObserveScent(@, board),
                           !.head = None,
                           !.track = Append(@, v.head)]
    BY <1>1, <2>1
  <2> HIDE DEF trusted
  <2> QED
    BY <1>6, <1>8, <2>1, <2>2 DEF Slots
<1> QED
  BY <1>7, <1>8 DEF q

-----------------------------------------------------------------------------
(* The steps *)

LEMMA InvInit == Init => Inv
<1> SUFFICES ASSUME Init PROVE Inv
  OBVIOUS
<1> USE DEF Init, NewPerception, Silence
<1>1. Shape
  BY PhysicsAssumption, Levels DEF Shape, Slots, Tallies
<1>2. InStep
  BY PhysicsAssumption, Distances DEF InStep, Anchored
<1>3. Foreign
  BY SMT DEF Foreign, Faint
<1> QED
  BY <1>1, <1>2, <1>3 DEF Inv

\* A serializer that zeroes nothing sends the field.
LEMMA SerializedInFull ==
  ASSUME NEW f \in [Cell -> 0 .. Center], hist.floor = 0
  PROVE  Serialized(f) = f
<1>1. \A c \in Cell : Serialized(f)[c] = f[c]
  BY Levels DEF Serialized
<1>2. Serialized(f) = [c \in Cell |-> Serialized(f)[c]]
  BY DEF Serialized
<1> QED
  BY <1>1, <1>2

LEMMA SerializedFaint ==
  ASSUME NEW f, Faint(f)
  PROVE  Faint(Serialized(f))
BY SMT DEF Faint, Serialized

\* What a turn deposits, and the move it tells of.
Emitted == IF percep.law = "book" THEN Updated(field, cell) ELSE Predict(field, cell)

Echo(action) == IF hist.echoes /\ action.type = "move" THEN action.move ELSE None

\* Cells whose residue was zeroed and which take a new deposit.
Loaded == {c \in Cell : field[c] > 0 /\ field[c] <= hist.floor /\ DeltaAt(c, cell) > 0}

\* What a turn leaves in the bookkeeping.
Noted(frame, honest, action, wall) ==
  [hist EXCEPT !.sent = @ + 1,
               !.acts = IF action = MoveAction("STAY") THEN @ ELSE @ + 1,
               !.glitches = IF frame # honest /\ ~(frame = Silence) THEN @ + 1 ELSE @,
               !.silences = IF frame = Silence THEN @ + 1 ELSE @,
               !.revisited = @ \/ Loaded # {},
               !.onWall = @ \/ wall = cell,
               !.frame = frame, !.wall = wall]

LEMMA TurnParts ==
  ASSUME NEW action, NEW to, NEW board, NEW wall, Turn(action, to, board, wall)
  PROVE  \E frame \in {Serialized(Emitted), hist.frame, Silence} :
           /\ cell' = to /\ walls' = board /\ field' = Emitted /\ path' = Append(path, cell)
           /\ percep' = Observe(percep, frame, board, Echo(action), wall)
           /\ hist' = Noted(frame, Serialized(Emitted), action, wall)
<1>1. PICK frame \in {Serialized(Emitted), hist.frame, Silence} :
        LET silent == frame = Silence
            stale  == frame # Serialized(Emitted) /\ ~silent
        IN  /\ hist.sent < MaxTurns
            /\ stale => hist.glitches < MaxGlitches
            /\ silent => hist.silences < MaxSilences
            /\ cell' = to
            /\ walls' = board
            /\ field' = Emitted
            /\ path' = Append(path, cell)
            /\ percep' = Observe(percep, frame, board, Echo(action), wall)
            /\ hist' = [hist EXCEPT !.sent = @ + 1,
                          !.acts = IF action = MoveAction("STAY") THEN @ ELSE @ + 1,
                          !.glitches = IF stale THEN @ + 1 ELSE @,
                          !.silences = IF silent THEN @ + 1 ELSE @,
                          !.revisited = @ \/ Loaded # {},
                          !.onWall = @ \/ wall = cell,
                          !.frame = frame, !.wall = wall]
            /\ Events' <= MaxEvents
  BY Zenon DEF Turn, Emitted, Echo, Loaded
<1>2. hist' = Noted(frame, Serialized(Emitted), action, wall)
  BY <1>1, Zenon DEF Noted
<1> QED
  BY <1>1, <1>2, Zenon

\* One turn of a rival that steps at most one cell.
LEMMA TurnKeeps ==
  ASSUME Inv, NEW action, NEW to \in Cell, NEW board, NEW wall,
         Distance(to, CopStart) <= Distance(cell, CopStart) + 1,
         Turn(action, to, board, wall)
  PROVE  Inv'
<1> DEFINE emitted == IF percep.law = "book" THEN Updated(field, cell)
                      ELSE Predict(field, cell)
           honest  == Serialized(emitted)
           echo    == IF hist.echoes /\ action.type = "move" THEN action.move ELSE None
           loaded  == {c \in Cell : field[c] > 0 /\ field[c] <= hist.floor
                                    /\ DeltaAt(c, cell) > 0}
           quiet   == action = MoveAction("STAY")
<1>0. PICK frame \in {Serialized(Emitted), hist.frame, Silence} :
        /\ cell' = to /\ walls' = board /\ field' = Emitted /\ path' = Append(path, cell)
        /\ percep' = Observe(percep, frame, board, Echo(action), wall)
        /\ hist' = Noted(frame, Serialized(Emitted), action, wall)
  BY TurnParts, Zenon
<1>1. /\ frame \in {honest, hist.frame, Silence}
      /\ cell' = to /\ field' = emitted
      /\ percep' = Observe(percep, frame, board, echo, wall)
      /\ hist' = [hist EXCEPT !.sent = @ + 1,
                    !.acts = IF quiet THEN @ ELSE @ + 1,
                    !.glitches = IF frame # honest /\ ~(frame = Silence) THEN @ + 1 ELSE @,
                    !.silences = IF frame = Silence THEN @ + 1 ELSE @,
                    !.revisited = @ \/ loaded # {},
                    !.onWall = @ \/ wall = cell,
                    !.frame = frame, !.wall = wall]
  BY <1>0, Zenon DEF Noted, Emitted, Echo, Loaded
<1> HIDE DEF echo, loaded, quiet
<1>2. emitted \in [Cell -> 0 .. Center]
  <2>1. CASE percep.law = "book"
    BY <2>1, UpdateBounds DEF Inv, Shape
  <2>2. CASE percep.law # "book"
    BY <2>2, PredictFaint DEF Inv, Shape, Foreign
  <2> QED
    BY <2>1, <2>2
<1>3. percep.law = "foreign" => Faint(emitted) /\ Faint(frame)
  <2> SUFFICES ASSUME percep.law = "foreign" PROVE Faint(emitted) /\ Faint(frame)
    OBVIOUS
  <2>1. Faint(emitted)
    BY PredictFaint DEF Inv, Shape, Foreign
  <2>2. Faint(honest)
    BY <2>1, SerializedFaint
  <2>3. Faint(hist.frame)
    BY DEF Inv, Foreign
  <2>4. Faint(Silence)
    BY SMT DEF Faint, Silence
  <2> HIDE DEF emitted, honest
  <2> QED
    BY <1>1, <2>1, <2>2, <2>3, <2>4
<1>4. /\ DOMAIN percep' = Slots /\ percep'.law = percep.law
      /\ percep'.age = percep.age + 1
      /\ /\ percep.trusted /\ percep.refused = {} /\ Lawful(percep, frame, board)
         /\ ~IncredibleSaturation(frame, board, percep.age + 1)
         => percep'.trusted /\ percep'.refused = {} /\ percep'.previous = frame
  BY <1>1, ObserveFacts DEF Inv, Shape
<1>5. /\ DOMAIN hist' = Tallies
      /\ hist'.sent = hist.sent + 1 /\ hist'.restarts = hist.restarts
      /\ hist'.floor = hist.floor /\ hist'.frame = frame
      /\ hist'.acts \in {hist.acts, hist.acts + 1}
      /\ hist'.glitches = IF frame # honest /\ ~(frame = Silence)
                          THEN hist.glitches + 1 ELSE hist.glitches
      /\ hist'.silences = IF frame = Silence THEN hist.silences + 1 ELSE hist.silences
  <2> HIDE DEF honest
  <2> QED
    BY <1>1 DEF Inv, Shape, Tallies
<1> HIDE DEF emitted, honest
<1>6. Shape'
  BY <1>1, <1>2, <1>4, <1>5 DEF Inv, Shape
<1>7. InStep'
  <2> SUFFICES ASSUME Honest'
               PROVE  /\ percep'.age = hist'.sent
                      /\ Distance(cell', CopStart) <= hist'.sent
                      /\ Anchored(field', hist'.sent)
                      /\ percep'.previous \in {None, field'}
                      /\ percep'.trusted /\ percep'.refused = {}
    BY DEF InStep
  <2>1. Honest /\ frame = honest
    BY <1>4, <1>5 DEF Honest, Undisturbed, Inv, Shape
  <2>2. /\ percep.age = hist.sent /\ Distance(cell, CopStart) <= hist.sent
        /\ Anchored(field, hist.sent)
        /\ percep.previous \in {None, field}
        /\ percep.trusted /\ percep.refused = {}
    BY <2>1 DEF Inv, InStep
  <2>3. emitted = Updated(field, cell) /\ frame = emitted
    BY <1>2, <2>1, SerializedInFull DEF Honest, emitted, honest
  <2>4. Lawful(percep, frame, board)
    <3>1. SolveWithTolerance(field, frame, board).emitters # {}
      BY <2>3, HonestSolves DEF Inv, Shape
    <3> QED
      BY <2>2, <3>1 DEF Lawful
  <2>5. Anchored(frame, hist.sent + 1)
    BY <2>2, <2>3, UpdateAnchored DEF Inv, Shape
  <2>6. ~IncredibleSaturation(frame, board, percep.age + 1)
    BY <1>2, <2>2, <2>3, <2>5, AnchoredIsCredible
  <2>7. percep'.trusted /\ percep'.refused = {} /\ percep'.previous = frame
    BY <1>4, <2>2, <2>4, <2>6
  <2>8. Distance(cell', CopStart) <= hist'.sent
    BY <1>1, <1>5, <2>2, Distances, PhysicsAssumption DEF Inv, Shape
  <2> QED
    BY <1>1, <1>4, <1>5, <2>2, <2>3, <2>5, <2>7, <2>8
<1>8. Foreign'
  <2> SUFFICES ASSUME percep.law = "foreign"
               PROVE  /\ Faint(field)' /\ Faint(hist.frame)'
                      /\ percep'.trusted /\ percep'.refused = {}
    BY <1>4 DEF Foreign
  <2>1. Lawful(percep, frame, board) /\ percep.trusted /\ percep.refused = {}
    BY DEF Lawful, Inv, Foreign
  <2>2. ~IncredibleSaturation(frame, board, percep.age + 1)
    BY <1>3, FaintIsCredible
  <2>3. Faint(field') /\ Faint(hist'.frame)
    BY <1>1, <1>3, <1>5
  <2> QED
    BY <1>4, <2>1, <2>2, <2>3 DEF Faint
<1> QED
  BY <1>6, <1>7, <1>8 DEF Inv

LEMMA RestartKeeps == Inv /\ Restart => Inv'
<1> SUFFICES ASSUME Inv, Restart PROVE Inv'
  OBVIOUS
<1> USE DEF Restart, NewPerception
<1>1. /\ DOMAIN percep' = Slots /\ percep'.law = percep.law
      /\ percep'.trusted = TRUE /\ percep'.refused = {}
  BY DEF Slots
<1>2. /\ DOMAIN hist' = Tallies /\ hist'.restarts = hist.restarts + 1
      /\ hist'.sent = hist.sent /\ hist'.acts = hist.acts
      /\ hist'.glitches = hist.glitches /\ hist'.silences = hist.silences
      /\ hist'.frame = hist.frame
  BY DEF Inv, Shape, Tallies
<1> USE DEF Inv
<1>3. Shape'
  BY <1>1, <1>2 DEF Shape
<1>4. ~Honest'
  BY <1>2 DEF Honest, Undisturbed, Shape
<1>5. Foreign'
  BY <1>1, <1>2 DEF Foreign, Faint
<1> QED
  BY <1>3, <1>4, <1>5 DEF InStep

LEMMA InvStep == Inv /\ [Next]_vars => Inv'
<1> SUFFICES ASSUME Inv, [Next]_vars PROVE Inv'
  OBVIOUS
<1>0. cell \in Cell /\ CopStart \in Cell
  BY PhysicsAssumption DEF Inv, Shape
<1>1. ASSUME NEW move \in Move, RivalMoves(move)
      PROVE  Inv'
  <2>1. PICK to : to = AppliedTo(move, cell)
    OBVIOUS
  <2>2. to \in Cell /\ Distance(to, CopStart) <= Distance(cell, CopStart) + 1
    BY <1>0, <1>1, <2>1, StepLands DEF RivalMoves
  <2>3. PICK board, action : Turn(action, to, board, None)
    BY <1>1, <2>1 DEF RivalMoves
  <2> QED
    BY <2>2, <2>3, TurnKeeps
<1>2. ASSUME NEW target \in Cell, RivalWalls(target)
      PROVE  Inv'
  <2>1. PICK board, action, to : to = cell /\ Turn(action, to, board, target)
    BY <1>2 DEF RivalWalls
  <2>2. Distance(to, CopStart) <= Distance(cell, CopStart) + 1
    BY <1>0, <2>1, Distances
  <2> QED
    BY <1>0, <2>1, <2>2, TurnKeeps
<1>3. CASE UNCHANGED vars
  BY <1>3 DEF vars, Inv, Shape, InStep, Foreign, Honest, Undisturbed, Anchored, Faint
<1> QED
  BY <1>1, <1>2, <1>3, RestartKeeps DEF Next

-----------------------------------------------------------------------------
(* The theorem *)

\* The law check and the envelope never refuse a frame of an honest rival, on any
\* board, along any walk and between any walls, nor of one that declared the other
\* law, whatever is lost or restarted (perception.py:123-147,
\* trail_forensics.py:38-78, foreign_scent.py:17-20).
THEOREM HonestIsTrusted == Spec => []HonestTrailTrusted
<1>1. Inv => HonestTrailTrusted
  BY DEF Inv, Shape, InStep, Foreign, Honest, HonestTrailTrusted
<1> QED
  BY <1>1, InvInit, InvStep, PTL DEF Spec

-----------------------------------------------------------------------------
(* The belief *)

\* A rival that never walled its own cell stands on none.
Grounded ==
  ~hist.onWall => cell \notin walls /\ cell \in percep.support

\* The weights are never normalised away from a cell that has mass.
LEMMA NormalizedKeeps ==
  ASSUME NEW support, NEW c \in support, c \in Cell
  PROVE  c \in Normalized(support)
BY DEF Normalized

\* The verdict on a frame does not touch the belief.
LEMMA VerdictSupport ==
  ASSUME NEW p, DOMAIN p = Slots, NEW f, NEW board
  PROVE  LawVerdict(p, f, board).percep.support = p.support
<1> DEFINE solved == SolveWithTolerance(p.previous, f, board)
           v == LawVerdict(p, f, board)
<1>1. CASE f = Silence \/ (p.law # "foreign" /\ p.previous = None)
  <2>1. v = [broken |-> FALSE, percep |-> p]
    BY <1>1 DEF LawVerdict
  <2> QED
    BY <2>1
<1>2. CASE f # Silence /\ p.law = "foreign"
  <2>1. v = ForeignVerdict(p, f)
    BY <1>2 DEF LawVerdict
  <2>2. PICK head : v = [broken |-> FALSE, percep |-> [p EXCEPT !.head = head]]
    BY <2>1 DEF ForeignVerdict
  <2> HIDE DEF v
  <2>3. v.percep.support = p.support
    BY <2>2 DEF Slots
  <2> QED
    BY <2>3 DEF v
<1>3. CASE f # Silence /\ p.law # "foreign" /\ p.previous # None
  <2>1. PICK noted :
          /\ noted = [p EXCEPT !.floored = IF solved.floored = {} THEN @
                                           ELSE @ \cup {p.age}]
          /\ v = IF solved.emitters # {}
                 THEN [broken |-> FALSE,
                       percep |-> [noted EXCEPT !.breaks = 0,
                                                !.head = Solved(solved.emitters, f)]]
                 ELSE [broken |-> TRUE,
                       percep |-> [noted EXCEPT !.breaks = @ + 1,
                                                !.trusted = @ /\ p.breaks + 1 < 3]]
    BY <1>3 DEF LawVerdict
  <2> HIDE DEF v, solved
  <2>2. DOMAIN noted = Slots /\ noted.support = p.support
    BY <2>1 DEF Slots
  <2>3. v.percep.support = noted.support
    <3>1. CASE solved.emitters # {}
      BY <2>1, <2>2, <3>1 DEF Slots
    <3>2. CASE solved.emitters = {}
      BY <2>1, <2>2, <3>2 DEF Slots
    <3> QED
      BY <3>1, <3>2
  <2> QED
    BY <2>2, <2>3 DEF v
<1> QED
  BY <1>1, <1>2, <1>3

\* What the observer's belief becomes, before it reads the frame.
Moved(p, board, echo) ==
  IF echo # None THEN ObserveMotion(p.support, echo, board) ELSE Diffuse(p.support, board)

Walled(p, board, echo, wall) ==
  IF wall # None THEN ObserveBarrier(Moved(p, board, echo), wall, board)
  ELSE Moved(p, board, echo)

\* A frame strikes the walls from it at most.
LEMMA ObserveSupport ==
  ASSUME NEW p, DOMAIN p = Slots, NEW f, NEW board, NEW echo, NEW wall
  PROVE  Observe(p, f, board, echo, wall).support
           \in {Walled(p, board, echo, wall),
               ObserveScent(Walled(p, board, echo, wall), board)}
<1> DEFINE aged    == [p EXCEPT !.support = Walled(p, board, echo, wall), !.age = @ + 1]
           verdict == LawVerdict(aged, f, board)
           v       == verdict.percep
           trusted == v.trusted /\ ~IncredibleSaturation(f, board, v.age)
           refused == verdict.broken \/ ~trusted
           judged  == [v EXCEPT !.trusted = trusted,
                                !.previous = Baseline(p, f, refused)]
           q == Observe(p, f, board, echo, wall)
<1>1. q = IF refused THEN [judged EXCEPT !.refused = @ \cup {v.age}]
          ELSE [judged EXCEPT !.support = ObserveScent(@, board),
                              !.head = None,
                              !.track = Append(@, v.head)]
  BY DEF Observe, Walled, Moved
<1>2. DOMAIN aged = Slots /\ aged.support = Walled(p, board, echo, wall)
  BY DEF Slots
<1> HIDE DEF aged, q
<1>3. Carried(aged, v) /\ v.support = aged.support
  BY <1>2, VerdictFacts, VerdictSupport
<1> HIDE DEF verdict, v
<1>4. DOMAIN judged = Slots /\ judged.support = Walled(p, board, echo, wall)
  BY <1>2, <1>3 DEF Slots, Carried
<1> HIDE DEF judged, refused
<1>5. ASSUME refused PROVE q.support = Walled(p, board, echo, wall)
  BY <1>1, <1>4, <1>5 DEF Slots
<1>6. ASSUME ~refused PROVE q.support = ObserveScent(Walled(p, board, echo, wall), board)
  BY <1>1, <1>4, <1>6 DEF Slots
<1> QED
  BY <1>5, <1>6 DEF q

LEMMA TurnOnBelief ==
  ASSUME Inv, NEW action, NEW to, NEW board, NEW wall,
         Turn(action, to, board, wall)
  PROVE  /\ cell' = to /\ walls' = board
         /\ hist'.onWall = (hist.onWall \/ wall = cell)
         /\ percep'.support \in {Walled(percep, board, Echo(action), wall),
                                ObserveScent(Walled(percep, board, Echo(action), wall), board)}
<1> DEFINE emitted == IF percep.law = "book" THEN Updated(field, cell)
                      ELSE Predict(field, cell)
           honest  == Serialized(emitted)
           echo    == IF hist.echoes /\ action.type = "move" THEN action.move ELSE None
           loaded  == {c \in Cell : field[c] > 0 /\ field[c] <= hist.floor
                                    /\ DeltaAt(c, cell) > 0}
           quiet   == action = MoveAction("STAY")
<1>0. PICK frame \in {Serialized(Emitted), hist.frame, Silence} :
        /\ cell' = to /\ walls' = board /\ field' = Emitted /\ path' = Append(path, cell)
        /\ percep' = Observe(percep, frame, board, Echo(action), wall)
        /\ hist' = Noted(frame, Serialized(Emitted), action, wall)
  BY TurnParts, Zenon
<1>1. /\ frame \in {honest, hist.frame, Silence}
      /\ cell' = to /\ walls' = board
      /\ percep' = Observe(percep, frame, board, echo, wall)
      /\ hist' = [hist EXCEPT !.sent = @ + 1,
                    !.acts = IF quiet THEN @ ELSE @ + 1,
                    !.glitches = IF frame # honest /\ ~(frame = Silence) THEN @ + 1 ELSE @,
                    !.silences = IF frame = Silence THEN @ + 1 ELSE @,
                    !.revisited = @ \/ loaded # {},
                    !.onWall = @ \/ wall = cell,
                    !.frame = frame, !.wall = wall]
  BY <1>0, Zenon DEF Noted, Emitted, Echo, Loaded
<1> HIDE DEF honest, loaded, quiet
<1>2. hist'.onWall = (hist.onWall \/ wall = cell)
  BY <1>1 DEF Inv, Shape, Tallies
<1> QED
  BY <1>1, <1>2, ObserveSupport DEF Inv, Shape, Echo

\* The frame strikes walls, and the rival is not in one.
LEMMA ScentKeeps ==
  ASSUME NEW support, NEW board, NEW c \in support, c \in Cell, c \notin board
  PROVE  c \in ObserveScent(support, board)
BY NormalizedKeeps DEF ObserveScent

LEMMA DiffuseFollows ==
  ASSUME NEW support, NEW board, NEW c \in support, c \notin board,
         NEW to \in Steps(c, board), to \in Cell
  PROVE  to \in Diffuse(support, board)
<1>1. to \in UNION {Steps(d, board) : d \in support \ board}
  OBVIOUS
<1> QED
  BY <1>1, NormalizedKeeps DEF Diffuse

LEMMA MoveFollowed ==
  ASSUME Inv, Grounded, NEW move \in Move, RivalMoves(move)
  PROVE  Grounded'
<1> SUFFICES ASSUME ~hist'.onWall
             PROVE  cell' \notin walls' /\ cell' \in percep'.support
  BY DEF Grounded
<1>1. PICK to : to = AppliedTo(move, cell)
  OBVIOUS
<1>2. Turn(MoveAction(move), to, walls, None)
  BY <1>1 DEF RivalMoves
<1>3. cell \in Cell /\ to \in Cell
  BY <1>1, StepLands, PhysicsAssumption DEF RivalMoves, Inv, Shape
<1>4. PICK before : before = Walled(percep, walls, Echo(MoveAction(move)), None)
  OBVIOUS
<1>5. /\ cell' = to /\ walls' = walls
      /\ hist'.onWall = (hist.onWall \/ None = cell)
      /\ percep'.support \in {before, ObserveScent(before, walls)}
  BY <1>2, <1>4, TurnOnBelief
<1>6. cell \notin walls /\ cell \in percep.support
  BY <1>5 DEF Grounded
<1>7. move = "STAY" \/ (move \in OrthogonalMoves /\ IsPassable(walls, to))
  BY <1>1 DEF RivalMoves, MoveLegal, Move
<1>8. move = "STAY" => to = cell
  BY <1>1, <1>3, Coordinates DEF AppliedTo, Delta
<1>9. to \notin walls
  BY <1>6, <1>7, <1>8 DEF IsPassable
<1>10. to \in before
  <2>1. Echo(MoveAction(move)) \in {None, move}
    BY DEF Echo, MoveAction
  <2>2. to \in ObserveMotion(percep.support, move, walls)
    <3>1. CASE move = "STAY"
      BY <1>6, <1>8, <3>1 DEF ObserveMotion
    <3>2. CASE move # "STAY"
      BY <1>1, <1>6, <1>7, <3>2 DEF ObserveMotion
    <3> QED
      BY <3>1, <3>2
  <2>3. to \in Diffuse(percep.support, walls)
    <3>1. to \in Steps(cell, walls)
      BY <1>1, <1>7, <1>8 DEF Steps
    <3> QED
      BY <1>3, <1>6, <3>1, DiffuseFollows
  <2> QED
    BY <1>4, <2>1, <2>2, <2>3 DEF Walled, Moved
<1> QED
  BY <1>3, <1>5, <1>9, <1>10, ScentKeeps

LEMMA WallFollowed ==
  ASSUME Inv, Grounded, NEW target \in Cell, RivalWalls(target)
  PROVE  Grounded'
<1> SUFFICES ASSUME ~hist'.onWall
             PROVE  cell' \notin walls' /\ cell' \in percep'.support
  BY DEF Grounded
<1>1. PICK to, board : to = cell /\ board = walls \cup {target}
  OBVIOUS
<1>2. Turn(BarrierAction(target), to, board, target)
  BY <1>1 DEF RivalWalls
<1>3. to \in Cell
  BY <1>1 DEF Inv, Shape
<1>4. PICK before : before = Walled(percep, board, Echo(BarrierAction(target)), target)
  OBVIOUS
<1>5. /\ cell' = to /\ walls' = board
      /\ hist'.onWall = (hist.onWall \/ target = cell)
      /\ percep'.support \in {before, ObserveScent(before, board)}
  BY <1>2, <1>4, TurnOnBelief
<1>6. target # to /\ to \notin board /\ to \in percep.support
  BY <1>1, <1>5 DEF Grounded
<1>7. to \in before
  <2>1. Echo(BarrierAction(target)) = None
    BY DEF Echo, BarrierAction
  <2>2. to \in Diffuse(percep.support, board)
    <3>1. to \in Steps(to, board)
      BY DEF Steps
    <3> QED
      BY <1>3, <1>6, <3>1, DiffuseFollows
  <2>3. to \in ObserveBarrier(Diffuse(percep.support, board), target, board)
    BY <1>3, <1>6, <2>2, NormalizedKeeps DEF ObserveBarrier
  <2> QED
    BY <1>4, <2>1, <2>2, <2>3 DEF Walled, Moved
<1> QED
  BY <1>3, <1>5, <1>6, <1>7, ScentKeeps

LEMMA GroundedStep == Inv /\ Grounded /\ [Next]_vars => Grounded'
<1> SUFFICES ASSUME Inv, Grounded, [Next]_vars PROVE Grounded'
  OBVIOUS
<1>1. CASE Restart
  <2>1. percep'.support = Cell /\ cell' = cell /\ walls' = walls
    BY <1>1 DEF Restart, NewPerception
  <2>2. hist'.onWall = hist.onWall
    BY <1>1 DEF Restart, Inv, Shape, Tallies
  <2> QED
    BY <2>1, <2>2 DEF Grounded, Inv, Shape
<1>2. CASE UNCHANGED vars
  BY <1>2 DEF vars, Grounded
<1> QED
  BY <1>1, <1>2, MoveFollowed, WallFollowed DEF Next

\* The belief never rules out the cell the rival stands on, whatever frames were
\* lost, stale, refused or restarted away, for every walk and every set of walls
\* (belief.py:54-80, 106-125, 152-167).
THEOREM TruthIsHeld == Spec => []TruthInSupport
<1>1. Init => Grounded
  BY PhysicsAssumption DEF Init, Grounded, NewPerception
<1>2. Grounded => TruthInSupport
  BY DEF Grounded, TruthInSupport
<1> QED
  BY <1>1, <1>2, InvInit, InvStep, GroundedStep, PTL DEF Spec

-----------------------------------------------------------------------------
(* What one cell of the kernel can hold *)

\* The levels a deposit can have.
LEMMA KernelLevels ==
  ASSUME NEW c \in Cell, NEW emitter \in Cell
  PROVE  DeltaAt(c, emitter) \in {0, 40000, 140000, 200000, 420000, 620000, 900000}
<1> DEFINE dr == c[1] - emitter[1]
           dc == c[2] - emitter[2]
<1>1. dr \in Int /\ dc \in Int
  BY Coordinates
<1>2. DeltaAt(c, emitter) = IF Abs(dr) <= Radius /\ Abs(dc) <= Radius
                            THEN Kernel[dr + Radius + 1][dc + Radius + 1] ELSE 0
  BY DEF DeltaAt
<1> HIDE DEF dr, dc
<1>3. CASE Abs(dr) <= Radius /\ Abs(dc) <= Radius
  <2>1. dr + Radius + 1 \in 1 .. 5 /\ dc + Radius + 1 \in 1 .. 5
    BY <1>1, <1>3 DEF Abs, Radius
  <2>2. \A i, j \in 1 .. 5 :
          Kernel[i][j] \in {40000, 140000, 200000, 420000, 620000, 900000}
    <3> SUFFICES ASSUME NEW i \in 1 .. 5, NEW j \in 1 .. 5
                 PROVE  Kernel[i][j] \in {40000, 140000, 200000, 420000, 620000, 900000}
      OBVIOUS
    <3>1. i \in {1, 2, 3, 4, 5} /\ j \in {1, 2, 3, 4, 5}
      BY SMT
    <3>2. CASE i = 1 \/ i = 5
      BY SMT, <3>1, <3>2 DEF Kernel
    <3>3. CASE i = 2 \/ i = 4
      BY SMT, <3>1, <3>3 DEF Kernel
    <3>4. CASE i = 3
      BY SMT, <3>1, <3>4 DEF Kernel
    <3> QED
      BY <3>1, <3>2, <3>3, <3>4
  <2>3. Kernel[dr + Radius + 1][dc + Radius + 1] \in {40000, 140000, 200000, 420000, 620000, 900000}
    BY <2>1, <2>2
  <2> HIDE DEF Kernel
  <2> QED
    BY <1>2, <1>3, <2>3 DEF dr, dc
<1>4. CASE ~(Abs(dr) <= Radius /\ Abs(dc) <= Radius)
  BY <1>2, <1>4
<1> QED
  BY <1>3, <1>4

-----------------------------------------------------------------------------
(* What an observation is *)

\* The transition into frame f is one the book's law does not explain.
Broken(p, f, board) ==
  /\ f # Silence /\ p.law # "foreign" /\ p.previous # None
  /\ SolveWithTolerance(p.previous, f, board).emitters = {}

\* The head the law check leaves.
HeadOf(p, f, board) ==
  IF f = Silence THEN p.head
  ELSE IF p.law = "foreign"
       THEN IF p.previous = None THEN None ELSE Solved(ForeignEmitters(p.previous, f), f)
  ELSE IF p.previous = None \/ Broken(p, f, board) THEN p.head
  ELSE Solved(SolveWithTolerance(p.previous, f, board).emitters, f)

LEMMA VerdictWhole ==
  ASSUME NEW p, DOMAIN p = Slots, p.trusted \in BOOLEAN, NEW f, NEW board
  PROVE  LET v == LawVerdict(p, f, board) IN
         /\ v.broken \in BOOLEAN /\ (v.broken <=> Broken(p, f, board))
         /\ v.percep.head = HeadOf(p, f, board)
         /\ v.percep.track = p.track
         /\ Broken(p, f, board) =>
              /\ v.percep.breaks = p.breaks + 1
              /\ v.percep.trusted \in BOOLEAN
              /\ v.percep.trusted <=> p.trusted /\ p.breaks + 1 < 3
         /\ ~Broken(p, f, board) =>
              /\ v.percep.breaks \in {0, p.breaks}
              /\ v.percep.trusted = p.trusted
         /\ ~Broken(p, f, board) /\ f # Silence /\ p.law # "foreign" /\ p.previous # None =>
              v.percep.breaks = 0
<1> DEFINE solved == SolveWithTolerance(p.previous, f, board)
           v == LawVerdict(p, f, board)
<1>1. CASE f = Silence \/ (p.law # "foreign" /\ p.previous = None)
  <2>1. v = [broken |-> FALSE, percep |-> p]
    BY <1>1 DEF LawVerdict
  <2>2. ~Broken(p, f, board) /\ HeadOf(p, f, board) = p.head
    BY <1>1 DEF Broken, HeadOf
  <2> HIDE DEF v
  <2>3. /\ v.broken = FALSE /\ v.percep = p
    BY <2>1
  <2> QED
    BY <1>1, <2>2, <2>3 DEF v
<1>2. CASE f # Silence /\ p.law = "foreign"
  <2>1. v = ForeignVerdict(p, f)
    BY <1>2 DEF LawVerdict
  <2>2. v = [broken |-> FALSE, percep |-> [p EXCEPT !.head = HeadOf(p, f, board)]]
    BY <1>2, <2>1 DEF ForeignVerdict, HeadOf
  <2>3. ~Broken(p, f, board)
    BY <1>2 DEF Broken
  <2> HIDE DEF v
  <2>4. /\ v.broken = FALSE /\ v.percep.head = HeadOf(p, f, board)
        /\ v.percep.track = p.track /\ v.percep.breaks = p.breaks
        /\ v.percep.trusted = p.trusted
    BY <2>2 DEF Slots
  <2> QED
    BY <1>2, <2>3, <2>4 DEF v
<1>3. CASE f # Silence /\ p.law # "foreign" /\ p.previous # None
  <2>1. PICK noted :
          /\ noted = [p EXCEPT !.floored = IF solved.floored = {} THEN @
                                           ELSE @ \cup {p.age}]
          /\ v = IF solved.emitters # {}
                 THEN [broken |-> FALSE,
                       percep |-> [noted EXCEPT !.breaks = 0,
                                                !.head = Solved(solved.emitters, f)]]
                 ELSE [broken |-> TRUE,
                       percep |-> [noted EXCEPT !.breaks = @ + 1,
                                                !.trusted = @ /\ p.breaks + 1 < 3]]
    BY <1>3 DEF LawVerdict
  <2>2. Broken(p, f, board) <=> (solved.emitters = {})
    BY <1>3 DEF Broken
  <2>3. HeadOf(p, f, board) = IF Broken(p, f, board) THEN p.head ELSE Solved(solved.emitters, f)
    BY <1>3 DEF HeadOf
  <2> HIDE DEF v, solved
  <2>4. /\ DOMAIN noted = Slots /\ noted.track = p.track /\ noted.head = p.head
        /\ noted.breaks = p.breaks /\ noted.trusted = p.trusted
    BY <2>1 DEF Slots
  <2>5. CASE solved.emitters # {}
    <3>1. v.broken = FALSE /\ v.percep = [noted EXCEPT !.breaks = 0,
                                                !.head = Solved(solved.emitters, f)]
      BY <2>1, <2>5
    <3>2. /\ v.percep.head = Solved(solved.emitters, f) /\ v.percep.track = p.track
          /\ v.percep.breaks = 0 /\ v.percep.trusted = p.trusted
      BY <2>4, <3>1 DEF Slots
    <3> QED
      BY <2>2, <2>3, <2>5, <3>1, <3>2 DEF v
  <2>6. CASE solved.emitters = {}
    <3>1. v.broken = TRUE /\ v.percep = [noted EXCEPT !.breaks = @ + 1,
                                            !.trusted = @ /\ p.breaks + 1 < 3]
      BY <2>1, <2>6
    <3>2. /\ v.percep.head = p.head /\ v.percep.track = p.track
          /\ v.percep.breaks = p.breaks + 1
      BY <2>4, <3>1 DEF Slots
    <3>3. v.percep.trusted = (noted.trusted /\ p.breaks + 1 < 3)
      BY <2>4, <3>1 DEF Slots
    <3>4. v.percep.trusted \in BOOLEAN /\ (v.percep.trusted <=> p.trusted /\ p.breaks + 1 < 3)
      BY <2>4, <3>3
    <3> QED
      BY <2>2, <2>3, <2>6, <3>1, <3>2, <3>4 DEF v
  <2> QED
    BY <2>5, <2>6
<1> QED
  BY <1>1, <1>2, <1>3

\* Whether the observer believes frame f.
Believes(p, f, board) ==
  /\ p.trusted /\ ~Broken(p, f, board)
  /\ ~IncredibleSaturation(f, board, p.age + 1)

LEMMA ObserveWhole ==
  ASSUME NEW p, DOMAIN p = Slots, p.trusted \in BOOLEAN, NEW f, NEW board, NEW echo, NEW wall
  PROVE  LET q == Observe(p, f, board, echo, wall) IN
         /\ q.previous = f
         /\ q.trusted \in BOOLEAN
         /\ q.trusted <=> /\ p.trusted /\ ~IncredibleSaturation(f, board, p.age + 1)
                          /\ Broken(p, f, board) => p.breaks + 1 < 3
         /\ Broken(p, f, board) => q.breaks = p.breaks + 1
         /\ ~Broken(p, f, board) => q.breaks \in {0, p.breaks}
         /\ ~Broken(p, f, board) /\ f # Silence /\ p.law # "foreign" /\ p.previous # None =>
              q.breaks = 0
         /\ Believes(p, f, board) =>
              /\ q.refused = p.refused /\ q.head = None
              /\ q.track = Append(p.track, HeadOf(p, f, board))
         /\ ~Believes(p, f, board) =>
              /\ q.refused = p.refused \cup {p.age + 1}
              /\ q.head = HeadOf(p, f, board) /\ q.track = p.track
<1> DEFINE aged   == [p EXCEPT !.support = Walled(p, board, echo, wall), !.age = @ + 1]
           verdict == LawVerdict(aged, f, board)
           v       == verdict.percep
           trusted == v.trusted /\ ~IncredibleSaturation(f, board, v.age)
           refused == verdict.broken \/ ~trusted
           judged  == [v EXCEPT !.trusted = trusted,
                                !.previous = Baseline(p, f, refused)]
           q == Observe(p, f, board, echo, wall)
<1>1. q = IF refused THEN [judged EXCEPT !.refused = @ \cup {v.age}]
          ELSE [judged EXCEPT !.support = ObserveScent(@, board),
                              !.head = None,
                              !.track = Append(@, v.head)]
  BY DEF Observe, Walled, Moved
<1>2. /\ DOMAIN aged = Slots /\ aged.law = p.law /\ aged.age = p.age + 1
      /\ aged.refused = p.refused /\ aged.trusted = p.trusted
      /\ aged.previous = p.previous /\ aged.breaks = p.breaks
      /\ aged.head = p.head /\ aged.track = p.track
  BY DEF Slots
<1> HIDE DEF aged, q
<1>3. /\ Broken(aged, f, board) <=> Broken(p, f, board)
      /\ HeadOf(aged, f, board) = HeadOf(p, f, board)
  BY <1>2 DEF Broken, HeadOf
<1>4. Carried(aged, v)
  BY <1>2, VerdictFacts
<1>5. /\ verdict.broken \in BOOLEAN /\ (verdict.broken <=> Broken(p, f, board))
      /\ v.head = HeadOf(p, f, board) /\ v.track = p.track
      /\ Broken(p, f, board) =>
           /\ v.breaks = p.breaks + 1 /\ v.trusted \in BOOLEAN
           /\ v.trusted <=> p.trusted /\ p.breaks + 1 < 3
      /\ ~Broken(p, f, board) => v.breaks \in {0, p.breaks} /\ v.trusted = p.trusted
      /\ ~Broken(p, f, board) /\ f # Silence /\ p.law # "foreign" /\ p.previous # None =>
           v.breaks = 0
  BY <1>2, <1>3, VerdictWhole
<1> HIDE DEF verdict, v
<1>6. /\ DOMAIN v = Slots /\ v.age = p.age + 1 /\ v.refused = p.refused
  BY <1>2, <1>4 DEF Carried
<1>7. /\ DOMAIN judged = Slots /\ judged.trusted = trusted /\ judged.previous = f
      /\ judged.breaks = v.breaks /\ judged.head = v.head /\ judged.track = v.track
      /\ judged.refused = p.refused
  BY <1>6 DEF Slots, Baseline
<1>8. trusted \in BOOLEAN
  OBVIOUS
<1>9. trusted <=> /\ p.trusted /\ ~IncredibleSaturation(f, board, p.age + 1)
                  /\ Broken(p, f, board) => p.breaks + 1 < 3
  BY <1>5, <1>6
<1>10. refused <=> ~Believes(p, f, board)
  BY <1>5, <1>6, <1>9 DEF Believes
<1> HIDE DEF judged, refused, trusted
<1>11. CASE refused
  <2>1. q = [judged EXCEPT !.refused = @ \cup {v.age}]
    BY <1>1, <1>11
  <2>2. /\ q.previous = f /\ q.trusted = trusted /\ q.breaks = v.breaks
        /\ q.refused = p.refused \cup {p.age + 1} /\ q.head = v.head /\ q.track = p.track
    BY <1>5, <1>6, <1>7, <2>1 DEF Slots
  <2> QED
    BY <1>5, <1>8, <1>9, <1>10, <1>11, <2>2 DEF q
<1>12. CASE ~refused
  <2>1. q = [judged EXCEPT !.support = ObserveScent(@, board), !.head = None,
                           !.track = Append(@, v.head)]
    BY <1>1, <1>12
  <2>2. /\ q.previous = f /\ q.trusted = trusted /\ q.breaks = v.breaks
        /\ q.refused = p.refused /\ q.head = None /\ q.track = Append(p.track, v.head)
    BY <1>5, <1>6, <1>7, <2>1 DEF Slots
  <2> QED
    BY <1>5, <1>8, <1>9, <1>10, <1>12, <2>2 DEF q
<1> QED
  BY <1>11, <1>12

-----------------------------------------------------------------------------
(* A serializer with a floor *)

\* S(f): what a serializer with floor n makes of f.
Cut(f, n) == [c \in Cell |-> IF f[c] <= n THEN 0 ELSE f[c]]

\* The numerals as literals.
LEMMA Numerals ==
  /\ Center = 900000 /\ Tolerance = 1000
  /\ \A y \in Int : Clamp(y) = IF y > 900000 THEN 900000 ELSE y
BY SMT DEF Center, Tolerance, Clamp

\* What a cut transition shows of one cell: either the true emitter explains it, or
\* no emitter does, or the tolerance restores it.
LEMMA CutCell ==
  ASSUME NEW v \in Nat, v <= Center, NEW d \in {0, 40000, 140000, 200000, 420000, 620000, 900000},
         NEW x \in {0, 40000, 140000, 200000, 420000, 620000, 900000},
         NEW n \in Nat, n < 40000,
         NEW before, before = (IF v <= n THEN 0 ELSE v),
         NEW u, u = Clamp(Keep(v) + d),
         NEW after, after = (IF u <= n THEN 0 ELSE u)
  PROVE  /\ Abs(Clamp(Keep(before) + d) - after) <= Tolerance
            \/ Abs(Clamp(Keep(before) + x) - after) > Tolerance
         /\ (v = 0 \/ v > n \/ d = 0) =>
              \/ Abs(Clamp(Keep(before) + d) - after) <= Tolerance
              \/ before > 0 /\ after = 0 /\ 0 < Keep(before) /\ Keep(before) <= n
         /\ before > 0 /\ after = 0 => Clamp(Keep(before) + d) = Keep(before)
<1>1. /\ v \in Int /\ 0 <= v /\ v <= 900000
      /\ Tolerance = 1000 /\ \A y \in Int : Clamp(y) = IF y > 900000 THEN 900000 ELSE y
  BY SMT, Numerals
<1>2. PICK k \in Int : k = Keep(v) /\ 10 * k <= 9 * v /\ 9 * v < 10 * k + 10
  BY SMT, <1>1 DEF Keep
<1>3. k >= 0 /\ k <= 810000 /\ Keep(0) = 0
  BY SMT, <1>1, <1>2 DEF Keep
<1>4. Keep(before) = IF v <= n THEN 0 ELSE k
  BY SMT, <1>2, <1>3
<1>5. u = IF k + d > 900000 THEN 900000 ELSE k + d
  BY SMT, <1>1, <1>2, <1>3
<1>6. \A y \in Int : Abs(y) = IF y < 0 THEN -y ELSE y
  BY SMT DEF Abs
<1>7. CASE v > n
  <2>1. before = v /\ Keep(before) = k /\ v > 0
    BY SMT, <1>7, <1>1, <1>4
  <2>2. CASE u > n
    <3>1. after = u
      BY SMT, <2>2, <1>3, <1>5
    <3>2. after > 0 /\ Clamp(Keep(before) + d) - after = 0
      BY SMT, <2>1, <2>2, <3>1, <1>1, <1>2, <1>3, <1>5
    <3> QED BY SMT, <2>1, <3>2, <1>1, <1>6
  <2>3. CASE u <= n
    <3>1. after = 0 /\ d = 0 /\ u = k
      BY SMT, <2>3, <1>3, <1>5
    <3>2. Clamp(Keep(before) + d) = k /\ Keep(before) = k
      BY SMT, <2>1, <3>1, <1>1, <1>3
    <3>3. Clamp(Keep(before) + x) \in Int /\ Clamp(Keep(before) + x) >= k
      BY SMT, <2>1, <1>1, <1>3
    <3>4. k <= 1000 \/ k > 1000
      BY SMT, <1>3
    <3>5. Abs(k - after) = k /\ (Clamp(Keep(before) + x) > 1000 => Abs(Clamp(Keep(before) + x) - after) > 1000)
      BY SMT, <3>1, <3>3, <1>3, <1>6
    <3> QED BY SMT, <1>1, <2>1, <2>3, <3>1, <3>2, <3>3, <3>4, <3>5, <1>3
  <2> QED BY SMT, <2>2, <2>3, <1>5, <1>3
<1>8. CASE v <= n
  <2>1. before = 0 /\ Keep(before) = 0
    BY SMT, <1>8, <1>4
  <2>2. Clamp(Keep(before) + d) = d /\ Clamp(Keep(before) + x) = x
    BY SMT, <2>1, <1>1
  <2>3. k < 36000 /\ (v = 0 => k = 0)
    BY SMT, <1>8, <1>2, <1>1
  <2>4. CASE d = 0
    <3>1. u = k /\ k <= n
      BY SMT, <2>4, <1>5, <1>3, <1>8, <1>2, <1>1
    <3>2. after = 0 /\ Abs(d - after) = 0
      BY SMT, <3>1, <2>4, <1>6
    <3> QED BY SMT, <1>1, <2>1, <2>2, <3>2
  <2>5. CASE d = 900000
    <3>1. u = 900000 /\ after = 900000
      BY SMT, <2>5, <1>5, <1>3
    <3>2. Abs(d - after) = 0
      BY SMT, <2>5, <3>1, <1>6
    <3> QED BY SMT, <1>1, <2>1, <2>2, <3>2
  <2>6. CASE d \in {40000, 140000, 200000, 420000, 620000}
    <3>1. u = k + d /\ after = k + d
      BY SMT, <2>6, <1>5, <1>3, <2>3
    <3>2. Abs(d - after) = k
      BY SMT, <3>1, <1>6, <1>3, <2>6
    <3>3. k > 1000 => Abs(x - after) > 1000
      <4> SUFFICES ASSUME k > 1000 PROVE Abs(x - (k + d)) > 1000
        BY SMT, <3>1
      <4>1. x - (k + d) \in Int /\ (x - (k + d) < -1000 \/ x - (k + d) > 1000)
        BY SMT, <2>3, <2>6, <1>3
      <4> QED BY SMT, <4>1, <1>6
    <3> QED BY SMT, <1>1, <2>1, <2>2, <2>3, <3>1, <3>2, <3>3, <2>6, <1>3, <1>8
  <2> QED BY SMT, <2>4, <2>5, <2>6
<1> QED BY SMT, <1>7, <1>8, <1>1

\* If some emitter explains a cut transition, the true one does.
LEMMA CutSolves ==
  ASSUME NEW f \in [Cell -> 0 .. Center], NEW emitter \in Cell, NEW board,
         NEW n \in Nat, n < 40000, FloorEps \in Nat,
         NEW E, E = SolveWithTolerance(Cut(f, n), Cut(Updated(f, emitter), n), board).emitters
  PROVE  /\ E \subseteq Cell /\ (E # {} => emitter \in E)
         /\ /\ n <= FloorEps
            /\ \A c \in Cell : f[c] = 0 \/ f[c] > n \/ DeltaAt(c, emitter) = 0
            => E # {}
<1> DEFINE P == Cut(f, n)
           C == Cut(Updated(f, emitter), n)
           floored == Floored(P, C)
           patched == [c \in Cell |-> IF c \in floored THEN Keep(P[c]) ELSE C[c]]
           Fit0(e, c) == Abs(Clamp(Keep(P[c]) + DeltaAt(c, e)) - C[c]) <= Tolerance
           Fit1(e, c) == Abs(Clamp(Keep(P[c]) + DeltaAt(c, e)) - patched[c]) <= Tolerance
           raw == Emitters(P, C, board)
           again == Emitters(P, patched, board)
<1>1. E = IF raw # {} \/ floored = {} \/ again = {} THEN raw ELSE again
  BY DEF SolveWithTolerance
<1>2. ASSUME NEW c \in Cell, NEW e \in Cell
      PROVE  /\ Fit0(emitter, c) \/ ~Fit0(e, c)
             /\ (f[c] = 0 \/ f[c] > n \/ DeltaAt(c, emitter) = 0) =>
                  \/ Fit0(emitter, c)
                  \/ P[c] > 0 /\ C[c] = 0 /\ 0 < Keep(P[c]) /\ Keep(P[c]) <= n
             /\ P[c] > 0 /\ C[c] = 0 => Clamp(Keep(P[c]) + DeltaAt(c, emitter)) = Keep(P[c])
             /\ P[c] \in Nat
  <2>1. /\ DeltaAt(c, emitter) \in {0, 40000, 140000, 200000, 420000, 620000, 900000}
        /\ DeltaAt(c, e) \in {0, 40000, 140000, 200000, 420000, 620000, 900000}
    BY KernelLevels
  <2>2. f[c] \in 0 .. Center /\ Updated(f, emitter)[c] = Clamp(Keep(f[c]) + DeltaAt(c, emitter))
    BY UpdateBounds
  <2>3. /\ P[c] = (IF f[c] <= n THEN 0 ELSE f[c])
        /\ C[c] = (IF Updated(f, emitter)[c] <= n THEN 0 ELSE Updated(f, emitter)[c])
    BY DEF Cut
  <2>4. PICK v, d, x, u, before, after :
          /\ v = f[c] /\ d = DeltaAt(c, emitter) /\ x = DeltaAt(c, e)
          /\ u = Updated(f, emitter)[c] /\ before = P[c] /\ after = C[c]
    OBVIOUS
  <2> HIDE DEF P, C
  <2>5. P[c] \in Nat
    BY <2>2, <2>3, Levels
  <2>6. Abs(Clamp(Keep(before) + x) - after) \in Int /\ Tolerance \in Int
    <3>1. Keep(before) \in Int /\ x \in Int
      BY <2>1, <2>4, <2>5 DEF Keep
    <3>2. Clamp(Keep(before) + x) \in Int
      BY <3>1, Levels DEF Clamp
    <3>3. after \in Int
      BY <2>2, <2>3, <2>4, UpdateBounds, Levels
    <3> QED BY <3>2, <3>3, Levels DEF Abs
  <2>7. v \in Nat /\ v <= Center
    BY <2>2, <2>4, Levels
  <2>8. /\ Abs(Clamp(Keep(before) + d) - after) <= Tolerance
           \/ Abs(Clamp(Keep(before) + x) - after) > Tolerance
        /\ (v = 0 \/ v > n \/ d = 0) =>
             \/ Abs(Clamp(Keep(before) + d) - after) <= Tolerance
             \/ before > 0 /\ after = 0 /\ 0 < Keep(before) /\ Keep(before) <= n
        /\ before > 0 /\ after = 0 => Clamp(Keep(before) + d) = Keep(before)
    BY <2>1, <2>2, <2>3, <2>4, <2>7, CutCell
  <2> QED BY SMT, <2>4, <2>5, <2>6, <2>8
<1>3. ASSUME NEW c \in Cell, c \in floored
      PROVE  Fit1(emitter, c)
  <2>1. P[c] > 0 /\ C[c] = 0 /\ patched[c] = Keep(P[c])
    BY <1>3 DEF Floored
  <2>2. Clamp(Keep(P[c]) + DeltaAt(c, emitter)) = Keep(P[c])
    BY <1>2, <2>1
  <2>3. Keep(P[c]) \in Nat
    BY <1>2 DEF Keep
  <2> HIDE DEF P, C, floored, patched
  <2> QED BY <2>1, <2>2, <2>3, Levels DEF Abs
<1>4. ASSUME NEW c \in Cell, c \notin floored
      PROVE  \A e \in Cell : Fit1(e, c) <=> Fit0(e, c)
  BY <1>4
<1>5. raw = {e \in Cell : \A c \in Cell : Fit0(e, c)}
  BY DEF Emitters, Explains
<1>6. again = {e \in Cell : \A c \in Cell : Fit1(e, c)}
  BY DEF Emitters, Explains
<1>7. \A c \in Cell : c \in floored <=> P[c] > 0 /\ C[c] = 0 /\ 0 < Keep(P[c]) /\ Keep(P[c]) <= FloorEps
  BY DEF Floored
<1>8. \A c \in Cell : Keep(P[c]) \in Nat
  BY <1>2 DEF Keep
<1> HIDE DEF P, C, floored, patched, raw, again, Fit0, Fit1
<1>9. raw # {} => emitter \in raw
  BY <1>2, <1>5
<1>10. again # {} => emitter \in again
  BY <1>2, <1>3, <1>4, <1>6
<1>11. E \subseteq Cell /\ (E # {} => emitter \in E)
  BY <1>1, <1>5, <1>6, <1>9, <1>10
<1>12. ASSUME n <= FloorEps, \A c \in Cell : f[c] = 0 \/ f[c] > n \/ DeltaAt(c, emitter) = 0
       PROVE  E # {}
  <2>1. ASSUME NEW c \in Cell PROVE Fit0(emitter, c) \/ c \in floored
    BY <1>2, <1>7, <1>8, <1>12
  <2>2. emitter \in again
    BY <1>3, <1>4, <1>6, <2>1
  <2>3. floored = {} => emitter \in raw
    BY <1>5, <2>1
  <2> QED BY <1>1, <2>2, <2>3
<1> QED BY <1>11, <1>12

\* A board is finite: a set of one candidate is that candidate.
LEMMA OneSolution ==
  ASSUME NEW E \in SUBSET Cell, NEW f, NEW emitter, E # {} => emitter \in E
  PROVE  Solved(E, f) \in {None, emitter}
<1>1. IsFiniteSet(0 .. GridSize - 1)
  BY FS_Interval, PhysicsAssumption
<1>2. IsFiniteSet(Cell)
  BY <1>1, FS_Product DEF Cell
<1>3. IsFiniteSet(E)
  BY <1>2, FS_Subset
<1>4. CASE Cardinality(E) = 1
  <2>1. PICK e : E = {e}
    BY <1>3, <1>4, FS_Singleton
  <2>2. e = emitter
    BY <2>1
  <2> QED BY <1>4, <2>1, <2>2 DEF Solved
<1>5. CASE Cardinality(E) # 1
  BY <1>5 DEF Solved
<1> QED BY <1>4, <1>5

\* The other law's own prediction is explained by its emitter.
LEMMA ForeignSolves ==
  ASSUME NEW f, Faint(f), NEW emitter \in Cell
  PROVE  emitter \in ForeignEmitters(f, Predict(f, emitter))
<1>1. PICK g : g = Predict(f, emitter)
  OBVIOUS
<1>2. Faint(g)
  BY <1>1, PredictFaint
<1>3. \A c \in Cell : Abs(g[c] - g[c]) <= Tolerance
  BY <1>2, Levels DEF Faint, Abs
<1> QED BY <1>1, <1>3 DEF ForeignEmitters

-----------------------------------------------------------------------------
(* One turn, in full *)

\* The bookkeeping has its types; the other law has no floor.
Counts ==
  /\ percep.trusted \in BOOLEAN /\ percep.breaks \in Nat /\ percep.age \in Nat
  /\ IsFiniteSet(percep.refused) /\ percep.refused \subseteq 0 .. percep.age
  /\ percep.head \in Cell \cup {None} /\ percep.track \in Seq(Cell \cup {None})
  /\ path \in Seq(Cell)
  /\ hist.floor \in Floors /\ (percep.law = "foreign" => hist.floor = 0)

\* A turn, with the frame f it sent.
Sends(f, to, board, wall, echo) ==
  /\ cell' = to /\ walls' = board /\ field' = Emitted /\ path' = Append(path, cell)
  /\ percep' = Observe(percep, f, board, echo, wall)
  /\ f \in {Cut(Emitted, hist.floor), hist.frame, Silence}
  /\ hist'.sent = hist.sent + 1 /\ hist'.restarts = hist.restarts
  /\ hist'.floor = hist.floor /\ hist'.frame = f /\ hist'.wall = wall
  /\ hist'.glitches = IF f # Cut(Emitted, hist.floor) /\ ~(f = Silence)
                      THEN hist.glitches + 1 ELSE hist.glitches
  /\ hist'.silences = IF f = Silence THEN hist.silences + 1 ELSE hist.silences
  /\ hist'.revisited = (hist.revisited \/ Loaded # {})

LEMMA TurnSends ==
  ASSUME Inv, NEW action, NEW to, NEW board, NEW wall, Turn(action, to, board, wall)
  PROVE  \E f, echo : Sends(f, to, board, wall, echo)
<1> DEFINE emitted == IF percep.law = "book" THEN Updated(field, cell)
                      ELSE Predict(field, cell)
           honest  == Serialized(emitted)
           echo    == IF hist.echoes /\ action.type = "move" THEN action.move ELSE None
           loaded  == {c \in Cell : field[c] > 0 /\ field[c] <= hist.floor
                                    /\ DeltaAt(c, cell) > 0}
           quiet   == action = MoveAction("STAY")
<1>0. PICK frame \in {Serialized(Emitted), hist.frame, Silence} :
        /\ cell' = to /\ walls' = board /\ field' = Emitted /\ path' = Append(path, cell)
        /\ percep' = Observe(percep, frame, board, Echo(action), wall)
        /\ hist' = Noted(frame, Serialized(Emitted), action, wall)
  BY TurnParts, Zenon
<1>1. /\ frame \in {honest, hist.frame, Silence}
      /\ cell' = to /\ walls' = board /\ field' = emitted /\ path' = Append(path, cell)
      /\ percep' = Observe(percep, frame, board, echo, wall)
      /\ hist' = [hist EXCEPT !.sent = @ + 1,
                    !.acts = IF quiet THEN @ ELSE @ + 1,
                    !.glitches = IF frame # honest /\ ~(frame = Silence) THEN @ + 1 ELSE @,
                    !.silences = IF frame = Silence THEN @ + 1 ELSE @,
                    !.revisited = @ \/ loaded # {},
                    !.onWall = @ \/ wall = cell,
                    !.frame = frame, !.wall = wall]
  BY <1>0, Zenon DEF Noted, Emitted, Echo, Loaded
<1>2. emitted = Emitted /\ loaded = Loaded
  BY DEF Emitted, Loaded
<1>3. honest = Cut(Emitted, hist.floor)
  BY <1>2 DEF Serialized, Cut
<1> HIDE DEF emitted, honest, loaded, quiet, echo
<1>4. /\ hist'.sent = hist.sent + 1 /\ hist'.restarts = hist.restarts
      /\ hist'.floor = hist.floor /\ hist'.frame = frame /\ hist'.wall = wall
      /\ hist'.glitches = IF frame # honest /\ ~(frame = Silence)
                          THEN hist.glitches + 1 ELSE hist.glitches
      /\ hist'.silences = IF frame = Silence THEN hist.silences + 1 ELSE hist.silences
  BY <1>1 DEF Inv, Shape, Tallies
<1>5. hist'.revisited = (hist.revisited \/ loaded # {})
  BY <1>1 DEF Inv, Shape, Tallies
<1>6. Sends(frame, to, board, wall, echo)
  BY <1>1, <1>2, <1>3, <1>4, <1>5 DEF Sends
<1> QED BY <1>6

\* Where the rival can be, and what the observer's clock says of it.
Reach ==
  /\ Distance(cell, CopStart) <= hist.sent
  /\ percep.law = "book" => Anchored(field, hist.sent) /\ Anchored(hist.frame, hist.sent)
  /\ percep.law = "book" => hist.frame \in [Cell -> 0 .. Center]
  /\ hist.restarts = 0 => percep.age = hist.sent

\* The head waits for a believed frame only.
Heads == percep.trusted => percep.head = None

\* The last boundary is a step behind, and a wall stands beside the rival.
Behind ==
  /\ path # << >> => Distance(path[Len(path)], cell) <= 1
  /\ hist.wall # None =>
       /\ hist.wall \in Cell /\ Distance(cell, hist.wall) <= 1
       /\ path # << >> /\ path[Len(path)] = cell

Whole == Inv /\ Counts /\ Reach /\ Heads /\ Behind

\* What comes out of a cut is a field, and reads where the field did.
LEMMA CutFacts ==
  ASSUME NEW f \in [Cell -> 0 .. Center], NEW n \in Nat
  PROVE  /\ Cut(f, n) \in [Cell -> 0 .. Center]
         /\ \A elapsed : Anchored(f, elapsed) => Anchored(Cut(f, n), elapsed)
         /\ n = 0 => Cut(f, n) = f
<1>1. ASSUME NEW c \in Cell
      PROVE  /\ f[c] \in Nat /\ f[c] <= Center /\ Cut(f, n)[c] = IF f[c] <= n THEN 0 ELSE f[c]
  BY Levels DEF Cut
<1>2. \A c \in Cell : /\ Cut(f, n)[c] \in 0 .. Center /\ (Cut(f, n)[c] > 0 => f[c] > 0)
                      /\ n = 0 => Cut(f, n)[c] = f[c]
  BY <1>1, Levels
<1>3. Cut(f, n) = [c \in Cell |-> Cut(f, n)[c]]
  BY DEF Cut
<1> HIDE DEF Cut
<1>4. Cut(f, n) \in [Cell -> 0 .. Center]
  BY <1>2, <1>3
<1>5. n = 0 => Cut(f, n) = f
  BY <1>2, <1>3
<1> QED BY <1>2, <1>4, <1>5 DEF Anchored

LEMMA LongerAnchored ==
  ASSUME NEW f, NEW elapsed \in Nat, Anchored(f, elapsed)
  PROVE  Anchored(f, elapsed + 1)
BY CredibleLonger DEF Anchored

LEMMA EmittedFacts ==
  ASSUME Inv, Reach
  PROVE  /\ Emitted \in [Cell -> 0 .. Center]
         /\ percep.law = "book" => Emitted = Updated(field, cell) /\ Anchored(Emitted, hist.sent + 1)
         /\ percep.law = "foreign" => Emitted = Predict(field, cell) /\ Faint(Emitted)
<1>1. CASE percep.law = "book"
  <2>1. Emitted = Updated(field, cell)
    BY <1>1 DEF Emitted
  <2>2. Emitted \in [Cell -> 0 .. Center]
    BY <2>1, UpdateBounds DEF Inv, Shape
  <2>3. Anchored(Emitted, hist.sent + 1)
    BY <1>1, <2>1, UpdateAnchored DEF Inv, Shape, Reach
  <2> QED BY <1>1, <2>1, <2>2, <2>3
<1>2. CASE percep.law = "foreign"
  <2>1. Emitted = Predict(field, cell)
    BY <1>2 DEF Emitted
  <2>2. Emitted \in [Cell -> 0 .. Center] /\ Faint(Emitted)
    BY <1>2, <2>1, PredictFaint DEF Inv, Shape, Foreign
  <2> QED BY <1>2, <2>1, <2>2
<1> QED BY <1>1, <1>2 DEF Inv, Shape

\* A frame that was sent is within the rival's reach.
LEMMA FrameCredible ==
  ASSUME Inv, Counts, Reach, NEW f, NEW to, NEW board, NEW wall, NEW echo,
         Sends(f, to, board, wall, echo)
  PROVE  /\ percep.law = "book" => f \in [Cell -> 0 .. Center] /\ Anchored(f, hist.sent + 1)
         /\ hist.restarts = 0 => ~IncredibleSaturation(f, board, percep.age + 1)
<1>1. hist.floor \in Nat
  BY PerceptionAssumption DEF Counts
<1>2. /\ Emitted \in [Cell -> 0 .. Center]
      /\ percep.law = "book" => Anchored(Emitted, hist.sent + 1)
      /\ percep.law = "foreign" => Faint(Emitted)
  BY EmittedFacts
<1>3. f \in {Cut(Emitted, hist.floor), hist.frame, Silence}
  BY DEF Sends
<1>4. ASSUME percep.law = "book"
      PROVE  f \in [Cell -> 0 .. Center] /\ Anchored(f, hist.sent + 1)
  <2>1. /\ Cut(Emitted, hist.floor) \in [Cell -> 0 .. Center]
        /\ Anchored(Cut(Emitted, hist.floor), hist.sent + 1)
    BY <1>1, <1>2, <1>4, CutFacts
  <2>2. hist.frame \in [Cell -> 0 .. Center] /\ Anchored(hist.frame, hist.sent + 1)
    BY <1>4, LongerAnchored DEF Reach, Inv, Shape
  <2>3. Silence \in [Cell -> 0 .. Center] /\ Anchored(Silence, hist.sent + 1)
    BY Levels DEF Silence, Anchored
  <2> QED BY <1>3, <2>1, <2>2, <2>3
<1>5. ASSUME percep.law = "foreign" PROVE Faint(f)
  <2>1. Faint(Cut(Emitted, hist.floor))
    <3>1. hist.floor = 0 /\ Cut(Emitted, 0) = Emitted
      BY <1>2, <1>5, CutFacts DEF Counts
    <3> QED BY <1>2, <1>5, <3>1
  <2>2. Faint(hist.frame)
    BY <1>5 DEF Inv, Foreign
  <2>3. Faint(Silence)
    BY SMT DEF Faint, Silence
  <2> QED BY <1>3, <2>1, <2>2, <2>3
<1>6. ASSUME hist.restarts = 0 PROVE ~IncredibleSaturation(f, board, percep.age + 1)
  <2>1. CASE percep.law = "book"
    <3>1. percep.age = hist.sent
      BY <1>6 DEF Reach
    <3> QED BY <1>4, <2>1, <3>1, AnchoredIsCredible
  <2>2. CASE percep.law = "foreign"
    BY <1>5, <2>2, FaintIsCredible
  <2> QED BY <2>1, <2>2 DEF Inv, Shape
<1> QED BY <1>4, <1>6

LEMMA HeadTyped ==
  ASSUME Inv, Counts, NEW f, NEW board
  PROVE  HeadOf(percep, f, board) \in Cell \cup {None}
<1>1. \A E \in SUBSET Cell : Solved(E, f) \in Cell \cup {None}
  <2> SUFFICES ASSUME NEW E \in SUBSET Cell PROVE Solved(E, f) \in Cell \cup {None}
    OBVIOUS
  <2>1. CASE E = {}
    BY <2>1, FS_EmptySet DEF Solved
  <2>2. CASE E # {}
    BY <2>2 DEF Solved
  <2> QED BY <2>1, <2>2
<1>2. SolveWithTolerance(percep.previous, f, board).emitters \in SUBSET Cell
  BY DEF SolveWithTolerance, Emitters
<1>3. ForeignEmitters(percep.previous, f) \in SUBSET Cell
  BY DEF ForeignEmitters
<1> QED BY <1>1, <1>2, <1>3 DEF HeadOf, Counts

\* What a turn does to the observer, when it is sent frame f.
LEMMA SendsObserved ==
  ASSUME Inv, Counts, NEW f, NEW to, NEW board, NEW wall, NEW echo,
         Sends(f, to, board, wall, echo)
  PROVE  /\ percep'.law = percep.law /\ percep'.age = percep.age + 1
         /\ percep'.previous = f
         /\ percep'.trusted \in BOOLEAN
         /\ percep'.trusted <=> /\ percep.trusted
                                /\ ~IncredibleSaturation(f, board, percep.age + 1)
                                /\ Broken(percep, f, board) => percep.breaks + 1 < 3
         /\ Broken(percep, f, board) => percep'.breaks = percep.breaks + 1
         /\ ~Broken(percep, f, board) => percep'.breaks \in {0, percep.breaks}
         /\ /\ ~Broken(percep, f, board) /\ f # Silence
            /\ percep.law # "foreign" /\ percep.previous # None
            => percep'.breaks = 0
         /\ Believes(percep, f, board) =>
              /\ percep'.refused = percep.refused /\ percep'.head = None
              /\ percep'.track = Append(percep.track, HeadOf(percep, f, board))
         /\ ~Believes(percep, f, board) =>
              /\ percep'.refused = percep.refused \cup {percep.age + 1}
              /\ percep'.head = HeadOf(percep, f, board) /\ percep'.track = percep.track
<1>1. DOMAIN percep = Slots /\ percep.trusted \in BOOLEAN
  BY DEF Inv, Shape, Counts
<1>2. percep' = Observe(percep, f, board, echo, wall)
  BY DEF Sends
<1>3. percep'.law = percep.law /\ percep'.age = percep.age + 1
  BY <1>1, <1>2, ObserveFacts
<1> QED BY <1>1, <1>2, <1>3, ObserveWhole

LEMMA SendsCounts ==
  ASSUME Inv, Counts, NEW f, NEW to, NEW board, NEW wall, NEW echo,
         Sends(f, to, board, wall, echo)
  PROVE  Counts'
<1>1. /\ percep'.law = percep.law /\ percep'.age = percep.age + 1
      /\ percep'.trusted \in BOOLEAN
      /\ Broken(percep, f, board) => percep'.breaks = percep.breaks + 1
      /\ ~Broken(percep, f, board) => percep'.breaks \in {0, percep.breaks}
      /\ Believes(percep, f, board) =>
           /\ percep'.refused = percep.refused /\ percep'.head = None
           /\ percep'.track = Append(percep.track, HeadOf(percep, f, board))
      /\ ~Believes(percep, f, board) =>
           /\ percep'.refused = percep.refused \cup {percep.age + 1}
           /\ percep'.head = HeadOf(percep, f, board) /\ percep'.track = percep.track
  BY SendsObserved
<1>2. HeadOf(percep, f, board) \in Cell \cup {None}
  BY HeadTyped
<1>3. percep'.breaks \in Nat /\ percep'.age \in Nat
  BY <1>1 DEF Counts
<1>4. IsFiniteSet(percep'.refused) /\ percep'.refused \subseteq 0 .. percep'.age
  <2>1. IsFiniteSet(percep.refused) /\ percep.refused \subseteq 0 .. percep.age /\ percep.age \in Nat
    BY DEF Counts
  <2>2. IsFiniteSet(percep.refused \cup {percep.age + 1})
    BY <2>1, FS_AddElement
  <2>3. percep'.refused \in {percep.refused, percep.refused \cup {percep.age + 1}}
    BY <1>1
  <2>4. percep.refused \subseteq 0 .. percep.age + 1 /\ percep.age + 1 \in 0 .. percep.age + 1
    BY <2>1
  <2> QED BY <1>1, <2>1, <2>2, <2>3, <2>4
<1>5. percep'.head \in Cell \cup {None} /\ percep'.track \in Seq(Cell \cup {None})
  <2>1. percep.track \in Seq(Cell \cup {None})
    BY DEF Counts
  <2>2. Append(percep.track, HeadOf(percep, f, board)) \in Seq(Cell \cup {None})
    BY <1>2, <2>1
  <2> QED BY <1>1, <1>2, <2>1, <2>2
<1>6. path' \in Seq(Cell)
  BY DEF Sends, Counts, Inv, Shape
<1>7. hist'.floor \in Floors /\ (percep'.law = "foreign" => hist'.floor = 0)
  BY <1>1 DEF Sends, Counts
<1> QED BY <1>1, <1>3, <1>4, <1>5, <1>6, <1>7 DEF Counts

LEMMA TurnWhole ==
  ASSUME Whole, Inv', NEW f, NEW to \in Cell, NEW board, NEW wall, NEW echo,
         Sends(f, to, board, wall, echo),
         Distance(to, cell) <= 1,
         Distance(cell, to) <= 1,
         Distance(to, CopStart) <= Distance(cell, CopStart) + 1,
         wall # None => wall \in Cell /\ to = cell /\ Distance(cell, wall) <= 1
  PROVE  Whole'
<1>1. Inv /\ Counts /\ Reach /\ Heads /\ Behind
  BY DEF Whole
<1>2. Counts'
  BY <1>1, SendsCounts
<1>3. Reach'
  <2>1. /\ hist'.sent = hist.sent + 1 /\ hist'.restarts = hist.restarts /\ hist'.frame = f
        /\ cell' = to /\ field' = Emitted
    BY DEF Sends
  <2>2. Distance(cell', CopStart) <= hist'.sent
    BY <1>1, <2>1, Distances, PhysicsAssumption DEF Reach, Inv, Shape
  <2>3. percep'.law = percep.law /\ percep'.age = percep.age + 1
    BY <1>1, SendsObserved
  <2>4. percep.law = "book" => /\ f \in [Cell -> 0 .. Center] /\ Anchored(f, hist.sent + 1)
                               /\ Anchored(Emitted, hist.sent + 1)
    BY <1>1, FrameCredible, EmittedFacts
  <2>5. percep.law = "book" => /\ Anchored(field', hist'.sent) /\ Anchored(hist'.frame, hist'.sent)
                               /\ hist'.frame \in [Cell -> 0 .. Center]
    BY <2>1, <2>4
  <2>6. hist'.restarts = 0 => percep'.age = hist'.sent
    BY <1>1, <2>1, <2>3 DEF Reach
  <2> QED BY <2>2, <2>3, <2>5, <2>6 DEF Reach, Anchored
<1>4. Heads'
  <2> SUFFICES ASSUME percep'.trusted, percep'.head # None PROVE FALSE
    BY DEF Heads
  <2>1. /\ percep.trusted /\ ~Believes(percep, f, board)
        /\ ~IncredibleSaturation(f, board, percep.age + 1)
        /\ percep'.head = HeadOf(percep, f, board)
    BY <1>1, SendsObserved
  <2>2. Broken(percep, f, board)
    BY <2>1 DEF Believes
  <2>3. HeadOf(percep, f, board) = percep.head
    BY <2>2 DEF HeadOf, Broken
  <2> QED BY <1>1, <2>1, <2>3 DEF Heads
<1>5. Behind'
  <2>1. path' = Append(path, cell) /\ cell' = to /\ hist'.wall = wall /\ path \in Seq(Cell)
    BY <1>1 DEF Sends, Counts
  <2>2. cell \in Cell
    BY <1>1 DEF Inv, Shape
  <2>3. path' # << >> /\ path'[Len(path')] = cell
    BY <2>1, <2>2
  <2> QED BY <2>1, <2>3 DEF Behind
<1> QED BY <1>2, <1>3, <1>4, <1>5 DEF Whole

\* A turn: where it can lead, and what walls it can leave.
LEMMA Turns ==
  ASSUME Inv, [Next]_vars
  PROVE  \/ Restart
         \/ UNCHANGED vars
         \/ \E f, board, wall, echo : \E to \in Cell :
              /\ Sends(f, to, board, wall, echo)
              /\ Distance(to, cell) <= 1 /\ Distance(cell, to) <= 1
              /\ Distance(to, CopStart) <= Distance(cell, CopStart) + 1
              /\ wall # None => wall \in Cell /\ to = cell /\ Distance(cell, wall) <= 1
<1>0. cell \in Cell /\ CopStart \in Cell /\ Distance(cell, cell) = 0 /\ Distance(cell, CopStart) \in Nat
  BY Distances, PhysicsAssumption DEF Inv, Shape
<1>1. ASSUME NEW move \in Move, RivalMoves(move)
      PROVE  \E f, board, wall, echo : \E to \in Cell :
               /\ Sends(f, to, board, wall, echo)
               /\ Distance(to, cell) <= 1 /\ Distance(cell, to) <= 1
               /\ Distance(to, CopStart) <= Distance(cell, CopStart) + 1
               /\ wall # None => wall \in Cell /\ to = cell /\ Distance(cell, wall) <= 1
  <2>1. PICK to : to = AppliedTo(move, cell)
    OBVIOUS
  <2>2. /\ to \in Cell /\ Distance(to, CopStart) <= Distance(cell, CopStart) + 1
        /\ Distance(to, cell) <= Distance(cell, cell) + 1
    BY <1>0, <1>1, <2>1, StepLands DEF RivalMoves
  <2>3. Distance(cell, to) = Distance(to, cell)
    BY <1>0, <2>2, Coordinates DEF Distance, Abs
  <2>4. PICK f, echo : Sends(f, to, walls, None, echo)
    BY <1>1, <2>1, TurnSends DEF RivalMoves
  <2> QED BY <1>0, <2>2, <2>3, <2>4
<1>2. ASSUME NEW target \in Cell, RivalWalls(target)
      PROVE  \E f, board, wall, echo : \E to \in Cell :
               /\ Sends(f, to, board, wall, echo)
               /\ Distance(to, cell) <= 1 /\ Distance(cell, to) <= 1
               /\ Distance(to, CopStart) <= Distance(cell, CopStart) + 1
               /\ wall # None => wall \in Cell /\ to = cell /\ Distance(cell, wall) <= 1
  <2>1. PICK board, to : to = cell /\ board = walls \cup {target}
    OBVIOUS
  <2>2. PICK f, echo : Sends(f, to, board, target, echo)
    BY <1>2, <2>1, TurnSends DEF RivalWalls
  <2>3. Distance(cell, target) <= 1
    BY <1>2 DEF RivalWalls, BarrierLegal
  <2> QED BY <1>0, <2>1, <2>2, <2>3
<1> QED BY <1>1, <1>2 DEF Next

LEMMA WholeInit == Init => Whole
<1> SUFFICES ASSUME Init PROVE Whole
  OBVIOUS
<1>1. Inv
  BY InvInit
<1> USE DEF Init, NewPerception, Silence
<1>2. Counts
  <2>1. PICK law \in {"book", "foreign"} : percep = NewPerception(law)
    OBVIOUS
  <2>2. hist.floor \in Floors /\ (percep.law = "foreign" => hist.floor = 0)
    OBVIOUS
  <2> QED BY <2>1, <2>2, FS_EmptySet DEF Counts
<1>3. Reach
  BY PhysicsAssumption, Distances, Levels DEF Reach, Anchored
<1>4. Heads /\ Behind
  BY DEF Heads, Behind
<1> QED BY <1>1, <1>2, <1>3, <1>4 DEF Whole

LEMMA RestartWhole ==
  ASSUME Whole, Inv', Restart
  PROVE  Whole'
<1>1. percep' = NewPerception(percep.law) /\ cell' = cell /\ field' = field /\ path' = path
  BY DEF Restart
<1>2. /\ hist'.restarts = hist.restarts + 1 /\ hist'.sent = hist.sent
      /\ hist'.floor = hist.floor /\ hist'.frame = hist.frame /\ hist'.wall = hist.wall
  BY DEF Restart, Whole, Inv, Shape, Tallies
<1>3. /\ percep'.law = percep.law /\ percep'.trusted = TRUE /\ percep'.breaks = 0
      /\ percep'.age = 0 /\ percep'.refused = {} /\ percep'.head = None /\ percep'.track = << >>
  BY <1>1 DEF NewPerception
<1>4. Counts'
  <2>1. IsFiniteSet(percep'.refused) /\ percep'.refused \subseteq 0 .. percep'.age
    BY <1>3, FS_EmptySet
  <2>2. percep'.head \in Cell \cup {None} /\ percep'.track \in Seq(Cell \cup {None})
    BY <1>3
  <2>3. percep'.breaks \in Nat /\ percep'.age \in Nat
    BY <1>3
  <2>4. percep'.trusted \in BOOLEAN
    BY Zenon, <1>3
  <2>5. /\ path' \in Seq(Cell) /\ hist'.floor \in Floors
        /\ percep'.law = "foreign" => hist'.floor = 0
    BY <1>1, <1>2, <1>3 DEF Counts, Whole
  <2> QED BY <2>1, <2>2, <2>3, <2>4, <2>5 DEF Counts
<1>5. Reach'
  <2>1. hist'.restarts # 0
    BY <1>2 DEF Whole, Inv, Shape
  <2> QED BY <1>1, <1>2, <1>3, <2>1 DEF Reach, Whole, Anchored
<1>6. Heads' /\ Behind'
  BY <1>1, <1>2, <1>3 DEF Heads, Behind, Whole
<1> QED BY <1>4, <1>5, <1>6 DEF Whole

LEMMA WholeStep == Whole /\ [Next]_vars => Whole'
<1> SUFFICES ASSUME Whole, [Next]_vars PROVE Whole'
  OBVIOUS
<1>1. Inv /\ Inv'
  BY InvStep DEF Whole
<1>2. CASE Restart
  BY <1>1, <1>2, RestartWhole
<1>3. CASE UNCHANGED vars
  BY <1>1, <1>3 DEF vars, Whole, Counts, Reach, Heads, Behind, Anchored
<1>4. CASE ~Restart /\ ~UNCHANGED vars
  BY <1>1, <1>4, Turns, TurnWhole
<1> QED BY <1>2, <1>3, <1>4

-----------------------------------------------------------------------------
(* A stale frame *)

\* What one stale frame still costs: the transition out of it.
Doubt == IF hist.frame = field THEN 0 ELSE 1

Straight == percep.law = "book" /\ hist.silences = 0 /\ hist.restarts = 0 /\ hist.floor = 0

\* The readings refused so far and the one still in doubt are paid for.
Priced ==
  Straight =>
    /\ percep.previous \in {None, hist.frame}
    /\ hist.glitches = 0 => hist.frame = field /\ percep.breaks = 0
    /\ hist.glitches <= 1 => percep.trusted /\ percep.breaks + Doubt <= 2
    /\ percep.trusted => Cardinality(percep.refused) + Doubt <= 2 * hist.glitches

\* From a field that arrived, the next honest one is explained.
LEMMA HonestUnbroken ==
  ASSUME Inv, percep.law = "book", percep.previous \in {None, field}, NEW board
  PROVE  ~Broken(percep, Emitted, board)
<1>1. Emitted = Updated(field, cell)
  BY DEF Emitted
<1>2. SolveWithTolerance(field, Emitted, board).emitters # {}
  BY <1>1, HonestSolves DEF Inv, Shape
<1> QED BY <1>2 DEF Broken

LEMMA PricedSends ==
  ASSUME Whole, Priced, NEW f, NEW to, NEW board, NEW wall, NEW echo,
         Sends(f, to, board, wall, echo)
  PROVE  Priced'
<1>1. Inv /\ Counts /\ Reach
  BY DEF Whole
<1>2. SUFFICES ASSUME Straight'
               PROVE  /\ percep'.previous \in {None, hist'.frame}
                      /\ hist'.glitches = 0 => hist'.frame = field' /\ percep'.breaks = 0
                      /\ hist'.glitches <= 1 => percep'.trusted /\ percep'.breaks + Doubt' <= 2
                      /\ percep'.trusted => Cardinality(percep'.refused) + Doubt' <= 2 * hist'.glitches
  BY DEF Priced
<1>3. /\ hist'.sent = hist.sent + 1 /\ hist'.restarts = hist.restarts
      /\ hist'.floor = hist.floor /\ hist'.frame = f /\ field' = Emitted
      /\ hist'.glitches = IF f # Cut(Emitted, hist.floor) /\ ~(f = Silence)
                          THEN hist.glitches + 1 ELSE hist.glitches
      /\ hist'.silences = IF f = Silence THEN hist.silences + 1 ELSE hist.silences
      /\ f \in {Cut(Emitted, hist.floor), hist.frame, Silence}
  BY DEF Sends
<1>4. /\ percep'.law = percep.law /\ percep'.previous = f
      /\ percep'.trusted <=> /\ percep.trusted
                             /\ ~IncredibleSaturation(f, board, percep.age + 1)
                             /\ Broken(percep, f, board) => percep.breaks + 1 < 3
      /\ Broken(percep, f, board) => percep'.breaks = percep.breaks + 1
      /\ ~Broken(percep, f, board) => percep'.breaks \in {0, percep.breaks}
      /\ /\ ~Broken(percep, f, board) /\ f # Silence
         /\ percep.law # "foreign" /\ percep.previous # None
         => percep'.breaks = 0
      /\ Believes(percep, f, board) => percep'.refused = percep.refused
      /\ ~Believes(percep, f, board) => percep'.refused = percep.refused \cup {percep.age + 1}
  BY <1>1, SendsObserved
<1>5. Straight /\ f # Silence /\ hist'.silences = 0
  BY <1>1, <1>2, <1>3, <1>4 DEF Straight, Inv, Shape
<1>6. Cut(Emitted, hist.floor) = Emitted
  BY <1>1, <1>5, EmittedFacts, CutFacts DEF Straight
<1>7. /\ percep.previous \in {None, hist.frame}
      /\ hist.glitches = 0 => hist.frame = field /\ percep.breaks = 0
      /\ hist.glitches <= 1 => percep.trusted /\ percep.breaks + Doubt <= 2
      /\ percep.trusted => Cardinality(percep.refused) + Doubt <= 2 * hist.glitches
  BY <1>5 DEF Priced
<1>8. ~IncredibleSaturation(f, board, percep.age + 1)
  BY <1>1, <1>5, FrameCredible DEF Straight
<1>9. /\ Cardinality(percep.refused) \in Nat /\ Cardinality(percep'.refused) \in Nat
      /\ Cardinality(percep'.refused) <= Cardinality(percep.refused) + 1
      /\ percep'.trusted /\ ~Broken(percep, f, board)
           => Cardinality(percep'.refused) = Cardinality(percep.refused)
  <2>1. IsFiniteSet(percep.refused)
    BY <1>1 DEF Counts
  <2>2. Cardinality(percep.refused) \in Nat
    BY <2>1, FS_CardinalityType
  <2>3. Cardinality(percep.refused \cup {percep.age + 1}) <= Cardinality(percep.refused) + 1
    BY <2>1, <2>2, FS_AddElement
  <2>4. percep'.trusted /\ ~Broken(percep, f, board) => Believes(percep, f, board)
    BY <1>4, <1>8 DEF Believes
  <2>5. percep'.trusted /\ ~Broken(percep, f, board) => percep'.refused = percep.refused
    BY Zenon, <1>4, <2>4
  <2>6. percep'.refused \in {percep.refused, percep.refused \cup {percep.age + 1}}
    BY Zenon, <1>4
  <2>7. Cardinality(percep.refused \cup {percep.age + 1}) \in Nat
    BY <2>1, FS_AddElement, FS_CardinalityType
  <2>8. PICK a, b, c : /\ a = Cardinality(percep.refused) /\ b = Cardinality(percep'.refused)
                       /\ c = Cardinality(percep.refused \cup {percep.age + 1})
    OBVIOUS
  <2>9. b \in {a, c} /\ a \in Nat /\ c <= a + 1 /\ c \in Nat
    BY Zenon, <2>2, <2>3, <2>6, <2>8, <2>7
  <2>10. b <= a + 1 /\ b \in Nat
    BY <2>9
  <2> QED BY Zenon, <2>2, <2>5, <2>8, <2>10
<1>10. hist.glitches \in Nat /\ percep.breaks \in Nat /\ Doubt \in {0, 1}
  BY <1>1 DEF Inv, Shape, Counts, Doubt
<1>11. CASE f = Emitted
  <2>1. hist'.glitches = hist.glitches /\ Doubt' = 0 /\ hist'.frame = field'
    BY <1>3, <1>6, <1>11 DEF Doubt
  <2>2. CASE hist.frame = field
    <3>1. Doubt = 0
      BY <2>2 DEF Doubt
    <3>2. ~Broken(percep, f, board)
      BY <1>1, <1>5, <1>7, <1>11, <2>2, HonestUnbroken DEF Straight
    <3>3. /\ percep'.breaks \in {0, percep.breaks} /\ (percep'.trusted <=> percep.trusted)
          /\ hist.glitches = 0 => percep'.breaks = 0
      BY <1>4, <1>7, <1>8, <3>2
    <3>4. percep'.trusted => /\ Cardinality(percep'.refused) = Cardinality(percep.refused)
                             /\ Cardinality(percep.refused) + Doubt <= 2 * hist.glitches
      BY Zenon, <1>7, <1>9, <3>2, <3>3
    <3>5. hist'.glitches <= 1 => percep'.trusted /\ percep'.breaks + Doubt' <= 2
      BY <1>7, <1>10, <2>1, <3>1, <3>3
    <3>6. percep'.trusted => Cardinality(percep'.refused) + Doubt' <= 2 * hist'.glitches
      BY <2>1, <3>1, <3>4
    <3> QED BY <1>3, <1>4, <2>1, <3>3, <3>5, <3>6
  <2>3. CASE hist.frame # field
    <3>1. Doubt = 1 /\ hist.glitches # 0
      BY <1>7, <2>3 DEF Doubt
    <3>2. hist.glitches <= 1 => percep.breaks + 1 < 3 /\ percep.trusted
      BY <1>7, <1>10, <3>1
    <3>3. hist'.glitches <= 1 => percep'.trusted /\ percep'.breaks + Doubt' <= 2
      BY <1>4, <1>8, <1>10, <2>1, <3>2
    <3>4. percep'.trusted => Cardinality(percep.refused) + Doubt <= 2 * hist.glitches
      BY <1>4, <1>7
    <3>5. percep'.trusted => Cardinality(percep'.refused) + Doubt' <= 2 * hist'.glitches
      BY <1>9, <1>10, <2>1, <3>1, <3>4
    <3> QED BY <1>3, <1>4, <2>1, <3>1, <3>3, <3>5, <1>10
  <2> QED BY <2>2, <2>3
<1>12. CASE f # Emitted
  <2>1. hist'.glitches = hist.glitches + 1
    BY <1>3, <1>5, <1>6, <1>12
  <2>2. Doubt' \in {0, 1}
    BY DEF Doubt
  <2>3. hist'.glitches <= 1 => percep.breaks = 0 /\ percep.trusted
    BY <1>7, <1>10, <2>1
  <2>4. hist'.glitches <= 1 => percep'.trusted /\ percep'.breaks + Doubt' <= 2
    BY <1>4, <1>8, <2>2, <2>3
  <2>5. percep'.trusted => Cardinality(percep.refused) + Doubt <= 2 * hist.glitches
    BY <1>4, <1>7
  <2>6. percep'.trusted => Cardinality(percep'.refused) + Doubt' <= 2 * hist'.glitches
    BY <1>9, <1>10, <2>1, <2>2, <2>5
  <2> QED BY <1>3, <1>4, <1>10, <2>1, <2>4, <2>6
<1> QED BY <1>11, <1>12

\* Every stale frame costs at most two readings and one alone never costs the trust,
\* however long the walk and whatever frames are stale (perception.py:137-142, floor_tolerance.py:52-60).
THEOREM GlitchesAreCheap == Spec => []GlitchCostsTwo
<1>1. Init => Priced
  <2> SUFFICES ASSUME Init PROVE Priced
    OBVIOUS
  <2>1. PICK law \in {"book", "foreign"} : percep = NewPerception(law)
    BY DEF Init
  <2>2. /\ percep.previous = None /\ percep.breaks = 0 /\ percep.trusted = TRUE
        /\ percep.refused = {}
    BY <2>1 DEF NewPerception
  <2>3. hist.frame = field /\ hist.glitches = 0
    BY DEF Init
  <2> QED BY <2>2, <2>3, FS_EmptySet DEF Priced, Doubt
<1>2. Whole /\ Priced /\ [Next]_vars => Priced'
  <2> SUFFICES ASSUME Whole, Priced, [Next]_vars PROVE Priced'
    OBVIOUS
  <2>1. CASE Restart
    <3>1. hist'.restarts = hist.restarts + 1 /\ hist.restarts \in Nat
      BY <2>1 DEF Restart, Whole, Inv, Shape, Tallies
    <3> QED BY <3>1 DEF Priced, Straight
  <2>2. CASE UNCHANGED vars
    BY <2>2 DEF vars, Priced, Straight, Doubt
  <2>3. CASE ~Restart /\ ~UNCHANGED vars
    <3>1. PICK f, board, wall, echo, to : Sends(f, to, board, wall, echo)
      BY <2>3, Turns DEF Whole
    <3> QED BY <3>1, PricedSends
  <2> QED BY <2>1, <2>2, <2>3
<1>3. Whole /\ Priced => GlitchCostsTwo
  <2> SUFFICES ASSUME Whole, Priced, hist.silences = 0, hist.restarts = 0, hist.floor = 0
               PROVE  /\ hist.glitches <= 1 => percep.trusted
                      /\ percep.trusted => Cardinality(percep.refused) <= 2 * hist.glitches
    BY DEF GlitchCostsTwo
  <2>1. hist.glitches \in Nat /\ IsFiniteSet(percep.refused)
    BY DEF Whole, Inv, Shape, Counts
  <2>2. Cardinality(percep.refused) \in Nat
    BY <2>1, FS_CardinalityType
  <2>3. CASE percep.law = "book"
    BY <2>1, <2>2, <2>3 DEF Priced, Straight, Doubt
  <2>4. CASE percep.law = "foreign"
    BY <2>1, <2>4, FS_EmptySet DEF Whole, Inv, Foreign
  <2> QED BY <2>3, <2>4 DEF Whole, Inv, Shape
<1> QED BY <1>1, <1>2, <1>3, WholeInit, WholeStep, PTL DEF Spec

-----------------------------------------------------------------------------
(* A serializer that zeroes residues, and the track it leaves *)

\* The baseline is the last frame, and the last frame is the field, cut.
Arrived == Undisturbed => percep.previous \in {None, Cut(field, hist.floor)}

\* An undisturbed turn sent the field, and its frame is within reach.
LEMMA UndisturbedSends ==
  ASSUME Inv, Counts, Reach, NEW f, NEW to, NEW board, NEW wall, NEW echo,
         Sends(f, to, board, wall, echo), Undisturbed'
  PROVE  /\ Undisturbed /\ f = Cut(Emitted, hist.floor) /\ f # Silence
         /\ ~IncredibleSaturation(f, board, percep.age + 1)
         /\ field' = Emitted /\ hist'.floor = hist.floor
<1>1. /\ hist'.glitches = IF f # Cut(Emitted, hist.floor) /\ ~(f = Silence)
                          THEN hist.glitches + 1 ELSE hist.glitches
      /\ hist'.silences = IF f = Silence THEN hist.silences + 1 ELSE hist.silences
      /\ hist'.restarts = hist.restarts /\ field' = Emitted /\ hist'.floor = hist.floor
  BY DEF Sends
<1>2. hist'.glitches = 0 /\ hist'.silences = 0 /\ hist'.restarts = 0
  BY DEF Undisturbed
<1>3. hist.glitches \in Nat /\ hist.silences \in Nat
  BY DEF Inv, Shape
<1>4. Undisturbed /\ f = Cut(Emitted, hist.floor) /\ f # Silence
  BY <1>1, <1>2, <1>3 DEF Undisturbed
<1>5. ~IncredibleSaturation(f, board, percep.age + 1)
  BY <1>1, <1>2, FrameCredible
<1> QED BY <1>1, <1>4, <1>5

LEMMA ArrivedStep == Whole /\ Arrived /\ [Next]_vars => Arrived'
<1> SUFFICES ASSUME Whole, Arrived, [Next]_vars, Undisturbed'
             PROVE  percep'.previous \in {None, Cut(field', hist'.floor)}
  BY DEF Arrived, Cut
<1>1. CASE Restart
  BY <1>1 DEF Restart, NewPerception
<1>2. CASE UNCHANGED vars
  BY <1>2 DEF vars, Arrived, Undisturbed
<1>3. CASE ~Restart /\ ~UNCHANGED vars
  <2>1. PICK f, board, wall, echo, to : Sends(f, to, board, wall, echo)
    BY <1>3, Turns DEF Whole
  <2>2. percep'.previous = f
    BY <2>1, SendsObserved DEF Whole
  <2>3. f = Cut(field', hist'.floor)
    BY <2>1, UndisturbedSends DEF Whole
  <2> QED BY <2>2, <2>3
<1> QED BY <1>1, <1>2, <1>3

LEMMA ArrivedInit == Init => Arrived
BY DEF Init, NewPerception, Arrived

LEMMA FloorTyped ==
  ASSUME Counts
  PROVE  hist.floor \in Nat /\ hist.floor \in Floors /\ FloorEps \in Nat
<1>1. hist.floor \in Floors
  BY DEF Counts
<1> QED BY <1>1, PerceptionAssumption

\* What neither was nor became, and was not made.
LEMMA NotRevisited ==
  ASSUME NEW f, NEW to, NEW board, NEW wall, NEW echo,
         Sends(f, to, board, wall, echo), ~hist'.revisited
  PROVE  ~hist.revisited /\ Loaded = {}
<1>1. hist'.revisited = (hist.revisited \/ Loaded # {})
  BY DEF Sends
<1> QED BY <1>1

\* From one cut field to the next the tolerance finds an emitter, unless a cell it
\* zeroed was loaded.
LEMMA CutUnbroken ==
  ASSUME FloorEps < 40000, Inv, Counts, percep.law = "book", hist.floor <= FloorEps, Loaded = {},
         percep.previous \in {None, Cut(field, hist.floor)}, NEW board
  PROVE  ~Broken(percep, Cut(Emitted, hist.floor), board)
<1>1. hist.floor \in Nat /\ FloorEps \in Nat
  BY FloorTyped
<1>2. hist.floor < 40000
  BY <1>1
<1>3. Emitted = Updated(field, cell)
  BY DEF Emitted
<1>4. cell \in Cell /\ field \in [Cell -> 0 .. Center]
  BY DEF Inv, Shape
<1>5. ASSUME NEW c \in Cell
      PROVE  field[c] = 0 \/ field[c] > hist.floor \/ DeltaAt(c, cell) = 0
  <2>1. field[c] \in 0 .. Center
    BY <1>4
  <2>2. field[c] \in Nat
    BY <2>1, Levels
  <2>3. DeltaAt(c, cell) \in {0, 40000, 140000, 200000, 420000, 620000, 900000}
    BY <1>4, KernelLevels
  <2>4. DeltaAt(c, cell) = 0 \/ DeltaAt(c, cell) > 0
    BY <2>3
  <2>5. ~(field[c] > 0 /\ field[c] <= hist.floor /\ DeltaAt(c, cell) > 0)
    BY DEF Loaded
  <2> QED BY <1>1, <2>2, <2>4, <2>5
<1>6. PICK E : E = SolveWithTolerance(Cut(field, hist.floor), Cut(Updated(field, cell), hist.floor),
                                      board).emitters
  OBVIOUS
<1>7. E # {}
  BY <1>1, <1>2, <1>4, <1>5, <1>6, CutSolves
<1> QED BY <1>3, <1>6, <1>7 DEF Broken

\* A serializer that zeroes residues the tolerance allows, and that loads no cell it
\* zeroed, is believed to the end (floor_tolerance.py:13-21). The tolerance is under
\* the kernel's least deposit: the shipped one is 6000 against 40000.
THEOREM FloorIsTolerated ==
  ASSUME FloorEps < 40000
  PROVE  Spec => []FloorTolerated
<1>1. Init => FloorTolerated
  BY DEF Init, NewPerception, FloorTolerated
<1>2. Whole /\ Arrived /\ FloorTolerated /\ [Next]_vars => FloorTolerated'
  <2> SUFFICES ASSUME Whole, Arrived, FloorTolerated, [Next]_vars,
                      Undisturbed', ~hist'.revisited, hist'.floor <= FloorEps
               PROVE  percep'.trusted /\ percep'.refused = {}
    BY DEF FloorTolerated
  <2>1. CASE Restart
    <3>1. hist'.restarts = hist.restarts + 1 /\ hist.restarts \in Nat
      BY <2>1 DEF Restart, Whole, Inv, Shape, Tallies
    <3> QED BY <3>1 DEF Undisturbed
  <2>2. CASE UNCHANGED vars
    BY <2>2 DEF vars, FloorTolerated, Undisturbed
  <2>3. CASE ~Restart /\ ~UNCHANGED vars
    <3>1. PICK f, board, wall, echo, to : Sends(f, to, board, wall, echo)
      BY <2>3, Turns DEF Whole
    <3>2. Inv /\ Counts /\ Reach /\ Inv'
      BY InvStep DEF Whole
    <3>3. /\ Undisturbed /\ f = Cut(Emitted, hist.floor)
          /\ ~IncredibleSaturation(f, board, percep.age + 1) /\ hist'.floor = hist.floor
      BY <3>1, <3>2, UndisturbedSends
    <3>4. ~hist.revisited /\ Loaded = {}
      BY <3>1, NotRevisited
    <3>5. percep.trusted /\ percep.refused = {}
      BY <3>3, <3>4 DEF FloorTolerated
    <3>6. CASE percep.law = "book"
      <4>1. ~Broken(percep, f, board)
        BY <3>2, <3>3, <3>4, <3>6, CutUnbroken DEF Arrived
      <4>2. Believes(percep, f, board)
        BY <3>3, <3>5, <4>1 DEF Believes
      <4> QED BY <3>1, <3>2, <3>3, <3>5, <4>1, <4>2, SendsObserved
    <3>7. CASE percep.law = "foreign"
      <4>1. percep'.law = "foreign"
        BY <3>1, <3>2, <3>7, SendsObserved
      <4> QED BY <3>2, <4>1 DEF Inv, Foreign
    <3> QED BY <3>2, <3>6, <3>7 DEF Inv, Shape
  <2> QED BY <2>1, <2>2, <2>3
<1> QED BY <1>1, <1>2, WholeInit, WholeStep, ArrivedInit, ArrivedStep, PTL DEF Spec

\* What an undisturbed observer solves is where the rival emitted from.
LEMMA HeadTrue ==
  ASSUME \A n \in Floors : n < 40000,
         Whole, Arrived, NEW f, NEW to, NEW board, NEW wall, NEW echo,
         Sends(f, to, board, wall, echo), Undisturbed', Believes(percep, f, board)
  PROVE  HeadOf(percep, f, board) \in {None, cell}
<1>1. Inv /\ Counts /\ Reach /\ Heads
  BY DEF Whole
<1>2. Undisturbed /\ f = Cut(Emitted, hist.floor) /\ f # Silence
  BY <1>1, UndisturbedSends
<1>3. percep.trusted /\ ~Broken(percep, f, board)
  BY DEF Believes
<1>4. percep.head = None
  BY <1>1, <1>3 DEF Heads
<1>5. percep.previous \in {None, Cut(field, hist.floor)}
  BY <1>2 DEF Arrived
<1>6. hist.floor \in Nat /\ hist.floor \in Floors /\ FloorEps \in Nat
  BY <1>1, FloorTyped
<1>7. hist.floor < 40000
  BY <1>6
<1>8. cell \in Cell /\ field \in [Cell -> 0 .. Center]
  BY <1>1 DEF Inv, Shape
<1>9. CASE percep.previous = None
  BY <1>2, <1>4, <1>9 DEF HeadOf
<1>10. CASE percep.previous # None /\ percep.law = "book"
  <2>1. PICK E : E = SolveWithTolerance(Cut(field, hist.floor),
                                        Cut(Updated(field, cell), hist.floor), board).emitters
    OBVIOUS
  <2>2. E \subseteq Cell /\ (E # {} => cell \in E)
    BY <1>6, <1>7, <1>8, <2>1, CutSolves
  <2>3. Emitted = Updated(field, cell)
    BY <1>10 DEF Emitted
  <2>4. HeadOf(percep, f, board) = Solved(E, f)
    BY <1>2, <1>3, <1>5, <1>10, <2>1, <2>3 DEF HeadOf
  <2>5. E \in SUBSET Cell
    BY <2>2
  <2> QED BY <2>2, <2>4, <2>5, OneSolution
<1>11. CASE percep.previous # None /\ percep.law = "foreign"
  <2>1. hist.floor = 0
    BY <1>1, <1>11 DEF Counts
  <2>2. Emitted = Predict(field, cell) /\ Emitted \in [Cell -> 0 .. Center] /\ Faint(field)
    BY <1>1, <1>11, EmittedFacts DEF Inv, Foreign
  <2>3. Cut(field, 0) = field /\ Cut(Emitted, 0) = Emitted
    BY <1>8, <2>2, CutFacts
  <2>4. PICK E : E = ForeignEmitters(field, Predict(field, cell))
    OBVIOUS
  <2>5. cell \in E
    BY <1>8, <2>2, <2>4, ForeignSolves
  <2>6. E \in SUBSET Cell
    BY <2>4 DEF ForeignEmitters
  <2>7. HeadOf(percep, f, board) = Solved(E, f)
    BY <1>2, <1>5, <1>11, <2>1, <2>2, <2>3, <2>4 DEF HeadOf
  <2> QED BY <2>5, <2>6, <2>7, OneSolution
<1> QED BY <1>1, <1>9, <1>10, <1>11 DEF Inv, Shape

\* A turn whose reading was not refused.
LEMMA Accepted ==
  ASSUME \A n \in Floors : n < 40000,
         Whole, Arrived, NEW f, NEW to, NEW board, NEW wall, NEW echo,
         Sends(f, to, board, wall, echo), Undisturbed', percep'.age \notin percep'.refused
  PROVE  \E head \in {None, cell} : /\ percep'.track = Append(percep.track, head)
                                    /\ percep'.refused = percep.refused
<1>1. /\ percep'.age = percep.age + 1
      /\ Believes(percep, f, board) =>
           /\ percep'.refused = percep.refused
           /\ percep'.track = Append(percep.track, HeadOf(percep, f, board))
      /\ ~Believes(percep, f, board) =>
           percep'.refused = percep.refused \cup {percep.age + 1}
  BY SendsObserved DEF Whole
<1>2. Believes(percep, f, board)
  BY <1>1
<1> QED BY <1>1, <1>2, HeadTrue

\* The track a full observer keeps is the rival's path, one cell for one boundary.
\* No serializer zeroes as much as a deposit's least cell.
THEOREM TrackFollows ==
  ASSUME \A n \in Floors : n < 40000
  PROVE  Spec => []TrackIsPath
<1>1. Init => TrackIsPath
  BY DEF Init, NewPerception, TrackIsPath
<1>2. Whole /\ Arrived /\ TrackIsPath /\ [Next]_vars => TrackIsPath'
  <2> SUFFICES ASSUME Whole, Arrived, TrackIsPath, [Next]_vars,
                      Undisturbed', percep'.refused = {}
               PROVE  /\ Len(percep'.track) = Len(path')
                      /\ \A k \in 1 .. Len(path') : percep'.track[k] \in {None, path'[k]}
    BY DEF TrackIsPath
  <2>1. CASE Restart
    <3>1. hist'.restarts = hist.restarts + 1 /\ hist.restarts \in Nat
      BY <2>1 DEF Restart, Whole, Inv, Shape, Tallies
    <3> QED BY <3>1 DEF Undisturbed
  <2>2. CASE UNCHANGED vars
    BY <2>2 DEF vars, TrackIsPath, Undisturbed
  <2>3. CASE ~Restart /\ ~UNCHANGED vars
    <3>1. PICK f, board, wall, echo, to : Sends(f, to, board, wall, echo)
      BY <2>3, Turns DEF Whole
    <3>2. PICK head \in {None, cell} : /\ percep'.track = Append(percep.track, head)
                                       /\ percep.refused = {}
      BY <3>1, Accepted
    <3>3. Undisturbed /\ path' = Append(path, cell)
      BY <3>1, UndisturbedSends DEF Whole, Sends
    <3>4. /\ Len(percep.track) = Len(path)
          /\ \A k \in 1 .. Len(path) : percep.track[k] \in {None, path[k]}
      BY <3>2, <3>3 DEF TrackIsPath
    <3>5. percep.track \in Seq(Cell \cup {None}) /\ path \in Seq(Cell) /\ cell \in Cell
      BY DEF Whole, Counts, Inv, Shape
    <3>6. head \in Cell \cup {None}
      BY <3>2, <3>5
    <3> QED BY <3>2, <3>3, <3>4, <3>5, <3>6
  <2> QED BY <2>1, <2>2, <2>3
<1> QED BY <1>1, <1>2, WholeInit, WholeStep, ArrivedInit, ArrivedStep, PTL DEF Spec

\* The reading just accepted is the boundary just crossed.
Fresh ==
  Undisturbed /\ percep.track # << >> /\ percep.age \notin percep.refused =>
    path # << >> /\ percep.track[Len(percep.track)] \in {None, path[Len(path)]}

\* Two steps from a cell beside the rival are three from the rival.
LEMMA Nearer ==
  ASSUME NEW last \in Cell, NEW c \in Cell, Distance(last, c) <= 1
  PROVE  /\ Distance(c, last) <= 2
         /\ \A claim \in Cell : Distance(claim, last) <= 2 => Distance(claim, c) <= 3
<1>1. /\ last[1] \in Int /\ last[2] \in Int /\ c[1] \in Int /\ c[2] \in Int
      /\ \A claim \in Cell : claim[1] \in Int /\ claim[2] \in Int
  BY Coordinates
<1>2. \A x, y, z \in Int : /\ Abs(x - z) <= Abs(x - y) + Abs(y - z)
                           /\ Abs(x - y) = Abs(y - x) /\ Abs(x - y) \in Nat
  BY DEF Abs
<1>3. \A a, b : Distance(a, b) = Abs(a[1] - b[1]) + Abs(a[2] - b[2])
  BY DEF Distance
<1>4. PICK x, y, z, w : x = last[1] /\ y = last[2] /\ z = c[1] /\ w = c[2]
  OBVIOUS
<1>5. /\ x \in Int /\ y \in Int /\ z \in Int /\ w \in Int
      /\ Abs(x - z) + Abs(y - w) <= 1
      /\ Distance(c, last) = Abs(z - x) + Abs(w - y)
  BY <1>1, <1>3, <1>4
<1>6. Distance(c, last) <= 2
  <2>1. Abs(z - x) = Abs(x - z) /\ Abs(w - y) = Abs(y - w)
    BY <1>2, <1>5
  <2>2. Abs(x - z) \in Nat /\ Abs(y - w) \in Nat
    BY <1>2, <1>5
  <2> QED BY <1>5, <2>1, <2>2
<1>7. ASSUME NEW claim \in Cell, Distance(claim, last) <= 2
      PROVE  Distance(claim, c) <= 3
  <2>1. PICK u, v : u = claim[1] /\ v = claim[2]
    OBVIOUS
  <2>2. /\ u \in Int /\ v \in Int /\ Abs(u - x) + Abs(v - y) <= 2
        /\ Distance(claim, c) = Abs(u - z) + Abs(v - w)
    BY <1>1, <1>3, <1>4, <1>7, <2>1
  <2>3. Abs(u - z) <= Abs(u - x) + Abs(x - z) /\ Abs(v - w) <= Abs(v - y) + Abs(y - w)
    BY <1>2, <1>5, <2>2
  <2>4. /\ Abs(u - x) \in Nat /\ Abs(x - z) \in Nat /\ Abs(v - y) \in Nat
        /\ Abs(y - w) \in Nat /\ Abs(u - z) \in Nat /\ Abs(v - w) \in Nat
    BY <1>2, <1>5, <2>2
  <2> QED BY <1>5, <2>2, <2>3, <2>4
<1> QED BY <1>6, <1>7

\* Whatever is claimed, the pin stays within three steps of the rival, and an honest
\* claim is what is pinned (perception.py:177-192).
THEOREM PinIsNear ==
  ASSUME \A n \in Floors : n < 40000
  PROVE  Spec => []PinNearTruth
<1>1. Init => Fresh
  BY DEF Init, NewPerception, Fresh
<1>2. Whole /\ Arrived /\ Fresh /\ [Next]_vars => Fresh'
  <2> SUFFICES ASSUME Whole, Arrived, Fresh, [Next]_vars,
                      Undisturbed', percep'.track # << >>, percep'.age \notin percep'.refused
               PROVE  /\ path' # << >>
                      /\ percep'.track[Len(percep'.track)] \in {None, path'[Len(path')]}
    BY DEF Fresh
  <2>1. CASE Restart
    <3>1. hist'.restarts = hist.restarts + 1 /\ hist.restarts \in Nat
      BY <2>1 DEF Restart, Whole, Inv, Shape, Tallies
    <3> QED BY <3>1 DEF Undisturbed
  <2>2. CASE UNCHANGED vars
    BY <2>2 DEF vars, Fresh, Undisturbed
  <2>3. CASE ~Restart /\ ~UNCHANGED vars
    <3>1. PICK f, board, wall, echo, to : Sends(f, to, board, wall, echo)
      BY <2>3, Turns DEF Whole
    <3>2. PICK head \in {None, cell} : percep'.track = Append(percep.track, head)
      BY <3>1, Accepted
    <3>3. path' = Append(path, cell)
      BY <3>1 DEF Sends
    <3>4. percep.track \in Seq(Cell \cup {None}) /\ path \in Seq(Cell) /\ cell \in Cell
      BY DEF Whole, Counts, Inv, Shape
    <3>5. head \in Cell \cup {None}
      BY <3>2, <3>4
    <3> QED BY <3>2, <3>3, <3>4, <3>5
  <2> QED BY <2>1, <2>2, <2>3
<1>3. Whole /\ Fresh => PinNearTruth
  <2> SUFFICES ASSUME Whole, Fresh, Undisturbed, percep.track # << >>,
                      percep.age \notin percep.refused,
                      NEW head, head = percep.track[Len(percep.track)]
               PROVE  /\ \A claim \in Cell \cup {None} :
                           LET pin == Pin(head, hist.wall, claim)
                           IN  pin # None => Distance(pin, cell) <= 3
                      /\ head # None /\ hist.wall # cell => Pin(head, hist.wall, cell) = cell
    BY DEF PinNearTruth
  <2>1. PICK last : last = path[Len(path)] /\ head \in {None, last}
    BY DEF Fresh
  <2>2. path # << >> /\ path \in Seq(Cell) /\ cell \in Cell
    BY DEF Fresh, Whole, Counts, Inv, Shape
  <2>3. last \in Cell /\ Distance(last, cell) <= 1
    BY <2>1, <2>2 DEF Whole, Behind
  <2>4. hist.wall # None => last = cell /\ hist.wall \in Cell /\ Distance(cell, hist.wall) <= 1
    BY <2>1, <2>2 DEF Whole, Behind
  <2>5. /\ Distance(cell, last) <= 2
        /\ \A claim \in Cell : Distance(claim, last) <= 2 => Distance(claim, cell) <= 3
    BY <2>2, <2>3, Nearer
  <2>6. None \notin Cell /\ Distance(last, cell) <= 3
    BY <2>2, <2>3, PerceptionAssumption, Distances
  <2>7. ASSUME NEW claim \in Cell \cup {None}, Pin(head, hist.wall, claim) # None
        PROVE  Distance(Pin(head, hist.wall, claim), cell) <= 3
    <3>1. head = last
      BY <2>1, <2>7 DEF Pin
    <3>2. \/ Pin(head, hist.wall, claim) = claim /\ claim \in Cell /\ Distance(claim, last) <= 2
          \/ Pin(head, hist.wall, claim) = last
      BY <2>7, <3>1 DEF Pin
    <3> QED BY <2>5, <2>6, <3>2
  <2>8. ASSUME head # None, hist.wall # cell
        PROVE  Pin(head, hist.wall, cell) = cell
    <3>1. head = last
      BY <2>1, <2>8
    <3>2. ~(hist.wall # None /\ Distance(head, hist.wall) > 1)
      <4> SUFFICES ASSUME hist.wall # None PROVE ~(Distance(head, hist.wall) > 1)
        OBVIOUS
      <4>1. Distance(cell, hist.wall) \in Nat
        BY <2>2, <2>4, Distances
      <4> QED BY <2>4, <3>1, <4>1
    <3>3. Distance(cell, head) <= 2
      BY <2>5, <3>1
    <3> QED BY <2>2, <2>6, <2>8, <3>2, <3>3 DEF Pin
  <2> QED BY <2>7, <2>8
<1> QED BY <1>1, <1>2, <1>3, WholeInit, WholeStep, ArrivedInit, ArrivedStep, PTL DEF Spec
=============================================================================
