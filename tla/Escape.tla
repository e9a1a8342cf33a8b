------------------------------- MODULE Escape -------------------------------
(***************************************************************************)
(* The thief's brain against a police that may play anything.              *)
(*                                                                         *)
(* A decision is taken on a belief, not on the police's cell: `support` is *)
(* the set of cells that carry mass, `likely` those with enough of it for  *)
(* the certificate, and a sharp `peak` is trusted like exact information.  *)
(* CertifiedThiefBrain plays a certified move when there is one, the       *)
(* exact-information order under the lethal gate on a sharp peak, and the  *)
(* doctrine otherwise. Of the doctrine's score the ranks that promise      *)
(* survival are kept (the STAY ban, the lethal gate); the flee, stealth    *)
(* and random tie-breaks are a free choice among equals.                   *)
(***************************************************************************)
EXTENDS Engine

CONSTANTS
  None,
  MaxSupport,     \* max_support_cells, and forecast_top_k
  MaxHorizon,     \* max_horizon_turns
  MaxStays,       \* max_consecutive_stays
  ForecastWalls,  \* forecast_walls: walls of a cage the room forecast fears
  WallReach,      \* forecast_wall_reach
  SiteCap,        \* SITE_CAP: sites of a cage that are looked at
  TunedGrid       \* TUNED_GRID: the largest board whose cages are enumerated

ASSUME EscapeAssumption == ForecastWalls \in Nat /\ TunedGrid \in Nat

VARIABLES
  plan,     \* what the decision just played was promised, until the reply
  stays,    \* consecutive STAYs
  cage      \* a room forecast, written down once

escapeVars == <<engine, plan, stays, cage>>

-----------------------------------------------------------------------------
(* Reachability on the board *)

\* The same function, which TLC then tabulates once.
Tabulated(f) == CHOOSE g \in {f} : g = f

Neighbours == Tabulated([c \in Cell |-> {d \in Cell : Distance(c, d) = 1}])

Exits(walls, c) == Neighbours[c] \ walls

\* Every board of the game, and every one a forecast supposes, is within quota.
Boards == {walls \in SUBSET Cell : Cardinality(walls) <= MaxBarriers}

Farthest == GridSize * GridSize

\* bfs_distances: the cells within n steps of the source.
Rings ==
  Tabulated([walls \in Boards |-> Tabulated([source \in Cell |->
    LET ring[n \in Nat] ==
          IF n = 0 THEN {source}
          ELSE {source} \cup UNION {Exits(walls, c) : c \in ring[n - 1]}
    IN  Tabulated([n \in 0 .. Farthest |-> ring[n]])])])

Region(walls, source) == Rings[walls][source][Farthest]

Unreachable == 1000000

StepsTo(walls, source, c) ==
  IF c \notin Region(walls, source) THEN Unreachable
  ELSE Cardinality({n \in 0 .. Farthest : c \notin Rings[walls][source][n]})

Least(S) == CHOOSE n \in S : \A m \in S : n <= m

-----------------------------------------------------------------------------
(* The survival certificate *)

Placeable(walls, cop) ==
  IF Cardinality(walls) >= MaxBarriers THEN {}
  ELSE ({cop} \cup Neighbours[cop]) \ walls

DeadlyLanding(walls, landed, cop) == landed = cop \/ IsSurrounded(walls, landed)

Standing == [thief : Cell, cop : Cell, walls : SUBSET Cell]

Stand(thief, cop, walls) == [thief |-> thief, cop |-> cop, walls |-> walls]

\* _move_survives: the moves that survive n full turns of perfect police play.
SurvivingMoves ==
  LET surviving[n \in Nat] ==
        [s \in Standing |->
           {move \in Move :
              LET landed == AppliedTo(move, s.thief)
                  lives(cop, walls) == surviving[n - 1][Stand(landed, cop, walls)] # {}
              IN  /\ move = "STAY" \/ IsPassable(s.walls, landed)
                  /\ ~DeadlyLanding(s.walls, landed, s.cop)
                  /\ n <= 1 \/
                     /\ \A m \in Move :
                          MoveLegal(s.walls, s.cop, m) =>
                            /\ AppliedTo(m, s.cop) # landed
                            /\ lives(AppliedTo(m, s.cop), s.walls)
                     /\ \A w \in Placeable(s.walls, s.cop) :
                          /\ w # landed
                          /\ ~IsSurrounded(s.walls \cup {w}, landed)
                          /\ lives(s.cop, s.walls \cup {w})}]
  IN  surviving

Remaining == SurvivalThreshold - engine.turns_completed

Survivors(cop) == SurvivingMoves[Remaining][Stand(Thief, cop, engine.barriers)]

\* Mutant: a move that survives some believed police is enough.
CertifiedForSome(support) ==
  IF Remaining \in 1 .. MaxHorizon THEN UNION {Survivors(cop) : cop \in support}
  ELSE {}

\* The moves that survive against every cell of the support, to the very end.
Certified(support) ==
  IF Remaining \in 1 .. MaxHorizon
  THEN {m \in Move : \A cop \in support : m \in Survivors(cop)}
  ELSE {}

Ranked == <<"N", "S", "E", "W", "STAY">>

FirstRanked(moves) ==
  Ranked[Least({i \in 1 .. 5 : Ranked[i] \in moves})]

-----------------------------------------------------------------------------
(* The wall forecasts *)

ReplyWalls(walls, cop) == Placeable(walls, cop)

\* Walls are left, and the next one may stand on c: captured.
CanEnd(walls, c, cop) ==
  Cardinality(walls) < MaxBarriers /\ c \in {cop} \cup Neighbours[cop]

\* _after_best_wall: escapes and region of a landing after the best reply.
AfterBestWall(walls, c, cop) ==
  LET boards == {walls} \cup {walls \cup {w} : w \in ReplyWalls(walls, cop)}
  IN  IF CanEnd(walls, c, cop) THEN <<0, 0>>
      ELSE <<Least({Cardinality(Exits(b, c)) : b \in boards}),
             Least({Cardinality(Region(b, c)) : b \in boards})>>

\* Mutant: the reply of one believed police stands for all.
ForecastOfOne(walls, c, support) ==
  AfterBestWall(walls, c, CHOOSE cop \in support : TRUE)

\* The doctrine's elementwise minimum over the support.
Forecast(walls, c, support) ==
  LET each == {AfterBestWall(walls, c, cop) : cop \in support}
  IN  <<Least({f[1] : f \in each}), Least({f[2] : f \in each})>>

\* The forecast is (0, 0): a region without its own cell is a captured landing.
Gated(walls, c, support) == \E cop \in support : CanEnd(walls, c, cop)

OnRim(c) == c[1] \in {0, GridSize - 1} \/ c[2] \in {0, GridSize - 1}

\* Where the police may extend a cage: near it, or anchored on the rim or a wall.
Extensible(walls, cop) ==
  {s \in Cell \ walls :
     /\ Distance(s, cop) <= WallReach
     /\ Distance(s, cop) <= 3 \/ OnRim(s) \/ Neighbours[s] \cap walls # {}}

\* Before b in the scan of the board, stably sorted by the distance to the landing.
SortsBefore(landing, a, b) ==
  \/ Distance(a, landing) < Distance(b, landing)
  \/ /\ Distance(a, landing) = Distance(b, landing)
     /\ a[1] < b[1] \/ (a[1] = b[1] /\ a[2] < b[2])

\* _sites: the first SiteCap of them, among which the landing is then left out.
Sites(walls, cop, landing) ==
  LET all == Extensible(walls, cop)
  IN  {s \in all \ {landing} :
         Cardinality({t \in all : SortsBefore(landing, t, s)}) < SiteCap}

\* Walls of colinear runs of three and more, and the cells that complete them.
Line(i, horizontal) ==
  {IF horizontal THEN <<i, j>> ELSE <<j, i>> : j \in 0 .. GridSize - 1}

Runs(walls) ==
  {line \in {Line(i, h) : i \in 0 .. GridSize - 1, h \in BOOLEAN} :
     \E run \in {r \in SUBSET (line \cap walls) : Cardinality(r) = 3} :
       \A a, b \in run : Distance(a, b) <= 2}

Completion(walls) == UNION Runs(walls) \ walls

LineCompletionRegion(walls, landing) ==
  LET extra == Completion(walls)
  IN  IF extra = {} \/ Cardinality(extra) > MaxBarriers - Cardinality(walls)
      THEN Cardinality(Region(walls, landing))
      ELSE Cardinality(Region(walls \cup (extra \ {landing}), landing))

\* Mutant: only the next wall is feared.
CageBudgetOne(walls) == IF Cardinality(walls) < MaxBarriers THEN 1 ELSE 0

CageBudget(walls) ==
  Least({ForecastWalls, MaxBarriers - Cardinality(walls)})

Subsets(S, n) == {s \in SUBSET S : Cardinality(s) = n}

\* The landing's room under the worst cage any believed police can afford.
KWallRegion(walls, landing, support) ==
  LET cages(sites) == Subsets(sites, Least({CageBudget(walls), Cardinality(sites)}))
  IN  Least({LineCompletionRegion(walls, landing)} \cup
            {Cardinality(Region(walls \cup s, landing)) :
               s \in UNION {cages(Sites(walls, cop, landing)) : cop \in support}})

\* doctrine_room: nothing without the knob, no enumeration above the tuned board.
DoctrineRoom(walls, landing, support) ==
  CASE ForecastWalls = 0 \/ support = {} -> 0
    [] ForecastWalls # 0 /\ support # {} /\ GridSize > TunedGrid ->
         LineCompletionRegion(walls, landing)
    [] OTHER -> KWallRegion(walls, landing, support)

-----------------------------------------------------------------------------
(* Decisions *)

Options == {m \in Move : MoveLegal(engine.barriers, Thief, m)}

\* The exact-information order of ThiefBrain._score, on a trusted peak.
SharpScore(c, cop) ==
  LET d == StepsTo(engine.barriers, cop, c)
      f == AfterBestWall(engine.barriers, c, cop)
  IN  <<Least({d, 2}), f[1], f[2],
        Least({c[1], c[2], GridSize - 1 - c[1], GridSize - 1 - c[2]}),
        d, Cardinality(Exits(engine.barriers, c))>>

Outranks(a, b) ==
  \E i \in DOMAIN a : a[i] > b[i] /\ \A j \in 1 .. i - 1 : a[j] = b[j]

Best(score) == {m \in Options : \A n \in Options : ~Outranks(score[n], score[m])}

\* Mutant: a sharp peak takes the parent's order, and bypasses the gate.
SharpBypass(peak, support) ==
  Best([m \in Options |-> SharpScore(AppliedTo(m, Thief), peak)])

\* With the cage doctrine armed the gate ranks above the parent's order.
SharpChoices(peak, support) ==
  LET free(m) == IF Gated(engine.barriers, AppliedTo(m, Thief), support) THEN 0 ELSE 1
  IN  Best([m \in Options |-> <<free(m)>> \o SharpScore(AppliedTo(m, Thief), peak)])

\* The doctrine: a banned STAY loses to anything, a gated landing to any other.
DoctrineChoices(support, banned) ==
  LET open == IF banned /\ Options # {"STAY"} THEN Options \ {"STAY"} ELSE Options
      safe == {m \in open : ~Gated(engine.barriers, AppliedTo(m, Thief), support)}
  IN  IF safe = {} THEN open ELSE safe

Choices(certified, support, peak, banned) ==
  IF certified # {} THEN {FirstRanked(certified)}
  ELSE IF peak # None THEN SharpChoices(peak, support)
  ELSE DoctrineChoices(support, banned)

\* What a decision taken on a belief that holds the police's cell is promised.
Decision(certified, support, peak, banned, move) ==
  [by       |-> IF certified # {} THEN "certificate" ELSE "gate",
   gated    |-> \A m \in IF banned /\ peak = None THEN Options \ {"STAY"} ELSE Options :
                  Gated(engine.barriers, AppliedTo(m, Thief), support),
   forecast |-> Forecast(engine.barriers, AppliedTo(move, Thief), support)]

Priced(landing) ==
  [cop |-> Cop, walls |-> engine.barriers, landing |-> landing,
   room |-> DoctrineRoom(engine.barriers, landing, {Cop})]

-----------------------------------------------------------------------------
EscapeInit == Init /\ plan = None /\ stays = 0 /\ cage = None

PolicePlays ==
  /\ \/ \E move \in Move : PoliceMove(move)
     \/ \E target \in Target : PolicePlaceBarrier(target)
  /\ plan' = None
  /\ UNCHANGED <<stays, cage>>

Beliefs == {s \in SUBSET Cell : Cardinality(s) <= MaxSupport}

\* A belief has no mass on a wall.
Supports == {s \in Beliefs : Cop \in s /\ s \cap engine.barriers \subseteq {Cop}}

Stayed(move) == IF move # "STAY" THEN 0 ELSE Least({stays + 1, MaxStays})

\* STAY is banned after MaxStays of them, when the mirror says the trail glows. No
\* certificate is sought on a broad support, or found once its budget is spent;
\* a certified move is played without being counted.
ThiefDecides(support, likely) ==
  /\ RequireTurn(engine, "thief") /\ cage = None
  /\ \E certified \in {Certified(likely), {}},
        peak \in support \cup {None}, banned \in {stays >= MaxStays, FALSE} :
     \E move \in Choices(certified, support, peak, banned) :
       /\ ThiefMove(move)
       /\ plan' = Decision(certified, support, peak, banned, move)
       /\ stays' = IF certified # {} THEN stays ELSE Stayed(move)
  /\ UNCHANGED cage

\* A belief that misses the police may lead anywhere, and promises nothing.
ThiefMisled ==
  /\ RequireTurn(engine, "thief")
  /\ \E move \in Options : ThiefMove(move) /\ stays' \in {stays, Stayed(move)}
  /\ plan' = None
  /\ UNCHANGED cage

\* The cage forecast of one landing is written down, and the game goes on.
PriceLanding ==
  /\ RequireTurn(engine, "thief") /\ cage = None
  /\ \E move \in Options : cage' = Priced(AppliedTo(move, Thief))
  /\ plan' = None /\ stays' = 0
  /\ UNCHANGED engine

EscapeNext ==
  \/ PolicePlays
  \/ \E support \in Supports :
       \E likely \in {l \in SUBSET support : Cop \in l} : ThiefDecides(support, likely)
  \/ ThiefMisled
  \/ PriceLanding

EscapeSpec == EscapeInit /\ [][EscapeNext]_escapeVars

-----------------------------------------------------------------------------
(* Properties *)

Replied == plan # None /\ engine' # engine

\* A certified move really survives: whatever the police answers from a cell of
\* the support, the thief is not caught, and one of its moves still outlives
\* perfect play to the end of the clock (endgame.py:3-6, 130-159).
CertificateHolds ==
  [][Replied /\ plan.by = "certificate" =>
       engine'.outcome # "capture" /\ (Survivors(Cop) # {})']_escapeVars

\* The one-ply forecast is a floor: after the police's actual reply the landing
\* has at least the escapes and the region it was promised, unless the forecast
\* had already given it up (thief_brain.py:75-96, doctrine.py:148-156).
ForecastHolds ==
  [][Replied =>
       /\ plan.forecast[1] <= Cardinality(Exits(engine.barriers, Thief)')
       /\ plan.forecast[2] <= Cardinality(Region(engine.barriers, Thief)')]_escapeVars

Ended == Cop = Thief \/ Thief \in engine.barriers

\* While the police has walls left, no move but a certified one lands where it
\* can be occupied or walled at the next half-turn, if any landing was free of
\* that, however sharp or wrong the peak is (doctrine.py:163-171, 195-199).
GateHolds ==
  [][Replied /\ plan.by = "gate" /\ ~plan.gated
       /\ Cardinality(engine.barriers) < MaxBarriers => ~Ended']_escapeVars

\* The cage forecast is a floor over several turns: on a board it enumerates, as
\* long as the police has added no more walls than it fears, all of them among the
\* sites nearest the landing that it looks at, the landing keeps the room it was
\* priced at (cage_forecast.py:53-65, 117-129, 177-196).
RoomIsFloor ==
  cage # None /\ GridSize <= TunedGrid =>
    LET added == engine.barriers \ cage.walls
    IN  /\ added \subseteq Sites(cage.walls, cage.cop, cage.landing)
        /\ Cardinality(added) <= ForecastWalls
        => cage.room <= Cardinality(Region(engine.barriers, cage.landing))

\* On every board it is one for the declared cuts: walls that complete them, when
\* the police could afford to, leave the room that was priced
\* (cage_forecast.py:94-114).
CutIsPriced ==
  cage # None =>
    LET extra == Completion(cage.walls)
    IN  /\ engine.barriers \subseteq cage.walls \cup (extra \ {cage.landing})
        /\ extra # {} /\ Cardinality(extra) <= MaxBarriers - Cardinality(cage.walls)
        => cage.room <= Cardinality(Region(engine.barriers, cage.landing))
=============================================================================
