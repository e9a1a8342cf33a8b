---------------------------- MODULE EscapeProofs ----------------------------
(***************************************************************************)
(* The engine's type invariant and its safety properties, for every board, *)
(* quota and limit the code accepts; and what the thief's brain promises   *)
(* on top of it, for every belief that holds the police's cell, against    *)
(* every reply: the cage forecast, the one-ply forecast, the lethal gate   *)
(* and the survival certificate.                                           *)
(***************************************************************************)
EXTENDS Escape, PhysicsProofs

\* Where a legal barrier lies.
LEMMA LegalBarrierLands ==
  ASSUME NEW barriers, NEW cop \in Cell, NEW target \in Target,
         BarrierLegal(barriers, cop, target)
  PROVE  target \in Cell /\ target \notin barriers /\ Distance(cop, target) <= 1
<1>1. PICK r \in -1 .. GridSize, c \in -1 .. GridSize : target = <<r, c>>
  BY DEF Target
<1>2. InBounds(target) /\ target \notin barriers /\ Distance(cop, target) <= 1
  BY DEF BarrierLegal
<1>3. target \in Cell
  BY <1>1, <1>2, PhysicsAssumption DEF InBounds, Cell
<1> QED BY <1>2, <1>3
-----------------------------------------------------------------------------
(* The inductive invariant *)

\* CaptureExact excuses the engine before its first action, so the invariant
\* adds that a thief still playing stands on no barrier; counting barriers
\* needs them finite.
Inv ==
  /\ TypeOK
  /\ IsFiniteSet(engine.barriers)
  /\ engine.outcome = "ongoing" => Thief \notin engine.barriers
  /\ CaptureExact
  /\ SurvivalEarned
  /\ BarrierBudget

\* A fresh engine satisfies the invariant.
LEMMA InitInv == Init => Inv
<1> SUFFICES ASSUME Init PROVE Inv
  OBVIOUS
<1>1. /\ engine = NewEngine
      /\ engine.barriers = {} /\ engine.turns_completed = 0
      /\ engine.outcome = "ongoing" /\ engine.next_actor = "police"
      /\ engine.positions = [police |-> CopStart, thief |-> ThiefStart]
      /\ engine.emissions = << >>
  BY DEF Init, NewEngine
<1>2. TypeOK
  <2>1. [police |-> CopStart, thief |-> ThiefStart] \in [Role -> Cell]
    BY PhysicsAssumption DEF Role
  <2>2. << >> \in Seq([Role -> Cell])
    OBVIOUS
  <2>3. NewEngine \in EngineType
    BY <2>1, <2>2 DEF NewEngine, EngineType, Role, Outcome
  <2> QED BY <1>1, <2>3 DEF TypeOK
<1>3. IsFiniteSet(engine.barriers) /\ Cardinality(engine.barriers) = 0
  BY <1>1, FS_EmptySet
<1>4. SurvivalEarned
  BY <1>1, PhysicsAssumption DEF SurvivalEarned, TurnLimit
<1>5. BarrierBudget
  BY <1>1, <1>3, PhysicsAssumption DEF BarrierBudget
<1>6. CaptureExact
  BY <1>1 DEF CaptureExact
<1> QED BY <1>1, <1>2, <1>3, <1>4, <1>5, <1>6 DEF Inv

\* police_move keeps the invariant: only landing can be new.
LEMMA PoliceMoveInv ==
  ASSUME Inv, NEW move \in Move, PoliceMove(move)
  PROVE  Inv'
<1> USE PhysicsAssumption
<1>1. /\ engine \in EngineType /\ engine.outcome = "ongoing"
      /\ engine.next_actor = "police"
      /\ MoveLegal(engine.barriers, engine.positions["police"], move)
      /\ engine' = AfterPoliceMove(engine, move)
  BY DEF Inv, TypeOK, PoliceMove, RequireTurn
<1>2. /\ engine' \in EngineType
      /\ engine'.barriers = engine.barriers
      /\ engine'.positions["thief"] = engine.positions["thief"]
      /\ engine'.turns_completed = engine.turns_completed
      /\ engine'.next_actor = "thief"
      /\ engine'.outcome = IF CapturedMidRound(engine'.barriers,
                                               engine'.positions["police"],
                                               engine'.positions["thief"])
                           THEN "capture" ELSE "ongoing"
  BY <1>1, AfterPoliceMoveFacts
<1>3. Thief' = Thief /\ Thief \notin engine.barriers
  BY <1>1, <1>2 DEF Inv, Thief
<1>4. Caught' <=> engine'.outcome = "capture"
  BY <1>2, <1>3 DEF Caught, CapturedMidRound, Cop, Thief
<1>5. TypeOK'
  BY <1>2 DEF TypeOK
<1>6. SurvivalEarned'
  BY <1>1, <1>2 DEF Inv, SurvivalEarned, TurnLimit
<1>7. BarrierBudget'
  <2>1. Cardinality(engine.barriers) \in Nat /\ engine.turns_completed \in Nat
    BY <1>1, FS_CardinalityType DEF Inv, EngineType
  <2>2. /\ Cardinality(engine.barriers) <= MaxBarriers
        /\ Cardinality(engine.barriers) <= engine.turns_completed
    BY <1>1, <2>1 DEF Inv, BarrierBudget
  <2> QED BY <1>2, <2>1, <2>2 DEF BarrierBudget
<1>8. CaptureExact'
  BY <1>4 DEF CaptureExact
<1> QED BY <1>2, <1>3, <1>5, <1>6, <1>7, <1>8 DEF Inv

\* police_place_barrier keeps the invariant: it may wall the thief's cell or
\* its last way out, and it spends one barrier of the budget.
LEMMA PolicePlaceBarrierInv ==
  ASSUME Inv, NEW target \in Target, PolicePlaceBarrier(target)
  PROVE  Inv'
<1> USE PhysicsAssumption
<1>1. /\ engine \in EngineType /\ engine.outcome = "ongoing"
      /\ engine.next_actor = "police"
      /\ BarrierLegal(engine.barriers, engine.positions["police"], target)
      /\ engine' = AfterBarrier(engine, target)
  BY DEF Inv, TypeOK, PolicePlaceBarrier, RequireTurn
<1>2. target \in Cell /\ target \notin engine.barriers
  BY <1>1, LegalBarrierLands DEF EngineType, Role
<1>3. /\ engine' \in EngineType
      /\ engine'.barriers = engine.barriers \cup {target}
      /\ engine'.positions = engine.positions
      /\ engine'.turns_completed = engine.turns_completed
      /\ engine'.next_actor = "thief"
      /\ engine'.outcome = IF \/ target = engine.positions["thief"]
                              \/ CapturedMidRound(engine'.barriers,
                                                  engine'.positions["police"],
                                                  engine'.positions["thief"])
                           THEN "capture" ELSE "ongoing"
  BY <1>1, <1>2, AfterBarrierFacts
<1>4. Thief' = Thief /\ Thief \notin engine.barriers
  BY <1>1, <1>3 DEF Inv, Thief
<1>5. Caught' <=> engine'.outcome = "capture"
  BY <1>3, <1>4 DEF Caught, CapturedMidRound, Cop, Thief
<1>6. TypeOK'
  BY <1>3 DEF TypeOK
<1>7. SurvivalEarned'
  BY <1>1, <1>3 DEF Inv, SurvivalEarned, TurnLimit
<1>8. IsFiniteSet(engine'.barriers) /\ BarrierBudget'
  <2>1. Cardinality(engine.barriers) \in Nat /\ engine.turns_completed \in Nat
    BY <1>1, FS_CardinalityType DEF Inv, EngineType
  <2>2. Cardinality(engine.barriers) < MaxBarriers
    BY <1>1 DEF BarrierLegal
  <2>3. Cardinality(engine.barriers) <= engine.turns_completed
    BY <1>1, <2>1 DEF Inv, BarrierBudget
  <2>4. /\ IsFiniteSet(engine.barriers \cup {target})
        /\ Cardinality(engine.barriers \cup {target}) = Cardinality(engine.barriers) + 1
    <3>1. IsFiniteSet(engine.barriers)
      BY DEF Inv
    <3> QED BY <1>2, <3>1, FS_AddElement, Zenon
  <2> QED BY <1>3, <2>1, <2>2, <2>3, <2>4 DEF BarrierBudget
<1>9. CaptureExact'
  BY <1>5 DEF CaptureExact
<1>10. engine'.outcome = "ongoing" => Thief' \notin engine'.barriers
  BY <1>3, <1>4 DEF Thief
<1> QED BY <1>6, <1>7, <1>8, <1>9, <1>10 DEF Inv

\* thief_move keeps the invariant: the thief may walk into the cop or into a
\* dead end, and otherwise the full turn closes.
LEMMA ThiefMoveInv ==
  ASSUME Inv, NEW move \in Move, ThiefMove(move)
  PROVE  Inv'
<1> USE PhysicsAssumption
<1> DEFINE caught == CapturedMidRound(engine'.barriers, engine'.positions["police"],
                                      engine'.positions["thief"])
<1>1. /\ engine \in EngineType /\ engine.outcome = "ongoing"
      /\ engine.next_actor = "thief"
      /\ MoveLegal(engine.barriers, engine.positions["thief"], move)
      /\ engine' = AfterThiefMove(engine, move)
  BY DEF Inv, TypeOK, ThiefMove, RequireTurn
<1>2. /\ engine' \in EngineType
      /\ engine'.barriers = engine.barriers
      /\ engine'.positions["thief"] = AppliedTo(move, engine.positions["thief"])
      /\ engine'.next_actor = "police"
      /\ caught => /\ engine'.outcome = "capture"
                   /\ engine'.turns_completed = engine.turns_completed
      /\ ~caught => /\ engine'.turns_completed = engine.turns_completed + 1
                    /\ engine'.outcome =
                         IF \/ engine'.turns_completed >= SurvivalThreshold
                            \/ engine'.turns_completed >= MaxMoves
                         THEN "survival" ELSE "ongoing"
  BY <1>1, AfterThiefMoveFacts
<1>3. Thief' \notin engine'.barriers
  <2>1. engine.positions["thief"] \notin engine.barriers
    BY <1>1 DEF Inv, Thief
  <2>2. engine.positions["thief"] \in Cell
    BY <1>1 DEF EngineType, Role
  <2>3. AppliedTo(move, engine.positions["thief"]) \notin engine.barriers
    BY <1>1, <2>1, <2>2, LegalMoveLands
  <2> QED BY <1>2, <2>3 DEF Thief
<1>4. Caught' <=> caught
  BY <1>3 DEF Caught, CapturedMidRound, Cop, Thief
<1> HIDE DEF caught
<1>5. Caught' <=> engine'.outcome = "capture"
  BY <1>2, <1>4
<1>6. TypeOK'
  BY <1>2 DEF TypeOK
<1>7. engine.turns_completed \in Nat /\ engine.turns_completed < TurnLimit
  BY <1>1 DEF Inv, SurvivalEarned, EngineType
<1>8. SurvivalEarned'
  <2>1. CASE caught
    BY <1>2, <2>1 DEF SurvivalEarned
  <2>2. CASE ~caught
    BY <1>2, <1>4, <1>7, <2>2 DEF SurvivalEarned, TurnLimit
  <2> QED BY <2>1, <2>2
<1>9. BarrierBudget'
  <2>1. /\ Cardinality(engine.barriers) <= MaxBarriers
        /\ Cardinality(engine.barriers) <= engine.turns_completed + 1
    BY <1>1 DEF Inv, BarrierBudget
  <2>2. Cardinality(engine.barriers) \in Nat
    BY FS_CardinalityType DEF Inv
  <2> QED BY <1>2, <1>7, <2>1, <2>2 DEF BarrierBudget
<1>10. CaptureExact'
  BY <1>5 DEF CaptureExact
<1>11. IsFiniteSet(engine'.barriers)
  BY <1>2 DEF Inv
<1> QED BY <1>3, <1>6, <1>8, <1>9, <1>10, <1>11 DEF Inv

\* Every operation of the engine keeps the invariant.
LEMMA NextInv == Inv /\ [Next]_engine => Inv'
<1> SUFFICES ASSUME Inv, [Next]_engine PROVE Inv'
  OBVIOUS
<1>1. ASSUME NEW move \in Move, PoliceMove(move) PROVE Inv'
  BY <1>1, PoliceMoveInv
<1>2. ASSUME NEW target \in Target, PolicePlaceBarrier(target) PROVE Inv'
  BY <1>2, PolicePlaceBarrierInv
<1>3. ASSUME NEW move \in Move, ThiefMove(move) PROVE Inv'
  BY <1>3, ThiefMoveInv
<1>4. CASE UNCHANGED engine
  BY <1>4 DEF Inv, TypeOK, CaptureExact, SurvivalEarned, BarrierBudget, Caught, Cop,
              Thief
<1> QED BY <1>1, <1>2, <1>3, <1>4 DEF Next

\* The invariant holds in every reachable state of the engine.
THEOREM Invariance == Spec => []Inv
<1> QED BY InitInv, NextInv, PTL DEF Spec

\* The engine keeps its types, on every board and with every limit.
THEOREM TypeCorrect == Spec => []TypeOK
<1>1. Inv => TypeOK
  BY DEF Inv
<1> QED BY <1>1, Invariance, PTL

\* Capture is declared exactly when the thief is caught (rules 46-48).
THEOREM CaptureIsExact == Spec => []CaptureExact
<1>1. Inv => CaptureExact
  BY DEF Inv
<1> QED BY <1>1, Invariance, PTL

\* Survival is declared at the agreed turn limit and never for a caught thief.
THEOREM SurvivalIsEarned == Spec => []SurvivalEarned
<1>1. Inv => SurvivalEarned
  BY DEF Inv
<1> QED BY <1>1, Invariance, PTL

\* The cop pays one round for each barrier and stays within the quota.
THEOREM BarriersArePaidFor == Spec => []BarrierBudget
<1>1. Inv => BarrierBudget
  BY DEF Inv
<1> QED BY <1>1, Invariance, PTL

\* What every operation does to the barriers.
LEMMA NextLawful ==
  ASSUME Inv, Next
  PROVE  BarrierStep
<1>1. engine \in EngineType
  BY DEF Inv, TypeOK
<1>2. ASSUME NEW move \in Move, PoliceMove(move) PROVE BarrierStep
  <2>1. engine'.barriers = engine.barriers
    BY <1>1, <1>2, AfterPoliceMoveFacts DEF PoliceMove
  <2> QED BY <2>1 DEF BarrierStep
<1>3. ASSUME NEW target \in Target, PolicePlaceBarrier(target) PROVE BarrierStep
  <2>1. Cop \in Cell
    BY <1>1 DEF Cop, EngineType, Role
  <2>2. target \in Cell /\ Distance(Cop, target) <= 1
    BY <1>3, <2>1, LegalBarrierLands DEF PolicePlaceBarrier, Cop
  <2>3. /\ engine'.barriers = engine.barriers \cup {target}
        /\ engine'.positions = engine.positions
    BY <1>1, <1>3, <2>2, AfterBarrierFacts DEF PolicePlaceBarrier
  <2>4. engine.next_actor = "police"
    BY <1>3 DEF PolicePlaceBarrier, RequireTurn
  <2> QED BY <2>2, <2>3, <2>4 DEF BarrierStep
<1>4. ASSUME NEW move \in Move, ThiefMove(move) PROVE BarrierStep
  <2>1. engine'.barriers = engine.barriers
    BY <1>1, <1>4, AfterThiefMoveFacts DEF ThiefMove, RequireTurn
  <2> QED BY <2>1 DEF BarrierStep
<1> QED BY <1>2, <1>3, <1>4 DEF Next

\* The law of barriers (rules 15-16): permanent, adjacent to a cop that stood
\* still, and placed by the police's half-turn only.
THEOREM BarriersAreLawful == Spec => LawOfBarriers
<1>1. Inv /\ [Next]_engine => [BarrierStep]_engine
  BY NextLawful
<1> QED BY <1>1, Invariance, PTL DEF Spec, LawOfBarriers

-----------------------------------------------------------------------------
(* Tabulated functions, least elements, and functions by recursion *)

\* A tabulated function is the function.
LEMMA TabulatedIs ==
  ASSUME NEW f
  PROVE  Tabulated(f) = f
BY DEF Tabulated

\* A set of naturals has its least element in it.
LEMMA LeastIs ==
  ASSUME NEW S \in SUBSET Nat, S # {}
  PROVE  Least(S) \in S /\ \A m \in S : Least(S) <= m
<1>1. \E n \in S : \A m \in S : n <= m
  BY LeastNumber
<1> QED BY <1>1 DEF Least

\* What starts as z and goes on by F.
Iterates(z, F, f) == f = [n \in Nat |-> IF n = 0 THEN z ELSE F[f[n - 1]]]

\* Recursion over the naturals defines a function.
LEMMA IterationExists ==
  ASSUME NEW z, NEW F
  PROVE  \E f : Iterates(z, F, f)
<1> DEFINE Prefix(n, g) == g = [k \in 0 .. n |-> IF k = 0 THEN z ELSE F[g[k - 1]]]
           Bad == {n \in Nat : ~\E g : Prefix(n, g)}
<1>1. ASSUME NEW m \in Nat, NEW n \in Nat, NEW g, NEW h, Prefix(m, g), Prefix(n, h),
             NEW k \in Nat, k <= m, k <= n
      PROVE  g[k] = h[k]
  <2> DEFINE Differ == {j \in Nat : j <= m /\ j <= n /\ g[j] # h[j]}
  <2> SUFFICES ASSUME Differ # {} PROVE FALSE
    BY <1>1
  <2>1. PICK j \in Differ : \A i \in Differ : j <= i
    BY LeastNumber
  <2>2. /\ j \in 0 .. m /\ g[j] = IF j = 0 THEN z ELSE F[g[j - 1]]
        /\ j \in 0 .. n /\ h[j] = IF j = 0 THEN z ELSE F[h[j - 1]]
    <3>1. j \in 0 .. m /\ j \in 0 .. n
      BY <2>1
    <3>2. /\ g = [x \in 0 .. m |-> IF x = 0 THEN z ELSE F[g[x - 1]]]
          /\ h = [x \in 0 .. n |-> IF x = 0 THEN z ELSE F[h[x - 1]]]
      BY <1>1
    <3> QED BY <3>1, <3>2
  <2>3. j # 0 /\ j - 1 \in Nat /\ j - 1 \notin Differ
    BY <2>1, <2>2
  <2> QED BY <2>1, <2>2, <2>3
<1>2. Bad = {}
  <2> SUFFICES ASSUME Bad # {} PROVE FALSE
    OBVIOUS
  <2>1. PICK n \in Bad : \A i \in Bad : n <= i
    BY LeastNumber
  <2>2. CASE n = 0
    <3>1. PICK g : g = [k \in 0 .. n |-> z]
      OBVIOUS
    <3>2. \A k \in 0 .. n : k = 0
      BY <2>2
    <3>3. Prefix(n, g)
      BY <3>1, <3>2
    <3> QED BY <2>1, <3>3
  <2>3. CASE n # 0
    <3>1. n - 1 \in Nat /\ n - 1 \notin Bad
      <4> HIDE DEF Prefix
      <4>1. n \in Nat
        BY <2>1
      <4>2. n - 1 \in Nat /\ ~(n <= n - 1)
        BY <2>3, <4>1
      <4> HIDE DEF Bad
      <4> QED BY <2>1, <4>2
    <3>2. PICK h : Prefix(n - 1, h)
      BY <3>1
    <3>3. PICK g : g = [k \in 0 .. n |-> IF k = n THEN F[h[n - 1]] ELSE h[k]]
      OBVIOUS
    <3>4. ASSUME NEW k \in 0 .. n
          PROVE  g[k] = IF k = 0 THEN z ELSE F[g[k - 1]]
      <4>1. CASE k = n
        BY <2>3, <3>3, <4>1
      <4>2. CASE k # n
        <5>1. k \in 0 .. n - 1 /\ g[k] = h[k]
          BY <3>3, <4>2
        <5>2. h[k] = IF k = 0 THEN z ELSE F[h[k - 1]]
          BY <3>2, <5>1
        <5>3. k # 0 => g[k - 1] = h[k - 1]
          BY <3>3, <5>1
        <5> QED BY <5>1, <5>2, <5>3
      <4> QED BY <4>1, <4>2
    <3>5. Prefix(n, g)
      BY <3>3, <3>4
    <3> QED BY <2>1, <3>5
  <2> QED BY <2>2, <2>3
<1> HIDE DEF Prefix, Bad
<1>3. PICK f : f = [n \in Nat |-> (CHOOSE g : Prefix(n, g))[n]]
  OBVIOUS
<1>4. \A n \in Nat : \E g : Prefix(n, g) /\ f[n] = g[n]
  BY <1>2, <1>3 DEF Bad
<1>5. ASSUME NEW n \in Nat PROVE f[n] = IF n = 0 THEN z ELSE F[f[n - 1]]
  <2>1. PICK g : Prefix(n, g) /\ f[n] = g[n]
    BY <1>4
  <2>2. g[n] = IF n = 0 THEN z ELSE F[g[n - 1]]
    BY <2>1 DEF Prefix
  <2>3. CASE n # 0
    <3>1. PICK h : Prefix(n - 1, h) /\ f[n - 1] = h[n - 1]
      BY <1>4, <2>3
    <3>2. h[n - 1] = g[n - 1]
      <4>1. n - 1 \in Nat /\ n - 1 <= n
        BY <2>3
      <4> QED BY <1>1, <2>1, <3>1, <4>1
    <3> QED BY <2>1, <2>2, <3>1, <3>2
  <2> QED BY <2>1, <2>2, <2>3
<1>6. f = [n \in Nat |-> IF n = 0 THEN z ELSE F[f[n - 1]]]
  BY <1>3, <1>5
<1> QED BY <1>6 DEF Iterates

-----------------------------------------------------------------------------
(* The board as a graph *)

\* The tabulated neighbours of a cell.
LEMMA NeighboursAre ==
  ASSUME NEW c \in Cell
  PROVE  Neighbours[c] = {d \in Cell : Distance(c, d) = 1}
<1>1. PICK f : f = [a \in Cell |-> {d \in Cell : Distance(a, d) = 1}]
  OBVIOUS
<1>2. Neighbours = f
  BY <1>1, TabulatedIs DEF Neighbours
<1> QED BY <1>1, <1>2

\* The board has finitely many cells.
LEMMA BoardFinite == IsFiniteSet(Cell)
<1>1. IsFiniteSet(0 .. GridSize - 1)
  BY FS_Interval, PhysicsAssumption
<1> QED BY <1>1, FS_Product DEF Cell

\* Sets of cells are counted by naturals, and a part has no more than the whole.
LEMMA Counted ==
  ASSUME NEW S \in SUBSET Cell
  PROVE  /\ IsFiniteSet(S) /\ Cardinality(S) \in Nat
         /\ \A T \in SUBSET S : IsFiniteSet(T) /\ Cardinality(T) <= Cardinality(S)
<1>1. IsFiniteSet(S)
  BY BoardFinite, FS_Subset
<1> QED BY <1>1, FS_Subset, FS_CardinalityType

\* Exits are cells, and more walls leave fewer of them.
LEMMA ExitsAre ==
  ASSUME NEW walls, NEW c \in Cell
  PROVE  /\ Exits(walls, c) \subseteq Cell
         /\ \A more : walls \subseteq more => Exits(more, c) \subseteq Exits(walls, c)
BY NeighboursAre DEF Exits

\* The cells within n steps, for every n.
Spreads(walls, source, f) ==
  /\ f \in [Nat -> SUBSET Cell] /\ f[0] = {source}
  /\ \A n \in Nat : f[n + 1] = {source} \cup UNION {Exits(walls, c) : c \in f[n]}

\* A region is what the rings reach after as many steps as there are cells.
LEMMA RegionIs ==
  ASSUME NEW walls \in Boards, NEW source \in Cell
  PROVE  \E f : Spreads(walls, source, f) /\ Region(walls, source) = f[Farthest]
<1> DEFINE Next1(s) == {source} \cup UNION {Exits(walls, c) : c \in s}
           F == [s \in SUBSET Cell |-> Next1(s)]
           Body(f) == [n \in Nat |-> IF n = 0 THEN {source}
                       ELSE {source} \cup UNION {Exits(walls, c) : c \in f[n - 1]}]
           ring == CHOOSE f : f = Body(f)
<1>1. PICK f : Iterates({source}, F, f)
  BY IterationExists
<1>2. \A n \in Nat : f[n] = IF n = 0 THEN {source} ELSE F[f[n - 1]]
  BY <1>1 DEF Iterates
<1>3. \A s \in SUBSET Cell : F[s] = Next1(s) /\ Next1(s) \in SUBSET Cell
  BY ExitsAre
<1> HIDE DEF F
<1>4. \A n \in Nat : f[n] \in SUBSET Cell
  <2> DEFINE Bad == {n \in Nat : f[n] \notin SUBSET Cell}
  <2> SUFFICES ASSUME Bad # {} PROVE FALSE
    OBVIOUS
  <2>1. PICK n \in Bad : \A i \in Bad : n <= i
    BY LeastNumber
  <2>2. n \in Nat /\ f[n] \notin SUBSET Cell
    OBVIOUS
  <2>3. n # 0
    BY <1>2, <2>2
  <2>4. n - 1 \in Nat /\ ~(n <= n - 1)
    BY <2>2, <2>3
  <2>5. f[n - 1] \in SUBSET Cell
    BY <2>1, <2>4
  <2>6. f[n] = F[f[n - 1]]
    BY <1>2, <2>2, <2>3
  <2> QED BY <1>3, <2>2, <2>5, <2>6
<1>5. f = Body(f)
  <2>1. f = [n \in Nat |-> IF n = 0 THEN {source} ELSE F[f[n - 1]]]
    BY <1>1 DEF Iterates
  <2>2. ASSUME NEW n \in Nat
        PROVE  (IF n = 0 THEN {source} ELSE F[f[n - 1]])
                 = (IF n = 0 THEN {source}
                    ELSE {source} \cup UNION {Exits(walls, c) : c \in f[n - 1]})
    <3>1. CASE n # 0
      <4>1. n - 1 \in Nat
        BY <3>1
      <4>2. f[n - 1] \in SUBSET Cell
        BY <1>4, <4>1
      <4>3. F[f[n - 1]] = Next1(f[n - 1])
        BY <1>3, <4>2
      <4> QED BY <3>1, <4>3
    <3> QED BY <3>1
  <2> QED BY <2>1, <2>2
<1>6. ring = Body(ring)
  BY <1>5
<1>7. Region(walls, source) = ring[Farthest]
  <2>1. PICK table : table = [n \in 0 .. Farthest |-> ring[n]]
    OBVIOUS
  <2>2. PICK row : row = [s \in Cell |->
               LET r[n \in Nat] ==
                     IF n = 0 THEN {s}
                     ELSE {s} \cup UNION {Exits(walls, c) : c \in r[n - 1]}
               IN  Tabulated([n \in 0 .. Farthest |-> r[n]])]
    OBVIOUS
  <2>3. PICK all : all = [w \in Boards |-> Tabulated([s \in Cell |->
               LET r[n \in Nat] ==
                     IF n = 0 THEN {s}
                     ELSE {s} \cup UNION {Exits(w, c) : c \in r[n - 1]}
               IN  Tabulated([n \in 0 .. Farthest |-> r[n]])])]
    OBVIOUS
  <2>4. Rings = all
    BY <2>3, TabulatedIs DEF Rings
  <2>5. all[walls] = row
    BY <2>2, <2>3, TabulatedIs
  <2>6. row[source] = Tabulated([n \in 0 .. Farthest |-> ring[n]])
    BY <2>2
  <2>7. row[source] = table
    BY <2>1, <2>6, TabulatedIs
  <2>8. Farthest \in 0 .. Farthest
    BY PhysicsAssumption DEF Farthest
  <2> QED BY <2>1, <2>4, <2>5, <2>7, <2>8 DEF Region
<1> HIDE DEF ring
<1>8. \A n \in Nat : ring[n] = IF n = 0 THEN {source} ELSE Next1(ring[n - 1])
  BY <1>6
<1>9. \A n \in Nat : ring[n] \in SUBSET Cell
  <2> DEFINE Bad == {n \in Nat : ring[n] \notin SUBSET Cell}
  <2> SUFFICES ASSUME Bad # {} PROVE FALSE
    OBVIOUS
  <2>1. PICK n \in Bad : \A i \in Bad : n <= i
    BY LeastNumber
  <2>2. n \in Nat /\ ring[n] \notin SUBSET Cell
    OBVIOUS
  <2>3. n # 0
    BY <1>8, <2>2
  <2>4. n - 1 \in Nat /\ ~(n <= n - 1)
    BY <2>2, <2>3
  <2>5. ring[n - 1] \in SUBSET Cell
    BY <2>1, <2>4
  <2>6. ring[n] = Next1(ring[n - 1])
    BY <1>8, <2>2, <2>3
  <2> QED BY <1>3, <2>2, <2>5, <2>6
<1>10. Spreads(walls, source, ring)
  <2>1. ring \in [Nat -> SUBSET Cell]
    BY <1>6, <1>9
  <2>2. ring[0] = {source}
    BY <1>8
  <2>3. ASSUME NEW n \in Nat PROVE ring[n + 1] = Next1(ring[n])
    <3>1. n + 1 \in Nat /\ n + 1 # 0 /\ (n + 1) - 1 = n
      OBVIOUS
    <3> QED BY <1>8, <3>1
  <2> QED BY <2>1, <2>2, <2>3 DEF Spreads
<1> QED BY <1>7, <1>10

\* A region is a set of cells, and more walls leave less of it.
LEMMA RegionShrinks ==
  ASSUME NEW walls \in Boards, NEW more \in Boards, walls \subseteq more, NEW source \in Cell
  PROVE  /\ Region(walls, source) \subseteq Cell
         /\ Cardinality(Region(walls, source)) \in Nat
         /\ Cardinality(Region(more, source)) \in Nat
         /\ Cardinality(Region(more, source)) <= Cardinality(Region(walls, source))
<1>1. PICK f : Spreads(walls, source, f) /\ Region(walls, source) = f[Farthest]
  BY RegionIs
<1>2. PICK g : Spreads(more, source, g) /\ Region(more, source) = g[Farthest]
  BY RegionIs
<1>3. \A n \in Nat : g[n] \subseteq f[n]
  <2> DEFINE Bad == {n \in Nat : ~(g[n] \subseteq f[n])}
  <2> SUFFICES ASSUME Bad # {} PROVE FALSE
    OBVIOUS
  <2>1. PICK n \in Bad : \A i \in Bad : n <= i
    BY LeastNumber
  <2>2. n \in Nat /\ ~(g[n] \subseteq f[n])
    OBVIOUS
  <2>3. n # 0
    BY <1>1, <1>2, <2>2 DEF Spreads
  <2>4. n - 1 \in Nat /\ ~(n <= n - 1) /\ (n - 1) + 1 = n
    BY <2>2, <2>3
  <2>5. g[n - 1] \subseteq f[n - 1]
    BY <2>1, <2>4
  <2>6. /\ f[n] = {source} \cup UNION {Exits(walls, c) : c \in f[n - 1]}
        /\ g[n] = {source} \cup UNION {Exits(more, c) : c \in g[n - 1]}
        /\ g[n - 1] \in SUBSET Cell
    BY <1>1, <1>2, <2>4 DEF Spreads
  <2>7. \A c \in g[n - 1] : Exits(more, c) \subseteq Exits(walls, c)
    BY <2>6, ExitsAre
  <2> QED BY <2>2, <2>5, <2>6, <2>7
<1>4. Farthest \in Nat
  BY PhysicsAssumption DEF Farthest
<1>5. f[Farthest] \in SUBSET Cell /\ g[Farthest] \subseteq f[Farthest]
  BY <1>1, <1>3, <1>4 DEF Spreads
<1>6. g[Farthest] \in SUBSET Cell
  BY <1>5
<1> QED BY <1>1, <1>2, <1>5, <1>6, Counted

-----------------------------------------------------------------------------
(* The cage forecast *)

\* A part of a set can be filled up to any size the set has.
LEMMA Padded ==
  ASSUME NEW S \in SUBSET Cell, NEW T \in SUBSET S, NEW n \in Nat,
         Cardinality(T) <= n, n <= Cardinality(S)
  PROVE  \E U \in SUBSET S : T \subseteq U /\ Cardinality(U) = n
<1> DEFINE Gaps == {k \in Nat : \E U \in SUBSET S : T \subseteq U /\ Cardinality(U) + k = n}
<1>1. Gaps # {}
  <2>1. Cardinality(T) \in Nat
    BY Counted
  <2>2. n - Cardinality(T) \in Nat /\ Cardinality(T) + (n - Cardinality(T)) = n
    BY <2>1
  <2>3. n - Cardinality(T) \in Gaps
    BY <2>2
  <2> QED BY <2>3
<1>2. PICK k \in Gaps : \A j \in Gaps : k <= j
  <2> HIDE DEF Gaps
  <2>1. Gaps \in SUBSET Nat
    BY DEF Gaps
  <2> QED BY <1>1, <2>1, LeastNumber
<1>3. PICK U \in SUBSET S : T \subseteq U /\ Cardinality(U) + k = n
  OBVIOUS
<1>4. k \in Nat /\ Cardinality(U) \in Nat /\ IsFiniteSet(U)
  BY Counted
<1>5. CASE k = 0
  BY <1>3, <1>4, <1>5
<1>6. CASE k # 0
  <2>1. Cardinality(U) < n /\ k - 1 \in Nat
    BY <1>3, <1>4, <1>6
  <2>2. U # S
    BY <1>4, <2>1
  <2>3. PICK x \in S : x \notin U
    BY <2>2
  <2>4. Cardinality(U \cup {x}) = Cardinality(U) + 1
    BY <1>4, <2>3, FS_AddElement
  <2>5. U \cup {x} \in SUBSET S /\ T \subseteq U \cup {x}
    BY <1>3, <2>3
  <2>6. Cardinality(U \cup {x}) + (k - 1) = n
    BY <1>3, <1>4, <2>4
  <2>7. k - 1 \in Gaps
    BY <2>1, <2>5, <2>6
  <2>8. k <= k - 1
    BY <1>2, <2>7
  <2> QED BY <1>4, <2>8
<1> QED BY <1>5, <1>6

\* A board grows by as many walls as the quota has left.
LEMMA Within ==
  ASSUME NEW walls \in Boards, NEW s \in SUBSET Cell,
         Cardinality(s) <= MaxBarriers - Cardinality(walls)
  PROVE  walls \cup s \in Boards
<1>1. /\ walls \in SUBSET Cell /\ Cardinality(walls) <= MaxBarriers /\ MaxBarriers \in Nat
      /\ walls \cup s \in SUBSET Cell
  BY PhysicsAssumption DEF Boards
<1>2. /\ IsFiniteSet(walls) /\ IsFiniteSet(s) /\ Cardinality(walls) \in Nat /\ Cardinality(s) \in Nat
      /\ Cardinality(walls \cap s) \in Nat
  BY <1>1, Counted
<1>3. Cardinality(walls \cup s) = Cardinality(walls) + Cardinality(s) - Cardinality(walls \cap s)
  BY <1>2, FS_Union
<1> QED BY <1>1, <1>2, <1>3 DEF Boards

\* The walls a cage may cost are feared ones, and the quota has them left.
LEMMA BudgetIs ==
  ASSUME NEW walls \in Boards
  PROVE  /\ CageBudget(walls) \in Nat
         /\ CageBudget(walls) <= MaxBarriers - Cardinality(walls)
         /\ \A n \in Nat : n <= ForecastWalls /\ n <= MaxBarriers - Cardinality(walls)
                           => n <= CageBudget(walls)
<1>1. Cardinality(walls) \in Nat /\ Cardinality(walls) <= MaxBarriers
  BY Counted DEF Boards
<1>2. PICK left : left = MaxBarriers - Cardinality(walls) /\ left \in Nat
  BY <1>1, PhysicsAssumption
<1>3. {ForecastWalls, left} \in SUBSET Nat
  BY <1>2, EscapeAssumption
<1>4. /\ Least({ForecastWalls, left}) \in {ForecastWalls, left}
      /\ Least({ForecastWalls, left}) <= ForecastWalls
      /\ Least({ForecastWalls, left}) <= left
  BY <1>3, LeastIs
<1>5. CageBudget(walls) = Least({ForecastWalls, left})
  BY <1>2 DEF CageBudget
<1> QED BY <1>2, <1>3, <1>4, <1>5

\* The room behind completed lines is a count.
LEMMA CompletionRoom ==
  ASSUME NEW walls \in Boards, NEW landing \in Cell
  PROVE  LineCompletionRegion(walls, landing) \in Nat
<1>1. Completion(walls) \in SUBSET Cell
  <2>1. ASSUME NEW i \in 0 .. GridSize - 1, NEW h \in BOOLEAN
        PROVE  Line(i, h) \subseteq Cell
    BY DEF Line, Cell
  <2>2. UNION Runs(walls) \subseteq Cell
    BY <2>1 DEF Runs
  <2> QED BY <2>2 DEF Completion
<1>2. Cardinality(Region(walls, landing)) \in Nat
  BY RegionShrinks
<1>3. CASE Cardinality(Completion(walls)) <= MaxBarriers - Cardinality(walls)
  <2>1. PICK s : s = Completion(walls) \ {landing}
    OBVIOUS
  <2>2. s \in SUBSET Completion(walls) /\ s \in SUBSET Cell
    BY <1>1, <2>1
  <2>3. Cardinality(s) <= Cardinality(Completion(walls)) /\ Cardinality(s) \in Nat
        /\ Cardinality(Completion(walls)) \in Nat
    BY <1>1, <2>2, Counted
  <2>4. MaxBarriers - Cardinality(walls) \in Int
    BY Counted, PhysicsAssumption DEF Boards
  <2>5. Cardinality(s) <= MaxBarriers - Cardinality(walls)
    BY <1>3, <2>3, <2>4
  <2>6. walls \cup s \in Boards
    BY <2>2, <2>5, Within
  <2>7. Cardinality(Region(walls \cup s, landing)) \in Nat
    BY <2>6, RegionShrinks
  <2> QED BY <1>2, <2>1, <2>7 DEF LineCompletionRegion
<1>4. CASE ~(Cardinality(Completion(walls)) <= MaxBarriers - Cardinality(walls))
  <2>1. Cardinality(Completion(walls)) > MaxBarriers - Cardinality(walls)
    <3>1. Cardinality(Completion(walls)) \in Nat /\ MaxBarriers - Cardinality(walls) \in Int
      BY <1>1, Counted, PhysicsAssumption DEF Boards
    <3> QED BY <1>4, <3>1
  <2> QED BY <1>2, <2>1 DEF LineCompletionRegion
<1> QED BY <1>3, <1>4

\* The room under the worst cage is a floor for every set of walls at the sites, and
\* no more than the one behind the completed lines.
LEMMA RoomPriced ==
  ASSUME NEW walls \in Boards, NEW landing \in Cell, NEW cop,
         NEW added \in SUBSET Sites(walls, cop, landing),
         Cardinality(added) <= ForecastWalls, walls \cup added \in Boards,
         added \cap walls = {}
  PROVE  /\ KWallRegion(walls, landing, {cop}) <= Cardinality(Region(walls \cup added, landing))
         /\ KWallRegion(walls, landing, {cop}) <= LineCompletionRegion(walls, landing)
         /\ KWallRegion(walls, landing, {cop}) \in Nat
<1> DEFINE sites == Sites(walls, cop, landing)
           size == Least({CageBudget(walls), Cardinality(sites)})
           cages == Subsets(sites, size)
           Rooms == {Cardinality(Region(walls \cup s, landing)) : s \in cages}
           All == {LineCompletionRegion(walls, landing)} \cup Rooms
<1>1. sites \in SUBSET Cell /\ Cardinality(sites) \in Nat
  BY Counted DEF Sites, Extensible
<1>2. /\ CageBudget(walls) \in Nat /\ size \in Nat
      /\ size <= CageBudget(walls) /\ size <= Cardinality(sites)
      /\ size \in {CageBudget(walls), Cardinality(sites)}
  <2>1. CageBudget(walls) \in Nat
    BY BudgetIs
  <2>2. {CageBudget(walls), Cardinality(sites)} \in SUBSET Nat
    BY <1>1, <2>1
  <2> HIDE DEF sites
  <2> QED BY <2>1, <2>2, LeastIs
<1>3. KWallRegion(walls, landing, {cop}) = Least(All)
  BY DEF KWallRegion
<1> HIDE DEF sites, size
<1>4. ASSUME NEW s \in cages PROVE walls \cup s \in Boards
  <2>1. s \in SUBSET Cell /\ Cardinality(s) = size
    BY <1>1 DEF Subsets
  <2>2. size <= MaxBarriers - Cardinality(walls)
    <3>1. CageBudget(walls) <= MaxBarriers - Cardinality(walls)
      BY BudgetIs
    <3>2. MaxBarriers - Cardinality(walls) \in Int
      BY Counted, PhysicsAssumption DEF Boards
    <3> QED BY <1>2, <3>1, <3>2
  <2> QED BY <2>1, <2>2, Within
<1>5. All \in SUBSET Nat
  <2>1. \A s \in cages : Cardinality(Region(walls \cup s, landing)) \in Nat
    BY <1>4, RegionShrinks
  <2> QED BY <2>1, CompletionRoom
<1>6. PICK s \in SUBSET sites : added \subseteq s /\ Cardinality(s) = size
  <2>1. added \in SUBSET sites
    BY DEF sites
  <2>2. /\ Cardinality(added) <= Cardinality(sites) /\ Cardinality(added) \in Nat
        /\ IsFiniteSet(added) /\ added \in SUBSET Cell
    BY <1>1, <2>1, Counted
  <2>3. Cardinality(added) <= MaxBarriers - Cardinality(walls)
    <3>1. IsFiniteSet(walls) /\ Cardinality(walls) \in Nat /\ Cardinality(walls \cup added) <= MaxBarriers
      BY Counted DEF Boards
    <3>2. Cardinality(walls \cap added) = 0
      <4>1. walls \cap added = {}
        OBVIOUS
      <4> QED BY <4>1, FS_EmptySet
    <3>3. Cardinality(walls \cup added) = Cardinality(walls) + Cardinality(added) - 0
      BY <2>2, <3>1, <3>2, FS_Union
    <3> QED BY <2>2, <3>1, <3>3, PhysicsAssumption
  <2>4. Cardinality(added) <= size
    BY <1>2, <2>2, <2>3, BudgetIs
  <2> QED BY <1>1, <1>2, <2>1, <2>4, Padded
<1>7. s \in cages
  BY <1>6 DEF Subsets
<1>8. Least(All) <= Cardinality(Region(walls \cup s, landing))
  <2>1. Cardinality(Region(walls \cup s, landing)) \in All
    BY <1>7
  <2> HIDE DEF All
  <2> QED BY <1>5, <2>1, LeastIs
<1>9. /\ Cardinality(Region(walls \cup s, landing)) <= Cardinality(Region(walls \cup added, landing))
      /\ Cardinality(Region(walls \cup s, landing)) \in Nat
      /\ Cardinality(Region(walls \cup added, landing)) \in Nat
  <2>1. walls \cup s \in Boards /\ walls \cup added \subseteq walls \cup s
    BY <1>4, <1>6, <1>7
  <2> QED BY <2>1, RegionShrinks
<1>10. Least(All) \in Nat
  <2>1. All # {}
    OBVIOUS
  <2> HIDE DEF All
  <2> QED BY <1>5, <2>1, LeastIs
<1>11. Least(All) <= LineCompletionRegion(walls, landing)
  <2>1. LineCompletionRegion(walls, landing) \in All
    OBVIOUS
  <2> HIDE DEF All
  <2> QED BY <1>5, <2>1, LeastIs
<1> HIDE DEF All
<1> QED BY <1>3, <1>8, <1>9, <1>10, <1>11

\* What is written down for a believed police: nothing, or one of the two rooms.
LEMMA DoctrinePriced ==
  ASSUME NEW walls, NEW landing, NEW cop
  PROVE  \/ DoctrineRoom(walls, landing, {cop}) = 0
         \/ /\ DoctrineRoom(walls, landing, {cop}) = KWallRegion(walls, landing, {cop})
            /\ GridSize <= TunedGrid
         \/ /\ DoctrineRoom(walls, landing, {cop}) = LineCompletionRegion(walls, landing)
            /\ ~(GridSize <= TunedGrid)
<1>1. GridSize > TunedGrid <=> ~(GridSize <= TunedGrid)
  BY PhysicsAssumption, EscapeAssumption
<1>2. {cop} # {}
  OBVIOUS
<1>3. CASE ForecastWalls = 0
  BY <1>3 DEF DoctrineRoom
<1>4. CASE ForecastWalls # 0 /\ GridSize <= TunedGrid
  BY <1>1, <1>2, <1>4 DEF DoctrineRoom
<1>5. CASE ForecastWalls # 0 /\ ~(GridSize <= TunedGrid)
  BY <1>1, <1>2, <1>5 DEF DoctrineRoom
<1> QED BY <1>3, <1>4, <1>5

\* No more is priced than what the declared cuts would leave.
LEMMA CutPriced ==
  ASSUME NEW walls \in Boards, NEW landing \in Cell, NEW cop, NEW added,
         added = Completion(walls) \ {landing}, Completion(walls) # {},
         Cardinality(Completion(walls)) <= MaxBarriers - Cardinality(walls)
  PROVE  /\ walls \cup added \in Boards /\ DoctrineRoom(walls, landing, {cop}) \in Nat
         /\ DoctrineRoom(walls, landing, {cop}) <= Cardinality(Region(walls \cup added, landing))
<1>1. Completion(walls) \in SUBSET Cell
  <2>1. ASSUME NEW i \in 0 .. GridSize - 1, NEW h \in BOOLEAN
        PROVE  Line(i, h) \subseteq Cell
    BY DEF Line, Cell
  <2>2. UNION Runs(walls) \subseteq Cell
    BY <2>1 DEF Runs
  <2> QED BY <2>2 DEF Completion
<1>2. added \in SUBSET Cell /\ added \in SUBSET Completion(walls)
  BY <1>1
<1>3. /\ Cardinality(added) <= Cardinality(Completion(walls)) /\ Cardinality(added) \in Nat
      /\ Cardinality(Completion(walls)) \in Nat /\ MaxBarriers - Cardinality(walls) \in Int
  BY <1>1, <1>2, Counted, PhysicsAssumption DEF Boards
<1>4. walls \cup added \in Boards
  BY <1>2, <1>3, Within
<1>5. LineCompletionRegion(walls, landing) = Cardinality(Region(walls \cup added, landing))
  <2>1. ~(Cardinality(Completion(walls)) > MaxBarriers - Cardinality(walls))
    BY <1>3
  <2> QED BY <2>1 DEF LineCompletionRegion
<1>6. /\ KWallRegion(walls, landing, {cop}) <= LineCompletionRegion(walls, landing)
      /\ KWallRegion(walls, landing, {cop}) \in Nat
  <2>0. PICK none : none = {}
    OBVIOUS
  <2>1. none = {} /\ none \in SUBSET Sites(walls, cop, landing)
    BY <2>0
  <2>2. Cardinality(none) <= ForecastWalls
    BY <2>1, EscapeAssumption, FS_EmptySet
  <2>3. walls \cup none \in Boards /\ none \cap walls = {}
    BY <2>1
  <2> QED BY <2>1, <2>2, <2>3, RoomPriced
<1>7. LineCompletionRegion(walls, landing) \in Nat
  BY CompletionRoom
<1>8. PICK room : room = DoctrineRoom(walls, landing, {cop})
  OBVIOUS
<1>9. \/ room = 0
      \/ room = KWallRegion(walls, landing, {cop})
      \/ room = LineCompletionRegion(walls, landing)
  BY <1>8, DoctrinePriced
<1>10. room \in Nat /\ room <= LineCompletionRegion(walls, landing)
  BY <1>6, <1>7, <1>9
<1> QED BY <1>4, <1>5, <1>8, <1>10

-----------------------------------------------------------------------------
(* The survival certificate *)

\* Does the move outlive n turns, when f says which moves outlive fewer?
Endures(f, n, s, move) ==
  LET landed == AppliedTo(move, s.thief)
      lives(cop, walls) == f[n - 1][Stand(landed, cop, walls)] # {}
  IN  /\ move = "STAY" \/ IsPassable(s.walls, landed)
      /\ ~DeadlyLanding(s.walls, landed, s.cop)
      /\ n <= 1 \/
         /\ \A m \in Move :
              MoveLegal(s.walls, s.cop, m) =>
                /\ AppliedTo(m, s.cop) # landed
                /\ lives(AppliedTo(m, s.cop), s.walls)
         /\ \A w \in Placeable(s.walls, s.cop) :
              /\ w # landed
              /\ ~IsSurrounded(s.walls \cup {w}, landed)
              /\ lives(s.cop, s.walls \cup {w})

Enduring(f) == [n \in Nat |-> [s \in Standing |-> {move \in Move : Endures(f, n, s, move)}]]

\* Only the turn before is looked at, and none by the last.
LEMMA EnduresAlike ==
  ASSUME NEW f, NEW g, NEW n \in Nat, NEW k \in Nat, NEW s, NEW move,
         (n <= 1 /\ k <= 1) \/ (n > 1 /\ k > 1 /\ f[n - 1] = g[k - 1])
  PROVE  Endures(f, n, s, move) <=> Endures(g, k, s, move)
<1>1. CASE n <= 1 /\ k <= 1
  BY <1>1 DEF Endures
<1>2. CASE n > 1 /\ k > 1 /\ f[n - 1] = g[k - 1]
  <2>1. ~(n <= 1) /\ ~(k <= 1)
    BY <1>2
  <2>2. PICK h : h = f[n - 1] /\ h = g[k - 1]
    BY <1>2
  <2> QED BY <2>1, <2>2 DEF Endures
<1> QED BY <1>1, <1>2

\* The recursion has a solution, so SurvivingMoves is one.
LEMMA SurvivingIs ==
  ASSUME NEW n \in Nat, NEW s \in Standing
  PROVE  SurvivingMoves[n][s] = {move \in Move : Endures(SurvivingMoves, n, s, move)}
<1> DEFINE Stage == [Standing -> SUBSET Move]
           F == [g \in Stage |->
                   [t \in Standing |-> {move \in Move : Endures([k \in Nat |-> g], 2, t, move)}]]
           z == [t \in Standing |-> {move \in Move : Endures(<< >>, 0, t, move)}]
<1>1. PICK f : Iterates(z, F, f)
  BY IterationExists
<1>2. \A k \in Nat : f[k] = IF k = 0 THEN z ELSE F[f[k - 1]]
  BY <1>1 DEF Iterates
<1>3. z \in Stage /\ \A g \in Stage : F[g] \in Stage
  OBVIOUS
<1>4. \A k \in Nat : f[k] \in Stage
  <2> DEFINE Bad == {k \in Nat : f[k] \notin Stage}
  <2> SUFFICES ASSUME Bad # {} PROVE FALSE
    OBVIOUS
  <2> HIDE DEF Stage, F, z
  <2>1. PICK k \in Bad : \A i \in Bad : k <= i
    BY LeastNumber
  <2>2. k \in Nat /\ f[k] \notin Stage
    OBVIOUS
  <2>3. k # 0
    BY <1>2, <1>3, <2>2
  <2>4. k - 1 \in Nat /\ ~(k <= k - 1)
    BY <2>2, <2>3
  <2>5. f[k - 1] \in Stage
    BY <2>1, <2>4
  <2>6. f[k] = F[f[k - 1]]
    BY <1>2, <2>2, <2>3
  <2> QED BY <1>3, <2>2, <2>5, <2>6
<1>5. PICK S : S = [k \in Nat |-> IF k = 0 THEN z ELSE f[k - 1]]
  OBVIOUS
<1>6. ASSUME NEW k \in Nat
      PROVE  S[k] = [t \in Standing |-> {move \in Move : Endures(S, k, t, move)}]
  <2>1. CASE k <= 1
    <3>1. S[k] = z
      <4> HIDE DEF z, F
      <4>1. f[0] = z
        BY <1>2
      <4>2. k = 0 \/ k = 1
        BY <2>1
      <4>3. CASE k = 0
        BY <1>5, <4>3
      <4>4. CASE k = 1
        <5>1. S[1] = f[1 - 1]
          BY <1>5
        <5>2. 1 - 1 = 0
          OBVIOUS
        <5> QED BY <4>1, <4>4, <5>1, <5>2
      <4> QED BY <4>2, <4>3, <4>4
    <3>2. \A t, move : Endures(<< >>, 0, t, move) <=> Endures(S, k, t, move)
      BY <2>1, EnduresAlike
    <3> QED BY <3>1, <3>2
  <2>2. CASE k > 1
    <3>1. PICK g : g = f[k - 2] /\ g \in Stage
      BY <1>4, <2>2
    <3>2. S[k] = f[k - 1] /\ S[k - 1] = f[k - 2] /\ f[k - 1] = F[g]
      <4>1. k - 1 \in Nat /\ k - 1 # 0 /\ (k - 1) - 1 = k - 2 /\ k # 0
        BY <2>2
      <4> HIDE DEF F, z
      <4> QED BY <1>2, <1>5, <3>1, <4>1
    <3>3. F[g] = [t \in Standing |-> {move \in Move : Endures([i \in Nat |-> g], 2, t, move)}]
      BY <3>1
    <3>4. PICK c : c = [i \in Nat |-> g] /\ c[2 - 1] = S[k - 1]
      BY <3>1, <3>2
    <3>5. \A t, move : Endures(c, 2, t, move) <=> Endures(S, k, t, move)
      BY <2>2, <3>4, EnduresAlike
    <3> HIDE DEF F
    <3> QED BY <3>2, <3>3, <3>4, <3>5
  <2> QED BY <2>1, <2>2
<1>7. S = Enduring(S)
  BY <1>5, <1>6 DEF Enduring
<1>8. SurvivingMoves = CHOOSE g : g = Enduring(g)
  BY DEF SurvivingMoves, Enduring, Endures
<1>9. SurvivingMoves = Enduring(SurvivingMoves)
  BY <1>7, <1>8
<1>10. PICK g : g = SurvivingMoves /\ g = Enduring(g)
  BY <1>9
<1>11. g[n] = [t \in Standing |-> {move \in Move : Endures(g, n, t, move)}]
  BY <1>10 DEF Enduring
<1>12. g[n][s] = {move \in Move : Endures(g, n, s, move)}
  BY <1>11
<1> QED BY <1>10, <1>12

-----------------------------------------------------------------------------
(* The engine under the brain *)

\* Whatever the brain chooses among is a move, and a move that is chosen by the
\* certificate is a certified one.
LEMMA ChoicesAreMoves ==
  ASSUME NEW sure \in SUBSET Move, NEW support, NEW peak, NEW banned,
         NEW move \in Choices(sure, support, peak, banned)
  PROVE  /\ move \in Move
         /\ sure # {} => move \in sure
         /\ sure = {} =>
              move \in IF peak # None THEN SharpChoices(peak, support)
                       ELSE DoctrineChoices(support, banned)
<1>1. \A m \in sure : m \in {"N", "S", "E", "W", "STAY"}
  BY DEF Move, OrthogonalMoves
<1>2. CASE sure # {}
  <2> DEFINE Held == {i \in 1 .. 5 : Ranked[i] \in sure}
  <2>1. Held \in SUBSET Nat /\ Held # {}
    <3>1. PICK m \in sure : m \in {"N", "S", "E", "W", "STAY"}
      BY <1>1, <1>2
    <3>2. \E i \in 1 .. 5 : Ranked[i] = m
      BY <3>1 DEF Ranked
    <3> QED BY <3>1, <3>2
  <2>2. Least(Held) \in Held
    <3> HIDE DEF Held
    <3> QED BY <2>1, LeastIs
  <2>3. FirstRanked(sure) \in sure
    BY <2>2 DEF FirstRanked
  <2>4. move = FirstRanked(sure)
    BY <1>2 DEF Choices
  <2> QED BY <1>2, <2>3, <2>4
<1>3. CASE sure = {}
  <2>1. move \in IF peak # None THEN SharpChoices(peak, support)
                 ELSE DoctrineChoices(support, banned)
    BY <1>3 DEF Choices
  <2>2. Options \subseteq Move
    BY DEF Options
  <2>3. SharpChoices(peak, support) \subseteq Options
    BY DEF SharpChoices, Best
  <2>4. DoctrineChoices(support, banned) \subseteq Options
    BY DEF DoctrineChoices
  <2> QED BY <1>3, <2>1, <2>2, <2>3, <2>4
<1> QED BY <1>2, <1>3

\* Every action of the game is an operation of the engine, or none.
LEMMA EscapeIsEngine ==
  ASSUME [EscapeNext]_escapeVars
  PROVE  [Next]_engine
<1>1. CASE PolicePlays
  BY <1>1 DEF PolicePlays, Next
<1>2. CASE ThiefMisled
  <2>1. PICK move \in Options : ThiefMove(move)
    BY <1>2 DEF ThiefMisled
  <2>2. move \in Move
    BY DEF Options
  <2> QED BY <2>1, <2>2 DEF Next
<1>3. ASSUME NEW support, NEW likely, ThiefDecides(support, likely) PROVE Next
  <2>1. PICK sure \in {Certified(likely), {}}, peak \in support \cup {None},
             banned \in {stays >= MaxStays, FALSE} :
          \E move \in Choices(sure, support, peak, banned) : ThiefMove(move)
    BY <1>3 DEF ThiefDecides
  <2>2. PICK move \in Choices(sure, support, peak, banned) : ThiefMove(move)
    BY <2>1
  <2>3. sure \in SUBSET Move
    BY DEF Certified
  <2>4. move \in Move
    BY <2>3, ChoicesAreMoves
  <2> QED BY <2>2, <2>4 DEF Next
<1>4. CASE PriceLanding
  BY <1>4 DEF PriceLanding
<1>5. CASE UNCHANGED escapeVars
  BY <1>5 DEF escapeVars
<1> QED
  BY <1>1, <1>2, <1>3, <1>4, <1>5 DEF EscapeNext

\* The engine's invariant is kept by every action of the brain and its police.
LEMMA EscapeKeepsInv == Inv /\ [EscapeNext]_escapeVars => Inv'
BY EscapeIsEngine, NextInv

\* The engine's invariant under the brain.
LEMMA EscapeInvariance == EscapeSpec => []Inv
<1>1. EscapeInit => Inv
  BY InitInv DEF EscapeInit
<1> QED BY <1>1, EscapeKeepsInv, PTL DEF EscapeSpec

\* The brain plays the game: with its plans forgotten, what it and its police do is
\* a behaviour of the engine, whose theorems above hold of it too.
THEOREM BrainPlaysTheGame == EscapeSpec => Spec
<1>1. EscapeInit => Init
  BY DEF EscapeInit
<1>2. [EscapeNext]_escapeVars => [Next]_engine
  BY EscapeIsEngine
<1> QED BY <1>1, <1>2, PTL DEF EscapeSpec, Spec

\* Both agents are on the board, and the walls within the quota.
LEMMA StandsOnBoard ==
  ASSUME Inv
  PROVE  Cop \in Cell /\ Thief \in Cell /\ engine.barriers \in Boards
<1>1. engine \in EngineType /\ Cardinality(engine.barriers) <= MaxBarriers
  BY DEF Inv, TypeOK, BarrierBudget
<1> QED BY <1>1 DEF EngineType, Role, Boards, Cop, Thief

-----------------------------------------------------------------------------
(* The cage that was written down *)

\* What the written forecast was taken from.
CageInv ==
  cage # None =>
    /\ cage.walls \in Boards /\ cage.landing \in Cell
    /\ cage.room = DoctrineRoom(cage.walls, cage.landing, {cage.cop})
    /\ cage.walls \subseteq engine.barriers

\* A written forecast stays true of the board it was taken from.
LEMMA CageNext == Inv /\ CageInv /\ [EscapeNext]_escapeVars => CageInv'
<1> SUFFICES ASSUME Inv, CageInv, [EscapeNext]_escapeVars, cage' # None PROVE CageInv'
  BY DEF CageInv
<1>1. engine.barriers \subseteq engine'.barriers
  <2>1. [Next]_engine
    BY EscapeIsEngine
  <2>2. CASE Next
    BY <2>2, NextLawful DEF BarrierStep
  <2>3. CASE UNCHANGED engine
    BY <2>3
  <2> QED BY <2>1, <2>2, <2>3
<1>2. CASE UNCHANGED cage
  BY <1>1, <1>2 DEF CageInv
<1>3. CASE PriceLanding
  <2>1. PICK move \in Options : cage' = Priced(AppliedTo(move, Thief))
    BY <1>3 DEF PriceLanding
  <2>2. PICK landing : landing = AppliedTo(move, Thief) /\ landing \in Cell
    <3>1. move \in Move /\ MoveLegal(engine.barriers, Thief, move)
      BY DEF Options
    <3>2. Thief \in Cell
      BY StandsOnBoard
    <3> QED BY <3>1, <3>2, LegalMoveLands
  <2>3. /\ cage'.walls = engine.barriers /\ cage'.landing = landing /\ cage'.cop = Cop
        /\ cage'.room = DoctrineRoom(engine.barriers, landing, {Cop})
    BY <2>1, <2>2 DEF Priced
  <2>4. engine.barriers \in Boards
    BY StandsOnBoard
  <2> QED BY <1>1, <2>2, <2>3, <2>4 DEF CageInv
<1> QED
  BY <1>2, <1>3 DEF EscapeNext, PolicePlays, ThiefDecides, ThiefMisled, escapeVars

\* The cage forecast is a floor over several turns: on a board it enumerates, no cage
\* the police really builds, within the walls it fears and the sites nearest the
\* landing that it looks at, leaves less room (cage_forecast.py:53-65, 177-196).
THEOREM CageForecastIsFloor == EscapeSpec => []RoomIsFloor
<1>1. EscapeInit => CageInv
  BY DEF EscapeInit, CageInv
<1>2. Inv /\ CageInv => RoomIsFloor
  <2> SUFFICES ASSUME Inv, CageInv, cage # None, GridSize <= TunedGrid,
                      NEW added, added = engine.barriers \ cage.walls,
                      added \subseteq Sites(cage.walls, cage.cop, cage.landing),
                      Cardinality(added) <= ForecastWalls
               PROVE  cage.room <= Cardinality(Region(engine.barriers, cage.landing))
    BY DEF RoomIsFloor
  <2>1. PICK walls, landing, cop :
          /\ walls = cage.walls /\ landing = cage.landing /\ cop = cage.cop
          /\ walls \in Boards /\ landing \in Cell
          /\ cage.room = DoctrineRoom(walls, landing, {cop})
          /\ walls \subseteq engine.barriers
    BY DEF CageInv
  <2>2. walls \cup added = engine.barriers /\ added \cap walls = {}
    BY <2>1
  <2>3. walls \cup added \in Boards
    BY <2>2, StandsOnBoard
  <2>4. added \in SUBSET Sites(walls, cop, landing)
    BY <2>1
  <2>5. KWallRegion(walls, landing, {cop}) <= Cardinality(Region(walls \cup added, landing))
    BY <2>1, <2>2, <2>3, <2>4, RoomPriced
  <2>6. Cardinality(Region(walls \cup added, landing)) \in Nat
    BY <2>1, <2>3, RegionShrinks
  <2>7. cage.room = 0 \/ cage.room = KWallRegion(walls, landing, {cop})
    BY <2>1, DoctrinePriced
  <2> QED BY <2>1, <2>2, <2>5, <2>6, <2>7
<1> QED BY <1>1, <1>2, CageNext, EscapeInvariance, PTL DEF EscapeSpec

\* Above the board it enumerates, as on it, the declared cuts are priced: when the
\* police can afford to complete them, doing so leaves at least the room the landing
\* was written down with (cage_forecast.py:94-114, 123-126).
THEOREM CutForecastIsFloor == EscapeSpec => []CutIsPriced
<1>1. EscapeInit => CageInv
  BY DEF EscapeInit, CageInv
<1>2. Inv /\ CageInv => CutIsPriced
  <2> SUFFICES ASSUME Inv, CageInv, cage # None,
                      engine.barriers \subseteq
                        cage.walls \cup (Completion(cage.walls) \ {cage.landing}),
                      Completion(cage.walls) # {},
                      Cardinality(Completion(cage.walls))
                        <= MaxBarriers - Cardinality(cage.walls)
               PROVE  cage.room <= Cardinality(Region(engine.barriers, cage.landing))
    BY DEF CutIsPriced
  <2>1. PICK walls, landing, cop :
          /\ walls = cage.walls /\ landing = cage.landing /\ cop = cage.cop
          /\ walls \in Boards /\ landing \in Cell
          /\ cage.room = DoctrineRoom(walls, landing, {cop})
    BY DEF CageInv
  <2>2. PICK added : added = Completion(walls) \ {landing}
    OBVIOUS
  <2>3. /\ walls \cup added \in Boards /\ cage.room \in Nat
        /\ cage.room <= Cardinality(Region(walls \cup added, landing))
    <3>1. Completion(walls) # {} /\ Cardinality(Completion(walls)) <= MaxBarriers - Cardinality(walls)
      BY <2>1
    <3>2. /\ walls \cup added \in Boards /\ DoctrineRoom(walls, landing, {cop}) \in Nat
          /\ DoctrineRoom(walls, landing, {cop}) <= Cardinality(Region(walls \cup added, landing))
      BY <2>1, <2>2, <3>1, CutPriced
    <3> QED BY <2>1, <3>2
  <2>4. engine.barriers \in Boards /\ engine.barriers \subseteq walls \cup added
    BY <2>1, <2>2, StandsOnBoard
  <2>5. /\ Cardinality(Region(walls \cup added, landing)) \in Nat
        /\ Cardinality(Region(engine.barriers, landing)) \in Nat
        /\ Cardinality(Region(walls \cup added, landing))
             <= Cardinality(Region(engine.barriers, landing))
    BY <2>1, <2>3, <2>4, RegionShrinks
  <2> QED BY <2>1, <2>3, <2>5
<1> QED BY <1>1, <1>2, CageNext, EscapeInvariance, PTL DEF EscapeSpec

-----------------------------------------------------------------------------
(* What a decision is promised *)

\* The floor of the forecast, for the police that is really there.
ForecastKept ==
  \A i \in 1 .. 2 :
    /\ plan.forecast[i] \in Nat
    /\ plan.forecast[i] <= AfterBestWall(engine.barriers, Thief, Cop)[i]

\* No landing within reach of a police with walls left.
GateKept ==
  plan.by = "gate" /\ ~plan.gated /\ Cardinality(engine.barriers) < MaxBarriers =>
    Thief \notin {Cop} \cup Neighbours[Cop]

\* Against every reply the thief is free, and has a move that endures.
Foreseen(thief, cop, walls, n) ==
  /\ thief # cop /\ ~IsSurrounded(walls, thief)
  /\ \A m \in Move :
       MoveLegal(walls, cop, m) =>
         /\ AppliedTo(m, cop) # thief
         /\ SurvivingMoves[n][Stand(thief, AppliedTo(m, cop), walls)] # {}
  /\ \A w \in Placeable(walls, cop) :
       /\ w # thief
       /\ ~IsSurrounded(walls \cup {w}, thief)
       /\ SurvivingMoves[n][Stand(thief, cop, walls \cup {w})] # {}

CertificateKept ==
  plan.by = "certificate" /\ engine.outcome = "ongoing" =>
    Foreseen(Thief, Cop, engine.barriers, Remaining)

Promised ==
  plan # None =>
    /\ engine.next_actor = "police"
    /\ ForecastKept
    /\ GateKept
    /\ CertificateKept

\* A floor of counts is a count, and no more than any of them.
LEMMA ForecastCounts ==
  ASSUME NEW walls \in Boards, NEW c \in Cell, NEW cop \in Cell
  PROVE  /\ AfterBestWall(walls, c, cop)[1] \in Nat
         /\ AfterBestWall(walls, c, cop)[2] \in Nat
         /\ \A b \in {walls} \cup {walls \cup {w} : w \in Placeable(walls, cop)} :
              /\ b \in Boards
              /\ AfterBestWall(walls, c, cop)[1] <= Cardinality(Exits(b, c))
              /\ AfterBestWall(walls, c, cop)[2] <= Cardinality(Region(b, c))
<1> DEFINE boards == {walls} \cup {walls \cup {w} : w \in Placeable(walls, cop)}
           exits == {Cardinality(Exits(b, c)) : b \in boards}
           rooms == {Cardinality(Region(b, c)) : b \in boards}
<1>1. ASSUME NEW b \in boards PROVE b \in Boards
  <2>1. CASE b = walls
    BY <2>1
  <2>2. CASE \E w \in Placeable(walls, cop) : b = walls \cup {w}
    <3>1. PICK w \in Placeable(walls, cop) : b = walls \cup {w}
      BY <2>2
    <3>2. ~(Cardinality(walls) >= MaxBarriers) /\ w \in {cop} \cup Neighbours[cop]
      BY DEF Placeable
    <3>3. w \in Cell
      BY <3>2, NeighboursAre
    <3>4. Cardinality({w}) = 1 /\ {w} \in SUBSET Cell
      BY <3>3, FS_Singleton
    <3>5. Cardinality(walls) \in Nat
      BY Counted DEF Boards
    <3>6. 1 <= MaxBarriers - Cardinality(walls)
      BY <3>2, <3>5, PhysicsAssumption
    <3>7. Cardinality({w}) <= MaxBarriers - Cardinality(walls)
      BY <3>4, <3>6
    <3> QED BY <3>1, <3>4, <3>7, Within
  <2> QED BY <2>1, <2>2
<1>2. ASSUME NEW b \in boards
      PROVE  Cardinality(Exits(b, c)) \in Nat /\ Cardinality(Region(b, c)) \in Nat
  <2>1. b \in Boards
    BY <1>1
  <2>2. Exits(b, c) \in SUBSET Cell
    BY ExitsAre
  <2> QED BY <2>1, <2>2, Counted, RegionShrinks
<1>3. exits \in SUBSET Nat /\ rooms \in SUBSET Nat /\ exits # {} /\ rooms # {}
  BY <1>2
<1>4. /\ Least(exits) \in Nat /\ \A n \in exits : Least(exits) <= n
      /\ Least(rooms) \in Nat /\ \A n \in rooms : Least(rooms) <= n
  <2> HIDE DEF exits, rooms
  <2> QED BY <1>3, LeastIs
<1>5. AfterBestWall(walls, c, cop)
        = IF CanEnd(walls, c, cop) THEN <<0, 0>> ELSE <<Least(exits), Least(rooms)>>
  BY DEF AfterBestWall, ReplyWalls
<1>6. \A b \in boards : /\ Least(exits) <= Cardinality(Exits(b, c))
                        /\ Least(rooms) <= Cardinality(Region(b, c))
  BY <1>4
<1> HIDE DEF exits, rooms, boards
<1>7. CASE CanEnd(walls, c, cop)
  <2>1. AfterBestWall(walls, c, cop)[1] = 0 /\ AfterBestWall(walls, c, cop)[2] = 0
    BY <1>5, <1>7
  <2>2. \A b \in boards : 0 <= Cardinality(Exits(b, c)) /\ 0 <= Cardinality(Region(b, c))
    BY <1>2
  <2> QED BY <1>1, <2>1, <2>2 DEF boards
<1>8. CASE ~CanEnd(walls, c, cop)
  <2>1. /\ AfterBestWall(walls, c, cop)[1] = Least(exits)
        /\ AfterBestWall(walls, c, cop)[2] = Least(rooms)
    BY <1>5, <1>8
  <2> QED BY <1>1, <1>4, <1>6, <2>1 DEF boards
<1> QED BY <1>7, <1>8

\* The support's forecast is no more than that of any of its cells.
LEMMA ForecastIsLeast ==
  ASSUME NEW walls \in Boards, NEW c \in Cell, NEW support \in SUBSET Cell, NEW cop \in support
  PROVE  \A i \in 1 .. 2 : /\ Forecast(walls, c, support)[i] \in Nat
                           /\ Forecast(walls, c, support)[i] <= AfterBestWall(walls, c, cop)[i]
<1> DEFINE each == {AfterBestWall(walls, c, p) : p \in support}
           first == {f[1] : f \in each}
           second == {f[2] : f \in each}
<1>1. \A p \in support : AfterBestWall(walls, c, p)[1] \in Nat
                         /\ AfterBestWall(walls, c, p)[2] \in Nat
  BY ForecastCounts
<1>2. /\ first \in SUBSET Nat /\ AfterBestWall(walls, c, cop)[1] \in first
      /\ second \in SUBSET Nat /\ AfterBestWall(walls, c, cop)[2] \in second
  BY <1>1
<1>3. Forecast(walls, c, support) = <<Least(first), Least(second)>>
  BY DEF Forecast
<1> HIDE DEF first, second
<1>4. /\ Least(first) \in Nat /\ Least(first) <= AfterBestWall(walls, c, cop)[1]
      /\ Least(second) \in Nat /\ Least(second) <= AfterBestWall(walls, c, cop)[2]
  BY <1>2, LeastIs
<1>5. /\ Forecast(walls, c, support)[1] = Least(first)
      /\ Forecast(walls, c, support)[2] = Least(second)
  BY <1>3
<1>6. \A i \in 1 .. 2 : i = 1 \/ i = 2
  OBVIOUS
<1> QED BY <1>4, <1>5, <1>6

\* What a decision may play, and what the brain chooses among without a certificate.
Offered(peak, banned) == IF banned /\ peak = None THEN Options \ {"STAY"} ELSE Options

Uncertified(support, peak, banned) ==
  IF peak # None THEN SharpChoices(peak, support) ELSE DoctrineChoices(support, banned)

\* A sharp peak or not, a gated landing is chosen only when all are gated.
LEMMA GateRanksFirst ==
  ASSUME NEW support, NEW peak, NEW banned,
         NEW move \in Uncertified(support, peak, banned),
         NEW other \in Offered(peak, banned),
         ~Gated(engine.barriers, AppliedTo(other, Thief), support)
  PROVE  ~Gated(engine.barriers, AppliedTo(move, Thief), support)
<1> USE DEF Uncertified, Offered
<1>1. other \in Options
  OBVIOUS
<1>2. CASE peak # None
  <2> DEFINE free(m) == IF Gated(engine.barriers, AppliedTo(m, Thief), support) THEN 0 ELSE 1
             score == [m \in Options |-> <<free(m)>> \o SharpScore(AppliedTo(m, Thief), peak)]
  <2>1. move \in Options /\ ~Outranks(score[other], score[move])
    BY <1>1, <1>2 DEF SharpChoices, Best
  <2>2. ASSUME NEW m \in Options
        PROVE  score[m][1] = free(m) /\ 1 \in DOMAIN score[m]
    <3>1. PICK s : s = SharpScore(AppliedTo(m, Thief), peak)
      OBVIOUS
    <3>2. Len(s) \in Nat
      BY <3>1 DEF SharpScore
    <3>3. score[m] = <<free(m)>> \o s
      BY <3>1
    <3> HIDE DEF free, score
    <3>4. DOMAIN (<<free(m)>> \o s) = 1 .. 1 + Len(s) /\ (<<free(m)>> \o s)[1] = free(m)
      BY <3>2
    <3> QED BY <3>2, <3>3, <3>4
  <2> HIDE DEF score
  <2>3. ~(score[other][1] > score[move][1])
    <3>1. \A j \in 1 .. 1 - 1 : FALSE
      OBVIOUS
    <3> QED BY <1>1, <2>1, <2>2, <3>1 DEF Outranks
  <2>4. free(other) = 1 /\ ~(1 > free(move))
    BY <1>1, <2>1, <2>2, <2>3
  <2> QED BY <2>4
<1>3. CASE peak = None
  <2> DEFINE open == IF banned /\ Options # {"STAY"} THEN Options \ {"STAY"} ELSE Options
             safe == {m \in open : ~Gated(engine.barriers, AppliedTo(m, Thief), support)}
  <2>1. other \in safe
    BY <1>3
  <2>2. move \in safe
    BY <1>3, <2>1 DEF DoctrineChoices
  <2> QED BY <2>2
<1> QED BY <1>2, <1>3

\* What the thief's half-turn leaves behind.
LEMMA ThiefMoves ==
  ASSUME Inv, NEW move \in Move, ThiefMove(move)
  PROVE  /\ engine' \in EngineType
         /\ engine'.barriers = engine.barriers /\ Cop' = Cop
         /\ Thief' = AppliedTo(move, Thief) /\ Thief' \in Cell
         /\ engine'.next_actor = "police"
         /\ Remaining \in Nat
         /\ engine'.outcome = "ongoing" => Remaining > 1 /\ Remaining' = Remaining - 1
<1>1. /\ engine \in EngineType /\ engine.outcome = "ongoing"
      /\ MoveLegal(engine.barriers, engine.positions["thief"], move)
      /\ engine' = AfterThiefMove(engine, move)
  BY DEF Inv, TypeOK, ThiefMove, RequireTurn
<1>2. PICK caught \in BOOLEAN :
      /\ engine' \in EngineType
      /\ engine'.barriers = engine.barriers
      /\ engine'.positions["police"] = engine.positions["police"]
      /\ engine'.positions["thief"] = AppliedTo(move, engine.positions["thief"])
      /\ engine'.next_actor = "police"
      /\ caught => engine'.outcome = "capture"
      /\ ~caught => /\ engine'.turns_completed = engine.turns_completed + 1
                    /\ engine'.outcome =
                         IF \/ engine'.turns_completed >= SurvivalThreshold
                            \/ engine'.turns_completed >= MaxMoves
                         THEN "survival" ELSE "ongoing"
  BY <1>1, AfterThiefMoveFacts
<1>3. Cop' = Cop /\ Thief' = AppliedTo(move, Thief)
  BY <1>2 DEF Cop, Thief
<1>4. Thief' \in Cell
  BY <1>2 DEF Thief, EngineType, Role
<1>5. engine.turns_completed \in Nat /\ engine.turns_completed < SurvivalThreshold
  BY <1>1, PhysicsAssumption DEF Inv, SurvivalEarned, TurnLimit, EngineType
<1>6. Remaining \in Nat
  BY <1>5, PhysicsAssumption DEF Remaining
<1>7. ASSUME engine'.outcome = "ongoing"
      PROVE  Remaining > 1 /\ Remaining' = Remaining - 1
  <2>1. /\ engine'.turns_completed = engine.turns_completed + 1
        /\ ~(engine'.turns_completed >= SurvivalThreshold)
    BY <1>2, <1>7
  <2> QED BY <1>5, <2>1, PhysicsAssumption DEF Remaining
<1> QED BY <1>2, <1>3, <1>4, <1>6, <1>7

\* A decision on a belief that holds the police leaves its promises behind.
LEMMA DecisionPromised ==
  ASSUME Inv, NEW support \in Supports, NEW likely \in {l \in SUBSET support : Cop \in l},
         ThiefDecides(support, likely)
  PROVE  Promised'
<1>1. PICK sure \in {Certified(likely), {}}, peak \in support \cup {None},
           banned \in {stays >= MaxStays, FALSE} :
        \E move \in Choices(sure, support, peak, banned) :
          /\ ThiefMove(move)
          /\ plan' = Decision(sure, support, peak, banned, move)
  BY DEF ThiefDecides
<1>2. PICK move \in Choices(sure, support, peak, banned) :
          /\ ThiefMove(move)
          /\ plan' = Decision(sure, support, peak, banned, move)
  BY <1>1
<1>3. /\ move \in Move
      /\ sure # {} => move \in sure
      /\ sure = {} =>
           move \in IF peak # None THEN SharpChoices(peak, support)
                    ELSE DoctrineChoices(support, banned)
  <2>1. sure \in SUBSET Move
    BY DEF Certified
  <2> QED BY <1>2, <2>1, ChoicesAreMoves
<1>4. /\ engine'.barriers = engine.barriers /\ Cop' = Cop
      /\ Thief' = AppliedTo(move, Thief) /\ Thief' \in Cell
      /\ engine'.next_actor = "police"
      /\ Remaining \in Nat
      /\ engine'.outcome = "ongoing" => Remaining > 1 /\ Remaining' = Remaining - 1
  BY <1>2, <1>3, ThiefMoves
<1>5. Cop \in Cell /\ Thief \in Cell /\ engine.barriers \in Boards
  BY StandsOnBoard
<1>6. support \in SUBSET Cell /\ Cop \in support /\ Cop \in likely /\ likely \subseteq support
  BY DEF Supports, Beliefs
<1>7. ForecastKept'
  <2>1. plan'.forecast = Forecast(engine.barriers, Thief', support)
    BY <1>2, <1>4 DEF Decision
  <2>2. \A i \in 1 .. 2 :
          /\ Forecast(engine.barriers, Thief', support)[i] \in Nat
          /\ Forecast(engine.barriers, Thief', support)[i]
               <= AfterBestWall(engine.barriers, Thief', Cop)[i]
    BY <1>4, <1>5, <1>6, ForecastIsLeast
  <2>3. AfterBestWall(engine.barriers, Thief, Cop)' = AfterBestWall(engine.barriers, Thief', Cop)
    BY <1>4
  <2> QED BY <2>1, <2>2, <2>3 DEF ForecastKept
<1>8. GateKept'
  <2> SUFFICES ASSUME plan'.by = "gate", ~plan'.gated,
                      Cardinality(engine'.barriers) < MaxBarriers
               PROVE  Thief' \notin {Cop'} \cup Neighbours[Cop']
    BY DEF GateKept
  <2>1. sure = {}
    BY <1>2 DEF Decision
  <2>2. ~\A m \in Offered(peak, banned) :
           Gated(engine.barriers, AppliedTo(m, Thief), support)
    BY <1>2 DEF Decision, Offered
  <2>3. PICK other \in Offered(peak, banned) :
           ~Gated(engine.barriers, AppliedTo(other, Thief), support)
    BY <2>2
  <2>4. ~Gated(engine.barriers, AppliedTo(move, Thief), support)
    <3>1. move \in Uncertified(support, peak, banned)
      BY <1>3, <2>1 DEF Uncertified
    <3> QED BY <2>3, <3>1, GateRanksFirst
  <2>5. ~CanEnd(engine.barriers, Thief', Cop)
    BY <1>4, <1>6, <2>4 DEF Gated
  <2> QED BY <1>4, <2>5 DEF CanEnd
<1>9. CertificateKept'
  <2> SUFFICES ASSUME plan'.by = "certificate", engine'.outcome = "ongoing"
               PROVE  Foreseen(Thief', Cop, engine.barriers, Remaining - 1)
    BY <1>4 DEF CertificateKept, Foreseen
  <2>1. move \in Certified(likely)
    <3>1. sure # {}
      BY <1>2 DEF Decision
    <3> QED BY <1>1, <1>3, <3>1
  <2>2. move \in Survivors(Cop)
    BY <1>6, <2>1 DEF Certified
  <2>3. PICK s : /\ s = Stand(Thief, Cop, engine.barriers) /\ s \in Standing
                 /\ s.thief = Thief /\ s.cop = Cop /\ s.walls = engine.barriers
    <3>1. PICK s : s = Stand(Thief, Cop, engine.barriers)
      OBVIOUS
    <3>2. s.thief = Thief /\ s.cop = Cop /\ s.walls = engine.barriers
      BY <3>1 DEF Stand
    <3>3. engine.barriers \in SUBSET Cell
      BY <1>5 DEF Boards
    <3>4. s \in Standing
      BY <1>5, <3>1, <3>3 DEF Stand, Standing
    <3> QED BY <3>1, <3>2, <3>4
  <2>4. PICK n : n = Remaining /\ n \in Nat /\ n > 1
    BY <1>4
  <2>5. Endures(SurvivingMoves, n, s, move)
    BY <2>2, <2>3, <2>4, SurvivingIs DEF Survivors
  <2>6. PICK landed : landed = AppliedTo(move, Thief) /\ landed = Thief'
    BY <1>4
  <2>7. landed # Cop /\ ~IsSurrounded(engine.barriers, landed)
    BY <2>3, <2>5, <2>6 DEF Endures, DeadlyLanding
  <2>8. ~(n <= 1)
    BY <2>4
  <2>9. /\ \A m \in Move :
             MoveLegal(engine.barriers, Cop, m) =>
               /\ AppliedTo(m, Cop) # landed
               /\ SurvivingMoves[n - 1][Stand(landed, AppliedTo(m, Cop), engine.barriers)] # {}
        /\ \A w \in Placeable(engine.barriers, Cop) :
             /\ w # landed
             /\ ~IsSurrounded(engine.barriers \cup {w}, landed)
             /\ SurvivingMoves[n - 1][Stand(landed, Cop, engine.barriers \cup {w})] # {}
    BY <2>3, <2>5, <2>6, <2>8 DEF Endures
  <2> QED BY <2>4, <2>6, <2>7, <2>9 DEF Foreseen
<1> QED BY <1>4, <1>7, <1>8, <1>9 DEF Promised

\* The promises stand until the police replies.
LEMMA PromisedNext == Inv /\ Promised /\ [EscapeNext]_escapeVars => Promised'
<1> SUFFICES ASSUME Inv, Promised, [EscapeNext]_escapeVars PROVE Promised'
  OBVIOUS
<1>1. CASE plan' = None
  BY <1>1 DEF Promised
<1>2. ASSUME NEW support \in Supports, NEW likely \in {l \in SUBSET support : Cop \in l},
             ThiefDecides(support, likely)
      PROVE  Promised'
  BY <1>2, DecisionPromised
<1>3. CASE UNCHANGED escapeVars
  <2>1. engine' = engine /\ plan' = plan
    BY <1>3 DEF escapeVars
  <2>2. Thief' = Thief /\ Cop' = Cop /\ Remaining' = Remaining
    BY <2>1 DEF Thief, Cop, Remaining
  <2>3. ForecastKept' = ForecastKept
    BY <2>1, <2>2 DEF ForecastKept
  <2>4. GateKept' = GateKept
    BY <2>1, <2>2 DEF GateKept
  <2>5. CertificateKept' = CertificateKept
    BY <2>1, <2>2 DEF CertificateKept
  <2> QED BY <2>1, <2>3, <2>4, <2>5 DEF Promised
<1>4. EscapeNext => plan' = None
        \/ \E support \in Supports :
             \E likely \in {l \in SUBSET support : Cop \in l} : ThiefDecides(support, likely)
  BY DEF EscapeNext, PolicePlays, ThiefMisled, PriceLanding
<1> QED BY <1>1, <1>2, <1>3, <1>4

\* They hold in every reachable state.
LEMMA PromisesInvariance == EscapeSpec => [](Inv /\ Promised)
<1>1. EscapeInit => Promised
  BY DEF EscapeInit, Promised
<1> QED BY <1>1, PromisedNext, EscapeInvariance, PTL DEF EscapeSpec

-----------------------------------------------------------------------------
(* The police's reply *)

CopStepped(m) ==
  /\ MoveLegal(engine.barriers, Cop, m)
  /\ Cop' = AppliedTo(m, Cop) /\ engine'.barriers = engine.barriers
  /\ engine'.outcome =
       IF CapturedMidRound(engine.barriers, AppliedTo(m, Cop), Thief) THEN "capture" ELSE "ongoing"

CopWalled(w) ==
  /\ Cop' = Cop /\ engine'.barriers = engine.barriers \cup {w}
  /\ engine'.outcome =
       IF w = Thief \/ CapturedMidRound(engine.barriers \cup {w}, Cop, Thief)
       THEN "capture" ELSE "ongoing"

\* The cells one step or less away, by distance and by move.
LEMMA WithinOne ==
  ASSUME NEW c \in Cell, NEW d \in Cell, Distance(c, d) <= 1
  PROVE  d \in {c} \cup Neighbours[c]
<1>1. PICK a \in 0 .. GridSize - 1, b \in 0 .. GridSize - 1 : c = <<a, b>>
  BY DEF Cell
<1>2. PICK e \in 0 .. GridSize - 1, f \in 0 .. GridSize - 1 : d = <<e, f>>
  BY DEF Cell
<1>3. Distance(c, d) = Abs(a - e) + Abs(b - f)
  BY <1>1, <1>2 DEF Distance
<1>4. Abs(a - e) \in Nat /\ Abs(b - f) \in Nat /\ (Abs(a - e) = 0 => a = e) /\ (Abs(b - f) = 0 => b = f)
  BY PhysicsAssumption DEF Abs
<1>5. CASE Distance(c, d) = 1
  BY <1>5, NeighboursAre
<1>6. CASE Distance(c, d) = 0
  BY <1>1, <1>2, <1>3, <1>4, <1>6
<1> QED BY <1>3, <1>4, <1>5, <1>6

\* A legal step ends on the same cell or on a neighbour.
LEMMA StepsToNeighbours ==
  ASSUME NEW walls, NEW c \in Cell, NEW m \in Move, MoveLegal(walls, c, m)
  PROVE  AppliedTo(m, c) \in {c} \cup Neighbours[c]
<1>1. PICK a \in 0 .. GridSize - 1, b \in 0 .. GridSize - 1 : c = <<a, b>>
  BY DEF Cell
<1>2. AppliedTo(m, c) \in Cell
  BY LegalMoveLands
<1>3. Distance(c, AppliedTo(m, c)) <= 1
  BY <1>1, PhysicsAssumption DEF Distance, Abs, AppliedTo, Delta, Move, OrthogonalMoves
<1> QED BY <1>2, <1>3, WithinOne

\* The only change of the engine after a decision is a legal reply of the police.
LEMMA ReplyIs ==
  ASSUME Inv, engine.next_actor = "police", [EscapeNext]_escapeVars, engine' # engine
  PROVE  /\ engine.outcome = "ongoing"
         /\ Thief' = Thief /\ Remaining' = Remaining
         /\ \/ \E m \in Move : CopStepped(m)
            \/ \E w \in Placeable(engine.barriers, Cop) : CopWalled(w)
<1>1. engine \in EngineType /\ Cop \in Cell
  BY StandsOnBoard DEF Inv, TypeOK
<1>2. ~RequireTurn(engine, "thief")
  BY DEF RequireTurn
<1>3. Next
  BY EscapeIsEngine
<1>4. ASSUME NEW move \in Move, PoliceMove(move)
      PROVE  /\ engine.outcome = "ongoing"
             /\ Thief' = Thief /\ Remaining' = Remaining /\ CopStepped(move)
  <2>1. /\ engine.outcome = "ongoing"
        /\ MoveLegal(engine.barriers, engine.positions["police"], move)
        /\ engine' = AfterPoliceMove(engine, move)
    BY <1>4 DEF PoliceMove, RequireTurn
  <2>2. /\ engine'.barriers = engine.barriers
        /\ engine'.positions["thief"] = engine.positions["thief"]
        /\ engine'.turns_completed = engine.turns_completed
        /\ engine'.outcome = IF CapturedMidRound(engine'.barriers, engine'.positions["police"],
                                                 engine'.positions["thief"])
                             THEN "capture" ELSE engine.outcome
    BY <1>1, <2>1, AfterPoliceMoveFacts
  <2>3. engine'.positions["police"] = AppliedTo(move, engine.positions["police"])
    BY <1>1, <2>1 DEF AfterPoliceMove, CheckCapturesMidRound, EngineType, Role
  <2> QED BY <2>1, <2>2, <2>3 DEF Thief, Cop, Remaining, CopStepped
<1>5. ASSUME NEW target \in Target, PolicePlaceBarrier(target)
      PROVE  /\ engine.outcome = "ongoing"
             /\ Thief' = Thief /\ Remaining' = Remaining
             /\ target \in Placeable(engine.barriers, Cop) /\ CopWalled(target)
  <2>1. /\ engine.outcome = "ongoing"
        /\ BarrierLegal(engine.barriers, Cop, target)
        /\ engine' = AfterBarrier(engine, target)
    BY <1>5 DEF PolicePlaceBarrier, RequireTurn, Cop
  <2>2. target \in Cell /\ target \notin engine.barriers /\ Distance(Cop, target) <= 1
    BY <1>1, <2>1, LegalBarrierLands
  <2>3. /\ engine'.barriers = engine.barriers \cup {target}
        /\ engine'.positions = engine.positions
        /\ engine'.turns_completed = engine.turns_completed
        /\ engine'.outcome = IF \/ target = engine.positions["thief"]
                                \/ CapturedMidRound(engine'.barriers, engine'.positions["police"],
                                                    engine'.positions["thief"])
                             THEN "capture" ELSE engine.outcome
    BY <1>1, <2>1, <2>2, AfterBarrierFacts
  <2>4. target \in {Cop} \cup Neighbours[Cop]
    BY <1>1, <2>2, WithinOne
  <2>5. ~(Cardinality(engine.barriers) >= MaxBarriers)
    <3>1. Cardinality(engine.barriers) \in Nat
      BY StandsOnBoard, Counted DEF Boards
    <3> QED BY <2>1, <3>1, PhysicsAssumption DEF BarrierLegal
  <2>6. target \in Placeable(engine.barriers, Cop)
    BY <2>2, <2>4, <2>5 DEF Placeable
  <2> QED BY <2>1, <2>3, <2>6 DEF Thief, Cop, Remaining, CopWalled
<1>6. ASSUME NEW move \in Move, ThiefMove(move) PROVE FALSE
  BY <1>2, <1>6 DEF ThiefMove
<1> QED BY <1>3, <1>4, <1>5, <1>6 DEF Next

\* What each promise is worth when the police has answered.
LEMMA PromisesHold ==
  ASSUME Inv, Promised, [EscapeNext]_escapeVars, Replied
  PROVE  /\ plan.forecast[1] <= Cardinality(Exits(engine.barriers, Thief)')
         /\ plan.forecast[2] <= Cardinality(Region(engine.barriers, Thief)')
         /\ plan.by = "gate" /\ ~plan.gated /\ Cardinality(engine.barriers) < MaxBarriers
              => ~Ended'
         /\ plan.by = "certificate" =>
              engine'.outcome # "capture" /\ (Survivors(Cop) # {})'
<1>1. /\ engine.next_actor = "police" /\ engine' # engine
      /\ ForecastKept /\ GateKept /\ CertificateKept
  BY DEF Replied, Promised
<1>2. /\ engine.outcome = "ongoing" /\ Thief' = Thief /\ Remaining' = Remaining
      /\ \/ \E m \in Move : CopStepped(m)
         \/ \E w \in Placeable(engine.barriers, Cop) : CopWalled(w)
  BY <1>1, ReplyIs
<1>3. Cop \in Cell /\ Thief \in Cell /\ engine.barriers \in Boards
  BY StandsOnBoard
<1>4. PICK b : /\ b = engine'.barriers
               /\ b \in {engine.barriers}
                        \cup {engine.barriers \cup {w} : w \in Placeable(engine.barriers, Cop)}
  BY <1>2 DEF CopStepped, CopWalled
<1>5. /\ plan.forecast[1] <= Cardinality(Exits(b, Thief))
      /\ plan.forecast[2] <= Cardinality(Region(b, Thief))
  <2>1. /\ plan.forecast[1] \in Nat /\ plan.forecast[2] \in Nat
        /\ plan.forecast[1] <= AfterBestWall(engine.barriers, Thief, Cop)[1]
        /\ plan.forecast[2] <= AfterBestWall(engine.barriers, Thief, Cop)[2]
    BY <1>1 DEF ForecastKept
  <2>2. /\ AfterBestWall(engine.barriers, Thief, Cop)[1] \in Nat
        /\ AfterBestWall(engine.barriers, Thief, Cop)[2] \in Nat
        /\ b \in Boards
        /\ AfterBestWall(engine.barriers, Thief, Cop)[1] <= Cardinality(Exits(b, Thief))
        /\ AfterBestWall(engine.barriers, Thief, Cop)[2] <= Cardinality(Region(b, Thief))
    BY <1>3, <1>4, ForecastCounts
  <2>3. Cardinality(Exits(b, Thief)) \in Nat /\ Cardinality(Region(b, Thief)) \in Nat
    <3>1. Exits(b, Thief) \in SUBSET Cell
      BY <1>3, ExitsAre
    <3> QED BY <1>3, <2>2, <3>1, Counted, RegionShrinks
  <2> QED BY <2>1, <2>2, <2>3
<1>6. ASSUME plan.by = "gate", ~plan.gated, Cardinality(engine.barriers) < MaxBarriers
      PROVE  Cop' # Thief /\ Thief \notin b
  <2>1. Thief \notin {Cop} \cup Neighbours[Cop] /\ Thief \notin engine.barriers
    BY <1>1, <1>2, <1>6 DEF GateKept, Inv
  <2>2. ASSUME NEW m \in Move, CopStepped(m) PROVE Cop' # Thief /\ Thief \notin b
    <3>1. AppliedTo(m, Cop) \in {Cop} \cup Neighbours[Cop]
      BY <1>3, <2>2, StepsToNeighbours DEF CopStepped
    <3> QED BY <1>4, <2>1, <2>2, <3>1 DEF CopStepped
  <2>3. ASSUME NEW w \in Placeable(engine.barriers, Cop), CopWalled(w)
        PROVE  Cop' # Thief /\ Thief \notin b
    <3>1. w \in {Cop} \cup Neighbours[Cop]
      BY DEF Placeable
    <3> QED BY <1>4, <2>1, <2>3, <3>1 DEF CopWalled
  <2> QED BY <1>2, <2>2, <2>3
<1>7. ASSUME plan.by = "certificate"
      PROVE  engine'.outcome # "capture" /\ SurvivingMoves[Remaining][Stand(Thief, Cop', b)] # {}
  <2>1. Foreseen(Thief, Cop, engine.barriers, Remaining)
    BY <1>1, <1>2, <1>7 DEF CertificateKept
  <2>2. ASSUME NEW m \in Move, CopStepped(m)
        PROVE  engine'.outcome # "capture" /\ SurvivingMoves[Remaining][Stand(Thief, Cop', b)] # {}
    <3>1. /\ AppliedTo(m, Cop) # Thief /\ ~IsSurrounded(engine.barriers, Thief)
          /\ SurvivingMoves[Remaining][Stand(Thief, AppliedTo(m, Cop), engine.barriers)] # {}
      BY <2>1, <2>2 DEF Foreseen, CopStepped
    <3>2. engine'.outcome = "ongoing"
      BY <2>2, <3>1 DEF CopStepped, CapturedMidRound
    <3> QED BY <1>4, <2>2, <3>1, <3>2 DEF CopStepped
  <2>3. ASSUME NEW w \in Placeable(engine.barriers, Cop), CopWalled(w)
        PROVE  engine'.outcome # "capture" /\ SurvivingMoves[Remaining][Stand(Thief, Cop', b)] # {}
    <3>1. /\ Thief # Cop /\ w # Thief /\ ~IsSurrounded(engine.barriers \cup {w}, Thief)
          /\ SurvivingMoves[Remaining][Stand(Thief, Cop, engine.barriers \cup {w})] # {}
      BY <2>1 DEF Foreseen
    <3>2. engine'.outcome = "ongoing"
      BY <2>3, <3>1 DEF CopWalled, CapturedMidRound
    <3> QED BY <1>4, <2>3, <3>1, <3>2 DEF CopWalled
  <2> QED BY <1>2, <2>2, <2>3
<1> QED BY <1>2, <1>4, <1>5, <1>6, <1>7 DEF Ended, Survivors

\* The one-ply forecast is a floor, whatever the police really answers, for any
\* support that holds its cell.
THEOREM ForecastIsFloor == EscapeSpec => ForecastHolds
<1>1. Inv /\ Promised /\ [EscapeNext]_escapeVars =>
        [Replied =>
           /\ plan.forecast[1] <= Cardinality(Exits(engine.barriers, Thief)')
           /\ plan.forecast[2] <= Cardinality(Region(engine.barriers, Thief)')]_escapeVars
  BY PromisesHold
<1> QED BY <1>1, PromisesInvariance, PTL DEF EscapeSpec, ForecastHolds

\* The lethal gate: with a landing free of it, the thief is not occupied or walled
\* at the next half-turn, on a sharp peak, a wrong one or none.
THEOREM GateIsKept == EscapeSpec => GateHolds
<1>1. Inv /\ Promised /\ [EscapeNext]_escapeVars =>
        [Replied /\ plan.by = "gate" /\ ~plan.gated
           /\ Cardinality(engine.barriers) < MaxBarriers => ~Ended']_escapeVars
  BY PromisesHold
<1> QED BY <1>1, PromisesInvariance, PTL DEF EscapeSpec, GateHolds

\* A certified move survives every reply, and leaves a move that survives to the end.
THEOREM CertificateIsKept == EscapeSpec => CertificateHolds
<1>1. Inv /\ Promised /\ [EscapeNext]_escapeVars =>
        [Replied /\ plan.by = "certificate" =>
           engine'.outcome # "capture" /\ (Survivors(Cop) # {})']_escapeVars
  BY PromisesHold
<1> QED BY <1>1, PromisesInvariance, PTL DEF EscapeSpec, CertificateHolds
=============================================================================
