--------------------------- MODULE PhysicsProofs ---------------------------
(***************************************************************************)
(* What the operations of GamePhysics return, for every board, quota and   *)
(* limit the code accepts; the least-number principle over sets, which     *)
(* stands in for induction in the modules that extend this one; and facts  *)
(* about roles, actions, inboxes and the order of half-turns they share.   *)
(***************************************************************************)
EXTENDS GamePhysics, Functions, FiniteSetTheorems, WellFoundedInduction,
        SequenceTheorems, FunctionTheorems, TLAPS

\* A set of naturals has a least element: the intervals below its elements are
\* finite, and the subset order on finite sets is well founded.
LEMMA LeastNumber ==
  ASSUME NEW T \in SUBSET Nat, T # {}
  PROVE  \E m \in T : \A k \in T : m <= k
<1> DEFINE Below(n) == 0 .. (n - 1)
           B == {Below(n) : n \in T}
<1>1. B \subseteq FiniteSubsetsOf(Nat)
  <2>1. \A n \in T : IsFiniteSet(0 .. (n - 1))
    BY FS_Interval
  <2> QED BY <2>1 DEF FiniteSubsetsOf
<1>2. IsWellFoundedOn(StrictSubsetOrdering(Nat), FiniteSubsetsOf(Nat))
  BY FS_StrictSubsetOrderingWellFounded
<1>3. PICK b \in B : \A c \in B : <<c, b>> \notin StrictSubsetOrdering(Nat)
  <2>1. B # {}
    OBVIOUS
  <2> HIDE DEF B
  <2> QED BY <1>1, <1>2, <2>1, WFMin
<1>4. PICK m \in T : b = 0 .. (m - 1)
  OBVIOUS
<1>5. ASSUME NEW k \in T, k < m
      PROVE  FALSE
  <2>1. 0 .. (k - 1) \in B
    OBVIOUS
  <2>2. 0 .. (k - 1) \subseteq 0 .. (m - 1) /\ k \in 0 .. (m - 1) /\ k \notin 0 .. (k - 1)
    BY <1>5
  <2>3. <<0 .. (k - 1), b>> \in StrictSubsetOrdering(Nat)
    BY <2>2, <1>4 DEF StrictSubsetOrdering
  <2> QED BY <1>3, <2>1, <2>3
<1> QED BY <1>5
-----------------------------------------------------------------------------
(* The operations of GameEngine *)

\* Board.apply_move: a legal move ends on the board, off every barrier unless
\* it is STAY.
LEMMA LegalMoveLands ==
  ASSUME NEW barriers, NEW cell \in Cell, NEW move \in Move,
         MoveLegal(barriers, cell, move)
  PROVE  /\ AppliedTo(move, cell) \in Cell
         /\ move = "STAY" => AppliedTo(move, cell) = cell
         /\ move # "STAY" => AppliedTo(move, cell) \notin barriers
<1>1. PICK r \in 0 .. GridSize - 1, c \in 0 .. GridSize - 1 : cell = <<r, c>>
  BY DEF Cell
<1>2. CASE move = "STAY"
  <2>1. AppliedTo(move, cell) = cell
    BY <1>1, <1>2, PhysicsAssumption DEF AppliedTo, Delta
  <2> QED BY <2>1, <1>2
<1>3. CASE move # "STAY"
  <2>1. InBounds(AppliedTo(move, cell)) /\ AppliedTo(move, cell) \notin barriers
    BY <1>3 DEF MoveLegal, IsPassable
  <2>2. AppliedTo(move, cell) \in Int \X Int
    BY <1>1, PhysicsAssumption DEF AppliedTo, Delta, Move, OrthogonalMoves
  <2>3. AppliedTo(move, cell) \in Cell
    BY <2>1, <2>2, PhysicsAssumption DEF InBounds, Cell
  <2> QED BY <2>1, <2>3, <1>3
<1> QED BY <1>2, <1>3

\* What GameEngine.police_move leaves behind.
LEMMA AfterPoliceMoveFacts ==
  ASSUME NEW e \in EngineType, NEW move \in Move,
         MoveLegal(e.barriers, e.positions["police"], move)
  PROVE  LET n == AfterPoliceMove(e, move) IN
         /\ n \in EngineType
         /\ n.barriers = e.barriers
         /\ n.positions["thief"] = e.positions["thief"]
         /\ n.turns_completed = e.turns_completed
         /\ n.next_actor = "thief"
         /\ n.outcome = IF CapturedMidRound(n.barriers, n.positions["police"],
                                            n.positions["thief"])
                        THEN "capture" ELSE e.outcome
<1> DEFINE moved == [e EXCEPT !.positions["police"] = AppliedTo(move, @),
                              !.next_actor = "thief"]
           n == AfterPoliceMove(e, move)
<1>1. e.positions \in [Role -> Cell] /\ e.positions["police"] \in Cell
  BY DEF EngineType, Role
<1>2. AppliedTo(move, e.positions["police"]) \in Cell
  BY <1>1, LegalMoveLands
<1>3. /\ moved \in EngineType
      /\ moved.barriers = e.barriers
      /\ moved.positions["thief"] = e.positions["thief"]
      /\ moved.turns_completed = e.turns_completed
      /\ moved.next_actor = "thief"
      /\ moved.outcome = e.outcome
  BY <1>1, <1>2 DEF EngineType, Role
<1>4. n = [moved EXCEPT !.outcome =
             IF CapturedMidRound(moved.barriers, moved.positions["police"],
                                 moved.positions["thief"])
             THEN "capture" ELSE @]
  BY DEF AfterPoliceMove, CheckCapturesMidRound
<1> HIDE DEF moved, n
<1>5. /\ n \in EngineType
      /\ n.barriers = moved.barriers /\ n.positions = moved.positions
      /\ n.turns_completed = moved.turns_completed
      /\ n.next_actor = moved.next_actor
      /\ n.outcome = IF CapturedMidRound(moved.barriers, moved.positions["police"],
                                         moved.positions["thief"])
                     THEN "capture" ELSE moved.outcome
  BY <1>3, <1>4 DEF EngineType, Outcome
<1> QED BY <1>3, <1>5 DEF n

\* What GameEngine.police_place_barrier leaves behind.
LEMMA AfterBarrierFacts ==
  ASSUME NEW e \in EngineType, NEW target \in Cell
  PROVE  LET n == AfterBarrier(e, target) IN
         /\ n \in EngineType
         /\ n.barriers = e.barriers \cup {target}
         /\ n.positions = e.positions
         /\ n.turns_completed = e.turns_completed
         /\ n.next_actor = "thief"
         /\ n.outcome = IF \/ target = e.positions["thief"]
                           \/ CapturedMidRound(n.barriers, n.positions["police"],
                                               n.positions["thief"])
                        THEN "capture" ELSE e.outcome
<1> DEFINE placed == [e EXCEPT !.barriers = @ \cup {target}, !.next_actor = "thief"]
           n == AfterBarrier(e, target)
<1>1. /\ placed \in EngineType
      /\ placed.barriers = e.barriers \cup {target}
      /\ placed.positions = e.positions
      /\ placed.turns_completed = e.turns_completed
      /\ placed.next_actor = "thief"
      /\ placed.outcome = e.outcome
  BY DEF EngineType, Role
<1>2. n = IF target = e.positions["thief"]
          THEN [placed EXCEPT !.outcome = "capture"]
          ELSE CheckCapturesMidRound(placed)
  BY DEF AfterBarrier
<1> HIDE DEF placed, n
<1>3. CASE target = e.positions["thief"]
  <2>1. n = [placed EXCEPT !.outcome = "capture"]
    BY <1>2, <1>3
  <2>2. /\ n \in EngineType
        /\ n.barriers = placed.barriers /\ n.positions = placed.positions
        /\ n.turns_completed = placed.turns_completed
        /\ n.next_actor = placed.next_actor
        /\ n.outcome = "capture"
    BY <1>1, <2>1 DEF EngineType, Outcome
  <2> QED BY <1>1, <1>3, <2>2 DEF n
<1>4. CASE target # e.positions["thief"]
  <2>1. n = [placed EXCEPT !.outcome =
               IF CapturedMidRound(placed.barriers, placed.positions["police"],
                                   placed.positions["thief"])
               THEN "capture" ELSE @]
    BY <1>2, <1>4 DEF CheckCapturesMidRound
  <2>2. /\ n \in EngineType
        /\ n.barriers = placed.barriers /\ n.positions = placed.positions
        /\ n.turns_completed = placed.turns_completed
        /\ n.next_actor = placed.next_actor
        /\ n.outcome = IF CapturedMidRound(placed.barriers, placed.positions["police"],
                                           placed.positions["thief"])
                       THEN "capture" ELSE placed.outcome
    BY <1>1, <2>1 DEF EngineType, Outcome
  <2> QED BY <1>1, <1>4, <2>2 DEF n
<1> QED BY <1>3, <1>4

\* What GameEngine._close_full_turn leaves behind.
LEMMA CloseFullTurnFacts ==
  ASSUME NEW e \in EngineType
  PROVE  LET n == CloseFullTurn(e) IN
         /\ n \in EngineType
         /\ n.barriers = e.barriers
         /\ n.positions = e.positions
         /\ n.turns_completed = e.turns_completed + 1
         /\ n.next_actor = e.next_actor
         /\ n.outcome = OutcomeAfterFullTurn(e.barriers, e.positions["police"],
                                             e.positions["thief"],
                                             e.turns_completed + 1)
<1> DEFINE verdict == OutcomeAfterFullTurn(e.barriers, e.positions["police"],
                                           e.positions["thief"],
                                           e.turns_completed + 1)
           trail == Append(e.emissions, e.positions)
           n == CloseFullTurn(e)
<1>1. verdict \in Outcome
  BY DEF OutcomeAfterFullTurn, Outcome
<1>2. trail \in Seq([Role -> Cell])
  BY DEF EngineType
<1>3. n = [e EXCEPT !.emissions = trail,
                    !.turns_completed = @ + 1, !.outcome = verdict]
  BY DEF CloseFullTurn
<1> HIDE DEF verdict, trail, n
<1>4. /\ n \in EngineType
      /\ n.barriers = e.barriers /\ n.positions = e.positions
      /\ n.turns_completed = e.turns_completed + 1
      /\ n.next_actor = e.next_actor
      /\ n.outcome = verdict
  <2>1. n = [positions |-> e.positions, barriers |-> e.barriers,
             emissions |-> trail, turns_completed |-> e.turns_completed + 1,
             outcome |-> verdict, next_actor |-> e.next_actor]
    BY <1>3 DEF EngineType
  <2>2. n \in EngineType
    BY <1>1, <1>2, <2>1 DEF EngineType
  <2> QED BY <2>1, <2>2
<1> QED BY <1>4 DEF n, verdict

\* What GameEngine.thief_move leaves behind.
LEMMA AfterThiefMoveFacts ==
  ASSUME NEW e \in EngineType, NEW move \in Move, e.outcome = "ongoing",
         MoveLegal(e.barriers, e.positions["thief"], move)
  PROVE  LET n == AfterThiefMove(e, move)
             caught == CapturedMidRound(n.barriers, n.positions["police"],
                                        n.positions["thief"])
         IN
         /\ n \in EngineType
         /\ n.barriers = e.barriers
         /\ n.positions["police"] = e.positions["police"]
         /\ n.positions["thief"] = AppliedTo(move, e.positions["thief"])
         /\ n.next_actor = "police"
         /\ caught => /\ n.outcome = "capture"
                      /\ n.turns_completed = e.turns_completed
         /\ ~caught => /\ n.turns_completed = e.turns_completed + 1
                       /\ n.outcome = IF \/ n.turns_completed >= SurvivalThreshold
                                         \/ n.turns_completed >= MaxMoves
                                      THEN "survival" ELSE "ongoing"
<1> DEFINE walked == [e EXCEPT !.positions["thief"] = AppliedTo(move, @),
                               !.next_actor = "police"]
           caught == CapturedMidRound(walked.barriers, walked.positions["police"],
                                      walked.positions["thief"])
           moved == CheckCapturesMidRound(walked)
           n == AfterThiefMove(e, move)
<1>1. e.positions \in [Role -> Cell] /\ e.positions["thief"] \in Cell
  BY DEF EngineType, Role
<1>2. AppliedTo(move, e.positions["thief"]) \in Cell
  BY <1>1, LegalMoveLands
<1>3. /\ walked \in EngineType
      /\ walked.barriers = e.barriers
      /\ walked.positions["police"] = e.positions["police"]
      /\ walked.positions["thief"] = AppliedTo(move, e.positions["thief"])
      /\ walked.turns_completed = e.turns_completed
      /\ walked.next_actor = "police"
      /\ walked.outcome = "ongoing"
  BY <1>1, <1>2 DEF EngineType, Role
<1>4. moved = [walked EXCEPT !.outcome = IF caught THEN "capture" ELSE @]
  BY DEF CheckCapturesMidRound
<1>5. n = IF moved.outcome = "ongoing" THEN CloseFullTurn(moved) ELSE moved
  BY DEF AfterThiefMove
<1> HIDE DEF walked, moved, n
<1>6. /\ moved \in EngineType
      /\ moved.barriers = walked.barriers /\ moved.positions = walked.positions
      /\ moved.turns_completed = walked.turns_completed
      /\ moved.next_actor = walked.next_actor
      /\ moved.outcome = IF caught THEN "capture" ELSE "ongoing"
  BY <1>3, <1>4 DEF EngineType, Outcome
<1>7. CASE caught
  <2>1. n = moved
    BY <1>5, <1>6, <1>7
  <2>2. CapturedMidRound(n.barriers, n.positions["police"], n.positions["thief"])
    BY <1>6, <1>7, <2>1
  <2> QED BY <1>3, <1>6, <1>7, <2>1, <2>2 DEF n
<1>8. CASE ~caught
  <2>1. n = CloseFullTurn(moved)
    BY <1>5, <1>6, <1>8
  <2>2. /\ n \in EngineType
        /\ n.barriers = moved.barriers /\ n.positions = moved.positions
        /\ n.turns_completed = moved.turns_completed + 1
        /\ n.next_actor = moved.next_actor
        /\ n.outcome = OutcomeAfterFullTurn(moved.barriers, moved.positions["police"],
                                            moved.positions["thief"],
                                            moved.turns_completed + 1)
    BY <1>6, <2>1, CloseFullTurnFacts
  <2>3. ~CapturedMidRound(n.barriers, n.positions["police"], n.positions["thief"])
    BY <1>6, <1>8, <2>2
  <2>4. n.outcome = IF n.turns_completed >= SurvivalThreshold \/ n.turns_completed >= MaxMoves
                    THEN "survival" ELSE "ongoing"
    BY <2>2, <2>3 DEF OutcomeAfterFullTurn
  <2> QED BY <1>3, <1>6, <2>2, <2>3, <2>4 DEF n
<1> QED BY <1>7, <1>8

\* A fresh engine.
LEMMA NewEngineFacts ==
  /\ NewEngine \in EngineType
  /\ NewEngine.outcome = "ongoing" /\ NewEngine.next_actor = "police"
<1>1. [police |-> CopStart, thief |-> ThiefStart] \in [Role -> Cell]
  BY PhysicsAssumption DEF Role
<1>2. << >> \in Seq([Role -> Cell])
  OBVIOUS
<1> QED BY <1>1, <1>2 DEF NewEngine, EngineType, Role, Outcome

\* apply_action: a legal action leaves an engine whose next actor is the rival.
LEMMA ApplyActionFacts ==
  ASSUME NEW e \in EngineType, NEW actor \in Role, NEW action \in Action,
         ActionLegal(e, actor, action)
  PROVE  /\ ApplyAction(e, actor, action) \in EngineType
         /\ ApplyAction(e, actor, action).next_actor = Rival(actor)
<1>1. e.outcome = "ongoing" /\ e.next_actor = actor
  BY DEF ActionLegal, RequireTurn
<1>2. CASE action.type = "barrier"
  <2>1. action.cell \in Cell /\ actor = "police"
    BY <1>2 DEF Action, MoveAction, BarrierAction, ActionLegal
  <2>2. ApplyAction(e, actor, action) = AfterBarrier(e, action.cell)
    BY <1>2 DEF ApplyAction
  <2> QED BY <2>1, <2>2, AfterBarrierFacts DEF Rival
<1>3. CASE action.type # "barrier"
  <2>1. /\ action.move \in Move
        /\ MoveLegal(e.barriers, e.positions[actor], action.move)
    BY <1>3 DEF Action, MoveAction, BarrierAction, ActionLegal
  <2>2. CASE actor = "police"
    <3>1. ApplyAction(e, actor, action) = AfterPoliceMove(e, action.move)
      BY <1>3, <2>2 DEF ApplyAction
    <3> QED BY <2>1, <2>2, <3>1, AfterPoliceMoveFacts DEF Rival
  <2>3. CASE actor = "thief"
    <3>1. ApplyAction(e, actor, action) = AfterThiefMove(e, action.move)
      BY <1>3, <2>3 DEF ApplyAction
    <3> QED BY <1>1, <2>1, <2>3, <3>1, AfterThiefMoveFacts DEF Rival
  <2> QED BY <2>2, <2>3 DEF Role
<1> QED BY <1>2, <1>3

-----------------------------------------------------------------------------
(* Roles, actions and cells *)

\* There are two roles, each the other's rival.
LEMMA RivalFacts ==
  ASSUME NEW p \in Role
  PROVE  /\ Rival(p) \in Role /\ Rival(p) # p /\ Rival(Rival(p)) = p
         /\ \A q \in Role : q = p \/ q = Rival(p)
BY DEF Role, Rival

\* The two roles by name.
LEMMA Names == /\ "police" \in Role /\ "thief" \in Role /\ "police" # "thief"
               /\ Rival("police") = "thief" /\ Rival("thief") = "police"
               /\ \A p \in Role : p = "police" \/ p = "thief"
BY DEF Role, Rival

\* An action is a move or a barrier.
LEMMA ActionFacts ==
  ASSUME NEW a \in Action
  PROVE  \/ a.type = "move" /\ a.move \in Move
         \/ a.type = "barrier" /\ a.cell \in Cell
BY DEF Action, MoveAction, BarrierAction

\* STAY is an action, and a move.
LEMMA StayFacts ==
  /\ MoveAction("STAY") \in Action /\ MoveAction("STAY").type = "move"
  /\ MoveAction("STAY").type # "barrier"
BY DEF Action, MoveAction, Move

\* The cells of the board are in bounds.
LEMMA CellInBounds ==
  ASSUME NEW c \in Cell
  PROVE  InBounds(c)
<1>1. PICK x \in 0 .. GridSize - 1, y \in 0 .. GridSize - 1 : c = <<x, y>>
  BY DEF Cell
<1> QED BY <1>1, PhysicsAssumption DEF InBounds

\* A wall adds at most one to the count.
LEMMA OneMoreWall ==
  ASSUME NEW S \in SUBSET Cell, NEW c \in Cell
  PROVE  /\ Cardinality(S) \in Nat /\ Cardinality(S \cup {c}) \in Nat
         /\ Cardinality(S \cup {c}) <= Cardinality(S) + 1
<1>1. IsFiniteSet(Cell)
  <2>1. IsFiniteSet(0 .. GridSize - 1)
    BY PhysicsAssumption, FS_Interval
  <2> QED BY <2>1, FS_Product DEF Cell
<1>2. IsFiniteSet(S)
  BY <1>1, FS_Subset
<1>3. /\ IsFiniteSet(S \cup {c})
      /\ Cardinality(S \cup {c}) = IF c \in S THEN Cardinality(S) ELSE Cardinality(S) + 1
  BY <1>2, FS_AddElement
<1>4. Cardinality(S) \in Nat
  BY <1>2, FS_CardinalityType
<1> QED BY <1>3, <1>4

-----------------------------------------------------------------------------
(* What an inbox or a log holds *)

\* What a sequence holds after Append and Tail.
LEMMA RangeFacts ==
  ASSUME NEW S, NEW s \in Seq(S)
  PROVE  /\ \A e \in S : Append(s, e) \in Seq(S) /\ Range(Append(s, e)) = Range(s) \cup {e}
         /\ s # << >> => /\ Tail(s) \in Seq(S) /\ Head(s) \in S
                         /\ Range(Tail(s)) \subseteq Range(s) /\ Head(s) \in Range(s)
         /\ Range(s) \subseteq S
<1>1. DOMAIN s = 1 .. Len(s) /\ Len(s) \in Nat /\ \A i \in 1 .. Len(s) : s[i] \in S
  BY LenProperties, ElementOfSeq
<1>2. ASSUME NEW e \in S
      PROVE  Append(s, e) \in Seq(S) /\ Range(Append(s, e)) = Range(s) \cup {e}
  <2>1. PICK b : /\ b = Append(s, e) /\ b \in Seq(S) /\ Len(b) = Len(s) + 1
                 /\ \A i \in 1 .. Len(s) : b[i] = s[i]
                 /\ b[Len(s) + 1] = e
    BY AppendProperties
  <2>2. DOMAIN b = 1 .. Len(s) + 1
    BY <2>1, LenProperties
  <2>3. \A x : x \in Range(b) <=> x \in Range(s) \cup {e}
    <3>1. \A i \in 1 .. Len(s) + 1 : i = Len(s) + 1 \/ i \in 1 .. Len(s)
      BY <1>1
    <3>2. Len(s) + 1 \in 1 .. Len(s) + 1 /\ \A i \in 1 .. Len(s) : i \in 1 .. Len(s) + 1
      BY <1>1
    <3> QED BY <1>1, <2>1, <2>2, <3>1, <3>2 DEF Range
  <2> QED BY <2>1, <2>3
<1>3. ASSUME s # << >>
      PROVE  /\ Tail(s) \in Seq(S) /\ Head(s) \in S
             /\ Range(Tail(s)) \subseteq Range(s) /\ Head(s) \in Range(s)
  <2>1. PICK t : /\ t = Tail(s) /\ t \in Seq(S) /\ Head(s) \in S /\ Len(t) = Len(s) - 1
                 /\ \A i \in 1 .. Len(t) : t[i] = s[i + 1]
    BY <1>3, HeadTailProperties
  <2>2. DOMAIN t = 1 .. Len(t)
    BY <2>1, LenProperties
  <2>3. Len(s) # 0
    BY <1>1, <1>3, EmptySeq
  <2>4. Head(s) = s[1] /\ 1 \in 1 .. Len(s)
    BY <1>1, <2>3
  <2>5. \A i \in 1 .. Len(t) : i + 1 \in 1 .. Len(s)
    BY <1>1, <2>1
  <2> QED BY <1>1, <2>1, <2>2, <2>4, <2>5 DEF Range
<1>4. Range(s) \subseteq S
  BY <1>1 DEF Range
<1> QED BY <1>2, <1>3, <1>4

\* What is not the head stays in the inbox.
LEMMA TailKeeps ==
  ASSUME NEW S, NEW s \in Seq(S), s # << >>, NEW x \in Range(s), x # Head(s)
  PROVE  x \in Range(Tail(s))
<1>1. DOMAIN s = 1 .. Len(s) /\ Len(s) \in Nat
  BY LenProperties
<1>2. PICK t : /\ t = Tail(s) /\ t \in Seq(S) /\ Len(t) = Len(s) - 1
               /\ \A i \in 1 .. Len(t) : t[i] = s[i + 1]
  BY HeadTailProperties
<1>3. DOMAIN t = 1 .. Len(t)
  BY <1>2, LenProperties
<1>4. PICK i \in 1 .. Len(s) : x = s[i]
  BY <1>1 DEF Range
<1>5. i # 1
  BY <1>4
<1>6. i - 1 \in 1 .. Len(t) /\ t[i - 1] = x
  BY <1>1, <1>2, <1>4, <1>5
<1> QED BY <1>2, <1>3, <1>6 DEF Range

-----------------------------------------------------------------------------
(* The half-turns of an alternating game *)

\* The half-turns of a game in order: the thief's first is number 1.
Mover(k) == IF k % 2 = 1 THEN "thief" ELSE "police"
Number(k) == (k + 1) \div 2
HalfTurn(r, i) == 2 * i - (IF r = "thief" THEN 1 ELSE 0)

\* Every number is one half-turn of one side.
LEMMA HalfTurnFacts ==
  /\ \A k \in Nat \ {0} : /\ Number(k) \in Nat \ {0} /\ Mover(k) \in Role
                          /\ HalfTurn(Mover(k), Number(k)) = k
  /\ \A r \in Role : \A i \in Nat \ {0} :
       /\ HalfTurn(r, i) \in Nat \ {0} /\ Mover(HalfTurn(r, i)) = r /\ Number(HalfTurn(r, i)) = i
<1>1. ASSUME NEW k \in Nat \ {0}
      PROVE  /\ Number(k) \in Nat \ {0} /\ Mover(k) \in Role
             /\ HalfTurn(Mover(k), Number(k)) = k
  <2>1. PICK m \in Nat : k = 2 * m \/ k = 2 * m + 1
    <3>1. (k \div 2) \in Nat /\ (k = 2 * (k \div 2) \/ k = 2 * (k \div 2) + 1)
      OBVIOUS
    <3> QED BY <3>1
  <2>2. CASE k = 2 * m
    <3>1. m \in Nat \ {0} /\ (k + 1) \div 2 = m /\ k % 2 = 0
      BY <2>1, <2>2
    <3> QED BY <2>2, <3>1 DEF Number, Mover, HalfTurn, Role
  <2>3. CASE k = 2 * m + 1
    <3>1. (k + 1) \div 2 = m + 1 /\ k % 2 = 1
      BY <2>1, <2>3
    <3> QED BY <2>3, <3>1 DEF Number, Mover, HalfTurn, Role
  <2> QED BY <2>1, <2>2, <2>3
<1>2. ASSUME NEW r \in Role, NEW i \in Nat \ {0}
      PROVE  HalfTurn(r, i) \in Nat \ {0} /\ Mover(HalfTurn(r, i)) = r /\ Number(HalfTurn(r, i)) = i
  <2>1. CASE r = "thief"
    <3>1. (2 * i - 1) % 2 = 1 /\ (2 * i - 1 + 1) \div 2 = i /\ 2 * i - 1 \in Nat \ {0}
      OBVIOUS
    <3> QED BY <2>1, <3>1 DEF Number, Mover, HalfTurn
  <2>2. CASE r = "police"
    <3>1. (2 * i) % 2 = 0 /\ (2 * i + 1) \div 2 = i /\ 2 * i \in Nat \ {0} /\ 2 * i - 0 = 2 * i
      OBVIOUS
    <3> QED BY <2>2, <3>1 DEF Number, Mover, HalfTurn
  <2> QED BY <2>1, <2>2 DEF Role
<1> QED BY <1>1, <1>2

\* How many records and messages a peer of an alternating game may have.
Fit(p, m, l) ==
  IF p = "thief" THEN l <= m /\ m <= l + 1 ELSE m <= l /\ l <= m + 1

\* They fill the first half-turns without a gap.
LEMMA HalfTurnRange ==
  ASSUME NEW p \in Role, NEW m \in Nat, NEW l \in Nat, Fit(p, m, l)
  PROVE  /\ \A i \in Nat \ {0} : HalfTurn(p, i) <= m + l <=> i <= m
         /\ \A i \in Nat \ {0} : HalfTurn(Rival(p), i) <= m + l <=> i <= l
<1>1. CASE p = "police"
  BY <1>1 DEF HalfTurn, Rival, Fit
<1>2. CASE p = "thief"
  BY <1>2 DEF HalfTurn, Rival, Fit
<1> QED BY <1>1, <1>2 DEF Role

\* The half-turns of such a game: each is one of the records or one message.
LEMMA HalfTurns ==
  ASSUME NEW p \in Role, NEW m \in Nat, NEW l \in Nat, Fit(p, m, l), NEW k \in 1 .. m + l
  PROVE  \/ Mover(k) = p /\ Number(k) \in 1 .. m
         \/ Mover(k) # p /\ Number(k) \in 1 .. l
<1>1. PICK i \in Nat \ {0}, r \in Role : i = Number(k) /\ r = Mover(k) /\ HalfTurn(r, i) = k
  <2>1. k \in Nat \ {0}
    OBVIOUS
  <2> QED BY <2>1, HalfTurnFacts
<1>2. HalfTurn(r, i) <= m + l
  BY <1>1
<1>3. CASE r = p
  <2>1. i <= m
    BY <1>2, <1>3, HalfTurnRange
  <2> QED BY <1>1, <1>3, <2>1
<1>4. CASE r # p
  <2>1. r = Rival(p)
    BY <1>4, RivalFacts
  <2>2. i <= l
    BY <1>2, <2>1, HalfTurnRange
  <2> QED BY <1>1, <1>4, <2>2
<1> QED BY <1>3, <1>4

\* The next half-turn is whose turn it is.
LEMMA NextHalfTurn ==
  ASSUME NEW p \in Role, NEW m \in Nat, NEW l \in Nat, Fit(p, m, l)
  PROVE  /\ Fit(p, m + 1, l) => Mover(m + l + 1) = p /\ Number(m + l + 1) = m + 1
         /\ Fit(p, m, l + 1) => Mover(m + l + 1) # p /\ Number(m + l + 1) = l + 1
<1>1. ASSUME Fit(p, m + 1, l)
      PROVE  Mover(m + l + 1) = p /\ Number(m + l + 1) = m + 1
  <2>1. HalfTurn(p, m + 1) = m + l + 1
    BY <1>1 DEF Fit, HalfTurn, Role
  <2>2. PICK i \in Nat \ {0} : i = m + 1
    OBVIOUS
  <2>3. Mover(HalfTurn(p, i)) = p /\ Number(HalfTurn(p, i)) = i
    BY HalfTurnFacts
  <2> QED BY <2>1, <2>2, <2>3
<1>2. ASSUME Fit(p, m, l + 1)
      PROVE  Mover(m + l + 1) # p /\ Number(m + l + 1) = l + 1
  <2>1. HalfTurn(Rival(p), l + 1) = m + l + 1
    BY <1>2 DEF Fit, HalfTurn, Role, Rival
  <2>2. PICK i \in Nat \ {0} : i = l + 1
    OBVIOUS
  <2>3. Rival(p) \in Role /\ Rival(p) # p
    BY RivalFacts
  <2>4. Mover(HalfTurn(Rival(p), i)) = Rival(p) /\ Number(HalfTurn(Rival(p), i)) = i
    BY <2>3, HalfTurnFacts
  <2> QED BY <2>1, <2>2, <2>3, <2>4
<1> QED BY <1>1, <1>2
=============================================================================
