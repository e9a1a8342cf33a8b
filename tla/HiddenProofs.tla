---------------------------- MODULE HiddenProofs ----------------------------
(***************************************************************************)
(* Proofs about HiddenGame, for every board, quota, step limit, number of  *)
(* crashes, lapses and late copies.                                        *)
(*                                                                         *)
(* HInv is the inductive invariant. It speaks of what each peer has lived  *)
(* (Kept: its memory while it runs, its file while it is down), so that a  *)
(* crash outside a send and a restart change nothing it says. Order bounds *)
(* how far the two numberings drift apart; PoliceSide and ThiefSide tie    *)
(* the turn token, the clock and the newest message to them; Walls and     *)
(* Claims relate the two peers; Posted says which copies may still arrive. *)
(*                                                                         *)
(* FInv adds what holds while no deadline lapsed on a live or a crashed    *)
(* rival and at most one peer crashed: no message is lost (Underway).      *)
(*                                                                         *)
(* TInv adds what an audit reads: the records of both sides tell one game  *)
(* (Past), an outcome says who said the last word (Ends), and what is      *)
(* disclosed is the whole record of a side that has ended (Disclosed).     *)
(*                                                                         *)
(* RInv adds what a replay finds while every landing is claimed: the       *)
(* entries of both sides sort into one alternating game (Merged), and each *)
(* peer's replay of them, with the half-turn under way to it, is the game  *)
(* the two have lived (Joint), judged as they judged it live.              *)
(*                                                                         *)
(* A step is shown to keep the parts one action at a time: lemmas XTypes,  *)
(* XKeeps and XFine are about action X.                                    *)
(***************************************************************************)
EXTENDS HiddenGame, PhysicsProofs

-----------------------------------------------------------------------------
(* Domains *)

PC == {"loop", "sending", "sent", "await_audit", "failed", "offering", "down", "done"}

OwnState ==
  [cell : Cell, barriers : SUBSET Cell, turns_completed : Nat, outcome : Outcome,
   next_actor : Role]

SealedRec == [payload : [step : Nat, role : Role, action : Action], nonce : Nat]

Place == {None} \cup [cell : Cell]

Response == {None} \cup [claim : Cell, caught : BOOLEAN]

Msg ==
  [step : Nat, sender : Role, commit : SealedRec, barrier_placed : Place,
   capture_claim : Place, claim_response : Response, win_claim : BOOLEAN]

HeardRec == [commit : SealedRec, barrier_placed : Place, capture_claim : Place]

Snap ==
  [cell : Cell, barriers : SUBSET Cell, turns_completed : Nat, next_actor : Role,
   records : Seq(SealedRec), their : Seq(HeardRec), consumed : SUBSET Nat,
   response : Response, last_sent : {None} \cup Msg]

TypesOfPeers ==
  /\ pc \in [Role -> PC]
  /\ own \in [Role -> OwnState]
  /\ draft \in [Role -> Outcome]
  /\ response \in [Role -> Response]
  /\ records \in [Role -> Seq(SealedRec)]
  /\ their \in [Role -> Seq(HeardRec)]
  /\ consumed \in [Role -> SUBSET Nat]
  /\ last_sent \in [Role -> {None} \cup Msg]
  /\ snapshot \in [Role -> {None} \cup Snap]

TypesOfWire ==
  /\ turns \in [Role -> Seq(Msg)]
  /\ late \in SUBSET Msg
  /\ incarnation \in [Role -> Nat]
  /\ torn \in BOOLEAN

\* What is being sent is there to be sent.
Outgoing == \A p \in Role : pc[p] \in {"sending", "sent"} => last_sent[p] # None

Types == TypesOfPeers /\ TypesOfWire /\ Outgoing

-----------------------------------------------------------------------------
(* What a peer has lived, whether it is in memory or on file *)

Memory(p) ==
  BuildSnapshot(own[p], records[p], their[p], consumed[p], response[p], last_sent[p])

Fresh(p) == BuildSnapshot(NewOwn(p), << >>, << >>, {}, None, None)

Kept(p) == IF pc[p] = "down" /\ snapshot[p] # None THEN snapshot[p] ELSE Memory(p)

Made(p) == Len(Kept(p).records)
Heard(p) == Len(Kept(p).their)
Latest(p) == Kept(p).last_sent

\* The game goes on for p, and no message that ends it is being sent.
Playing(p) == own[p].outcome = "ongoing" /\ draft[p] = "ongoing"

Won(p) == own[p].outcome = "survival" \/ draft[p] = "survival"

Mail(p) == Range(turns[p]) \cup {m \in late : m.sender = Rival(p)}

Filed(p) == snapshot[p] = Memory(p) \/ (snapshot[p] = None /\ Memory(p) = Fresh(p))

\* A peer that may be killed without a loss has its memory on file.
Saved(p) ==
  /\ pc[p] \in {"down", "offering"} => Playing(p)
  /\ pc[p] = "loop" => draft[p] = "ongoing"
  /\ pc[p] \in {"sending", "sent"} => Ongoing(p)
  /\ pc[p] \in {"await_audit", "failed"} => ~Ongoing(p)
  /\ pc[p] = "offering" \/ (pc[p] = "loop" /\ Ongoing(p)) => Filed(p)
  /\ pc[p] = "down" /\ snapshot[p] = None => Memory(p) = Fresh(p)

\* The half-turns alternate, and the thief opens.
Order ==
  /\ Heard("thief") <= Made("police") /\ Made("police") <= Heard("police")
  /\ Heard("police") <= Made("thief") /\ Made("thief") <= Heard("thief") + 1

\* A peer's books.
Books(p) ==
  /\ Kept(p).consumed = 1 .. Heard(p)
  /\ Latest(p) = None <=> Made(p) = 0
  /\ Latest(p) # None => Latest(p).step = Made(p) /\ Latest(p).sender = p

PoliceSide ==
  /\ Kept("police").response = None
  /\ Latest("police") # None => Latest("police").claim_response = None /\ ~Latest("police").win_claim
  /\ draft["police"] = "ongoing"
  /\ Won("police") => Latest("thief") # None /\ Latest("thief").win_claim
  /\ Playing("police") =>
       /\ Kept("police").next_actor = IF Heard("police") = Made("police") THEN "thief" ELSE "police"
       /\ Kept("police").turns_completed = Heard("police")
       /\ Heard("police") = Made("thief") /\ Latest("thief") # None =>
            ~Caught(Latest("thief").claim_response) /\ ~Latest("thief").win_claim

Reached(n) == n >= SurvivalThreshold \/ n >= MaxMoves

ThiefSide ==
  /\ Won("thief") => Latest("thief") # None /\ Latest("thief").win_claim
  /\ Latest("thief") # None =>
       /\ Latest("thief").barrier_placed = None
       /\ ~Caught(Latest("thief").claim_response) =>
            (Latest("thief").win_claim <=> Reached(Made("thief")))
       /\ Latest("thief").win_claim =>
            /\ ~IAmCaptured(Kept("thief"))
            /\ Made("police") = Heard("thief")
  /\ Playing("thief") =>
       /\ Kept("thief").next_actor = IF Made("thief") = Heard("thief") THEN "thief" ELSE "police"
       /\ Kept("thief").turns_completed = Made("thief")
       /\ ~Caught(Kept("thief").response)
       /\ Latest("thief") # None =>
            ~Caught(Latest("thief").claim_response) /\ ~Latest("thief").win_claim

\* The two records of the public walls.
Walls ==
  IF Made("police") = Heard("thief") \/ Latest("police").barrier_placed = None
  THEN Kept("police").barriers = Kept("thief").barriers
  ELSE /\ Cardinality(Kept("thief").barriers) < MaxBarriers
       /\ Kept("police").barriers
            = Kept("thief").barriers \cup {Latest("police").barrier_placed.cell}

\* A claim the thief has heard is answered, or about to be.
Claims ==
  Latest("police") # None /\ Latest("police").capture_claim # None
    /\ Made("police") = Heard("thief") =>
    LET answer == IF Made("thief") = Heard("thief") THEN Kept("thief").response
                  ELSE Latest("thief").claim_response
    IN  answer # None /\ (answer.caught \/ answer.claim = Latest("police").capture_claim.cell)

\* What is under way was sent, and only the newest of it counts.
Genuine(p, m) ==
  /\ m.step \in 1 .. Made(p) /\ m.sender = p
  /\ m.step = Made(p) \/ Caught(m.claim_response) => m = Latest(p)

Posted == \A p \in Role : \A m \in Mail(p) : Genuine(Rival(p), m)

Untorn ==
  /\ \A p \in Role : Saved(p) /\ Books(p)
  /\ Order /\ PoliceSide /\ ThiefSide /\ Walls /\ Claims /\ Posted

HInv == Types /\ (~torn => Untorn)

-----------------------------------------------------------------------------
(* What the operators return *)

\* None is no message, no file, no place and no answer.
LEMMA NoneFacts ==
  /\ None \notin Msg /\ None \notin Snap /\ None \notin [cell : Cell]
  /\ None \notin [claim : Cell, caught : BOOLEAN]
BY DEF None, Msg, Snap

LEMMA PlaceFacts ==
  ASSUME NEW w \in Place, w # None
  PROVE  w \in [cell : Cell] /\ w.cell \in Cell
BY DEF Place

LEMMA ClaimFacts ==
  ASSUME NEW c \in Cell
  PROVE  Claim(c) \in Place /\ Claim(c) # None /\ Claim(c).cell = c
<1>1. Claim(c) \in [cell : Cell] /\ Claim(c).cell = c
  BY DEF Claim
<1> QED BY <1>1, NoneFacts DEF Place

LEMMA NonePlace == None \in Place /\ None \in Response /\ ~Caught(None)
BY DEF Place, Response, Caught

LEMMA ResponseFacts ==
  ASSUME NEW c \in Cell, NEW b \in BOOLEAN
  PROVE  /\ [claim |-> c, caught |-> b] \in Response
         /\ [claim |-> c, caught |-> b] # None
<1>1. [claim |-> c, caught |-> b] \in [claim : Cell, caught : BOOLEAN]
  OBVIOUS
<1> QED BY <1>1, NoneFacts DEF Response

\* What an action of one's own makes of one's state.
LEMMA OwnActionFacts ==
  ASSUME NEW p \in Role, NEW s \in OwnState, NEW a \in Action, OwnActionLegal(s, p, a)
  PROVE  /\ ApplyOwnAction(s, p, a) \in OwnState
         /\ ApplyOwnAction(s, p, a).next_actor = Rival(p)
         /\ ApplyOwnAction(s, p, a).turns_completed = s.turns_completed
         /\ ApplyOwnAction(s, p, a).outcome = s.outcome
         /\ s.next_actor = p
         /\ \/ /\ a.type = "move"
               /\ ApplyOwnAction(s, p, a).barriers = s.barriers
            \/ /\ a.type = "barrier" /\ p = "police" /\ a.cell \in Cell
               /\ Cardinality(s.barriers) < MaxBarriers
               /\ ApplyOwnAction(s, p, a).barriers = s.barriers \cup {a.cell}
<1>1. /\ s.cell \in Cell /\ s.barriers \in SUBSET Cell /\ Rival(p) \in Role
      /\ s.next_actor = p
  BY RivalFacts DEF OwnState, OwnActionLegal
<1>2. CASE a.type = "move"
  <2>1. a.move \in Move /\ a.type # "barrier"
    BY <1>2, ActionFacts
  <2>2. MoveLegal(s.barriers, s.cell, a.move)
    BY <2>1 DEF OwnActionLegal
  <2>3. AppliedTo(a.move, s.cell) \in Cell
    BY <1>1, <2>1, <2>2, LegalMoveLands
  <2>4. ApplyOwnAction(s, p, a)
          = [s EXCEPT !.cell = AppliedTo(a.move, s.cell), !.next_actor = Rival(p)]
    BY <2>1 DEF ApplyOwnAction
  <2> QED BY <1>1, <1>2, <2>3, <2>4 DEF OwnState
<1>3. CASE a.type = "barrier"
  <2>1. a.cell \in Cell
    BY <1>3, ActionFacts
  <2>2. p = "police" /\ BarrierLegal(s.barriers, s.cell, a.cell)
    BY <1>3 DEF OwnActionLegal
  <2>3. PICK b \in SUBSET Cell : b = s.barriers \cup {a.cell}
    BY <1>1, <2>1
  <2>4. ApplyOwnAction(s, p, a) = [s EXCEPT !.barriers = b, !.next_actor = Rival(p)]
    BY <1>3, <2>3 DEF ApplyOwnAction
  <2>5. Cardinality(s.barriers) < MaxBarriers
    BY <2>2 DEF BarrierLegal
  <2>6. /\ ApplyOwnAction(s, p, a) \in OwnState
        /\ ApplyOwnAction(s, p, a).next_actor = Rival(p)
        /\ ApplyOwnAction(s, p, a).turns_completed = s.turns_completed
        /\ ApplyOwnAction(s, p, a).outcome = s.outcome
        /\ ApplyOwnAction(s, p, a).barriers = b
    BY <1>1, <2>4 DEF OwnState
  <2> QED BY <1>1, <1>3, <2>1, <2>2, <2>3, <2>5, <2>6
<1> QED BY <1>2, <1>3, ActionFacts

LEMMA TickedFacts ==
  ASSUME NEW s \in OwnState
  PROVE  /\ TickedClock(s) \in OwnState
         /\ TickedClock(s).turns_completed = s.turns_completed + 1
         /\ TickedClock(s).cell = s.cell /\ TickedClock(s).barriers = s.barriers
         /\ TickedClock(s).next_actor = s.next_actor /\ TickedClock(s).outcome = s.outcome
BY DEF TickedClock, OwnState

\* What a message of the rival makes of one's state.
LEMMA NotedFacts ==
  ASSUME NEW p \in Role, NEW m \in Msg, own[p] \in OwnState,
         WallAccepted(own[p], m.barrier_placed)
  PROVE  /\ Noted(p, m) \in OwnState
         /\ Noted(p, m).cell = own[p].cell /\ Noted(p, m).next_actor = p
         /\ Noted(p, m).outcome = own[p].outcome
         /\ Noted(p, m).turns_completed
              = own[p].turns_completed + (IF p = "police" /\ ~Caught(m.claim_response) THEN 1 ELSE 0)
         /\ Noted(p, m).barriers
              = own[p].barriers \cup (IF m.barrier_placed = None THEN {} ELSE {m.barrier_placed.cell})
<1> DEFINE w == m.barrier_placed
           noted == NoteRivalHalfTurn(p, NoteRivalBarrier(own[p], w))
<1>1. w = None \/ w.cell \in Cell
  BY PlaceFacts DEF Msg
<1>2. /\ noted \in OwnState /\ noted.cell = own[p].cell /\ noted.next_actor = p
      /\ noted.outcome = own[p].outcome /\ noted.turns_completed = own[p].turns_completed
      /\ noted.barriers = own[p].barriers \cup (IF w = None THEN {} ELSE {w.cell})
  <2>1. CASE w = None
    <3>1. noted = [own[p] EXCEPT !.next_actor = p]
      BY <2>1 DEF NoteRivalBarrier, NoteRivalHalfTurn
    <3> QED BY <2>1, <3>1 DEF OwnState
  <2>2. CASE w # None
    <3>1. PICK x \in Cell : x = w.cell
      BY <1>1, <2>2
    <3>2. noted = [[own[p] EXCEPT !.barriers = own[p].barriers \cup {x}] EXCEPT !.next_actor = p]
      BY <2>2, <3>1 DEF NoteRivalBarrier, NoteRivalHalfTurn
    <3> HIDE DEF noted
    <3> QED BY <2>2, <3>1, <3>2 DEF OwnState
  <2> QED BY <2>1, <2>2
<1>3. Noted(p, m) = IF p = "police" /\ ~Caught(m.claim_response) THEN TickedClock(noted) ELSE noted
  BY DEF Noted
<1> HIDE DEF noted, w
<1>4. noted.turns_completed \in Nat
  BY <1>2 DEF OwnState
<1> QED BY <1>2, <1>3, <1>4, TickedFacts DEF w

-----------------------------------------------------------------------------
(* What each step leaves of the types *)

-----------------------------------------------------------------------------
(* The types are kept *)

LEMMA SealedFacts ==
  ASSUME Types, NEW p \in Role, NEW a \in Action
  PROVE  /\ SealedStep(p, a) \in SealedRec
         /\ SealedStep(p, a).payload.step = Len(records[p]) + 1
         /\ SealedStep(p, a).payload.role = p
         /\ SealedStep(p, a).payload.action = a
<1>1. Len(records[p]) + 1 \in Nat /\ incarnation[p] \in Nat
  BY LenProperties DEF Types, TypesOfPeers, TypesOfWire
<1> QED BY <1>1 DEF SealedStep, SealedRec

LEMMA MessageFacts ==
  ASSUME Types, NEW p \in Role, NEW a \in Action, NEW claim \in Place,
         NEW answer \in Response, NEW win \in BOOLEAN
  PROVE  LET m == TurnMessage(SealedStep(p, a), claim, answer, win) IN
         /\ m \in Msg /\ m # None
         /\ m.step = Len(records[p]) + 1 /\ m.sender = p
         /\ m.capture_claim = claim /\ m.claim_response = answer /\ m.win_claim = win
         /\ a.type # "barrier" => m.barrier_placed = None
         /\ a.type = "barrier" => /\ m.barrier_placed # None
                                  /\ m.barrier_placed.cell = a.cell
<1>1. PICK x \in SealedRec :
         /\ x = SealedStep(p, a)
         /\ x.payload.step = Len(records[p]) + 1 /\ x.payload.role = p
         /\ x.payload.action = a
  BY SealedFacts
<1>2. PICK w \in Place :
         /\ w = IF a.type = "barrier" THEN Claim(a.cell) ELSE None
         /\ a.type # "barrier" => w = None
         /\ a.type = "barrier" => w # None /\ w.cell = a.cell
  <2>1. CASE a.type = "barrier"
    <3>1. a.cell \in Cell
      BY <2>1, ActionFacts
    <3> QED BY <2>1, <3>1, ClaimFacts
  <2>2. CASE a.type # "barrier"
    BY <2>2, NonePlace
  <2> QED BY <2>1, <2>2
<1>3. x.payload.step \in Nat
  BY DEF SealedRec
<1>4. TurnMessage(x, claim, answer, win)
        = [step |-> x.payload.step, sender |-> p, commit |-> x, barrier_placed |-> w,
           capture_claim |-> claim, claim_response |-> answer, win_claim |-> win]
  BY <1>1, <1>2 DEF TurnMessage
<1>5. TurnMessage(x, claim, answer, win) \in Msg
  BY <1>3, <1>4 DEF Msg
<1> QED BY <1>1, <1>2, <1>4, <1>5, NoneFacts

LEMMA SealTypes ==
  ASSUME Types, NEW p \in Role, NEW s \in OwnState, NEW a \in Action, NEW claim \in Place,
         NEW answer \in Response, NEW win \in BOOLEAN, NEW ends \in Outcome,
         Seal(p, s, a, claim, answer, win, ends)
  PROVE  /\ pc' \in [Role -> PC] /\ own' \in [Role -> OwnState] /\ draft' \in [Role -> Outcome]
         /\ response' \in [Role -> Response] /\ records' \in [Role -> Seq(SealedRec)]
         /\ last_sent' \in [Role -> {None} \cup Msg]
         /\ Outgoing'
<1>1. PICK x \in SealedRec : x = SealedStep(p, a)
  BY SealedFacts
<1>2. PICK m \in Msg : m = TurnMessage(x, claim, answer, win) /\ m # None
  BY <1>1, MessageFacts
<1>3. /\ own' = [own EXCEPT ![p] = s]
      /\ records' = [records EXCEPT ![p] = Append(records[p], x)]
      /\ last_sent' = [last_sent EXCEPT ![p] = m]
      /\ response' = [response EXCEPT ![p] = None]
      /\ draft' = [draft EXCEPT ![p] = ends]
      /\ pc' = [pc EXCEPT ![p] = "sending"]
  BY <1>1, <1>2 DEF Seal
<1>4. Append(records[p], x) \in Seq(SealedRec)
  BY RangeFacts DEF Types, TypesOfPeers
<1>5. pc' \in [Role -> PC] /\ own' \in [Role -> OwnState] /\ draft' \in [Role -> Outcome]
  BY <1>3 DEF Types, TypesOfPeers, PC
<1>6. response' \in [Role -> Response] /\ records' \in [Role -> Seq(SealedRec)]
  BY <1>3, <1>4, NonePlace DEF Types, TypesOfPeers
<1>7. last_sent' \in [Role -> {None} \cup Msg]
  BY <1>3 DEF Types, TypesOfPeers
<1>8. Outgoing'
  BY <1>2, <1>3 DEF Types, TypesOfPeers, Outgoing
<1> QED BY <1>5, <1>6, <1>7, <1>8

LEMMA WireKept ==
  ASSUME Types, UNCHANGED <<turns, late, incarnation, torn>>
  PROVE  TypesOfWire'
BY DEF Types, TypesOfWire

LEMMA CaptureClaimFacts ==
  ASSUME NEW p \in Role, NEW s \in OwnState, NEW a \in Action,
         NEW claim \in CaptureClaims(s, p, a)
  PROVE  claim \in Place
<1>1. s.cell \in Cell
  BY DEF OwnState
<1> QED BY <1>1, ClaimFacts, NonePlace DEF CaptureClaims

LEMMA ConcedeFacts ==
  ASSUME NEW s \in OwnState
  PROVE  ConcedeDeclaration(s) \in Response /\ Caught(ConcedeDeclaration(s))
<1>1. s.cell \in Cell
  BY DEF OwnState
<1>2. ConcedeDeclaration(s).caught
  BY DEF ConcedeDeclaration
<1> QED BY <1>1, <1>2, ResponseFacts DEF ConcedeDeclaration, Caught

LEMMA DecidePoliceTypes ==
  ASSUME Types, NEW p \in Role, DecidePolice(p)
  PROVE  Types'
<1>1. PICK a \in Choice : \E c \in CaptureClaims(ApplyOwnAction(own[p], p, a), p, a) :
         /\ OwnActionLegal(own[p], p, a)
         /\ Seal(p, ApplyOwnAction(own[p], p, a), a, c, response[p], FALSE, "ongoing")
  BY DEF DecidePolice
<1>2. PICK c \in CaptureClaims(ApplyOwnAction(own[p], p, a), p, a) :
         /\ OwnActionLegal(own[p], p, a)
         /\ Seal(p, ApplyOwnAction(own[p], p, a), a, c, response[p], FALSE, "ongoing")
  BY <1>1
<1>3. a \in Action
  BY HiddenAssumption
<1>4. own[p] \in OwnState /\ response[p] \in Response
  BY DEF Types, TypesOfPeers
<1>5. ApplyOwnAction(own[p], p, a) \in OwnState
  BY <1>2, <1>3, <1>4, OwnActionFacts
<1>6. c \in Place
  BY <1>2, <1>3, <1>5, CaptureClaimFacts
<1>7. "ongoing" \in Outcome
  BY DEF Outcome
<1>8. UNCHANGED <<their, consumed, snapshot>> /\ UNCHANGED <<turns, late, incarnation, torn>>
  BY DEF DecidePolice, boxes
<1>9. /\ pc' \in [Role -> PC] /\ own' \in [Role -> OwnState] /\ draft' \in [Role -> Outcome]
      /\ response' \in [Role -> Response] /\ records' \in [Role -> Seq(SealedRec)]
      /\ last_sent' \in [Role -> {None} \cup Msg]
      /\ Outgoing'
  BY <1>2, <1>3, <1>4, <1>5, <1>6, <1>7, SealTypes
<1>10. TypesOfPeers'
  BY <1>8, <1>9 DEF Types, TypesOfPeers
<1> QED BY <1>8, <1>9, <1>10, WireKept DEF Types

\* What the thief decides: a concession, or a step with the clock ticked.
LEMMA ThiefDecision ==
  ASSUME Types, DecideThief("thief")
  PROVE  \E a \in Action, moved \in OwnState :
           /\ moved = ApplyOwnAction(own["thief"], "thief", a)
           /\ OwnActionLegal(own["thief"], "thief", a)
           /\ a.type # "barrier"
           /\ moved.barriers = own["thief"].barriers
           /\ moved.next_actor = "police" /\ moved.outcome = own["thief"].outcome
           /\ moved.turns_completed = own["thief"].turns_completed
           /\ \/ /\ IAmCaptured(moved)
                 /\ Seal("thief", moved, a, None, ConcedeDeclaration(moved), FALSE, "capture")
              \/ /\ ~IAmCaptured(moved)
                 /\ Seal("thief", TickedClock(moved), a, None, response["thief"],
                         SurvivalReached(TickedClock(moved)),
                         IF SurvivalReached(TickedClock(moved)) THEN "survival" ELSE "ongoing")
<1>1. PICK a \in Choice :
         LET moved == ApplyOwnAction(own["thief"], "thief", a)
             ticked == TickedClock(moved)
             win == SurvivalReached(ticked)
         IN /\ OwnActionLegal(own["thief"], "thief", a)
            /\ IF IAmCaptured(moved)
               THEN Seal("thief", moved, a, None, ConcedeDeclaration(moved), FALSE, "capture")
               ELSE Seal("thief", ticked, a, None, response["thief"], win,
                         IF win THEN "survival" ELSE "ongoing")
  BY DEF DecideThief
<1>2. a \in Action /\ "thief" \in Role /\ Rival("thief") = "police" /\ "thief" # "police"
  BY HiddenAssumption DEF Role, Rival
<1>3. own["thief"] \in OwnState
  BY <1>2 DEF Types, TypesOfPeers
<1>4. PICK moved \in OwnState :
        /\ moved = ApplyOwnAction(own["thief"], "thief", a)
        /\ moved.next_actor = "police" /\ moved.outcome = own["thief"].outcome
        /\ moved.turns_completed = own["thief"].turns_completed
        /\ a.type = "move" /\ moved.barriers = own["thief"].barriers
  BY <1>1, <1>2, <1>3, OwnActionFacts
<1>5. a.type # "barrier"
  BY <1>4
<1>6. \/ /\ IAmCaptured(moved)
         /\ Seal("thief", moved, a, None, ConcedeDeclaration(moved), FALSE, "capture")
      \/ /\ ~IAmCaptured(moved)
         /\ Seal("thief", TickedClock(moved), a, None, response["thief"],
                 SurvivalReached(TickedClock(moved)),
                 IF SurvivalReached(TickedClock(moved)) THEN "survival" ELSE "ongoing")
  BY <1>1, <1>4
<1> QED BY <1>1, <1>2, <1>4, <1>5, <1>6

LEMMA DecideThiefTypes ==
  ASSUME Types, NEW p \in Role, DecideThief(p)
  PROVE  Types'
<1>0. p = "thief"
  BY DEF DecideThief
<1>1. PICK a \in Action, moved \in OwnState :
           \/ /\ IAmCaptured(moved)
              /\ Seal("thief", moved, a, None, ConcedeDeclaration(moved), FALSE, "capture")
           \/ /\ ~IAmCaptured(moved)
              /\ Seal("thief", TickedClock(moved), a, None, response["thief"],
                      SurvivalReached(TickedClock(moved)),
                      IF SurvivalReached(TickedClock(moved)) THEN "survival" ELSE "ongoing")
  BY <1>0, ThiefDecision
<1>2. /\ "thief" \in Role /\ response["thief"] \in Response
      /\ "capture" \in Outcome /\ "survival" \in Outcome /\ "ongoing" \in Outcome
  BY DEF Types, TypesOfPeers, Role, Outcome
<1>3. TickedClock(moved) \in OwnState /\ SurvivalReached(TickedClock(moved)) \in BOOLEAN
  BY TickedFacts DEF SurvivalReached
<1>4. ConcedeDeclaration(moved) \in Response
  BY ConcedeFacts
<1>5. /\ pc' \in [Role -> PC] /\ own' \in [Role -> OwnState] /\ draft' \in [Role -> Outcome]
      /\ response' \in [Role -> Response] /\ records' \in [Role -> Seq(SealedRec)]
      /\ last_sent' \in [Role -> {None} \cup Msg]
      /\ Outgoing'
  <2>1. CASE IAmCaptured(moved)
    BY <1>1, <1>2, <1>4, <2>1, NonePlace, SealTypes
  <2>2. CASE ~IAmCaptured(moved)
    BY <1>1, <1>2, <1>3, <2>2, NonePlace, SealTypes
  <2> QED BY <2>1, <2>2
<1>6. UNCHANGED <<their, consumed, snapshot>> /\ UNCHANGED <<turns, late, incarnation, torn>>
  BY DEF DecideThief, boxes, budgets
<1>7. TypesOfPeers'
  BY <1>5, <1>6 DEF Types, TypesOfPeers
<1> QED BY <1>5, <1>6, <1>7, WireKept DEF Types

\* What a send does to the wire.
LEMMA SendEffect ==
  ASSUME Types, NEW p \in Role, NEW m \in Msg, SendTurn(p, m)
  PROVE  /\ turns' \in [Role -> Seq(Msg)] /\ late' \in SUBSET Msg
         /\ turns'[p] = turns[p]
         /\ Range(turns'[Rival(p)]) \subseteq Range(turns[Rival(p)]) \cup {m}
         /\ late' \subseteq late \cup {m}
<1>1. Rival(p) \in Role /\ Rival(p) # p
  BY RivalFacts
<1>2. turns[Rival(p)] \in Seq(Msg)
  BY <1>1 DEF Types, TypesOfWire
<1>3. PICK s \in Seq(Msg) : s = Append(turns[Rival(p)], m) /\ Range(s) = Range(turns[Rival(p)]) \cup {m}
  BY <1>2, RangeFacts
<1>4. turns' = turns \/ turns' = [turns EXCEPT ![Rival(p)] = s]
  BY <1>3 DEF SendTurn, Delivered
<1>5. late' \subseteq late \cup {m}
  BY DEF SendTurn
<1>6. late' \in SUBSET Msg
  BY <1>5 DEF Types, TypesOfWire
<1>7. turns \in [Role -> Seq(Msg)]
  BY DEF Types, TypesOfWire
<1> QED BY <1>1, <1>3, <1>4, <1>5, <1>6, <1>7

LEMMA SendTypes ==
  ASSUME Types, NEW p \in Role, Send(p)
  PROVE  Types'
<1>1. pc[p] = "sending" /\ last_sent[p] \in Msg
  BY DEF Send, Types, TypesOfPeers, Outgoing
<1>2. turns' \in [Role -> Seq(Msg)] /\ late' \in SUBSET Msg
  BY <1>1, SendEffect DEF Send
<1>3. pc' = [pc EXCEPT ![p] = "sent"] /\ UNCHANGED <<memory, snapshot, incarnation, torn>>
  BY DEF Send
<1>4. TypesOfPeers'
  BY <1>3 DEF Types, TypesOfPeers, memory, log, PC
<1>5. TypesOfWire'
  BY <1>2, <1>3 DEF Types, TypesOfWire
<1>6. Outgoing'
  BY <1>1, <1>3 DEF Types, TypesOfPeers, Outgoing, memory, log
<1> QED BY <1>4, <1>5, <1>6 DEF Types

\* What taking a message does.
LEMMA TakeEffect ==
  ASSUME Types, NEW p \in Role, HasMessage(p)
  PROVE  /\ Message(p) \in Msg /\ Message(p) \in Range(turns[p])
         /\ Tail(turns[p]) \in Seq(Msg) /\ Range(Tail(turns[p])) \subseteq Range(turns[p])
<1>1. turns[p] \in Seq(Msg) /\ turns[p] # << >>
  BY DEF HasMessage, Types, TypesOfWire
<1> QED BY <1>1, RangeFacts DEF Message

LEMMA TakeTypes ==
  ASSUME Types, NEW p \in Role, TakeTurn(p)
  PROVE  /\ Message(p) \in Msg /\ Message(p) \in Range(turns[p])
         /\ turns' \in [Role -> Seq(Msg)]
         /\ consumed' \in [Role -> SUBSET Nat] /\ their' \in [Role -> Seq(HeardRec)]
         /\ turns' = [turns EXCEPT ![p] = Tail(turns[p])]
         /\ Range(turns'[p]) \subseteq Range(turns[p])
         /\ consumed' = [consumed EXCEPT ![p] = consumed[p] \cup {Len(their[p]) + 1}]
         /\ \E h \in HeardRec : /\ their' = [their EXCEPT ![p] = Append(their[p], h)]
                                /\ h.commit = Message(p).commit
                                /\ h.barrier_placed = Message(p).barrier_placed
                                /\ h.capture_claim = Message(p).capture_claim
<1>1. PICK t \in Seq(Msg), m \in Msg :
        /\ t = Tail(turns[p]) /\ m = Message(p) /\ m \in Range(turns[p])
        /\ Range(t) \subseteq Range(turns[p])
  BY TakeEffect DEF TakeTurn
<1>2. turns' = [turns EXCEPT ![p] = t]
  BY <1>1 DEF TakeTurn
<1>3. Expected(p) = Len(their[p]) + 1 /\ Len(their[p]) \in Nat
  BY LenProperties DEF Expected, Types, TypesOfPeers
<1>4. consumed' = [consumed EXCEPT ![p] = consumed[p] \cup {Len(their[p]) + 1}]
  BY <1>3 DEF TakeTurn
<1>5. PICK h \in HeardRec :
        h = [commit |-> m.commit, barrier_placed |-> m.barrier_placed,
             capture_claim |-> m.capture_claim]
  <2>1. m.commit \in SealedRec /\ m.barrier_placed \in Place /\ m.capture_claim \in Place
    BY DEF Msg
  <2> QED BY <2>1 DEF HeardRec
<1>6. their' = [their EXCEPT ![p] = Append(their[p], h)]
  BY <1>1, <1>5 DEF TakeTurn
<1>7. Append(their[p], h) \in Seq(HeardRec)
  BY RangeFacts DEF Types, TypesOfPeers
<1>8. turns' \in [Role -> Seq(Msg)] /\ turns'[p] = t
  BY <1>2 DEF Types, TypesOfWire
<1>9. consumed' \in [Role -> SUBSET Nat]
  BY <1>3, <1>4 DEF Types, TypesOfPeers
<1>10. their' \in [Role -> Seq(HeardRec)]
  BY <1>6, <1>7 DEF Types, TypesOfPeers
<1>11. h.commit = m.commit /\ h.barrier_placed = m.barrier_placed
       /\ h.capture_claim = m.capture_claim
  BY <1>5
<1> QED BY <1>1, <1>2, <1>4, <1>6, <1>8, <1>9, <1>10, <1>11

LEMMA SnapFacts ==
  ASSUME NEW o \in OwnState, NEW r \in Seq(SealedRec), NEW t \in Seq(HeardRec),
         NEW c \in SUBSET Nat, NEW answer \in Response, NEW last \in {None} \cup Msg
  PROVE  BuildSnapshot(o, r, t, c, answer, last) \in Snap
BY DEF BuildSnapshot, Snap, OwnState

LEMMA CheckpointTypes ==
  ASSUME Types, NEW p \in Role, Checkpoint(p),
         own' \in [Role -> OwnState], records' \in [Role -> Seq(SealedRec)],
         their' \in [Role -> Seq(HeardRec)], consumed' \in [Role -> SUBSET Nat],
         response' \in [Role -> Response], last_sent' \in [Role -> {None} \cup Msg]
  PROVE  snapshot' \in [Role -> {None} \cup Snap]
<1>1. PICK x \in Snap :
         x = BuildSnapshot(own'[p], records'[p], their'[p], consumed'[p], response'[p],
                           last_sent'[p])
  BY SnapFacts
<1>2. snapshot' = [snapshot EXCEPT ![p] = x]
  BY <1>1 DEF Checkpoint
<1> QED BY <1>2 DEF Types, TypesOfPeers

LEMMA AfterSendTypes ==
  ASSUME Types, NEW p \in Role, AfterSend(p)
  PROVE  Types'
<1>1. /\ own' = [own EXCEPT ![p].outcome = draft[p]]
      /\ pc' = [pc EXCEPT ![p] = "loop"]
      /\ draft' = [draft EXCEPT ![p] = "ongoing"]
      /\ UNCHANGED <<response, records, their, consumed, last_sent>>
      /\ UNCHANGED <<turns, late, incarnation, torn>>
  BY DEF AfterSend, log, boxes, budgets
<1>2. own[p] \in OwnState /\ draft[p] \in Outcome
  BY DEF Types, TypesOfPeers
<1>3. own' \in [Role -> OwnState]
  <2>1. PICK o \in OwnState : o = [own[p] EXCEPT !.outcome = draft[p]]
    BY <1>2 DEF OwnState
  <2>2. own' = [own EXCEPT ![p] = o]
    BY <1>1, <2>1
  <2> QED BY <2>2 DEF Types, TypesOfPeers
<1>4. snapshot' \in [Role -> {None} \cup Snap]
  BY <1>1, <1>3, CheckpointTypes DEF AfterSend, Types, TypesOfPeers
<1>5. pc' \in [Role -> PC] /\ draft' \in [Role -> Outcome]
  BY <1>1 DEF Types, TypesOfPeers, PC, Outcome
<1>6. TypesOfPeers'
  BY <1>1, <1>3, <1>4, <1>5 DEF Types, TypesOfPeers
<1>7. Outgoing'
  BY <1>1 DEF Types, TypesOfPeers, Outgoing
<1> QED BY <1>1, <1>6, <1>7, WireKept DEF Types

\* A step that leaves the peers' memories and files alone.
LEMMA MemoryKept ==
  ASSUME Types, UNCHANGED <<memory, snapshot>>, pc' \in [Role -> PC],
         \A q \in Role : pc'[q] \in {"sending", "sent"} => pc[q] \in {"sending", "sent"}
  PROVE  TypesOfPeers' /\ Outgoing'
BY DEF Types, TypesOfPeers, Outgoing, memory, log

LEMMA ReceiveDuplicateTypes ==
  ASSUME Types, NEW p \in Role, ReceiveDuplicate(p)
  PROVE  Types'
<1>1. /\ UNCHANGED <<memory, snapshot>> /\ pc' = pc
      /\ late' = late /\ incarnation' = incarnation /\ torn' = torn
  BY DEF ReceiveDuplicate, budgets
<1>2. PICK t \in Seq(Msg) : t = Tail(turns[p])
  BY TakeEffect DEF ReceiveDuplicate
<1>3. turns' = [turns EXCEPT ![p] = t]
  BY <1>2 DEF ReceiveDuplicate
<1>4. TypesOfWire'
  BY <1>1, <1>3 DEF Types, TypesOfWire
<1>5. pc' \in [Role -> PC]
  BY <1>1 DEF Types, TypesOfPeers
<1> QED BY <1>1, <1>4, <1>5, MemoryKept DEF Types

\* An outcome is all a verdict changes.
LEMMA OutcomeFacts ==
  ASSUME NEW s \in OwnState, NEW e \in Outcome
  PROVE  \E o \in OwnState :
           /\ o = [s EXCEPT !.outcome = e]
           /\ o.cell = s.cell /\ o.barriers = s.barriers
           /\ o.turns_completed = s.turns_completed
           /\ o.next_actor = s.next_actor /\ o.outcome = e
<1>1. [s EXCEPT !.outcome = e] \in OwnState
  BY DEF OwnState
<1>2. PICK o \in OwnState : o = [s EXCEPT !.outcome = e]
  BY <1>1
<1>3. /\ o.cell = s.cell /\ o.barriers = s.barriers
      /\ o.turns_completed = s.turns_completed
      /\ o.next_actor = s.next_actor /\ o.outcome = e
  BY <1>2 DEF OwnState
<1> QED BY <1>2, <1>3

LEMMA FailTypes ==
  ASSUME Types, NEW p \in Role, NEW why, Fail(p, why)
  PROVE  /\ pc' \in [Role -> PC] /\ own' \in [Role -> OwnState]
         /\ pc' = [pc EXCEPT ![p] = "failed"]
         /\ \E o \in OwnState : own' = [own EXCEPT ![p] = o]
              /\ o.cell = own[p].cell /\ o.barriers = own[p].barriers
              /\ o.turns_completed = own[p].turns_completed
              /\ o.next_actor = own[p].next_actor /\ o.outcome = "technical_loss"
<1>1. own[p] \in OwnState
  BY DEF Types, TypesOfPeers
<1>2. PICK o \in OwnState :
        /\ o = [own[p] EXCEPT !.outcome = "technical_loss"]
        /\ o.cell = own[p].cell /\ o.barriers = own[p].barriers
        /\ o.turns_completed = own[p].turns_completed
        /\ o.next_actor = own[p].next_actor /\ o.outcome = "technical_loss"
  BY <1>1, OutcomeFacts DEF Outcome
<1>3. own' = [own EXCEPT ![p] = o] /\ pc' = [pc EXCEPT ![p] = "failed"]
  BY <1>2 DEF Fail
<1>4. pc' \in [Role -> PC] /\ own' \in [Role -> OwnState]
  BY <1>3 DEF Types, TypesOfPeers, PC
<1> QED BY <1>2, <1>3, <1>4

LEMMA RefuseTurnTypes ==
  ASSUME Types, NEW p \in Role, RefuseTurn(p)
  PROVE  Types'
<1>1. TakeTurn(p) /\ Fail(p, "breach")
      /\ UNCHANGED <<draft, response, records, last_sent, snapshot>>
  BY DEF RefuseTurn
<1>2. /\ turns' \in [Role -> Seq(Msg)]
      /\ consumed' \in [Role -> SUBSET Nat] /\ their' \in [Role -> Seq(HeardRec)]
  BY <1>1, TakeTypes
<1>3. pc' \in [Role -> PC] /\ own' \in [Role -> OwnState] /\ pc' = [pc EXCEPT ![p] = "failed"]
  BY <1>1, FailTypes
<1>4. late' = late /\ incarnation' = incarnation /\ torn' = torn
  BY <1>1 DEF TakeTurn, budgets
<1>5. TypesOfPeers'
  BY <1>1, <1>2, <1>3 DEF Types, TypesOfPeers
<1>6. TypesOfWire'
  BY <1>2, <1>4 DEF Types, TypesOfWire
<1>7. Outgoing'
  BY <1>1, <1>3 DEF Types, TypesOfPeers, Outgoing
<1> QED BY <1>5, <1>6, <1>7 DEF Types

LEMMA EndedFacts ==
  ASSUME NEW p \in Role, NEW m \in Msg
  PROVE  Ended(p, m) \in Outcome
BY DEF Ended, Outcome

LEMMA AnswerFacts ==
  ASSUME Types, NEW p \in Role, NEW m \in Msg
  PROVE  Answer(p, m) \in Response
<1>1. own[p] \in OwnState /\ response[p] \in Response /\ own[p].cell \in Cell
  BY DEF Types, TypesOfPeers, OwnState
<1>2. CASE Answer(p, m) = response[p]
  BY <1>1, <1>2
<1>3. CASE /\ m.capture_claim # None
           /\ Answer(p, m) = AnswerCaptureClaim(own[p], m.capture_claim)
  <2>1. m.capture_claim.cell \in Cell
    BY <1>3, PlaceFacts DEF Msg
  <2>2. PICK c \in Cell : c = m.capture_claim.cell
    BY <2>1
  <2>3. PICK b \in BOOLEAN : b <=> c = own[p].cell
    OBVIOUS
  <2>4. AnswerCaptureClaim(own[p], m.capture_claim) = [claim |-> c, caught |-> b]
    BY <2>2, <2>3 DEF AnswerCaptureClaim
  <2> QED BY <1>3, <2>4, ResponseFacts
<1> QED BY <1>2, <1>3 DEF Answer

LEMMA AbsorbTurnTypes ==
  ASSUME Types, NEW p \in Role, AbsorbTurn(p)
  PROVE  Types'
<1>1. PICK m \in Msg : m = Message(p)
  BY TakeTypes DEF AbsorbTurn
<1>2. /\ TakeTurn(p) /\ WallAccepted(own[p], m.barrier_placed)
      /\ own' = [own EXCEPT ![p] = [Noted(p, m) EXCEPT !.outcome = Ended(p, m)]]
      /\ response' = [response EXCEPT ![p] = Answer(p, m)]
      /\ UNCHANGED <<pc, draft, records, last_sent>>
      /\ Checkpoint(p)
  BY <1>1 DEF AbsorbTurn
<1>3. /\ turns' \in [Role -> Seq(Msg)]
      /\ consumed' \in [Role -> SUBSET Nat] /\ their' \in [Role -> Seq(HeardRec)]
  BY <1>2, TakeTypes
<1>4. own' \in [Role -> OwnState]
  <2>1. own[p] \in OwnState
    BY DEF Types, TypesOfPeers
  <2>2. PICK n \in OwnState : n = Noted(p, m)
    BY <1>2, <2>1, NotedFacts
  <2>3. PICK e \in Outcome : e = Ended(p, m)
    BY EndedFacts
  <2>4. PICK o \in OwnState : o = [n EXCEPT !.outcome = e]
    BY DEF OwnState
  <2>5. own' = [own EXCEPT ![p] = o]
    BY <1>2, <2>2, <2>3, <2>4
  <2> QED BY <2>5 DEF Types, TypesOfPeers
<1>5. response' \in [Role -> Response]
  BY <1>2, AnswerFacts DEF Types, TypesOfPeers
<1>6. snapshot' \in [Role -> {None} \cup Snap]
  BY <1>2, <1>3, <1>4, <1>5, CheckpointTypes DEF Types, TypesOfPeers
<1>7. late' = late /\ incarnation' = incarnation /\ torn' = torn
  BY <1>2 DEF TakeTurn, budgets
<1>8. TypesOfPeers'
  BY <1>2, <1>3, <1>4, <1>5, <1>6 DEF Types, TypesOfPeers
<1>9. TypesOfWire'
  BY <1>3, <1>7 DEF Types, TypesOfWire
<1>10. Outgoing'
  BY <1>2 DEF Types, Outgoing
<1> QED BY <1>8, <1>9, <1>10 DEF Types

LEMMA ConcedeTurnTypes ==
  ASSUME Types, NEW p \in Role, ConcedeTurn(p)
  PROVE  Types'
<1> DEFINE final == IF Caught(Answer(p, Message(p))) THEN Answer(p, Message(p))
                    ELSE ConcedeDeclaration(own[p])
<1>1. PICK m \in Msg : m = Message(p)
  BY TakeTypes DEF ConcedeTurn
<1>2. /\ TakeTurn(p) /\ WallAccepted(own[p], m.barrier_placed)
      /\ Seal(p, Noted(p, m), MoveAction("STAY"), None, final, FALSE, "capture")
      /\ UNCHANGED snapshot
  BY <1>1 DEF ConcedeTurn
<1>3. /\ turns' \in [Role -> Seq(Msg)]
      /\ consumed' \in [Role -> SUBSET Nat] /\ their' \in [Role -> Seq(HeardRec)]
  BY <1>2, TakeTypes
<1>4. own[p] \in OwnState /\ Noted(p, m) \in OwnState
  BY <1>2, NotedFacts DEF Types, TypesOfPeers
<1>5. final \in Response
  BY <1>1, <1>4, AnswerFacts, ConcedeFacts
<1>6. "capture" \in Outcome
  BY DEF Outcome
<1> HIDE DEF final
<1>7. /\ pc' \in [Role -> PC] /\ own' \in [Role -> OwnState] /\ draft' \in [Role -> Outcome]
      /\ response' \in [Role -> Response] /\ records' \in [Role -> Seq(SealedRec)]
      /\ last_sent' \in [Role -> {None} \cup Msg]
      /\ Outgoing'
  BY <1>2, <1>4, <1>5, <1>6, NonePlace, StayFacts, SealTypes
<1>8. late' = late /\ incarnation' = incarnation /\ torn' = torn
  BY <1>2 DEF TakeTurn, budgets
<1>9. TypesOfPeers'
  BY <1>2, <1>3, <1>7 DEF Types, TypesOfPeers
<1>10. TypesOfWire'
  BY <1>3, <1>8 DEF Types, TypesOfWire
<1> QED BY <1>7, <1>9, <1>10 DEF Types

-----------------------------------------------------------------------------
(* The audit and the resume *)

LEMMA SendFinalAuditTypes ==
  ASSUME Types, NEW p \in Role, SendFinalAudit(p)
  PROVE  Types'
<1>1. /\ UNCHANGED <<memory, snapshot>> /\ pc' = [pc EXCEPT ![p] = "await_audit"]
      /\ UNCHANGED <<turns, late, incarnation, torn>>
  BY DEF SendFinalAudit, budgets
<1>2. /\ pc' \in [Role -> PC]
      /\ \A q \in Role : pc'[q] \in {"sending", "sent"} => pc[q] \in {"sending", "sent"}
  BY <1>1 DEF Types, TypesOfPeers, PC
<1> QED BY <1>1, <1>2, MemoryKept, WireKept DEF Types

\* The end of a run.
LEMMA SettleTypes ==
  ASSUME Types, NEW p \in Role, NEW foreign, NEW finding, Settle(p, foreign, finding),
         UNCHANGED memory
  PROVE  TypesOfPeers' /\ Outgoing'
<1>1. PICK s : /\ s \in {None} \cup Snap /\ s \in {None, snapshot[p]}
               /\ snapshot' = [snapshot EXCEPT ![p] = s]
  BY DEF Settle, Types, TypesOfPeers
<1>2. pc' = [pc EXCEPT ![p] = "done"]
  BY DEF Settle
<1> QED BY <1>1, <1>2 DEF Types, TypesOfPeers, Outgoing, memory, log, PC

LEMMA ReceiveAuditTypes ==
  ASSUME Types, NEW p \in Role, ReceiveAudit(p)
  PROVE  Types'
<1>1. PICK foreign, finding : Settle(p, foreign, finding)
  BY DEF ReceiveAudit
<1>2. UNCHANGED memory /\ UNCHANGED <<turns, late, incarnation, torn>>
  BY DEF ReceiveAudit, budgets
<1> QED BY <1>1, <1>2, SettleTypes, WireKept DEF Types

LEMMA LossReportTypes ==
  ASSUME Types, NEW p \in Role, TechnicalLossReport(p), UNCHANGED <<memory, snapshot>>
  PROVE  TypesOfPeers' /\ Outgoing'
<1>1. pc' = [pc EXCEPT ![p] = "done"]
  BY DEF TechnicalLossReport
<1>2. /\ pc' \in [Role -> PC]
      /\ \A q \in Role : pc'[q] \in {"sending", "sent"} => pc[q] \in {"sending", "sent"}
  BY <1>1 DEF Types, TypesOfPeers, PC
<1> QED BY <1>2, MemoryKept

LEMMA EmergencyAuditTypes ==
  ASSUME Types, NEW p \in Role, EmergencyAudit(p)
  PROVE  Types'
<1>1. TechnicalLossReport(p) /\ UNCHANGED <<memory, snapshot>>
      /\ UNCHANGED <<turns, late, incarnation, torn>>
  BY DEF EmergencyAudit, budgets
<1> QED BY <1>1, LossReportTypes, WireKept DEF Types

LEMMA OfferResumeTypes ==
  ASSUME Types, NEW p \in Role, OfferResume(p)
  PROVE  Types'
<1>1. /\ UNCHANGED <<memory, snapshot>> /\ pc' = [pc EXCEPT ![p] = "loop"]
      /\ UNCHANGED <<turns, late, incarnation, torn>>
  BY DEF OfferResume, budgets
<1>2. /\ pc' \in [Role -> PC]
      /\ \A q \in Role : pc'[q] \in {"sending", "sent"} => pc[q] \in {"sending", "sent"}
  BY <1>1 DEF Types, TypesOfPeers, PC
<1> QED BY <1>1, <1>2, MemoryKept, WireKept DEF Types

\* What an answered offer sends.
LEMMA AnswerOfferEffect ==
  ASSUME Types, NEW p \in Role, AnswerOffer(p)
  PROVE  /\ UNCHANGED <<pc, memory, snapshot, incarnation, torn>>
         /\ \/ last_sent[p] = None /\ UNCHANGED <<turns, late>>
            \/ last_sent[p] \in Msg /\ SendTurn(p, last_sent[p])
BY DEF AnswerOffer, Types, TypesOfPeers

LEMMA AnswerOfferTypes ==
  ASSUME Types, NEW p \in Role, AnswerOffer(p)
  PROVE  Types'
<1>1. /\ UNCHANGED <<pc, memory, snapshot, incarnation, torn>>
      /\ \/ last_sent[p] = None /\ UNCHANGED <<turns, late>>
         \/ last_sent[p] \in Msg /\ SendTurn(p, last_sent[p])
  BY AnswerOfferEffect
<1>2. turns' \in [Role -> Seq(Msg)] /\ late' \in SUBSET Msg
  BY <1>1, SendEffect DEF Types, TypesOfWire
<1>3. TypesOfWire'
  BY <1>1, <1>2 DEF Types, TypesOfWire
<1>4. pc' = pc /\ pc \in [Role -> PC] /\ UNCHANGED <<memory, snapshot>>
  BY <1>1 DEF Types, TypesOfPeers
<1> QED BY <1>3, <1>4, MemoryKept DEF Types

\* What a deadline does, by where it lapses.
LEMMA ExpireTypes ==
  ASSUME Types, NEW p \in Role, Expire(p), UNCHANGED <<draft, response, log>>
  PROVE  TypesOfPeers' /\ Outgoing'
<1>1. CASE Fail(p, "deadline") /\ UNCHANGED snapshot
  <2>1. pc' \in [Role -> PC] /\ own' \in [Role -> OwnState] /\ pc' = [pc EXCEPT ![p] = "failed"]
    BY <1>1, FailTypes
  <2>2. TypesOfPeers'
    BY <1>1, <2>1 DEF Types, TypesOfPeers, log
  <2>3. Outgoing'
    BY <2>1 DEF Types, TypesOfPeers, Outgoing, log
  <2> QED BY <2>2, <2>3
<1>2. CASE pc' \in {[pc EXCEPT ![p] = "await_audit"], [pc EXCEPT ![p] = "down"]}
           /\ UNCHANGED <<own, snapshot>>
  <2>1. /\ pc' \in [Role -> PC]
        /\ \A q \in Role : pc'[q] \in {"sending", "sent"} => pc[q] \in {"sending", "sent"}
    BY <1>2 DEF Types, TypesOfPeers, PC
  <2> QED BY <1>2, <2>1, MemoryKept DEF memory
<1>3. CASE Settle(p, FALSE, NoAudit) /\ UNCHANGED own
  BY <1>3, SettleTypes DEF memory
<1>4. CASE TechnicalLossReport(p) /\ UNCHANGED <<own, snapshot>>
  BY <1>4, LossReportTypes DEF memory
<1> QED BY <1>1, <1>2, <1>3, <1>4 DEF Expire

LEMMA LapseOverdueTypes ==
  ASSUME Types, NEW p \in Role, LapseOverdue(p)
  PROVE  Types'
<1>1. /\ Expire(p) /\ UNCHANGED <<draft, response, log>>
      /\ UNCHANGED <<turns, late, incarnation, torn>>
  BY DEF LapseOverdue, boxes
<1> QED BY <1>1, ExpireTypes, WireKept DEF Types

LEMMA MayArriveTypes ==
  ASSUME Types, NEW p \in Role, MayArrive(p)
  PROVE  late' \in SUBSET Msg
BY DEF MayArrive, Types, TypesOfPeers, TypesOfWire, Outgoing

LEMMA LapseSlowTypes ==
  ASSUME Types, NEW p \in Role, LapseSlow(p)
  PROVE  Types'
<1>1. /\ Expire(p) /\ UNCHANGED <<draft, response, log>> /\ MayArrive(p)
      /\ UNCHANGED <<turns, incarnation>> /\ torn' = (torn \/ late' # late)
  BY DEF LapseSlow, boxes
<1>2. TypesOfPeers' /\ Outgoing'
  BY <1>1, ExpireTypes
<1>3. late' \in SUBSET Msg
  BY <1>1, MayArriveTypes
<1>4. torn' \in BOOLEAN
  BY <1>1
<1>5. TypesOfWire'
  BY <1>1, <1>3, <1>4 DEF Types, TypesOfWire
<1> QED BY <1>2, <1>5 DEF Types

LEMMA NewOwnFacts ==
  ASSUME NEW p \in Role
  PROVE  /\ NewOwn(p) \in OwnState /\ NewOwn(p).outcome = "ongoing"
         /\ NewOwn(p).barriers = {} /\ NewOwn(p).turns_completed = 0
         /\ NewOwn(p).next_actor = "thief"
<1>1. Start(p) \in Cell
  BY PhysicsAssumption DEF Start
<1> QED BY <1>1 DEF NewOwn, OwnState, Outcome, Role

LEMMA CrashTypes ==
  ASSUME Types, NEW p \in Role, Crash(p)
  PROVE  Types'
<1>1. PICK o \in OwnState : o = NewOwn(p)
  BY NewOwnFacts
<1>2. /\ pc' = [pc EXCEPT ![p] = "down"]
      /\ own' = [own EXCEPT ![p] = o]
      /\ draft' = [draft EXCEPT ![p] = "ongoing"]
      /\ response' = [response EXCEPT ![p] = None]
      /\ last_sent' = [last_sent EXCEPT ![p] = None]
      /\ records' = [records EXCEPT ![p] = << >>]
      /\ their' = [their EXCEPT ![p] = << >>]
      /\ consumed' = [consumed EXCEPT ![p] = {}]
      /\ turns' = [turns EXCEPT ![p] = << >>]
      /\ incarnation' = [incarnation EXCEPT ![p] = incarnation[p] + 1]
      /\ MayArrive(p) /\ torn' = (torn \/ Unsaved(p)) /\ UNCHANGED snapshot
  BY <1>1 DEF Crash
<1>3. /\ pc' \in [Role -> PC] /\ own' \in [Role -> OwnState] /\ draft' \in [Role -> Outcome]
      /\ response' \in [Role -> Response] /\ last_sent' \in [Role -> {None} \cup Msg]
  BY <1>2, NonePlace DEF Types, TypesOfPeers, PC, Outcome
<1>4. /\ records' \in [Role -> Seq(SealedRec)] /\ their' \in [Role -> Seq(HeardRec)]
      /\ consumed' \in [Role -> SUBSET Nat]
  BY <1>2 DEF Types, TypesOfPeers
<1>5. TypesOfPeers'
  BY <1>2, <1>3, <1>4 DEF Types, TypesOfPeers
<1>6. turns' \in [Role -> Seq(Msg)] /\ incarnation' \in [Role -> Nat]
  BY <1>2 DEF Types, TypesOfWire
<1>7. late' \in SUBSET Msg /\ torn' \in BOOLEAN
  BY <1>2, MayArriveTypes
<1>8. TypesOfWire'
  BY <1>6, <1>7 DEF TypesOfWire
<1>9. Outgoing'
  BY <1>2 DEF Types, TypesOfPeers, Outgoing
<1> QED BY <1>5, <1>8, <1>9 DEF Types

\* What a restarted peer plays on with.
LEMMA RestartEffect ==
  ASSUME Types, NEW p \in Role, Restart(p)
  PROVE  \E s \in Snap, o \in OwnState :
           /\ s = snapshot[p]
           /\ o.cell = s.cell /\ o.barriers = s.barriers
           /\ o.turns_completed = s.turns_completed /\ o.next_actor = s.next_actor
           /\ o.outcome = own[p].outcome
           /\ own' = [own EXCEPT ![p] = o]
           /\ records' = [records EXCEPT ![p] = s.records]
           /\ their' = [their EXCEPT ![p] = s.their]
           /\ consumed' = [consumed EXCEPT ![p] = s.consumed]
           /\ response' = [response EXCEPT ![p] = s.response]
           /\ last_sent' = [last_sent EXCEPT ![p] = s.last_sent]
<1>1. PICK s \in Snap : s = snapshot[p]
  BY DEF Restart, Types, TypesOfPeers
<1>2. PICK q \in OwnState : q = own[p]
  BY DEF Types, TypesOfPeers
<1>3. PICK o \in OwnState :
        o = [q EXCEPT !.cell = s.cell, !.barriers = s.barriers,
                      !.turns_completed = s.turns_completed, !.next_actor = s.next_actor]
  BY DEF OwnState, Snap
<1>4. /\ o.cell = s.cell /\ o.barriers = s.barriers
      /\ o.turns_completed = s.turns_completed /\ o.next_actor = s.next_actor
      /\ o.outcome = q.outcome
  BY <1>3 DEF OwnState
<1>5. Rearm(p, s)
  BY <1>1 DEF Restart
<1>6. own' = [own EXCEPT ![p] = o]
  BY <1>2, <1>3, <1>5 DEF Rearm
<1> QED BY <1>1, <1>2, <1>4, <1>5, <1>6 DEF Rearm

LEMMA RestartTypes ==
  ASSUME Types, NEW p \in Role, Restart(p)
  PROVE  Types'
<1>1. PICK s \in Snap, o \in OwnState :
           /\ own' = [own EXCEPT ![p] = o]
           /\ records' = [records EXCEPT ![p] = s.records]
           /\ their' = [their EXCEPT ![p] = s.their]
           /\ consumed' = [consumed EXCEPT ![p] = s.consumed]
           /\ response' = [response EXCEPT ![p] = s.response]
           /\ last_sent' = [last_sent EXCEPT ![p] = s.last_sent]
  BY RestartEffect
<1>2. /\ pc' = [pc EXCEPT ![p] = "offering"] /\ UNCHANGED <<draft, snapshot>>
      /\ UNCHANGED <<turns, late, incarnation, torn>>
  BY DEF Restart, boxes, budgets
<1>3. /\ s.records \in Seq(SealedRec) /\ s.their \in Seq(HeardRec) /\ s.consumed \in SUBSET Nat
      /\ s.response \in Response /\ s.last_sent \in {None} \cup Msg
  BY DEF Snap
<1>4. TypesOfPeers'
  BY <1>1, <1>2, <1>3 DEF Types, TypesOfPeers, PC
<1>5. Outgoing'
  BY <1>1, <1>2 DEF Types, TypesOfPeers, Outgoing
<1> QED BY <1>2, <1>4, <1>5, WireKept DEF Types

LEMMA DeliverEffect ==
  ASSUME Types, NEW m \in late, DeliverLate(m)
  PROVE  /\ turns' \in [Role -> Seq(Msg)] /\ late' \subseteq late
         /\ m.sender \in Role
         /\ turns'[m.sender] = turns[m.sender]
         /\ Range(turns'[Rival(m.sender)]) \subseteq Range(turns[Rival(m.sender)]) \cup {m}
         /\ UNCHANGED <<pc, memory, snapshot, incarnation, torn>>
<1>1. m \in Msg /\ m.sender \in Role
  BY DEF Types, TypesOfWire, Msg
<1>2. PICK to \in Role : to = Rival(m.sender) /\ to # m.sender
  BY <1>1, RivalFacts
<1>3. turns[to] \in Seq(Msg) /\ turns \in [Role -> Seq(Msg)]
  BY DEF Types, TypesOfWire
<1>4. PICK s \in Seq(Msg) : s = Append(turns[to], m) /\ Range(s) = Range(turns[to]) \cup {m}
  BY <1>1, <1>3, RangeFacts
<1>5. turns' = turns \/ turns' = [turns EXCEPT ![to] = s]
  BY <1>2, <1>4 DEF DeliverLate, Delivered
<1>6. late' \subseteq late /\ UNCHANGED <<pc, memory, snapshot, incarnation, torn>>
  BY DEF DeliverLate, budgets
<1> QED BY <1>1, <1>2, <1>3, <1>4, <1>5, <1>6

LEMMA DeliverLateTypes ==
  ASSUME Types, NEW m \in late, DeliverLate(m)
  PROVE  Types'
<1>1. /\ turns' \in [Role -> Seq(Msg)] /\ late' \subseteq late
      /\ UNCHANGED <<pc, memory, snapshot, incarnation, torn>>
  BY DeliverEffect
<1>2. TypesOfWire'
  BY <1>1 DEF Types, TypesOfWire
<1>3. pc' = pc /\ pc \in [Role -> PC] /\ UNCHANGED <<memory, snapshot>>
  BY <1>1 DEF Types, TypesOfPeers
<1> QED BY <1>2, <1>3, MemoryKept DEF Types

LEMMA TypesInit == Init => Types
<1> SUFFICES ASSUME Init PROVE Types
  OBVIOUS
<1>1. \A p \in Role : NewOwn(p) \in OwnState
  BY NewOwnFacts
<1>2. TypesOfPeers
  BY <1>1, NonePlace DEF Init, TypesOfPeers, PC, Outcome
<1>3. TypesOfWire
  <2>1. torn \in BOOLEAN /\ late \in SUBSET Msg
    BY DEF Init
  <2>2. turns \in [Role -> Seq(Msg)] /\ incarnation \in [Role -> Nat]
    BY DEF Init
  <2> QED BY <2>1, <2>2 DEF TypesOfWire
<1>4. Outgoing
  BY DEF Init, Outgoing
<1> QED BY <1>2, <1>3, <1>4 DEF Types

LEMMA TypesStep == Types /\ [Next]_vars => Types'
<1> SUFFICES ASSUME Types, [Next]_vars PROVE Types'
  OBVIOUS
<1>1. CASE UNCHANGED vars
  <2>1. UNCHANGED <<pc, memory, snapshot, turns, late, incarnation, torn>>
    BY <1>1 DEF vars, boxes, budgets
  <2>2. pc' = pc /\ pc \in [Role -> PC] /\ UNCHANGED <<memory, snapshot>>
    BY <2>1 DEF Types, TypesOfPeers
  <2> QED BY <2>1, <2>2, MemoryKept, WireKept DEF Types
<1>2. ASSUME NEW p \in Role, Program(p)
      PROVE  Types'
  BY <1>2, DecidePoliceTypes, DecideThiefTypes, SendTypes, AfterSendTypes,
     ReceiveDuplicateTypes, RefuseTurnTypes, AbsorbTurnTypes, ConcedeTurnTypes,
     SendFinalAuditTypes, ReceiveAuditTypes, EmergencyAuditTypes, OfferResumeTypes,
     AnswerOfferTypes, LapseOverdueTypes DEF Program
<1>3. ASSUME NEW p \in Role, LapseSlow(p) \/ Crash(p) \/ Restart(p)
      PROVE  Types'
  BY <1>3, LapseSlowTypes, CrashTypes, RestartTypes
<1>4. ASSUME NEW m \in late, DeliverLate(m)
      PROVE  Types'
  BY <1>4, DeliverLateTypes
<1> QED BY <1>1, <1>2, <1>3, <1>4 DEF Next

-----------------------------------------------------------------------------
(* What a peer keeps *)

LEMMA MemoryFields ==
  ASSUME NEW p \in Role
  PROVE  /\ Memory(p).cell = own[p].cell /\ Memory(p).barriers = own[p].barriers
         /\ Memory(p).turns_completed = own[p].turns_completed
         /\ Memory(p).next_actor = own[p].next_actor
         /\ Memory(p).records = records[p] /\ Memory(p).their = their[p]
         /\ Memory(p).consumed = consumed[p] /\ Memory(p).response = response[p]
         /\ Memory(p).last_sent = last_sent[p]
BY DEF Memory, BuildSnapshot

\* Outside a crash the memory is what counts.
LEMMA KeptFields ==
  ASSUME NEW p \in Role, pc[p] # "down"
  PROVE  /\ Kept(p) = Memory(p)
         /\ Kept(p).cell = own[p].cell /\ Kept(p).barriers = own[p].barriers
         /\ Kept(p).turns_completed = own[p].turns_completed
         /\ Kept(p).next_actor = own[p].next_actor
         /\ Kept(p).consumed = consumed[p] /\ Kept(p).response = response[p]
         /\ Made(p) = Len(records[p]) /\ Heard(p) = Len(their[p])
         /\ Latest(p) = last_sent[p]
BY MemoryFields DEF Kept, Made, Heard, Latest

LEMMA MemoryTypes ==
  ASSUME Types, NEW p \in Role
  PROVE  Memory(p) \in Snap /\ Kept(p) \in Snap
<1>1. Memory(p) \in Snap
  BY SnapFacts DEF Memory, Types, TypesOfPeers
<1> QED BY <1>1 DEF Kept, Types, TypesOfPeers

LEMMA KeptTypes ==
  ASSUME Types, NEW p \in Role
  PROVE  /\ Made(p) \in Nat /\ Heard(p) \in Nat /\ Latest(p) \in {None} \cup Msg
         /\ Kept(p).response \in Response /\ Kept(p).barriers \in SUBSET Cell
         /\ Kept(p).cell \in Cell /\ Kept(p).turns_completed \in Nat
         /\ Kept(p).next_actor \in Role
<1>1. PICK k \in Snap : k = Kept(p)
  BY MemoryTypes
<1>2. /\ k.records \in Seq(SealedRec) /\ k.their \in Seq(HeardRec)
      /\ k.last_sent \in {None} \cup Msg
      /\ k.response \in Response /\ k.barriers \in SUBSET Cell
      /\ k.cell \in Cell /\ k.turns_completed \in Nat /\ k.next_actor \in Role
  BY DEF Snap
<1> QED BY <1>1, <1>2, LenProperties DEF Made, Heard, Latest

\* Memories that agree field by field agree.
LEMMA SameMemory ==
  ASSUME NEW p \in Role, own'[p].cell = own[p].cell, own'[p].barriers = own[p].barriers,
         own'[p].turns_completed = own[p].turns_completed,
         own'[p].next_actor = own[p].next_actor,
         records'[p] = records[p], their'[p] = their[p], consumed'[p] = consumed[p],
         response'[p] = response[p], last_sent'[p] = last_sent[p]
  PROVE  Memory(p)' = Memory(p)
BY DEF Memory, BuildSnapshot

\* A peer another peer's step does not touch.
Still(q) ==
  /\ pc'[q] = pc[q] /\ own'[q] = own[q] /\ draft'[q] = draft[q]
  /\ records'[q] = records[q] /\ their'[q] = their[q] /\ consumed'[q] = consumed[q]
  /\ response'[q] = response[q] /\ last_sent'[q] = last_sent[q]
  /\ snapshot'[q] = snapshot[q]

LEMMA StillFacts ==
  ASSUME NEW q \in Role, Still(q)
  PROVE  /\ Kept(q)' = Kept(q) /\ Made(q)' = Made(q) /\ Heard(q)' = Heard(q)
         /\ Latest(q)' = Latest(q)
         /\ Playing(q)' = Playing(q) /\ Won(q)' = Won(q)
         /\ Saved(q) => Saved(q)'
<1>1. Memory(q)' = Memory(q)
  BY SameMemory DEF Still
<1>2. Kept(q)' = Kept(q)
  BY <1>1 DEF Still, Kept
<1>3. Playing(q)' = Playing(q)
  BY DEF Still, Playing
<1>4. Won(q)' = Won(q)
  BY DEF Still, Won
<1>5. Fresh(q)' = Fresh(q)
  BY DEF Fresh, NewOwn, Start
<1>6. Saved(q) => Saved(q)'
  <2>1. Filed(q)' = Filed(q)
    BY <1>1, <1>5 DEF Filed, Still
  <2>2. Ongoing(q)' = Ongoing(q)
    BY DEF Ongoing, Still
  <2> QED BY <1>1, <1>3, <1>5, <2>1, <2>2 DEF Saved, Still
<1> QED BY <1>2, <1>3, <1>4, <1>6 DEF Made, Heard, Latest

-----------------------------------------------------------------------------
(* Steps that leave what was lived as it is *)

Quiet ==
  /\ \A p \in Role : /\ Kept(p)' = Kept(p)
                     /\ Playing(p)' => Playing(p)
                     /\ Won(p)' => Won(p)
  /\ draft["police"] = "ongoing" => draft'["police"] = "ongoing"
  /\ \A p \in Role : \A m \in Mail(p)' :
       m \in Mail(p) \/ (m = Latest(Rival(p)) /\ m # None)

LEMMA QuietKeeps ==
  ASSUME Types, Untorn, Quiet, \A p \in Role : Saved(p)'
  PROVE  Untorn'
<1>1. \A p \in Role : /\ Kept(p)' = Kept(p) /\ Made(p)' = Made(p) /\ Heard(p)' = Heard(p)
                      /\ Latest(p)' = Latest(p)
                      /\ (Playing(p)' => Playing(p)) /\ (Won(p)' => Won(p))
  BY DEF Quiet, Made, Heard, Latest
<1>2. \A p \in Role : Books(p)'
  BY <1>1 DEF Untorn, Books
<1>3. "police" \in Role /\ "thief" \in Role
  BY DEF Role
<1>4. Order'
  BY <1>1, <1>3 DEF Untorn, Order
<1>5. PoliceSide'
  BY <1>1, <1>3 DEF Untorn, PoliceSide, Quiet
<1>6. ThiefSide'
  <2>1. IAmCaptured(Kept("thief"))' = IAmCaptured(Kept("thief"))
    BY <1>1, <1>3
  <2> QED BY <1>1, <1>3, <2>1 DEF Untorn, ThiefSide
<1>7. Walls'
  BY <1>1, <1>3 DEF Untorn, Walls
<1>8. Claims'
  BY <1>1, <1>3 DEF Untorn, Claims
<1>9. Posted'
  <2> SUFFICES ASSUME NEW p \in Role, NEW m \in Mail(p)' PROVE Genuine(Rival(p), m)'
    BY DEF Posted
  <2>1. PICK q \in Role : q = Rival(p)
    BY RivalFacts
  <2>2. Made(q)' = Made(q) /\ Latest(q)' = Latest(q) /\ Made(q) \in Nat
    BY <1>1, KeptTypes
  <2>3. CASE m \in Mail(p)
    BY <2>1, <2>2, <2>3 DEF Untorn, Posted, Genuine
  <2>4. CASE m = Latest(q) /\ m # None
    <3>1. m.step = Made(q) /\ m.sender = q /\ Made(q) # 0
      BY <2>4 DEF Untorn, Books
    <3> QED BY <2>1, <2>2, <2>4, <3>1 DEF Genuine
  <2> QED BY <2>1, <2>3, <2>4 DEF Quiet
<1> QED BY <1>2, <1>4, <1>5, <1>6, <1>7, <1>8, <1>9 DEF Untorn

MailGrows ==
  \A p \in Role : \A m \in Mail(p)' : m \in Mail(p) \/ (m = Latest(Rival(p)) /\ m # None)

\* The step of one peer that leaves what was lived as it is.
LEMMA QuietStep ==
  ASSUME Types, Untorn, NEW p \in Role, Still(Rival(p)),
         Kept(p)' = Kept(p), Playing(p)' => Playing(p), Won(p)' => Won(p),
         draft'[p] \in {draft[p], "ongoing"}, Saved(p)', MailGrows
  PROVE  Untorn'
<1>1. \A q \in Role : q = p \/ q = Rival(p)
  BY RivalFacts
<1>2. Rival(p) \in Role /\ "police" \in Role
  BY RivalFacts DEF Role
<1>3. /\ Kept(Rival(p))' = Kept(Rival(p))
      /\ Playing(Rival(p))' = Playing(Rival(p)) /\ Won(Rival(p))' = Won(Rival(p))
      /\ Saved(Rival(p))'
  BY <1>2, StillFacts DEF Untorn
<1>4. draft["police"] = "ongoing" => draft'["police"] = "ongoing"
  BY <1>1, <1>2 DEF Still
<1>5. \A q \in Role : /\ Kept(q)' = Kept(q)
                      /\ Playing(q)' => Playing(q)
                      /\ Won(q)' => Won(q)
  BY <1>1, <1>3
<1>6. Quiet
  BY <1>4, <1>5 DEF Quiet, MailGrows
<1> QED BY <1>1, <1>3, <1>6, QuietKeeps

LEMMA MailKept ==
  ASSUME UNCHANGED <<turns, late>>
  PROVE  MailGrows
<1>1. turns' = turns /\ late' = late
  OBVIOUS
<1>2. \A p \in Role : Mail(p)' = Mail(p)
  BY <1>1 DEF Mail
<1> QED BY <1>2 DEF MailGrows

\* What is sent is the newest a peer has to say.
LEMMA MailSent ==
  ASSUME Types, Untorn, NEW p \in Role, last_sent[p] # None, pc[p] # "down",
         SendTurn(p, last_sent[p])
  PROVE  MailGrows
<1>1. PICK s \in Msg : s = last_sent[p]
  BY DEF Types, TypesOfPeers
<1>2. /\ turns'[p] = turns[p]
      /\ Range(turns'[Rival(p)]) \subseteq Range(turns[Rival(p)]) \cup {s}
      /\ late' \subseteq late \cup {s}
  BY <1>1, SendEffect
<1>3. s = Latest(p) /\ s # None /\ s.sender = p
  BY <1>1, KeptFields DEF Untorn, Books
<1> SUFFICES ASSUME NEW q \in Role, NEW m \in Mail(q)'
             PROVE  m \in Mail(q) \/ (m = Latest(Rival(q)) /\ m # None)
  BY DEF MailGrows
<1>4. q = p \/ (q = Rival(p) /\ Rival(q) = p)
  BY RivalFacts
<1>5. m \in Range(turns'[q]) \/ (m \in late' /\ m.sender = Rival(q))
  BY DEF Mail
<1>6. CASE q = p
  <2>1. Rival(q) # p
    BY <1>6, RivalFacts
  <2> QED BY <1>2, <1>3, <1>5, <1>6, <2>1 DEF Mail
<1>7. CASE q = Rival(p) /\ Rival(q) = p
  BY <1>2, <1>3, <1>5, <1>7 DEF Mail
<1> QED BY <1>4, <1>6, <1>7

\* Memory is on file where it was, if neither is touched.
LEMMA FiledKept ==
  ASSUME NEW p \in Role, Memory(p)' = Memory(p), snapshot'[p] = snapshot[p], Filed(p)
  PROVE  Filed(p)'
<1>1. Fresh(p)' = Fresh(p)
  BY DEF Fresh, NewOwn, Start
<1> QED BY <1>1 DEF Filed

LEMMA FreshKept == ASSUME NEW p \in Role PROVE Fresh(p)' = Fresh(p)
BY DEF Fresh, NewOwn, Start

\* The rival of a peer whose step touches nothing of it.
LEMMA StillRival ==
  ASSUME NEW p \in Role, UNCHANGED <<memory, snapshot>>,
         pc' = pc \/ \E c : pc' = [pc EXCEPT ![p] = c], Types
  PROVE  Still(Rival(p)) /\ Memory(p)' = Memory(p) /\ own'[p] = own[p] /\ draft'[p] = draft[p]
<1>1. Rival(p) \in Role /\ Rival(p) # p
  BY RivalFacts
<1>2. pc'[Rival(p)] = pc[Rival(p)]
  BY <1>1 DEF Types, TypesOfPeers
<1>3. Memory(p)' = Memory(p)
  BY SameMemory DEF memory, log
<1> QED BY <1>1, <1>2, <1>3 DEF Still, memory, log

LEMMA SendKeeps ==
  ASSUME Types, Untorn, NEW p \in Role, Send(p)
  PROVE  Untorn'
<1>1. /\ pc[p] = "sending" /\ pc' = [pc EXCEPT ![p] = "sent"] /\ pc'[p] = "sent"
      /\ UNCHANGED <<memory, snapshot>> /\ last_sent[p] # None
  BY DEF Send, Types, TypesOfPeers, Outgoing
<1>2. Still(Rival(p)) /\ Memory(p)' = Memory(p) /\ own'[p] = own[p] /\ draft'[p] = draft[p]
  BY <1>1, StillRival
<1>3. Kept(p)' = Kept(p)
  BY <1>1, <1>2 DEF Kept
<1>4. Playing(p)' = Playing(p) /\ Won(p)' = Won(p)
  BY <1>2 DEF Playing, Won
<1>5. Saved(p)'
  BY <1>1, <1>2 DEF Saved, Untorn, Ongoing
<1>6. MailGrows
  BY <1>1, MailSent DEF Send
<1> QED BY <1>2, <1>3, <1>4, <1>5, <1>6, QuietStep

LEMMA AfterSendKeeps ==
  ASSUME Types, Untorn, NEW p \in Role, AfterSend(p)
  PROVE  /\ Untorn' /\ Still(Rival(p)) /\ Kept(p)' = Kept(p)
         /\ Ongoing(p) /\ (Playing(p) => Playing(p)') /\ Ongoing(p)' = (draft[p] = "ongoing")
<1>1. /\ pc[p] = "sent"
      /\ own' = [own EXCEPT ![p].outcome = draft[p]]
      /\ pc' = [pc EXCEPT ![p] = "loop"]
      /\ draft' = [draft EXCEPT ![p] = "ongoing"]
      /\ UNCHANGED <<response, records, their, consumed, last_sent>>
      /\ UNCHANGED <<turns, late>>
      /\ Checkpoint(p)
  BY DEF AfterSend, log, boxes
<1>2. PICK o \in OwnState :
        /\ own' = [own EXCEPT ![p] = o]
        /\ o.cell = own[p].cell /\ o.barriers = own[p].barriers
        /\ o.turns_completed = own[p].turns_completed
        /\ o.next_actor = own[p].next_actor /\ o.outcome = draft[p]
  <2>1. own[p] \in OwnState /\ draft[p] \in Outcome
    BY DEF Types, TypesOfPeers
  <2>2. PICK o \in OwnState :
          /\ o = [own[p] EXCEPT !.outcome = draft[p]]
          /\ o.cell = own[p].cell /\ o.barriers = own[p].barriers
          /\ o.turns_completed = own[p].turns_completed
          /\ o.next_actor = own[p].next_actor /\ o.outcome = draft[p]
    BY <2>1, OutcomeFacts
  <2>3. own' = [own EXCEPT ![p] = o]
    BY <1>1, <2>2
  <2> QED BY <2>2, <2>3
<1>3. own'[p] = o /\ pc'[p] = "loop" /\ draft'[p] = "ongoing"
  BY <1>1, <1>2 DEF Types, TypesOfPeers
<1>4. Memory(p)' = Memory(p)
  BY <1>1, <1>2, <1>3, SameMemory
<1>5. snapshot' = [snapshot EXCEPT ![p] = Memory(p)']
  BY <1>1 DEF Checkpoint, Memory
<1>6. snapshot'[p] = Memory(p)'
  BY <1>5 DEF Types, TypesOfPeers
<1>7. Still(Rival(p))
  <2>1. Rival(p) \in Role /\ Rival(p) # p
    BY RivalFacts
  <2> QED BY <1>1, <1>2, <1>5, <2>1 DEF Still, Types, TypesOfPeers
<1>8. Kept(p)' = Kept(p)
  BY <1>1, <1>3, <1>4 DEF Kept
<1>9. Ongoing(p)
  BY <1>1 DEF Untorn, Saved
<1>10. (Playing(p)' => Playing(p)) /\ (Won(p)' => Won(p))
  BY <1>2, <1>3, <1>9 DEF Playing, Won, Ongoing
<1>11. Saved(p)'
  BY <1>3, <1>6 DEF Saved, Filed
<1>12. MailGrows
  BY <1>1, MailKept
<1>13. (Playing(p) => Playing(p)') /\ Ongoing(p)' = (draft[p] = "ongoing")
  BY <1>2, <1>3 DEF Playing, Ongoing
<1>14. Untorn'
  BY <1>3, <1>7, <1>8, <1>10, <1>11, <1>12, QuietStep
<1> QED BY <1>7, <1>8, <1>9, <1>13, <1>14

LEMMA ReceiveDuplicateKeeps ==
  ASSUME Types, Untorn, NEW p \in Role, ReceiveDuplicate(p)
  PROVE  Untorn'
<1>1. /\ UNCHANGED <<memory, snapshot>> /\ pc' = pc /\ late' = late
      /\ turns' = [turns EXCEPT ![p] = Tail(turns[p])]
  BY DEF ReceiveDuplicate
<1>2. Range(Tail(turns[p])) \subseteq Range(turns[p])
  BY TakeEffect DEF ReceiveDuplicate
<1>3. Still(Rival(p)) /\ Memory(p)' = Memory(p) /\ own'[p] = own[p] /\ draft'[p] = draft[p]
  BY <1>1, StillRival
<1>4. Still(p)
  BY <1>1 DEF Still, memory, log
<1>5. MailGrows
  <2> SUFFICES ASSUME NEW q \in Role, NEW m \in Mail(q)' PROVE m \in Mail(q)
    BY DEF MailGrows
  <2>1. m \in Range(turns'[q]) \/ (m \in late' /\ m.sender = Rival(q))
    BY DEF Mail
  <2>2. Range(turns'[q]) \subseteq Range(turns[q])
    BY <1>1, <1>2 DEF Types, TypesOfWire
  <2> QED BY <1>1, <2>1, <2>2 DEF Mail
<1> QED BY <1>3, <1>4, <1>5, StillFacts, QuietStep DEF Untorn

LEMMA SendFinalAuditKeeps ==
  ASSUME Types, Untorn, NEW p \in Role, SendFinalAudit(p)
  PROVE  Untorn'
<1>1. /\ UNCHANGED <<memory, snapshot>> /\ pc' = [pc EXCEPT ![p] = "await_audit"]
      /\ pc[p] = "loop" /\ ~Ongoing(p)
      /\ UNCHANGED <<turns, late>>
  BY DEF SendFinalAudit
<1>2. Still(Rival(p)) /\ Memory(p)' = Memory(p) /\ own'[p] = own[p] /\ draft'[p] = draft[p]
  BY <1>1, StillRival
<1>3. pc'[p] = "await_audit"
  BY <1>1 DEF Types, TypesOfPeers
<1>4. Kept(p)' = Kept(p)
  BY <1>1, <1>2, <1>3 DEF Kept
<1>5. Playing(p)' = Playing(p) /\ Won(p)' = Won(p)
  BY <1>2 DEF Playing, Won
<1>6. Saved(p)'
  BY <1>1, <1>2, <1>3 DEF Saved, Untorn, Ongoing
<1> QED BY <1>1, <1>2, <1>4, <1>5, <1>6, MailKept, QuietStep

\* The end of a run, however it comes.
LEMMA DoneKeeps ==
  ASSUME Types, Untorn, NEW p \in Role, UNCHANGED memory, UNCHANGED <<turns, late>>,
         pc[p] # "down", pc' = [pc EXCEPT ![p] = "done"],
         \E s : snapshot' = [snapshot EXCEPT ![p] = s]
  PROVE  Untorn'
<1>1. Rival(p) \in Role /\ Rival(p) # p
  BY RivalFacts
<1>2. Still(Rival(p)) /\ own'[p] = own[p] /\ draft'[p] = draft[p] /\ pc'[p] = "done"
  BY <1>1 DEF Still, memory, log, Types, TypesOfPeers
<1>3. Memory(p)' = Memory(p)
  BY SameMemory DEF memory, log
<1>4. Kept(p)' = Kept(p)
  BY <1>2, <1>3 DEF Kept
<1>5. Playing(p)' = Playing(p) /\ Won(p)' = Won(p)
  BY <1>2 DEF Playing, Won
<1>6. Saved(p)'
  BY <1>2 DEF Saved
<1> QED BY <1>2, <1>4, <1>5, <1>6, MailKept, QuietStep

LEMMA SettleDone ==
  ASSUME Types, NEW p \in Role, NEW foreign, NEW finding, Settle(p, foreign, finding)
  PROVE  pc' = [pc EXCEPT ![p] = "done"] /\ \E s : snapshot' = [snapshot EXCEPT ![p] = s]
BY DEF Settle

LEMMA SameFile ==
  ASSUME Types, NEW p \in Role, UNCHANGED snapshot
  PROVE  \E s : snapshot' = [snapshot EXCEPT ![p] = s]
<1>1. snapshot = [snapshot EXCEPT ![p] = snapshot[p]]
  BY DEF Types, TypesOfPeers
<1> QED BY <1>1

LEMMA ReceiveAuditKeeps ==
  ASSUME Types, Untorn, NEW p \in Role, ReceiveAudit(p)
  PROVE  Untorn'
<1>1. PICK foreign, finding : Settle(p, foreign, finding)
  BY DEF ReceiveAudit
<1>2. UNCHANGED memory /\ UNCHANGED <<turns, late>> /\ pc[p] # "down"
  BY DEF ReceiveAudit, AwaitingAudit
<1> QED BY <1>1, <1>2, SettleDone, DoneKeeps

LEMMA EmergencyAuditKeeps ==
  ASSUME Types, Untorn, NEW p \in Role, EmergencyAudit(p)
  PROVE  Untorn'
<1>1. /\ pc' = [pc EXCEPT ![p] = "done"] /\ UNCHANGED memory /\ UNCHANGED <<turns, late>>
      /\ pc[p] # "down" /\ UNCHANGED snapshot
  BY DEF EmergencyAudit, TechnicalLossReport
<1> QED BY <1>1, SameFile, DoneKeeps

LEMMA OfferResumeKeeps ==
  ASSUME Types, Untorn, NEW p \in Role, OfferResume(p)
  PROVE  Untorn'
<1>1. /\ UNCHANGED <<memory, snapshot>> /\ pc' = [pc EXCEPT ![p] = "loop"]
      /\ pc[p] = "offering" /\ UNCHANGED <<turns, late>>
  BY DEF OfferResume
<1>2. Still(Rival(p)) /\ Memory(p)' = Memory(p) /\ own'[p] = own[p] /\ draft'[p] = draft[p]
  BY <1>1, StillRival
<1>3. pc'[p] = "loop" /\ snapshot'[p] = snapshot[p]
  BY <1>1 DEF Types, TypesOfPeers
<1>4. Kept(p)' = Kept(p)
  BY <1>1, <1>2, <1>3 DEF Kept
<1>5. Playing(p)' = Playing(p) /\ Won(p)' = Won(p)
  BY <1>2 DEF Playing, Won
<1>6. Saved(p)'
  <2>1. Playing(p) /\ Filed(p)
    BY <1>1 DEF Untorn, Saved
  <2>2. Filed(p)'
    BY <1>2, <1>3, <2>1, FiledKept
  <2> QED BY <1>2, <1>3, <2>1, <2>2 DEF Saved, Playing
<1> QED BY <1>1, <1>2, <1>4, <1>5, <1>6, MailKept, QuietStep

LEMMA AnswerOfferKeeps ==
  ASSUME Types, Untorn, NEW p \in Role, AnswerOffer(p)
  PROVE  Untorn'
<1>1. /\ UNCHANGED <<pc, memory, snapshot>>
      /\ \/ last_sent[p] = None /\ UNCHANGED <<turns, late>>
         \/ last_sent[p] \in Msg /\ SendTurn(p, last_sent[p])
  BY AnswerOfferEffect
<1>2. pc[p] # "down"
  BY DEF AnswerOffer, Waiting, Expecting, AwaitingAudit
<1>3. Still(Rival(p)) /\ draft'[p] = draft[p]
  BY <1>1, StillRival
<1>4. Still(p)
  BY <1>1 DEF Still, memory, log
<1>5. MailGrows
  BY <1>1, <1>2, MailKept, MailSent, NoneFacts
<1> QED BY <1>3, <1>4, <1>5, StillFacts, QuietStep DEF Untorn

LEMMA DeliverLateKeeps ==
  ASSUME Types, Untorn, NEW m \in late, DeliverLate(m)
  PROVE  Untorn'
<1>1. PICK p \in Role :
        /\ p = m.sender /\ turns'[p] = turns[p] /\ late' \subseteq late
        /\ Range(turns'[Rival(p)]) \subseteq Range(turns[Rival(p)]) \cup {m}
        /\ UNCHANGED <<pc, memory, snapshot>>
  BY DeliverEffect
<1>2. Still(Rival(p)) /\ draft'[p] = draft[p]
  BY <1>1, StillRival
<1>3. Still(p)
  BY <1>1 DEF Still, memory, log
<1>4. MailGrows
  <2> SUFFICES ASSUME NEW q \in Role, NEW x \in Mail(q)' PROVE x \in Mail(q)
    BY DEF MailGrows
  <2>1. q = p \/ (q = Rival(p) /\ Rival(q) = p)
    BY RivalFacts
  <2>2. x \in Range(turns'[q]) \/ (x \in late' /\ x.sender = Rival(q))
    BY DEF Mail
  <2> QED BY <1>1, <2>1, <2>2 DEF Mail
<1> QED BY <1>2, <1>3, <1>4, StillFacts, QuietStep DEF Untorn

-----------------------------------------------------------------------------
(* Deadlines, crashes and restarts *)

LEMMA ExpireKeeps ==
  ASSUME Types, Untorn, NEW p \in Role, Expire(p), pc[p] # "down",
         UNCHANGED <<draft, response, log>>, UNCHANGED <<turns, late>>
  PROVE  Untorn'
<1>0. Rival(p) \in Role /\ Rival(p) # p
  BY RivalFacts
<1>1. CASE (pc[p] = "sending" \/ Expecting(p)) /\ Fail(p, "deadline") /\ UNCHANGED snapshot
  <2>1. PICK o \in OwnState :
          /\ own' = [own EXCEPT ![p] = o] /\ pc' = [pc EXCEPT ![p] = "failed"]
          /\ o.cell = own[p].cell /\ o.barriers = own[p].barriers
          /\ o.turns_completed = own[p].turns_completed
          /\ o.next_actor = own[p].next_actor /\ o.outcome = "technical_loss"
    BY <1>1, FailTypes
  <2>2. own'[p] = o /\ pc'[p] = "failed"
    BY <2>1 DEF Types, TypesOfPeers
  <2>3. Still(Rival(p))
    BY <1>0, <1>1, <2>1 DEF Still, log, Types, TypesOfPeers
  <2>4. Memory(p)' = Memory(p)
    BY <2>1, <2>2, SameMemory DEF log
  <2>5. Kept(p)' = Kept(p)
    BY <2>2, <2>4 DEF Kept
  <2>6. ~Playing(p)' /\ (Won(p)' => Won(p))
    BY <2>1, <2>2 DEF Playing, Won
  <2>7. Saved(p)'
    BY <2>1, <2>2 DEF Saved, Ongoing
  <2> QED BY <2>3, <2>5, <2>6, <2>7, MailKept, QuietStep
<1>2. CASE pc[p] = "loop" /\ ~Ongoing(p) /\ pc' = [pc EXCEPT ![p] = "await_audit"]
           /\ UNCHANGED <<own, snapshot>>
  <2>1. Still(Rival(p)) /\ Memory(p)' = Memory(p) /\ own'[p] = own[p] /\ draft'[p] = draft[p]
    BY <1>2, StillRival DEF memory
  <2>2. pc'[p] = "await_audit"
    BY <1>2 DEF Types, TypesOfPeers
  <2>3. Kept(p)' = Kept(p)
    BY <1>2, <2>1, <2>2 DEF Kept
  <2>4. Playing(p)' = Playing(p) /\ Won(p)' = Won(p)
    BY <2>1 DEF Playing, Won
  <2>5. Saved(p)'
    BY <1>2, <2>1, <2>2 DEF Saved, Untorn, Ongoing
  <2> QED BY <2>1, <2>3, <2>4, <2>5, MailKept, QuietStep
<1>3. CASE Settle(p, FALSE, NoAudit) /\ UNCHANGED own
  BY <1>3, SettleDone, DoneKeeps DEF memory
<1>4. CASE TechnicalLossReport(p) /\ UNCHANGED <<own, snapshot>>
  BY <1>4, SameFile, DoneKeeps DEF memory, TechnicalLossReport
<1>5. CASE pc[p] = "offering" /\ pc' = [pc EXCEPT ![p] = "down"] /\ UNCHANGED <<own, snapshot>>
  <2>1. /\ Still(Rival(p)) /\ Memory(p)' = Memory(p) /\ own'[p] = own[p]
        /\ draft'[p] = draft[p]
    BY <1>5, StillRival DEF memory
  <2>2. pc'[p] = "down" /\ snapshot'[p] = snapshot[p]
    BY <1>5 DEF Types, TypesOfPeers
  <2>3. Playing(p) /\ Filed(p)
    BY <1>5 DEF Untorn, Saved
  <2>4. Kept(p) = Memory(p)
    BY <1>5 DEF Kept
  <2>5. Kept(p)' = Kept(p)
    BY <2>1, <2>2, <2>3, <2>4 DEF Kept, Filed
  <2>6. Playing(p)' = Playing(p) /\ Won(p)' = Won(p)
    BY <2>1 DEF Playing, Won
  <2>7. Saved(p)'
    <3>1. Memory(p) # None
      BY MemoryTypes, NoneFacts
    <3> QED BY <2>1, <2>2, <2>3, <2>6, <3>1, FreshKept DEF Saved, Filed
  <2> QED BY <2>1, <2>5, <2>6, <2>7, MailKept, QuietStep
<1> QED BY <1>1, <1>2, <1>3, <1>4, <1>5 DEF Expire, AwaitingAudit

LEMMA UpWhenWaiting ==
  ASSUME NEW p \in Role, Sending(p) \/ Waiting(p)
  PROVE  pc[p] # "down"
BY DEF Sending, Waiting, Expecting, AwaitingAudit

LEMMA LapseOverdueKeeps ==
  ASSUME Types, Untorn, NEW p \in Role, LapseOverdue(p)
  PROVE  Untorn'
<1>1. /\ Expire(p) /\ UNCHANGED <<draft, response, log>> /\ UNCHANGED <<turns, late>>
      /\ Sending(p) \/ Waiting(p)
  BY DEF LapseOverdue, boxes, Overdue, Starved
<1> QED BY <1>1, UpWhenWaiting, ExpireKeeps

LEMMA LapseSlowKeeps ==
  ASSUME Types, Untorn, NEW p \in Role, LapseSlow(p), ~torn'
  PROVE  Untorn'
<1>1. /\ Expire(p) /\ UNCHANGED <<draft, response, log>> /\ UNCHANGED <<turns, late>>
      /\ Sending(p) \/ Waiting(p)
  BY DEF LapseSlow, boxes
<1> QED BY <1>1, UpWhenWaiting, ExpireKeeps

LEMMA CrashKeeps ==
  ASSUME Types, Untorn, NEW p \in Role, Crash(p), ~torn'
  PROVE  /\ Untorn' /\ Still(Rival(p)) /\ Kept(p)' = Kept(p)
         /\ Playing(p) /\ Playing(p)' /\ late' = late
<1>1. PICK o \in OwnState : o = NewOwn(p) /\ o.outcome = "ongoing"
  BY NewOwnFacts
<1>2. /\ pc' = [pc EXCEPT ![p] = "down"]
      /\ own' = [own EXCEPT ![p] = o]
      /\ draft' = [draft EXCEPT ![p] = "ongoing"]
      /\ response' = [response EXCEPT ![p] = None]
      /\ last_sent' = [last_sent EXCEPT ![p] = None]
      /\ records' = [records EXCEPT ![p] = << >>]
      /\ their' = [their EXCEPT ![p] = << >>]
      /\ consumed' = [consumed EXCEPT ![p] = {}]
      /\ turns' = [turns EXCEPT ![p] = << >>]
      /\ snapshot' = snapshot
  BY <1>1 DEF Crash
<1>3. ~Unsaved(p) /\ MayArrive(p) /\ pc[p] \notin {"down", "done"}
  BY DEF Crash
<1>4. Ongoing(p) /\ late' = late /\ pc[p] \in {"loop", "offering"}
  <2>1. pc[p] \in PC
    BY DEF Types, TypesOfPeers
  <2> QED BY <1>3, <2>1 DEF Unsaved, MayArrive, Untorn, Saved, PC
<1>5. Playing(p) /\ Filed(p) /\ Kept(p) = Memory(p)
  BY <1>4 DEF Untorn, Saved, Playing, Ongoing, Kept
<1>6. /\ pc'[p] = "down" /\ own'[p] = o /\ draft'[p] = "ongoing" /\ response'[p] = None
      /\ last_sent'[p] = None /\ records'[p] = << >> /\ their'[p] = << >>
      /\ consumed'[p] = {} /\ turns'[p] = << >>
  BY <1>2 DEF Types, TypesOfPeers, TypesOfWire
<1>7. Memory(p)' = Fresh(p)
  BY <1>1, <1>6 DEF Memory, Fresh
<1>8. Kept(p)' = Kept(p)
  <2>1. Memory(p) # None
    BY MemoryTypes, NoneFacts
  <2> QED BY <1>2, <1>5, <1>6, <1>7, <2>1 DEF Kept, Filed
<1>9. Playing(p)' /\ ~Won(p)'
  BY <1>1, <1>6 DEF Playing, Won
<1>10. Saved(p)'
  BY <1>6, <1>7, <1>9, FreshKept DEF Saved
<1>11. Still(Rival(p))
  <2>1. Rival(p) \in Role /\ Rival(p) # p
    BY RivalFacts
  <2> QED BY <1>2, <2>1 DEF Still, Types, TypesOfPeers
<1>12. MailGrows
  <2> SUFFICES ASSUME NEW q \in Role, NEW m \in Mail(q)' PROVE m \in Mail(q)
    BY DEF MailGrows
  <2>1. m \in Range(turns'[q]) \/ (m \in late' /\ m.sender = Rival(q))
    BY DEF Mail
  <2>2. Range(turns'[q]) \subseteq Range(turns[q])
    BY <1>2, <1>6 DEF Types, TypesOfWire, Range
  <2> QED BY <1>4, <2>1, <2>2 DEF Mail
<1>13. Untorn'
  BY <1>5, <1>6, <1>8, <1>9, <1>10, <1>11, <1>12, QuietStep
<1> QED BY <1>4, <1>5, <1>8, <1>9, <1>11, <1>13

LEMMA RestartKeeps ==
  ASSUME Types, Untorn, NEW p \in Role, Restart(p)
  PROVE  /\ Untorn' /\ Still(Rival(p)) /\ Kept(p)' = Kept(p)
         /\ Playing(p) /\ Playing(p)'
<1>1. PICK s \in Snap, o \in OwnState :
           /\ s = snapshot[p]
           /\ o.cell = s.cell /\ o.barriers = s.barriers
           /\ o.turns_completed = s.turns_completed /\ o.next_actor = s.next_actor
           /\ o.outcome = own[p].outcome
           /\ own' = [own EXCEPT ![p] = o]
           /\ records' = [records EXCEPT ![p] = s.records]
           /\ their' = [their EXCEPT ![p] = s.their]
           /\ consumed' = [consumed EXCEPT ![p] = s.consumed]
           /\ response' = [response EXCEPT ![p] = s.response]
           /\ last_sent' = [last_sent EXCEPT ![p] = s.last_sent]
  BY RestartEffect
<1>2. /\ pc' = [pc EXCEPT ![p] = "offering"] /\ UNCHANGED <<draft, snapshot>>
      /\ UNCHANGED <<turns, late>> /\ pc[p] = "down" /\ snapshot[p] # None
  BY DEF Restart, boxes
<1>3. /\ pc'[p] = "offering" /\ own'[p] = o /\ draft'[p] = draft[p] /\ snapshot'[p] = s
      /\ response'[p] = s.response /\ last_sent'[p] = s.last_sent
      /\ records'[p] = s.records /\ their'[p] = s.their /\ consumed'[p] = s.consumed
  BY <1>1, <1>2 DEF Types, TypesOfPeers
<1>4. Memory(p)' = BuildSnapshot(o, s.records, s.their, s.consumed, s.response, s.last_sent)
  BY <1>3 DEF Memory
<1>5. BuildSnapshot(o, s.records, s.their, s.consumed, s.response, s.last_sent) = s
  BY <1>1 DEF BuildSnapshot, Snap
<1>6. Kept(p)' = Kept(p)
  BY <1>1, <1>2, <1>3, <1>4, <1>5 DEF Kept
<1>7. Playing(p)' = Playing(p) /\ Won(p)' = Won(p)
  BY <1>1, <1>3 DEF Playing, Won
<1>8. Saved(p)'
  <2>1. Playing(p)
    BY <1>2 DEF Untorn, Saved
  <2>2. Filed(p)'
    BY <1>3, <1>4, <1>5 DEF Filed
  <2> QED BY <1>3, <1>7, <2>1, <2>2 DEF Saved
<1>9. Still(Rival(p))
  <2>1. Rival(p) \in Role /\ Rival(p) # p
    BY RivalFacts
  <2> QED BY <1>1, <1>2, <2>1 DEF Still, Types, TypesOfPeers
<1>10. Untorn'
  BY <1>2, <1>3, <1>6, <1>7, <1>8, <1>9, MailKept, QuietStep
<1>11. Playing(p)
  BY <1>2 DEF Untorn, Saved
<1> QED BY <1>6, <1>7, <1>9, <1>10, <1>11

-----------------------------------------------------------------------------
(* Steps in which a peer lives something *)

\* The state of a sealed half-turn.
LEMMA SealEffect ==
  ASSUME Types, NEW p \in Role, NEW s \in OwnState, NEW a \in Action, NEW claim \in Place,
         NEW answer \in Response, NEW win \in BOOLEAN, NEW ends \in Outcome,
         Seal(p, s, a, claim, answer, win, ends), pc[p] = "loop"
  PROVE  /\ Kept(p)'.cell = s.cell /\ Kept(p)'.barriers = s.barriers
         /\ Kept(p)'.turns_completed = s.turns_completed
         /\ Kept(p)'.next_actor = s.next_actor /\ Kept(p)'.response = None
         /\ Kept(p)'.consumed = consumed'[p]
         /\ Made(p)' = Made(p) + 1 /\ Heard(p)' = Len(their'[p])
         /\ Latest(p)' # None /\ Latest(p)'.step = Made(p) + 1 /\ Latest(p)'.sender = p
         /\ Latest(p)'.capture_claim = claim /\ Latest(p)'.claim_response = answer
         /\ Latest(p)'.win_claim = win
         /\ a.type # "barrier" => Latest(p)'.barrier_placed = None
         /\ a.type = "barrier" => /\ Latest(p)'.barrier_placed # None
                                  /\ Latest(p)'.barrier_placed.cell = a.cell
         /\ own'[p] = s /\ draft'[p] = ends /\ pc'[p] = "sending"
<1>1. PICK x \in SealedRec : x = SealedStep(p, a)
  BY SealedFacts
<1>2. PICK m \in Msg :
         /\ m = TurnMessage(x, claim, answer, win)
         /\ m # None /\ m.step = Len(records[p]) + 1 /\ m.sender = p
         /\ m.capture_claim = claim /\ m.claim_response = answer /\ m.win_claim = win
         /\ a.type # "barrier" => m.barrier_placed = None
         /\ a.type = "barrier" => /\ m.barrier_placed # None
                                  /\ m.barrier_placed.cell = a.cell
  BY <1>1, MessageFacts
<1>3. /\ own' = [own EXCEPT ![p] = s]
      /\ records' = [records EXCEPT ![p] = Append(records[p], x)]
      /\ last_sent' = [last_sent EXCEPT ![p] = m]
      /\ response' = [response EXCEPT ![p] = None]
      /\ draft' = [draft EXCEPT ![p] = ends]
      /\ pc' = [pc EXCEPT ![p] = "sending"]
  BY <1>1, <1>2 DEF Seal
<1>4. Len(Append(records[p], x)) = Len(records[p]) + 1
  BY AppendProperties DEF Types, TypesOfPeers
<1>5. /\ own'[p] = s /\ records'[p] = Append(records[p], x) /\ last_sent'[p] = m
      /\ response'[p] = None /\ draft'[p] = ends /\ pc'[p] = "sending"
  BY <1>3 DEF Types, TypesOfPeers
<1>6. /\ Memory(p)'.cell = s.cell /\ Memory(p)'.barriers = s.barriers
      /\ Memory(p)'.turns_completed = s.turns_completed
      /\ Memory(p)'.next_actor = s.next_actor
      /\ Memory(p)'.records = Append(records[p], x) /\ Memory(p)'.their = their'[p]
      /\ Memory(p)'.consumed = consumed'[p] /\ Memory(p)'.response = None
      /\ Memory(p)'.last_sent = m
  BY <1>5 DEF Memory, BuildSnapshot
<1>7. Kept(p)' = Memory(p)'
  BY <1>5 DEF Kept
<1>8. Made(p)' = Len(records[p]) + 1 /\ Heard(p)' = Len(their'[p]) /\ Latest(p)' = m
  BY <1>4, <1>6, <1>7 DEF Made, Heard, Latest
<1>9. Made(p) = Len(records[p])
  BY KeptFields
<1> QED BY <1>2, <1>5, <1>6, <1>7, <1>8, <1>9

LEMMA SealStill ==
  ASSUME Types, NEW p \in Role, NEW s, NEW a, NEW claim, NEW answer, NEW win, NEW ends,
         Seal(p, s, a, claim, answer, win, ends),
         their'[Rival(p)] = their[Rival(p)], consumed'[Rival(p)] = consumed[Rival(p)],
         snapshot'[Rival(p)] = snapshot[Rival(p)]
  PROVE  Still(Rival(p))
<1>1. Rival(p) \in Role /\ Rival(p) # p
  BY RivalFacts
<1> QED BY <1>1 DEF Seal, Still, Types, TypesOfPeers

\* Where the two peers stand when the police is to decide.
LEMMA PoliceToMove ==
  ASSUME Types, Untorn, MyTurn("police")
  PROVE  /\ Playing("police") /\ Kept("police") = Memory("police")
         /\ Made("police") = Heard("thief")
         /\ Heard("police") = Made("police") + 1 /\ Made("thief") = Heard("thief") + 1
         /\ Latest("thief") # None
         /\ ~Caught(Latest("thief").claim_response) /\ ~Latest("thief").win_claim
         /\ Kept("police").turns_completed = Heard("police")
         /\ Kept("police").response = None
<1>1. "police" \in Role /\ "thief" \in Role /\ "police" # "thief"
  BY DEF Role
<1>2. pc["police"] = "loop" /\ Ongoing("police") /\ own["police"].next_actor = "police"
  BY DEF MyTurn
<1>3. Playing("police")
  BY <1>1, <1>2 DEF Untorn, Saved, Playing, Ongoing
<1>4. Kept("police") = Memory("police") /\ Kept("police").next_actor = "police"
  BY <1>1, <1>2, KeptFields
<1>5. Heard("police") # Made("police")
  BY <1>1, <1>3, <1>4 DEF Untorn, PoliceSide
<1>6. /\ Made("police") \in Nat /\ Heard("police") \in Nat
      /\ Made("thief") \in Nat /\ Heard("thief") \in Nat
  BY <1>1, KeptTypes
<1>7. /\ Made("police") = Heard("thief")
      /\ Heard("police") = Made("police") + 1 /\ Made("thief") = Heard("thief") + 1
  BY <1>5, <1>6 DEF Untorn, Order
<1>8. Latest("thief") # None
  BY <1>1, <1>6, <1>7 DEF Untorn, Books
<1> QED BY <1>3, <1>4, <1>6, <1>7, <1>8 DEF Untorn, PoliceSide

\* ... and when the thief is.
LEMMA ThiefToMove ==
  ASSUME Types, Untorn, MyTurn("thief")
  PROVE  /\ Playing("thief") /\ Kept("thief") = Memory("thief")
         /\ Made("police") = Heard("thief") /\ Heard("police") = Heard("thief")
         /\ Made("thief") = Heard("thief")
         /\ Kept("thief").turns_completed = Made("thief")
         /\ ~Caught(response["thief"]) /\ response["thief"] = Kept("thief").response
         /\ Latest("thief") # None =>
              ~Caught(Latest("thief").claim_response) /\ ~Latest("thief").win_claim
         /\ ~Won("police")
<1>1. "police" \in Role /\ "thief" \in Role /\ "police" # "thief"
  BY DEF Role
<1>2. pc["thief"] = "loop" /\ Ongoing("thief") /\ own["thief"].next_actor = "thief"
  BY DEF MyTurn
<1>3. Playing("thief")
  BY <1>1, <1>2 DEF Untorn, Saved, Playing, Ongoing
<1>4. /\ Kept("thief") = Memory("thief") /\ Kept("thief").next_actor = "thief"
      /\ Kept("thief").response = response["thief"]
  BY <1>1, <1>2, KeptFields
<1>5. Made("thief") = Heard("thief")
  BY <1>1, <1>3, <1>4 DEF Untorn, ThiefSide
<1>6. /\ Made("police") \in Nat /\ Heard("police") \in Nat
      /\ Made("thief") \in Nat /\ Heard("thief") \in Nat
  BY <1>1, KeptTypes
<1>7. Made("police") = Heard("thief") /\ Heard("police") = Heard("thief")
  BY <1>5, <1>6 DEF Untorn, Order
<1>8. Latest("thief") # None =>
        ~Caught(Latest("thief").claim_response) /\ ~Latest("thief").win_claim
  BY <1>3 DEF Untorn, ThiefSide
<1>9. ~Won("police")
  BY <1>8 DEF Untorn, PoliceSide
<1>10. Kept("thief").turns_completed = Made("thief") /\ ~Caught(Kept("thief").response)
  BY <1>3 DEF Untorn, ThiefSide
<1> QED BY <1>3, <1>4, <1>5, <1>7, <1>8, <1>9, <1>10

\* Mail of a peer that has decided again: only the newest would count.
LEMMA MailOutdated ==
  ASSUME Types, Untorn, NEW q \in Role, NEW p \in Role, q = Rival(p),
         Made(q)' = Made(q) + 1, Latest(q) # None => ~Caught(Latest(q).claim_response),
         Mail(p)' \subseteq Mail(p)
  PROVE  \A m \in Mail(p)' : Genuine(q, m)'
<1> SUFFICES ASSUME NEW m \in Mail(p)' PROVE Genuine(q, m)'
  OBVIOUS
<1>1. Genuine(q, m) /\ m \in Mail(p)
  BY DEF Untorn, Posted
<1>2. Made(q) \in Nat
  BY KeptTypes
<1>3. m.step \in 1 .. Made(q) /\ m.sender = q
  BY <1>1 DEF Genuine
<1>4. m \in Msg
  BY <1>1 DEF Mail, Types, TypesOfWire, Range
<1>5. ~Caught(m.claim_response)
  BY <1>1, <1>4, NoneFacts DEF Genuine
<1>6. m.step # Made(q) + 1 /\ m.step \in 1 .. Made(q) + 1
  BY <1>2, <1>3
<1> QED BY <1>3, <1>5, <1>6 DEF Genuine

LEMMA MailStill ==
  ASSUME Types, Untorn, NEW q \in Role, NEW p \in Role, q = Rival(p),
         Made(q)' = Made(q), Latest(q)' = Latest(q), Mail(p)' \subseteq Mail(p)
  PROVE  \A m \in Mail(p)' : Genuine(q, m)'
<1>1. \A m \in Mail(p) : Genuine(q, m)
  BY DEF Untorn, Posted
<1> QED BY <1>1 DEF Genuine

-----------------------------------------------------------------------------
(* The half-turns of the two sides *)

LEMMA SavedSending ==
  ASSUME NEW p \in Role, pc'[p] = "sending", own'[p].outcome = "ongoing"
  PROVE  Saved(p)'
BY DEF Saved, Ongoing

\* What the police decides.
LEMMA PoliceDecision ==
  ASSUME Types, DecidePolice("police")
  PROVE  \E a \in Action, s \in OwnState, c \in Place, win \in BOOLEAN :
           /\ ~win /\ s = ApplyOwnAction(own["police"], "police", a)
           /\ Seal("police", s, a, c, response["police"], win, "ongoing")
           /\ OwnActionLegal(own["police"], "police", a)
           /\ s.next_actor = "thief" /\ s.outcome = own["police"].outcome
           /\ s.turns_completed = own["police"].turns_completed
           /\ \/ a.type # "barrier" /\ s.barriers = own["police"].barriers
              \/ /\ a.type = "barrier" /\ a.cell \in Cell
                 /\ Cardinality(own["police"].barriers) < MaxBarriers
                 /\ s.barriers = own["police"].barriers \cup {a.cell}
<1>1. PICK a \in Choice : \E c \in CaptureClaims(ApplyOwnAction(own["police"], "police", a), "police", a) :
         /\ OwnActionLegal(own["police"], "police", a)
         /\ Seal("police", ApplyOwnAction(own["police"], "police", a), a, c, response["police"], FALSE, "ongoing")
  BY DEF DecidePolice
<1>2. PICK c \in CaptureClaims(ApplyOwnAction(own["police"], "police", a), "police", a) :
         /\ OwnActionLegal(own["police"], "police", a)
         /\ Seal("police", ApplyOwnAction(own["police"], "police", a), a, c, response["police"], FALSE, "ongoing")
  BY <1>1
<1>3. a \in Action
  BY HiddenAssumption
<1>4. own["police"] \in OwnState
  BY Names DEF Types, TypesOfPeers
<1>5. PICK s \in OwnState :
         /\ s = ApplyOwnAction(own["police"], "police", a)
         /\ s.next_actor = "thief" /\ s.outcome = own["police"].outcome
         /\ s.turns_completed = own["police"].turns_completed
         /\ \/ /\ a.type = "move" /\ s.barriers = own["police"].barriers
            \/ /\ a.type = "barrier" /\ a.cell \in Cell
               /\ Cardinality(own["police"].barriers) < MaxBarriers
               /\ s.barriers = own["police"].barriers \cup {a.cell}
  BY <1>2, <1>3, <1>4, Names, OwnActionFacts
<1>6. c \in Place
  <2>1. c \in CaptureClaims(s, "police", a)
    BY <1>2, <1>5
  <2> QED BY <1>3, <2>1, Names, CaptureClaimFacts
<1>7. PICK win \in BOOLEAN : win = FALSE
  OBVIOUS
<1>8. Seal("police", s, a, c, response["police"], win, "ongoing")
  BY <1>2, <1>5, <1>7
<1> QED BY <1>2, <1>3, <1>5, <1>6, <1>7, <1>8

LEMMA DecidePoliceKeeps ==
  ASSUME Types, Untorn, NEW p \in Role, DecidePolice(p)
  PROVE  Untorn'
<1>0. p = "police"
  BY DEF DecidePolice
<1>1. PICK a \in Action, s \in OwnState, c \in Place, win \in BOOLEAN :
           /\ ~win /\ Seal("police", s, a, c, response["police"], win, "ongoing")
           /\ s.next_actor = "thief" /\ s.outcome = own["police"].outcome
           /\ s.turns_completed = own["police"].turns_completed
           /\ \/ a.type # "barrier" /\ s.barriers = own["police"].barriers
              \/ /\ a.type = "barrier" /\ a.cell \in Cell
                 /\ Cardinality(own["police"].barriers) < MaxBarriers
                 /\ s.barriers = own["police"].barriers \cup {a.cell}
  BY <1>0, PoliceDecision
<1>2. /\ MyTurn("police") /\ UNCHANGED <<their, consumed, turns, late, snapshot>>
  BY <1>0 DEF DecidePolice, boxes
<1>3. /\ Playing("police") /\ Kept("police") = Memory("police")
      /\ Made("police") = Heard("thief")
      /\ Heard("police") = Made("police") + 1 /\ Made("thief") = Heard("thief") + 1
      /\ Latest("thief") # None
      /\ ~Caught(Latest("thief").claim_response) /\ ~Latest("thief").win_claim
      /\ Kept("police").turns_completed = Heard("police")
      /\ Kept("police").response = None
  BY <1>2, PoliceToMove
<1>4. pc["police"] = "loop" /\ Ongoing("police")
  BY <1>2 DEF MyTurn
<1>5. /\ Kept("police").barriers = own["police"].barriers
      /\ Kept("police").turns_completed = own["police"].turns_completed
      /\ Kept("police").consumed = consumed["police"]
      /\ Kept("police").response = response["police"]
      /\ Heard("police") = Len(their["police"])
  BY <1>4, Names, KeptFields
<1>6. response["police"] \in Response /\ "ongoing" \in Outcome
  BY Names DEF Types, TypesOfPeers, Outcome
<1>7. /\ Kept("police")'.barriers = s.barriers
      /\ Kept("police")'.turns_completed = s.turns_completed
      /\ Kept("police")'.next_actor = "thief" /\ Kept("police")'.response = None
      /\ Kept("police")'.consumed = consumed'["police"]
      /\ Made("police")' = Made("police") + 1 /\ Heard("police")' = Heard("police")
      /\ Latest("police")' # None /\ Latest("police")'.step = Made("police") + 1
      /\ Latest("police")'.sender = "police"
      /\ Latest("police")'.claim_response = response["police"]
      /\ Latest("police")'.win_claim = win
      /\ a.type # "barrier" => Latest("police")'.barrier_placed = None
      /\ a.type = "barrier" => /\ Latest("police")'.barrier_placed # None
                               /\ Latest("police")'.barrier_placed.cell = a.cell
      /\ own'["police"] = s /\ draft'["police"] = "ongoing" /\ pc'["police"] = "sending"
  BY <1>1, <1>2, <1>4, <1>5, <1>6, Names, SealEffect
<1>8. Still("thief")
  BY <1>1, <1>2, Names, SealStill
<1>9. /\ Kept("thief")' = Kept("thief") /\ Made("thief")' = Made("thief")
      /\ Heard("thief")' = Heard("thief") /\ Latest("thief")' = Latest("thief")
      /\ Playing("thief")' = Playing("thief") /\ Won("thief")' = Won("thief")
      /\ Saved("thief")'
  BY <1>8, Names, StillFacts DEF Untorn
<1>10. /\ Made("police") \in Nat /\ Heard("police") \in Nat
       /\ Made("thief") \in Nat /\ Heard("thief") \in Nat
  BY Names, KeptTypes
<1>11. s.outcome = "ongoing"
  BY <1>1, <1>4 DEF Ongoing
<1>12. Saved("police")'
  BY <1>7, <1>11, Names, SavedSending
<1>13. Books("police")'
  <2>1. Kept("police")'.consumed = 1 .. Heard("police")
    BY <1>2, <1>5, <1>7, Names DEF Untorn, Books
  <2> QED BY <1>7, <1>10, <2>1 DEF Books
<1>14. Books("thief")'
  BY <1>9, Names DEF Untorn, Books
<1>15. Order'
  BY <1>3, <1>7, <1>9, <1>10 DEF Order
<1>16. PoliceSide'
  <2>1. ~Won("police")'
    BY <1>7, <1>11 DEF Won
  <2> QED BY <1>1, <1>3, <1>5, <1>7, <1>9, <1>10, <2>1 DEF PoliceSide
<1>17. ThiefSide'
  BY <1>3, <1>9 DEF Untorn, ThiefSide
<1>18. Walls'
  <2>1. Kept("police").barriers = Kept("thief").barriers
    BY <1>3 DEF Untorn, Walls
  <2>2. Made("police")' # Heard("thief")'
    BY <1>3, <1>7, <1>9, <1>10
  <2>3. CASE a.type # "barrier"
    BY <1>1, <1>5, <1>7, <1>9, <2>1, <2>3 DEF Walls
  <2>4. CASE a.type = "barrier"
    BY <1>1, <1>5, <1>7, <1>9, <2>1, <2>2, <2>4 DEF Walls
  <2> QED BY <2>3, <2>4
<1>19. Claims'
  BY <1>3, <1>7, <1>9, <1>10 DEF Claims
<1>20. Mail("police")' = Mail("police") /\ Mail("thief")' = Mail("thief")
  BY <1>2 DEF Mail
<1>21. Latest("police") # None => ~Caught(Latest("police").claim_response)
  BY NonePlace DEF Untorn, PoliceSide
<1>22. \A m \in Mail("thief")' : Genuine("police", m)'
  BY <1>7, <1>20, <1>21, Names, MailOutdated
<1>23. \A m \in Mail("police")' : Genuine("thief", m)'
  BY <1>9, <1>20, Names, MailStill
<1>24. Posted'
  BY <1>22, <1>23, Names DEF Posted
<1> QED BY <1>9, <1>12, <1>13, <1>14, <1>15, <1>16, <1>17, <1>18, <1>19, <1>24, Names
    DEF Untorn

LEMMA CapturedFields ==
  ASSUME NEW s, NEW t, s.cell = t.cell, s.barriers = t.barriers
  PROVE  IAmCaptured(s) <=> IAmCaptured(t)
BY DEF IAmCaptured

\* What the thief seals, and how the game stands for it then.
LEMMA ThiefSeals ==
  ASSUME Types, Untorn, DecideThief("thief")
  PROVE  \E a \in Action, s \in OwnState, answer \in Response, win \in BOOLEAN, ends \in Outcome :
           /\ a.type # "barrier"
           /\ Seal("thief", s, a, None, answer, win, ends)
           /\ s.barriers = own["thief"].barriers /\ s.next_actor = "police"
           /\ s.outcome = "ongoing"
           /\ \/ Caught(answer) /\ ~win /\ ends = "capture"
              \/ /\ answer = response["thief"]
                 /\ s.turns_completed = Made("thief") + 1
                 /\ ~IAmCaptured(s)
                 /\ win <=> Reached(Made("thief") + 1)
                 /\ ends = IF win THEN "survival" ELSE "ongoing"
<1>1. PICK a \in Action, moved \in OwnState :
           /\ a.type # "barrier"
           /\ moved.barriers = own["thief"].barriers
           /\ moved.next_actor = "police" /\ moved.outcome = own["thief"].outcome
           /\ moved.turns_completed = own["thief"].turns_completed
           /\ \/ /\ IAmCaptured(moved)
                 /\ Seal("thief", moved, a, None, ConcedeDeclaration(moved), FALSE, "capture")
              \/ /\ ~IAmCaptured(moved)
                 /\ Seal("thief", TickedClock(moved), a, None, response["thief"],
                         SurvivalReached(TickedClock(moved)),
                         IF SurvivalReached(TickedClock(moved)) THEN "survival" ELSE "ongoing")
  BY ThiefDecision
<1>2. MyTurn("thief") /\ UNCHANGED <<their, consumed, turns, late, snapshot>>
  BY DEF DecideThief, boxes
<1>3. /\ Playing("thief") /\ Kept("thief") = Memory("thief")
      /\ Made("police") = Heard("thief") /\ Heard("police") = Heard("thief")
      /\ Made("thief") = Heard("thief")
      /\ Kept("thief").turns_completed = Made("thief")
      /\ ~Caught(response["thief"]) /\ response["thief"] = Kept("thief").response
      /\ Latest("thief") # None =>
           ~Caught(Latest("thief").claim_response) /\ ~Latest("thief").win_claim
      /\ ~Won("police")
  BY <1>2, ThiefToMove
<1>4. pc["thief"] = "loop" /\ Ongoing("thief")
  BY <1>2 DEF MyTurn
<1>5. /\ Kept("thief").barriers = own["thief"].barriers
      /\ Kept("thief").turns_completed = own["thief"].turns_completed
      /\ Kept("thief").consumed = consumed["thief"]
      /\ Heard("thief") = Len(their["thief"])
  BY <1>4, Names, KeptFields
<1>6. /\ response["thief"] \in Response /\ "ongoing" \in Outcome /\ "capture" \in Outcome
      /\ "survival" \in Outcome /\ FALSE \in BOOLEAN
  BY Names DEF Types, TypesOfPeers, Outcome
<1>7. \E s \in OwnState, answer \in Response, win \in BOOLEAN, ends \in Outcome :
        /\ Seal("thief", s, a, None, answer, win, ends)
        /\ s.barriers = own["thief"].barriers /\ s.next_actor = "police"
        /\ s.outcome = "ongoing"
        /\ \/ Caught(answer) /\ ~win /\ ends = "capture"
           \/ /\ answer = response["thief"]
              /\ s.turns_completed = Made("thief") + 1
              /\ ~IAmCaptured(s)
              /\ win <=> Reached(Made("thief") + 1)
              /\ ends = IF win THEN "survival" ELSE "ongoing"
  <2>1. moved.outcome = "ongoing" /\ moved.turns_completed = Made("thief")
    BY <1>1, <1>3, <1>4, <1>5 DEF Ongoing
  <2>2. CASE IAmCaptured(moved)
    <3>1. ConcedeDeclaration(moved) \in Response /\ Caught(ConcedeDeclaration(moved))
      BY ConcedeFacts
    <3>2. Seal("thief", moved, a, None, ConcedeDeclaration(moved), FALSE, "capture")
      BY <1>1, <2>2
    <3> QED BY <1>1, <1>6, <2>1, <3>1, <3>2
  <2>3. CASE ~IAmCaptured(moved)
    <3>1. PICK t \in OwnState :
            /\ t = TickedClock(moved)
            /\ t.turns_completed = Made("thief") + 1
            /\ t.cell = moved.cell /\ t.barriers = moved.barriers
            /\ t.next_actor = "police" /\ t.outcome = "ongoing"
      BY <1>1, <2>1, TickedFacts
    <3>2. PICK win \in BOOLEAN : win = SurvivalReached(t)
      BY DEF SurvivalReached
    <3>3. PICK ends \in Outcome : ends = IF win THEN "survival" ELSE "ongoing"
      BY <1>6
    <3>4. Seal("thief", t, a, None, response["thief"], win, ends)
      BY <1>1, <2>3, <3>1, <3>2, <3>3
    <3>5. ~IAmCaptured(t)
      BY <2>3, <3>1, CapturedFields
    <3>6. win <=> Reached(Made("thief") + 1)
      BY <3>1, <3>2 DEF SurvivalReached, Reached
    <3> QED BY <1>1, <1>6, <3>1, <3>3, <3>4, <3>5, <3>6
  <2> QED BY <2>2, <2>3
<1> QED BY <1>1, <1>7

LEMMA DecideThiefKeeps ==
  ASSUME Types, Untorn, NEW p \in Role, DecideThief(p)
  PROVE  Untorn'
<1>0. p = "thief"
  BY DEF DecideThief
<1>2. MyTurn("thief") /\ UNCHANGED <<their, consumed, turns, late, snapshot>>
  BY <1>0 DEF DecideThief, boxes
<1>3. /\ Playing("thief") /\ Kept("thief") = Memory("thief")
      /\ Made("police") = Heard("thief") /\ Heard("police") = Heard("thief")
      /\ Made("thief") = Heard("thief")
      /\ Kept("thief").turns_completed = Made("thief")
      /\ ~Caught(response["thief"]) /\ response["thief"] = Kept("thief").response
      /\ Latest("thief") # None =>
           ~Caught(Latest("thief").claim_response) /\ ~Latest("thief").win_claim
      /\ ~Won("police")
  BY <1>2, ThiefToMove
<1>4. pc["thief"] = "loop" /\ Ongoing("thief")
  BY <1>2 DEF MyTurn
<1>5. /\ Kept("thief").barriers = own["thief"].barriers
      /\ Kept("thief").turns_completed = own["thief"].turns_completed
      /\ Kept("thief").consumed = consumed["thief"]
      /\ Heard("thief") = Len(their["thief"])
  BY <1>4, Names, KeptFields
<1>6. /\ response["thief"] \in Response /\ "ongoing" \in Outcome /\ "capture" \in Outcome
      /\ "survival" \in Outcome /\ FALSE \in BOOLEAN
  BY Names DEF Types, TypesOfPeers, Outcome
<1>8. PICK a \in Action, s \in OwnState, answer \in Response, win \in BOOLEAN, ends \in Outcome :
        /\ a.type # "barrier"
        /\ Seal("thief", s, a, None, answer, win, ends)
        /\ s.barriers = own["thief"].barriers /\ s.next_actor = "police"
        /\ s.outcome = "ongoing"
        /\ \/ Caught(answer) /\ ~win /\ ends = "capture"
           \/ /\ answer = response["thief"]
              /\ s.turns_completed = Made("thief") + 1
              /\ ~IAmCaptured(s)
              /\ win <=> Reached(Made("thief") + 1)
              /\ ends = IF win THEN "survival" ELSE "ongoing"
  BY <1>0, ThiefSeals
<1>9. /\ Kept("thief")'.cell = s.cell /\ Kept("thief")'.barriers = s.barriers
      /\ Kept("thief")'.turns_completed = s.turns_completed
      /\ Kept("thief")'.next_actor = "police" /\ Kept("thief")'.response = None
      /\ Kept("thief")'.consumed = consumed'["thief"]
      /\ Made("thief")' = Made("thief") + 1 /\ Heard("thief")' = Heard("thief")
      /\ Latest("thief")' # None /\ Latest("thief")'.step = Made("thief") + 1
      /\ Latest("thief")'.sender = "thief"
      /\ Latest("thief")'.claim_response = answer
      /\ Latest("thief")'.win_claim = win
      /\ Latest("thief")'.barrier_placed = None
      /\ own'["thief"] = s /\ draft'["thief"] = ends /\ pc'["thief"] = "sending"
  BY <1>2, <1>4, <1>5, <1>8, Names, NonePlace, SealEffect
<1>10. Still("police")
  BY <1>2, <1>8, Names, SealStill
<1>11. /\ Kept("police")' = Kept("police") /\ Made("police")' = Made("police")
       /\ Heard("police")' = Heard("police") /\ Latest("police")' = Latest("police")
       /\ Playing("police")' = Playing("police") /\ Won("police")' = Won("police")
       /\ Saved("police")' /\ draft'["police"] = draft["police"]
  BY <1>10, Names, StillFacts DEF Untorn, Still
<1>12. /\ Made("police") \in Nat /\ Heard("police") \in Nat
       /\ Made("thief") \in Nat /\ Heard("thief") \in Nat
  BY Names, KeptTypes
<1>13. Saved("thief")'
  BY <1>8, <1>9, Names, SavedSending
<1>14. Books("thief")'
  <2>1. Kept("thief")'.consumed = 1 .. Heard("thief")
    BY <1>2, <1>5, <1>9, Names DEF Untorn, Books
  <2> QED BY <1>9, <1>12, <2>1 DEF Books
<1>15. Books("police")'
  BY <1>11, Names DEF Untorn, Books
<1>16. Order'
  BY <1>3, <1>9, <1>11, <1>12 DEF Order
<1>17. PoliceSide'
  <2>1. Heard("police")' # Made("thief")'
    BY <1>3, <1>9, <1>11, <1>12
  <2> QED BY <1>3, <1>11, <2>1 DEF Untorn, PoliceSide
<1>18. ThiefSide'
  <2>1. Won("thief")' => win
    BY <1>8, <1>9 DEF Won
  <2>2. Playing("thief")' => ~win /\ ~Caught(answer) /\ s.turns_completed = Made("thief") + 1
    BY <1>3, <1>8, <1>9 DEF Playing
  <2>3. win => ~IAmCaptured(Kept("thief")')
    BY <1>8, <1>9, CapturedFields
  <2>4. ~Caught(answer) => (win <=> Reached(Made("thief") + 1))
    BY <1>8
  <2>5. ~Caught(None)
    BY NonePlace
  <2>6. Made("thief")' # Heard("thief")'
    BY <1>3, <1>9, <1>12
  <2> QED BY <1>3, <1>9, <1>11, <2>1, <2>2, <2>3, <2>4, <2>5, <2>6 DEF ThiefSide
<1>19. Walls'
  BY <1>3, <1>5, <1>8, <1>9, <1>11 DEF Untorn, Walls
<1>20. Claims'
  <2>1. Made("thief")' # Heard("thief")'
    BY <1>3, <1>9, <1>12
  <2>2. Caught(answer) => answer # None /\ answer.caught
    BY DEF Caught
  <2> QED BY <1>3, <1>8, <1>9, <1>11, <2>1, <2>2 DEF Untorn, Claims
<1>21. Mail("police")' = Mail("police") /\ Mail("thief")' = Mail("thief")
  BY <1>2 DEF Mail
<1>22. \A m \in Mail("police")' : Genuine("thief", m)'
  BY <1>3, <1>9, <1>21, Names, MailOutdated
<1>23. \A m \in Mail("thief")' : Genuine("police", m)'
  BY <1>11, <1>21, Names, MailStill
<1>24. Posted'
  BY <1>22, <1>23, Names DEF Posted
<1> QED BY <1>11, <1>13, <1>14, <1>15, <1>16, <1>17, <1>18, <1>19, <1>20, <1>24, Names
    DEF Untorn

-----------------------------------------------------------------------------
(* The message a side takes *)

\* The message a peer takes is its rival's newest.
LEMMA PoliceHears ==
  ASSUME Types, Untorn, TakeTurn("police")
  PROVE  /\ Playing("police") /\ Kept("police") = Memory("police")
         /\ pc["police"] = "loop"
         /\ Message("police") = Latest("thief") /\ Latest("thief") # None
         /\ Made("thief") = Heard("police") + 1 /\ Heard("thief") = Made("police")
         /\ Heard("police") = Made("police")
<1>1. /\ pc["police"] = "loop" /\ Ongoing("police") /\ own["police"].next_actor # "police"
      /\ Key("police") = Expected("police")
  BY DEF TakeTurn, Expecting
<1>2. Playing("police")
  BY <1>1, Names DEF Untorn, Saved, Playing, Ongoing
<1>3. /\ Kept("police") = Memory("police") /\ Kept("police").next_actor # "police"
      /\ Heard("police") = Len(their["police"])
  BY <1>1, Names, KeptFields
<1>4. Heard("police") = Made("police")
  BY <1>2, <1>3 DEF Untorn, PoliceSide
<1>5. /\ Made("police") \in Nat /\ Heard("police") \in Nat
      /\ Made("thief") \in Nat /\ Heard("thief") \in Nat
  BY Names, KeptTypes
<1>6. PICK m \in Msg : m = Message("police") /\ m \in Mail("police")
  BY Names, TakeTypes DEF Mail
<1>7. Genuine("thief", m)
  BY <1>6, Names DEF Untorn, Posted
<1>8. m # None
  BY NoneFacts
<1>9. m.step \in 1 .. Made("thief")
  BY <1>7 DEF Genuine
<1>10. CASE Caught(m.claim_response)
  <2>1. m = Latest("thief")
    BY <1>7, <1>10 DEF Genuine
  <2>2. Made("thief") # Heard("police")
    BY <1>2, <1>8, <1>10, <2>1 DEF Untorn, PoliceSide
  <2>3. Made("thief") = Heard("police") + 1 /\ Heard("thief") = Made("police")
    BY <1>4, <1>5, <2>2 DEF Untorn, Order
  <2> QED BY <1>1, <1>2, <1>3, <1>4, <1>6, <1>8, <2>1, <2>3
<1>11. CASE ~Caught(m.claim_response)
  <2>1. m.step = Heard("police") + 1
    BY <1>1, <1>3, <1>6, <1>11 DEF Key, Expected
  <2>2. Made("thief") = Heard("police") + 1 /\ Heard("thief") = Made("police")
    BY <1>4, <1>5, <1>9, <2>1 DEF Untorn, Order
  <2>3. m = Latest("thief")
    BY <1>7, <2>1, <2>2 DEF Genuine
  <2> QED BY <1>1, <1>2, <1>3, <1>4, <1>6, <1>8, <2>2, <2>3
<1> QED BY <1>10, <1>11

LEMMA ThiefHears ==
  ASSUME Types, Untorn, TakeTurn("thief")
  PROVE  /\ Playing("thief") /\ Kept("thief") = Memory("thief")
         /\ pc["thief"] = "loop"
         /\ Message("thief") = Latest("police") /\ Latest("police") # None
         /\ Made("police") = Heard("thief") + 1 /\ Made("thief") = Heard("thief") + 1
         /\ Heard("police") = Heard("thief") + 1
         /\ ~Caught(Message("thief").claim_response) /\ ~Message("thief").win_claim
<1>1. /\ pc["thief"] = "loop" /\ Ongoing("thief") /\ own["thief"].next_actor # "thief"
      /\ Key("thief") = Expected("thief")
  BY DEF TakeTurn, Expecting
<1>2. Playing("thief")
  BY <1>1, Names DEF Untorn, Saved, Playing, Ongoing
<1>3. /\ Kept("thief") = Memory("thief") /\ Kept("thief").next_actor # "thief"
      /\ Heard("thief") = Len(their["thief"])
  BY <1>1, Names, KeptFields
<1>4. Made("thief") # Heard("thief")
  BY <1>2, <1>3 DEF Untorn, ThiefSide
<1>5. /\ Made("police") \in Nat /\ Heard("police") \in Nat
      /\ Made("thief") \in Nat /\ Heard("thief") \in Nat
  BY Names, KeptTypes
<1>6. PICK m \in Msg : m = Message("thief") /\ m \in Mail("thief")
  BY Names, TakeTypes DEF Mail
<1>7. Genuine("police", m)
  BY <1>6, Names DEF Untorn, Posted
<1>8. m # None
  BY NoneFacts
<1>9. ~Caught(m.claim_response)
  <2>1. ASSUME Caught(m.claim_response) PROVE FALSE
    <3>1. m = Latest("police")
      BY <1>7, <2>1 DEF Genuine
    <3>2. m.claim_response = None
      BY <1>8, <3>1 DEF Untorn, PoliceSide
    <3> QED BY <2>1, <3>2, NonePlace
  <2> QED BY <2>1
<1>10. m.step = Heard("thief") + 1 /\ m.step \in 1 .. Made("police")
  BY <1>1, <1>3, <1>6, <1>7, <1>9 DEF Key, Expected, Genuine
<1>11. /\ Made("police") = Heard("thief") + 1 /\ Made("thief") = Heard("thief") + 1
       /\ Heard("police") = Heard("thief") + 1
  BY <1>5, <1>10 DEF Untorn, Order
<1>12. m = Latest("police")
  BY <1>7, <1>10, <1>11 DEF Genuine
<1>13. ~m.win_claim
  BY <1>8, <1>12 DEF Untorn, PoliceSide
<1> QED BY <1>1, <1>2, <1>3, <1>6, <1>8, <1>9, <1>11, <1>12, <1>13

\* No declaration an honest rival makes is refused.
LEMMA WallsAccepted ==
  ASSUME Types, Untorn, NEW p \in Role, TakeTurn(p)
  PROVE  WallAccepted(own[p], Message(p).barrier_placed)
<1>1. CASE p = "police"
  <2>1. Message(p) = Latest("thief") /\ Latest("thief") # None
    BY <1>1, PoliceHears
  <2>2. Message(p).barrier_placed = None
    BY <2>1 DEF Untorn, ThiefSide
  <2> QED BY <2>2 DEF WallAccepted
<1>2. CASE p = "thief"
  <2>1. /\ Message(p) = Latest("police") /\ Made("police") = Heard("thief") + 1
        /\ pc["thief"] = "loop"
    BY <1>2, ThiefHears
  <2>2. Made("police") # Heard("thief")
    BY <2>1, Names, KeptTypes
  <2>3. Kept("thief").barriers = own["thief"].barriers
    BY <2>1, Names, KeptFields
  <2>4. CASE Latest("police").barrier_placed # None
    <3>1. Cardinality(own["thief"].barriers) < MaxBarriers
      BY <2>2, <2>3, <2>4 DEF Untorn, Walls
    <3>2. Message(p) \in Msg
      BY TakeTypes
    <3>3. Message(p).barrier_placed.cell \in Cell
      BY <2>1, <2>4, <3>2, PlaceFacts DEF Msg
    <3>4. InBounds(Message(p).barrier_placed.cell)
      BY <3>3, CellInBounds
    <3> QED BY <1>2, <2>1, <2>4, <3>1, <3>4 DEF WallAccepted
  <2>5. CASE Latest("police").barrier_placed = None
    BY <2>1, <2>5 DEF WallAccepted
  <2> QED BY <2>4, <2>5
<1> QED BY <1>1, <1>2, Names

\* What a peer keeps once it has absorbed a message.
LEMMA AbsorbEffect ==
  ASSUME Types, Untorn, NEW p \in Role, AbsorbTurn(p)
  PROVE  LET m == Message(p) IN
         /\ Kept(p)'.barriers
              = own[p].barriers \cup (IF m.barrier_placed = None THEN {} ELSE {m.barrier_placed.cell})
         /\ Kept(p)'.cell = own[p].cell
         /\ Kept(p)'.turns_completed
              = own[p].turns_completed + (IF p = "police" /\ ~Caught(m.claim_response) THEN 1 ELSE 0)
         /\ Kept(p)'.next_actor = p /\ Kept(p)'.response = Answer(p, m)
         /\ Kept(p)'.consumed = 1 .. Heard(p) + 1
         /\ Made(p)' = Made(p) /\ Heard(p)' = Heard(p) + 1 /\ Latest(p)' = Latest(p)
         /\ own'[p].outcome = Ended(p, m) /\ draft'[p] = draft[p]
         /\ own'[p].turns_completed = Kept(p)'.turns_completed
         /\ own'[p] \in OwnState
         /\ Saved(p)' /\ Still(Rival(p))
         /\ Mail(p)' \subseteq Mail(p) /\ Mail(Rival(p))' = Mail(Rival(p))
<1>0. Rival(p) \in Role /\ Rival(p) # p
  BY RivalFacts
<1>1. PICK m \in Msg :
        /\ m = Message(p) /\ turns' = [turns EXCEPT ![p] = Tail(turns[p])]
        /\ Range(turns'[p]) \subseteq Range(turns[p])
        /\ consumed' = [consumed EXCEPT ![p] = consumed[p] \cup {Len(their[p]) + 1}]
        /\ \E h \in HeardRec : their' = [their EXCEPT ![p] = Append(their[p], h)]
  BY TakeTypes DEF AbsorbTurn
<1>2. PICK h \in HeardRec : their' = [their EXCEPT ![p] = Append(their[p], h)]
  BY <1>1
<1>3. /\ TakeTurn(p) /\ WallAccepted(own[p], m.barrier_placed)
      /\ own' = [own EXCEPT ![p] = [Noted(p, m) EXCEPT !.outcome = Ended(p, m)]]
      /\ response' = [response EXCEPT ![p] = Answer(p, m)]
      /\ UNCHANGED <<pc, draft, records, last_sent>>
      /\ Checkpoint(p) /\ UNCHANGED late
  BY <1>1 DEF AbsorbTurn, TakeTurn
<1>4. own[p] \in OwnState /\ Answer(p, m) \in Response
  BY AnswerFacts DEF Types, TypesOfPeers
<1>5. PICK n \in OwnState :
        /\ n = Noted(p, m)
        /\ n.cell = own[p].cell /\ n.next_actor = p
        /\ n.turns_completed
             = own[p].turns_completed + (IF p = "police" /\ ~Caught(m.claim_response) THEN 1 ELSE 0)
        /\ n.barriers
             = own[p].barriers \cup (IF m.barrier_placed = None THEN {} ELSE {m.barrier_placed.cell})
  BY <1>3, <1>4, NotedFacts
<1>6. PICK e \in Outcome : e = Ended(p, m)
  BY EndedFacts
<1>7. PICK o \in OwnState :
        /\ o = [n EXCEPT !.outcome = e]
        /\ o.cell = n.cell /\ o.barriers = n.barriers
        /\ o.turns_completed = n.turns_completed
        /\ o.next_actor = n.next_actor /\ o.outcome = e
  BY OutcomeFacts
<1>8. own' = [own EXCEPT ![p] = o]
  BY <1>3, <1>5, <1>6, <1>7
<1>9. /\ own'[p] = o /\ response'[p] = Answer(p, m) /\ records'[p] = records[p]
      /\ their'[p] = Append(their[p], h)
      /\ consumed'[p] = consumed[p] \cup {Len(their[p]) + 1}
      /\ last_sent'[p] = last_sent[p] /\ pc'[p] = pc[p] /\ draft'[p] = draft[p]
  BY <1>1, <1>2, <1>3, <1>8 DEF Types, TypesOfPeers
<1>10. pc[p] = "loop" /\ Ongoing(p)
  BY <1>3 DEF TakeTurn, Expecting
<1>11. /\ Kept(p).consumed = consumed[p] /\ Made(p) = Len(records[p])
       /\ Heard(p) = Len(their[p]) /\ Latest(p) = last_sent[p]
  BY <1>10, KeptFields
<1>12. Len(Append(their[p], h)) = Len(their[p]) + 1 /\ Heard(p) \in Nat
  BY <1>11, AppendProperties, KeptTypes DEF Types, TypesOfPeers
<1>13. /\ Memory(p)'.cell = o.cell /\ Memory(p)'.barriers = o.barriers
       /\ Memory(p)'.turns_completed = o.turns_completed
       /\ Memory(p)'.next_actor = o.next_actor
       /\ Memory(p)'.records = records[p] /\ Memory(p)'.their = Append(their[p], h)
       /\ Memory(p)'.consumed = consumed[p] \cup {Len(their[p]) + 1}
       /\ Memory(p)'.response = Answer(p, m) /\ Memory(p)'.last_sent = last_sent[p]
  BY <1>9 DEF Memory, BuildSnapshot
<1>14. Kept(p)' = Memory(p)'
  BY <1>9, <1>10 DEF Kept
<1>15. Made(p)' = Made(p) /\ Heard(p)' = Heard(p) + 1 /\ Latest(p)' = Latest(p)
  BY <1>11, <1>12, <1>13, <1>14 DEF Made, Heard, Latest
<1>16. Kept(p)'.consumed = 1 .. Heard(p) + 1
  <2>1. consumed[p] = 1 .. Heard(p)
    BY <1>11 DEF Untorn, Books
  <2>2. (1 .. Heard(p)) \cup {Heard(p) + 1} = 1 .. Heard(p) + 1
    BY <1>12
  <2> QED BY <1>11, <1>13, <1>14, <2>1, <2>2
<1>17. Saved(p)'
  <2>1. snapshot' = [snapshot EXCEPT ![p] = Memory(p)']
    BY <1>3 DEF Checkpoint, Memory
  <2>2. snapshot'[p] = Memory(p)'
    BY <2>1 DEF Types, TypesOfPeers
  <2>3. draft'[p] = "ongoing"
    BY <1>9, <1>10 DEF Untorn, Saved
  <2> QED BY <1>9, <1>10, <2>2, <2>3 DEF Saved, Filed
<1>18. Still(Rival(p))
  <2>1. snapshot'[Rival(p)] = snapshot[Rival(p)]
    BY <1>0, <1>3 DEF Checkpoint, Types, TypesOfPeers
  <2> QED BY <1>0, <1>1, <1>2, <1>3, <1>8, <2>1 DEF Still, Types, TypesOfPeers
<1>19. turns'[Rival(p)] = turns[Rival(p)] /\ late' = late
  BY <1>0, <1>1, <1>3 DEF Types, TypesOfWire
<1>20. Mail(p)' \subseteq Mail(p) /\ Mail(Rival(p))' = Mail(Rival(p))
  BY <1>1, <1>19 DEF Mail
<1> QED BY <1>1, <1>5, <1>6, <1>7, <1>9, <1>13, <1>14, <1>15, <1>16, <1>17, <1>18, <1>20

LEMMA PoliceAbsorbs ==
  ASSUME Types, Untorn, AbsorbTurn("police")
  PROVE  Untorn'
<1> DEFINE m == Message("police")
<1>1. /\ Playing("police") /\ Kept("police") = Memory("police")
      /\ pc["police"] = "loop"
      /\ m = Latest("thief") /\ Latest("thief") # None
      /\ Made("thief") = Heard("police") + 1 /\ Heard("thief") = Made("police")
      /\ Heard("police") = Made("police")
  BY PoliceHears DEF AbsorbTurn
<1>2. m.barrier_placed = None
  BY <1>1 DEF Untorn, ThiefSide
<1>3. /\ Kept("police").barriers = own["police"].barriers
      /\ Kept("police").turns_completed = own["police"].turns_completed
      /\ Kept("police").response = response["police"]
  BY <1>1, Names, KeptFields
<1>4. /\ Kept("police").turns_completed = Heard("police") /\ Kept("police").response = None
      /\ draft["police"] = "ongoing"
  BY <1>1 DEF Untorn, PoliceSide
<1>5. /\ Kept("police")'.barriers = own["police"].barriers
      /\ Kept("police")'.turns_completed
              = own["police"].turns_completed + (IF ~Caught(m.claim_response) THEN 1 ELSE 0)
      /\ Kept("police")'.next_actor = "police"
      /\ Kept("police")'.response = Answer("police", m)
      /\ Kept("police")'.consumed = 1 .. Heard("police") + 1
      /\ Made("police")' = Made("police") /\ Heard("police")' = Heard("police") + 1
      /\ Latest("police")' = Latest("police")
      /\ own'["police"].outcome = Ended("police", m) /\ draft'["police"] = draft["police"]
      /\ Saved("police")' /\ Still("thief")
      /\ Mail("police")' \subseteq Mail("police") /\ Mail("thief")' = Mail("thief")
  <2>1. AbsorbTurn("police")
    OBVIOUS
  <2>2. Kept("police")'.barriers
          = own["police"].barriers
              \cup (IF m.barrier_placed = None THEN {} ELSE {m.barrier_placed.cell})
    BY <2>1, Names, AbsorbEffect
  <2>3. Kept("police")'.barriers = own["police"].barriers
    BY <1>2, <2>2
  <2>4. Kept("police")'.turns_completed
          = own["police"].turns_completed + (IF ~Caught(m.claim_response) THEN 1 ELSE 0)
    BY <2>1, Names, AbsorbEffect
  <2> HIDE DEF m
  <2>5. m = Message("police")
    BY DEF m
  <2> QED BY <2>1, <2>3, <2>4, <2>5, Names, AbsorbEffect
<1>6. /\ Kept("thief")' = Kept("thief") /\ Made("thief")' = Made("thief")
      /\ Heard("thief")' = Heard("thief") /\ Latest("thief")' = Latest("thief")
      /\ Playing("thief")' = Playing("thief") /\ Won("thief")' = Won("thief")
      /\ Saved("thief")'
  BY <1>5, Names, StillFacts DEF Untorn
<1>7. Answer("police", m) = None
  BY <1>3, <1>4, Names DEF Answer
<1>8. /\ Made("police") \in Nat /\ Heard("police") \in Nat
      /\ Made("thief") \in Nat /\ Heard("thief") \in Nat
  BY Names, KeptTypes
<1>9. Ended("police", m) = "survival" => m.win_claim
  <2>1. CASE Caught(m.claim_response)
    BY <2>1 DEF Ended
  <2>2. CASE ~Caught(m.claim_response)
    <3>1. Noted("police", m).turns_completed = Made("thief")
      <4>1. m \in Msg /\ own["police"] \in OwnState /\ WallAccepted(own["police"], m.barrier_placed)
        BY Names, TakeTypes DEF AbsorbTurn, Types, TypesOfPeers
      <4>2. Noted("police", m).turns_completed = own["police"].turns_completed + 1
        BY <2>2, <4>1, Names, NotedFacts
      <4> QED BY <1>1, <1>3, <1>4, <4>2
    <3>2. SurvivalReached(Noted("police", m)) => Reached(Made("thief"))
      BY <3>1 DEF SurvivalReached, Reached
    <3>3. Reached(Made("thief")) => m.win_claim
      BY <1>1, <2>2 DEF Untorn, ThiefSide
    <3> QED BY <2>2, <3>2, <3>3 DEF Ended
  <2> QED BY <2>1, <2>2
<1>10. Ended("police", m) = "ongoing" => ~Caught(m.claim_response) /\ ~m.win_claim
  BY DEF Ended
<1> HIDE DEF m
<1>11. Books("police")'
  BY <1>5, <1>8, Names DEF Untorn, Books
<1>12. Books("thief")'
  BY <1>6, Names DEF Untorn, Books
<1>13. Order'
  BY <1>1, <1>5, <1>6, <1>8 DEF Order
<1>14. PoliceSide'
  <2>1. Won("police")' => Latest("thief").win_claim
    BY <1>1, <1>4, <1>5, <1>9 DEF Won
  <2>2. Playing("police")' => ~Caught(Latest("thief").claim_response) /\ ~Latest("thief").win_claim
    BY <1>1, <1>5, <1>10 DEF Playing
  <2>3. Heard("police")' # Made("police")'
    BY <1>1, <1>5, <1>8
  <2>4. Latest("police")' # None => /\ Latest("police")'.claim_response = None
                                    /\ ~Latest("police")'.win_claim
    BY <1>5 DEF Untorn, PoliceSide
  <2>5. Playing("police")' => Kept("police")'.turns_completed = Heard("police")'
    BY <1>1, <1>3, <1>4, <1>5, <2>2
  <2> QED BY <1>1, <1>4, <1>5, <1>6, <1>7, <2>1, <2>2, <2>3, <2>4, <2>5 DEF PoliceSide
<1>15. ThiefSide'
  BY <1>5, <1>6 DEF Untorn, ThiefSide
<1>16. Walls'
  BY <1>3, <1>5, <1>6 DEF Untorn, Walls
<1>17. Claims'
  BY <1>5, <1>6 DEF Untorn, Claims
<1>18. \A x \in Mail("police")' : Genuine("thief", x)'
  BY <1>5, <1>6, Names, MailStill
<1>19. \A x \in Mail("thief")' : Genuine("police", x)'
  BY <1>5, Names, MailStill
<1>20. Posted'
  BY <1>18, <1>19, Names DEF Posted
<1> QED BY <1>5, <1>6, <1>11, <1>12, <1>13, <1>14, <1>15, <1>16, <1>17, <1>20, Names
    DEF Untorn

LEMMA ThiefEnded ==
  ASSUME ~Message("thief").win_claim
  PROVE  Ended("thief", Message("thief")) = "ongoing"
BY Names DEF Ended

\* The claim of the message the thief takes, in the answer it owes.
LEMMA ThiefAnswers ==
  ASSUME ~Message("thief").win_claim, Message("thief").capture_claim # None
  PROVE  /\ Answer("thief", Message("thief")) # None
         /\ Answer("thief", Message("thief")).claim = Message("thief").capture_claim.cell
<1>1. Answer("thief", Message("thief"))
        = AnswerCaptureClaim(own["thief"], Message("thief").capture_claim)
  BY ThiefEnded DEF Answer
<1>2. PICK c, b : Answer("thief", Message("thief")) = [claim |-> c, caught |-> b]
                  /\ c = Message("thief").capture_claim.cell
  BY <1>1 DEF AnswerCaptureClaim
<1>3. [claim |-> c, caught |-> b] # None
  BY DEF None
<1> QED BY <1>2, <1>3

LEMMA ThiefAbsorbs ==
  ASSUME Types, Untorn, AbsorbTurn("thief")
  PROVE  Untorn'
<1> DEFINE m == Message("thief")
<1>1. /\ Playing("thief") /\ Kept("thief") = Memory("thief")
      /\ pc["thief"] = "loop"
      /\ m = Latest("police") /\ Latest("police") # None
      /\ Made("police") = Heard("thief") + 1 /\ Made("thief") = Heard("thief") + 1
      /\ Heard("police") = Heard("thief") + 1
      /\ ~Caught(m.claim_response) /\ ~m.win_claim
  BY ThiefHears DEF AbsorbTurn
<1>2. /\ Kept("thief").barriers = own["thief"].barriers
      /\ Kept("thief").turns_completed = own["thief"].turns_completed
  BY <1>1, Names, KeptFields
<1>3. /\ Kept("thief").turns_completed = Made("thief")
      /\ Latest("thief") # None =>
             ~Caught(Latest("thief").claim_response) /\ ~Latest("thief").win_claim
  BY <1>1 DEF Untorn, ThiefSide
<1>4. Ended("thief", m) = "ongoing"
  BY <1>1, ThiefEnded
<1>5. ~Caught(Answer("thief", m))
  BY <1>4, Names DEF AbsorbTurn, MustConcede
<1>6. /\ Kept("thief")'.barriers
              = own["thief"].barriers
                  \cup (IF m.barrier_placed = None THEN {} ELSE {m.barrier_placed.cell})
      /\ Kept("thief")'.turns_completed = own["thief"].turns_completed
      /\ Kept("thief")'.next_actor = "thief"
      /\ Kept("thief")'.response = Answer("thief", m)
      /\ Kept("thief")'.consumed = 1 .. Heard("thief") + 1
      /\ Made("thief")' = Made("thief") /\ Heard("thief")' = Heard("thief") + 1
      /\ Latest("thief")' = Latest("thief")
      /\ own'["thief"].outcome = Ended("thief", m) /\ draft'["thief"] = draft["thief"]
      /\ Saved("thief")' /\ Still("police")
      /\ Mail("thief")' \subseteq Mail("thief") /\ Mail("police")' = Mail("police")
  <2>1. own["thief"].turns_completed \in Nat
    BY Names DEF Types, TypesOfPeers, OwnState
  <2> QED BY <2>1, Names, AbsorbEffect
<1>7. /\ Kept("police")' = Kept("police") /\ Made("police")' = Made("police")
      /\ Heard("police")' = Heard("police") /\ Latest("police")' = Latest("police")
      /\ Playing("police")' = Playing("police") /\ Won("police")' = Won("police")
      /\ Saved("police")' /\ draft'["police"] = draft["police"]
  BY <1>6, Names, StillFacts DEF Untorn, Still
<1>8. /\ Made("police") \in Nat /\ Heard("police") \in Nat
      /\ Made("thief") \in Nat /\ Heard("thief") \in Nat
  BY Names, KeptTypes
<1>9. m.capture_claim # None =>
        /\ Answer("thief", m) # None
        /\ Answer("thief", m).claim = m.capture_claim.cell
  BY <1>1, ThiefAnswers
<1> HIDE DEF m
<1>10. Books("thief")'
  BY <1>6, <1>8, Names DEF Untorn, Books
<1>11. Books("police")'
  BY <1>7, Names DEF Untorn, Books
<1>12. Order'
  BY <1>1, <1>6, <1>7, <1>8 DEF Order
<1>13. PoliceSide'
  BY <1>6, <1>7 DEF Untorn, PoliceSide
<1>14. ThiefSide'
  <2>1. draft["thief"] = "ongoing" /\ ~Won("thief")'
    BY <1>1, <1>4, <1>6 DEF Playing, Won
  <2>2. Made("thief")' = Heard("thief")'
    BY <1>1, <1>6
  <2>3. Latest("thief")' # None =>
          /\ Latest("thief")'.barrier_placed = None
          /\ ~Caught(Latest("thief")'.claim_response) =>
               (Latest("thief")'.win_claim <=> Reached(Made("thief")'))
          /\ ~Caught(Latest("thief")'.claim_response) /\ ~Latest("thief")'.win_claim
    BY <1>3, <1>6 DEF Untorn, ThiefSide
  <2>4. Kept("thief")'.turns_completed = Made("thief")'
    BY <1>2, <1>3, <1>6
  <2> QED BY <1>5, <1>6, <2>1, <2>2, <2>3, <2>4 DEF ThiefSide
<1>15. Walls'
  <2>1. Made("police") # Heard("thief")
    BY <1>1, <1>8
  <2>2. Made("police")' = Heard("thief")'
    BY <1>1, <1>6, <1>7
  <2>3. CASE m.barrier_placed = None
    <3>1. Kept("police").barriers = Kept("thief").barriers
      BY <1>1, <2>3 DEF Untorn, Walls
    <3> QED BY <1>2, <1>6, <1>7, <2>2, <2>3, <3>1 DEF Walls
  <2>4. CASE m.barrier_placed # None
    <3>1. Kept("police").barriers = Kept("thief").barriers \cup {m.barrier_placed.cell}
      BY <1>1, <2>1, <2>4 DEF Untorn, Walls
    <3> QED BY <1>2, <1>6, <1>7, <2>2, <2>4, <3>1 DEF Walls
  <2> QED BY <2>3, <2>4
<1>16. Claims'
  <2>1. Made("thief")' = Heard("thief")'
    BY <1>1, <1>6
  <2> QED BY <1>1, <1>6, <1>7, <1>9, <2>1 DEF Claims
<1>17. \A x \in Mail("thief")' : Genuine("police", x)'
  BY <1>6, <1>7, Names, MailStill
<1>18. \A x \in Mail("police")' : Genuine("thief", x)'
  BY <1>6, Names, MailStill
<1>19. Posted'
  BY <1>17, <1>18, Names DEF Posted
<1> QED BY <1>6, <1>7, <1>10, <1>11, <1>12, <1>13, <1>14, <1>15, <1>16, <1>19, Names
    DEF Untorn

\* The closure a thief sends that has to concede.
LEMMA ConcedeEffect ==
  ASSUME Types, Untorn, ConcedeTurn("thief")
  PROVE  \E answer \in Response, n \in OwnState, win \in BOOLEAN :
           /\ Caught(answer) /\ ~win
           /\ Seal("thief", n, MoveAction("STAY"), None, answer, win, "capture")
           /\ n.outcome = "ongoing" /\ n.next_actor = "thief"
           /\ n.barriers = own["thief"].barriers
                 \cup (IF Message("thief").barrier_placed = None THEN {}
                       ELSE {Message("thief").barrier_placed.cell})
<1>1. PICK m \in Msg : m = Message("thief")
  BY Names, TakeTypes DEF ConcedeTurn
<1>2. own["thief"] \in OwnState /\ WallAccepted(own["thief"], m.barrier_placed)
      /\ own["thief"].outcome = "ongoing"
  BY <1>1, Names DEF ConcedeTurn, TakeTurn, Expecting, Ongoing, Types, TypesOfPeers
<1>3. PICK n \in OwnState :
        /\ n = Noted("thief", m) /\ n.outcome = "ongoing" /\ n.next_actor = "thief"
        /\ n.barriers
             = own["thief"].barriers
                 \cup (IF m.barrier_placed = None THEN {} ELSE {m.barrier_placed.cell})
  BY <1>2, Names, NotedFacts
<1>4. PICK answer : answer = IF Caught(Answer("thief", m)) THEN Answer("thief", m)
                             ELSE ConcedeDeclaration(own["thief"])
  OBVIOUS
<1>5. answer \in Response /\ Caught(answer)
  BY <1>2, <1>4, Names, AnswerFacts, ConcedeFacts
<1>6. PICK win \in BOOLEAN : win = FALSE
  OBVIOUS
<1>7. Seal("thief", n, MoveAction("STAY"), None, answer, win, "capture")
  BY <1>1, <1>3, <1>4, <1>6 DEF ConcedeTurn
<1> QED BY <1>1, <1>3, <1>5, <1>6, <1>7

LEMMA ConcedeTurnKeeps ==
  ASSUME Types, Untorn, NEW p \in Role, ConcedeTurn(p)
  PROVE  Untorn'
<1> DEFINE m == Message("thief")
<1>0. p = "thief"
  BY DEF ConcedeTurn, MustConcede
<1>1. /\ Playing("thief") /\ Kept("thief") = Memory("thief")
      /\ pc["thief"] = "loop"
      /\ m = Latest("police") /\ Latest("police") # None
      /\ Made("police") = Heard("thief") + 1 /\ Made("thief") = Heard("thief") + 1
      /\ Heard("police") = Heard("thief") + 1
  BY <1>0, ThiefHears DEF ConcedeTurn
<1>2. PICK answer \in Response, n \in OwnState, win \in BOOLEAN :
           /\ Caught(answer) /\ ~win
           /\ Seal("thief", n, MoveAction("STAY"), None, answer, win, "capture")
           /\ n.outcome = "ongoing"
           /\ n.barriers = own["thief"].barriers
                 \cup (IF m.barrier_placed = None THEN {} ELSE {m.barrier_placed.cell})
  BY <1>0, ConcedeEffect
<1>3. /\ turns' = [turns EXCEPT !["thief"] = Tail(turns["thief"])]
      /\ Range(turns'["thief"]) \subseteq Range(turns["thief"])
      /\ consumed' = [consumed EXCEPT !["thief"] = consumed["thief"] \cup {Len(their["thief"]) + 1}]
      /\ \E h \in HeardRec : their' = [their EXCEPT !["thief"] = Append(their["thief"], h)]
  BY <1>0, Names, TakeTypes DEF ConcedeTurn
<1>4. PICK h \in HeardRec : their' = [their EXCEPT !["thief"] = Append(their["thief"], h)]
  BY <1>3
<1>5. UNCHANGED <<snapshot, late>>
  BY <1>0 DEF ConcedeTurn, TakeTurn
<1> HIDE DEF m
<1>6. /\ their'["thief"] = Append(their["thief"], h)
      /\ consumed'["thief"] = consumed["thief"] \cup {Len(their["thief"]) + 1}
      /\ their'["police"] = their["police"] /\ consumed'["police"] = consumed["police"]
      /\ turns'["police"] = turns["police"]
  BY <1>3, <1>4, Names DEF Types, TypesOfPeers, TypesOfWire
<1>7. /\ Kept("thief").barriers = own["thief"].barriers
      /\ Kept("thief").consumed = consumed["thief"]
      /\ Heard("thief") = Len(their["thief"])
  BY <1>1, Names, KeptFields
<1>8. Len(Append(their["thief"], h)) = Len(their["thief"]) + 1
  BY Names, AppendProperties DEF Types, TypesOfPeers
<1>9. "capture" \in Outcome
  BY DEF Outcome
<1>10. /\ Kept("thief")'.barriers = n.barriers
       /\ Kept("thief")'.response = None
       /\ Kept("thief")'.consumed = consumed'["thief"]
       /\ Made("thief")' = Made("thief") + 1 /\ Heard("thief")' = Len(their'["thief"])
       /\ Latest("thief")' # None /\ Latest("thief")'.step = Made("thief") + 1
       /\ Latest("thief")'.sender = "thief"
       /\ Latest("thief")'.claim_response = answer
       /\ Latest("thief")'.win_claim = win
       /\ Latest("thief")'.barrier_placed = None
       /\ own'["thief"] = n /\ draft'["thief"] = "capture" /\ pc'["thief"] = "sending"
  BY <1>1, <1>2, <1>9, Names, NonePlace, StayFacts, SealEffect
<1>11. Heard("thief")' = Heard("thief") + 1
  BY <1>6, <1>7, <1>8, <1>10
<1>12. Still("police")
  BY <1>2, <1>5, <1>6, Names, SealStill
<1>13. /\ Kept("police")' = Kept("police") /\ Made("police")' = Made("police")
       /\ Heard("police")' = Heard("police") /\ Latest("police")' = Latest("police")
       /\ Playing("police")' = Playing("police") /\ Won("police")' = Won("police")
       /\ Saved("police")' /\ draft'["police"] = draft["police"]
  BY <1>12, Names, StillFacts DEF Untorn, Still
<1>14. /\ Made("police") \in Nat /\ Heard("police") \in Nat
       /\ Made("thief") \in Nat /\ Heard("thief") \in Nat
  BY Names, KeptTypes
<1>15. Latest("thief") # None =>
             ~Caught(Latest("thief").claim_response) /\ ~Latest("thief").win_claim
  BY <1>1 DEF Untorn, ThiefSide
<1>16. Saved("thief")'
  BY <1>2, <1>10, Names, SavedSending
<1>17. Books("thief")'
  <2>1. consumed["thief"] = 1 .. Heard("thief")
    BY <1>7, Names DEF Untorn, Books
  <2>2. (1 .. Heard("thief")) \cup {Heard("thief") + 1} = 1 .. Heard("thief") + 1
    BY <1>14
  <2>3. Kept("thief")'.consumed = 1 .. Heard("thief")'
    BY <1>6, <1>7, <1>10, <1>11, <2>1, <2>2
  <2> QED BY <1>10, <1>14, <2>3 DEF Books
<1>18. Books("police")'
  BY <1>13, Names DEF Untorn, Books
<1>19. Order'
  BY <1>1, <1>10, <1>11, <1>13, <1>14 DEF Order
<1>20. PoliceSide'
  <2>1. Heard("police")' # Made("thief")'
    BY <1>1, <1>10, <1>13, <1>14
  <2>2. ~Won("police")'
    BY <1>13, <1>15 DEF Untorn, PoliceSide
  <2> QED BY <1>13, <2>1, <2>2 DEF Untorn, PoliceSide
<1>21. ThiefSide'
  <2>1. ~Playing("thief")' /\ ~Won("thief")'
    BY <1>2, <1>10 DEF Playing, Won
  <2> QED BY <1>2, <1>10, <2>1 DEF ThiefSide
<1>22. Walls'
  <2>1. Made("police") # Heard("thief")
    BY <1>1, <1>14
  <2>2. Made("police")' = Heard("thief")'
    BY <1>1, <1>11, <1>13
  <2>3. CASE m.barrier_placed = None
    <3>1. Kept("police").barriers = Kept("thief").barriers
      BY <1>1, <2>3 DEF Untorn, Walls
    <3> QED BY <1>2, <1>7, <1>10, <1>13, <2>2, <2>3, <3>1 DEF Walls
  <2>4. CASE m.barrier_placed # None
    <3>1. Kept("police").barriers = Kept("thief").barriers \cup {m.barrier_placed.cell}
      BY <1>1, <2>1, <2>4 DEF Untorn, Walls
    <3> QED BY <1>2, <1>7, <1>10, <1>13, <2>2, <2>4, <3>1 DEF Walls
  <2> QED BY <2>3, <2>4
<1>23. Claims'
  <2>1. Made("thief")' # Heard("thief")'
    BY <1>1, <1>10, <1>11, <1>14
  <2>2. answer # None /\ answer.caught
    BY <1>2 DEF Caught
  <2> QED BY <1>10, <2>1, <2>2 DEF Claims
<1>24. Mail("thief")' \subseteq Mail("thief") /\ Mail("police")' = Mail("police")
  BY <1>3, <1>5, <1>6 DEF Mail
<1>25. \A x \in Mail("police")' : Genuine("thief", x)'
  BY <1>10, <1>15, <1>24, Names, MailOutdated
<1>26. \A x \in Mail("thief")' : Genuine("police", x)'
  BY <1>13, <1>24, Names, MailStill
<1>27. Posted'
  BY <1>25, <1>26, Names DEF Posted
<1> QED BY <1>13, <1>16, <1>17, <1>18, <1>19, <1>20, <1>21, <1>22, <1>23, <1>27, Names
    DEF Untorn

LEMMA RefuseTurnNever ==
  ASSUME Types, Untorn, NEW p \in Role
  PROVE  ~RefuseTurn(p)
BY WallsAccepted DEF RefuseTurn

-----------------------------------------------------------------------------
(* The inductive invariant *)

LEMMA UntornInit == Init => HInv
<1> SUFFICES ASSUME Init PROVE HInv
  OBVIOUS
<1>1. Types
  BY TypesInit
<1>2. /\ pc["police"] = "loop" /\ pc["thief"] = "loop"
      /\ own["police"] = NewOwn("police") /\ own["thief"] = NewOwn("thief")
      /\ draft["police"] = "ongoing" /\ draft["thief"] = "ongoing"
      /\ \A p \in Role : /\ pc[p] = "loop" /\ own[p] = NewOwn(p) /\ draft[p] = "ongoing"
                         /\ response[p] = None /\ records[p] = << >> /\ their[p] = << >>
                         /\ consumed[p] = {} /\ last_sent[p] = None /\ snapshot[p] = None
                         /\ turns[p] = << >>
      /\ late = {}
  BY Names DEF Init
<1>3. ASSUME NEW p \in Role
      PROVE  /\ Made(p) = 0 /\ Heard(p) = 0 /\ Latest(p) = None /\ Kept(p).response = None
             /\ Kept(p).barriers = {} /\ Kept(p).turns_completed = 0
             /\ Kept(p).next_actor = "thief" /\ Kept(p).consumed = {}
             /\ ~Won(p) /\ Memory(p) = Fresh(p) /\ own[p].outcome = "ongoing"
  <2>1. /\ own[p].barriers = {} /\ own[p].turns_completed = 0
        /\ own[p].next_actor = "thief" /\ own[p].outcome = "ongoing"
    BY <1>2, NewOwnFacts
  <2>2. Memory(p) = Fresh(p)
    BY <1>2 DEF Memory, Fresh
  <2>3. ~Won(p)
    BY <1>2, <2>1 DEF Won
  <2>4. Len(records[p]) = 0 /\ Len(their[p]) = 0
    BY <1>2
  <2>5. pc[p] # "down"
    BY <1>2
  <2> QED BY <1>2, <2>1, <2>2, <2>3, <2>4, <2>5, KeptFields
<1>4. \A p \in Role : Saved(p)
  BY <1>2, <1>3 DEF Saved, Filed, Playing, Ongoing
<1>5. \A p \in Role : Books(p)
  <2> SUFFICES ASSUME NEW p \in Role PROVE Books(p)
    OBVIOUS
  <2>1. 1 .. 0 = {}
    OBVIOUS
  <2>2. Kept(p).consumed = 1 .. Heard(p)
    BY <1>3, <2>1
  <2> QED BY <1>3, <2>2 DEF Books
<1>6. Order
  BY <1>3, Names DEF Order
<1>7. PoliceSide
  BY <1>2, <1>3, Names DEF PoliceSide
<1>8. ThiefSide
  BY <1>3, Names, NonePlace DEF ThiefSide
<1>9. Walls
  BY <1>3, Names DEF Walls
<1>10. Claims
  BY <1>3, Names DEF Claims
<1>11. Posted
  BY <1>2 DEF Posted, Mail, Range
<1> QED BY <1>1, <1>4, <1>5, <1>6, <1>7, <1>8, <1>9, <1>10, <1>11 DEF HInv, Untorn

LEMMA UntornStep ==
  ASSUME Types, Untorn, [Next]_vars, ~torn'
  PROVE  Untorn'
<1>1. CASE UNCHANGED vars
  <2>1. /\ UNCHANGED <<pc, own, draft, records, their, consumed, response, last_sent,
                       snapshot, turns, late>>
    BY <1>1 DEF vars, memory, log, boxes
  <2>2. \A p \in Role : Still(p)
    BY <2>1 DEF Still
  <2> QED BY <2>1, <2>2, Names, StillFacts, MailKept, QuietStep DEF Untorn, Still
<1>2. ASSUME NEW p \in Role, Program(p)
      PROVE  Untorn'
  <2>1. CASE DecidePolice(p) \/ DecideThief(p)
    BY <2>1, DecidePoliceKeeps, DecideThiefKeeps
  <2>2. CASE Send(p) \/ AfterSend(p) \/ ReceiveDuplicate(p)
    BY <2>2, SendKeeps, AfterSendKeeps, ReceiveDuplicateKeeps
  <2>3. CASE RefuseTurn(p) \/ ConcedeTurn(p)
    BY <2>3, RefuseTurnNever, ConcedeTurnKeeps
  <2>4. CASE AbsorbTurn(p)
    BY <2>4, Names, PoliceAbsorbs, ThiefAbsorbs
  <2>5. CASE SendFinalAudit(p) \/ ReceiveAudit(p) \/ EmergencyAudit(p)
    BY <2>5, SendFinalAuditKeeps, ReceiveAuditKeeps, EmergencyAuditKeeps
  <2>6. CASE OfferResume(p) \/ AnswerOffer(p) \/ LapseOverdue(p)
    BY <2>6, OfferResumeKeeps, AnswerOfferKeeps, LapseOverdueKeeps
  <2> QED BY <1>2, <2>1, <2>2, <2>3, <2>4, <2>5, <2>6 DEF Program
<1>3. ASSUME NEW p \in Role, LapseSlow(p) \/ Crash(p) \/ Restart(p)
      PROVE  Untorn'
  BY <1>3, LapseSlowKeeps, CrashKeeps, RestartKeeps
<1>4. ASSUME NEW m \in late, DeliverLate(m)
      PROVE  Untorn'
  BY <1>4, DeliverLateKeeps
<1> QED BY <1>1, <1>2, <1>3, <1>4 DEF Next

\* What was cut off once stays cut off.
LEMMA TornStays == [Next]_vars /\ ~torn' => ~torn
<1> SUFFICES ASSUME [Next]_vars, ~torn' PROVE ~torn
  OBVIOUS
<1>1. CASE UNCHANGED vars
  BY <1>1 DEF vars, budgets
<1>2. ASSUME NEW p \in Role, Program(p)
      PROVE  ~torn
  <2>1. CASE DecidePolice(p) \/ DecideThief(p) \/ Send(p) \/ AfterSend(p) \/ ReceiveDuplicate(p)
    BY <2>1 DEF DecidePolice, DecideThief, Send, AfterSend, ReceiveDuplicate, budgets
  <2>2. CASE RefuseTurn(p) \/ ConcedeTurn(p) \/ AbsorbTurn(p)
    BY <2>2 DEF RefuseTurn, ConcedeTurn, AbsorbTurn, TakeTurn, budgets
  <2>3. CASE SendFinalAudit(p) \/ ReceiveAudit(p) \/ EmergencyAudit(p)
    BY <2>3 DEF SendFinalAudit, ReceiveAudit, EmergencyAudit, budgets
  <2>4. CASE OfferResume(p) \/ AnswerOffer(p) \/ LapseOverdue(p)
    BY <2>4 DEF OfferResume, AnswerOffer, LapseOverdue, budgets
  <2> QED BY <1>2, <2>1, <2>2, <2>3, <2>4 DEF Program
<1>3. ASSUME NEW p \in Role, LapseSlow(p) \/ Crash(p) \/ Restart(p)
      PROVE  ~torn
  BY <1>3 DEF LapseSlow, Crash, Restart, budgets
<1>4. ASSUME NEW m \in late, DeliverLate(m)
      PROVE  ~torn
  BY <1>4 DEF DeliverLate, budgets
<1> QED BY <1>1, <1>2, <1>3, <1>4 DEF Next

LEMMA HInvStep == HInv /\ [Next]_vars => HInv'
<1> SUFFICES ASSUME HInv, [Next]_vars PROVE HInv'
  OBVIOUS
<1>1. Types'
  BY TypesStep DEF HInv
<1>2. ASSUME ~torn' PROVE Untorn'
  <2>1. ~torn
    BY <1>2, TornStays
  <2> QED BY <1>2, <2>1, UntornStep DEF HInv
<1> QED BY <1>1, <1>2 DEF HInv

\* What two peers have lived stays of one piece in every run whose half-turns
\* were not cut off: the turn token, the two numberings, the walls, the claims
\* and the copies under way, through crashes, restarts, lapses and duplicates.
THEOREM HiddenInvariant == Spec => []HInv
<1>1. HInv /\ [Next]_vars => HInv'
  BY HInvStep
<1> QED BY UntornInit, <1>1, PTL DEF Spec

-----------------------------------------------------------------------------
(* What it says of walls, survival and claims *)

\* The two records of the walls never drift apart, whatever is killed and
\* resumed in between.
THEOREM WallsHold == Spec => []WallsAgree
<1>1. HInv => WallsAgree
  <2> SUFFICES ASSUME HInv, ~torn, \A p \in Role : Loaded(p)
               PROVE  /\ own["thief"].barriers \subseteq own["police"].barriers
                      /\ Cardinality(own["police"].barriers) <= Cardinality(own["thief"].barriers) + 1
    BY DEF WallsAgree
  <2>1. Types /\ Untorn
    BY DEF HInv
  <2>2. /\ Kept("police").barriers = own["police"].barriers
        /\ Kept("thief").barriers = own["thief"].barriers
        /\ Latest("police") = last_sent["police"]
    BY Names, KeptFields DEF Loaded
  <2>3. /\ own["police"].barriers \in SUBSET Cell /\ own["thief"].barriers \in SUBSET Cell
    BY <2>1, <2>2, Names, KeptTypes
  <2>4. CASE Made("police") = Heard("thief") \/ Latest("police").barrier_placed = None
    <3>1. own["police"].barriers = own["thief"].barriers
      BY <2>1, <2>2, <2>4 DEF Untorn, Walls
    <3>2. CopStart \in Cell
      BY PhysicsAssumption
    <3>3. Cardinality(own["thief"].barriers) \in Nat
      BY <2>3, <3>2, OneMoreWall
    <3> QED BY <3>1, <3>3
  <2>5. CASE ~(Made("police") = Heard("thief") \/ Latest("police").barrier_placed = None)
    <3>1. own["police"].barriers
            = own["thief"].barriers \cup {Latest("police").barrier_placed.cell}
      BY <2>1, <2>2, <2>5 DEF Untorn, Walls
    <3>2. PICK c : c = Latest("police").barrier_placed.cell
      OBVIOUS
    <3>3. c \in Cell
      BY <2>3, <3>1, <3>2
    <3> QED BY <2>3, <3>1, <3>2, <3>3, OneMoreWall
  <2> QED BY <2>4, <2>5
<1> QED BY <1>1, HiddenInvariant, PTL

\* A game taken for survived was survived.
THEOREM SurvivalHolds == Spec => []SurvivalIsTrue
<1>1. HInv => SurvivalIsTrue
  <2> SUFFICES ASSUME HInv, ~torn, \A p \in Role : Loaded(p),
                      NEW p \in Role, own[p].outcome = "survival"
               PROVE  /\ own["thief"].cell \notin own["police"].barriers
                      /\ \E move \in OrthogonalMoves :
                           IsPassable(own["police"].barriers, AppliedTo(move, own["thief"].cell))
    BY DEF SurvivalIsTrue
  <2>1. Types /\ Untorn
    BY DEF HInv
  <2>2. Won(p)
    BY DEF Won
  <2>3. Latest("thief") # None /\ Latest("thief").win_claim
    BY <2>1, <2>2, Names DEF Untorn, PoliceSide, ThiefSide
  <2>4. ~IAmCaptured(Kept("thief")) /\ Made("police") = Heard("thief")
    BY <2>1, <2>3 DEF Untorn, ThiefSide
  <2>5. Kept("police").barriers = Kept("thief").barriers
    BY <2>1, <2>4 DEF Untorn, Walls
  <2>6. /\ Kept("police").barriers = own["police"].barriers
        /\ Kept("thief").cell = own["thief"].cell
    BY Names, KeptFields DEF Loaded
  <2> QED BY <2>4, <2>5, <2>6 DEF IAmCaptured, IsSurrounded
<1> QED BY <1>1, HiddenInvariant, PTL

\* Only a taken message adds to the rival's records of a running police.
LEMMA HearingIsTaking ==
  ASSUME Types, [Next]_vars, pc["police"] = "loop",
         Len(their'["police"]) > Len(their["police"])
  PROVE  TakeTurn("police")
<1>1. Len(their["police"]) \in Nat
  BY Names, LenProperties DEF Types, TypesOfPeers
<1>2. their'["police"] # their["police"]
  BY <1>1
<1>3. CASE UNCHANGED vars
  BY <1>2, <1>3 DEF vars, memory, log
<1>4. ASSUME NEW p \in Role, Program(p)
      PROVE  TakeTurn("police")
  <2>1. CASE DecidePolice(p) \/ DecideThief(p) \/ Send(p) \/ AfterSend(p) \/ ReceiveDuplicate(p)
    BY <1>2, <2>1 DEF DecidePolice, DecideThief, Send, AfterSend, ReceiveDuplicate, memory, log
  <2>2. CASE RefuseTurn(p) \/ ConcedeTurn(p) \/ AbsorbTurn(p)
    <3>1. TakeTurn(p)
      BY <2>2 DEF RefuseTurn, ConcedeTurn, AbsorbTurn
    <3>2. CASE p = "thief"
      <4>1. \E h : their' = [their EXCEPT !["thief"] = Append(their["thief"], h)]
        BY <3>1, <3>2, Names, TakeTypes
      <4>2. their'["police"] = their["police"]
        BY <4>1, Names DEF Types, TypesOfPeers
      <4> QED BY <1>2, <4>2
    <3> QED BY <3>1, <3>2, Names
  <2>3. CASE SendFinalAudit(p) \/ ReceiveAudit(p) \/ EmergencyAudit(p)
    BY <1>2, <2>3 DEF SendFinalAudit, ReceiveAudit, EmergencyAudit, memory, log
  <2>4. CASE OfferResume(p) \/ AnswerOffer(p) \/ LapseOverdue(p)
    BY <1>2, <2>4 DEF OfferResume, AnswerOffer, LapseOverdue, memory, log
  <2> QED BY <1>4, <2>1, <2>2, <2>3, <2>4 DEF Program
<1>5. ASSUME NEW p \in Role, LapseSlow(p) \/ Crash(p) \/ Restart(p)
      PROVE  TakeTurn("police")
  <2>1. CASE LapseSlow(p)
    BY <1>2, <2>1 DEF LapseSlow, log
  <2>2. CASE Crash(p)
    <3>1. their' = [their EXCEPT ![p] = << >>]
      BY <2>2 DEF Crash
    <3>2. their'["police"] \in {<< >>, their["police"]}
      BY <3>1, Names DEF Types, TypesOfPeers
    <3>3. Len(<< >>) = 0
      OBVIOUS
    <3> QED BY <1>1, <3>2, <3>3
  <2>3. CASE Restart(p)
    <3>1. p # "police"
      BY <2>3 DEF Restart
    <3>2. PICK s \in Snap : their' = [their EXCEPT ![p] = s.their]
      <4>1. Restart(p)
        BY <2>3
      <4> QED BY <4>1, RestartEffect
    <3>3. their'["police"] = their["police"]
      BY <3>1, <3>2, Names DEF Types, TypesOfPeers
    <3> QED BY <1>2, <3>3
  <2> QED BY <1>5, <2>1, <2>2, <2>3
<1>6. ASSUME NEW m \in late, DeliverLate(m)
      PROVE  TakeTurn("police")
  BY <1>2, <1>6 DEF DeliverLate, memory, log
<1> QED BY <1>3, <1>4, <1>5, <1>6 DEF Next

\* Every claim is answered by the very next message the police takes.
THEOREM ClaimsAnswered == Spec => EveryClaimAnswered
<1> DEFINE claimed == /\ ~torn /\ pc["police"] = "loop"
                      /\ Len(their'["police"]) > Len(their["police"])
                      /\ last_sent["police"] # None /\ last_sent["police"].capture_claim # None
           answered == LET answer == Message("police").claim_response IN
                       /\ answer # None
                       /\ answer.caught \/ answer.claim = last_sent["police"].capture_claim.cell
<1>1. HInv /\ [Next]_vars => [claimed => answered]_vars
  <2> SUFFICES ASSUME HInv, [Next]_vars, claimed PROVE answered
    OBVIOUS
  <2>1. Types /\ Untorn
    BY DEF HInv
  <2>2. TakeTurn("police")
    BY <2>1, HearingIsTaking
  <2>3. /\ Message("police") = Latest("thief")
        /\ Made("thief") = Heard("police") + 1 /\ Heard("thief") = Made("police")
        /\ Heard("police") = Made("police") /\ pc["police"] = "loop"
    BY <2>1, <2>2, PoliceHears
  <2>4. Latest("police") = last_sent["police"]
    BY <2>3, Names, KeptFields
  <2>5. Made("thief") # Heard("thief")
    BY <2>1, <2>3, Names, KeptTypes
  <2> QED BY <2>1, <2>3, <2>4, <2>5 DEF Untorn, Claims
<1> QED BY <1>1, HiddenInvariant, PTL DEF Spec, EveryClaimAnswered

-----------------------------------------------------------------------------
(* Nothing is lost while nothing is cut off *)

TypesOfRest ==
  /\ controls \in [Role -> Nat]
  /\ audits \in [Role -> Seq(Seq(SealedRec))]
  /\ crashes \in Nat /\ excused \in BOOLEAN
  /\ report = [p \in Role |-> report[p]]

Final(m) == m # None /\ (Caught(m.claim_response) \/ m.win_claim)

\* Nobody is accused of a breach.
Errors ==
  \A p \in Role :
    /\ report[p] # None => report[p].error \in {"none", "deadline"}
    /\ pc[p] = "failed" => report[p] # None

\* Nothing has gone wrong yet.
Fine(p) ==
  /\ pc[p] # "failed"
  /\ report[p] # None => report[p].error = "none"
  /\ audits[p] # << >> => ~Ongoing(Rival(p))
  /\ pc[p] = "done" => ~Ongoing(p) /\ ~Ongoing(Rival(p))
  /\ controls[p] > 0 \/ pc[p] \in {"down", "offering"} => crashes >= 1

Smooth == \A p \in Role : Fine(p)

\* A game is over for a peer only once its final message says so.
Finals ==
  /\ ~Ongoing("police") => Final(Latest("thief"))
  /\ ~Playing("thief") => Final(Latest("thief"))

\* What a playing peer has not heard is in its inbox, unless the sender is about
\* to send it, now or because it is asked to.
Reaches(p) ==
  (/\ Ongoing(p) /\ pc[p] \notin {"down", "offering"}
   /\ Made(Rival(p)) > Heard(p) /\ pc[Rival(p)] # "sending") =>
    Latest(Rival(p)) \in Range(turns[p]) \/ controls[Rival(p)] > 0

Underway == \A p \in Role : Reaches(p)

Flawless == Smooth /\ Finals /\ Underway

FInv ==
  /\ TypesOfRest
  /\ ~torn => Errors
  /\ ~torn /\ crashes <= 1 /\ ~excused => Flawless

-----------------------------------------------------------------------------
(* Nobody is accused, and one crash outside a send costs nothing *)

LEMMA LapsedReport ==
  ASSUME NEW p \in Role, NEW why, Fail(p, why), TypesOfRest
  PROVE  report' = [q \in Role |-> report'[q]] /\ report'[p].error = why
         /\ report'[p] # None /\ report'[Rival(p)] = report[Rival(p)]
<1>1. report' = [report EXCEPT ![p] = [error |-> why]]
  BY DEF Fail
<1>2. PICK r : r = [error |-> why]
  OBVIOUS
<1>3. r.error = why /\ r # None
  BY <1>2 DEF None
<1>4. report = [q \in Role |-> report[q]]
  BY DEF TypesOfRest
<1>5. report' = [q \in Role |-> IF q = p THEN r ELSE report[q]]
  BY <1>1, <1>2, <1>4
<1> QED BY <1>3, <1>5, RivalFacts

LEMMA SettledReport ==
  ASSUME NEW p \in Role, NEW foreign, NEW finding, Settle(p, foreign, finding), TypesOfRest
  PROVE  report' = [q \in Role |-> report'[q]] /\ report'[p].error = "none"
         /\ report'[p] # None /\ report'[Rival(p)] = report[Rival(p)]
<1>1. PICK o, a, b, c : report' = [report EXCEPT ![p] =
         [error |-> "none", outcome |-> o, audit |-> a, match |-> b, disputed |-> c,
          foreign |-> foreign]]
  BY DEF Settle
<1>2. PICK r : r = [error |-> "none", outcome |-> o, audit |-> a, match |-> b,
                    disputed |-> c, foreign |-> foreign]
  OBVIOUS
<1>3. r.error = "none" /\ r # None
  BY <1>2 DEF None
<1>4. report = [q \in Role |-> report[q]]
  BY DEF TypesOfRest
<1>5. report' = [q \in Role |-> IF q = p THEN r ELSE report[q]]
  BY <1>1, <1>2, <1>4
<1> QED BY <1>3, <1>5, RivalFacts

LEMMA LossReport ==
  ASSUME NEW p \in Role, TechnicalLossReport(p), TypesOfRest
  PROVE  report' = [q \in Role |-> report'[q]] /\ report'[p].error = report[p].error
         /\ report'[p] # None /\ report'[Rival(p)] = report[Rival(p)]
<1>1. PICK r : /\ r = [error |-> report[p].error, outcome |-> "technical_loss",
                       audit |-> "not received", match |-> "no", disputed |-> FALSE,
                       foreign |-> FALSE]
  OBVIOUS
<1>2. report' = [report EXCEPT ![p] = r]
  BY <1>1 DEF TechnicalLossReport
<1>3. r.error = report[p].error /\ r # None
  BY <1>1 DEF None
<1>4. report = [q \in Role |-> report[q]]
  BY DEF TypesOfRest
<1>5. report' = [q \in Role |-> IF q = p THEN r ELSE report[q]]
  BY <1>2, <1>4
<1> QED BY <1>3, <1>5, RivalFacts

LEMMA SendAuditEffect ==
  ASSUME Types, TypesOfRest, NEW p \in Role, SendAudit(p)
  PROVE  audits' \in [Role -> Seq(Seq(SealedRec))] /\ audits'[p] = audits[p]
<1>1. Rival(p) \in Role /\ Rival(p) # p
  BY RivalFacts
<1>2. records[p] \in Seq(SealedRec) /\ audits[Rival(p)] \in Seq(Seq(SealedRec))
  BY <1>1 DEF Types, TypesOfPeers, TypesOfRest
<1>3. PICK s \in Seq(Seq(SealedRec)) : s = Append(audits[Rival(p)], records[p])
  BY <1>2, AppendProperties
<1>4. audits' = audits \/ audits' = [audits EXCEPT ![Rival(p)] = s]
  BY <1>3 DEF SendAudit, Delivered
<1> QED BY <1>1, <1>4 DEF TypesOfRest

\* What a lapsed deadline reports, and where it lapsed.
LEMMA ExpireReport ==
  ASSUME TypesOfRest, NEW p \in Role, Expire(p)
  PROVE  /\ report' = [q \in Role |-> report'[q]] /\ report'[Rival(p)] = report[Rival(p)]
         /\ \/ /\ pc[p] = "sending" \/ Expecting(p)
               /\ pc' = [pc EXCEPT ![p] = "failed"] /\ report'[p] # None
               /\ report'[p].error = "deadline"
            \/ /\ pc[p] = "loop" /\ ~Ongoing(p) /\ own' = own /\ report' = report
               /\ pc' = [pc EXCEPT ![p] = "await_audit"]
            \/ /\ AwaitingAudit(p) /\ own' = own /\ report'[p] # None
               /\ pc' = [pc EXCEPT ![p] = "done"] /\ report'[p].error = "none"
            \/ /\ pc[p] = "failed" /\ own' = own /\ report'[p] # None
               /\ pc' = [pc EXCEPT ![p] = "done"] /\ report'[p].error = report[p].error
            \/ /\ pc[p] = "offering" /\ own' = own /\ report' = report
               /\ pc' = [pc EXCEPT ![p] = "down"]
<1>1. CASE (pc[p] = "sending" \/ Expecting(p)) /\ Fail(p, "deadline")
  BY <1>1, LapsedReport DEF Fail
<1>2. CASE /\ pc[p] = "loop" /\ ~Ongoing(p) /\ pc' = [pc EXCEPT ![p] = "await_audit"]
           /\ UNCHANGED <<own, report>>
  BY <1>2 DEF TypesOfRest
<1>3. CASE AwaitingAudit(p) /\ Settle(p, FALSE, NoAudit) /\ UNCHANGED own
  BY <1>3, SettledReport DEF Settle
<1>4. CASE pc[p] = "failed" /\ TechnicalLossReport(p) /\ UNCHANGED own
  BY <1>4, LossReport DEF TechnicalLossReport
<1>5. CASE pc[p] = "offering" /\ pc' = [pc EXCEPT ![p] = "down"] /\ UNCHANGED <<own, report>>
  BY <1>5 DEF TypesOfRest
<1> QED BY <1>1, <1>2, <1>3, <1>4, <1>5 DEF Expire

LEMMA RestStep == Types /\ TypesOfRest /\ [Next]_vars => TypesOfRest'
<1> SUFFICES ASSUME Types, TypesOfRest, [Next]_vars PROVE TypesOfRest'
  OBVIOUS
<1>1. CASE UNCHANGED <<controls, audits, crashes, excused, report>>
  BY <1>1 DEF TypesOfRest
<1>2. CASE UNCHANGED vars
  BY <1>1, <1>2 DEF vars, boxes, budgets
<1>3. ASSUME NEW p \in Role, Program(p)
      PROVE  TypesOfRest'
  <2>1. CASE DecidePolice(p) \/ DecideThief(p) \/ Send(p) \/ AfterSend(p) \/ ReceiveDuplicate(p)
    BY <1>1, <2>1 DEF DecidePolice, DecideThief, Send, AfterSend, ReceiveDuplicate, boxes, budgets
  <2>2. CASE ConcedeTurn(p) \/ AbsorbTurn(p)
    BY <1>1, <2>2 DEF ConcedeTurn, AbsorbTurn, TakeTurn, boxes, budgets
  <2>3. CASE RefuseTurn(p)
    <3>1. Fail(p, "breach") /\ UNCHANGED <<controls, audits, crashes, excused>>
      BY <2>3 DEF RefuseTurn, TakeTurn, budgets
    <3> QED BY <3>1, LapsedReport DEF TypesOfRest
  <2>4. CASE SendFinalAudit(p)
    <3>1. SendAudit(p) /\ UNCHANGED <<controls, crashes, excused, report>>
      BY <2>4 DEF SendFinalAudit, budgets
    <3> QED BY <3>1, SendAuditEffect DEF TypesOfRest
  <2>5. CASE ReceiveAudit(p)
    <3>1. UNCHANGED <<controls, crashes, excused>> /\ audits' = [audits EXCEPT ![p] = Tail(audits[p])]
          /\ audits[p] # << >>
      BY <2>5 DEF ReceiveAudit, budgets
    <3>2. PICK foreign, finding : Settle(p, foreign, finding)
      BY <2>5 DEF ReceiveAudit
    <3>3. PICK t \in Seq(Seq(SealedRec)) : t = Tail(audits[p])
      BY <3>1, HeadTailProperties DEF TypesOfRest
    <3>4. audits' \in [Role -> Seq(Seq(SealedRec))]
      BY <3>1, <3>3 DEF TypesOfRest
    <3> QED BY <3>1, <3>2, <3>4, SettledReport DEF TypesOfRest
  <2>6. CASE EmergencyAudit(p)
    <3>1. SendAudit(p) /\ TechnicalLossReport(p) /\ UNCHANGED <<controls, crashes, excused>>
      BY <2>6 DEF EmergencyAudit, budgets
    <3> QED BY <3>1, SendAuditEffect, LossReport DEF TypesOfRest
  <2>7. CASE OfferResume(p)
    <3>1. UNCHANGED <<audits, crashes, excused, report>>
          /\ \/ controls' = [controls EXCEPT ![Rival(p)] = controls[Rival(p)] + 1]
             \/ controls' = [controls EXCEPT ![Rival(p)] = controls[Rival(p)]]
      BY <2>7 DEF OfferResume, budgets
    <3> QED BY <3>1, RivalFacts DEF TypesOfRest
  <2>8. CASE AnswerOffer(p)
    <3>1. UNCHANGED <<audits, crashes, excused, report>> /\ controls[p] > 0
          /\ controls' = [controls EXCEPT ![p] = controls[p] - 1]
      BY <2>8 DEF AnswerOffer
    <3>2. controls[p] - 1 \in Nat
      BY <3>1 DEF TypesOfRest
    <3> QED BY <3>1, <3>2 DEF TypesOfRest
  <2>9. CASE LapseOverdue(p)
    <3>1. /\ Expire(p) /\ UNCHANGED <<controls, audits, crashes>>
          /\ excused' = (excused \/ pc[Rival(p)] = "down")
      BY <2>9 DEF LapseOverdue, boxes
    <3>2. excused' \in BOOLEAN
      BY <3>1 DEF TypesOfRest
    <3> QED BY <3>1, <3>2, ExpireReport DEF TypesOfRest
  <2> QED BY <1>3, <2>1, <2>2, <2>3, <2>4, <2>5, <2>6, <2>7, <2>8, <2>9 DEF Program
<1>4. ASSUME NEW p \in Role, LapseSlow(p)
      PROVE  TypesOfRest'
  <2>1. /\ Expire(p) /\ UNCHANGED <<controls, audits, crashes>> /\ excused' = TRUE
    BY <1>4 DEF LapseSlow, boxes
  <2> QED BY <2>1, ExpireReport DEF TypesOfRest
<1>5. ASSUME NEW p \in Role, Crash(p)
      PROVE  TypesOfRest'
  <2>1. /\ controls' = [controls EXCEPT ![p] = 0] /\ audits' = [audits EXCEPT ![p] = << >>]
        /\ crashes' = crashes + 1 /\ excused' = excused
        /\ report' = [report EXCEPT ![p] = None]
    BY <1>5 DEF Crash
  <2>2. report' = [q \in Role |-> report'[q]]
    BY <2>1 DEF TypesOfRest
  <2> QED BY <2>1, <2>2 DEF TypesOfRest
<1>6. ASSUME NEW p \in Role, Restart(p)
      PROVE  TypesOfRest'
  BY <1>1, <1>6 DEF Restart, boxes, budgets
<1>7. ASSUME NEW m \in late, DeliverLate(m)
      PROVE  TypesOfRest'
  BY <1>1, <1>7 DEF DeliverLate, budgets
<1> QED BY <1>2, <1>3, <1>4, <1>5, <1>6, <1>7 DEF Next

\* What keeps a step from disturbing each part.
LEMMA FineStep ==
  ASSUME Types, TypesOfRest, Smooth, NEW p \in Role, NEW q \in Role, q = Rival(p),
         crashes' \in Nat, crashes' >= crashes, pc'[q] = pc[q],
         Ongoing(p)' => Ongoing(p), Ongoing(q)' => Ongoing(q),
         report'[p] # None => report'[p].error = "none", report'[q] = report[q],
         pc'[p] # "failed",
         audits'[p] # << >> => audits[p] # << >>,
         audits'[q] # << >> => audits[q] # << >> \/ ~Ongoing(p),
         pc'[p] = "done" => pc[p] = "done" \/ (~Ongoing(p) /\ ~Ongoing(q)),
         controls'[p] > 0 => controls[p] > 0 \/ crashes' >= 1,
         controls'[q] > 0 => controls[q] > 0 \/ crashes' >= 1,
         pc'[p] \in {"down", "offering"} => pc[p] \in {"down", "offering"} \/ crashes' >= 1
  PROVE  Smooth'
<1>1. Rival(q) = p /\ \A r \in Role : r = p \/ r = q
  BY RivalFacts
<1>2. crashes \in Nat
  BY DEF TypesOfRest
<1>3. Fine(p) /\ Fine(q)
  BY DEF Smooth
<1>4. crashes >= 1 => crashes' >= 1
  BY <1>2
<1>5. Fine(p)'
  BY <1>1, <1>3, <1>4 DEF Fine
<1>6. Fine(q)'
  BY <1>1, <1>3, <1>4 DEF Fine
<1> QED BY <1>1, <1>5, <1>6 DEF Smooth

LEMMA FinalsStep ==
  ASSUME Finals, Latest("thief")' = Latest("thief"),
         Ongoing("police") => Ongoing("police")', Playing("thief") => Playing("thief")'
  PROVE  Finals'
BY DEF Finals, Final

LEMMA ReachesStep ==
  ASSUME NEW p \in Role, NEW q \in Role, q = Rival(p), Reaches(p),
         Ongoing(p)' => Ongoing(p),
         pc'[p] \notin {"down", "offering"} => pc[p] \notin {"down", "offering"},
         Heard(p)' = Heard(p), Made(q)' = Made(q), Latest(q)' = Latest(q),
         pc'[q] # "sending" => pc[q] # "sending",
         Range(turns[p]) \subseteq Range(turns'[p]),
         controls[q] > 0 => controls'[q] > 0
  PROVE  Reaches(p)'
BY DEF Reaches

\* Most steps of a peer leave what was lived, both inboxes and the offers alone.
LEMMA CalmStep ==
  ASSUME Types, TypesOfRest, Flawless, NEW p \in Role, Still(Rival(p)), Kept(p)' = Kept(p),
         Ongoing(p)' => Ongoing(p),
         p = "police" /\ Ongoing(p) => Ongoing(p)', p = "thief" /\ Playing(p) => Playing(p)',
         pc'[p] \notin {"down", "offering"} => pc[p] \notin {"down", "offering"},
         pc'[p] # "sending" => pc[p] # "sending",
         \A r \in Role : Range(turns[r]) \subseteq Range(turns'[r]),
         \A r \in Role : controls[r] > 0 => controls'[r] > 0
  PROVE  Finals' /\ Underway'
<1>1. PICK q \in Role : q = Rival(p) /\ Rival(q) = p
  BY RivalFacts
<1>2. \A r \in Role : r = p \/ r = q
  BY <1>1, RivalFacts
<1>3. \A r \in Role : Made(r)' = Made(r) /\ Heard(r)' = Heard(r) /\ Latest(r)' = Latest(r)
  BY <1>1, <1>2, StillFacts DEF Made, Heard, Latest
<1>4. pc'[q] = pc[q] /\ (Ongoing(q)' <=> Ongoing(q)) /\ (Playing(q)' <=> Playing(q))
  BY <1>1 DEF Still, Ongoing, Playing
<1>5. Finals'
  <2>1. Ongoing("police") => Ongoing("police")'
    BY <1>2, <1>4, Names
  <2>2. Playing("thief") => Playing("thief")'
    BY <1>2, <1>4, Names
  <2> QED BY <1>3, <2>1, <2>2, Names, FinalsStep DEF Flawless
<1>6. Reaches(p)'
  BY <1>1, <1>3, <1>4, ReachesStep DEF Flawless, Underway
<1>7. Reaches(q)'
  BY <1>1, <1>3, <1>4, ReachesStep DEF Flawless, Underway
<1> QED BY <1>2, <1>5, <1>6, <1>7 DEF Underway

\* A delivery adds to the inbox unless the door is closed.
LEMMA DeliveredFacts ==
  ASSUME Types, NEW p \in Role, NEW m \in Msg, turns' = Delivered(turns, p, m)
  PROVE  /\ \A r \in Role : Range(turns[r]) \subseteq Range(turns'[r])
         /\ pc[p] # "done" => m \in Range(turns'[p])
<1>1. PICK s \in Seq(Msg) : s = turns[p]
  BY DEF Types, TypesOfWire
<1>2. Append(s, m) \in Seq(Msg) /\ Range(Append(s, m)) = Range(s) \cup {m}
  BY RangeFacts
<1>3. pc[p] = "done" => turns' = turns
  BY DEF Delivered
<1>4. pc[p] # "done" => turns' = [turns EXCEPT ![p] = Append(s, m)]
  BY <1>1 DEF Delivered
<1>5. PICK b \in Seq(Msg) : b = Append(s, m)
  BY <1>2
<1>6. pc[p] # "done" => \A r \in Role : turns'[r] = IF r = p THEN b ELSE turns[r]
  BY <1>4, <1>5 DEF Types, TypesOfWire
<1> QED BY <1>1, <1>2, <1>3, <1>5, <1>6

-----------------------------------------------------------------------------
(* One step at a time: the sides that send and stop *)

\* A step that touches nothing of the audits, the reports and the offers.
LEMMA FineAlone ==
  ASSUME Types, TypesOfRest, Smooth, NEW p \in Role, Still(Rival(p)),
         UNCHANGED <<audits, controls, report, crashes>>,
         Ongoing(p)' => Ongoing(p), pc'[p] \notin {"failed", "done"},
         pc'[p] \in {"down", "offering"} => pc[p] \in {"down", "offering"}
  PROVE  Smooth'
<1>1. PICK q \in Role : q = Rival(p) /\ Rival(q) = p
  BY RivalFacts
<1>2. pc'[q] = pc[q] /\ (Ongoing(q)' => Ongoing(q))
  BY <1>1 DEF Still, Ongoing
<1>3. /\ report'[p] # None => report'[p].error = "none"
      /\ crashes' \in Nat /\ crashes' >= crashes
  BY DEF Smooth, Fine, TypesOfRest
<1> QED BY <1>1, <1>2, <1>3, FineStep

LEMMA DecidePoliceFine ==
  ASSUME Types, Untorn, TypesOfRest, Flawless, NEW p \in Role, DecidePolice(p)
  PROVE  Flawless'
<1>1. p = "police" /\ MyTurn("police")
  BY DEF DecidePolice
<1>2. PICK a \in Action, s \in OwnState, c \in Place, win \in BOOLEAN :
         /\ Seal("police", s, a, c, response["police"], win, "ongoing")
         /\ s.outcome = own["police"].outcome
  BY <1>1, PoliceDecision
<1>3. /\ UNCHANGED <<their, consumed>> /\ snapshot' = snapshot
      /\ UNCHANGED <<turns, audits, controls, report, crashes>>
      /\ pc["police"] = "loop" /\ Ongoing("police")
  BY <1>1 DEF DecidePolice, boxes, MyTurn
<1>4. Still("thief")
  BY <1>2, <1>3, Names, SealStill
<1>5. own'["police"] = s /\ pc'["police"] = "sending"
  BY <1>2, <1>3, Names DEF Seal, Types, TypesOfPeers
<1>6. Ongoing("police")'
  BY <1>2, <1>3, <1>5 DEF Ongoing
<1>7. Smooth'
  BY <1>1, <1>3, <1>4, <1>5, Names, FineAlone DEF Flawless
<1>8. /\ Latest("thief")' = Latest("thief") /\ Made("thief")' = Made("thief")
      /\ (Playing("thief") => Playing("thief")') /\ pc'["thief"] = pc["thief"]
  BY <1>4, Names, StillFacts DEF Still
<1>9. Finals'
  BY <1>6, <1>8, FinalsStep DEF Flawless
<1>10. Heard("police")' = Heard("police")
  BY <1>3, <1>5, Names, KeptFields DEF Heard, Kept, Memory, BuildSnapshot
<1>11. Reaches("police")'
  BY <1>3, <1>5, <1>8, <1>10, Names, ReachesStep DEF Flawless, Underway
<1>12. Reaches("thief")'
  BY <1>5, Names DEF Reaches
<1> QED BY <1>7, <1>9, <1>11, <1>12, Names DEF Flawless, Underway

LEMMA DecideThiefFine ==
  ASSUME Types, Untorn, TypesOfRest, Flawless, NEW p \in Role, DecideThief(p)
  PROVE  Flawless'
<1>1. p = "thief" /\ MyTurn("thief")
  BY DEF DecideThief
<1>2. PICK a \in Action, s \in OwnState, answer \in Response, win \in BOOLEAN, ends \in Outcome :
         /\ Seal("thief", s, a, None, answer, win, ends)
         /\ s.outcome = "ongoing"
         /\ \/ Caught(answer) /\ ~win /\ ends = "capture"
            \/ ends = IF win THEN "survival" ELSE "ongoing"
  BY <1>1, ThiefSeals
<1>3. /\ UNCHANGED <<their, consumed>> /\ snapshot' = snapshot
      /\ UNCHANGED <<turns, audits, controls, report, crashes>>
      /\ pc["thief"] = "loop" /\ Ongoing("thief")
  BY <1>1 DEF DecideThief, boxes, budgets, MyTurn
<1>4. Still("police")
  BY <1>2, <1>3, Names, SealStill
<1>5. /\ own'["thief"] = s /\ pc'["thief"] = "sending" /\ draft'["thief"] = ends
      /\ Latest("thief")' # None /\ Latest("thief")'.claim_response = answer
      /\ Latest("thief")'.win_claim = win
  BY <1>2, <1>3, Names, NonePlace, SealEffect
<1>7. Smooth'
  BY <1>1, <1>3, <1>4, <1>5, Names, FineAlone DEF Flawless
<1>8. /\ Made("police")' = Made("police") /\ Latest("police")' = Latest("police")
      /\ pc'["police"] = pc["police"] /\ (Ongoing("police")' <=> Ongoing("police"))
  BY <1>4, Names, StillFacts DEF Still, Ongoing
<1>9. Finals'
  <2>1. Ongoing("police")
    BY <1>1, ThiefToMove DEF Flawless, Finals, Final
  <2>2. ASSUME ~Playing("thief")' PROVE Final(Latest("thief"))'
    <3>1. ends # "ongoing"
      BY <1>2, <1>5, <2>2 DEF Playing
    <3>2. Caught(answer) \/ win
      BY <1>2, <3>1
    <3> QED BY <1>5, <3>2 DEF Final
  <2> QED BY <1>8, <2>1, <2>2 DEF Finals
<1>10. Heard("thief")' = Heard("thief")
  BY <1>3, <1>5, Names, KeptFields DEF Heard, Kept, Memory, BuildSnapshot
<1>11. Reaches("thief")'
  BY <1>3, <1>5, <1>8, <1>10, Names, ReachesStep DEF Flawless, Underway
<1>12. Reaches("police")'
  BY <1>5, Names DEF Reaches
<1> QED BY <1>7, <1>9, <1>11, <1>12, Names DEF Flawless, Underway

LEMMA SendFine ==
  ASSUME Types, Untorn, TypesOfRest, Flawless, NEW p \in Role, Send(p)
  PROVE  Flawless'
<1>1. /\ pc[p] = "sending" /\ pc' = [pc EXCEPT ![p] = "sent"] /\ pc'[p] = "sent"
      /\ UNCHANGED <<memory, snapshot>> /\ last_sent[p] # None
      /\ UNCHANGED <<audits, controls, report, crashes>>
      /\ SendTurn(p, last_sent[p])
  BY DEF Send, Types, TypesOfPeers, Outgoing
<1>2. PICK q \in Role : q = Rival(p) /\ Rival(q) = p
  BY RivalFacts
<1>3. Still(q) /\ Memory(p)' = Memory(p) /\ own'[p] = own[p] /\ draft'[p] = draft[p]
  BY <1>1, <1>2, StillRival
<1>4. Kept(p)' = Kept(p) /\ Latest(p) = last_sent[p]
  BY <1>1, <1>3, KeptFields DEF Kept
<1>5. Made(p)' = Made(p) /\ Heard(p)' = Heard(p) /\ Latest(p)' = Latest(p)
  BY <1>4 DEF Made, Heard, Latest
<1>6. (Playing(p)' <=> Playing(p)) /\ (Ongoing(p)' <=> Ongoing(p))
  BY <1>3 DEF Playing, Ongoing
<1>7. Smooth'
  BY <1>1, <1>2, <1>3, <1>6, FineAlone DEF Flawless
<1>8. PICK m \in Msg : m = last_sent[p]
  BY <1>1 DEF Types, TypesOfPeers
<1>9. /\ \A r \in Role : Range(turns[r]) \subseteq Range(turns'[r])
      /\ pc[q] # "done" => m \in Range(turns'[q])
  BY <1>1, <1>2, <1>8, DeliveredFacts DEF SendTurn
<1>10. /\ Made(q)' = Made(q) /\ Heard(q)' = Heard(q) /\ Latest(q)' = Latest(q)
       /\ (Playing(q)' <=> Playing(q)) /\ (Ongoing(q)' <=> Ongoing(q)) /\ pc'[q] = pc[q]
  BY <1>3, StillFacts DEF Still, Ongoing
<1>11. Finals'
  BY <1>2, <1>5, <1>6, <1>10, Names, FinalsStep DEF Flawless
<1>12. Reaches(p)'
  BY <1>1, <1>2, <1>5, <1>6, <1>9, <1>10, ReachesStep DEF Flawless, Underway
<1>13. Reaches(q)'
  <2>1. Ongoing(p)
    BY <1>1 DEF Untorn, Saved
  <2>2. pc[q] # "done"
    BY <1>2, <2>1 DEF Flawless, Smooth, Fine
  <2> QED BY <1>2, <1>4, <1>5, <1>8, <1>9, <2>2 DEF Reaches
<1>14. \A r \in Role : r = p \/ r = q
  BY <1>2, RivalFacts
<1> QED BY <1>7, <1>11, <1>12, <1>13, <1>14 DEF Flawless, Underway

LEMMA AfterSendFine ==
  ASSUME Types, Untorn, TypesOfRest, Flawless, NEW p \in Role, AfterSend(p)
  PROVE  Flawless'
<1>1. /\ pc[p] = "sent" /\ pc' = [pc EXCEPT ![p] = "loop"] /\ pc'[p] = "loop"
      /\ UNCHANGED <<turns, audits, controls, report, crashes>>
  BY DEF AfterSend, boxes, budgets, Types, TypesOfPeers
<1>2. /\ Still(Rival(p)) /\ Kept(p)' = Kept(p) /\ Ongoing(p)
      /\ (Playing(p) => Playing(p)') /\ Ongoing(p)' = (draft[p] = "ongoing")
  BY AfterSendKeeps
<1>3. p = "police" => Ongoing(p)'
  BY <1>2 DEF Untorn, PoliceSide
<1>4. Smooth'
  BY <1>1, <1>2, FineAlone DEF Flawless
<1>5. Finals' /\ Underway'
  BY <1>1, <1>2, <1>3, CalmStep
<1> QED BY <1>4, <1>5 DEF Flawless

LEMMA ReceiveDuplicateFine ==
  ASSUME Types, Untorn, TypesOfRest, Flawless, NEW p \in Role, ReceiveDuplicate(p)
  PROVE  Flawless'
<1>1. /\ UNCHANGED <<memory, snapshot>> /\ pc' = pc
      /\ UNCHANGED <<audits, controls, report, crashes>>
      /\ turns' = [turns EXCEPT ![p] = Tail(turns[p])]
      /\ Expecting(p) /\ HasMessage(p) /\ Key(p) \in consumed[p]
  BY DEF ReceiveDuplicate, budgets
<1>2. PICK q \in Role : q = Rival(p) /\ Rival(q) = p /\ q # p
  BY RivalFacts
<1>3. Still(p) /\ Still(q) /\ pc[p] = "loop"
  BY <1>1 DEF Still, memory, log, Expecting
<1>4. \A r \in Role : /\ Made(r)' = Made(r) /\ Heard(r)' = Heard(r) /\ Latest(r)' = Latest(r)
                      /\ (Ongoing(r)' <=> Ongoing(r)) /\ (Playing(r)' <=> Playing(r))
  <2>1. \A r \in Role : Still(r)
    BY <1>2, <1>3, RivalFacts
  <2> QED BY <2>1, StillFacts DEF Still, Ongoing
<1>5. Smooth'
  BY <1>1, <1>2, <1>3, <1>4, FineAlone DEF Flawless
<1>6. Finals'
  BY <1>4, Names, FinalsStep DEF Flawless
<1>7. turns'[q] = turns[q] /\ turns'[p] = Tail(turns[p]) /\ turns[p] \in Seq(Msg)
  BY <1>1, <1>2 DEF Types, TypesOfWire
<1>8. Reaches(q)'
  BY <1>1, <1>2, <1>4, <1>7, ReachesStep DEF Flawless, Underway
<1>9. Reaches(p)'
  <2> SUFFICES ASSUME Ongoing(p), Made(q) > Heard(p), pc[q] # "sending", ~(controls[q] > 0)
               PROVE  Latest(q) \in Range(turns'[p])
    BY <1>1, <1>2, <1>4 DEF Reaches
  <2>1. Latest(q) \in Range(turns[p])
    BY <1>2, <1>3 DEF Flawless, Underway, Reaches
  <2>2. Made(q) \in Nat /\ Heard(p) \in Nat /\ Heard(p) = Len(their[p])
    BY <1>3, KeptTypes, KeptFields
  <2>3. consumed[p] = 1 .. Heard(p)
    BY <1>3, KeptFields DEF Untorn, Books
  <2>4. ~Caught(Message(p).claim_response)
    <3>1. Expected(p) \notin consumed[p]
      BY <2>2, <2>3 DEF Expected
    <3> QED BY <1>1, <3>1 DEF Key
  <2>5. Message(p).step \in 1 .. Heard(p)
    BY <1>1, <2>3, <2>4 DEF Key
  <2>6. Latest(q) # None /\ Latest(q).step = Made(q)
    BY <2>2 DEF Untorn, Books
  <2>7. Latest(q) # Head(turns[p])
    BY <2>2, <2>5, <2>6 DEF Message
  <2> QED BY <1>1, <1>7, <2>1, <2>7, TailKeeps DEF HasMessage
<1>10. \A r \in Role : r = p \/ r = q
  BY <1>2, RivalFacts
<1> QED BY <1>5, <1>6, <1>8, <1>9, <1>10 DEF Flawless, Underway

-----------------------------------------------------------------------------
(* The sides that take a message *)

LEMMA AbsorbTurnFine ==
  ASSUME Types, Untorn, Untorn', TypesOfRest, Flawless, NEW p \in Role, AbsorbTurn(p)
  PROVE  Flawless'
<1>1. /\ pc' = pc /\ UNCHANGED <<audits, controls, report, crashes>>
      /\ TakeTurn(p) /\ turns' = [turns EXCEPT ![p] = Tail(turns[p])]
      /\ Ongoing(p) /\ pc[p] = "loop"
  BY DEF AbsorbTurn, TakeTurn, budgets, Expecting
<1>2. PICK q \in Role : q = Rival(p) /\ Rival(q) = p /\ q # p
  BY RivalFacts
<1>3. /\ Still(q) /\ Made(p)' = Made(p) /\ Heard(p)' = Heard(p) + 1
      /\ Latest(p)' = Latest(p) /\ own'[p].outcome = Ended(p, Message(p))
      /\ draft'[p] = draft[p]
  BY <1>2, AbsorbEffect
<1>4. /\ Made(q)' = Made(q) /\ Heard(q)' = Heard(q) /\ Latest(q)' = Latest(q)
      /\ (Ongoing(q)' <=> Ongoing(q)) /\ (Playing(q)' <=> Playing(q)) /\ pc'[q] = pc[q]
  BY <1>3, StillFacts DEF Still, Ongoing
<1>5. /\ Message(p) = Latest(q) /\ Made(q) = Heard(p) + 1 /\ Latest(q) # None
      /\ p = "thief" => ~Message(p).win_claim
  BY <1>1, <1>2, Names, PoliceHears, ThiefHears
<1>6. Smooth'
  BY <1>1, <1>2, <1>3, <1>4, FineAlone DEF Flawless
<1>7. Reaches(p)'
  <2>1. Heard(p)' = Made(q)'
    BY <1>3, <1>4, <1>5
  <2>2. Made(q) \in Nat
    BY KeptTypes
  <2> QED BY <1>2, <1>4, <2>1, <2>2 DEF Reaches
<1>8. turns'[q] = turns[q]
  BY <1>1, <1>2 DEF Types, TypesOfWire
<1>9. Reaches(q)'
  BY <1>1, <1>2, <1>3, <1>4, <1>8, ReachesStep DEF Flawless, Underway
<1>10. Latest("thief")' = Latest("thief")
  BY <1>2, <1>3, <1>4, Names
<1>11. Finals'
  <2>1. CASE p = "police"
    <3>1. ASSUME ~Ongoing(p)' PROVE Final(Latest("thief"))
      <4>1. Ended(p, Message(p)) # "ongoing"
        BY <1>3, <3>1 DEF Ongoing
      <4>2. CASE Caught(Message(p).claim_response)
        BY <1>2, <1>5, <2>1, <4>2, Names DEF Final
      <4>3. CASE ~Caught(Message(p).claim_response)
        <5>1. Ended(p, Message(p)) = "survival"
          BY <4>1, <4>3 DEF Ended
        <5>2. Won("police")'
          BY <1>3, <2>1, <5>1 DEF Won
        <5>3. Latest("thief")' # None /\ Latest("thief")'.win_claim
          BY <5>2 DEF Untorn, PoliceSide
        <5> QED BY <1>10, <5>3 DEF Final
      <4> QED BY <4>2, <4>3
    <3>2. Playing("thief")' <=> Playing("thief")
      BY <1>2, <1>4, <2>1, Names
    <3> QED BY <1>10, <2>1, <3>1, <3>2 DEF Flawless, Finals, Final
  <2>2. CASE p = "thief"
    <3>1. Ended(p, Message(p)) = "ongoing"
      BY <1>5, <2>2, ThiefEnded
    <3>2. Playing("thief") => Playing("thief")'
      BY <1>3, <2>2, <3>1 DEF Playing
    <3>3. Ongoing("police")' <=> Ongoing("police")
      BY <1>2, <1>4, <2>2, Names
    <3> QED BY <1>10, <3>2, <3>3, FinalsStep DEF Flawless
  <2> QED BY <2>1, <2>2, Names
<1>12. \A r \in Role : r = p \/ r = q
  BY <1>2, RivalFacts
<1> QED BY <1>6, <1>7, <1>9, <1>11, <1>12 DEF Flawless, Underway

LEMMA ConcedeTurnFine ==
  ASSUME Types, Untorn, TypesOfRest, Flawless, NEW p \in Role, ConcedeTurn(p)
  PROVE  Flawless'
<1>1. p = "thief"
  BY DEF ConcedeTurn, MustConcede
<1>2. /\ UNCHANGED <<audits, controls, report, crashes>> /\ snapshot' = snapshot
      /\ TakeTurn("thief") /\ Ongoing("thief") /\ pc["thief"] = "loop"
  BY <1>1 DEF ConcedeTurn, TakeTurn, budgets, Expecting
<1>3. PICK answer \in Response, n \in OwnState, win \in BOOLEAN :
         /\ Caught(answer)
         /\ Seal("thief", n, MoveAction("STAY"), None, answer, win, "capture")
         /\ n.outcome = "ongoing"
  BY <1>1, ConcedeEffect
<1>4. PICK h \in HeardRec :
         /\ their' = [their EXCEPT !["thief"] = Append(their["thief"], h)]
         /\ consumed' = [consumed EXCEPT !["thief"] = consumed["thief"] \cup {Len(their["thief"]) + 1}]
  BY <1>2, Names, TakeTypes
<1>5. their'["police"] = their["police"] /\ consumed'["police"] = consumed["police"]
  BY <1>4, Names DEF Types, TypesOfPeers
<1>6. Still("police")
  BY <1>2, <1>3, <1>5, Names, SealStill
<1>7. "capture" \in Outcome
  BY DEF Outcome
<1>8. /\ own'["thief"] = n /\ pc'["thief"] = "sending" /\ Heard("thief")' = Len(their'["thief"])
      /\ Latest("thief")' # None /\ Latest("thief")'.claim_response = answer
  BY <1>2, <1>3, <1>7, Names, NonePlace, StayFacts, SealEffect
<1>9. /\ Made("police")' = Made("police") /\ (Ongoing("police")' <=> Ongoing("police"))
  BY <1>6, Names, StillFacts DEF Still, Ongoing
<1>10. Smooth'
  BY <1>1, <1>2, <1>6, <1>8, Names, FineAlone DEF Flawless
<1>11. Finals'
  BY <1>3, <1>8 DEF Finals, Final
<1>12. Reaches("police")'
  BY <1>8, Names DEF Reaches
<1>13. Heard("thief")' = Made("police")' /\ Made("police") \in Nat
  <2>1. Len(their'["thief"]) = Len(their["thief"]) + 1
    <3>1. their'["thief"] = Append(their["thief"], h) /\ their["thief"] \in Seq(HeardRec)
      BY <1>4, Names DEF Types, TypesOfPeers
    <3> QED BY <3>1, AppendProperties
  <2>2. Heard("thief") = Len(their["thief"])
    BY <1>2, Names, KeptFields
  <2>3. Made("police") = Heard("thief") + 1
    BY <1>2, ThiefHears
  <2> QED BY <1>8, <1>9, <2>1, <2>2, <2>3, Names, KeptTypes
<1>14. Reaches("thief")'
  BY <1>9, <1>13, Names DEF Reaches
<1> QED BY <1>10, <1>11, <1>12, <1>14, Names DEF Flawless, Underway

LEMMA SentAuditFacts ==
  ASSUME Types, TypesOfRest, NEW p \in Role, SendAudit(p)
  PROVE  audits'[p] = audits[p]
BY SendAuditEffect

\* A peer that stays where it was and keeps its memory.
LEMMA CalmMemory ==
  ASSUME Types, NEW p \in Role, UNCHANGED memory, snapshot'[Rival(p)] = snapshot[Rival(p)],
         pc[p] # "down", pc'[p] # "down", pc'[Rival(p)] = pc[Rival(p)]
  PROVE  /\ Still(Rival(p)) /\ Kept(p)' = Kept(p)
         /\ (Playing(p)' <=> Playing(p)) /\ (Ongoing(p)' <=> Ongoing(p))
         /\ (Ongoing(Rival(p))' <=> Ongoing(Rival(p)))
<1>1. Memory(p)' = Memory(p)
  BY SameMemory DEF memory, log
<1>2. Still(Rival(p))
  BY DEF Still, memory, log
<1> QED BY <1>1, <1>2 DEF Kept, Playing, Ongoing, memory

LEMMA SendFinalAuditFine ==
  ASSUME Types, Untorn, TypesOfRest, Flawless, NEW p \in Role, SendFinalAudit(p)
  PROVE  Flawless'
<1>1. /\ UNCHANGED memory /\ snapshot' = snapshot
      /\ UNCHANGED <<turns, controls, report, crashes>>
      /\ SendAudit(p) /\ pc[p] = "loop" /\ ~Ongoing(p)
      /\ pc' = [pc EXCEPT ![p] = "await_audit"] /\ pc'[p] = "await_audit"
  BY DEF SendFinalAudit, budgets, Types, TypesOfPeers
<1>2. PICK q \in Role : q = Rival(p) /\ Rival(q) = p /\ q # p
  BY RivalFacts
<1>3. pc'[q] = pc[q]
  BY <1>1, <1>2 DEF Types, TypesOfPeers
<1>4. /\ Still(q) /\ Kept(p)' = Kept(p) /\ (Playing(p)' <=> Playing(p))
      /\ (Ongoing(p)' <=> Ongoing(p)) /\ (Ongoing(q)' <=> Ongoing(q))
  BY <1>1, <1>2, <1>3, CalmMemory
<1>5. audits'[p] = audits[p]
  BY <1>1, SentAuditFacts
<1>6. /\ report'[p] # None => report'[p].error = "none"
      /\ crashes' \in Nat /\ crashes' >= crashes
  BY <1>1 DEF Flawless, Smooth, Fine, TypesOfRest
<1>7. Smooth'
  BY <1>1, <1>2, <1>3, <1>4, <1>5, <1>6, FineStep DEF Flawless
<1>8. Finals' /\ Underway'
  BY <1>1, <1>2, <1>4, CalmStep
<1> QED BY <1>7, <1>8 DEF Flawless

LEMMA ReceiveAuditFine ==
  ASSUME Types, Untorn, TypesOfRest, Flawless, NEW p \in Role, ReceiveAudit(p)
  PROVE  Flawless'
<1>1. PICK foreign, finding : Settle(p, foreign, finding)
  BY DEF ReceiveAudit
<1>2. /\ UNCHANGED memory /\ UNCHANGED <<turns, controls, crashes>>
      /\ pc[p] = "await_audit" /\ pc' = [pc EXCEPT ![p] = "done"] /\ pc'[p] = "done"
      /\ audits[p] # << >> /\ audits' = [audits EXCEPT ![p] = Tail(audits[p])]
  BY <1>1 DEF ReceiveAudit, Settle, budgets, AwaitingAudit, Types, TypesOfPeers
<1>3. PICK q \in Role : q = Rival(p) /\ Rival(q) = p /\ q # p
  BY RivalFacts
<1>4. pc'[q] = pc[q] /\ snapshot'[q] = snapshot[q] /\ audits'[q] = audits[q]
  <2>1. \E s : snapshot' = [snapshot EXCEPT ![p] = s]
    BY <1>1, SettleDone
  <2> QED BY <1>2, <1>3, <2>1 DEF Types, TypesOfPeers, TypesOfRest
<1>5. /\ Still(q) /\ Kept(p)' = Kept(p) /\ (Playing(p)' <=> Playing(p))
      /\ (Ongoing(p)' <=> Ongoing(p)) /\ (Ongoing(q)' <=> Ongoing(q))
  BY <1>2, <1>3, <1>4, CalmMemory
<1>6. ~Ongoing(p) /\ ~Ongoing(q)
  BY <1>2, <1>3 DEF Untorn, Saved, Flawless, Smooth, Fine
<1>7. /\ report'[p].error = "none" /\ report'[q] = report[q]
      /\ crashes' \in Nat /\ crashes' >= crashes
  <2>1. report'[p].error = "none" /\ report'[q] = report[q]
    BY <1>1, <1>3, SettledReport
  <2>2. crashes' \in Nat /\ crashes' >= crashes
    BY <1>2 DEF TypesOfRest
  <2> QED BY <2>1, <2>2
<1>8. Smooth'
  BY <1>2, <1>3, <1>4, <1>5, <1>6, <1>7, FineStep DEF Flawless
<1>9. Finals' /\ Underway'
  BY <1>2, <1>3, <1>5, CalmStep
<1> QED BY <1>8, <1>9 DEF Flawless

LEMMA OfferResumeFine ==
  ASSUME Types, Untorn, TypesOfRest, Flawless, NEW p \in Role, OfferResume(p)
  PROVE  Flawless'
<1>1. /\ UNCHANGED memory /\ snapshot' = snapshot
      /\ UNCHANGED <<turns, audits, report, crashes>>
      /\ pc[p] = "offering" /\ pc' = [pc EXCEPT ![p] = "loop"] /\ pc'[p] = "loop"
  BY DEF OfferResume, budgets, Types, TypesOfPeers
<1>2. PICK q \in Role : q = Rival(p) /\ Rival(q) = p /\ q # p
  BY RivalFacts
<1>3. pc'[q] = pc[q]
  BY <1>1, <1>2 DEF Types, TypesOfPeers
<1>4. /\ Still(q) /\ Kept(p)' = Kept(p) /\ (Playing(p)' <=> Playing(p))
      /\ (Ongoing(p)' <=> Ongoing(p)) /\ (Ongoing(q)' <=> Ongoing(q))
  BY <1>1, <1>2, <1>3, CalmMemory
<1>5. Ongoing(p) /\ pc[q] # "done" /\ crashes >= 1
  <2>1. Ongoing(p)
    BY <1>1 DEF Untorn, Saved, Playing, Ongoing
  <2> QED BY <1>1, <1>2, <2>1 DEF Flawless, Smooth, Fine
<1>6. PICK n \in Nat : n = controls[q]
  BY DEF TypesOfRest
<1>7. controls'[q] = n + 1 /\ controls'[p] = controls[p]
  <2>1. controls' = [controls EXCEPT ![q] = n + 1]
    BY <1>2, <1>5, <1>6 DEF OfferResume
  <2> QED BY <1>2, <2>1 DEF TypesOfRest
<1>8. /\ report'[p] # None => report'[p].error = "none"
      /\ crashes' \in Nat /\ crashes' >= crashes
  BY <1>1 DEF Flawless, Smooth, Fine, TypesOfRest
<1>9. Smooth'
  BY <1>1, <1>2, <1>3, <1>4, <1>5, <1>8, FineStep DEF Flawless
<1>10. \A r \in Role : r = p \/ r = q
  BY <1>2, RivalFacts
<1>11. \A r \in Role : /\ Made(r)' = Made(r) /\ Heard(r)' = Heard(r) /\ Latest(r)' = Latest(r)
                       /\ (Playing(r)' <=> Playing(r)) /\ (Ongoing(r)' <=> Ongoing(r))
  BY <1>4, <1>10, StillFacts DEF Made, Heard, Latest
<1>12. Finals'
  BY <1>11, Names, FinalsStep DEF Flawless
<1>13. Reaches(p)'
  BY <1>2, <1>6, <1>7 DEF Reaches
<1>14. Reaches(q)'
  BY <1>1, <1>2, <1>3, <1>7, <1>11, ReachesStep DEF Flawless, Underway
<1> QED BY <1>9, <1>10, <1>12, <1>13, <1>14 DEF Flawless, Underway

LEMMA AnswerOfferFine ==
  ASSUME Types, Untorn, TypesOfRest, Flawless, NEW p \in Role, AnswerOffer(p)
  PROVE  Flawless'
<1>1. /\ UNCHANGED <<pc, memory, snapshot>> /\ UNCHANGED <<audits, report, crashes>>
      /\ controls' = [controls EXCEPT ![p] = controls[p] - 1] /\ controls[p] > 0
      /\ pc[p] # "down"
      /\ \/ last_sent[p] = None /\ turns' = turns
         \/ last_sent[p] \in Msg /\ turns' = Delivered(turns, Rival(p), last_sent[p])
  BY AnswerOfferEffect DEF AnswerOffer, SendTurn, Waiting, Expecting, AwaitingAudit
<1>2. PICK q \in Role : q = Rival(p) /\ Rival(q) = p /\ q # p
  BY RivalFacts
<1>3. /\ Still(q) /\ Kept(p)' = Kept(p) /\ (Playing(p)' <=> Playing(p))
      /\ (Ongoing(p)' <=> Ongoing(p)) /\ (Ongoing(q)' <=> Ongoing(q))
  BY <1>1, <1>2, CalmMemory
<1>4. /\ report'[p] # None => report'[p].error = "none"
      /\ crashes' \in Nat /\ crashes' >= crashes
  BY <1>1 DEF Flawless, Smooth, Fine, TypesOfRest
<1>5. controls'[q] = controls[q]
  BY <1>1, <1>2 DEF TypesOfRest
<1>6. Smooth'
  <2>1. pc'[p] = "done" => pc[p] = "done"
    BY <1>1
  <2>2. pc'[p] # "failed"
    BY <1>1 DEF Flawless, Smooth, Fine
  <2> QED BY <1>1, <1>2, <1>3, <1>4, <1>5, <2>1, <2>2, FineStep DEF Flawless
<1>7. \A r \in Role : r = p \/ r = q
  BY <1>2, RivalFacts
<1>8. \A r \in Role : /\ Made(r)' = Made(r) /\ Heard(r)' = Heard(r) /\ Latest(r)' = Latest(r)
                       /\ (Playing(r)' <=> Playing(r)) /\ (Ongoing(r)' <=> Ongoing(r))
  BY <1>3, <1>7, StillFacts DEF Made, Heard, Latest
<1>9. Finals'
  BY <1>8, Names, FinalsStep DEF Flawless
<1>10. /\ \A r \in Role : Range(turns[r]) \subseteq Range(turns'[r])
       /\ last_sent[p] # None /\ pc[q] # "done" => Latest(p) \in Range(turns'[q])
  <2>1. Latest(p) = last_sent[p]
    BY <1>1, KeptFields
  <2>2. CASE last_sent[p] = None /\ turns' = turns
    BY <2>2
  <2>3. CASE last_sent[p] \in Msg /\ turns' = Delivered(turns, q, last_sent[p])
    BY <2>1, <2>3, DeliveredFacts
  <2> QED BY <1>1, <1>2, <2>2, <2>3
<1>11. Reaches(p)'
  BY <1>1, <1>2, <1>5, <1>8, <1>10, ReachesStep DEF Flawless, Underway
<1>12. Reaches(q)'
  <2> SUFFICES ASSUME Ongoing(q), Made(p) > Heard(q) PROVE Latest(p) \in Range(turns'[q])
    BY <1>2, <1>8 DEF Reaches
  <2>1. Made(p) \in Nat /\ Heard(q) \in Nat
    BY KeptTypes
  <2>2. Latest(p) # None
    BY <2>1 DEF Untorn, Books
  <2>3. pc[q] # "done"
    BY DEF Flawless, Smooth, Fine
  <2> QED BY <1>1, <1>10, <2>2, <2>3, KeptFields
<1> QED BY <1>6, <1>7, <1>9, <1>11, <1>12 DEF Flawless, Underway

-----------------------------------------------------------------------------
(* Nobody starves *)

\* While nothing is lost and nobody is down no two peers starve each other.
LEMMA NoStarvation ==
  ASSUME Types, Untorn, TypesOfRest, Flawless, NEW p \in Role, Expecting(p), Starved(p)
  PROVE  ~Starved(Rival(p))
<1> SUFFICES ASSUME Starved(Rival(p)) PROVE FALSE
  OBVIOUS
<1>1. PICK q \in Role : q = Rival(p) /\ Rival(q) = p /\ q # p
  BY RivalFacts
<1>2. /\ pc[p] = "loop" /\ Ongoing(p) /\ own[p].next_actor # p
      /\ turns[p] = << >> /\ controls[p] = 0 /\ controls[q] = 0
      /\ pc[q] \in {"loop", "await_audit"}
  BY <1>1 DEF Expecting, Starved, Waiting, AwaitingAudit
<1>3. Playing(p)
  BY <1>2 DEF Untorn, Saved, Playing, Ongoing
<1>4. Range(turns[p]) = {}
  BY <1>2 DEF Range
<1>5. /\ Made("police") \in Nat /\ Heard("police") \in Nat
      /\ Made("thief") \in Nat /\ Heard("thief") \in Nat
      /\ Made(q) \in Nat /\ Heard(p) \in Nat
  BY Names, KeptTypes
<1>6. ~(Made(q) > Heard(p))
  BY <1>1, <1>2, <1>4, <1>5 DEF Flawless, Underway, Reaches
<1>7. CASE Expecting(q)
  <2>1. /\ pc[q] = "loop" /\ Ongoing(q) /\ own[q].next_actor # q /\ turns[q] = << >>
    BY <1>1, <1>7 DEF Expecting, Starved
  <2>2. Playing(q) /\ Range(turns[q]) = {}
    BY <2>1 DEF Untorn, Saved, Playing, Ongoing, Range
  <2>3. Made(p) \in Nat /\ Heard(q) \in Nat
    BY KeptTypes
  <2>4. ~(Made(p) > Heard(q))
    BY <1>1, <1>2, <2>1, <2>2, <2>3 DEF Flawless, Underway, Reaches
  <2>5. /\ Playing("police") /\ Playing("thief")
        /\ pc["police"] = "loop" /\ pc["thief"] = "loop"
        /\ own["police"].next_actor # "police" /\ own["thief"].next_actor # "thief"
        /\ ~(Made("police") > Heard("thief")) /\ ~(Made("thief") > Heard("police"))
    BY <1>1, <1>2, <1>3, <1>6, <2>1, <2>2, <2>4, Names
  <2>6. /\ Kept("police").next_actor = own["police"].next_actor
        /\ Kept("thief").next_actor = own["thief"].next_actor
    BY <2>5, Names, KeptFields
  <2>7. Heard("police") = Made("police")
    BY <2>5, <2>6 DEF Untorn, PoliceSide
  <2>8. Made("thief") # Heard("thief")
    BY <2>5, <2>6 DEF Untorn, ThiefSide
  <2> QED BY <1>5, <2>5, <2>7, <2>8 DEF Untorn, Order
<1>8. CASE AwaitingAudit(q)
  <2>1. ~Ongoing(q) /\ ~Playing(q)
    BY <1>8 DEF Untorn, Saved, AwaitingAudit, Ongoing, Playing
  <2>2. Final(Latest("thief"))
    BY <2>1, Names DEF Flawless, Finals
  <2>3. CASE p = "police"
    <3>1. Heard("police") # Made("thief")
      BY <1>3, <2>2, <2>3 DEF Untorn, PoliceSide, Final
    <3>2. Made("thief") > Heard("police")
      BY <1>5, <3>1 DEF Untorn, Order
    <3> QED BY <1>1, <1>6, <2>3, <3>2, Names
  <2>4. CASE p = "thief"
    BY <1>3, <2>2, <2>4 DEF Untorn, ThiefSide, Final
  <2> QED BY <2>3, <2>4, Names
<1> QED BY <1>1, <1>7, <1>8 DEF Starved, Waiting

LEMMA LapseOverdueFine ==
  ASSUME Types, Untorn, TypesOfRest, Flawless, NEW p \in Role, LapseOverdue(p), ~excused'
  PROVE  Flawless'
<1>1. /\ Overdue(p) /\ Expire(p) /\ UNCHANGED <<draft, response, log>>
      /\ UNCHANGED <<turns, audits, controls, crashes>>
      /\ excused' = (excused \/ pc[Rival(p)] = "down")
  BY DEF LapseOverdue, boxes
<1>2. PICK q \in Role : q = Rival(p) /\ Rival(q) = p /\ q # p
  BY RivalFacts
<1>3. pc[q] # "down"
  BY <1>1, <1>2
<1>4. pc[q] = "done" => ~Ongoing(p) /\ ~Ongoing(q)
  BY <1>2 DEF Flawless, Smooth, Fine
<1>5. pc[q] = "done" \/ (Starved(p) /\ Starved(q))
  BY <1>1, <1>2, <1>3 DEF Overdue
<1>6. ~(pc[p] = "sending" \/ Expecting(p))
  <2>1. ASSUME pc[p] = "sending" PROVE FALSE
    <3>1. Ongoing(p)
      BY <2>1 DEF Untorn, Saved
    <3>2. ~Starved(p)
      BY <2>1 DEF Starved, Waiting, Expecting, AwaitingAudit
    <3> QED BY <1>4, <1>5, <3>1, <3>2
  <2>2. ASSUME Expecting(p) PROVE FALSE
    <3>1. Ongoing(p)
      BY <2>2 DEF Expecting
    <3>2. Starved(p) /\ Starved(q)
      BY <1>4, <1>5, <3>1
    <3> QED BY <1>2, <2>2, <3>2, NoStarvation
  <2> QED BY <2>1, <2>2
<1>7. pc[p] # "failed"
  BY DEF Flawless, Smooth, Fine
<1>8. crashes' \in Nat /\ crashes' >= crashes
  BY <1>1 DEF TypesOfRest
<1>9. report'[q] = report[q]
      /\ \/ /\ pc[p] = "loop" /\ ~Ongoing(p) /\ own' = own /\ report' = report
            /\ pc' = [pc EXCEPT ![p] = "await_audit"]
         \/ /\ AwaitingAudit(p) /\ own' = own /\ report'[p] # None
            /\ pc' = [pc EXCEPT ![p] = "done"] /\ report'[p].error = "none"
         \/ /\ pc[p] = "offering" /\ own' = own /\ report' = report
            /\ pc' = [pc EXCEPT ![p] = "down"]
  BY <1>1, <1>2, <1>6, <1>7, ExpireReport
<1>10. pc'[q] = pc[q] /\ pc'[p] \in {"await_audit", "done", "down"} /\ own' = own
       /\ UNCHANGED memory
  BY <1>1, <1>2, <1>9 DEF memory, Types, TypesOfPeers
<1>11. snapshot'[q] = snapshot[q] /\ (pc[p] = "offering" => snapshot'[p] = snapshot[p])
  <2>1. snapshot' = snapshot \/ (AwaitingAudit(p) /\ \E s : snapshot' = [snapshot EXCEPT ![p] = s])
    BY <1>1, SettleDone DEF Expire
  <2> QED BY <1>2, <2>1 DEF Types, TypesOfPeers, AwaitingAudit
<1>12. (Ongoing(p)' <=> Ongoing(p)) /\ (Ongoing(q)' <=> Ongoing(q)) /\ (Playing(p)' <=> Playing(p))
  BY <1>10 DEF Ongoing, Playing, memory
<1>13. Still(q)
  BY <1>10, <1>11 DEF Still, memory, log
<1>14. Kept(p)' = Kept(p)
  <2>1. Memory(p)' = Memory(p)
    BY <1>10, SameMemory DEF memory, log
  <2>2. CASE pc[p] = "offering"
    <3>1. Filed(p) /\ pc'[p] = "down"
      BY <1>9, <2>2 DEF Untorn, Saved, AwaitingAudit, Types, TypesOfPeers
    <3> QED BY <1>11, <2>1, <2>2, <3>1 DEF Kept, Filed
  <2>3. CASE pc[p] # "offering"
    <3>1. pc[p] # "down" /\ pc'[p] # "down"
      BY <1>9, <2>3 DEF AwaitingAudit, Types, TypesOfPeers
    <3> QED BY <2>1, <3>1 DEF Kept
  <2> QED BY <2>2, <2>3
<1>15. pc'[p] = "done" => ~Ongoing(p) /\ ~Ongoing(q)
  <2> SUFFICES ASSUME pc'[p] = "done" PROVE ~Ongoing(p) /\ ~Ongoing(q)
    OBVIOUS
  <2>1. pc[p] = "await_audit"
    BY <1>9 DEF AwaitingAudit, Types, TypesOfPeers
  <2>2. ~Ongoing(p)
    BY <2>1 DEF Untorn, Saved
  <2>3. CASE Starved(p) /\ Starved(q)
    <3>1. ~Expecting(q)
      BY <1>2, <2>3, NoStarvation
    <3> QED BY <2>2, <2>3, <3>1 DEF Untorn, Saved, Starved, Waiting, AwaitingAudit
  <2> QED BY <1>4, <1>5, <2>3
<1>16. pc'[p] = "down" => pc[p] = "offering"
  BY <1>9 DEF Types, TypesOfPeers
<1>17. report'[p] # None => report'[p].error = "none"
  BY <1>9 DEF Flawless, Smooth, Fine
<1>18. Smooth'
  BY <1>1, <1>2, <1>8, <1>9, <1>10, <1>12, <1>15, <1>16, <1>17, FineStep DEF Flawless
<1>19. pc'[p] \notin {"down", "offering"} => pc[p] \notin {"down", "offering"}
  BY <1>9 DEF AwaitingAudit, Types, TypesOfPeers
<1>20. Finals' /\ Underway'
  BY <1>1, <1>2, <1>6, <1>12, <1>13, <1>14, <1>19, CalmStep
<1> QED BY <1>18, <1>20 DEF Flawless

LEMMA CrashFine ==
  ASSUME Types, Untorn, TypesOfRest, Flawless, NEW p \in Role, Crash(p), ~torn', crashes' <= 1
  PROVE  Flawless'
<1>1. /\ crashes' = crashes + 1 /\ pc' = [pc EXCEPT ![p] = "down"] /\ pc'[p] = "down"
      /\ turns' = [turns EXCEPT ![p] = << >>]
      /\ audits' = [audits EXCEPT ![p] = << >>] /\ controls' = [controls EXCEPT ![p] = 0]
      /\ report' = [report EXCEPT ![p] = None] /\ ~Unsaved(p)
  BY DEF Crash, Types, TypesOfPeers
<1>2. PICK q \in Role : q = Rival(p) /\ Rival(q) = p /\ q # p
  BY RivalFacts
<1>3. Still(q) /\ Kept(p)' = Kept(p) /\ Playing(p) /\ Playing(p)'
  BY <1>2, CrashKeeps
<1>4. Ongoing(p) /\ Ongoing(p)' /\ (Ongoing(q)' <=> Ongoing(q)) /\ pc'[q] = pc[q]
  BY <1>3 DEF Playing, Ongoing, Still
<1>5. /\ audits'[p] = << >> /\ audits'[q] = audits[q] /\ controls'[p] = 0
      /\ controls'[q] = controls[q] /\ report'[p] = None /\ report'[q] = report[q]
      /\ turns'[q] = turns[q]
  BY <1>1, <1>2 DEF TypesOfRest, Types, TypesOfWire
<1>6. crashes \in Nat /\ crashes' \in Nat /\ crashes' >= crashes /\ crashes' >= 1
      /\ ~(crashes >= 1)
  BY <1>1 DEF TypesOfRest
<1>7. Smooth'
  BY <1>1, <1>2, <1>4, <1>5, <1>6, FineStep DEF Flawless
<1>8. ~(controls[p] > 0) /\ pc[p] # "sending"
  BY <1>1, <1>6 DEF Flawless, Smooth, Fine, Unsaved
<1>9. \A r \in Role : r = p \/ r = q
  BY <1>2, RivalFacts
<1>10. \A r \in Role : /\ Made(r)' = Made(r) /\ Heard(r)' = Heard(r) /\ Latest(r)' = Latest(r)
                       /\ (Playing(r)' <=> Playing(r)) /\ (Ongoing(r)' <=> Ongoing(r))
  BY <1>3, <1>4, <1>9, StillFacts DEF Made, Heard, Latest
<1>11. Finals'
  BY <1>10, Names, FinalsStep DEF Flawless
<1>12. Reaches(p)'
  BY <1>1 DEF Reaches
<1>13. Reaches(q)'
  BY <1>2, <1>4, <1>5, <1>8, <1>10, ReachesStep DEF Flawless, Underway
<1> QED BY <1>7, <1>9, <1>11, <1>12, <1>13 DEF Flawless, Underway

LEMMA RestartFine ==
  ASSUME Types, Untorn, TypesOfRest, Flawless, NEW p \in Role, Restart(p)
  PROVE  Flawless'
<1>1. /\ pc[p] = "down" /\ pc' = [pc EXCEPT ![p] = "offering"] /\ pc'[p] = "offering"
      /\ UNCHANGED <<turns, audits, controls, report, crashes>>
  BY DEF Restart, boxes, budgets, Types, TypesOfPeers
<1>2. Still(Rival(p)) /\ Kept(p)' = Kept(p) /\ Playing(p) /\ Playing(p)'
  BY RestartKeeps
<1>3. Ongoing(p) /\ Ongoing(p)'
  BY <1>2 DEF Playing, Ongoing
<1>4. Smooth'
  BY <1>1, <1>2, <1>3, FineAlone DEF Flawless
<1>5. Finals' /\ Underway'
  BY <1>1, <1>2, <1>3, CalmStep
<1> QED BY <1>4, <1>5 DEF Flawless

LEMMA DeliverLateFine ==
  ASSUME Types, Untorn, TypesOfRest, Flawless, NEW m \in late, DeliverLate(m)
  PROVE  Flawless'
<1>1. PICK p \in Role : p = m.sender /\ UNCHANGED <<pc, memory, snapshot>>
  BY DeliverEffect
<1>2. PICK q \in Role : q = Rival(p) /\ Rival(q) = p /\ q # p
  BY RivalFacts
<1>3. /\ turns' = Delivered(turns, q, m) /\ UNCHANGED <<audits, controls, report, crashes>>
      /\ m \in Msg
  BY <1>1, <1>2 DEF DeliverLate, budgets, Types, TypesOfWire
<1>4. \A r \in Role : Range(turns[r]) \subseteq Range(turns'[r])
  BY <1>3, DeliveredFacts
<1>5. \A r \in Role : Still(r)
  BY <1>1 DEF Still, memory, log
<1>6. Kept(p)' = Kept(p)
  BY <1>5, StillFacts
<1>7. (Ongoing(p)' <=> Ongoing(p)) /\ (Playing(p)' <=> Playing(p))
  BY <1>5, StillFacts DEF Still, Ongoing
<1>8. Finals' /\ Underway'
  BY <1>1, <1>2, <1>3, <1>4, <1>5, <1>6, <1>7, CalmStep
<1>9. Smooth'
  <2>1. \A r \in Role : Ongoing(r)' <=> Ongoing(r)
    BY <1>5 DEF Still, Ongoing
  <2>2. /\ pc' = pc /\ report' = report /\ audits' = audits /\ controls' = controls
        /\ crashes' = crashes
    BY <1>1, <1>3
  <2> SUFFICES ASSUME NEW r \in Role PROVE Fine(r)'
    BY DEF Smooth
  <2>3. Fine(r) /\ Rival(r) \in Role
    BY RivalFacts DEF Flawless, Smooth
  <2> QED BY <2>1, <2>2, <2>3 DEF Fine
<1> QED BY <1>8, <1>9 DEF Flawless

-----------------------------------------------------------------------------
(* The inductive invariant of the calm games *)

LEMMA RestInit == Init => FInv
<1> SUFFICES ASSUME Init PROVE FInv
  OBVIOUS
<1>1. HInv
  BY UntornInit
<1>2. \A p \in Role : /\ pc[p] = "loop" /\ own[p].outcome = "ongoing" /\ draft[p] = "ongoing"
                      /\ controls[p] = 0 /\ audits[p] = << >> /\ report[p] = None
                      /\ records[p] = << >>
  BY NewOwnFacts DEF Init
<1>3. TypesOfRest
  <2>1. /\ controls = [p \in Role |-> 0] /\ audits = [p \in Role |-> << >>]
        /\ report = [p \in Role |-> None] /\ crashes = 0 /\ excused = FALSE
    BY DEF Init
  <2>2. << >> \in Seq(Seq(SealedRec))
    OBVIOUS
  <2>3. report = [p \in Role |-> report[p]]
    BY <2>1
  <2>4. audits \in [Role -> Seq(Seq(SealedRec))]
    BY <2>1, <2>2
  <2> QED BY <2>1, <2>3, <2>4 DEF TypesOfRest
<1>4. Errors
  BY <1>2 DEF Errors
<1>5. Smooth
  BY <1>2 DEF Smooth, Fine
<1>6. Finals
  BY <1>2, Names DEF Finals, Playing, Ongoing
<1>7. Underway
  <2> SUFFICES ASSUME NEW p \in Role, Made(Rival(p)) > Heard(p) PROVE FALSE
    BY DEF Underway, Reaches
  <2>1. Rival(p) \in Role
    BY RivalFacts
  <2>2. Made(Rival(p)) = 0
    BY <1>2, <2>1, KeptFields
  <2>3. Heard(p) \in Nat
    BY <1>1, KeptTypes DEF HInv
  <2> QED BY <2>2, <2>3
<1> QED BY <1>3, <1>4, <1>5, <1>6, <1>7 DEF FInv, Flawless

\* Crashes and excuses only add up.
LEMMA BudgetsGrow ==
  ASSUME TypesOfRest, [Next]_vars
  PROVE  crashes' >= crashes /\ (excused => excused')
<1>1. CASE UNCHANGED <<crashes, excused>>
  BY <1>1 DEF TypesOfRest
<1>2. CASE UNCHANGED vars
  BY <1>1, <1>2 DEF vars, budgets
<1>3. ASSUME NEW p \in Role, Program(p)
      PROVE  crashes' >= crashes /\ (excused => excused')
  <2>1. CASE DecidePolice(p) \/ DecideThief(p) \/ Send(p) \/ AfterSend(p) \/ ReceiveDuplicate(p)
    BY <1>1, <2>1 DEF DecidePolice, DecideThief, Send, AfterSend, ReceiveDuplicate, budgets
  <2>2. CASE RefuseTurn(p) \/ ConcedeTurn(p) \/ AbsorbTurn(p)
    BY <1>1, <2>2 DEF RefuseTurn, ConcedeTurn, AbsorbTurn, TakeTurn, budgets
  <2>3. CASE SendFinalAudit(p) \/ ReceiveAudit(p) \/ EmergencyAudit(p)
    BY <1>1, <2>3 DEF SendFinalAudit, ReceiveAudit, EmergencyAudit, budgets
  <2>4. CASE OfferResume(p) \/ AnswerOffer(p)
    BY <1>1, <2>4 DEF OfferResume, AnswerOffer, budgets
  <2>5. CASE LapseOverdue(p)
    BY <2>5 DEF LapseOverdue, TypesOfRest
  <2> QED BY <1>3, <2>1, <2>2, <2>3, <2>4, <2>5 DEF Program
<1>4. ASSUME NEW p \in Role, LapseSlow(p) \/ Crash(p) \/ Restart(p)
      PROVE  crashes' >= crashes /\ (excused => excused')
  BY <1>4 DEF LapseSlow, Crash, Restart, budgets, TypesOfRest
<1>5. ASSUME NEW m \in late, DeliverLate(m)
      PROVE  crashes' >= crashes /\ (excused => excused')
  BY <1>1, <1>5 DEF DeliverLate, budgets
<1> QED BY <1>2, <1>3, <1>4, <1>5 DEF Next

\* A step that makes no report and fails nobody.
LEMMA NoNewError ==
  ASSUME Errors, UNCHANGED report, \A r \in Role : pc'[r] = "failed" => pc[r] = "failed"
  PROVE  Errors'
BY DEF Errors

LEMMA MovedOn ==
  ASSUME Types, NEW p \in Role, NEW c, pc' = [pc EXCEPT ![p] = c], c # "failed"
  PROVE  \A r \in Role : pc'[r] = "failed" => pc[r] = "failed"
BY DEF Types, TypesOfPeers

\* A step in which one peer reports.
LEMMA OneReports ==
  ASSUME Types, Errors, NEW p \in Role, NEW c, pc' = [pc EXCEPT ![p] = c],
         report'[Rival(p)] = report[Rival(p)],
         report'[p] # None, report'[p].error \in {"none", "deadline"}
  PROVE  Errors'
<1>1. Rival(p) \in Role /\ Rival(p) # p /\ \A r \in Role : r = p \/ r = Rival(p)
  BY RivalFacts
<1>2. pc'[Rival(p)] = pc[Rival(p)]
  BY <1>1 DEF Types, TypesOfPeers
<1> QED BY <1>1, <1>2 DEF Errors

LEMMA ExpireErrors ==
  ASSUME Types, TypesOfRest, Errors, NEW p \in Role, Expire(p)
  PROVE  Errors'
<1>1. CASE pc' = [pc EXCEPT ![p] = "failed"] /\ report'[p] # None /\ report'[p].error = "deadline"
  BY <1>1, ExpireReport, OneReports
<1>2. CASE report' = report /\ pc' = [pc EXCEPT ![p] = "await_audit"]
  <2>1. \A r \in Role : pc'[r] = "failed" => pc[r] = "failed"
    BY <1>2, MovedOn
  <2> QED BY <1>2, <2>1, NoNewError
<1>3. CASE report'[p] # None /\ pc' = [pc EXCEPT ![p] = "done"] /\ report'[p].error = "none"
  BY <1>3, ExpireReport, OneReports
<1>4. CASE /\ pc[p] = "failed" /\ report'[p] # None /\ pc' = [pc EXCEPT ![p] = "done"]
           /\ report'[p].error = report[p].error
  <2>1. report[p].error \in {"none", "deadline"}
    BY <1>4 DEF Errors
  <2> QED BY <1>4, <2>1, ExpireReport, OneReports
<1>5. CASE report' = report /\ pc' = [pc EXCEPT ![p] = "down"]
  <2>1. \A r \in Role : pc'[r] = "failed" => pc[r] = "failed"
    BY <1>5, MovedOn
  <2> QED BY <1>5, <2>1, NoNewError
<1> QED BY <1>1, <1>2, <1>3, <1>4, <1>5, ExpireReport

LEMMA ErrorsStep ==
  ASSUME Types, Untorn, TypesOfRest, Errors, [Next]_vars
  PROVE  Errors'
<1>1. CASE UNCHANGED vars
  <2>1. pc' = pc /\ report' = report
    BY <1>1 DEF vars
  <2> QED BY <2>1, NoNewError
<1>2. ASSUME NEW p \in Role, Program(p)
      PROVE  Errors'
  <2>1. CASE DecidePolice(p) \/ DecideThief(p) \/ ConcedeTurn(p)
    <3>1. report' = report /\ pc' = [pc EXCEPT ![p] = "sending"]
      BY <2>1 DEF DecidePolice, DecideThief, ConcedeTurn, Seal
    <3>2. \A r \in Role : pc'[r] = "failed" => pc[r] = "failed"
      BY <3>1, MovedOn
    <3> QED BY <3>1, <3>2, NoNewError
  <2>2. CASE Send(p)
    <3>1. report' = report /\ pc' = [pc EXCEPT ![p] = "sent"]
      BY <2>2 DEF Send
    <3>2. \A r \in Role : pc'[r] = "failed" => pc[r] = "failed"
      BY <3>1, MovedOn
    <3> QED BY <3>1, <3>2, NoNewError
  <2>3. CASE AfterSend(p) \/ OfferResume(p)
    <3>1. report' = report /\ pc' = [pc EXCEPT ![p] = "loop"]
      BY <2>3 DEF AfterSend, OfferResume
    <3>2. \A r \in Role : pc'[r] = "failed" => pc[r] = "failed"
      BY <3>1, MovedOn
    <3> QED BY <3>1, <3>2, NoNewError
  <2>4. CASE ReceiveDuplicate(p) \/ AbsorbTurn(p) \/ AnswerOffer(p)
    <3>1. report' = report /\ pc' = pc
      BY <2>4 DEF ReceiveDuplicate, AbsorbTurn, AnswerOffer
    <3> QED BY <3>1, NoNewError
  <2>5. CASE RefuseTurn(p)
    BY <2>5, RefuseTurnNever
  <2>6. CASE SendFinalAudit(p)
    <3>1. report' = report /\ pc' = [pc EXCEPT ![p] = "await_audit"]
      BY <2>6 DEF SendFinalAudit
    <3>2. \A r \in Role : pc'[r] = "failed" => pc[r] = "failed"
      BY <3>1, MovedOn
    <3> QED BY <3>1, <3>2, NoNewError
  <2>7. CASE ReceiveAudit(p)
    <3>1. PICK foreign, finding : Settle(p, foreign, finding)
      BY <2>7 DEF ReceiveAudit
    <3>2. pc' = [pc EXCEPT ![p] = "done"]
      BY <3>1 DEF Settle
    <3> QED BY <3>1, <3>2, SettledReport, OneReports
  <2>8. CASE EmergencyAudit(p)
    <3>1. TechnicalLossReport(p) /\ pc[p] = "failed" /\ pc' = [pc EXCEPT ![p] = "done"]
      BY <2>8 DEF EmergencyAudit, TechnicalLossReport
    <3>2. report[p].error \in {"none", "deadline"}
      BY <3>1 DEF Errors
    <3> QED BY <3>1, <3>2, LossReport, OneReports
  <2>9. CASE LapseOverdue(p)
    BY <2>9, ExpireErrors DEF LapseOverdue
  <2> QED BY <1>2, <2>1, <2>2, <2>3, <2>4, <2>5, <2>6, <2>7, <2>8, <2>9 DEF Program
<1>3. ASSUME NEW p \in Role, LapseSlow(p)
      PROVE  Errors'
  BY <1>3, ExpireErrors DEF LapseSlow
<1>4. ASSUME NEW p \in Role, Crash(p)
      PROVE  Errors'
  <2>1. pc' = [pc EXCEPT ![p] = "down"] /\ report' = [report EXCEPT ![p] = None]
    BY <1>4 DEF Crash
  <2>2. \A r \in Role : /\ pc'[r] = "failed" => r # p /\ pc[r] = "failed"
                        /\ report'[r] = IF r = p THEN None ELSE report[r]
    BY <2>1 DEF Types, TypesOfPeers, TypesOfRest
  <2> QED BY <2>2 DEF Errors
<1>5. ASSUME NEW p \in Role, Restart(p)
      PROVE  Errors'
  <2>1. report' = report /\ pc' = [pc EXCEPT ![p] = "offering"]
    BY <1>5 DEF Restart
  <2>2. \A r \in Role : pc'[r] = "failed" => pc[r] = "failed"
    BY <2>1, MovedOn
  <2> QED BY <2>1, <2>2, NoNewError
<1>6. ASSUME NEW m \in late, DeliverLate(m)
      PROVE  Errors'
  <2>1. report' = report /\ pc' = pc
    BY <1>6 DEF DeliverLate
  <2> QED BY <2>1, NoNewError
<1> QED BY <1>1, <1>2, <1>3, <1>4, <1>5, <1>6 DEF Next

LEMMA FlawlessStep ==
  ASSUME Types, Untorn, Untorn', TypesOfRest, Flawless, [Next]_vars,
         ~torn', ~excused', crashes' <= 1
  PROVE  Flawless'
<1>1. CASE UNCHANGED vars
  <2>1. /\ UNCHANGED <<pc, own, draft, records, their, consumed, response, last_sent,
                       snapshot, turns, audits, controls, report, crashes>>
    BY <1>1 DEF vars, memory, log, boxes, budgets
  <2>2. \A p \in Role : Still(p)
    BY <2>1 DEF Still
  <2>3. /\ "police" \in Role /\ Rival("police") \in Role /\ Kept("police")' = Kept("police")
        /\ (Ongoing("police")' <=> Ongoing("police"))
    BY <2>2, Names, StillFacts DEF Still, Ongoing
  <2>4. pc' = pc /\ turns' = turns /\ controls' = controls /\ pc["police"] \notin {"failed"}
    BY <2>1, Names DEF Flawless, Smooth, Fine
  <2>5. Finals' /\ Underway'
    BY <2>2, <2>3, <2>4, Names, CalmStep
  <2>6. Smooth'
    <3>1. \A r \in Role : Ongoing(r)' <=> Ongoing(r)
      BY <2>2 DEF Still, Ongoing
    <3> SUFFICES ASSUME NEW r \in Role PROVE Fine(r)'
      BY DEF Smooth
    <3>2. Fine(r) /\ Rival(r) \in Role
      BY RivalFacts DEF Flawless, Smooth
    <3> QED BY <2>1, <3>1, <3>2 DEF Fine
  <2> QED BY <2>5, <2>6 DEF Flawless
<1>2. ASSUME NEW p \in Role, Program(p)
      PROVE  Flawless'
  <2>1. CASE DecidePolice(p) \/ DecideThief(p)
    BY <2>1, DecidePoliceFine, DecideThiefFine
  <2>2. CASE Send(p) \/ AfterSend(p) \/ ReceiveDuplicate(p)
    BY <2>2, SendFine, AfterSendFine, ReceiveDuplicateFine
  <2>3. CASE RefuseTurn(p) \/ AbsorbTurn(p) \/ ConcedeTurn(p)
    BY <2>3, RefuseTurnNever, AbsorbTurnFine, ConcedeTurnFine
  <2>4. CASE SendFinalAudit(p) \/ ReceiveAudit(p)
    BY <2>4, SendFinalAuditFine, ReceiveAuditFine
  <2>5. CASE EmergencyAudit(p)
    BY <2>5 DEF EmergencyAudit, Flawless, Smooth, Fine
  <2>6. CASE OfferResume(p) \/ AnswerOffer(p) \/ LapseOverdue(p)
    BY <2>6, OfferResumeFine, AnswerOfferFine, LapseOverdueFine
  <2> QED BY <1>2, <2>1, <2>2, <2>3, <2>4, <2>5, <2>6 DEF Program
<1>3. ASSUME NEW p \in Role, LapseSlow(p) \/ Crash(p) \/ Restart(p)
      PROVE  Flawless'
  <2>1. ~LapseSlow(p)
    BY DEF LapseSlow
  <2> QED BY <1>3, <2>1, CrashFine, RestartFine
<1>4. ASSUME NEW m \in late, DeliverLate(m)
      PROVE  Flawless'
  BY <1>4, DeliverLateFine
<1> QED BY <1>1, <1>2, <1>3, <1>4 DEF Next

LEMMA FInvStep == HInv /\ HInv' /\ FInv /\ [Next]_vars => FInv'
<1> SUFFICES ASSUME HInv, HInv', FInv, [Next]_vars PROVE FInv'
  OBVIOUS
<1>1. TypesOfRest'
  BY RestStep DEF HInv, FInv
<1>2. ASSUME ~torn' PROVE Errors'
  BY <1>2, TornStays, ErrorsStep DEF HInv, FInv
<1>3. ASSUME ~torn', crashes' <= 1, ~excused' PROVE Flawless'
  <2>1. ~torn /\ Untorn /\ Untorn' /\ Types /\ TypesOfRest
    BY <1>3, TornStays DEF HInv, FInv
  <2>2. crashes' >= crashes /\ ~excused
    BY <1>3, <2>1, BudgetsGrow
  <2>3. crashes <= 1
    BY <1>1, <1>3, <2>1, <2>2 DEF TypesOfRest
  <2> QED BY <1>3, <2>1, <2>2, <2>3, FlawlessStep DEF FInv
<1> QED BY <1>1, <1>2, <1>3 DEF FInv

\* One crash outside a send costs nobody the game, and no honest peer is ever
\* accused of a breach.
THEOREM CrashIsFree == Spec => []CrashCostsNothing
<1>1. Spec => []FInv
  <2>1. HInv /\ FInv /\ [Next]_vars => HInv' /\ FInv'
    BY HInvStep, FInvStep
  <2> QED BY UntornInit, RestInit, <2>1, PTL DEF Spec
<1>2. FInv => CrashCostsNothing
  <2> SUFFICES ASSUME FInv, ~torn, crashes <= 1, NEW p \in Role, report[p] # None
               PROVE  report[p].error \in IF excused THEN {"none", "deadline"} ELSE {"none"}
    BY DEF CrashCostsNothing
  <2>1. report[p].error \in {"none", "deadline"}
    BY DEF FInv, Errors
  <2>2. ~excused => report[p].error = "none"
    BY DEF FInv, Flawless, Smooth, Fine
  <2> QED BY <2>1, <2>2
<1> QED BY <1>1, <1>2, PTL

-----------------------------------------------------------------------------
(* The game as both sides' records tell it *)

WallOf(action) == IF action.type = "barrier" THEN Claim(action.cell) ELSE None

\* A side's records are its half-turns in order, and the walls are the police's.
Numbered(p) ==
  \A i \in 1 .. Made(p) :
    LET payload == Kept(p).records[i].payload IN
    /\ payload.step = i /\ payload.role = p
    /\ p = "thief" => payload.action.type # "barrier"

\* Its newest message carries the newest of them.
Newest(p) ==
  Made(p) > 0 =>
    /\ Latest(p).commit = Kept(p).records[Made(p)]
    /\ Latest(p).barrier_placed = WallOf(Latest(p).commit.payload.action)

\* What it has heard is what its rival has sealed.
Copied(p) ==
  \A i \in 1 .. Heard(p) : Kept(p).their[i].commit = Kept(Rival(p)).records[i]

\* The sealed actions lead over the board to where it is.
Trail(p) ==
  LET at == Path(Start(p), Kept(p).records)
  IN  (\A i \in 0 .. Made(p) : at[i] \in Cell) /\ at[Made(p)] = Kept(p).cell

\* The walls among the first n records.
Placed(sealed, n) ==
  {sealed[i].payload.action.cell : i \in {j \in 1 .. n : sealed[j].payload.action.type = "barrier"}}

WallsPlaced ==
  /\ Kept("police").barriers = Placed(Kept("police").records, Made("police"))
  /\ Kept("thief").barriers = Placed(Kept("police").records, Heard("thief"))

CapturedAt(walls, cell) == cell \in walls \/ IsSurrounded(walls, cell)

Conceded == Latest("thief") # None /\ Caught(Latest("thief").claim_response)

Claimed == Latest("thief") # None /\ Latest("thief").win_claim

\* A thief that has not conceded was free wherever it stood, once the walls of
\* the round stood too.
Stood ==
  ~Conceded =>
    /\ \A i \in 1 .. Heard("thief") :
         ~CapturedAt(Placed(Kept("police").records, i),
                     Path(ThiefStart, Kept("thief").records)[i])
    /\ Made("thief") > Heard("thief") => ~CapturedAt(Kept("thief").barriers, Kept("thief").cell)

\* What an outcome says of the messages.
Ends ==
  /\ \A p \in Role : /\ draft[p] # "technical_loss"
                     /\ own[p].outcome = "technical_loss" => pc[p] \in {"failed", "done"}
  /\ Claimed => ~Conceded
  /\ Conceded => Made("police") = Heard("thief")
  /\ Conceded \/ Claimed => Made("thief") = Heard("thief") + 1
  /\ own["thief"].outcome = "capture" \/ draft["thief"] = "capture" => Conceded
  /\ own["police"].outcome = "capture" => Conceded /\ Heard("police") = Made("thief")
  /\ Won("police") => Heard("police") = Made("thief")

Past ==
  /\ \A p \in Role : Numbered(p) /\ Newest(p) /\ Copied(p) /\ Trail(p)
  /\ WallsPlaced /\ Stood

-----------------------------------------------------------------------------
(* What is disclosed, and what is found *)

Disclosed(p) ==
  \A sealed \in Range(audits[p]) :
    pc[Rival(p)] \in {"await_audit", "done"} /\ sealed = records[Rival(p)]

\* A verdict on a half in the rival's own schema.
ForeignCleared(p) ==
  pc[p] = "done" /\ report[p].foreign =>
    report[p].audit = "Verified OK" /\ ~report[p].disputed

TInv ==
  ~torn => Past /\ Ends /\ \A p \in Role : Disclosed(p) /\ ForeignCleared(p)

-----------------------------------------------------------------------------
(* The cells a sequence of actions leads through *)

\* The loop of Path, as an equation.
Steps(f, n, start, A) ==
  f = [i \in 0 .. n |-> IF i = 0 THEN start ELSE Landing(A[i].payload.action, f[i - 1])]

\* It has a value after every number of actions.
LEMMA StepsExist ==
  ASSUME NEW A, NEW start, NEW n \in Nat
  PROVE  \E f : Steps(f, n, start, A)
<1> DEFINE Bad == {k \in Nat : ~ \E f : Steps(f, k, start, A)}
<1>1. SUFFICES ASSUME Bad # {} PROVE FALSE
  OBVIOUS
<1>2. PICK m \in Bad : \A k \in Bad : m <= k
  BY <1>1, LeastNumber
<1>3. m # 0
  <2>1. Steps([i \in 0 .. 0 |-> start], 0, start, A)
    BY DEF Steps
  <2> QED BY <2>1
<1>4. PICK f : Steps(f, m - 1, start, A)
  BY <1>2, <1>3
<1> DEFINE g == [i \in 0 .. m |->
                   IF i = m THEN Landing(A[m].payload.action, f[m - 1]) ELSE f[i]]
<1>5. Steps(g, m, start, A)
  <2>1. ASSUME NEW i \in 0 .. m
        PROVE  g[i] = IF i = 0 THEN start ELSE Landing(A[i].payload.action, g[i - 1])
    <3>1. CASE i = m
      BY <1>3, <3>1
    <3>2. CASE i # m
      <4>1. i \in 0 .. (m - 1) /\ g[i] = f[i] /\ (i # 0 => g[i - 1] = f[i - 1])
        BY <3>2
      <4>2. f[i] = IF i = 0 THEN start ELSE Landing(A[i].payload.action, f[i - 1])
        BY <4>1, <1>4 DEF Steps
      <4> QED BY <4>1, <4>2
    <3> QED BY <3>1, <3>2
  <2> QED BY <2>1 DEF Steps
<1> QED BY <1>2, <1>5

\* A path begins at the start, and each action takes it one cell on.
LEMMA PathIs ==
  ASSUME NEW A, Len(A) \in Nat, NEW start
  PROVE  /\ DOMAIN Path(start, A) = 0 .. Len(A)
         /\ Path(start, A)[0] = start
         /\ \A i \in 1 .. Len(A) :
              Path(start, A)[i] = Landing(A[i].payload.action, Path(start, A)[i - 1])
<1>1. \E f : Steps(f, Len(A), start, A)
  BY StepsExist
<1>2. Steps(Path(start, A), Len(A), start, A)
  <2> DEFINE at == CHOOSE f : f = [i \in 0 .. Len(A) |->
                     IF i = 0 THEN start ELSE Landing(A[i].payload.action, f[i - 1])]
  <2>1. at = [i \in 0 .. Len(A) |->
                     IF i = 0 THEN start ELSE Landing(A[i].payload.action, at[i - 1])]
    BY <1>1 DEF Steps
  <2>2. Path(start, A) = at
    BY DEF Path
  <2> HIDE DEF at
  <2> QED BY <2>1, <2>2 DEF Steps
<1>3. PICK f : f = Path(start, A)
  OBVIOUS
<1>4. f = [i \in 0 .. Len(A) |-> IF i = 0 THEN start ELSE Landing(A[i].payload.action, f[i - 1])]
  BY <1>2, <1>3 DEF Steps
<1>5. DOMAIN f = 0 .. Len(A) /\ f[0] = start
  BY <1>4
<1>6. ASSUME NEW i \in 1 .. Len(A) PROVE f[i] = Landing(A[i].payload.action, f[i - 1])
  <2>1. i \in 0 .. Len(A) /\ i # 0
    OBVIOUS
  <2> QED BY <1>4, <2>1
<1> QED BY <1>3, <1>5, <1>6

\* The path of a prefix is a prefix of the path.
LEMMA PathPrefix ==
  ASSUME NEW A, NEW B, Len(A) \in Nat, Len(B) \in Nat, NEW n \in Nat, NEW start,
         n <= Len(A), n <= Len(B),
         \A i \in 1 .. n : A[i].payload = B[i].payload
  PROVE  \A i \in 0 .. n : Path(start, A)[i] = Path(start, B)[i]
<1> DEFINE Bad == {k \in Nat : k <= n /\ Path(start, A)[k] # Path(start, B)[k]}
<1>1. SUFFICES ASSUME Bad # {} PROVE FALSE
  OBVIOUS
<1>2. PICK m \in Bad : \A k \in Bad : m <= k
  BY <1>1, LeastNumber
<1>3. m # 0
  BY <1>2, PathIs
<1>4. m \in 1 .. Len(A) /\ m \in 1 .. Len(B) /\ m \in 1 .. n
  BY <1>2, <1>3
<1>5. m - 1 \in Nat /\ m - 1 <= n /\ m - 1 \notin Bad
  BY <1>2, <1>4
<1>6. Path(start, A)[m - 1] = Path(start, B)[m - 1]
  BY <1>5
<1>7. /\ Path(start, A)[m] = Landing(A[m].payload.action, Path(start, A)[m - 1])
      /\ Path(start, B)[m] = Landing(B[m].payload.action, Path(start, B)[m - 1])
  BY <1>4, PathIs
<1>8. A[m].payload = B[m].payload
  BY <1>4
<1>9. Path(start, A)[m] = Path(start, B)[m]
  BY <1>6, <1>7, <1>8
<1> QED BY <1>2, <1>9

\* One action more.
LEMMA PathGrows ==
  ASSUME NEW S, NEW A \in Seq(S), NEW a \in S, NEW start
  PROVE  /\ \A i \in 0 .. Len(A) : Path(start, Append(A, a))[i] = Path(start, A)[i]
         /\ Path(start, Append(A, a))[Len(A) + 1]
              = Landing(a.payload.action, Path(start, A)[Len(A)])
<1>0. /\ Append(A, a) \in Seq(S) /\ Len(Append(A, a)) = Len(A) + 1
      /\ \A i \in 1 .. Len(A) : Append(A, a)[i] = A[i]
      /\ Append(A, a)[Len(A) + 1] = a
  BY AppendProperties
<1>1. PICK b : b = Append(A, a) /\ Len(b) = Len(A) + 1 /\ b[Len(A) + 1] = a
               /\ \A i \in 1 .. Len(A) : b[i] = A[i]
  BY <1>0
<1>2. PICK n \in Nat : n = Len(A) /\ Len(b) = n + 1
  BY <1>1, LenProperties
<1>3. \A i \in 0 .. n : Path(start, A)[i] = Path(start, b)[i]
  <2>1. \A i \in 1 .. n : A[i].payload = b[i].payload
    BY <1>1, <1>2
  <2>2. Len(A) \in Nat /\ Len(b) \in Nat /\ n <= Len(A) /\ n <= Len(b)
    BY <1>2
  <2> QED BY <2>1, <2>2, PathPrefix
<1>4. PICK k : k = n + 1
  OBVIOUS
<1>5. k \in 1 .. Len(b) /\ k - 1 = n /\ n \in 0 .. n /\ Len(b) \in Nat
  BY <1>2, <1>4
<1>6. Path(start, b)[k] = Landing(b[k].payload.action, Path(start, b)[k - 1])
  BY <1>5, PathIs
<1>7. b[k] = a /\ Path(start, b)[n] = Path(start, A)[n]
  BY <1>1, <1>2, <1>3, <1>4, <1>5
<1>8. Path(start, b)[k] = Landing(a.payload.action, Path(start, A)[n])
  BY <1>5, <1>6, <1>7
<1> QED BY <1>1, <1>2, <1>3, <1>4, <1>8

-----------------------------------------------------------------------------
(* Steps in which nobody seals or hears anything *)

\* What such a step makes of a peer's verdict on the game.
Outcomes(p) ==
  /\ draft'[p] \in {draft[p], "ongoing"}
  /\ \/ /\ own'[p].outcome = own[p].outcome
        /\ pc[p] \in {"failed", "done"} => pc'[p] \in {"failed", "done"}
     \/ own'[p].outcome \in {"ongoing", draft[p]}
     \/ own'[p].outcome = "technical_loss" /\ pc'[p] = "failed"

Rests(p) ==
  /\ Still(Rival(p)) /\ Kept(p)' = Kept(p) /\ unclaimed' = unclaimed
  /\ Outcomes(p)
  /\ pc[p] \in {"await_audit", "done"} => pc'[p] \in {"await_audit", "done"}

Lived(p) == DecidePolice(p) \/ DecideThief(p) \/ AbsorbTurn(p) \/ ConcedeTurn(p)

\* A peer that stays up and keeps its memory.
LEMMA UpRests ==
  ASSUME Types, NEW p \in Role, UNCHANGED memory, snapshot'[Rival(p)] = snapshot[Rival(p)],
         pc[p] # "down", unclaimed' = unclaimed,
         pc' = pc \/ \E c : pc' = [pc EXCEPT ![p] = c],
         pc'[p] # "down",
         pc[p] \in {"failed", "done"} => pc'[p] \in {"failed", "done"},
         pc[p] \in {"await_audit", "done"} => pc'[p] \in {"await_audit", "done"}
  PROVE  Rests(p)
<1>1. Rival(p) \in Role /\ Rival(p) # p
  BY RivalFacts
<1>2. pc'[Rival(p)] = pc[Rival(p)]
  BY <1>1 DEF Types, TypesOfPeers
<1>3. Still(Rival(p)) /\ Kept(p)' = Kept(p)
  BY <1>2, CalmMemory
<1> QED BY <1>3 DEF Rests, Outcomes, memory

LEMMA ExpireRests ==
  ASSUME Types, Untorn, NEW p \in Role, Expire(p), pc[p] # "down",
         UNCHANGED <<draft, response, log>>, unclaimed' = unclaimed
  PROVE  Rests(p)
<1>0. Rival(p) \in Role /\ Rival(p) # p
  BY RivalFacts
<1>1. CASE (pc[p] = "sending" \/ Expecting(p)) /\ Fail(p, "deadline") /\ UNCHANGED snapshot
  <2>1. PICK o \in OwnState :
          /\ own' = [own EXCEPT ![p] = o] /\ pc' = [pc EXCEPT ![p] = "failed"]
          /\ o.cell = own[p].cell /\ o.barriers = own[p].barriers
          /\ o.turns_completed = own[p].turns_completed
          /\ o.next_actor = own[p].next_actor /\ o.outcome = "technical_loss"
    BY <1>1, FailTypes
  <2>2. own'[p] = o /\ pc'[p] = "failed"
    BY <2>1 DEF Types, TypesOfPeers
  <2>3. Still(Rival(p))
    BY <1>0, <1>1, <2>1 DEF Still, log, Types, TypesOfPeers
  <2>4. Memory(p)' = Memory(p)
    BY <2>1, <2>2, SameMemory DEF log
  <2>5. Kept(p)' = Kept(p)
    BY <2>2, <2>4 DEF Kept
  <2>6. pc[p] \notin {"await_audit", "done"}
    BY <1>1 DEF Expecting
  <2> QED BY <2>1, <2>2, <2>3, <2>5, <2>6 DEF Rests, Outcomes
<1>2. CASE pc[p] = "loop" /\ ~Ongoing(p) /\ pc' = [pc EXCEPT ![p] = "await_audit"]
           /\ UNCHANGED <<own, snapshot>>
  <2>1. pc'[p] = "await_audit" /\ snapshot'[Rival(p)] = snapshot[Rival(p)]
    BY <1>2 DEF Types, TypesOfPeers
  <2> QED BY <1>2, <2>1, UpRests DEF memory
<1>3. CASE AwaitingAudit(p) /\ Settle(p, FALSE, NoAudit) /\ UNCHANGED own
  <2>1. pc' = [pc EXCEPT ![p] = "done"] /\ \E s : snapshot' = [snapshot EXCEPT ![p] = s]
    BY <1>3, SettleDone
  <2>2. pc'[p] = "done" /\ snapshot'[Rival(p)] = snapshot[Rival(p)]
    BY <1>0, <2>1 DEF Types, TypesOfPeers
  <2> QED BY <1>3, <2>1, <2>2, UpRests DEF memory
<1>4. CASE pc[p] = "failed" /\ TechnicalLossReport(p) /\ UNCHANGED <<own, snapshot>>
  <2>1. pc' = [pc EXCEPT ![p] = "done"]
    BY <1>4 DEF TechnicalLossReport
  <2>2. pc'[p] = "done" /\ snapshot'[Rival(p)] = snapshot[Rival(p)]
    BY <1>4, <2>1 DEF Types, TypesOfPeers
  <2> QED BY <1>4, <2>1, <2>2, UpRests DEF memory
<1>5. CASE pc[p] = "offering" /\ pc' = [pc EXCEPT ![p] = "down"] /\ UNCHANGED <<own, snapshot>>
  <2>1. Still(Rival(p)) /\ Memory(p)' = Memory(p) /\ own'[p] = own[p] /\ draft'[p] = draft[p]
    BY <1>5, StillRival DEF memory
  <2>2. pc'[p] = "down" /\ snapshot'[p] = snapshot[p]
    BY <1>5 DEF Types, TypesOfPeers
  <2>3. Filed(p) /\ Kept(p) = Memory(p)
    BY <1>5 DEF Untorn, Saved, Kept
  <2>4. Kept(p)' = Kept(p)
    BY <2>1, <2>2, <2>3 DEF Kept, Filed
  <2> QED BY <1>5, <2>1, <2>4 DEF Rests, Outcomes
<1> QED BY <1>1, <1>2, <1>3, <1>4, <1>5 DEF Expire, AwaitingAudit

LEMMA ProgramRests ==
  ASSUME Types, Untorn, NEW p \in Role, Program(p)
  PROVE  Rests(p) \/ Lived(p)
<1>1. CASE Lived(p)
  BY <1>1
<1>2. CASE Send(p)
  <2>1. /\ UNCHANGED memory /\ snapshot' = snapshot /\ unclaimed' = unclaimed
        /\ pc[p] = "sending" /\ pc' = [pc EXCEPT ![p] = "sent"]
    BY <1>2 DEF Send
  <2>2. pc'[p] = "sent"
    BY <2>1 DEF Types, TypesOfPeers
  <2> QED BY <2>1, <2>2, UpRests
<1>3. CASE AfterSend(p)
  <2>1. /\ own' = [own EXCEPT ![p].outcome = draft[p]] /\ unclaimed' = unclaimed
        /\ draft' = [draft EXCEPT ![p] = "ongoing"] /\ pc[p] = "sent"
    BY <1>3 DEF AfterSend, budgets
  <2>2. own'[p].outcome = draft[p] /\ draft'[p] = "ongoing"
    BY <2>1 DEF Types, TypesOfPeers, OwnState
  <2>3. Still(Rival(p)) /\ Kept(p)' = Kept(p)
    BY <1>3, AfterSendKeeps
  <2> QED BY <2>1, <2>2, <2>3 DEF Rests, Outcomes
<1>4. CASE ReceiveDuplicate(p)
  <2>1. /\ UNCHANGED memory /\ snapshot' = snapshot /\ unclaimed' = unclaimed
        /\ pc[p] = "loop" /\ pc' = pc
    BY <1>4 DEF ReceiveDuplicate, budgets, Expecting
  <2> QED BY <2>1, UpRests
<1>5. CASE SendFinalAudit(p)
  <2>1. /\ UNCHANGED memory /\ snapshot' = snapshot /\ unclaimed' = unclaimed
        /\ pc[p] = "loop" /\ pc' = [pc EXCEPT ![p] = "await_audit"]
    BY <1>5 DEF SendFinalAudit, budgets
  <2>2. pc'[p] = "await_audit"
    BY <2>1 DEF Types, TypesOfPeers
  <2> QED BY <2>1, <2>2, UpRests
<1>6. CASE ReceiveAudit(p)
  <2>1. /\ UNCHANGED memory /\ unclaimed' = unclaimed /\ pc[p] = "await_audit"
        /\ \E foreign, finding : Settle(p, foreign, finding)
    BY <1>6 DEF ReceiveAudit, budgets, AwaitingAudit
  <2>2. pc' = [pc EXCEPT ![p] = "done"] /\ \E s : snapshot' = [snapshot EXCEPT ![p] = s]
    BY <2>1, SettleDone
  <2>3. Rival(p) \in Role /\ Rival(p) # p
    BY RivalFacts
  <2>4. pc'[p] = "done" /\ snapshot'[Rival(p)] = snapshot[Rival(p)]
    BY <2>2, <2>3 DEF Types, TypesOfPeers
  <2> QED BY <2>1, <2>2, <2>4, UpRests
<1>7. CASE EmergencyAudit(p)
  <2>1. /\ UNCHANGED memory /\ snapshot' = snapshot /\ unclaimed' = unclaimed
        /\ pc[p] = "failed" /\ pc' = [pc EXCEPT ![p] = "done"]
    BY <1>7 DEF EmergencyAudit, TechnicalLossReport, budgets
  <2>2. pc'[p] = "done"
    BY <2>1 DEF Types, TypesOfPeers
  <2> QED BY <2>1, <2>2, UpRests
<1>8. CASE OfferResume(p)
  <2>1. /\ UNCHANGED memory /\ snapshot' = snapshot /\ unclaimed' = unclaimed
        /\ pc[p] = "offering" /\ pc' = [pc EXCEPT ![p] = "loop"]
    BY <1>8 DEF OfferResume, budgets
  <2>2. pc'[p] = "loop"
    BY <2>1 DEF Types, TypesOfPeers
  <2> QED BY <2>1, <2>2, UpRests
<1>9. CASE AnswerOffer(p)
  <2>1. /\ UNCHANGED memory /\ snapshot' = snapshot /\ unclaimed' = unclaimed
        /\ pc[p] # "down" /\ pc' = pc
    BY <1>9, UpWhenWaiting DEF AnswerOffer
  <2> QED BY <2>1, UpRests
<1>10. CASE LapseOverdue(p)
  <2>1. /\ Expire(p) /\ UNCHANGED <<draft, response, log>> /\ unclaimed' = unclaimed
        /\ Sending(p) \/ Waiting(p)
    BY <1>10 DEF LapseOverdue, Overdue, Starved
  <2> QED BY <2>1, UpWhenWaiting, ExpireRests
<1>11. CASE RefuseTurn(p)
  BY <1>11, RefuseTurnNever
<1> QED BY <1>1, <1>2, <1>3, <1>4, <1>5, <1>6, <1>7, <1>8, <1>9, <1>10, <1>11
        DEF Program, Lived

\* A step is something one of them seals or hears, or leaves all that as it is.
LEMMA StepRests ==
  ASSUME Types, Untorn, [Next]_vars, ~torn'
  PROVE  \E p \in Role : Rests(p) \/ Lived(p)
<1>1. CASE UNCHANGED vars
  <2>1. /\ UNCHANGED <<pc, own, draft, records, their, consumed, response, last_sent,
                       snapshot, unclaimed>>
    BY <1>1 DEF vars, memory, log, budgets
  <2>2. \A p \in Role : Still(p)
    BY <2>1 DEF Still
  <2>3. Kept("police")' = Kept("police")
    BY <2>2, Names, StillFacts
  <2> QED BY <2>1, <2>2, <2>3, Names DEF Rests, Outcomes
<1>2. ASSUME NEW p \in Role, Program(p)
      PROVE  Rests(p) \/ Lived(p)
  BY <1>2, ProgramRests
<1>3. ASSUME NEW p \in Role, LapseSlow(p)
      PROVE  Rests(p)
  <2>1. /\ Expire(p) /\ UNCHANGED <<draft, response, log>> /\ unclaimed' = unclaimed
        /\ Sending(p) \/ Waiting(p)
    BY <1>3 DEF LapseSlow
  <2> QED BY <2>1, UpWhenWaiting, ExpireRests
<1>4. ASSUME NEW p \in Role, Crash(p)
      PROVE  Rests(p)
  <2>1. Still(Rival(p)) /\ Kept(p)' = Kept(p)
    BY <1>4, CrashKeeps
  <2>2. /\ own' = [own EXCEPT ![p] = NewOwn(p)] /\ draft' = [draft EXCEPT ![p] = "ongoing"]
        /\ unclaimed' = unclaimed /\ ~Unsaved(p) /\ pc[p] # "done"
    BY <1>4 DEF Crash
  <2>3. own'[p].outcome = "ongoing" /\ draft'[p] = "ongoing"
    BY <2>2, NewOwnFacts DEF Types, TypesOfPeers
  <2>4. pc[p] # "await_audit"
    BY <2>2 DEF Untorn, Saved, Unsaved
  <2> QED BY <2>1, <2>2, <2>3, <2>4 DEF Rests, Outcomes
<1>5. ASSUME NEW p \in Role, Restart(p)
      PROVE  Rests(p)
  <2>1. Still(Rival(p)) /\ Kept(p)' = Kept(p)
    BY <1>5, RestartKeeps
  <2>2. own'[p].outcome = own[p].outcome
    <3>1. PICK o \in OwnState : o.outcome = own[p].outcome /\ own' = [own EXCEPT ![p] = o]
      BY <1>5, RestartEffect
    <3> QED BY <3>1 DEF Types, TypesOfPeers
  <2>3. draft' = draft /\ unclaimed' = unclaimed /\ pc[p] = "down"
    BY <1>5 DEF Restart, budgets
  <2> QED BY <2>1, <2>2, <2>3 DEF Rests, Outcomes
<1>6. ASSUME NEW m \in late, DeliverLate(m)
      PROVE  \E p \in Role : Rests(p)
  <2>1. /\ UNCHANGED <<pc, own, draft, records, their, consumed, response, last_sent,
                       snapshot, unclaimed>>
    BY <1>6 DEF DeliverLate, memory, log, budgets
  <2>2. \A p \in Role : Still(p)
    BY <2>1 DEF Still
  <2>3. Kept("police")' = Kept("police")
    BY <2>2, Names, StillFacts
  <2> QED BY <2>1, <2>2, <2>3, Names DEF Rests, Outcomes
<1> QED BY <1>1, <1>2, <1>3, <1>4, <1>5, <1>6 DEF Next

-----------------------------------------------------------------------------
(* What sealing and hearing add to the records *)

Acts(p, x) ==
  /\ x \in SealedRec /\ x.payload.step = Made(p) + 1 /\ x.payload.role = p
  /\ p = "thief" => x.payload.action.type # "barrier"
  /\ Kept(p)'.records = Append(Kept(p).records, x) /\ Made(p)' = Made(p) + 1
  /\ Kept(p)'.cell = Landing(x.payload.action, Kept(p).cell) /\ Kept(p)'.cell \in Cell
  /\ Latest(p)' # None /\ Latest(p)'.commit = x
  /\ Latest(p)'.barrier_placed = WallOf(x.payload.action)

Silent(p) ==
  /\ Kept(p)'.records = Kept(p).records /\ Made(p)' = Made(p)
  /\ Kept(p)'.cell = Kept(p).cell /\ Latest(p)' = Latest(p)

Hears(p, h) ==
  /\ h \in HeardRec
  /\ h.commit = Latest(Rival(p)).commit
  /\ h.barrier_placed = Latest(Rival(p)).barrier_placed
  /\ h.capture_claim = Latest(Rival(p)).capture_claim
  /\ Kept(p)'.their = Append(Kept(p).their, h) /\ Heard(p)' = Heard(p) + 1

Deaf(p) == Kept(p)'.their = Kept(p).their /\ Heard(p)' = Heard(p)

LEMMA KeptRecords ==
  ASSUME Types, NEW p \in Role
  PROVE  Kept(p).records \in Seq(SealedRec) /\ Kept(p).their \in Seq(HeardRec)
BY MemoryTypes DEF Snap

LEMMA UpRecords ==
  ASSUME NEW p \in Role, pc[p] # "down"
  PROVE  Kept(p).records = records[p] /\ Kept(p).their = their[p]
BY KeptFields, MemoryFields

\* What Seal adds.
LEMMA SealAdds ==
  ASSUME Types, NEW p \in Role, NEW s \in OwnState, NEW a \in Action, NEW claim \in Place,
         NEW answer \in Response, NEW win \in BOOLEAN, NEW ends \in Outcome,
         Seal(p, s, a, claim, answer, win, ends), pc[p] = "loop",
         p = "thief" => a.type # "barrier",
         s.cell = Landing(a, Kept(p).cell)
  PROVE  /\ \E x : Acts(p, x) /\ x.payload.action = a
         /\ Kept(p)'.their = their'[p]
<1>1. PICK x \in SealedRec :
         /\ x = SealedStep(p, a)
         /\ x.payload.step = Len(records[p]) + 1 /\ x.payload.role = p
         /\ x.payload.action = a
  BY SealedFacts
<1>2. PICK m : m = TurnMessage(x, claim, answer, win)
  OBVIOUS
<1>3. m.commit = x /\ m.barrier_placed = WallOf(a)
  BY <1>1, <1>2 DEF TurnMessage, WallOf
<1>4. /\ records' = [records EXCEPT ![p] = Append(records[p], x)]
      /\ last_sent' = [last_sent EXCEPT ![p] = m] /\ pc' = [pc EXCEPT ![p] = "sending"]
  BY <1>1, <1>2 DEF Seal
<1>5. records'[p] = Append(records[p], x) /\ last_sent'[p] = m /\ pc'[p] = "sending"
  BY <1>4 DEF Types, TypesOfPeers
<1>6. /\ Memory(p)'.records = Append(records[p], x) /\ Memory(p)'.their = their'[p]
      /\ Memory(p)'.last_sent = m
  BY <1>5 DEF Memory, BuildSnapshot
<1>7. Kept(p)' = Memory(p)'
  BY <1>5 DEF Kept
<1>8. Latest(p)' = m
  BY <1>6, <1>7 DEF Latest
<1>9. /\ Kept(p)'.cell = s.cell /\ Made(p)' = Made(p) + 1 /\ Latest(p)' # None
  BY SealEffect
<1>10. Kept(p).records = records[p] /\ Made(p) = Len(records[p])
  BY UpRecords DEF Made
<1>11. s.cell \in Cell
  BY DEF OwnState
<1>12. Acts(p, x)
  BY <1>1, <1>3, <1>6, <1>7, <1>8, <1>9, <1>10, <1>11 DEF Acts
<1> QED BY <1>1, <1>6, <1>7, <1>12

\* Where a legal action of one's own leads.
LEMMA OwnActionLands ==
  ASSUME NEW p \in Role, NEW s \in OwnState, NEW a \in Action, OwnActionLegal(s, p, a)
  PROVE  ApplyOwnAction(s, p, a).cell = Landing(a, s.cell)
BY ActionFacts DEF ApplyOwnAction, Landing, OwnState, OwnActionLegal

LEMMA TakeAdds ==
  ASSUME Types, Untorn, NEW p \in Role, TakeTurn(p), pc[p] # "down", pc'[p] # "down",
         Message(p) = Latest(Rival(p))
  PROVE  \E h : Hears(p, h)
<1>1. PICK h \in HeardRec : /\ their' = [their EXCEPT ![p] = Append(their[p], h)]
                            /\ h.commit = Message(p).commit
                            /\ h.barrier_placed = Message(p).barrier_placed
                            /\ h.capture_claim = Message(p).capture_claim
  BY TakeTypes
<1>2. their'[p] = Append(their[p], h)
  BY <1>1 DEF Types, TypesOfPeers
<1>3. Kept(p)' = Memory(p)' /\ Memory(p)'.their = their'[p]
  BY DEF Kept, Memory, BuildSnapshot
<1>4. Kept(p).their = their[p] /\ Heard(p) = Len(their[p])
  BY UpRecords DEF Heard
<1>5. Len(Append(their[p], h)) = Len(their[p]) + 1
  BY AppendProperties DEF Types, TypesOfPeers
<1>6. Heard(p)' = Heard(p) + 1
  BY <1>2, <1>3, <1>4, <1>5 DEF Heard
<1> QED BY <1>1, <1>2, <1>3, <1>4, <1>6 DEF Hears

-----------------------------------------------------------------------------
(* The four ways a game moves on *)

\* The police seals a half-turn.
PoliceActs(x) ==
  /\ Acts("police", x) /\ Deaf("police") /\ Still("thief")
  /\ Made("police") = Heard("thief") /\ Heard("police") = Made("police") + 1
  /\ Made("thief") = Heard("thief") + 1 /\ ~Conceded /\ ~Claimed
  /\ \/ /\ x.payload.action.type = "barrier" /\ x.payload.action.cell \in Cell
        /\ BarrierLegal(Kept("police").barriers, Kept("police").cell, x.payload.action.cell)
        /\ Kept("police")'.barriers = Kept("police").barriers \cup {x.payload.action.cell}
     \/ /\ x.payload.action.type # "barrier"
        /\ MoveLegal(Kept("police").barriers, Kept("police").cell, x.payload.action.move)
        /\ Kept("police")'.barriers = Kept("police").barriers
  /\ Kept("police")'.turns_completed = Kept("police").turns_completed
  /\ Latest("police")'.capture_claim \in {None, Claim(Kept("police")'.cell)}
  /\ unclaimed' = (unclaimed \/
       (/\ Latest("police")'.capture_claim = None
        /\ Kept("police")'.cell
             = Path(ThiefStart, Commits(Kept("police").their))[Heard("police")]))
  /\ own'["police"].outcome = "ongoing" /\ draft'["police"] = "ongoing"
  /\ pc["police"] = "loop" /\ pc'["police"] = "sending"

LEMMA PoliceDecides ==
  ASSUME Types, Untorn, DecidePolice("police")
  PROVE  \E x : PoliceActs(x)
<1>1. MyTurn("police") /\ UNCHANGED <<their, consumed, snapshot>>
  BY DEF DecidePolice
<1>2. pc["police"] = "loop" /\ Ongoing("police")
  BY <1>1 DEF MyTurn
<1>3. own["police"] \in OwnState /\ response["police"] \in Response
  BY Names DEF Types, TypesOfPeers
<1>4. PICK a \in Choice : \E c :
         LET s == ApplyOwnAction(own["police"], "police", a) IN
         /\ c \in CaptureClaims(s, "police", a)
         /\ OwnActionLegal(own["police"], "police", a)
         /\ Seal("police", s, a, c, response["police"], FALSE, "ongoing")
         /\ unclaimed' = (unclaimed \/ (c = None
              /\ s.cell = Path(ThiefStart, Commits(their["police"]))[Len(their["police"])]))
  BY DEF DecidePolice
<1>0. PICK c :
         LET s == ApplyOwnAction(own["police"], "police", a) IN
         /\ c \in CaptureClaims(s, "police", a)
         /\ OwnActionLegal(own["police"], "police", a)
         /\ Seal("police", s, a, c, response["police"], FALSE, "ongoing")
         /\ unclaimed' = (unclaimed \/ (c = None
              /\ s.cell = Path(ThiefStart, Commits(their["police"]))[Len(their["police"])]))
  BY <1>4
<1>5. a \in Action
  BY HiddenAssumption
<1>6. PICK s \in OwnState :
         /\ s = ApplyOwnAction(own["police"], "police", a)
         /\ s.outcome = own["police"].outcome
         /\ s.turns_completed = own["police"].turns_completed
         /\ \/ /\ a.type = "move" /\ s.barriers = own["police"].barriers
            \/ /\ a.type = "barrier" /\ a.cell \in Cell
               /\ s.barriers = own["police"].barriers \cup {a.cell}
  BY <1>3, <1>0, <1>5, Names, OwnActionFacts
<1>7. s.cell = Landing(a, own["police"].cell)
  BY <1>3, <1>0, <1>5, <1>6, Names, OwnActionLands
<1>8. c \in Place /\ c \in {None, Claim(s.cell)}
  <2>1. c \in CaptureClaims(s, "police", a)
    BY <1>0, <1>6
  <2> QED BY <1>5, <2>1, Names, CaptureClaimFacts DEF CaptureClaims
<1>9. PICK win \in BOOLEAN, ends \in Outcome : win = FALSE /\ ends = "ongoing"
  BY DEF Outcome
<1>10. Seal("police", s, a, c, response["police"], win, ends)
  BY <1>0, <1>6, <1>9
<1>11. /\ Kept("police").cell = own["police"].cell
       /\ Kept("police").barriers = own["police"].barriers
       /\ Kept("police").turns_completed = own["police"].turns_completed
       /\ Kept("police").their = their["police"] /\ Heard("police") = Len(their["police"])
  BY <1>2, Names, KeptFields, UpRecords
<1>12. PICK x : Acts("police", x) /\ x.payload.action = a
  BY <1>2, <1>3, <1>5, <1>7, <1>8, <1>10, <1>11, Names, SealAdds
<1>13. /\ Kept("police")'.cell = s.cell /\ Kept("police")'.barriers = s.barriers
       /\ Kept("police")'.turns_completed = s.turns_completed
       /\ Heard("police")' = Len(their'["police"])
       /\ Latest("police")'.capture_claim = c
       /\ own'["police"] = s /\ draft'["police"] = ends /\ pc'["police"] = "sending"
  BY <1>2, <1>3, <1>5, <1>8, <1>10, Names, SealEffect
<1>14. Deaf("police")
  <2>1. Kept("police")'.their = their'["police"]
    BY <1>2, <1>3, <1>5, <1>7, <1>8, <1>10, <1>11, Names, SealAdds
  <2> QED BY <1>1, <1>11, <1>13, <2>1 DEF Deaf
<1>15. Still("thief")
  BY <1>1, <1>10, Names, SealStill
<1>16. \/ /\ a.type = "barrier" /\ a.cell \in Cell
          /\ BarrierLegal(Kept("police").barriers, Kept("police").cell, a.cell)
          /\ Kept("police")'.barriers = Kept("police").barriers \cup {a.cell}
       \/ /\ a.type # "barrier"
          /\ MoveLegal(Kept("police").barriers, Kept("police").cell, a.move)
          /\ Kept("police")'.barriers = Kept("police").barriers
  <2>1. \/ /\ a.type = "barrier"
           /\ BarrierLegal(own["police"].barriers, own["police"].cell, a.cell)
        \/ /\ a.type = "move"
           /\ MoveLegal(own["police"].barriers, own["police"].cell, a.move)
    BY <1>0 DEF OwnActionLegal
  <2> QED BY <1>6, <1>11, <1>13, <2>1
<1>17. s.outcome = "ongoing"
  BY <1>2, <1>6 DEF Ongoing
<1>18. unclaimed' = (unclaimed \/
         (/\ Latest("police")'.capture_claim = None
          /\ Kept("police")'.cell
               = Path(ThiefStart, Commits(Kept("police").their))[Heard("police")]))
  BY <1>0, <1>6, <1>11, <1>13
<1>19. Latest("police")'.capture_claim \in {None, Claim(Kept("police")'.cell)}
  BY <1>8, <1>13
<1>20. Kept("police")'.turns_completed = Kept("police").turns_completed
  BY <1>6, <1>11, <1>13
<1>21. /\ Made("police") = Heard("thief") /\ Heard("police") = Made("police") + 1
       /\ Made("thief") = Heard("thief") + 1 /\ ~Conceded /\ ~Claimed
  BY <1>1, PoliceToMove DEF Conceded, Claimed
<1> QED BY <1>2, <1>9, <1>12, <1>13, <1>14, <1>15, <1>16, <1>17, <1>18, <1>19, <1>20, <1>21
        DEF PoliceActs

\* The thief seals a half-turn: a last one if it is caught or has survived.
ThiefActs(x) ==
  /\ Acts("thief", x) /\ Deaf("thief") /\ Still("police")
  /\ Made("police") = Heard("thief") /\ Heard("police") = Heard("thief")
  /\ Made("thief") = Heard("thief") /\ ~Conceded /\ ~Claimed
  /\ Kept("thief").turns_completed = Made("thief")
  /\ MoveLegal(Kept("thief").barriers, Kept("thief").cell, x.payload.action.move)
  /\ Kept("thief")'.barriers = Kept("thief").barriers
  /\ \/ /\ Caught(Latest("thief")'.claim_response) /\ ~Latest("thief")'.win_claim
        /\ CapturedAt(Kept("thief")'.barriers, Kept("thief")'.cell)
        /\ Kept("thief")'.turns_completed = Kept("thief").turns_completed
        /\ draft'["thief"] = "capture"
     \/ /\ ~Caught(Latest("thief")'.claim_response)
        /\ ~CapturedAt(Kept("thief")'.barriers, Kept("thief")'.cell)
        /\ Kept("thief")'.turns_completed = Kept("thief").turns_completed + 1
        /\ Latest("thief")'.win_claim <=> Reached(Kept("thief").turns_completed + 1)
        /\ draft'["thief"] = IF Latest("thief")'.win_claim THEN "survival" ELSE "ongoing"
  /\ own'["thief"].outcome = "ongoing" /\ unclaimed' = unclaimed
  /\ pc["thief"] = "loop" /\ pc'["thief"] = "sending"

LEMMA ThiefDecides ==
  ASSUME Types, Untorn, DecideThief("thief")
  PROVE  \E x : ThiefActs(x)
<1>1. MyTurn("thief") /\ UNCHANGED <<their, consumed, snapshot>> /\ unclaimed' = unclaimed
  BY DEF DecideThief, budgets
<1>2. pc["thief"] = "loop" /\ Ongoing("thief")
  BY <1>1 DEF MyTurn
<1>3. own["thief"] \in OwnState /\ response["thief"] \in Response
  BY Names DEF Types, TypesOfPeers
<1>4. PICK a \in Action, moved \in OwnState :
           /\ moved = ApplyOwnAction(own["thief"], "thief", a)
           /\ OwnActionLegal(own["thief"], "thief", a)
           /\ a.type # "barrier"
           /\ moved.barriers = own["thief"].barriers
           /\ moved.next_actor = "police" /\ moved.outcome = own["thief"].outcome
           /\ moved.turns_completed = own["thief"].turns_completed
           /\ \/ /\ IAmCaptured(moved)
                 /\ Seal("thief", moved, a, None, ConcedeDeclaration(moved), FALSE, "capture")
              \/ /\ ~IAmCaptured(moved)
                 /\ Seal("thief", TickedClock(moved), a, None, response["thief"],
                         SurvivalReached(TickedClock(moved)),
                         IF SurvivalReached(TickedClock(moved)) THEN "survival" ELSE "ongoing")
  BY ThiefDecision
<1>5. moved.cell = Landing(a, own["thief"].cell)
  BY <1>3, <1>4, Names, OwnActionLands
<1>6. MoveLegal(own["thief"].barriers, own["thief"].cell, a.move)
  BY <1>4 DEF OwnActionLegal
<1>7. /\ Kept("thief").cell = own["thief"].cell
      /\ Kept("thief").barriers = own["thief"].barriers
      /\ Kept("thief").turns_completed = own["thief"].turns_completed
      /\ Kept("thief").their = their["thief"] /\ Heard("thief") = Len(their["thief"])
  BY <1>2, Names, KeptFields, UpRecords
<1>8. ~Caught(response["thief"])
  BY <1>1, ThiefToMove
<1>9. PICK s \in OwnState, answer \in Response, win \in BOOLEAN, ends \in Outcome :
        /\ Seal("thief", s, a, None, answer, win, ends)
        /\ s.cell = moved.cell /\ s.barriers = moved.barriers /\ s.outcome = moved.outcome
        /\ \/ /\ Caught(answer) /\ ~win /\ ends = "capture" /\ IAmCaptured(moved)
              /\ s.turns_completed = moved.turns_completed
           \/ /\ ~Caught(answer) /\ ~IAmCaptured(moved)
              /\ s.turns_completed = moved.turns_completed + 1
              /\ win <=> Reached(moved.turns_completed + 1)
              /\ ends = IF win THEN "survival" ELSE "ongoing"
  <2>1. CASE IAmCaptured(moved)
    <3>1. ConcedeDeclaration(moved) \in Response /\ Caught(ConcedeDeclaration(moved))
      BY ConcedeFacts
    <3>2. PICK win \in BOOLEAN, ends \in Outcome : win = FALSE /\ ends = "capture"
      BY DEF Outcome
    <3> QED BY <1>4, <2>1, <3>1, <3>2
  <2>2. CASE ~IAmCaptured(moved)
    <3>1. PICK t \in OwnState :
            /\ t = TickedClock(moved) /\ t.turns_completed = moved.turns_completed + 1
            /\ t.cell = moved.cell /\ t.barriers = moved.barriers /\ t.outcome = moved.outcome
      BY TickedFacts
    <3>2. PICK win \in BOOLEAN : win = SurvivalReached(t)
      BY DEF SurvivalReached
    <3>3. win <=> Reached(moved.turns_completed + 1)
      BY <3>1, <3>2 DEF SurvivalReached, Reached
    <3>4. PICK ends \in Outcome : ends = IF win THEN "survival" ELSE "ongoing"
      BY DEF Outcome
    <3>5. Seal("thief", t, a, None, response["thief"], win, ends)
      BY <1>4, <2>2, <3>1, <3>2, <3>4
    <3> QED BY <1>3, <1>8, <2>2, <3>1, <3>3, <3>4, <3>5
  <2> QED BY <2>1, <2>2
<1>10. PICK x : Acts("thief", x) /\ x.payload.action = a
  <2>1. None \in Place /\ s.cell = Landing(a, Kept("thief").cell)
    BY <1>5, <1>7, <1>9, NonePlace
  <2> QED BY <1>2, <1>4, <1>9, <2>1, Names, SealAdds
<1>11. /\ Kept("thief")'.cell = s.cell /\ Kept("thief")'.barriers = s.barriers
       /\ Kept("thief")'.turns_completed = s.turns_completed
       /\ Heard("thief")' = Len(their'["thief"])
       /\ Latest("thief")'.claim_response = answer /\ Latest("thief")'.win_claim = win
       /\ own'["thief"] = s /\ draft'["thief"] = ends /\ pc'["thief"] = "sending"
  BY <1>2, <1>9, Names, NonePlace, SealEffect
<1>12. Deaf("thief")
  <2>1. None \in Place /\ s.cell = Landing(a, Kept("thief").cell)
    BY <1>5, <1>7, <1>9, NonePlace
  <2>2. Kept("thief")'.their = their'["thief"]
    BY <1>2, <1>4, <1>9, <2>1, Names, SealAdds
  <2> QED BY <1>1, <1>7, <1>11, <2>2 DEF Deaf
<1>13. Still("police")
  BY <1>1, <1>9, Names, SealStill
<1>14. CapturedAt(Kept("thief")'.barriers, Kept("thief")'.cell) <=> IAmCaptured(moved)
  BY <1>9, <1>11 DEF CapturedAt, IAmCaptured
<1>15. s.outcome = "ongoing"
  BY <1>2, <1>4, <1>9 DEF Ongoing
<1>16. MoveLegal(Kept("thief").barriers, Kept("thief").cell, x.payload.action.move)
  BY <1>6, <1>7, <1>10
<1>17. Kept("thief")'.barriers = Kept("thief").barriers
  BY <1>4, <1>7, <1>9, <1>11
<1>20. /\ Made("police") = Heard("thief") /\ Heard("police") = Heard("thief")
       /\ Made("thief") = Heard("thief") /\ ~Conceded /\ ~Claimed
       /\ Kept("thief").turns_completed = Made("thief")
  BY <1>1, ThiefToMove DEF Conceded, Claimed
<1>18. CASE /\ Caught(answer) /\ ~win /\ ends = "capture" /\ IAmCaptured(moved)
            /\ s.turns_completed = moved.turns_completed
  <2>1. /\ Caught(Latest("thief")'.claim_response) /\ ~Latest("thief")'.win_claim
        /\ CapturedAt(Kept("thief")'.barriers, Kept("thief")'.cell)
        /\ Kept("thief")'.turns_completed = Kept("thief").turns_completed
        /\ draft'["thief"] = "capture"
    BY <1>4, <1>7, <1>11, <1>14, <1>18
  <2> QED BY <1>1, <1>2, <1>10, <1>11, <1>12, <1>13, <1>15, <1>16, <1>17, <1>20, <2>1 DEF ThiefActs
<1>19. CASE /\ ~Caught(answer) /\ ~IAmCaptured(moved)
            /\ s.turns_completed = moved.turns_completed + 1
            /\ win <=> Reached(moved.turns_completed + 1)
            /\ ends = IF win THEN "survival" ELSE "ongoing"
  <2>1. /\ ~Caught(Latest("thief")'.claim_response)
        /\ ~CapturedAt(Kept("thief")'.barriers, Kept("thief")'.cell)
        /\ Kept("thief")'.turns_completed = Kept("thief").turns_completed + 1
        /\ Latest("thief")'.win_claim <=> Reached(Kept("thief").turns_completed + 1)
        /\ draft'["thief"] = IF Latest("thief")'.win_claim THEN "survival" ELSE "ongoing"
    BY <1>4, <1>7, <1>11, <1>14, <1>19
  <2> QED BY <1>1, <1>2, <1>10, <1>11, <1>12, <1>13, <1>15, <1>16, <1>17, <1>20, <2>1 DEF ThiefActs
<1> QED BY <1>9, <1>18, <1>19

Wall(m) == IF m.barrier_placed = None THEN {} ELSE {m.barrier_placed.cell}

\* The police hears the thief's half-turn.
PoliceListens(h) ==
  /\ Hears("police", h) /\ Silent("police") /\ Still("thief")
  /\ Made("thief") = Heard("police") + 1 /\ Heard("thief") = Made("police")
  /\ Heard("police") = Made("police") /\ Latest("thief") # None
  /\ Kept("police").turns_completed = Heard("police")
  /\ Kept("police")'.barriers = Kept("police").barriers
  /\ Kept("police")'.turns_completed
       = Kept("police").turns_completed
           + (IF Caught(Latest("thief").claim_response) THEN 0 ELSE 1)
  /\ own'["police"].outcome = IF Caught(Latest("thief").claim_response) THEN "capture"
                              ELSE IF Latest("thief").win_claim THEN "survival" ELSE "ongoing"
  /\ draft'["police"] = draft["police"] /\ unclaimed' = unclaimed
  /\ pc["police"] = "loop" /\ pc'["police"] = "loop"

LEMMA PoliceAbsorbsTurn ==
  ASSUME Types, Untorn, AbsorbTurn("police")
  PROVE  \E h : PoliceListens(h)
<1> DEFINE m == Message("police")
<1>1. TakeTurn("police") /\ UNCHANGED <<pc, draft, records, last_sent, report>>
  BY DEF AbsorbTurn
<1>2. /\ Playing("police") /\ Kept("police") = Memory("police")
      /\ pc["police"] = "loop"
      /\ m = Latest("thief") /\ Latest("thief") # None
      /\ Made("thief") = Heard("police") + 1 /\ Heard("thief") = Made("police")
      /\ Heard("police") = Made("police")
  BY <1>1, PoliceHears
<1>3. /\ m.barrier_placed = None
      /\ ~Caught(m.claim_response) => (m.win_claim <=> Reached(Made("thief")))
  BY <1>2 DEF Untorn, ThiefSide
<1>4. m \in Msg
  BY <1>1, Names, TakeTypes
<1>5. /\ own["police"] \in OwnState /\ WallAccepted(own["police"], m.barrier_placed)
  BY <1>3, Names DEF WallAccepted, Types, TypesOfPeers
<1>6. PICK n \in OwnState :
        /\ n = Noted("police", m)
        /\ n.turns_completed
             = own["police"].turns_completed + (IF ~Caught(m.claim_response) THEN 1 ELSE 0)
  BY <1>4, <1>5, Names, NotedFacts
<1>7. /\ Kept("police").cell = own["police"].cell
      /\ Kept("police").barriers = own["police"].barriers
      /\ Kept("police").turns_completed = own["police"].turns_completed
      /\ Kept("police").records = records["police"]
  BY <1>2, Names, KeptFields, UpRecords
<1>8. Kept("police").turns_completed = Heard("police")
  BY <1>2 DEF Untorn, PoliceSide
<1>9. own["police"].turns_completed \in Nat
  BY Names DEF Types, TypesOfPeers, OwnState
<1>10. /\ Kept("police")'.barriers = own["police"].barriers \cup Wall(m)
       /\ Kept("police")'.cell = own["police"].cell
       /\ Kept("police")'.turns_completed
            = own["police"].turns_completed + (IF ~Caught(m.claim_response) THEN 1 ELSE 0)
       /\ Made("police")' = Made("police") /\ Latest("police")' = Latest("police")
       /\ own'["police"].outcome = Ended("police", m) /\ draft'["police"] = draft["police"]
       /\ Still("thief")
  BY Names, AbsorbEffect DEF Wall
<1>11. Ended("police", m)
         = IF Caught(m.claim_response) THEN "capture"
           ELSE IF m.win_claim \/ SurvivalReached(n) THEN "survival" ELSE "ongoing"
  BY <1>6, Names DEF Ended
<1>12. ~Caught(m.claim_response) => (m.win_claim <=> SurvivalReached(n))
  <2>1. ~Caught(m.claim_response) => n.turns_completed = Made("thief")
    BY <1>2, <1>6, <1>7, <1>8
  <2> QED BY <1>3, <2>1 DEF SurvivalReached, Reached
<1>13. pc["police"] # "down" /\ pc'["police"] = "loop"
  BY <1>1, <1>2
<1>14. PICK h : Hears("police", h)
  BY <1>1, <1>2, <1>13, Names, TakeAdds
<1>15. unclaimed' = unclaimed
  BY <1>1 DEF TakeTurn, budgets
<1>16. Kept("police")'.records = Kept("police").records
  <2>1. Kept("police")'.records = records'["police"]
    BY <1>13 DEF Kept, Memory, BuildSnapshot
  <2> QED BY <1>1, <1>7, <2>1
<1>17. Silent("police")
  BY <1>7, <1>10, <1>16 DEF Silent
<1> HIDE DEF m
<1>18. Kept("police")'.barriers = Kept("police").barriers
  BY <1>3, <1>7, <1>10 DEF Wall
<1>19. Kept("police")'.turns_completed
         = Kept("police").turns_completed + (IF Caught(m.claim_response) THEN 0 ELSE 1)
  BY <1>7, <1>9, <1>10
<1>20. own'["police"].outcome = IF Caught(m.claim_response) THEN "capture"
                                ELSE IF m.win_claim THEN "survival" ELSE "ongoing"
  BY <1>10, <1>11, <1>12
<1> QED BY <1>2, <1>8, <1>10, <1>13, <1>14, <1>15, <1>17, <1>18, <1>19, <1>20 DEF PoliceListens

\* The thief hears the police's half-turn, and plays on.
ThiefListens(h) ==
  /\ Hears("thief", h) /\ Silent("thief") /\ Still("police")
  /\ Made("police") = Heard("thief") + 1 /\ Made("thief") = Heard("thief") + 1
  /\ Heard("police") = Heard("thief") + 1 /\ Latest("police") # None
  /\ Latest("thief") # None => ~Caught(Latest("thief").claim_response) /\ ~Latest("thief").win_claim
  /\ Kept("thief")'.barriers = Kept("thief").barriers \cup Wall(Latest("police"))
  /\ Kept("thief")'.turns_completed = Kept("thief").turns_completed
  /\ ~CapturedAt(Kept("thief")'.barriers, Kept("thief").cell)
  /\ Latest("police").capture_claim # None =>
       Latest("police").capture_claim.cell # Kept("thief").cell
  /\ own'["thief"].outcome = "ongoing" /\ draft'["thief"] = draft["thief"]
  /\ draft["thief"] = "ongoing" /\ unclaimed' = unclaimed
  /\ pc["thief"] = "loop" /\ pc'["thief"] = "loop"

\* The thief hears that it is caught, and concedes.
Concedes(x, h) ==
  /\ Acts("thief", x) /\ Hears("thief", h) /\ Still("police")
  /\ Made("police") = Heard("thief") + 1 /\ Made("thief") = Heard("thief") + 1
  /\ Heard("police") = Heard("thief") + 1 /\ Latest("police") # None
  /\ Latest("thief") # None => ~Caught(Latest("thief").claim_response) /\ ~Latest("thief").win_claim
  /\ x.payload.action = MoveAction("STAY")
  /\ Kept("thief")'.cell = Kept("thief").cell
  /\ Kept("thief")'.barriers = Kept("thief").barriers \cup Wall(Latest("police"))
  /\ Kept("thief")'.turns_completed = Kept("thief").turns_completed
  /\ Caught(Latest("thief")'.claim_response) /\ ~Latest("thief")'.win_claim
  /\ \/ CapturedAt(Kept("thief")'.barriers, Kept("thief").cell)
     \/ /\ Latest("police").capture_claim # None
        /\ Latest("police").capture_claim.cell = Kept("thief").cell
  /\ own'["thief"].outcome = "ongoing" /\ draft'["thief"] = "capture"
  /\ unclaimed' = unclaimed
  /\ pc["thief"] = "loop" /\ pc'["thief"] = "sending"

\* When the thief concedes.
LEMMA ConcedeRule ==
  ASSUME Types, Untorn, TakeTurn("thief")
  PROVE  MustConcede("thief", Message("thief")) <=>
           \/ CapturedAt(Kept("thief").barriers \cup Wall(Latest("police")), Kept("thief").cell)
           \/ /\ Latest("police").capture_claim # None
              /\ Latest("police").capture_claim.cell = Kept("thief").cell
<1> DEFINE m == Message("thief")
<1>1. /\ Playing("thief") /\ pc["thief"] = "loop"
      /\ m = Latest("police") /\ Latest("police") # None
      /\ ~m.win_claim
  BY ThiefHears
<1>2. m \in Msg /\ own["thief"] \in OwnState
  BY Names, TakeTypes DEF Types, TypesOfPeers
<1>3. Ended("thief", m) = "ongoing"
  BY <1>1, ThiefEnded
<1>4. /\ Kept("thief").barriers = own["thief"].barriers /\ Kept("thief").cell = own["thief"].cell
      /\ Kept("thief").response = response["thief"]
  BY <1>1, Names, KeptFields
<1>5. ~Caught(response["thief"])
  BY <1>1, <1>4 DEF Untorn, ThiefSide
<1>6. WallAccepted(own["thief"], m.barrier_placed)
  BY Names, WallsAccepted
<1>7. PICK n \in OwnState :
        /\ n = Noted("thief", m) /\ n.cell = own["thief"].cell
        /\ n.barriers = own["thief"].barriers \cup Wall(m)
  BY <1>2, <1>6, Names, NotedFacts DEF Wall
<1>8. IAmCaptured(n) <=> CapturedAt(own["thief"].barriers \cup Wall(m), own["thief"].cell)
  BY <1>7 DEF IAmCaptured, CapturedAt
<1>9. Caught(Answer("thief", m)) <=>
         m.capture_claim # None /\ m.capture_claim.cell = own["thief"].cell
  <2>1. CASE m.capture_claim = None
    BY <1>5, <2>1 DEF Answer
  <2>2. CASE m.capture_claim # None
    <3>1. Answer("thief", m) = [claim |-> m.capture_claim.cell,
                                caught |-> m.capture_claim.cell = own["thief"].cell]
      BY <1>3, <2>2 DEF Answer, AnswerCaptureClaim
    <3>2. PICK c \in Cell : c = m.capture_claim.cell
      BY <1>2, <2>2, PlaceFacts DEF Msg
    <3>3. PICK r : r = Answer("thief", m)
      OBVIOUS
    <3>4. CASE c = own["thief"].cell
      <4>1. r = [claim |-> c, caught |-> TRUE]
        BY <3>1, <3>2, <3>3, <3>4
      <4>2. r # None /\ r.caught
        BY <4>1, ResponseFacts
      <4> QED BY <2>2, <3>2, <3>3, <3>4, <4>2 DEF Caught
    <3>5. CASE c # own["thief"].cell
      <4>1. r = [claim |-> c, caught |-> FALSE]
        BY <3>1, <3>2, <3>3, <3>5
      <4>2. ~r.caught
        BY <4>1
      <4> QED BY <3>2, <3>3, <3>5, <4>2 DEF Caught
    <3> QED BY <3>4, <3>5
  <2> QED BY <2>1, <2>2
<1>10. MustConcede("thief", m) <=> Caught(Answer("thief", m)) \/ IAmCaptured(n)
  BY <1>3, <1>7 DEF MustConcede
<1> QED BY <1>1, <1>4, <1>8, <1>9, <1>10

LEMMA ThiefAbsorbsTurn ==
  ASSUME Types, Untorn, AbsorbTurn("thief")
  PROVE  \E h : ThiefListens(h)
<1> DEFINE m == Message("thief")
<1>1. TakeTurn("thief") /\ UNCHANGED <<pc, draft, records, last_sent, report>>
      /\ ~MustConcede("thief", m)
  BY DEF AbsorbTurn
<1>2. /\ Playing("thief") /\ pc["thief"] = "loop"
      /\ m = Latest("police") /\ Latest("police") # None
      /\ Made("police") = Heard("thief") + 1 /\ Made("thief") = Heard("thief") + 1
      /\ Heard("police") = Heard("thief") + 1
      /\ ~m.win_claim
  BY <1>1, ThiefHears
<1>3. /\ Kept("thief").barriers = own["thief"].barriers /\ Kept("thief").cell = own["thief"].cell
      /\ Kept("thief").turns_completed = own["thief"].turns_completed
      /\ Kept("thief").records = records["thief"]
  BY <1>2, Names, KeptFields, UpRecords
<1>4. own["thief"].turns_completed \in Nat
  BY Names DEF Types, TypesOfPeers, OwnState
<1>5. /\ Kept("thief")'.barriers = own["thief"].barriers \cup Wall(m)
      /\ Kept("thief")'.cell = own["thief"].cell
      /\ Kept("thief")'.turns_completed = own["thief"].turns_completed
      /\ Made("thief")' = Made("thief") /\ Latest("thief")' = Latest("thief")
      /\ own'["thief"].outcome = Ended("thief", m) /\ draft'["thief"] = draft["thief"]
      /\ Still("police")
  BY <1>4, Names, AbsorbEffect DEF Wall
<1>6. Ended("thief", m) = "ongoing" /\ draft["thief"] = "ongoing"
  BY <1>2, ThiefEnded DEF Playing
<1>7. pc["thief"] # "down" /\ pc'["thief"] = "loop"
  BY <1>1, <1>2
<1>8. PICK h : Hears("thief", h)
  BY <1>1, <1>2, <1>7, Names, TakeAdds
<1>9. unclaimed' = unclaimed
  BY <1>1 DEF TakeTurn, budgets
<1>10. Kept("thief")'.records = Kept("thief").records
  <2>1. Kept("thief")'.records = records'["thief"]
    BY <1>7 DEF Kept, Memory, BuildSnapshot
  <2> QED BY <1>1, <1>3, <2>1
<1>11. Silent("thief")
  BY <1>3, <1>5, <1>10 DEF Silent
<1>12. /\ ~CapturedAt(Kept("thief").barriers \cup Wall(Latest("police")), Kept("thief").cell)
       /\ Latest("police").capture_claim # None =>
            Latest("police").capture_claim.cell # Kept("thief").cell
  BY <1>1, ConcedeRule
<1>13. Latest("thief") # None =>
         ~Caught(Latest("thief").claim_response) /\ ~Latest("thief").win_claim
  BY <1>2 DEF Untorn, ThiefSide
<1> QED BY <1>2, <1>3, <1>5, <1>6, <1>7, <1>8, <1>9, <1>11, <1>12, <1>13 DEF ThiefListens

LEMMA ThiefConcedes ==
  ASSUME Types, Untorn, ConcedeTurn("thief")
  PROVE  \E x, h : Concedes(x, h)
<1> DEFINE m == Message("thief")
<1>1. TakeTurn("thief") /\ MustConcede("thief", m) /\ UNCHANGED <<snapshot, report>>
  BY DEF ConcedeTurn
<1>2. /\ Playing("thief") /\ pc["thief"] = "loop"
      /\ m = Latest("police") /\ Latest("police") # None
      /\ Made("police") = Heard("thief") + 1 /\ Made("thief") = Heard("thief") + 1
      /\ Heard("police") = Heard("thief") + 1
  BY <1>1, ThiefHears
<1>3. /\ Kept("thief").barriers = own["thief"].barriers /\ Kept("thief").cell = own["thief"].cell
      /\ Kept("thief").turns_completed = own["thief"].turns_completed
  BY <1>2, Names, KeptFields
<1>4. m \in Msg /\ own["thief"] \in OwnState /\ WallAccepted(own["thief"], m.barrier_placed)
  BY <1>1, Names, TakeTypes, WallsAccepted DEF Types, TypesOfPeers
<1>5. PICK n \in OwnState :
        /\ n = Noted("thief", m) /\ n.cell = own["thief"].cell
        /\ n.outcome = own["thief"].outcome
        /\ n.barriers = own["thief"].barriers \cup Wall(m)
        /\ n.turns_completed = own["thief"].turns_completed
  <2>1. own["thief"].turns_completed \in Nat
    BY <1>4 DEF OwnState
  <2> QED BY <1>4, <2>1, Names, NotedFacts DEF Wall
<1>6. PICK answer : answer = IF Caught(Answer("thief", m)) THEN Answer("thief", m)
                             ELSE ConcedeDeclaration(own["thief"])
  OBVIOUS
<1>7. answer \in Response /\ Caught(answer)
  BY <1>4, <1>6, Names, AnswerFacts, ConcedeFacts
<1>8. PICK win \in BOOLEAN, ends \in Outcome, a \in Action :
        win = FALSE /\ ends = "capture" /\ a = MoveAction("STAY") /\ a.type # "barrier"
  BY StayFacts DEF Outcome
<1>9. Seal("thief", n, a, None, answer, win, ends)
  BY <1>1, <1>5, <1>6, <1>8 DEF ConcedeTurn
<1>10. Landing(a, Kept("thief").cell) = Kept("thief").cell
  <2>1. a.move = "STAY" /\ "STAY" \in Move
    BY <1>8 DEF MoveAction, Move
  <2>2. Kept("thief").cell \in Cell
    BY Names, KeptTypes
  <2>3. MoveLegal(Kept("thief").barriers, Kept("thief").cell, a.move)
    BY <2>1 DEF MoveLegal
  <2>4. AppliedTo(a.move, Kept("thief").cell) = Kept("thief").cell
    BY <2>1, <2>2, <2>3, LegalMoveLands
  <2> QED BY <1>8, <2>4 DEF Landing
<1>11. PICK x : Acts("thief", x) /\ x.payload.action = a
  <2>1. n.cell = Landing(a, Kept("thief").cell)
    BY <1>3, <1>5, <1>10
  <2> QED BY <1>2, <1>7, <1>8, <1>9, <2>1, Names, NonePlace, SealAdds
<1>12. /\ Kept("thief")'.cell = n.cell /\ Kept("thief")'.barriers = n.barriers
       /\ Kept("thief")'.turns_completed = n.turns_completed
       /\ Latest("thief")'.claim_response = answer /\ Latest("thief")'.win_claim = win
       /\ own'["thief"] = n /\ draft'["thief"] = ends /\ pc'["thief"] = "sending"
  BY <1>2, <1>7, <1>8, <1>9, Names, NonePlace, SealEffect
<1>13. PICK h : Hears("thief", h)
  <2>1. pc["thief"] # "down" /\ pc'["thief"] # "down"
    BY <1>2, <1>12
  <2> QED BY <1>1, <1>2, <2>1, Names, TakeAdds
<1>14. Still("police")
  <2>1. their'["police"] = their["police"] /\ consumed'["police"] = consumed["police"]
    BY <1>1, Names DEF TakeTurn, Types, TypesOfPeers
  <2> QED BY <1>1, <1>9, <2>1, Names, SealStill
<1>15. unclaimed' = unclaimed
  BY <1>1 DEF TakeTurn, budgets
<1>16. \/ CapturedAt(Kept("thief").barriers \cup Wall(Latest("police")), Kept("thief").cell)
       \/ /\ Latest("police").capture_claim # None
          /\ Latest("police").capture_claim.cell = Kept("thief").cell
  BY <1>1, ConcedeRule
<1>17. Latest("thief") # None =>
         ~Caught(Latest("thief").claim_response) /\ ~Latest("thief").win_claim
  BY <1>2 DEF Untorn, ThiefSide
<1>18. n.outcome = "ongoing"
  BY <1>2, <1>5 DEF Playing
<1> QED BY <1>2, <1>3, <1>5, <1>7, <1>8, <1>11, <1>12, <1>13, <1>14, <1>15, <1>16, <1>17, <1>18
        DEF Concedes

-----------------------------------------------------------------------------
(* What became of the records so far *)

\* A game moves on in one of five ways.
LEMMA StepsLived ==
  ASSUME Types, Untorn, [Next]_vars, ~torn'
  PROVE  \/ \E p \in Role : Rests(p)
         \/ \E x : PoliceActs(x) \/ ThiefActs(x)
         \/ \E h : PoliceListens(h) \/ ThiefListens(h)
         \/ \E x, h : Concedes(x, h)
<1>1. PICK p \in Role : Rests(p) \/ Lived(p)
  BY StepRests
<1>2. CASE DecidePolice(p)
  BY <1>2, PoliceDecides DEF DecidePolice
<1>3. CASE DecideThief(p)
  BY <1>3, ThiefDecides DEF DecideThief
<1>4. CASE AbsorbTurn(p)
  BY <1>4, Names, PoliceAbsorbsTurn, ThiefAbsorbsTurn
<1>5. CASE ConcedeTurn(p)
  BY <1>5, ThiefConcedes DEF ConcedeTurn, MustConcede
<1> QED BY <1>1, <1>2, <1>3, <1>4, <1>5 DEF Lived

Logs(p) == Numbered(p) /\ Newest(p) /\ Trail(p)

LEMMA KeptLogs ==
  ASSUME NEW p \in Role, Logs(p), Kept(p)'.records = Kept(p).records, Made(p)' = Made(p),
         Kept(p)'.cell = Kept(p).cell, Latest(p)' = Latest(p)
  PROVE  Logs(p)'
<1>1. Numbered(p)'
  BY DEF Logs, Numbered
<1>2. Newest(p)'
  BY DEF Logs, Newest
<1>3. Trail(p)'
  BY DEF Logs, Trail
<1> QED BY <1>1, <1>2, <1>3 DEF Logs

LEMMA AppendedRecords ==
  ASSUME Types, NEW p \in Role, NEW x, Acts(p, x)
  PROVE  /\ \A i \in 1 .. Made(p) : Kept(p)'.records[i] = Kept(p).records[i]
         /\ Kept(p)'.records[Made(p) + 1] = x
         /\ Made(p) \in Nat /\ Made(p)' = Made(p) + 1
<1>1. Kept(p).records \in Seq(SealedRec) /\ x \in SealedRec
  BY KeptRecords DEF Acts
<1>2. /\ \A i \in 1 .. Len(Kept(p).records) :
           Append(Kept(p).records, x)[i] = Kept(p).records[i]
      /\ Append(Kept(p).records, x)[Len(Kept(p).records) + 1] = x
  BY <1>1, AppendProperties
<1>3. Made(p) \in Nat
  BY KeptTypes
<1> QED BY <1>2, <1>3 DEF Acts, Made

LEMMA SealedLogs ==
  ASSUME Types, NEW p \in Role, NEW x, Acts(p, x), Logs(p)
  PROVE  Logs(p)'
<1>1. /\ \A i \in 1 .. Made(p) : Kept(p)'.records[i] = Kept(p).records[i]
      /\ Kept(p)'.records[Made(p) + 1] = x
      /\ Made(p) \in Nat /\ Made(p)' = Made(p) + 1
  BY AppendedRecords
<1>2. Numbered(p)'
  <2> SUFFICES ASSUME NEW i \in 1 .. Made(p)'
               PROVE  /\ Kept(p)'.records[i].payload.step = i
                      /\ Kept(p)'.records[i].payload.role = p
                      /\ p = "thief" => Kept(p)'.records[i].payload.action.type # "barrier"
    BY DEF Numbered
  <2>1. CASE i \in 1 .. Made(p)
    BY <1>1, <2>1 DEF Logs, Numbered
  <2>2. CASE i = Made(p) + 1
    BY <1>1, <2>2 DEF Acts
  <2> QED BY <1>1, <2>1, <2>2
<1>3. Newest(p)'
  BY <1>1 DEF Newest, Acts
<1>4. Trail(p)'
  <2>1. Kept(p).records \in Seq(SealedRec) /\ x \in SealedRec
    BY KeptRecords DEF Acts
  <2> DEFINE old == Path(Start(p), Kept(p).records)
             new == Path(Start(p), Kept(p)'.records)
  <2>2. /\ \A i \in 0 .. Made(p) : new[i] = old[i]
        /\ new[Made(p) + 1] = Landing(x.payload.action, old[Made(p)])
    BY <2>1, PathGrows DEF Made, Acts
  <2>3. old[Made(p)] = Kept(p).cell /\ \A i \in 0 .. Made(p) : old[i] \in Cell
    BY DEF Logs, Trail
  <2>4. new[Made(p)'] = Kept(p)'.cell /\ Kept(p)'.cell \in Cell
    BY <1>1, <2>2, <2>3 DEF Acts
  <2>5. \A i \in 0 .. Made(p)' : new[i] \in Cell
    <3> TAKE i \in 0 .. Made(p)'
    <3>1. i \in 0 .. Made(p) \/ i = Made(p) + 1
      BY <1>1
    <3> QED BY <1>1, <2>2, <2>3, <2>4, <3>1
  <2> QED BY <2>4, <2>5 DEF Trail
<1> QED BY <1>2, <1>3, <1>4 DEF Logs

\* A log that is not added to stays a copy.
LEMMA CopiedStays ==
  ASSUME Types, NEW p \in Role, NEW q \in Role, q = Rival(p), Copied(p), Deaf(p),
         Heard(p) <= Made(q),
         \/ Kept(q)'.records = Kept(q).records
         \/ \E x : Acts(q, x)
  PROVE  Copied(p)'
<1>1. Heard(p) \in Nat /\ Made(q) \in Nat
  BY KeptTypes
<1>2. \A i \in 1 .. Heard(p) : Kept(q)'.records[i] = Kept(q).records[i]
  BY <1>1, AppendedRecords
<1> QED BY <1>2 DEF Copied, Deaf

LEMMA AppendedHeard ==
  ASSUME Types, NEW p \in Role, NEW h, Hears(p, h)
  PROVE  /\ \A i \in 1 .. Heard(p) : Kept(p)'.their[i] = Kept(p).their[i]
         /\ Kept(p)'.their[Heard(p) + 1] = h
         /\ Heard(p) \in Nat /\ Heard(p)' = Heard(p) + 1
<1>1. Kept(p).their \in Seq(HeardRec) /\ h \in HeardRec
  BY KeptRecords DEF Hears
<1>2. /\ \A i \in 1 .. Len(Kept(p).their) : Append(Kept(p).their, h)[i] = Kept(p).their[i]
      /\ Append(Kept(p).their, h)[Len(Kept(p).their) + 1] = h
  BY <1>1, AppendProperties
<1>3. Heard(p) \in Nat
  BY KeptTypes
<1> QED BY <1>2, <1>3 DEF Hears, Heard

\* What is heard is the rival's newest record.
LEMMA CopiedHears ==
  ASSUME Types, NEW p \in Role, NEW q \in Role, q = Rival(p), Copied(p), NEW h, Hears(p, h),
         Kept(q)' = Kept(q), Made(q) = Heard(p) + 1, Newest(q)
  PROVE  Copied(p)' /\ h.commit = Kept(q).records[Made(q)]
<1>1. /\ \A i \in 1 .. Heard(p) : Kept(p)'.their[i] = Kept(p).their[i]
      /\ Kept(p)'.their[Heard(p) + 1] = h
      /\ Heard(p) \in Nat /\ Heard(p)' = Heard(p) + 1
  BY AppendedHeard
<1>2. h.commit = Kept(q).records[Made(q)]
  BY <1>1 DEF Hears, Newest
<1>3. ASSUME NEW i \in 1 .. Heard(p)'
      PROVE  Kept(p)'.their[i].commit = Kept(q)'.records[i]
  <2>1. CASE i \in 1 .. Heard(p)
    BY <1>1, <2>1 DEF Copied
  <2>2. CASE i = Heard(p) + 1
    BY <1>1, <1>2, <2>2
  <2> QED BY <1>1, <2>1, <2>2
<1> QED BY <1>2, <1>3 DEF Copied

-----------------------------------------------------------------------------
(* The walls among the records *)

WallCells(action) == IF action.type = "barrier" THEN {action.cell} ELSE {}

LEMMA PlacedNext ==
  ASSUME NEW A, NEW n \in Nat
  PROVE  Placed(A, n + 1) = Placed(A, n) \cup WallCells(A[n + 1].payload.action)
<1>1. {j \in 1 .. n + 1 : A[j].payload.action.type = "barrier"}
        = {j \in 1 .. n : A[j].payload.action.type = "barrier"}
            \cup (IF A[n + 1].payload.action.type = "barrier" THEN {n + 1} ELSE {})
  OBVIOUS
<1> QED BY <1>1 DEF Placed, WallCells

LEMMA PlacedSame ==
  ASSUME NEW A, NEW B, NEW n \in Nat, \A i \in 1 .. n : A[i] = B[i]
  PROVE  Placed(A, n) = Placed(B, n)
<1>1. {j \in 1 .. n : A[j].payload.action.type = "barrier"}
        = {j \in 1 .. n : B[j].payload.action.type = "barrier"}
  OBVIOUS
<1> QED BY <1>1 DEF Placed

LEMMA PlacedNone ==
  ASSUME NEW A
  PROVE  Placed(A, 0) = {}
BY DEF Placed

-----------------------------------------------------------------------------
(* The records keep telling the game *)

LEMMA RestsFacts ==
  ASSUME NEW p \in Role, Rests(p), NEW r \in Role
  PROVE  /\ Kept(r)' = Kept(r) /\ Made(r)' = Made(r) /\ Heard(r)' = Heard(r)
         /\ Latest(r)' = Latest(r)
<1>1. Kept(p)' = Kept(p) /\ Still(Rival(p)) /\ (r = p \/ r = Rival(p))
  BY RivalFacts DEF Rests
<1>2. Kept(r)' = Kept(r)
  BY <1>1, StillFacts
<1> QED BY <1>2 DEF Made, Heard, Latest

LEMMA StillKept ==
  ASSUME NEW q \in Role, Still(q)
  PROVE  /\ Kept(q)' = Kept(q) /\ Made(q)' = Made(q) /\ Heard(q)' = Heard(q)
         /\ Latest(q)' = Latest(q) /\ Silent(q) /\ Deaf(q)
BY StillFacts DEF Silent, Deaf

LEMMA RestsPast ==
  ASSUME NEW p \in Role, Rests(p), Past
  PROVE  Past'
<1>1. \A r \in Role : /\ Kept(r)' = Kept(r) /\ Made(r)' = Made(r) /\ Heard(r)' = Heard(r)
                      /\ Latest(r)' = Latest(r)
  BY RestsFacts
<1>2. ASSUME NEW r \in Role
      PROVE  Numbered(r)' /\ Newest(r)' /\ Copied(r)' /\ Trail(r)'
  <2>1. Kept(Rival(r))' = Kept(Rival(r))
    BY <1>1, RivalFacts
  <2>2. Numbered(r) /\ Newest(r) /\ Copied(r) /\ Trail(r)
    BY DEF Past
  <2>3. Logs(r)'
    BY <1>1, <2>2, KeptLogs DEF Logs
  <2>4. Copied(r)'
    BY <1>1, <2>1, <2>2 DEF Copied
  <2> QED BY <2>3, <2>4 DEF Logs
<1>3. WallsPlaced'
  BY <1>1, Names DEF Past, WallsPlaced
<1>4. Stood'
  BY <1>1, Names DEF Past, Stood, Conceded
<1> QED BY <1>2, <1>3, <1>4 DEF Past

\* The logs of both, after one of them sealed or heard something.
LEMMA LogsStep ==
  ASSUME Types, Untorn, Past, NEW p \in Role,
         Still(Rival(p)),
         Silent(p) \/ \E x : Acts(p, x),
         Deaf(p) \/ (Made(Rival(p)) = Heard(p) + 1 /\ \E h : Hears(p, h))
  PROVE  \A r \in Role : Numbered(r)' /\ Newest(r)' /\ Copied(r)' /\ Trail(r)'
<1>1. PICK q \in Role : q = Rival(p) /\ p = Rival(q) /\ \A r \in Role : r = p \/ r = q
  BY RivalFacts
<1>2. Logs(p) /\ Logs(q) /\ Copied(p) /\ Copied(q)
  BY DEF Past, Logs
<1>3. /\ Kept(q)' = Kept(q) /\ Made(q)' = Made(q) /\ Heard(q)' = Heard(q)
      /\ Latest(q)' = Latest(q) /\ Silent(q) /\ Deaf(q)
  BY <1>1, StillKept
<1>4. Logs(q)'
  BY <1>2, <1>3, KeptLogs
<1>5. Logs(p)'
  BY <1>2, KeptLogs, SealedLogs DEF Silent
<1>6. /\ Heard(p) <= Made(q) /\ Heard(q) <= Made(p)
  BY <1>1, Names DEF Untorn, Order
<1>7. Copied(q)'
  BY <1>1, <1>2, <1>3, <1>6, CopiedStays DEF Silent
<1>8. Copied(p)'
  BY <1>1, <1>2, <1>3, <1>6, CopiedStays, CopiedHears DEF Logs
<1> QED BY <1>1, <1>4, <1>5, <1>7, <1>8 DEF Logs

LEMMA PolicePast ==
  ASSUME Types, Untorn, Past, NEW x, PoliceActs(x)
  PROVE  Past'
<1>1. /\ Kept("thief")' = Kept("thief") /\ Made("thief")' = Made("thief")
      /\ Heard("thief")' = Heard("thief") /\ Latest("thief")' = Latest("thief")
  BY Names, StillKept DEF PoliceActs
<1>2. \A r \in Role : Numbered(r)' /\ Newest(r)' /\ Copied(r)' /\ Trail(r)'
  BY Names, LogsStep DEF PoliceActs
<1>3. /\ \A i \in 1 .. Made("police") :
           Kept("police")'.records[i] = Kept("police").records[i]
      /\ Kept("police")'.records[Made("police") + 1] = x
      /\ Made("police") \in Nat /\ Made("police")' = Made("police") + 1
  BY Names, AppendedRecords DEF PoliceActs
<1>4. Made("police") = Heard("thief")
  BY DEF PoliceActs
<1>5. ASSUME NEW n \in 0 .. Made("police")
      PROVE  Placed(Kept("police")'.records, n) = Placed(Kept("police").records, n)
  BY <1>3, PlacedSame
<1>6. WallsPlaced'
  <2>1. Kept("police")'.barriers = Kept("police").barriers \cup WallCells(x.payload.action)
    BY DEF PoliceActs, WallCells
  <2>2. Placed(Kept("police")'.records, Made("police")')
          = Placed(Kept("police").records, Made("police")) \cup WallCells(x.payload.action)
    BY <1>3, <1>5, PlacedNext
  <2>3. Placed(Kept("police")'.records, Heard("thief"))
          = Placed(Kept("police").records, Heard("thief"))
    BY <1>3, <1>4, <1>5
  <2>4. Kept("thief")'.barriers = Placed(Kept("police")'.records, Heard("thief")')
    BY <1>1, <2>3 DEF Past, WallsPlaced
  <2>5. Kept("police")'.barriers = Placed(Kept("police")'.records, Made("police")')
    BY <2>1, <2>2 DEF Past, WallsPlaced
  <2> QED BY <2>4, <2>5 DEF WallsPlaced
<1>7. Stood'
  BY <1>1, <1>4, <1>5 DEF Past, Stood, Conceded
<1> QED BY <1>2, <1>6, <1>7 DEF Past

LEMMA ThiefPast ==
  ASSUME Types, Untorn, Past, NEW x, ThiefActs(x)
  PROVE  Past'
<1>1. /\ Kept("police")' = Kept("police") /\ Made("police")' = Made("police")
      /\ Heard("police")' = Heard("police") /\ Latest("police")' = Latest("police")
  BY Names, StillKept DEF ThiefActs
<1>2. \A r \in Role : Numbered(r)' /\ Newest(r)' /\ Copied(r)' /\ Trail(r)'
  BY Names, LogsStep DEF ThiefActs
<1>3. /\ \A i \in 1 .. Made("thief") : Kept("thief")'.records[i] = Kept("thief").records[i]
      /\ Made("thief") \in Nat /\ Made("thief")' = Made("thief") + 1
  BY Names, AppendedRecords DEF ThiefActs
<1>4. Heard("thief")' = Heard("thief") /\ Made("thief") = Heard("thief")
  BY DEF ThiefActs, Deaf
<1>5. WallsPlaced'
  BY <1>1, <1>4 DEF Past, WallsPlaced, ThiefActs
<1>6. Stood'
  <2> SUFFICES ASSUME ~Conceded'
               PROVE  /\ \A i \in 1 .. Heard("thief") :
                           ~CapturedAt(Placed(Kept("police").records, i),
                                       Path(ThiefStart, Kept("thief")'.records)[i])
                      /\ ~CapturedAt(Kept("thief")'.barriers, Kept("thief")'.cell)
    BY <1>1, <1>4 DEF Stood
  <2>1. ~CapturedAt(Kept("thief")'.barriers, Kept("thief")'.cell)
    BY DEF ThiefActs, Conceded, Acts
  <2>2. ASSUME NEW i \in 1 .. Heard("thief")
        PROVE  Path(ThiefStart, Kept("thief")'.records)[i]
                 = Path(ThiefStart, Kept("thief").records)[i]
    <3>1. Kept("thief").records \in Seq(SealedRec) /\ x \in SealedRec
      BY Names, KeptRecords DEF ThiefActs, Acts
    <3>2. \A j \in 0 .. Made("thief") :
            Path(ThiefStart, Append(Kept("thief").records, x))[j]
              = Path(ThiefStart, Kept("thief").records)[j]
      BY <3>1, PathGrows DEF Made
    <3>3. Kept("thief")'.records = Append(Kept("thief").records, x)
      BY DEF ThiefActs, Acts
    <3>4. i \in 0 .. Made("thief")
      BY <1>3, <1>4
    <3>5. Path(ThiefStart, Append(Kept("thief").records, x))[i]
            = Path(ThiefStart, Kept("thief").records)[i]
      BY <3>2, <3>4
    <3> QED BY <3>3, <3>5
  <2>3. ~Conceded
    BY DEF ThiefActs
  <2> QED BY <2>1, <2>2, <2>3 DEF Past, Stood
<1> QED BY <1>2, <1>5, <1>6 DEF Past

LEMMA PoliceHeardPast ==
  ASSUME Types, Untorn, Past, NEW h, PoliceListens(h)
  PROVE  Past'
<1>1. /\ Kept("thief")' = Kept("thief") /\ Made("thief")' = Made("thief")
      /\ Heard("thief")' = Heard("thief") /\ Latest("thief")' = Latest("thief")
  BY Names, StillKept DEF PoliceListens
<1>2. \A r \in Role : Numbered(r)' /\ Newest(r)' /\ Copied(r)' /\ Trail(r)'
  BY Names, LogsStep DEF PoliceListens
<1>3. /\ Kept("police")'.records = Kept("police").records /\ Made("police")' = Made("police")
      /\ Kept("police")'.barriers = Kept("police").barriers
  BY DEF PoliceListens, Silent
<1>4. WallsPlaced'
  BY <1>1, <1>3 DEF Past, WallsPlaced
<1>5. Stood'
  BY <1>1, <1>3 DEF Past, Stood, Conceded
<1> QED BY <1>2, <1>4, <1>5 DEF Past

\* What hearing the police's newest record adds to the thief's walls.
LEMMA HeardWalls ==
  ASSUME Types, Untorn, Past, Made("police") = Heard("thief") + 1,
         Kept("police")' = Kept("police"), Heard("thief")' = Heard("thief") + 1,
         Kept("thief")'.barriers = Kept("thief").barriers \cup Wall(Latest("police"))
  PROVE  WallsPlaced'
<1>1. Heard("thief") \in Nat /\ Made("police")' = Made("police")
  BY Names, KeptTypes DEF Made
<1>2. /\ Latest("police").barrier_placed
           = WallOf(Kept("police").records[Heard("thief") + 1].payload.action)
  BY <1>1, Names DEF Past, Newest
<1>3. PICK a : a = Kept("police").records[Heard("thief") + 1].payload.action
  OBVIOUS
<1>4. a \in Action
  <2>1. Kept("police").records \in Seq(SealedRec) /\ Heard("thief") + 1 \in 1 .. Len(Kept("police").records)
    BY <1>1, Names, KeptRecords DEF Made
  <2>2. Kept("police").records[Heard("thief") + 1] \in SealedRec
    BY <2>1, ElementOfSeq
  <2> QED BY <1>3, <2>2 DEF SealedRec
<1>5. Wall(Latest("police")) = WallCells(a)
  <2>1. CASE a.type = "barrier"
    <3>1. a.cell \in Cell
      BY <1>4, <2>1, ActionFacts
    <3>2. Latest("police").barrier_placed = Claim(a.cell)
      BY <1>2, <1>3, <2>1 DEF WallOf
    <3> QED BY <2>1, <3>1, <3>2, ClaimFacts DEF Wall, WallCells
  <2>2. CASE a.type # "barrier"
    BY <1>2, <1>3, <2>2 DEF WallOf, Wall, WallCells
  <2> QED BY <2>1, <2>2
<1>6. Placed(Kept("police").records, Heard("thief") + 1)
        = Placed(Kept("police").records, Heard("thief")) \cup WallCells(a)
  BY <1>1, <1>3, PlacedNext
<1> QED BY <1>1, <1>5, <1>6 DEF Past, WallsPlaced

LEMMA ThiefHeardPast ==
  ASSUME Types, Untorn, Past, NEW h, ThiefListens(h)
  PROVE  Past'
<1>1. /\ Kept("police")' = Kept("police") /\ Made("police")' = Made("police")
      /\ Heard("police")' = Heard("police") /\ Latest("police")' = Latest("police")
  BY Names, StillKept DEF ThiefListens
<1>2. \A r \in Role : Numbered(r)' /\ Newest(r)' /\ Copied(r)' /\ Trail(r)'
  BY Names, LogsStep DEF ThiefListens
<1>3. /\ Kept("thief")'.records = Kept("thief").records /\ Made("thief")' = Made("thief")
      /\ Kept("thief")'.cell = Kept("thief").cell /\ Latest("thief")' = Latest("thief")
      /\ Heard("thief")' = Heard("thief") + 1 /\ Heard("thief") \in Nat
      /\ Made("thief") = Heard("thief") + 1
  BY Names, KeptTypes DEF ThiefListens, Silent, Hears
<1>4. WallsPlaced'
  BY <1>1, <1>3, HeardWalls DEF ThiefListens
<1>5. Stood'
  <2> SUFFICES ASSUME ~Conceded
               PROVE  \A i \in 1 .. Heard("thief") + 1 :
                        ~CapturedAt(Placed(Kept("police").records, i),
                                    Path(ThiefStart, Kept("thief").records)[i])
    BY <1>1, <1>3 DEF Stood, Conceded
  <2>1. Placed(Kept("police").records, Heard("thief") + 1) = Kept("thief")'.barriers
    BY <1>1, <1>3, <1>4 DEF WallsPlaced
  <2>2. Path(ThiefStart, Kept("thief").records)[Heard("thief") + 1] = Kept("thief").cell
    BY <1>3, Names DEF Past, Trail, Start
  <2>3. ~CapturedAt(Placed(Kept("police").records, Heard("thief") + 1),
                    Path(ThiefStart, Kept("thief").records)[Heard("thief") + 1])
    BY <2>1, <2>2 DEF ThiefListens
  <2>4. \A i \in 1 .. Heard("thief") :
          ~CapturedAt(Placed(Kept("police").records, i),
                      Path(ThiefStart, Kept("thief").records)[i])
    BY DEF Past, Stood
  <2>5. \A i \in 1 .. Heard("thief") + 1 : i \in 1 .. Heard("thief") \/ i = Heard("thief") + 1
    BY <1>3
  <2> QED BY <2>3, <2>4, <2>5
<1> QED BY <1>2, <1>4, <1>5 DEF Past

LEMMA ConcedesPast ==
  ASSUME Types, Untorn, Past, NEW x, NEW h, Concedes(x, h)
  PROVE  Past'
<1>1. /\ Kept("police")' = Kept("police") /\ Made("police")' = Made("police")
      /\ Heard("police")' = Heard("police") /\ Latest("police")' = Latest("police")
  BY Names, StillKept DEF Concedes
<1>2. \A r \in Role : Numbered(r)' /\ Newest(r)' /\ Copied(r)' /\ Trail(r)'
  BY Names, LogsStep DEF Concedes
<1>3. WallsPlaced'
  BY <1>1, HeardWalls DEF Concedes, Hears
<1>4. Stood'
  BY DEF Stood, Conceded, Concedes, Acts
<1> QED BY <1>2, <1>3, <1>4 DEF Past

-----------------------------------------------------------------------------
(* Outcomes keep agreeing with the messages *)

LEMMA RestsEnds ==
  ASSUME Types, Untorn, NEW p \in Role, Rests(p), Ends
  PROVE  Ends'
<1>1. \A r \in Role : /\ Made(r)' = Made(r) /\ Heard(r)' = Heard(r) /\ Latest(r)' = Latest(r)
  BY RestsFacts
<1>2. Conceded' = Conceded /\ Claimed' = Claimed
  BY <1>1, Names DEF Conceded, Claimed
<1>3. PICK q \in Role : q = Rival(p) /\ \A r \in Role : r = p \/ r = q
  BY RivalFacts
<1>4. pc'[q] = pc[q] /\ own'[q] = own[q] /\ draft'[q] = draft[q]
  BY <1>3 DEF Rests, Still
<1>5. /\ draft'[p] \in {draft[p], "ongoing"}
      /\ \/ /\ own'[p].outcome = own[p].outcome
            /\ pc[p] \in {"failed", "done"} => pc'[p] \in {"failed", "done"}
         \/ own'[p].outcome \in {"ongoing", draft[p]}
         \/ own'[p].outcome = "technical_loss" /\ pc'[p] = "failed"
  BY DEF Rests, Outcomes
<1>6. draft["police"] = "ongoing"
  BY DEF Untorn, PoliceSide
<1>7. \A r \in Role : /\ draft'[r] # "technical_loss"
                      /\ own'[r].outcome = "technical_loss" => pc'[r] \in {"failed", "done"}
  <2>1. /\ draft'[q] # "technical_loss"
        /\ own'[q].outcome = "technical_loss" => pc'[q] \in {"failed", "done"}
    BY <1>4 DEF Ends
  <2>2. /\ draft'[p] # "technical_loss"
        /\ own'[p].outcome = "technical_loss" => pc'[p] \in {"failed", "done"}
    BY <1>5 DEF Ends
  <2> QED BY <1>3, <2>1, <2>2
<1>8. own'["thief"].outcome = "capture" \/ draft'["thief"] = "capture" => Conceded
  <2>1. CASE p = "thief"
    BY <1>5, <2>1 DEF Ends
  <2>2. CASE q = "thief"
    BY <1>4, <2>2 DEF Ends
  <2> QED BY <1>3, <2>1, <2>2, Names
<1>9. own'["police"].outcome = "capture" => Conceded /\ Heard("police") = Made("thief")
  <2>1. CASE p = "police"
    BY <1>5, <1>6, <2>1 DEF Ends
  <2>2. CASE q = "police"
    BY <1>4, <2>2 DEF Ends
  <2> QED BY <1>3, <2>1, <2>2, Names
<1>10. Won("police")' => Heard("police") = Made("thief")
  <2>1. CASE p = "police"
    BY <1>5, <1>6, <2>1 DEF Ends, Won
  <2>2. CASE q = "police"
    BY <1>4, <2>2 DEF Ends, Won
  <2> QED BY <1>3, <2>1, <2>2, Names
<1> QED BY <1>1, <1>2, <1>7, <1>8, <1>9, <1>10, Names DEF Ends

\* A peer whose loop runs, or that is sending, has not lost for technical reasons.
LEMMA LossesKept ==
  ASSUME NEW p \in Role, Still(Rival(p)), Ends,
         draft'[p] # "technical_loss", own'[p].outcome # "technical_loss"
  PROVE  \A r \in Role : /\ draft'[r] # "technical_loss"
                         /\ own'[r].outcome = "technical_loss" => pc'[r] \in {"failed", "done"}
BY RivalFacts DEF Still, Ends

\* While the game is open nobody takes it for ended.
LEMMA OpenEnds ==
  ASSUME Untorn, Ends, ~Conceded, ~Claimed
  PROVE  own["police"].outcome # "capture" /\ ~Won("police")
BY DEF Ends, Untorn, PoliceSide, Claimed

LEMMA PoliceEnds ==
  ASSUME Types, Untorn, Ends, NEW x, PoliceActs(x)
  PROVE  Ends'
<1>1. /\ Made("thief")' = Made("thief") /\ Heard("thief")' = Heard("thief")
      /\ Latest("thief")' = Latest("thief")
      /\ own'["thief"] = own["thief"] /\ draft'["thief"] = draft["thief"]
  BY Names, StillKept DEF PoliceActs, Still
<1>2. ~Conceded' /\ ~Claimed'
  BY <1>1 DEF PoliceActs, Conceded, Claimed
<1>3. own'["police"].outcome = "ongoing" /\ draft'["police"] = "ongoing" /\ ~Conceded
  BY DEF PoliceActs
<1>4. \A r \in Role : /\ draft'[r] # "technical_loss"
                      /\ own'[r].outcome = "technical_loss" => pc'[r] \in {"failed", "done"}
  BY <1>3, Names, LossesKept DEF PoliceActs
<1> QED BY <1>1, <1>2, <1>3, <1>4 DEF Ends, Won

LEMMA ThiefEnds ==
  ASSUME Types, Untorn, Ends, NEW x, ThiefActs(x)
  PROVE  Ends'
<1>1. /\ Made("police")' = Made("police") /\ Heard("police")' = Heard("police")
      /\ own'["police"] = own["police"] /\ draft'["police"] = draft["police"]
  BY Names, StillKept DEF ThiefActs, Still
<1>2. /\ Made("thief")' = Made("thief") + 1 /\ Heard("thief")' = Heard("thief")
      /\ Made("thief") = Heard("thief") /\ Made("police") = Heard("thief")
      /\ Latest("thief")' # None
      /\ own'["thief"].outcome = "ongoing"
  BY DEF ThiefActs, Acts, Deaf
<1>3. \/ Conceded' /\ ~Claimed' /\ draft'["thief"] = "capture"
      \/ ~Conceded' /\ draft'["thief"] \in {"survival", "ongoing"}
  BY <1>2 DEF ThiefActs, Conceded, Claimed
<1>4. own["police"].outcome # "capture" /\ ~Won("police")
  BY OpenEnds DEF ThiefActs
<1>5. \A r \in Role : /\ draft'[r] # "technical_loss"
                      /\ own'[r].outcome = "technical_loss" => pc'[r] \in {"failed", "done"}
  BY <1>2, <1>3, Names, LossesKept DEF ThiefActs
<1> QED BY <1>1, <1>2, <1>3, <1>4, <1>5 DEF Ends, Won

LEMMA PoliceHeardEnds ==
  ASSUME Types, Untorn, Ends, NEW h, PoliceListens(h)
  PROVE  Ends'
<1>1. /\ Made("thief")' = Made("thief") /\ Heard("thief")' = Heard("thief")
      /\ Latest("thief")' = Latest("thief")
      /\ own'["thief"] = own["thief"] /\ draft'["thief"] = draft["thief"]
  BY Names, StillKept DEF PoliceListens, Still
<1>2. Conceded' = Conceded /\ Claimed' = Claimed
  BY <1>1 DEF Conceded, Claimed
<1>3. /\ Made("police")' = Made("police") /\ Heard("police")' = Made("thief")
      /\ draft'["police"] = "ongoing"
      /\ own'["police"].outcome = "capture" => Conceded
      /\ own'["police"].outcome # "technical_loss"
  BY DEF PoliceListens, Silent, Hears, Conceded, Untorn, PoliceSide
<1>4. \A r \in Role : /\ draft'[r] # "technical_loss"
                      /\ own'[r].outcome = "technical_loss" => pc'[r] \in {"failed", "done"}
  BY <1>3, Names, LossesKept DEF PoliceListens
<1> QED BY <1>1, <1>2, <1>3, <1>4 DEF Ends, Won

LEMMA ThiefHeardEnds ==
  ASSUME Types, Untorn, Ends, NEW h, ThiefListens(h)
  PROVE  Ends'
<1>1. /\ Made("police")' = Made("police") /\ Heard("police")' = Heard("police")
      /\ own'["police"] = own["police"] /\ draft'["police"] = draft["police"]
  BY Names, StillKept DEF ThiefListens, Still
<1>2. ~Conceded /\ ~Claimed /\ ~Conceded' /\ ~Claimed'
  BY DEF ThiefListens, Silent, Conceded, Claimed
<1>3. own'["thief"].outcome = "ongoing" /\ draft'["thief"] = "ongoing"
  BY DEF ThiefListens
<1>4. own["police"].outcome # "capture" /\ ~Won("police")
  BY <1>2, OpenEnds
<1>5. \A r \in Role : /\ draft'[r] # "technical_loss"
                      /\ own'[r].outcome = "technical_loss" => pc'[r] \in {"failed", "done"}
  BY <1>3, Names, LossesKept DEF ThiefListens
<1> QED BY <1>1, <1>2, <1>3, <1>4, <1>5 DEF Ends, Won

LEMMA ConcedesEnds ==
  ASSUME Types, Untorn, Ends, NEW x, NEW h, Concedes(x, h)
  PROVE  Ends'
<1>1. /\ Made("police")' = Made("police") /\ Heard("police")' = Heard("police")
      /\ own'["police"] = own["police"] /\ draft'["police"] = draft["police"]
  BY Names, StillKept DEF Concedes, Still
<1>2. ~Conceded /\ ~Claimed /\ Conceded' /\ ~Claimed'
  BY DEF Concedes, Acts, Conceded, Claimed
<1>3. /\ Made("thief")' = Made("thief") + 1 /\ Heard("thief")' = Heard("thief") + 1
      /\ Made("police") = Heard("thief") + 1 /\ Made("thief") = Heard("thief") + 1
      /\ Heard("thief") \in Nat
  BY Names, KeptTypes DEF Concedes, Acts, Hears
<1>4. own'["thief"].outcome = "ongoing" /\ draft'["thief"] = "capture"
  BY DEF Concedes
<1>5. own["police"].outcome # "capture" /\ ~Won("police")
  BY <1>2, OpenEnds
<1>6. \A r \in Role : /\ draft'[r] # "technical_loss"
                      /\ own'[r].outcome = "technical_loss" => pc'[r] \in {"failed", "done"}
  BY <1>4, Names, LossesKept DEF Concedes
<1>7. Made("police")' = Heard("thief")' /\ Made("thief")' = Heard("thief")' + 1
  BY <1>1, <1>3
<1> QED BY <1>1, <1>2, <1>4, <1>5, <1>6, <1>7 DEF Ends, Won

-----------------------------------------------------------------------------
(* What is disclosed, and what a foreign half is found to be *)

\* The walls a peer takes from its own records, up to a step.
LEMMA TimelineWalls ==
  ASSUME NEW A, NEW n \in Nat, Len(A) = n, DOMAIN A = 1 .. n,
         \A i \in 1 .. n : A[i].payload.step = i,
         NEW k \in Nat
  PROVE  {t.cell : t \in {w \in OwnBarrierTimeline(A) : w.step <= k}}
           = Placed(A, IF k <= n THEN k ELSE n)
<1> DEFINE T == OwnBarrierTimeline(A)
           W == {t.cell : t \in {w \in T : w.step <= k}}
<1>1. PICK m \in Nat : m = IF k <= n THEN k ELSE n
  OBVIOUS
<1>2. \A i \in 1 .. n : i <= k <=> i \in 1 .. m
  BY <1>1
<1>3. ASSUME NEW c \in W PROVE c \in Placed(A, m)
  <2>1. PICK t \in T : t.step <= k /\ c = t.cell
    BY <1>3
  <2>2. PICK r \in Range(A) : /\ r.payload.action.type = "barrier"
                              /\ t = [step |-> r.payload.step, cell |-> r.payload.action.cell]
    BY <2>1 DEF OwnBarrierTimeline
  <2>3. PICK i \in 1 .. n : r = A[i]
    BY <2>2 DEF Range
  <2>4. t.step = i /\ c = A[i].payload.action.cell
    BY <2>1, <2>2, <2>3
  <2>5. i \in 1 .. m /\ A[i].payload.action.type = "barrier"
    BY <1>2, <2>1, <2>2, <2>3, <2>4
  <2> QED BY <2>4, <2>5 DEF Placed
<1>4. ASSUME NEW c \in Placed(A, m) PROVE c \in W
  <2>1. PICK i \in 1 .. m : A[i].payload.action.type = "barrier" /\ c = A[i].payload.action.cell
    BY <1>4 DEF Placed
  <2>2. i \in 1 .. n /\ i <= k
    BY <1>1, <2>1
  <2>3. PICK r : r = A[i]
    OBVIOUS
  <2>4. r \in Range(A) /\ r.payload.step = i
    BY <2>2, <2>3 DEF Range
  <2>5. PICK t : t = [step |-> r.payload.step, cell |-> r.payload.action.cell]
    OBVIOUS
  <2>6. t \in T
    BY <2>1, <2>3, <2>4, <2>5 DEF OwnBarrierTimeline
  <2>7. t.step <= k /\ t.cell = c
    BY <2>1, <2>2, <2>3, <2>4, <2>5
  <2> QED BY <2>6, <2>7
<1> QED BY <1>1, <1>3, <1>4

LEMMA LandingNear ==
  ASSUME NEW c \in Cell, NEW a \in Action, Landing(a, c) \in Cell
  PROVE  Distance(c, Landing(a, c)) <= 1
<1>1. c[1] \in Int /\ c[2] \in Int
  BY DEF Cell
<1>2. CASE a.type = "barrier"
  BY <1>1, <1>2 DEF Landing, Distance, Abs
<1>3. CASE a.type = "move" /\ a.move \in Move
  <2>1. Landing(a, c) = <<c[1] + Delta[a.move][1], c[2] + Delta[a.move][2]>>
    BY <1>3 DEF Landing, AppliedTo
  <2>2. Delta[a.move] \in {<<-1, 0>>, <<1, 0>>, <<0, 1>>, <<0, -1>>, <<0, 0>>}
    BY <1>3 DEF Move, OrthogonalMoves, Delta
  <2> QED BY <1>1, <2>1, <2>2 DEF Distance, Abs
<1> QED BY <1>2, <1>3, ActionFacts

\* On a board without walls nobody is locked in.
LEMMA OpenBoard ==
  ASSUME NEW c \in Cell
  PROVE  ~CapturedAt({}, c)
<1>1. c[1] \in 0 .. GridSize - 1 /\ GridSize \in Nat /\ GridSize >= 2 /\ c[2] \in 0 .. GridSize - 1
  BY PhysicsAssumption DEF Cell
<1>2. CASE c[1] > 0
  <2>1. AppliedTo("N", c) = <<c[1] - 1, c[2]>>
    BY <1>1 DEF AppliedTo, Delta
  <2>2. IsPassable({}, AppliedTo("N", c))
    BY <1>1, <1>2, <2>1 DEF IsPassable, InBounds
  <2> QED BY <2>2 DEF CapturedAt, IsSurrounded, OrthogonalMoves
<1>3. CASE c[1] = 0
  <2>1. AppliedTo("S", c) = <<c[1] + 1, c[2]>>
    BY <1>1 DEF AppliedTo, Delta
  <2>2. IsPassable({}, AppliedTo("S", c))
    BY <1>1, <1>3, <2>1 DEF IsPassable, InBounds
  <2> QED BY <2>2 DEF CapturedAt, IsSurrounded, OrthogonalMoves
<1> QED BY <1>1, <1>2, <1>3

\* The cell a peer's live records put its rival on after each step.
LiveCell(p, i) == Path(Start(Rival(p)), Commits(their[p]))[i]

\* Live records retell the rival's half-turns.
LEMMA HalfFacts ==
  ASSUME Types, Untorn, Past, NEW p \in Role, pc[p] # "down"
  PROVE  /\ Len(their[p]) = Heard(p) /\ Heard(p) \in Nat /\ Heard(p) <= Made(Rival(p))
         /\ \A i \in 1 .. Heard(p) :
              /\ their[p][i].commit = Kept(Rival(p)).records[i]
              /\ their[p][i].commit.payload.step = i
              /\ their[p][i].commit.payload.action \in Action
              /\ LiveCell(p, i) \in Cell
              /\ LiveCell(p, i) = Path(Start(Rival(p)), Kept(Rival(p)).records)[i]
              /\ i > 1 => Distance(LiveCell(p, i - 1), LiveCell(p, i)) <= 1
<1>1. PICK q \in Role : q = Rival(p)
  BY RivalFacts
<1>2. PICK A, B : A = Commits(their[p]) /\ B = Kept(q).records
  OBVIOUS
<1>3. Kept(p).their = their[p] /\ Heard(p) \in Nat /\ Made(q) \in Nat
  BY UpRecords, KeptTypes
<1>4. PICK n \in Nat : n = Heard(p) /\ n = Len(their[p])
  BY <1>3 DEF Heard
<1>5. n <= Made(q) /\ Len(B) = Made(q)
  BY <1>1, <1>2, <1>4, Names DEF Untorn, Order, Made, Rival
<1>6. B \in Seq(SealedRec)
  BY <1>2, KeptRecords
<1>7. Len(A) = n /\ \A i \in 1 .. n : A[i] = their[p][i].commit
  BY <1>2, <1>4 DEF Commits
<1>8. \A i \in 1 .. n : their[p][i].commit = B[i]
  BY <1>1, <1>2, <1>3, <1>4 DEF Past, Copied
<1>9. \A i \in 0 .. n : Path(Start(q), A)[i] = Path(Start(q), B)[i]
  <2>1. /\ Len(A) \in Nat /\ Len(B) \in Nat /\ n <= Len(A) /\ n <= Len(B)
        /\ \A i \in 1 .. n : A[i].payload = B[i].payload
    BY <1>3, <1>5, <1>7, <1>8
  <2> QED BY <2>1, PathPrefix
<1>10. \A i \in 1 .. n : B[i].payload.step = i
  BY <1>2, <1>5 DEF Past, Numbered
<1>11. \A i \in 1 .. n : B[i].payload.action \in Action
  <2>1. \A i \in 1 .. n : B[i] \in SealedRec
    BY <1>3, <1>5, <1>6
  <2> QED BY <2>1 DEF SealedRec
<1>12. \A i \in 0 .. n : Path(Start(q), B)[i] \in Cell
  BY <1>2, <1>3, <1>5 DEF Past, Trail
<1>13. \A i \in 1 .. n : Path(Start(q), B)[i]
                           = Landing(B[i].payload.action, Path(Start(q), B)[i - 1])
  BY <1>3, <1>5, PathIs
<1>14. ASSUME NEW i \in 1 .. n
       PROVE  Distance(Path(Start(q), B)[i - 1], Path(Start(q), B)[i]) <= 1
  <2>1. PICK c \in Cell : c = Path(Start(q), B)[i - 1]
    BY <1>12
  <2>2. PICK a \in Action : a = B[i].payload.action
    BY <1>11
  <2>3. Path(Start(q), B)[i] = Landing(a, c) /\ Landing(a, c) \in Cell
    BY <1>12, <1>13, <2>1, <2>2
  <2> QED BY <2>1, <2>3, LandingNear
<1>15. \A i \in 0 .. n : LiveCell(p, i) = Path(Start(q), B)[i]
  BY <1>1, <1>2, <1>9 DEF LiveCell
<1>16. ASSUME NEW i \in 1 .. n
       PROVE  /\ their[p][i].commit = B[i]
              /\ their[p][i].commit.payload.step = i
              /\ their[p][i].commit.payload.action \in Action
              /\ LiveCell(p, i) \in Cell
              /\ LiveCell(p, i) = Path(Start(q), B)[i]
              /\ i > 1 => Distance(LiveCell(p, i - 1), LiveCell(p, i)) <= 1
  BY <1>8, <1>10, <1>11, <1>12, <1>14, <1>15
<1> QED BY <1>1, <1>2, <1>4, <1>5, <1>16

\* Such a half reads clean.
LEMMA HalfReadsClean ==
  ASSUME Types, Untorn, Past, NEW p \in Role, pc[p] # "down"
  PROVE  LET half == ForeignHalf(Rival(p), their[p])
         IN  /\ ContinuityOk(half) /\ MovementOk(half)
             /\ DOMAIN half = 1 .. Heard(p)
             /\ \A i \in 1 .. Heard(p) : half[i].step = i /\ half[i].position = LiveCell(p, i)
<1>1. PICK n \in Nat : n = Heard(p) /\ n = Len(their[p])
  BY HalfFacts
<1>2. PICK half : half = ForeignHalf(Rival(p), their[p])
  OBVIOUS
<1>3. half = [i \in 1 .. n |-> [step |-> their[p][i].commit.payload.step,
                                position |-> LiveCell(p, i)]]
  BY <1>1, <1>2 DEF ForeignHalf, LiveCell
<1>4. DOMAIN half = 1 .. n /\ Len(half) = n
  BY <1>3
<1>5. ASSUME NEW i \in 1 .. n
      PROVE  half[i].step = i /\ half[i].position = LiveCell(p, i) /\ LiveCell(p, i) \in Cell
  <2>1. their[p][i].commit.payload.step = i /\ LiveCell(p, i) \in Cell
    BY <1>1, HalfFacts
  <2>2. half[i] = [step |-> i, position |-> LiveCell(p, i)]
    BY <1>3, <2>1
  <2> QED BY <2>1, <2>2
<1>6. ContinuityOk(half)
  <2>1. \A i \in 1 .. n : half[i].step = i
    BY <1>5
  <2> QED BY <1>4, <2>1 DEF ContinuityOk
<1>7. MovementOk(half)
  <2>1. SUFFICES ASSUME NEW i \in 1 .. n, NEW j \in 1 .. n
                 PROVE  /\ InBounds(half[i].position)
                        /\ half[j].step = half[i].step + 1 =>
                             Distance(half[i].position, half[j].position) <= 1
    BY <1>4 DEF MovementOk
  <2>2. half[i].step = i /\ half[j].step = j
        /\ half[i].position = LiveCell(p, i) /\ half[j].position = LiveCell(p, j)
    BY <1>5
  <2>3. LiveCell(p, i) \in Cell
    BY <1>5
  <2>4. InBounds(LiveCell(p, i))
    BY <2>3, PhysicsAssumption DEF InBounds, Cell
  <2>5. j = i + 1 => Distance(LiveCell(p, i), LiveCell(p, j)) <= 1
    <3>1. SUFFICES ASSUME j = i + 1 PROVE Distance(LiveCell(p, i), LiveCell(p, j)) <= 1
      OBVIOUS
    <3>2. j > 1 /\ j - 1 = i
      BY <3>1
    <3>3. Distance(LiveCell(p, j - 1), LiveCell(p, j)) <= 1
      BY <1>1, <3>2, HalfFacts
    <3> QED BY <3>2, <3>3
  <2> QED BY <2>2, <2>4, <2>5
<1> QED BY <1>1, <1>2, <1>4, <1>5, <1>6, <1>7

\* No wall accuses the rival of anything but where it stood once it stood.
LEMMA NothingConceals ==
  ASSUME Types, Untorn, Past, Ends, NEW p \in Role, pc[p] = "await_audit"
  PROVE  ~UnconcededCapture(ForeignHalf(Rival(p), their[p]), OwnBarrierTimeline(records[p]),
                            own[p].outcome)
<1>1. PICK half : half = ForeignHalf(Rival(p), their[p])
  OBVIOUS
<1>2. /\ DOMAIN half = 1 .. Heard(p)
      /\ \A i \in 1 .. Heard(p) : half[i].step = i /\ half[i].position = LiveCell(p, i)
  BY <1>1, HalfReadsClean
<1>3. PICK A : A = records[p] /\ A = Kept(p).records
  BY UpRecords
<1>4. PICK n \in Nat : n = Made(p) /\ n = Len(A) /\ DOMAIN A = 1 .. n
  <2>1. A \in Seq(SealedRec)
    BY <1>3, KeptRecords
  <2> QED BY <1>3, <2>1 DEF Made
<1>5. \A i \in 1 .. n : A[i].payload.step = i
  <2>1. Numbered(p)
    BY DEF Past
  <2>2. \A i \in 1 .. Made(p) : Kept(p).records[i].payload.step = i
    BY <2>1 DEF Numbered
  <2>3. ASSUME NEW i \in 1 .. n PROVE A[i].payload.step = i
    <3>1. A[i] = Kept(p).records[i] /\ i \in 1 .. Made(p)
      BY <1>3, <1>4
    <3> QED BY <2>2, <3>1
  <2> QED BY <2>3
<1>6. Heard(p) \in Nat
  BY KeptTypes
<1>7. SUFFICES ASSUME own[p].outcome # "capture", NEW i \in 1 .. Heard(p),
                      NEW k \in Nat, k = IF i <= n THEN i ELSE n
               PROVE  ~CapturedAt(Placed(A, k), LiveCell(p, i))
  <2>1. SUFFICES ASSUME own[p].outcome # "capture", NEW i \in 1 .. Heard(p),
                        CapturedAt({t.cell : t \in {w \in OwnBarrierTimeline(A) :
                                                      w.step <= half[i].step}},
                                   half[i].position)
                 PROVE FALSE
    BY <1>1, <1>2, <1>3 DEF UnconcededCapture, CapturedAt
  <2>2. i \in Nat /\ half[i].step = i /\ half[i].position = LiveCell(p, i)
    BY <1>2, <1>6
  <2>3. PICK k \in Nat : k = IF i <= n THEN i ELSE n
    BY <2>2
  <2>4. {t.cell : t \in {w \in OwnBarrierTimeline(A) : w.step <= i}} = Placed(A, k)
    BY <1>4, <1>5, <2>2, <2>3, TimelineWalls
  <2> QED BY <1>7, <2>1, <2>2, <2>3, <2>4
<1>8. LiveCell(p, i) \in Cell
      /\ LiveCell(p, i) = Path(Start(Rival(p)), Kept(Rival(p)).records)[i]
  BY HalfFacts
<1>9. CASE p = "thief"
  <2>1. ASSUME NEW j \in 1 .. n PROVE A[j].payload.action.type # "barrier"
    <3>1. Numbered(p)
      BY DEF Past
    <3>2. \A m \in 1 .. Made(p) : Kept(p).records[m].payload.action.type # "barrier"
      BY <1>9, <3>1 DEF Numbered
    <3>3. A[j] = Kept(p).records[j] /\ j \in 1 .. Made(p)
      BY <1>3, <1>4
    <3> QED BY <3>2, <3>3
  <2>2. k <= n
    BY <1>7
  <2>3. Placed(A, k) = {}
    BY <2>1, <2>2 DEF Placed
  <2> QED BY <1>8, <2>3, OpenBoard
<1>10. CASE p = "police"
  <2>1. own["police"].outcome = "survival"
    <3>1. own["police"].outcome # "ongoing" /\ own["police"].outcome # "technical_loss"
      BY <1>10 DEF Untorn, Saved, Ongoing, Ends
    <3>2. own["police"].outcome \in Outcome
      BY Names DEF Types, TypesOfPeers, OwnState
    <3> QED BY <1>7, <1>10, <3>1, <3>2 DEF Outcome
  <2>2. Claimed /\ ~Conceded /\ Heard("police") = Made("thief")
    BY <2>1 DEF Untorn, PoliceSide, Won, Claimed, Ends
  <2>3. Made("thief") = Heard("thief") + 1 /\ Made("police") = Heard("thief")
    BY <2>2 DEF Ends, Untorn, ThiefSide, Claimed
  <2>4. Heard("thief") \in Nat
    BY Names, KeptTypes
  <2>5. A = Kept("police").records /\ n = Heard("thief") /\ Rival(p) = "thief"
    BY <1>3, <1>4, <1>10, <2>3 DEF Rival
  <2>6. LiveCell(p, i) = Path(ThiefStart, Kept("thief").records)[i]
    BY <1>8, <2>5, Names DEF Start
  <2>7. CASE i <= n
    <3>1. i \in 1 .. Heard("thief") /\ k = i
      BY <1>6, <1>7, <2>5, <2>7
    <3> QED BY <2>2, <2>5, <2>6, <3>1 DEF Past, Stood
  <2>8. CASE ~(i <= n)
    <3>1. i = Made("thief") /\ k = n
      BY <1>7, <1>10, <2>2, <2>3, <2>4, <2>5, <2>8
    <3>2. ~CapturedAt(Kept("thief").barriers, Kept("thief").cell)
      BY <2>2, <2>3, <2>4 DEF Past, Stood
    <3>3. Kept("thief").barriers = Placed(A, n)
      BY <1>4, <2>3, <2>5 DEF Past, WallsPlaced
    <3>4. LiveCell(p, i) = Kept("thief").cell
      BY <2>6, <3>1, Names DEF Past, Trail, Start
    <3> QED BY <3>1, <3>2, <3>3, <3>4
  <2> QED BY <2>7, <2>8
<1> QED BY <1>9, <1>10 DEF Role

-----------------------------------------------------------------------------
(* The disclosure, and the verdict on a foreign half *)

LEMMA RevealsVerified ==
  ASSUME Types, TypesOfRest, Untorn, Past, NEW p \in Role, Disclosed(p), pc[p] = "await_audit",
         audits[p] # << >>
  PROVE  VerifyReveals(their[p], Head(audits[p]))
<1>1. PICK q \in Role : q = Rival(p)
  BY RivalFacts
<1>2. Head(audits[p]) \in Range(audits[p])
  BY RangeFacts DEF TypesOfRest
<1>3. Head(audits[p]) = records[q] /\ pc[q] \in {"await_audit", "done"}
  BY <1>1, <1>2 DEF Disclosed
<1>4. PICK B : B = records[q] /\ B = Kept(q).records
  BY <1>3, UpRecords
<1>5. DOMAIN B = 1 .. Made(q) /\ Made(q) \in Nat
  <2>1. B \in Seq(SealedRec)
    BY <1>4, KeptRecords
  <2> QED BY <1>4, <2>1 DEF Made
<1>6. /\ Len(their[p]) = Heard(p) /\ Heard(p) \in Nat /\ Heard(p) <= Made(q)
      /\ \A i \in 1 .. Heard(p) : their[p][i].commit = B[i]
  BY <1>1, <1>4, HalfFacts
<1>7. ASSUME NEW i \in 1 .. Len(their[p])
      PROVE  their[p][i].commit \in Range(B)
  <2>1. i \in 1 .. Heard(p) /\ i \in DOMAIN B
    BY <1>5, <1>6
  <2>2. their[p][i].commit = B[i]
    BY <1>6, <2>1
  <2> QED BY <2>1, <2>2 DEF Range
<1> QED BY <1>3, <1>4, <1>7 DEF VerifyReveals

LEMMA ForeignVerdictClean ==
  ASSUME Types, Untorn, Past, Ends, NEW p \in Role, pc[p] = "await_audit"
  PROVE  ForeignVerdict(p) = Verdict("Verified OK", "not comparable", FALSE)
<1>1. PICK half : half = ForeignHalf(Rival(p), their[p])
  OBVIOUS
<1>2. ContinuityOk(half) /\ MovementOk(half)
  BY <1>1, HalfReadsClean
<1>3. UnconcededCapture(half, OwnBarrierTimeline(records[p]), own[p].outcome) = FALSE
  BY <1>1, NothingConceals DEF UnconcededCapture
<1> QED BY <1>1, <1>2, <1>3 DEF ForeignVerdict

\* What a peer that settles reports.
LEMMA SettledVerdict ==
  ASSUME TypesOfRest, NEW p \in Role, NEW foreign, NEW finding, Settle(p, foreign, finding)
  PROVE  /\ report'[p].audit = finding.audit /\ report'[p].match = finding.match
         /\ report'[p].disputed = finding.disputed /\ report'[p].foreign = foreign
<1>1. PICK o : report' = [report EXCEPT ![p] =
         [error |-> "none", outcome |-> o, audit |-> finding.audit, match |-> finding.match,
          disputed |-> finding.disputed, foreign |-> foreign]]
  BY DEF Settle
<1>2. PICK a, m, d : a = finding.audit /\ m = finding.match /\ d = finding.disputed
  OBVIOUS
<1>3. PICK r : r = [error |-> "none", outcome |-> o, audit |-> a, match |-> m,
                    disputed |-> d, foreign |-> foreign]
  OBVIOUS
<1>4. report' = [report EXCEPT ![p] = r]
  BY <1>1, <1>2, <1>3
<1>5. report'[p] = r
  BY <1>4 DEF TypesOfRest
<1> QED BY <1>2, <1>3, <1>5

LEMMA LossVerdict ==
  ASSUME TypesOfRest, NEW p \in Role, TechnicalLossReport(p)
  PROVE  report'[p].audit = "not received" /\ report'[p].foreign = FALSE
<1>1. PICK f : f = FALSE
  OBVIOUS
<1>2. PICK e : e = report[p].error
  OBVIOUS
<1>3. PICK r : r = [error |-> e, outcome |-> "technical_loss", audit |-> "not received",
                    match |-> "no", disputed |-> f, foreign |-> f]
  OBVIOUS
<1>4. report' = [report EXCEPT ![p] = r]
  BY <1>1, <1>2, <1>3 DEF TechnicalLossReport
<1>5. report'[p] = r
  BY <1>4 DEF TypesOfRest
<1>6. r.audit = "not received" /\ r.foreign = f
  BY <1>3
<1> QED BY <1>1, <1>5, <1>6

\* A report without an audit.
Unaudited(p) == report'[p].audit = "not received" /\ report'[p].foreign = FALSE

LEMMA SettledUnaudited ==
  ASSUME TypesOfRest, NEW p \in Role, Settle(p, FALSE, NoAudit)
  PROVE  Unaudited(p)
<1>1. PICK f : f = FALSE
  OBVIOUS
<1>2. PICK v : v = [audit |-> "not received", match |-> "no", disputed |-> f]
  OBVIOUS
<1>3. Settle(p, f, v)
  BY <1>1, <1>2 DEF NoAudit, Verdict
<1>4. report'[p].audit = v.audit /\ report'[p].foreign = f
  BY <1>3, SettledVerdict
<1> QED BY <1>1, <1>2, <1>4 DEF Unaudited

LEMMA ExpireVerdict ==
  ASSUME Types, TypesOfRest, NEW p \in Role, Expire(p), pc'[p] = "done"
  PROVE  Unaudited(p) /\ pc[p] # "done"
<1>1. CASE AwaitingAudit(p) /\ Settle(p, FALSE, NoAudit)
  BY <1>1, SettledUnaudited DEF AwaitingAudit
<1>2. CASE pc[p] = "failed" /\ TechnicalLossReport(p)
  BY <1>2, LossVerdict DEF Unaudited
<1>3. ASSUME NEW c, pc' = [pc EXCEPT ![p] = c], c # "done" PROVE FALSE
  BY <1>3 DEF Types, TypesOfPeers
<1>4. ~Fail(p, "deadline")
  BY <1>3 DEF Fail
<1> QED BY <1>1, <1>2, <1>3, <1>4 DEF Expire

\* What a step by one peer does to the reports of settled peers.
Reports(p) ==
  pc'[p] = "done" =>
    \/ pc[p] = "done" /\ report'[p] = report[p]
    \/ ReceiveAudit(p)
    \/ pc[p] # "done" /\ Unaudited(p)

LEMMA ElsewhereReports ==
  ASSUME Types, NEW r \in Role, NEW c, pc' = [pc EXCEPT ![r] = c],
         report'[Rival(r)] = report[Rival(r)]
  PROVE  Reports(Rival(r))
<1>1. pc'[Rival(r)] = pc[Rival(r)]
  BY RivalFacts DEF Types, TypesOfPeers
<1> QED BY <1>1 DEF Reports

LEMMA MovedReports ==
  ASSUME Types, NEW r \in Role, NEW c, pc' = [pc EXCEPT ![r] = c], c # "done",
         report'[Rival(r)] = report[Rival(r)]
  PROVE  \A p \in Role : Reports(p)
<1>1. pc'[r] = c
  BY DEF Types, TypesOfPeers
<1>2. Reports(r)
  BY <1>1 DEF Reports
<1> QED BY <1>2, ElsewhereReports, RivalFacts

LEMMA SameReports ==
  ASSUME Types, NEW r \in Role, pc' = pc \/ \E c : pc' = [pc EXCEPT ![r] = c] /\ c # "done",
         report' = report
  PROVE  \A p \in Role : Reports(p)
<1>1. CASE pc' = pc
  BY <1>1 DEF Reports
<1>2. CASE \E c : pc' = [pc EXCEPT ![r] = c] /\ c # "done"
  <2>1. PICK c : pc' = [pc EXCEPT ![r] = c] /\ c # "done"
    BY <1>2
  <2> QED BY <2>1, MovedReports
<1> QED BY <1>1, <1>2

LEMMA ExpireReports ==
  ASSUME Types, TypesOfRest, NEW r \in Role, Expire(r)
  PROVE  \A p \in Role : Reports(p)
<1>1. PICK c : pc' = [pc EXCEPT ![r] = c]
  BY ExpireReport
<1>2. Reports(Rival(r))
  BY <1>1, ExpireReport, ElsewhereReports
<1>3. Reports(r)
  BY ExpireVerdict DEF Reports
<1> QED BY <1>2, <1>3, RivalFacts

LEMMA ReportsStep ==
  ASSUME Types, TypesOfRest, [Next]_vars
  PROVE  \A p \in Role : Reports(p)
<1>1. CASE UNCHANGED vars
  BY <1>1, SameReports DEF vars
<1>2. ASSUME NEW r \in Role, Program(r)
      PROVE  \A p \in Role : Reports(p)
  <2>1. CASE DecidePolice(r) \/ DecideThief(r) \/ Send(r) \/ AfterSend(r) \/ ConcedeTurn(r)
    BY <2>1, SameReports DEF DecidePolice, DecideThief, Send, AfterSend, ConcedeTurn, Seal
  <2>2. CASE ReceiveDuplicate(r) \/ AbsorbTurn(r) \/ AnswerOffer(r)
    BY <2>2, SameReports DEF ReceiveDuplicate, AbsorbTurn, AnswerOffer
  <2>3. CASE SendFinalAudit(r) \/ OfferResume(r)
    BY <2>3, SameReports DEF SendFinalAudit, OfferResume
  <2>4. CASE RefuseTurn(r)
    <3>1. Fail(r, "breach")
      BY <2>4 DEF RefuseTurn
    <3>2. PICK c : c = "failed"
      OBVIOUS
    <3>3. pc' = [pc EXCEPT ![r] = c] /\ report'[Rival(r)] = report[Rival(r)]
      BY <3>1, <3>2, LapsedReport DEF Fail
    <3> QED BY <3>2, <3>3, MovedReports
  <2>5. CASE ReceiveAudit(r)
    <3>1. PICK foreign, finding : Settle(r, foreign, finding)
      BY <2>5 DEF ReceiveAudit
    <3>2. pc' = [pc EXCEPT ![r] = "done"] /\ report'[Rival(r)] = report[Rival(r)]
      BY <3>1, SettledReport DEF Settle
    <3>3. Reports(Rival(r))
      BY <3>2, ElsewhereReports
    <3>4. Reports(r)
      BY <2>5 DEF Reports
    <3> QED BY <3>3, <3>4, RivalFacts
  <2>6. CASE EmergencyAudit(r)
    <3>1. TechnicalLossReport(r) /\ pc[r] = "failed"
      BY <2>6 DEF EmergencyAudit
    <3>2. pc' = [pc EXCEPT ![r] = "done"] /\ report'[Rival(r)] = report[Rival(r)]
      BY <3>1, LossReport DEF TechnicalLossReport
    <3>3. Reports(Rival(r))
      BY <3>2, ElsewhereReports
    <3>4. Reports(r)
      BY <3>1, LossVerdict DEF Reports, Unaudited
    <3> QED BY <3>3, <3>4, RivalFacts
  <2>7. CASE LapseOverdue(r)
    BY <2>7, ExpireReports DEF LapseOverdue
  <2> QED BY <1>2, <2>1, <2>2, <2>3, <2>4, <2>5, <2>6, <2>7 DEF Program
<1>3. ASSUME NEW r \in Role, LapseSlow(r)
      PROVE  \A p \in Role : Reports(p)
  BY <1>3, ExpireReports DEF LapseSlow
<1>4. ASSUME NEW r \in Role, Crash(r)
      PROVE  \A p \in Role : Reports(p)
  <2>1. PICK c : c = "down"
    OBVIOUS
  <2>2. pc' = [pc EXCEPT ![r] = c] /\ report' = [report EXCEPT ![r] = None]
    BY <1>4, <2>1 DEF Crash
  <2>3. report'[Rival(r)] = report[Rival(r)]
    BY <2>2, RivalFacts DEF TypesOfRest
  <2> QED BY <2>1, <2>2, <2>3, MovedReports
<1>5. ASSUME NEW r \in Role, Restart(r)
      PROVE  \A p \in Role : Reports(p)
  <2>1. PICK c : c = "offering"
    OBVIOUS
  <2>2. pc' = [pc EXCEPT ![r] = c] /\ report' = report
    BY <1>5, <2>1 DEF Restart
  <2> QED BY <2>1, <2>2, MovedReports
<1>6. ASSUME NEW m \in late, DeliverLate(m)
      PROVE  \A p \in Role : Reports(p)
  BY <1>6, SameReports DEF DeliverLate
<1> QED BY <1>1, <1>2, <1>3, <1>4, <1>5, <1>6 DEF Next

\* What a step does to the disclosures.
Discloses(p) ==
  LET q == Rival(p) IN
  \/ Range(audits'[p]) \subseteq Range(audits[p])
  \/ /\ Range(audits'[p]) \subseteq Range(audits[p]) \cup {records'[q]}
     /\ pc'[q] \in {"await_audit", "done"}

LEMMA SentDisclosure ==
  ASSUME Types, TypesOfRest, NEW p \in Role, SendAudit(p), records' = records,
         pc'[p] \in {"await_audit", "done"}
  PROVE  \A r \in Role : Discloses(r)
<1>1. PICK q \in Role : q = Rival(p) /\ q # p /\ Rival(q) = p /\ \A r \in Role : r = p \/ r = q
  BY RivalFacts
<1>2. audits[q] \in Seq(Seq(SealedRec)) /\ records[p] \in Seq(SealedRec)
  BY DEF Types, TypesOfPeers, TypesOfRest
<1>3. Range(Append(audits[q], records[p])) = Range(audits[q]) \cup {records[p]}
  BY <1>2, RangeFacts
<1>4. PICK s : s = Append(audits[q], records[p])
  OBVIOUS
<1>5. audits' = audits \/ audits' = [audits EXCEPT ![q] = s]
  BY <1>1, <1>4 DEF SendAudit, Delivered
<1>6. audits'[p] = audits[p] /\ (audits'[q] = audits[q] \/ audits'[q] = s)
  BY <1>1, <1>5 DEF TypesOfRest
<1>7. Discloses(p)
  BY <1>6 DEF Discloses
<1>8. Discloses(q)
  <2>1. CASE audits'[q] = audits[q]
    BY <2>1 DEF Discloses
  <2>2. CASE audits'[q] = s
    BY <1>1, <1>3, <1>4, <2>2 DEF Discloses
  <2> QED BY <1>6, <2>1, <2>2
<1> QED BY <1>1, <1>7, <1>8

LEMMA DisclosesStep ==
  ASSUME Types, TypesOfRest, [Next]_vars
  PROVE  \A p \in Role : Discloses(p)
<1>1. CASE audits' = audits
  BY <1>1 DEF Discloses
<1>2. ASSUME NEW r \in Role, SendFinalAudit(r)
      PROVE  \A p \in Role : Discloses(p)
  <2>1. SendAudit(r) /\ records' = records /\ pc' = [pc EXCEPT ![r] = "await_audit"]
    BY <1>2 DEF SendFinalAudit, memory, log
  <2>2. pc'[r] \in {"await_audit", "done"}
    BY <2>1 DEF Types, TypesOfPeers
  <2> QED BY <2>1, <2>2, SentDisclosure
<1>3. ASSUME NEW r \in Role, EmergencyAudit(r)
      PROVE  \A p \in Role : Discloses(p)
  <2>1. SendAudit(r) /\ records' = records /\ pc' = [pc EXCEPT ![r] = "done"]
    BY <1>3 DEF EmergencyAudit, TechnicalLossReport, memory, log
  <2>2. pc'[r] \in {"await_audit", "done"}
    BY <2>1 DEF Types, TypesOfPeers
  <2> QED BY <2>1, <2>2, SentDisclosure
<1>4. ASSUME NEW r \in Role, NEW s, audits' = [audits EXCEPT ![r] = s],
             Range(s) \subseteq Range(audits[r])
      PROVE  \A p \in Role : Discloses(p)
  <2>1. \A p \in Role : audits'[p] = IF p = r THEN s ELSE audits[p]
    BY <1>4 DEF TypesOfRest
  <2> QED BY <1>4, <2>1 DEF Discloses
<1>5. ASSUME NEW r \in Role, ReceiveAudit(r)
      PROVE  \A p \in Role : Discloses(p)
  <2>1. audits[r] # << >> /\ audits' = [audits EXCEPT ![r] = Tail(audits[r])]
    BY <1>5 DEF ReceiveAudit
  <2>2. audits[r] \in Seq(Seq(SealedRec))
    BY DEF TypesOfRest
  <2>3. Range(Tail(audits[r])) \subseteq Range(audits[r])
    BY <2>1, <2>2, RangeFacts
  <2> QED BY <1>4, <2>1, <2>3
<1>6. ASSUME NEW r \in Role, Crash(r)
      PROVE  \A p \in Role : Discloses(p)
  <2>1. audits' = [audits EXCEPT ![r] = << >>]
    BY <1>6 DEF Crash
  <2>2. Range(<< >>) \subseteq Range(audits[r])
    BY DEF Range
  <2> QED BY <1>4, <2>1, <2>2
<1>7. \/ audits' = audits
      \/ \E r \in Role : SendFinalAudit(r) \/ EmergencyAudit(r) \/ ReceiveAudit(r) \/ Crash(r)
  <2>1. CASE UNCHANGED vars
    BY <2>1 DEF vars, boxes
  <2>2. ASSUME NEW r \in Role, Program(r)
        PROVE  audits' = audits \/ SendFinalAudit(r) \/ EmergencyAudit(r) \/ ReceiveAudit(r)
    <3>1. CASE DecidePolice(r) \/ DecideThief(r) \/ Send(r) \/ AfterSend(r)
      BY <3>1 DEF DecidePolice, DecideThief, Send, AfterSend, boxes
    <3>2. CASE ReceiveDuplicate(r) \/ RefuseTurn(r) \/ AbsorbTurn(r) \/ ConcedeTurn(r)
      BY <3>2 DEF ReceiveDuplicate, RefuseTurn, AbsorbTurn, ConcedeTurn, TakeTurn
    <3>3. CASE OfferResume(r) \/ AnswerOffer(r) \/ LapseOverdue(r)
      BY <3>3 DEF OfferResume, AnswerOffer, LapseOverdue, boxes
    <3> QED BY <2>2, <3>1, <3>2, <3>3 DEF Program
  <2>3. ASSUME NEW r \in Role, LapseSlow(r) \/ Restart(r)
        PROVE  audits' = audits
    BY <2>3 DEF LapseSlow, Restart, boxes
  <2>4. ASSUME NEW m \in late, DeliverLate(m)
        PROVE  audits' = audits
    BY <2>4 DEF DeliverLate
  <2> QED BY <2>1, <2>2, <2>3, <2>4 DEF Next
<1> QED BY <1>1, <1>2, <1>3, <1>5, <1>6, <1>7

-----------------------------------------------------------------------------
(* A half in a foreign schema is judged fairly *)

\* A game that is over for a peer stays as it was.
LEMMA EndFixed ==
  ASSUME Types, Untorn, [Next]_vars, ~torn', NEW p \in Role, pc[p] \in {"await_audit", "done"}
  PROVE  /\ pc'[p] \in {"await_audit", "done"}
         /\ records'[p] = records[p] /\ their'[p] = their[p]
<1>1. ASSUME Still(p)
      PROVE  /\ pc'[p] \in {"await_audit", "done"}
             /\ records'[p] = records[p] /\ their'[p] = their[p]
  BY <1>1 DEF Still
<1>2. ASSUME NEW r \in Role, Rests(r)
      PROVE  /\ pc'[p] \in {"await_audit", "done"}
             /\ records'[p] = records[p] /\ their'[p] = their[p]
  <2>1. CASE p = r
    <3>1. Kept(p)' = Kept(p) /\ pc'[p] \in {"await_audit", "done"}
      BY <1>2, <2>1 DEF Rests
    <3>2. Kept(p).records = records[p] /\ Kept(p).their = their[p]
      BY UpRecords
    <3>3. Kept(p)'.records = records'[p] /\ Kept(p)'.their = their'[p]
      BY <3>1 DEF Kept, Memory, BuildSnapshot
    <3> QED BY <3>1, <3>2, <3>3
  <2>2. CASE p # r
    BY <1>1, <1>2, <2>2, RivalFacts DEF Rests
  <2> QED BY <2>1, <2>2
<1>3. CASE \E x : PoliceActs(x)
  BY <1>1, <1>3 DEF PoliceActs, Role
<1>4. CASE \E x : ThiefActs(x)
  BY <1>1, <1>4 DEF ThiefActs, Role
<1>5. CASE \E h : PoliceListens(h)
  BY <1>1, <1>5 DEF PoliceListens, Role
<1>6. CASE \E h : ThiefListens(h)
  BY <1>1, <1>6 DEF ThiefListens, Role
<1>7. CASE \E x, h : Concedes(x, h)
  BY <1>1, <1>7 DEF Concedes, Role
<1> QED BY <1>2, <1>3, <1>4, <1>5, <1>6, <1>7, StepsLived

LEMMA PastEndsStep ==
  ASSUME Types, Untorn, [Next]_vars, ~torn', Past, Ends
  PROVE  Past' /\ Ends'
<1>1. CASE \E p \in Role : Rests(p)
  BY <1>1, RestsPast, RestsEnds
<1>2. CASE \E x : PoliceActs(x)
  BY <1>2, PolicePast, PoliceEnds
<1>3. CASE \E x : ThiefActs(x)
  BY <1>3, ThiefPast, ThiefEnds
<1>4. CASE \E h : PoliceListens(h)
  BY <1>4, PoliceHeardPast, PoliceHeardEnds
<1>5. CASE \E h : ThiefListens(h)
  BY <1>5, ThiefHeardPast, ThiefHeardEnds
<1>6. CASE \E x, h : Concedes(x, h)
  BY <1>6, ConcedesPast, ConcedesEnds
<1> QED BY <1>1, <1>2, <1>3, <1>4, <1>5, <1>6, StepsLived

LEMMA DisclosedStep ==
  ASSUME Types, TypesOfRest, Untorn, [Next]_vars, ~torn', \A p \in Role : Disclosed(p)
  PROVE  \A p \in Role : Disclosed(p)'
<1> SUFFICES ASSUME NEW p \in Role, NEW sealed \in Range(audits'[p])
             PROVE  pc'[Rival(p)] \in {"await_audit", "done"} /\ sealed = records'[Rival(p)]
  BY DEF Disclosed
<1>1. PICK q \in Role : q = Rival(p)
  BY RivalFacts
<1>2. CASE sealed \in Range(audits[p])
  <2>1. pc[q] \in {"await_audit", "done"} /\ sealed = records[q]
    BY <1>1, <1>2 DEF Disclosed
  <2> QED BY <1>1, <2>1, EndFixed
<1>3. CASE sealed \notin Range(audits[p])
  BY <1>1, <1>3, DisclosesStep DEF Discloses
<1> QED BY <1>2, <1>3

LEMMA ForeignAudited ==
  ASSUME Types, TypesOfRest, Untorn, Past, Ends, NEW p \in Role, Disclosed(p), ReceiveAudit(p)
  PROVE  report'[p].foreign => report'[p].audit = "Verified OK" /\ ~report'[p].disputed
<1>1. pc[p] = "await_audit" /\ audits[p] # << >>
  BY DEF ReceiveAudit, AwaitingAudit
<1>2. PICK foreign, finding :
        finding = Audit(p, foreign, Head(audits[p])) /\ Settle(p, foreign, finding)
  BY DEF ReceiveAudit
<1>3. /\ report'[p].audit = finding.audit /\ report'[p].disputed = finding.disputed
      /\ report'[p].foreign = foreign
  BY <1>2, SettledVerdict
<1>4. VerifyReveals(their[p], Head(audits[p]))
  BY <1>1, RevealsVerified
<1>5. foreign => finding = ForeignVerdict(p)
  BY <1>2, <1>4 DEF Audit
<1>6. PICK f : f = FALSE
  OBVIOUS
<1>7. PICK v : v = [audit |-> "Verified OK", match |-> "not comparable", disputed |-> f]
  OBVIOUS
<1>8. ForeignVerdict(p) = v
  BY <1>1, <1>6, <1>7, ForeignVerdictClean DEF Verdict
<1>9. v.audit = "Verified OK" /\ v.disputed = f
  BY <1>7
<1> QED BY <1>3, <1>5, <1>6, <1>8, <1>9

LEMMA ForeignClearedStep ==
  ASSUME Types, TypesOfRest, Untorn, Past, Ends, [Next]_vars, ~torn',
         \A p \in Role : Disclosed(p) /\ ForeignCleared(p)
  PROVE  \A p \in Role : ForeignCleared(p)'
<1> SUFFICES ASSUME NEW p \in Role, pc'[p] = "done", report'[p].foreign
             PROVE  report'[p].audit = "Verified OK" /\ ~report'[p].disputed
  BY DEF ForeignCleared
<1>1. CASE pc[p] = "done" /\ report'[p] = report[p]
  BY <1>1 DEF ForeignCleared
<1>2. CASE ReceiveAudit(p)
  BY <1>2, ForeignAudited
<1>3. CASE Unaudited(p)
  BY <1>3 DEF Unaudited
<1> QED BY <1>1, <1>2, <1>3, ReportsStep DEF Reports

LEMMA PeersInit ==
  ASSUME Init, NEW p \in Role
  PROVE  /\ Made(p) = 0 /\ Heard(p) = 0 /\ Latest(p) = None
         /\ Kept(p).barriers = {} /\ Kept(p).cell = Start(p) /\ Kept(p).turns_completed = 0
         /\ Kept(p).records = << >> /\ Kept(p).their = << >>
         /\ own[p].outcome = "ongoing" /\ draft[p] = "ongoing" /\ ~Won(p)
<1>1. /\ pc[p] = "loop" /\ own[p] = NewOwn(p) /\ draft[p] = "ongoing"
      /\ records[p] = << >> /\ their[p] = << >> /\ last_sent[p] = None
  BY DEF Init
<1>2. PICK s : s = NewOwn(p)
  OBVIOUS
<1>3. s.cell = Start(p) /\ s.barriers = {} /\ s.outcome = "ongoing" /\ s.turns_completed = 0
  BY <1>2 DEF NewOwn
<1>4. own[p] = s /\ pc[p] # "down"
  BY <1>1, <1>2
<1>5. /\ Kept(p).cell = own[p].cell /\ Kept(p).barriers = own[p].barriers
      /\ Kept(p).turns_completed = own[p].turns_completed
      /\ Kept(p).records = records[p] /\ Kept(p).their = their[p]
      /\ Kept(p).last_sent = last_sent[p]
  BY <1>4 DEF Kept, Memory, BuildSnapshot
<1>6. Made(p) = 0 /\ Heard(p) = 0
  BY <1>1, <1>5 DEF Made, Heard
<1> QED BY <1>1, <1>3, <1>4, <1>5, <1>6 DEF Latest, Won

LEMMA PastInit == Init => Past /\ Ends
<1> SUFFICES ASSUME Init PROVE Past /\ Ends
  OBVIOUS
<1>1. \A p \in Role : draft[p] = "ongoing"
  BY PeersInit
<1>2. ASSUME NEW p \in Role
      PROVE  /\ Made(p) = 0 /\ Heard(p) = 0 /\ Latest(p) = None
             /\ Kept(p).barriers = {} /\ Kept(p).cell = Start(p)
             /\ Kept(p).records = << >> /\ own[p].outcome = "ongoing" /\ ~Won(p)
  BY PeersInit
<1>3. ASSUME NEW p \in Role
      PROVE  Numbered(p) /\ Newest(p) /\ Copied(p) /\ Trail(p)
  <2>1. Numbered(p) /\ Newest(p) /\ Copied(p)
    BY <1>2 DEF Numbered, Newest, Copied
  <2>2. PICK A : A = Kept(p).records /\ Len(A) \in Nat
    BY <1>2
  <2>3. Path(Start(p), A)[0] = Start(p)
    BY <2>2, PathIs
  <2>4. Start(p) \in Cell
    BY PhysicsAssumption DEF Start
  <2>5. \A i \in 0 .. Made(p) : i = 0
    BY <1>2
  <2> QED BY <1>2, <2>1, <2>2, <2>3, <2>4, <2>5 DEF Trail
<1>4. WallsPlaced
  BY <1>2, Names, PlacedNone DEF WallsPlaced
<1>5. Made("thief") = 0 /\ Heard("thief") = 0 /\ Made("police") = 0 /\ Heard("police") = 0
      /\ Latest("thief") = None
  BY <1>2, Names
<1>6. Stood
  BY <1>5 DEF Stood
<1>7. Ends
  BY <1>1, <1>2, <1>5, Names DEF Ends, Conceded, Claimed
<1> QED BY <1>3, <1>4, <1>6, <1>7 DEF Past

LEMMA ToldInit == Init => TInv
<1> SUFFICES ASSUME Init PROVE TInv
  OBVIOUS
<1>1. Past /\ Ends
  BY PastInit
<1>2. \A p \in Role : audits[p] = << >> /\ pc[p] = "loop"
  BY DEF Init
<1>3. Range(<< >>) = {}
  BY DEF Range
<1>4. \A p \in Role : Disclosed(p) /\ ForeignCleared(p)
  BY <1>2, <1>3 DEF Disclosed, ForeignCleared
<1> QED BY <1>1, <1>4 DEF TInv

LEMMA ToldStep == HInv /\ FInv /\ TInv /\ [Next]_vars => TInv'
<1> SUFFICES ASSUME HInv, FInv, TInv, [Next]_vars, ~torn'
             PROVE  Past' /\ Ends' /\ \A p \in Role : Disclosed(p)' /\ ForeignCleared(p)'
  BY DEF TInv
<1>1. /\ Types /\ Untorn /\ TypesOfRest /\ Past /\ Ends
      /\ \A p \in Role : Disclosed(p) /\ ForeignCleared(p)
  BY TornStays DEF HInv, FInv, TInv
<1>2. Past' /\ Ends'
  BY <1>1, PastEndsStep
<1>3. \A p \in Role : Disclosed(p)'
  BY <1>1, DisclosedStep
<1>4. \A p \in Role : ForeignCleared(p)'
  BY <1>1, ForeignClearedStep
<1> QED BY <1>2, <1>3, <1>4

LEMMA ToldAlways == Spec => [](HInv /\ FInv /\ TInv)
<1>1. HInv /\ FInv /\ TInv /\ [Next]_vars => HInv' /\ FInv' /\ TInv'
  BY HInvStep, FInvStep, ToldStep
<1> QED BY UntornInit, RestInit, ToldInit, <1>1, PTL DEF Spec

\* An honest half in the rival's own schema is never called a cheat, and walls
\* accuse it only of where it stood once they stood.
THEOREM ForeignFair == Spec => []ForeignJudgedFairly
<1>1. TInv => ForeignJudgedFairly
  BY DEF TInv, ForeignCleared, ForeignJudgedFairly, Settled
<1> QED BY <1>1, ToldAlways, PTL

-----------------------------------------------------------------------------
(* The game as a replay of both records would tell it *)

OwnEntry(r) == [payload |-> r.payload, declared |-> None]

TheirEntry(h) == [payload |-> h.commit.payload, declared |-> h]

Immured == CapturedAt(Kept("police").barriers, Kept("thief").cell)

Landed == Kept("police").cell = Kept("thief").cell

\* Truth values by name: the provers lose track of a literal in an argument.
No == FALSE
Yes == TRUE

\* A replay without breach or dispute so far.
Clean(c, b, t, o, w) ==
  [cells |-> c, barriers |-> b, turns |-> t, outcome |-> o, pending |-> w,
   disputed |-> No, broken |-> No]

ThiefLast == Made("thief") > Made("police")

Begun == Made("police") > 0

JointOutcome ==
  IF ThiefLast
  THEN IF Conceded THEN "capture" ELSE IF Claimed THEN "survival" ELSE "ongoing"
  ELSE IF Begun /\ (Immured \/ Landed) THEN "capture" ELSE "ongoing"

JointPending == IF ~ThiefLast /\ Begun /\ ~Immured /\ Landed THEN Yes ELSE No

Cells == [r \in Role |-> Kept(r).cell]

Joint ==
  Clean(Cells, Kept("police").barriers, Kept("thief").turns_completed,
        JointOutcome, JointPending)

Retold(p) == Reconstruct(Entries(Kept(p).records, Kept(p).their))

\* A peer's replay, the half-turn under way to it included.
Front(p) ==
  LET q == Rival(p) IN
  IF Heard(p) = Made(q) THEN Retold(p)
  ELSE Replayed(OwnEntry(Kept(q).records[Made(q)]))[Retold(p)]

\* A concession closes no turn.
Counted ==
  /\ Kept("thief").turns_completed = Made("thief") - (IF Conceded THEN 1 ELSE 0)
  /\ Kept("police").turns_completed
       = Heard("police") - (IF Conceded /\ Heard("police") = Made("thief") THEN 1 ELSE 0)

\* Claims name the landing, every landing is claimed, and the thief only moves
\* in a game that goes on.
Landings ==
  /\ Made("police") > 0 =>
       Latest("police").capture_claim \in {None, Claim(Kept("police").cell)}
  /\ Made("police") > 0 /\ Made("thief") = Made("police") /\ Landed =>
       Latest("police").capture_claim # None
  /\ Made("police") > 0 /\ Made("thief") = Heard("thief") => ~Immured /\ ~Landed

Replays == \A p \in Role : Retold(p) \in ReplayState /\ Front(p) = Joint

-----------------------------------------------------------------------------
\* The loop of Reconstruct, as an equation.
Rounds(f, n, A) ==
  f = [i \in 0 .. n |-> IF i = 0 THEN ReplayStart ELSE Replayed(A[i])[f[i - 1]]]

LEMMA RoundsExist ==
  ASSUME NEW A, NEW n \in Nat
  PROVE  \E f : Rounds(f, n, A)
<1> DEFINE Bad == {k \in Nat : ~ \E f : Rounds(f, k, A)}
<1>1. SUFFICES ASSUME Bad # {} PROVE FALSE
  OBVIOUS
<1>2. PICK m \in Bad : \A k \in Bad : m <= k
  BY <1>1, LeastNumber
<1>3. m # 0
  <2>1. Rounds([i \in 0 .. 0 |-> ReplayStart], 0, A)
    BY DEF Rounds
  <2> QED BY <2>1
<1>4. PICK f : Rounds(f, m - 1, A)
  BY <1>2, <1>3
<1> DEFINE g == [i \in 0 .. m |-> IF i = m THEN Replayed(A[m])[f[m - 1]] ELSE f[i]]
<1>5. Rounds(g, m, A)
  <2>1. ASSUME NEW i \in 0 .. m
        PROVE  g[i] = IF i = 0 THEN ReplayStart ELSE Replayed(A[i])[g[i - 1]]
    <3>1. CASE i = m
      BY <1>3, <3>1
    <3>2. CASE i # m
      <4>1. i \in 0 .. (m - 1) /\ g[i] = f[i] /\ (i # 0 => g[i - 1] = f[i - 1])
        BY <3>2
      <4>2. f[i] = IF i = 0 THEN ReplayStart ELSE Replayed(A[i])[f[i - 1]]
        BY <4>1, <1>4 DEF Rounds
      <4> QED BY <4>1, <4>2
    <3> QED BY <3>1, <3>2
  <2> QED BY <2>1 DEF Rounds
<1> QED BY <1>2, <1>5

LEMMA ReconstructRounds ==
  ASSUME NEW A, Len(A) \in Nat
  PROVE  \E f : Rounds(f, Len(A), A) /\ Reconstruct(A) = f[Len(A)]
<1>1. \E f : Rounds(f, Len(A), A)
  BY RoundsExist
<1> DEFINE after == CHOOSE f : f = [i \in 0 .. Len(A) |->
                      IF i = 0 THEN ReplayStart ELSE Replayed(A[i])[f[i - 1]]]
<1>2. after = [i \in 0 .. Len(A) |->
                      IF i = 0 THEN ReplayStart ELSE Replayed(A[i])[after[i - 1]]]
  BY <1>1 DEF Rounds
<1>3. Reconstruct(A) = after[Len(A)]
  BY DEF Reconstruct
<1> HIDE DEF after
<1> QED BY <1>2, <1>3 DEF Rounds

\* The replay of nothing is the start.
LEMMA ReconstructEmpty == Reconstruct(<< >>) = ReplayStart
<1>1. Len(<< >>) = 0
  OBVIOUS
<1>2. PICK f : Rounds(f, 0, << >>) /\ Reconstruct(<< >>) = f[0]
  BY <1>1, ReconstructRounds
<1> QED BY <1>2 DEF Rounds

\* One entry more is one step of the replay more.
LEMMA ReconstructAppend ==
  ASSUME NEW S, NEW A \in Seq(S), NEW a \in S
  PROVE  Reconstruct(Append(A, a)) = Replayed(a)[Reconstruct(A)]
<1> DEFINE n == Len(A)
<1>0. n \in Nat
  BY LenProperties
<1>A. /\ Append(A, a) \in Seq(S) /\ Len(Append(A, a)) = n + 1
      /\ \A i \in 1 .. n : Append(A, a)[i] = A[i]
      /\ Append(A, a)[n + 1] = a
  BY AppendProperties
<1> HIDE DEF n
<1>1. PICK B : B = Append(A, a) /\ Len(B) = n + 1 /\ B[n + 1] = a
               /\ \A i \in 1 .. n : B[i] = A[i]
  BY <1>A
<1>2. PICK f : Rounds(f, n, A) /\ Reconstruct(A) = f[n]
  BY <1>0, ReconstructRounds DEF n
<1>3. PICK g : Rounds(g, n + 1, B) /\ Reconstruct(B) = g[n + 1]
  <2>1. Len(B) \in Nat
    BY <1>0, <1>1
  <2>2. PICK g : Rounds(g, Len(B), B) /\ Reconstruct(B) = g[Len(B)]
    BY <2>1, ReconstructRounds
  <2> QED BY <1>1, <2>2
<1>4. \A i \in 0 .. n : f[i] = g[i]
  <2> DEFINE Bad == {k \in Nat : k <= n /\ f[k] # g[k]}
  <2>1. SUFFICES ASSUME Bad # {} PROVE FALSE
    OBVIOUS
  <2>2. PICK k \in Bad : \A j \in Bad : k <= j
    BY <2>1, LeastNumber
  <2>3. k \in 0 .. n /\ k \in 0 .. n + 1
    BY <1>0, <2>2
  <2>4. f[k] = IF k = 0 THEN ReplayStart ELSE Replayed(A[k])[f[k - 1]]
    BY <1>2, <2>3 DEF Rounds
  <2>5. g[k] = IF k = 0 THEN ReplayStart ELSE Replayed(B[k])[g[k - 1]]
    BY <1>3, <2>3 DEF Rounds
  <2>6. k # 0
    BY <2>2, <2>4, <2>5
  <2>7. f[k - 1] = g[k - 1]
    <3>1. PICK j : j = k - 1
      OBVIOUS
    <3>2. j \in Nat /\ j <= n /\ ~(k <= j)
      BY <1>0, <2>3, <2>6, <3>1
    <3>3. j \notin Bad
      BY <2>2, <3>2
    <3> QED BY <3>1, <3>2, <3>3
  <2>8. A[k] = B[k]
    BY <1>1, <2>3, <2>6
  <2> QED BY <2>2, <2>4, <2>5, <2>6, <2>7, <2>8
<1>5. g[n + 1] = Replayed(B[n + 1])[g[n]]
  <2>1. PICK k : k = n + 1
    OBVIOUS
  <2>2. k \in 0 .. n + 1 /\ k # 0 /\ k - 1 = n
    BY <1>0, <2>1
  <2>3. g[k] = Replayed(B[k])[g[k - 1]]
    BY <1>3, <2>2 DEF Rounds
  <2> QED BY <2>1, <2>2, <2>3
<1>6. f[n] = g[n]
  BY <1>0, <1>4
<1> QED BY <1>1, <1>2, <1>3, <1>5, <1>6

\* Entries whose keys are the numbers up to their count, each once: the entry
\* of key k is at place at[k].
Ranks(s, n, at) ==
  /\ DOMAIN s = 1 .. n /\ at \in [1 .. n -> 1 .. n]
  /\ \A k \in 1 .. n : SortKey(s[at[k]]) = k
  /\ \A i \in 1 .. n : SortKey(s[i]) \in 1 .. n /\ at[SortKey(s[i])] = i

\* A stable sort puts it k-th.
Ranked(s, n, at) ==
  /\ Sorted(s) = [k \in 1 .. n |-> Sorted(s)[k]]
  /\ \A k \in 1 .. n : Sorted(s)[k] = s[at[k]]

LEMMA SortedFacts ==
  ASSUME NEW s, NEW n \in Nat, NEW at, Ranks(s, n, at)
  PROVE  Ranked(s, n, at)
<1>0. /\ DOMAIN s = 1 .. n /\ at \in [1 .. n -> 1 .. n]
      /\ \A k \in 1 .. n : SortKey(s[at[k]]) = k
      /\ \A i \in 1 .. n : SortKey(s[i]) \in 1 .. n /\ at[SortKey(s[i])] = i
  BY DEF Ranks
<1> USE <1>0
<1> DEFINE Before(i) == {j \in 1 .. n : \/ SortKey(s[j]) < SortKey(s[i])
                                        \/ SortKey(s[j]) = SortKey(s[i]) /\ j < i}
<1> DEFINE Nth(k) == CHOOSE i \in 1 .. n : Cardinality(Before(i)) = k - 1
<1>1. Sorted(s) = [k \in 1 .. n |-> s[Nth(k)]]
  BY DEF Sorted
<1> HIDE DEF Nth
<1>2. ASSUME NEW i \in 1 .. n
      PROVE  Cardinality(Before(i)) = SortKey(s[i]) - 1
  <2>1. PICK key \in 1 .. n : key = SortKey(s[i])
    OBVIOUS
  <2> DEFINE f == [k \in 1 .. key - 1 |-> at[k]]
  <2>2. \A j \in 1 .. n : j \in Before(i) <=> SortKey(s[j]) < key
    <3> SUFFICES ASSUME NEW j \in 1 .. n, SortKey(s[j]) = key PROVE ~(j < i)
      BY <2>1
    <3>1. j = at[key] /\ i = at[key]
      BY <2>1
    <3> QED BY <3>1
  <2>3. \A k \in 1 .. key - 1 : k \in 1 .. n /\ k < key
    BY <2>1
  <2>4. f \in [1 .. key - 1 -> Before(i)]
    <3> SUFFICES ASSUME NEW k \in 1 .. key - 1 PROVE at[k] \in Before(i)
      OBVIOUS
    <3>1. at[k] \in 1 .. n /\ SortKey(s[at[k]]) = k /\ k < key
      BY <2>3
    <3> QED BY <2>2, <3>1
  <2>5. \A a, b \in 1 .. key - 1 : f[a] = f[b] => a = b
    <3> SUFFICES ASSUME NEW a \in 1 .. key - 1, NEW b \in 1 .. key - 1, at[a] = at[b]
                 PROVE  a = b
      OBVIOUS
    <3>1. SortKey(s[at[a]]) = a /\ SortKey(s[at[b]]) = b
      BY <2>3
    <3> QED BY <3>1
  <2>6. \A t \in Before(i) : \E k \in 1 .. key - 1 : f[k] = t
    <3> SUFFICES ASSUME NEW t \in Before(i) PROVE \E k \in 1 .. key - 1 : f[k] = t
      OBVIOUS
    <3>1. t \in 1 .. n
      OBVIOUS
    <3>2. PICK k : k = SortKey(s[t])
      OBVIOUS
    <3>3. k \in 1 .. n /\ at[k] = t /\ k < key
      BY <2>2, <3>1, <3>2
    <3>4. k \in 1 .. key - 1
      BY <3>3
    <3> QED BY <3>3, <3>4
  <2>7. f \in Bijection(1 .. key - 1, Before(i))
    <3> HIDE DEF f, Before
    <3> QED BY <2>4, <2>5, <2>6, Fun_IsBij
  <2> HIDE DEF f, Before
  <2>8. ExistsBijection(1 .. key - 1, Before(i)) /\ key - 1 \in Nat
    <3>1. key - 1 \in Nat
      BY <2>1
    <3> QED BY <2>7, <3>1 DEF ExistsBijection
  <2>9. Cardinality(Before(i)) = key - 1
    BY <2>8, FS_CountingElements
  <2> QED BY <2>1, <2>9
<1>3. ASSUME NEW k \in 1 .. n
      PROVE  Nth(k) = at[k]
  <2> HIDE DEF Before
  <2>1. at[k] \in 1 .. n /\ SortKey(s[at[k]]) = k
    OBVIOUS
  <2>2. Cardinality(Before(at[k])) = k - 1
    BY <1>2, <2>1
  <2>3. ASSUME NEW i \in 1 .. n, Cardinality(Before(i)) = k - 1 PROVE i = at[k]
    <3>1. SortKey(s[i]) \in 1 .. n /\ at[SortKey(s[i])] = i /\ SortKey(s[i]) - 1 = k - 1
      BY <1>2, <2>3
    <3>2. SortKey(s[i]) = k
      BY <3>1
    <3> QED BY <3>1, <3>2
  <2>4. Nth(k) \in 1 .. n /\ Cardinality(Before(Nth(k))) = k - 1
    BY <2>1, <2>2 DEF Nth
  <2> QED BY <2>3, <2>4
<1> HIDE <1>0 DEF Before
<1>4. Sorted(s) = [k \in 1 .. n |-> Sorted(s)[k]]
  BY <1>1
<1>5. \A k \in 1 .. n : Sorted(s)[k] = s[at[k]]
  <2> SUFFICES ASSUME NEW k \in 1 .. n PROVE Sorted(s)[k] = s[at[k]]
    OBVIOUS
  <2>1. Sorted(s)[k] = s[Nth(k)]
    BY <1>1
  <2>2. Nth(k) = at[k]
    BY <1>3
  <2> QED BY <2>1, <2>2
<1> QED BY <1>4, <1>5 DEF Ranked

-----------------------------------------------------------------------------
(* The entries that two logs sort into *)

Entry == [payload : [step : Nat, role : Role, action : Action],
          declared : {None} \cup HeardRec]

Merged(p, mine, live) ==
  [k \in 1 .. Len(mine) + Len(live) |->
     IF Mover(k) = p THEN OwnEntry(mine[Number(k)]) ELSE TheirEntry(live[Number(k)])]

\* Two logs of an alternating game, numbered by their senders.
Aligned(p, mine, live) ==
  /\ Fit(p, Len(mine), Len(live))
  /\ \A i \in 1 .. Len(mine) : mine[i].payload.step = i /\ mine[i].payload.role = p
  /\ \A i \in 1 .. Len(live) :
       live[i].commit.payload.step = i /\ live[i].commit.payload.role = Rival(p)

LEMMA EntryFacts ==
  /\ \A r \in SealedRec : OwnEntry(r) \in Entry
  /\ \A h \in HeardRec : TheirEntry(h) \in Entry
BY DEF OwnEntry, TheirEntry, Entry, SealedRec, HeardRec

\* Sorting the records of two such logs merges them.
LEMMA EntriesMerged ==
  ASSUME NEW p \in Role, NEW mine \in Seq(SealedRec), NEW live \in Seq(HeardRec),
         Aligned(p, mine, live)
  PROVE  Entries(mine, live) = Merged(p, mine, live)
<1> DEFINE mineE == [i \in 1 .. Len(mine) |-> OwnEntry(mine[i])]
           liveE == [i \in 1 .. Len(live) |-> TheirEntry(live[i])]
<1>1. PICK m \in Nat, l \in Nat : m = Len(mine) /\ l = Len(live)
  BY LenProperties
<1>2. PICK q \in Role : q = Rival(p) /\ q # p /\ \A r \in Role : r = p \/ r = q
  BY RivalFacts
<1>3. mineE \in Seq(Entry) /\ liveE \in Seq(Entry) /\ Len(mineE) = m /\ Len(liveE) = l
  <2>1. /\ \A i \in 1 .. m : OwnEntry(mine[i]) \in Entry
        /\ \A i \in 1 .. l : TheirEntry(live[i]) \in Entry
    BY <1>1, EntryFacts, ElementOfSeq
  <2> HIDE DEF Entry, OwnEntry, TheirEntry
  <2> QED BY <1>1, <2>1
<1>4. PICK s : s = mineE \o liveE
  OBVIOUS
<1>5. /\ s \in Seq(Entry) /\ Len(s) = m + l
      /\ \A i \in 1 .. m + l : s[i] = IF i <= m THEN mineE[i] ELSE liveE[i - m]
  <2> HIDE DEF mineE, liveE
  <2> QED BY <1>3, <1>4, ConcatProperties
<1>6. DOMAIN s = 1 .. m + l
  BY <1>5, LenProperties
<1>7. /\ \A i \in 1 .. m : s[i] = OwnEntry(mine[i])
      /\ \A i \in 1 .. l : m + i \in 1 .. m + l /\ s[m + i] = TheirEntry(live[i])
  <2>1. ASSUME NEW i \in 1 .. m PROVE s[i] = OwnEntry(mine[i])
    <3>1. i \in 1 .. m + l /\ i <= m
      OBVIOUS
    <3> QED BY <1>1, <1>5, <3>1
  <2>2. ASSUME NEW i \in 1 .. l
        PROVE  m + i \in 1 .. m + l /\ s[m + i] = TheirEntry(live[i])
    <3>1. m + i \in 1 .. m + l /\ ~(m + i <= m) /\ m + i - m = i
      OBVIOUS
    <3>2. PICK j : j = m + i
      OBVIOUS
    <3>5. j \in 1 .. m + l /\ ~(j <= m) /\ j - m = i
      BY <3>1, <3>2
    <3>3. s[j] = liveE[j - m] /\ j - m = i
      BY <1>5, <3>5
    <3>4. liveE[i] = TheirEntry(live[i])
      BY <1>1
    <3> QED BY <3>1, <3>2, <3>3, <3>4
  <2> QED BY <2>1, <2>2
<1> HIDE DEF mineE, liveE
<1>8. Entries(mine, live) = Sorted(s)
  <2>1. Entries(mine, live) = CHOOSE sorted \in {Sorted(both) : both \in {mineE \o liveE}} : TRUE
    BY DEF Entries, mineE, liveE, OwnEntry, TheirEntry
  <2> QED BY <1>4, <2>1
<1>9. /\ \A i \in 1 .. m : SortKey(s[i]) = HalfTurn(p, i)
      /\ \A i \in 1 .. l : SortKey(s[m + i]) = HalfTurn(q, i)
  <2>1. ASSUME NEW i \in 1 .. m PROVE SortKey(s[i]) = HalfTurn(p, i)
    <3>0. s[i] = OwnEntry(mine[i])
      BY <1>7
    <3>1. s[i].payload = mine[i].payload
      BY <3>0 DEF OwnEntry
    <3>2. mine[i].payload.step = i /\ mine[i].payload.role = p
      BY <1>1 DEF Aligned
    <3> QED BY <3>1, <3>2 DEF SortKey, HalfTurn
  <2>2. ASSUME NEW i \in 1 .. l PROVE SortKey(s[m + i]) = HalfTurn(q, i)
    <3>0. s[m + i] = TheirEntry(live[i])
      BY <1>7
    <3>1. s[m + i].payload = live[i].commit.payload
      BY <3>0 DEF TheirEntry
    <3>2. live[i].commit.payload.step = i /\ live[i].commit.payload.role = q
      BY <1>1, <1>2 DEF Aligned
    <3> QED BY <3>1, <3>2 DEF SortKey, HalfTurn
  <2> QED BY <2>1, <2>2
<1>10. PICK n \in Nat : n = m + l
  OBVIOUS
<1> DEFINE at == [k \in 1 .. n |-> IF Mover(k) = p THEN Number(k) ELSE m + Number(k)]
<1>12. /\ at \in [1 .. n -> 1 .. n]
       /\ \A k \in 1 .. n :
            \/ /\ Mover(k) = p /\ at[k] = Number(k) /\ Number(k) \in 1 .. m
               /\ SortKey(s[at[k]]) = k /\ s[at[k]] = OwnEntry(mine[Number(k)])
            \/ /\ Mover(k) # p /\ at[k] = m + Number(k) /\ Number(k) \in 1 .. l
               /\ SortKey(s[at[k]]) = k /\ s[at[k]] = TheirEntry(live[Number(k)])
  <2>1. ASSUME NEW k \in 1 .. n
        PROVE  /\ (IF Mover(k) = p THEN Number(k) ELSE m + Number(k)) \in 1 .. n
               /\ \/ /\ Mover(k) = p /\ at[k] = Number(k) /\ Number(k) \in 1 .. m
                     /\ SortKey(s[at[k]]) = k /\ s[at[k]] = OwnEntry(mine[Number(k)])
                  \/ /\ Mover(k) # p /\ at[k] = m + Number(k) /\ Number(k) \in 1 .. l
                     /\ SortKey(s[at[k]]) = k /\ s[at[k]] = TheirEntry(live[Number(k)])
    <3>1. PICK i \in Nat \ {0}, r \in Role :
            /\ i = Number(k) /\ r = Mover(k) /\ HalfTurn(r, i) = k
            /\ r = p => i \in 1 .. m
            /\ r # p => r = q /\ i \in 1 .. l
      <4>1. PICK i \in Nat \ {0}, r \in Role : i = Number(k) /\ r = Mover(k) /\ HalfTurn(r, i) = k
        <5>1. k \in Nat \ {0}
          BY <1>10
        <5> QED BY <5>1, HalfTurnFacts
      <4>2. HalfTurn(r, i) <= m + l /\ Fit(p, m, l)
        BY <1>1, <1>10, <4>1 DEF Aligned
      <4>3. r = p => i <= m
        BY <4>2, HalfTurnRange
      <4>4. r = q => i <= l
        BY <1>2, <4>2, HalfTurnRange
      <4>5. (r = p => i \in 1 .. m) /\ (r # p => r = q /\ i \in 1 .. l)
        BY <1>2, <4>3, <4>4
      <4> QED BY <4>1, <4>5
    <3>2. CASE r = p
      <4>1. at[k] = i /\ i \in 1 .. m
        BY <3>1, <3>2
      <4>2. SortKey(s[i]) = k
        BY <1>9, <3>1, <3>2, <4>1
      <4>3. s[i] = OwnEntry(mine[i])
        BY <1>7, <4>1
      <4>4. i \in 1 .. n
        BY <1>10, <4>1
      <4> QED BY <3>1, <3>2, <4>1, <4>2, <4>3, <4>4
    <3>3. CASE r # p
      <4>0. PICK j : j = m + i
        OBVIOUS
      <4>1. at[k] = j /\ i \in 1 .. l /\ r = q
        BY <3>1, <3>3, <4>0
      <4>2. SortKey(s[j]) = k
        BY <1>9, <3>1, <4>0, <4>1
      <4>3. s[j] = TheirEntry(live[i])
        BY <1>7, <4>0, <4>1
      <4>4. j \in 1 .. n
        BY <1>10, <4>0, <4>1
      <4> QED BY <3>1, <3>3, <4>0, <4>1, <4>2, <4>3, <4>4
    <3> QED BY <3>2, <3>3
  <2> QED BY <2>1
<1>13. \A k \in 1 .. n : SortKey(s[at[k]]) = k
  <2> HIDE DEF at
  <2> QED BY <1>12
<1>14. \A i \in 1 .. n : SortKey(s[i]) \in 1 .. n /\ at[SortKey(s[i])] = i
  <2> SUFFICES ASSUME NEW i \in 1 .. n
               PROVE  SortKey(s[i]) \in 1 .. n /\ at[SortKey(s[i])] = i
    OBVIOUS
  <2>1. CASE i <= m
    <3>1. i \in 1 .. m /\ i \in Nat \ {0}
      BY <2>1
    <3>2. PICK k : k = HalfTurn(p, i)
      OBVIOUS
    <3>3. k \in Nat \ {0} /\ Mover(k) = p /\ Number(k) = i
      BY <3>1, <3>2, HalfTurnFacts
    <3>0. Fit(p, m, l)
      BY <1>1 DEF Aligned
    <3>4. k <= m + l
      BY <2>1, <3>0, <3>1, <3>2, HalfTurnRange
    <3>5. k \in 1 .. n
      BY <1>10, <3>3, <3>4
    <3>6. SortKey(s[i]) = k
      BY <1>9, <3>1, <3>2
    <3> QED BY <3>3, <3>5, <3>6
  <2>2. CASE ~(i <= m)
    <3>1. PICK j : j = i - m
      OBVIOUS
    <3>2. j \in 1 .. l /\ j \in Nat \ {0} /\ i = m + j
      BY <1>10, <2>2, <3>1
    <3>3. PICK k : k = HalfTurn(q, j)
      OBVIOUS
    <3>4. k \in Nat \ {0} /\ Mover(k) = q /\ Number(k) = j
      BY <3>2, <3>3, HalfTurnFacts
    <3>0. Fit(p, m, l)
      BY <1>1 DEF Aligned
    <3>5. k <= m + l
      BY <1>2, <3>0, <3>2, <3>3, HalfTurnRange
    <3>6. k \in 1 .. n
      BY <1>10, <3>4, <3>5
    <3>7. SortKey(s[i]) = k
      BY <1>9, <3>2, <3>3
    <3>8. at[k] = m + j
      BY <1>2, <3>4, <3>6
    <3> QED BY <3>2, <3>6, <3>7, <3>8
  <2> QED BY <2>1, <2>2
<1>15. Sorted(s) = [k \in 1 .. n |-> s[at[k]]]
  <2> HIDE DEF at
  <2>1. DOMAIN s = 1 .. n
    BY <1>6, <1>10
  <2>2. at \in [1 .. n -> 1 .. n]
    BY <1>12
  <2>3. PICK a \in [1 .. n -> 1 .. n] : a = at
    BY <2>2
  <2>4. \A k \in 1 .. n : SortKey(s[a[k]]) = k
    BY <1>13, <2>3
  <2>5. \A i \in 1 .. n : SortKey(s[i]) \in 1 .. n /\ a[SortKey(s[i])] = i
    BY <1>14, <2>3
  <2>6. Ranks(s, n, a)
    BY <2>1, <2>4, <2>5 DEF Ranks
  <2>7. Ranked(s, n, a)
    BY <2>6, SortedFacts
  <2>8. Sorted(s) = [k \in 1 .. n |-> Sorted(s)[k]] /\ \A k \in 1 .. n : Sorted(s)[k] = s[a[k]]
    BY <2>7 DEF Ranked
  <2> QED BY <2>3, <2>8
<1>16. \A k \in 1 .. n :
         s[at[k]] = IF Mover(k) = p THEN OwnEntry(mine[Number(k)]) ELSE TheirEntry(live[Number(k)])
  <2> HIDE DEF at
  <2> QED BY <1>12
<1> HIDE DEF at
<1>17. Sorted(s) = Merged(p, mine, live)
  BY <1>1, <1>10, <1>15, <1>16 DEF Merged
<1> QED BY <1>8, <1>17

LEMMA MergedTypes ==
  ASSUME NEW p \in Role, NEW mine \in Seq(SealedRec), NEW live \in Seq(HeardRec),
         Fit(p, Len(mine), Len(live))
  PROVE  Merged(p, mine, live) \in Seq(Entry)
<1>1. PICK m \in Nat, l \in Nat : m = Len(mine) /\ l = Len(live)
  BY LenProperties
<1>2. PICK n \in Nat : n = m + l
  OBVIOUS
<1>3. ASSUME NEW k \in 1 .. n
      PROVE  (IF Mover(k) = p THEN OwnEntry(mine[Number(k)]) ELSE TheirEntry(live[Number(k)])) \in Entry
  <2>1. \/ Mover(k) = p /\ Number(k) \in 1 .. m
        \/ Mover(k) # p /\ Number(k) \in 1 .. l
    BY <1>1, <1>2, HalfTurns
  <2>2. CASE Mover(k) = p /\ Number(k) \in 1 .. m
    BY <1>1, <2>2, EntryFacts, ElementOfSeq
  <2>3. CASE Mover(k) # p /\ Number(k) \in 1 .. l
    BY <1>1, <2>3, EntryFacts, ElementOfSeq
  <2> QED BY <2>1, <2>2, <2>3
<1> HIDE DEF Entry
<1>4. Merged(p, mine, live)
        = [k \in 1 .. n |-> IF Mover(k) = p THEN OwnEntry(mine[Number(k)])
                            ELSE TheirEntry(live[Number(k)])]
  BY <1>1, <1>2 DEF Merged
<1>5. Merged(p, mine, live) \in [1 .. n -> Entry]
  BY <1>3, <1>4
<1>6. Merged(p, mine, live) \in UNION {[1 .. j -> Entry] : j \in Nat}
  BY <1>2, <1>5
<1> QED BY <1>6, SeqDef

\* What half-turn k of a merge holds.
AtHalfTurn(p, mine, live, s, k) ==
  s[k] = IF Mover(k) = p THEN OwnEntry(mine[Number(k)]) ELSE TheirEntry(live[Number(k)])

\* A sequence is a merge if it is one at every place.
LEMMA MergedIs ==
  ASSUME NEW p, NEW mine, NEW live, NEW n \in Nat, n = Len(mine) + Len(live),
         NEW s \in Seq(Entry), Len(s) = n,
         \A k \in 1 .. n : AtHalfTurn(p, mine, live, s, k)
  PROVE  s = Merged(p, mine, live)
<1>1. s \in [1 .. n -> Entry]
  BY LenProperties
<1>2. s = [k \in 1 .. n |-> s[k]]
  BY <1>1
<1>3. Merged(p, mine, live)
        = [k \in 1 .. n |-> IF Mover(k) = p THEN OwnEntry(mine[Number(k)])
                            ELSE TheirEntry(live[Number(k)])]
  BY DEF Merged
<1>4. \A k \in 1 .. n : s[k] = IF Mover(k) = p THEN OwnEntry(mine[Number(k)])
                                 ELSE TheirEntry(live[Number(k)])
  BY DEF AtHalfTurn
<1> QED BY <1>2, <1>3, <1>4

LEMMA MergedLen ==
  ASSUME NEW p \in Role, NEW mine \in Seq(SealedRec), NEW live \in Seq(HeardRec),
         Fit(p, Len(mine), Len(live))
  PROVE  /\ Len(Merged(p, mine, live)) = Len(mine) + Len(live)
         /\ \A k \in 1 .. Len(mine) + Len(live) :
              AtHalfTurn(p, mine, live, Merged(p, mine, live), k)
<1>1. Merged(p, mine, live) \in Seq(Entry)
  BY MergedTypes
<1>2. DOMAIN Merged(p, mine, live) = 1 .. Len(mine) + Len(live)
  BY DEF Merged
<1>3. Len(mine) + Len(live) \in Nat
  BY LenProperties
<1>4. Len(Merged(p, mine, live)) = Len(mine) + Len(live)
  BY <1>1, <1>2, <1>3, LenProperties
<1>5. ASSUME NEW k \in 1 .. Len(mine) + Len(live)
      PROVE  AtHalfTurn(p, mine, live, Merged(p, mine, live), k)
  BY DEF Merged, AtHalfTurn
<1> QED BY <1>4, <1>5

\* One record more is one entry more.
LEMMA MergedOwn ==
  ASSUME NEW p \in Role, NEW mine \in Seq(SealedRec), NEW live \in Seq(HeardRec),
         NEW r \in SealedRec,
         Fit(p, Len(mine), Len(live)), Fit(p, Len(mine) + 1, Len(live))
  PROVE  Merged(p, Append(mine, r), live) = Append(Merged(p, mine, live), OwnEntry(r))
<1>1. PICK m \in Nat, l \in Nat : m = Len(mine) /\ l = Len(live)
  BY LenProperties
<1>2. PICK M \in Seq(Entry), n \in Nat :
        /\ M = Merged(p, mine, live) /\ n = m + l /\ Len(M) = n
        /\ \A k \in 1 .. n : AtHalfTurn(p, mine, live, M, k)
  BY <1>1, MergedTypes, MergedLen
<1>3. PICK e \in Entry : e = OwnEntry(r)
  BY EntryFacts
<1>4. /\ Append(M, e) \in Seq(Entry) /\ Len(Append(M, e)) = n + 1
      /\ \A k \in 1 .. n : Append(M, e)[k] = M[k]
      /\ Append(M, e)[n + 1] = e
  BY <1>2, AppendProperties
<1>5. /\ Len(Append(mine, r)) = m + 1
      /\ \A i \in 1 .. m : Append(mine, r)[i] = mine[i]
      /\ Append(mine, r)[m + 1] = r
  BY <1>1, AppendProperties
<1>6. PICK b : b = Append(mine, r) /\ Len(b) = m + 1 /\ b[m + 1] = r
               /\ \A i \in 1 .. m : b[i] = mine[i]
  BY <1>5
<1>7. PICK s \in Seq(Entry) : s = Append(M, e) /\ Len(s) = n + 1 /\ s[n + 1] = e
               /\ \A k \in 1 .. n : s[k] = M[k]
  BY <1>4
<1>8. ASSUME NEW k \in 1 .. n + 1
      PROVE  AtHalfTurn(p, b, live, s, k)
  <2>1. CASE k = n + 1
    <3>0. Fit(p, m, l) /\ Fit(p, m + 1, l) /\ k = m + l + 1
      BY <1>1, <1>2, <2>1
    <3>1. Mover(k) = p /\ Number(k) = m + 1
      BY <3>0, NextHalfTurn
    <3>2. s[k] = e /\ Mover(k) = p /\ b[Number(k)] = r
      BY <1>6, <1>7, <2>1, <3>1
    <3> QED BY <1>3, <3>2 DEF AtHalfTurn
  <2>2. CASE k # n + 1
    <3>1. k \in 1 .. n /\ s[k] = M[k]
      BY <1>7, <2>2
    <3>2. \/ Mover(k) = p /\ Number(k) \in 1 .. m
          \/ Mover(k) # p /\ Number(k) \in 1 .. l
      BY <1>1, <1>2, <3>1, HalfTurns
    <3>3. Mover(k) = p => b[Number(k)] = mine[Number(k)]
      BY <1>6, <3>2
    <3>4. AtHalfTurn(p, mine, live, M, k)
      BY <1>2, <3>1
    <3> QED BY <3>1, <3>3, <3>4 DEF AtHalfTurn
  <2> QED BY <2>1, <2>2
<1>9. s = Merged(p, b, live)
  <2>1. PICK n1 \in Nat : n1 = n + 1
    OBVIOUS
  <2>2. n1 = Len(b) + Len(live) /\ Len(s) = n1
    BY <1>1, <1>2, <1>6, <1>7, <2>1
  <2>3. \A k \in 1 .. n1 : AtHalfTurn(p, b, live, s, k)
    BY <1>8, <2>1
  <2> QED BY <2>2, <2>3, MergedIs
<1> QED BY <1>2, <1>3, <1>6, <1>7, <1>9

\* ... and so is one message more.
LEMMA MergedTheirs ==
  ASSUME NEW p \in Role, NEW mine \in Seq(SealedRec), NEW live \in Seq(HeardRec),
         NEW h \in HeardRec,
         Fit(p, Len(mine), Len(live)), Fit(p, Len(mine), Len(live) + 1)
  PROVE  Merged(p, mine, Append(live, h)) = Append(Merged(p, mine, live), TheirEntry(h))
<1>1. PICK m \in Nat, l \in Nat : m = Len(mine) /\ l = Len(live)
  BY LenProperties
<1>2. PICK M \in Seq(Entry), n \in Nat :
        /\ M = Merged(p, mine, live) /\ n = m + l /\ Len(M) = n
        /\ \A k \in 1 .. n : AtHalfTurn(p, mine, live, M, k)
  BY <1>1, MergedTypes, MergedLen
<1>3. PICK e \in Entry : e = TheirEntry(h)
  BY EntryFacts
<1>4. /\ Append(M, e) \in Seq(Entry) /\ Len(Append(M, e)) = n + 1
      /\ \A k \in 1 .. n : Append(M, e)[k] = M[k]
      /\ Append(M, e)[n + 1] = e
  BY <1>2, AppendProperties
<1>5. /\ Len(Append(live, h)) = l + 1
      /\ \A i \in 1 .. l : Append(live, h)[i] = live[i]
      /\ Append(live, h)[l + 1] = h
  BY <1>1, AppendProperties
<1>6. PICK b : b = Append(live, h) /\ Len(b) = l + 1 /\ b[l + 1] = h
               /\ \A i \in 1 .. l : b[i] = live[i]
  BY <1>5
<1>7. PICK s \in Seq(Entry) : s = Append(M, e) /\ Len(s) = n + 1 /\ s[n + 1] = e
               /\ \A k \in 1 .. n : s[k] = M[k]
  BY <1>4
<1>8. ASSUME NEW k \in 1 .. n + 1
      PROVE  AtHalfTurn(p, mine, b, s, k)
  <2>1. CASE k = n + 1
    <3>0. Fit(p, m, l) /\ Fit(p, m, l + 1) /\ k = m + l + 1
      BY <1>1, <1>2, <2>1
    <3>1. Mover(k) # p /\ Number(k) = l + 1
      BY <3>0, NextHalfTurn
    <3>2. s[k] = e /\ Mover(k) # p /\ b[Number(k)] = h
      BY <1>6, <1>7, <2>1, <3>1
    <3> QED BY <1>3, <3>2 DEF AtHalfTurn
  <2>2. CASE k # n + 1
    <3>1. k \in 1 .. n /\ s[k] = M[k]
      BY <1>7, <2>2
    <3>2. \/ Mover(k) = p /\ Number(k) \in 1 .. m
          \/ Mover(k) # p /\ Number(k) \in 1 .. l
      BY <1>1, <1>2, <3>1, HalfTurns
    <3>3. Mover(k) # p => b[Number(k)] = live[Number(k)]
      BY <1>6, <3>2
    <3>4. AtHalfTurn(p, mine, live, M, k)
      BY <1>2, <3>1
    <3> QED BY <3>1, <3>3, <3>4 DEF AtHalfTurn
  <2> QED BY <2>1, <2>2
<1>9. s = Merged(p, mine, b)
  <2>1. PICK n1 \in Nat : n1 = n + 1
    OBVIOUS
  <2>2. n1 = Len(mine) + Len(b) /\ Len(s) = n1
    BY <1>1, <1>2, <1>6, <1>7, <2>1
  <2>3. \A k \in 1 .. n1 : AtHalfTurn(p, mine, b, s, k)
    BY <1>8, <2>1
  <2> QED BY <2>2, <2>3, MergedIs
<1> QED BY <1>2, <1>3, <1>6, <1>7, <1>9

-----------------------------------------------------------------------------
(* What a peer's replay makes of its two logs *)

LEMMA ReplayOwn ==
  ASSUME NEW p \in Role, NEW mine \in Seq(SealedRec), NEW live \in Seq(HeardRec),
         NEW r \in SealedRec, Aligned(p, mine, live), Aligned(p, Append(mine, r), live)
  PROVE  Reconstruct(Entries(Append(mine, r), live))
           = Replayed(OwnEntry(r))[Reconstruct(Entries(mine, live))]
<1>1. PICK b \in Seq(SealedRec) : b = Append(mine, r) /\ Len(b) = Len(mine) + 1
  BY AppendProperties
<1>2. /\ Fit(p, Len(mine), Len(live)) /\ Fit(p, Len(mine) + 1, Len(live))
      /\ Aligned(p, b, live)
  BY <1>1 DEF Aligned
<1>3. Entries(mine, live) = Merged(p, mine, live) /\ Entries(b, live) = Merged(p, b, live)
  BY <1>2, EntriesMerged
<1>4. PICK M \in Seq(Entry) : M = Merged(p, mine, live)
  BY <1>2, MergedTypes
<1>5. PICK e \in Entry : e = OwnEntry(r)
  BY EntryFacts
<1>6. Merged(p, b, live) = Append(M, e)
  BY <1>1, <1>2, <1>4, <1>5, MergedOwn
<1>7. Reconstruct(Append(M, e)) = Replayed(e)[Reconstruct(M)]
  BY ReconstructAppend
<1> QED BY <1>1, <1>3, <1>4, <1>5, <1>6, <1>7

LEMMA ReplayTheirs ==
  ASSUME NEW p \in Role, NEW mine \in Seq(SealedRec), NEW live \in Seq(HeardRec),
         NEW h \in HeardRec, Aligned(p, mine, live), Aligned(p, mine, Append(live, h))
  PROVE  Reconstruct(Entries(mine, Append(live, h)))
           = Replayed(TheirEntry(h))[Reconstruct(Entries(mine, live))]
<1>1. PICK b \in Seq(HeardRec) : b = Append(live, h) /\ Len(b) = Len(live) + 1
  BY AppendProperties
<1>2. /\ Fit(p, Len(mine), Len(live)) /\ Fit(p, Len(mine), Len(live) + 1)
      /\ Aligned(p, mine, b)
  BY <1>1 DEF Aligned
<1>3. Entries(mine, live) = Merged(p, mine, live) /\ Entries(mine, b) = Merged(p, mine, b)
  BY <1>2, EntriesMerged
<1>4. PICK M \in Seq(Entry) : M = Merged(p, mine, live)
  BY <1>2, MergedTypes
<1>5. PICK e \in Entry : e = TheirEntry(h)
  BY EntryFacts
<1>6. Merged(p, mine, b) = Append(M, e)
  BY <1>1, <1>2, <1>4, <1>5, MergedTheirs
<1>7. Reconstruct(Append(M, e)) = Replayed(e)[Reconstruct(M)]
  BY ReconstructAppend
<1> QED BY <1>1, <1>3, <1>4, <1>5, <1>6, <1>7

-----------------------------------------------------------------------------
(* The clocks, and the landings *)

\* A game moves on in one of these ways.
Moves ==
  \/ \E x : PoliceActs(x) \/ ThiefActs(x)
  \/ \E h : PoliceListens(h) \/ ThiefListens(h)
  \/ \E x, h : Concedes(x, h)

LEMMA NumbersOf ==
  ASSUME Types
  PROVE  /\ Made("police") \in Nat /\ Heard("police") \in Nat
         /\ Made("thief") \in Nat /\ Heard("thief") \in Nat
         /\ Kept("police").turns_completed \in Nat /\ Kept("thief").turns_completed \in Nat
BY Names, KeptTypes

LEMMA RestsCounted ==
  ASSUME NEW p \in Role, Rests(p), Counted
  PROVE  Counted'
<1>1. \A r \in Role : /\ Kept(r)' = Kept(r) /\ Made(r)' = Made(r) /\ Heard(r)' = Heard(r)
                      /\ Latest(r)' = Latest(r)
  BY RestsFacts
<1> QED BY <1>1, Names DEF Counted, Conceded

LEMMA CountedStep ==
  ASSUME Types, Untorn, Counted, Ends, Moves
  PROVE  Counted'
<1>1. CASE \E x : PoliceActs(x)
  <2>1. PICK x : PoliceActs(x)
    BY <1>1
  <2>2. /\ Kept("thief")' = Kept("thief") /\ Made("thief")' = Made("thief")
        /\ Latest("thief")' = Latest("thief") /\ Heard("police")' = Heard("police")
        /\ Kept("police")'.turns_completed = Kept("police").turns_completed
    BY <2>1, Names, StillKept DEF PoliceActs, Deaf
  <2> QED BY <2>2 DEF Counted, Conceded
<1>2. CASE \E x : ThiefActs(x)
  <2>1. PICK x : ThiefActs(x)
    BY <1>2
  <2>2. /\ Kept("police")' = Kept("police") /\ Heard("police")' = Heard("police")
        /\ Made("thief")' = Made("thief") + 1
        /\ Made("thief") = Heard("thief") /\ Heard("police") = Heard("thief")
        /\ Kept("thief").turns_completed = Made("thief") /\ ~Conceded
    BY <2>1, Names, StillKept DEF ThiefActs, Acts
  <2>3. \/ /\ Conceded' /\ Kept("thief")'.turns_completed = Kept("thief").turns_completed
        \/ /\ ~Conceded' /\ Kept("thief")'.turns_completed = Kept("thief").turns_completed + 1
    BY <2>1 DEF ThiefActs, Acts, Conceded
  <2>4. Kept("police").turns_completed = Heard("police")
    BY <2>2, NumbersOf DEF Counted
  <2>5. Heard("police")' # Made("thief")'
    BY <2>2, NumbersOf
  <2>6. Kept("thief")'.turns_completed = Made("thief")' - (IF Conceded' THEN 1 ELSE 0)
    BY <2>2, <2>3, NumbersOf
  <2>7. Kept("police")'.turns_completed = Heard("police")' - 0
    BY <2>2, <2>4, NumbersOf
  <2> QED BY <2>5, <2>6, <2>7 DEF Counted
<1>3. CASE \E h : PoliceListens(h)
  <2>1. PICK h : PoliceListens(h)
    BY <1>3
  <2>2. /\ Kept("thief")' = Kept("thief") /\ Made("thief")' = Made("thief")
        /\ Latest("thief")' = Latest("thief")
        /\ Heard("police")' = Heard("police") + 1 /\ Made("thief") = Heard("police") + 1
        /\ Kept("police").turns_completed = Heard("police")
    BY <2>1, Names, StillKept DEF PoliceListens, Hears
  <2>3. /\ Conceded' = Conceded
        /\ Kept("police")'.turns_completed
             = Kept("police").turns_completed + (IF Conceded THEN 0 ELSE 1)
    BY <2>1, <2>2 DEF PoliceListens, Conceded
  <2>4. Kept("police")'.turns_completed = Heard("police")' - (IF Conceded THEN 1 ELSE 0)
    BY <2>2, <2>3, NumbersOf
  <2> QED BY <2>2, <2>3, <2>4 DEF Counted
<1>4. CASE \E h : ThiefListens(h)
  <2>1. PICK h : ThiefListens(h)
    BY <1>4
  <2>2. /\ Kept("police")' = Kept("police") /\ Made("thief")' = Made("thief")
        /\ Latest("thief")' = Latest("thief") /\ Heard("police")' = Heard("police")
        /\ Kept("thief")'.turns_completed = Kept("thief").turns_completed
    BY <2>1, Names, StillKept DEF ThiefListens, Silent
  <2> QED BY <2>2 DEF Counted, Conceded
<1>5. CASE \E x, h : Concedes(x, h)
  <2>1. PICK x, h : Concedes(x, h)
    BY <1>5
  <2>2. /\ Kept("police")' = Kept("police") /\ Heard("police")' = Heard("police")
        /\ Made("thief")' = Made("thief") + 1
        /\ Made("thief") = Heard("thief") + 1 /\ Heard("police") = Heard("thief") + 1
        /\ Kept("thief")'.turns_completed = Kept("thief").turns_completed
    BY <2>1, Names, StillKept DEF Concedes, Acts
  <2>3. ~Conceded /\ Conceded'
    BY <2>1 DEF Concedes, Acts, Conceded
  <2>4. /\ Kept("police").turns_completed = Heard("police")
        /\ Kept("thief").turns_completed = Made("thief")
    BY <2>3, NumbersOf DEF Counted
  <2>5. Heard("police")' # Made("thief")'
    BY <2>2, NumbersOf
  <2>6. Kept("thief")'.turns_completed = Made("thief")' - 1
    BY <2>2, <2>4, NumbersOf
  <2>7. Kept("police")'.turns_completed = Heard("police")' - 0
    BY <2>2, <2>4, NumbersOf
  <2> QED BY <2>3, <2>5, <2>6, <2>7 DEF Counted
<1> QED BY <1>1, <1>2, <1>3, <1>4, <1>5 DEF Moves

-----------------------------------------------------------------------------
LEMMA RestsLandings ==
  ASSUME NEW p \in Role, Rests(p), Landings
  PROVE  Landings'
<1>1. \A r \in Role : /\ Kept(r)' = Kept(r) /\ Made(r)' = Made(r) /\ Heard(r)' = Heard(r)
                      /\ Latest(r)' = Latest(r)
  BY RestsFacts
<1> QED BY <1>1, Names DEF Landings, Immured, Landed

\* Where a caught-up police takes the thief to be, it is.
LEMMA ThiefCell ==
  ASSUME Types, Past, Heard("police") = Made("thief")
  PROVE  Path(ThiefStart, Commits(Kept("police").their))[Heard("police")] = Kept("thief").cell
<1> DEFINE live == Kept("police").their
           sealed == Kept("thief").records
<1>1. live \in Seq(HeardRec) /\ sealed \in Seq(SealedRec)
  BY Names, KeptRecords
<1>2. PICK n \in Nat : n = Len(live) /\ n = Len(sealed) /\ n = Heard("police")
  BY NumbersOf DEF Heard, Made
<1>3. Len(Commits(live)) = n /\ \A i \in 1 .. n : Commits(live)[i] = live[i].commit
  BY <1>2 DEF Commits
<1>4. \A i \in 1 .. n : live[i].commit = sealed[i]
  BY <1>2, Names DEF Past, Copied
<1>5. \A i \in 0 .. n : Path(ThiefStart, Commits(live))[i] = Path(ThiefStart, sealed)[i]
  <2>1. PICK A, B : A = Commits(live) /\ B = sealed
    OBVIOUS
  <2>2. /\ Len(A) \in Nat /\ Len(B) \in Nat /\ n <= Len(A) /\ n <= Len(B)
        /\ \A i \in 1 .. n : A[i].payload = B[i].payload
    BY <1>2, <1>3, <1>4, <2>1
  <2>3. \A i \in 0 .. n : Path(ThiefStart, A)[i] = Path(ThiefStart, B)[i]
    BY <2>2, PathPrefix
  <2> QED BY <2>1, <2>3
<1>6. Path(ThiefStart, sealed)[n] = Kept("thief").cell
  BY <1>2, Names DEF Past, Trail, Start, Made
<1> QED BY <1>2, <1>5, <1>6

LEMMA LandingsStep ==
  ASSUME Types, Untorn, Past, Past', Landings, Moves, ~unclaimed'
  PROVE  Landings'
<1>1. CASE \E x : PoliceActs(x)
  <2>1. PICK x : PoliceActs(x)
    BY <1>1
  <2>2. /\ Kept("thief")' = Kept("thief") /\ Made("thief")' = Made("thief")
        /\ Heard("thief")' = Heard("thief")
        /\ Made("thief") = Heard("thief") + 1 /\ Heard("police") = Made("police") + 1
        /\ Made("police") = Heard("thief")
        /\ Latest("police")'.capture_claim \in {None, Claim(Kept("police")'.cell)}
    BY <2>1, Names, StillKept DEF PoliceActs
  <2>3. Heard("police") = Made("thief") /\ Made("thief")' # Heard("thief")'
    BY <2>2, NumbersOf
  <2>4. Landed' => Latest("police")'.capture_claim # None
    BY <2>1, <2>2, <2>3, ThiefCell DEF PoliceActs, Landed
  <2> QED BY <2>2, <2>3, <2>4 DEF Landings
<1>2. CASE \E x : ThiefActs(x)
  <2>1. PICK x : ThiefActs(x)
    BY <1>2
  <2>2. /\ Kept("police")' = Kept("police") /\ Made("police")' = Made("police")
        /\ Latest("police")' = Latest("police")
        /\ Heard("thief")' = Heard("thief") /\ Made("thief")' = Made("thief") + 1
        /\ Made("thief") = Heard("thief") /\ Made("police") = Heard("thief")
    BY <2>1, Names, StillKept DEF ThiefActs, Deaf, Acts
  <2>3. Made("thief")' # Made("police")' /\ Made("thief")' # Heard("thief")'
    BY <2>2, NumbersOf
  <2> QED BY <2>2, <2>3 DEF Landings
<1>3. CASE \E h : PoliceListens(h)
  <2>1. PICK h : PoliceListens(h)
    BY <1>3
  <2>2. /\ Kept("thief")' = Kept("thief") /\ Made("thief")' = Made("thief")
        /\ Heard("thief")' = Heard("thief")
        /\ Made("police")' = Made("police") /\ Latest("police")' = Latest("police")
        /\ Kept("police")'.cell = Kept("police").cell
        /\ Kept("police")'.barriers = Kept("police").barriers
    BY <2>1, Names, StillKept DEF PoliceListens, Silent
  <2> QED BY <2>2 DEF Landings, Immured, Landed
<1>4. CASE \E h : ThiefListens(h)
  <2>1. PICK h : ThiefListens(h)
    BY <1>4
  <2>2. /\ Kept("police")' = Kept("police") /\ Made("police")' = Made("police")
        /\ Latest("police")' = Latest("police")
        /\ Made("thief")' = Made("thief") /\ Kept("thief")'.cell = Kept("thief").cell
        /\ Made("police") = Heard("thief") + 1 /\ Made("thief") = Heard("thief") + 1
        /\ Heard("thief")' = Heard("thief") + 1
    BY <2>1, Names, StillKept DEF ThiefListens, Silent, Hears
  <2>3. Landed' = Landed
    BY <2>2 DEF Landed
  <2>4. Made("police") > 0 /\ Made("thief") = Made("police")
    BY <2>2, NumbersOf
  <2>5. /\ Latest("police").capture_claim \in {None, Claim(Kept("police").cell)}
        /\ Landed => Latest("police").capture_claim # None
    BY <2>4 DEF Landings
  <2>6. ~Landed
    <3>1. Kept("police").cell \in Cell
      BY Names, KeptTypes
    <3>2. Latest("police").capture_claim # None =>
            Latest("police").capture_claim.cell # Kept("thief").cell
      BY <2>1 DEF ThiefListens
    <3> QED BY <2>5, <3>1, <3>2, ClaimFacts DEF Landed
  <2>7. ~Immured'
    <3>1. Kept("police").barriers = Kept("thief")'.barriers
      BY <2>2 DEF Past, WallsPlaced
    <3>2. ~CapturedAt(Kept("thief")'.barriers, Kept("thief").cell)
      BY <2>1 DEF ThiefListens
    <3> QED BY <2>2, <3>1, <3>2 DEF Immured
  <2> QED BY <2>2, <2>3, <2>5, <2>6, <2>7 DEF Landings
<1>5. CASE \E x, h : Concedes(x, h)
  <2>1. PICK x, h : Concedes(x, h)
    BY <1>5
  <2>2. /\ Kept("police")' = Kept("police") /\ Made("police")' = Made("police")
        /\ Latest("police")' = Latest("police")
        /\ Made("thief")' = Made("thief") + 1 /\ Heard("thief")' = Heard("thief") + 1
        /\ Made("police") = Heard("thief") + 1 /\ Made("thief") = Heard("thief") + 1
    BY <2>1, Names, StillKept DEF Concedes, Acts, Hears
  <2>3. Made("thief")' # Made("police")' /\ Made("thief")' # Heard("thief")'
    BY <2>2, NumbersOf
  <2> QED BY <2>2, <2>3 DEF Landings
<1> QED BY <1>1, <1>2, <1>3, <1>4, <1>5 DEF Moves

-----------------------------------------------------------------------------
(* One entry of a replay *)

LEMMA YesNo == ~No /\ Yes /\ (No \/ No) = No
BY DEF No, Yes

LEMMA CleanTypes ==
  ASSUME NEW c \in [Role -> Cell], NEW b \in SUBSET Cell, NEW t \in Nat, NEW o \in Outcome,
         NEW w \in BOOLEAN
  PROVE  Clean(c, b, t, o, w) \in ReplayState
<1>1. No \in BOOLEAN
  BY DEF No
<1> QED BY <1>1 DEF Clean, ReplayState

LEMMA CleanFields ==
  ASSUME NEW c, NEW b, NEW t, NEW o, NEW w
  PROVE  /\ Clean(c, b, t, o, w).cells = c /\ Clean(c, b, t, o, w).barriers = b
         /\ Clean(c, b, t, o, w).turns = t /\ Clean(c, b, t, o, w).outcome = o
         /\ Clean(c, b, t, o, w).pending = w
         /\ Clean(c, b, t, o, w).disputed = No /\ Clean(c, b, t, o, w).broken = No
BY DEF Clean

LEMMA CleanOutcome ==
  ASSUME NEW c, NEW b, NEW t, NEW o, NEW w, NEW s, s = Clean(c, b, t, o, w), NEW d
  PROVE  [s EXCEPT !.outcome = d] = Clean(c, b, t, d, w)
BY DEF Clean

LEMMA CleanWait ==
  ASSUME NEW c, NEW b, NEW t, NEW o, NEW w, NEW s, s = Clean(c, b, t, o, w), NEW e
  PROVE  [s EXCEPT !.pending = e] = Clean(c, b, t, o, e)
BY DEF Clean

LEMMA CleanTurn ==
  ASSUME NEW c, NEW b, NEW t, NEW o, NEW w, NEW s, s = Clean(c, b, t, o, w), NEW d
  PROVE  [s EXCEPT !.turns = d] = Clean(c, b, d, o, w)
BY DEF Clean

\* The two judgements of an open game.
LEMMA JudgedPoliceClean ==
  ASSUME NEW c, NEW b, NEW t, NEW u, u = Clean(c, b, t, "ongoing", No)
  PROVE  JudgedPolice(u, None)
           = IF CapturedAt(b, c["thief"]) THEN Clean(c, b, t, "capture", No)
             ELSE IF c["police"] = c["thief"] THEN Clean(c, b, t, "capture", Yes)
             ELSE Clean(c, b, t, "ongoing", No)
<1>1. u.cells = c /\ u.barriers = b
  BY CleanFields
<1>2. LawCaptured(u) <=> CapturedAt(b, c["thief"])
  BY <1>1 DEF LawCaptured, CapturedAt
<1>3. JudgedPolice(u, None) = IF LawCaptured(u) THEN [u EXCEPT !.outcome = "capture"]
        ELSE IF u.cells["police"] = u.cells["thief"]
        THEN [u EXCEPT !.outcome = "capture", !.pending = Yes] ELSE u
  BY DEF JudgedPolice, Yes
<1>4. PICK k : k = "capture"
  OBVIOUS
<1>5. [u EXCEPT !.outcome = k] = Clean(c, b, t, k, No)
  BY CleanOutcome
<1>6. [u EXCEPT !.outcome = k, !.pending = Yes] = Clean(c, b, t, k, Yes)
  <2>1. [u EXCEPT !.outcome = k, !.pending = Yes] = [[u EXCEPT !.outcome = k] EXCEPT !.pending = Yes]
    BY DEF Clean
  <2>2. PICK v : v = [u EXCEPT !.outcome = k]
    OBVIOUS
  <2>3. v = Clean(c, b, t, k, No)
    BY <1>5, <2>2
  <2>4. [v EXCEPT !.pending = Yes] = Clean(c, b, t, k, Yes)
    BY <2>3, CleanWait
  <2> QED BY <2>1, <2>2, <2>4
<1> QED BY <1>1, <1>2, <1>3, <1>4, <1>5, <1>6

LEMMA JudgedThiefClean ==
  ASSUME NEW c, NEW b, NEW t, NEW m, m = t + 1, NEW u, u = Clean(c, b, t, "ongoing", No)
  PROVE  JudgedThief(u)
           = IF CapturedAt(b, c["thief"]) THEN Clean(c, b, t, "capture", No)
             ELSE Clean(c, b, m, IF Reached(m) THEN "survival" ELSE "ongoing", No)
<1>1. u.cells = c /\ u.barriers = b /\ u.turns = t
  BY CleanFields
<1>2. LawCaptured(u) <=> CapturedAt(b, c["thief"])
  BY <1>1 DEF LawCaptured, CapturedAt
<1>3. PICK o : o = IF Reached(m) THEN "survival" ELSE "ongoing"
  OBVIOUS
<1>4. JudgedThief(u) = IF LawCaptured(u) THEN [u EXCEPT !.outcome = "capture"]
                       ELSE [u EXCEPT !.turns = m, !.outcome = o]
  BY <1>1, <1>3 DEF JudgedThief, Reached
<1>5. PICK k : k = "capture"
  OBVIOUS
<1>6. [u EXCEPT !.outcome = k] = Clean(c, b, t, k, No)
  BY CleanOutcome
<1>7. [u EXCEPT !.turns = m, !.outcome = o] = Clean(c, b, m, o, No)
  <2>1. [u EXCEPT !.turns = m, !.outcome = o] = [[u EXCEPT !.turns = m] EXCEPT !.outcome = o]
    BY DEF Clean
  <2>2. PICK v : v = [u EXCEPT !.turns = m]
    OBVIOUS
  <2>3. v = Clean(c, b, m, "ongoing", No)
    BY <2>2, CleanTurn
  <2>4. [v EXCEPT !.outcome = o] = Clean(c, b, m, o, No)
    BY <2>3, CleanOutcome
  <2> QED BY <2>1, <2>2, <2>4
<1> QED BY <1>2, <1>3, <1>4, <1>5, <1>6, <1>7

LEMMA CleanOpened ==
  ASSUME NEW c, NEW b, NEW t, NEW s, s = Clean(c, b, t, "ongoing", No)
  PROVE  [s EXCEPT !.outcome = "ongoing", !.pending = FALSE, !.disputed = @ \/ s.pending] = s
<1>1. s.disputed = No /\ s.pending = No
  BY CleanFields
<1>2. (s.disputed \/ s.pending) = No
  BY <1>1 DEF No
<1>3. [s EXCEPT !.outcome = "ongoing", !.pending = FALSE, !.disputed = @ \/ s.pending]
        = [s EXCEPT !.outcome = "ongoing", !.pending = No, !.disputed = No]
  <2>1. PICK f : f = (s.disputed \/ s.pending) /\ f = No
    BY <1>2
  <2>2. [s EXCEPT !.outcome = "ongoing", !.pending = FALSE, !.disputed = @ \/ s.pending]
          = [s EXCEPT !.outcome = "ongoing", !.pending = No, !.disputed = f]
    BY <2>1 DEF No
  <2> QED BY <2>1, <2>2
<1>4. [s EXCEPT !.outcome = "ongoing", !.pending = No, !.disputed = No]
        = [[[s EXCEPT !.outcome = "ongoing"] EXCEPT !.pending = No] EXCEPT !.disputed = No]
  BY DEF Clean
<1>5. [s EXCEPT !.outcome = "ongoing"] = s /\ [s EXCEPT !.pending = No] = s
      /\ [s EXCEPT !.disputed = No] = s
  BY DEF Clean
<1> QED BY <1>3, <1>4, <1>5

\* An action that goes on with an open game.
LEMMA OpenReplay ==
  ASSUME NEW c \in [Role -> Cell], NEW b \in SUBSET Cell, NEW t \in Nat,
         NEW s, s = Clean(c, b, t, "ongoing", No),
         NEW e, e.declared = None, RevealLegal(s, e.payload)
  PROVE  Replayed(e)[s] = IF e.payload.role = "police"
                          THEN JudgedPolice(Applied(s, e.payload), e.declared)
                          ELSE JudgedThief(Applied(s, e.payload))
<1>1. s \in ReplayState
  <2>1. No \in BOOLEAN
    BY DEF No
  <2> QED BY <2>1, CleanTypes DEF Outcome
<1>2. s.outcome = "ongoing" /\ s.pending = No /\ s.broken = No
  BY CleanFields
<1>3. [s EXCEPT !.outcome = "ongoing", !.pending = FALSE, !.disputed = @ \/ s.pending] = s
  BY CleanOpened
<1>4. DeclaredTrue(e)
  BY DEF DeclaredTrue
<1>5. ~s.broken
  BY <1>2, YesNo
<1>6. PICK u : u = [s EXCEPT !.outcome = "ongoing", !.pending = FALSE,
                             !.disputed = @ \/ s.pending]
  OBVIOUS
<1>7. Replayed(e)[s] = IF e.payload.role = "police"
                       THEN JudgedPolice(Applied(u, e.payload), e.declared)
                       ELSE JudgedThief(Applied(u, e.payload))
  BY <1>1, <1>2, <1>4, <1>5, <1>6 DEF Replayed
<1> QED BY <1>3, <1>6, <1>7

PoliceTold(c, b, t, action) ==
  LET n == Landing(action, c["police"])
      w == b \cup WallCells(action)
      d == [c EXCEPT !["police"] = n]
  IN  IF CapturedAt(w, c["thief"]) THEN Clean(d, w, t, "capture", No)
      ELSE IF n = c["thief"] THEN Clean(d, w, t, "capture", Yes)
      ELSE Clean(d, w, t, "ongoing", No)

ThiefTold(c, b, t, action) ==
  LET n == Landing(action, c["thief"])
      d == [c EXCEPT !["thief"] = n]
  IN  IF CapturedAt(b, n) THEN Clean(d, b, t, "capture", No)
      ELSE Clean(d, b, t + 1, IF Reached(t + 1) THEN "survival" ELSE "ongoing", No)

LEMMA PoliceReplay ==
  ASSUME NEW c \in [Role -> Cell], NEW b \in SUBSET Cell, NEW t \in Nat,
         NEW s, s = Clean(c, b, t, "ongoing", No),
         NEW x \in SealedRec, x.payload.role = "police", RevealLegal(s, x.payload)
  PROVE  Replayed(OwnEntry(x))[s] = PoliceTold(c, b, t, x.payload.action)
<1> DEFINE a == x.payload.action
<1>a. PICK n : n = Landing(a, c["police"])
  OBVIOUS
<1>b. PICK w : w = b \cup WallCells(a)
  OBVIOUS
<1>c. PICK d : d = [c EXCEPT !["police"] = n]
  OBVIOUS
<1>1. PICK e : e = OwnEntry(x)
  OBVIOUS
<1>2. e.payload = x.payload /\ e.declared = None
  BY <1>1 DEF OwnEntry
<1>3. d["police"] = n /\ d["thief"] = c["thief"]
  BY <1>c, Names
<1>4. PICK u : u = Clean(d, w, t, "ongoing", No)
  OBVIOUS
<1>5. s.cells = c /\ s.barriers = b
  BY CleanFields
<1>6. Applied(s, x.payload) = u
  <2>1. CASE a.type = "barrier"
    <3>1. w = b \cup {a.cell}
      BY <1>b, <2>1 DEF WallCells
    <3>2. n = c["police"]
      BY <1>a, <2>1 DEF Landing
    <3>3. d = c
      BY <1>c, <3>2
    <3>4. Applied(s, x.payload) = [s EXCEPT !.barriers = s.barriers \cup {a.cell}]
      BY <2>1 DEF Applied
    <3>5. [s EXCEPT !.barriers = w] = Clean(c, w, t, "ongoing", No)
      BY DEF Clean
    <3> QED BY <1>4, <1>5, <3>1, <3>3, <3>4, <3>5
  <2>2. CASE a.type # "barrier"
    <3>1. n = AppliedTo(a.move, c["police"]) /\ w = b
      BY <1>a, <1>b, <2>2 DEF Landing, WallCells
    <3>2. Applied(s, x.payload)
            = [s EXCEPT !.cells = [s.cells EXCEPT !["police"] = AppliedTo(a.move, s.cells["police"])]]
      BY <2>2 DEF Applied
    <3>3. [s EXCEPT !.cells = d] = Clean(d, b, t, "ongoing", No)
      BY DEF Clean
    <3> QED BY <1>4, <1>5, <1>c, <3>1, <3>2, <3>3
  <2> QED BY <2>1, <2>2
<1>7. Replayed(e)[s] = JudgedPolice(u, None)
  BY <1>2, <1>6, OpenReplay
<1>9. JudgedPolice(u, None)
        = IF CapturedAt(w, d["thief"]) THEN Clean(d, w, t, "capture", No)
          ELSE IF d["police"] = d["thief"] THEN Clean(d, w, t, "capture", Yes)
          ELSE Clean(d, w, t, "ongoing", No)
  BY <1>4, JudgedPoliceClean
<1> QED BY <1>1, <1>a, <1>b, <1>c, <1>3, <1>7, <1>9 DEF PoliceTold

LEMMA ThiefReplay ==
  ASSUME NEW c \in [Role -> Cell], NEW b \in SUBSET Cell, NEW t \in Nat,
         NEW s, s = Clean(c, b, t, "ongoing", No),
         NEW x \in SealedRec, x.payload.role = "thief", RevealLegal(s, x.payload),
         x.payload.action.type # "barrier"
  PROVE  Replayed(OwnEntry(x))[s] = ThiefTold(c, b, t, x.payload.action)
<1> DEFINE a == x.payload.action
<1>a. PICK n : n = Landing(a, c["thief"])
  OBVIOUS
<1>c. PICK d : d = [c EXCEPT !["thief"] = n]
  OBVIOUS
<1>1. PICK e : e = OwnEntry(x)
  OBVIOUS
<1>2. e.payload = x.payload /\ e.declared = None
  BY <1>1 DEF OwnEntry
<1>3. d["thief"] = n
  BY <1>c, Names
<1>4. PICK u : u = Clean(d, b, t, "ongoing", No)
  OBVIOUS
<1>5. s.cells = c
  BY CleanFields
<1>6. Applied(s, x.payload) = u
  <2>1. n = AppliedTo(a.move, c["thief"])
    BY <1>a DEF Landing
  <2>2. Applied(s, x.payload)
          = [s EXCEPT !.cells = [s.cells EXCEPT !["thief"] = AppliedTo(a.move, s.cells["thief"])]]
    BY DEF Applied
  <2>3. [s EXCEPT !.cells = d] = Clean(d, b, t, "ongoing", No)
    BY DEF Clean
  <2> QED BY <1>4, <1>5, <1>c, <2>1, <2>2, <2>3
<1>7. Replayed(e)[s] = JudgedThief(u)
  BY <1>2, <1>6, Names, OpenReplay
<1>9. PICK m : m = t + 1
  OBVIOUS
<1>10. JudgedThief(u)
        = IF CapturedAt(b, d["thief"]) THEN Clean(d, b, t, "capture", No)
          ELSE Clean(d, b, m, IF Reached(m) THEN "survival" ELSE "ongoing", No)
  BY ONLY <1>4, <1>9, JudgedThiefClean
<1>11. ThiefTold(c, b, t, a)
         = IF CapturedAt(b, n) THEN Clean(d, b, t, "capture", No)
           ELSE Clean(d, b, m, IF Reached(m) THEN "survival" ELSE "ongoing", No)
  BY <1>a, <1>c, <1>9 DEF ThiefTold
<1>12. CapturedAt(b, d["thief"]) <=> CapturedAt(b, n)
  BY <1>3
<1> QED BY <1>1, <1>7, <1>10, <1>11, <1>12

\* The thief's closure makes an end final.
LEMMA ClosureReplay ==
  ASSUME NEW c \in [Role -> Cell], NEW b \in SUBSET Cell, NEW t \in Nat, NEW w \in BOOLEAN,
         NEW s, s = Clean(c, b, t, "capture", w),
         NEW x \in SealedRec, x.payload.role = "thief", x.payload.action = MoveAction("STAY")
  PROVE  Replayed(OwnEntry(x))[s] = Clean(c, b, t, "capture", No)
<1>1. PICK e : e = OwnEntry(x)
  OBVIOUS
<1>2. e.payload = x.payload /\ e.declared = None
  BY <1>1 DEF OwnEntry
<1>3. s \in ReplayState
  BY CleanTypes DEF Outcome
<1>4. s.broken = No /\ s.outcome = "capture"
  BY DEF Clean
<1>5. DeclaredTrue(e)
  BY <1>2 DEF DeclaredTrue
<1>6. Replayed(e)[s] = [s EXCEPT !.pending = No]
  BY <1>2, <1>3, <1>4, <1>5, Names DEF Replayed, No
<1>7. [s EXCEPT !.pending = No] = Clean(c, b, t, "capture", No)
  BY DEF Clean
<1> QED BY <1>1, <1>6, <1>7

-----------------------------------------------------------------------------
(* A half-turn reads the same from the sender's record and from the receiver's *)

LEMMA AppliedCells ==
  ASSUME NEW s \in ReplayState, NEW payload, NEW o, DOMAIN o = DOMAIN s
  PROVE  "cells" \in DOMAIN Applied(o, payload)
<1>1. DOMAIN Applied(o, payload) = DOMAIN o
  BY DEF Applied
<1>2. "cells" \in DOMAIN s
  BY DEF ReplayState
<1> QED BY <1>1, <1>2

LEMMA JudgedCells ==
  ASSUME NEW u, "cells" \in DOMAIN u
  PROVE  JudgedPolice(u, None).cells = u.cells
<1>1. [u EXCEPT !.outcome = "capture"].cells = u.cells
  OBVIOUS
<1>2. [u EXCEPT !.outcome = "capture", !.pending = TRUE].cells = u.cells
  OBVIOUS
<1>3. \/ JudgedPolice(u, None) = [u EXCEPT !.outcome = "capture"]
      \/ JudgedPolice(u, None) = [u EXCEPT !.outcome = "capture", !.pending = TRUE]
      \/ JudgedPolice(u, None) = u
  BY DEF JudgedPolice
<1> QED BY <1>1, <1>2, <1>3

LEMMA JudgedAlike ==
  ASSUME NEW u, NEW h \in HeardRec, "cells" \in DOMAIN u,
         h.capture_claim \in {None, Claim(JudgedPolice(u, None).cells["police"])},
         JudgedPolice(u, None).cells["police"] \in Cell
  PROVE  JudgedPolice(u, h) = JudgedPolice(u, None)
<1>1. h # None
  BY DEF HeardRec, None
<1>2. JudgedPolice(u, None).cells = u.cells
  BY JudgedCells
<1>3. h.capture_claim = None \/ h.capture_claim.cell = u.cells["police"]
  BY <1>2, ClaimFacts
<1> QED BY <1>1, <1>3 DEF JudgedPolice

LEMMA HeardAsSealed ==
  ASSUME NEW s \in ReplayState, NEW h \in HeardRec, NEW r \in SealedRec, h.commit = r,
         h.barrier_placed = WallOf(r.payload.action),
         Replayed(OwnEntry(r))[s].cells["police"] \in Cell,
         r.payload.role = "police" =>
           h.capture_claim \in {None, Claim(Replayed(OwnEntry(r))[s].cells["police"])}
  PROVE  Replayed(TheirEntry(h))[s] = Replayed(OwnEntry(r))[s]
<1>1. PICK mine, heard : mine = OwnEntry(r) /\ heard = TheirEntry(h)
  OBVIOUS
<1>2. /\ mine.payload = r.payload /\ mine.declared = None
      /\ heard.payload = r.payload /\ heard.declared = h
  BY <1>1 DEF OwnEntry, TheirEntry
<1>3. DeclaredTrue(mine) /\ DeclaredTrue(heard)
  BY <1>2 DEF DeclaredTrue, WallOf
<1>4. PICK o : o = [s EXCEPT !.outcome = "ongoing", !.pending = FALSE,
                             !.disputed = @ \/ s.pending]
  OBVIOUS
<1>5. PICK u : u = Applied(o, r.payload)
  OBVIOUS
<1>6. "cells" \in DOMAIN u
  <2>1. DOMAIN o = DOMAIN s
    BY <1>4
  <2> QED BY <1>5, <2>1, AppliedCells
<1>7. PICK rest, over : /\ rest = [s EXCEPT !.broken = TRUE]
                        /\ over = [s EXCEPT !.pending = FALSE]
  OBVIOUS
<1>8. Replayed(mine)[s] =
        IF s.broken THEN rest
        ELSE IF s.outcome # "ongoing" /\ r.payload.role = "thief"
                  /\ r.payload.action = MoveAction("STAY")
        THEN over
        ELSE IF (s.outcome # "ongoing" /\ ~s.pending) \/ ~RevealLegal(s, r.payload)
        THEN rest
        ELSE IF r.payload.role = "police" THEN JudgedPolice(u, None) ELSE JudgedThief(u)
  BY <1>2, <1>3, <1>4, <1>5, <1>7 DEF Replayed
<1>9. Replayed(heard)[s] =
        IF s.broken THEN rest
        ELSE IF s.outcome # "ongoing" /\ r.payload.role = "thief"
                  /\ r.payload.action = MoveAction("STAY")
        THEN over
        ELSE IF (s.outcome # "ongoing" /\ ~s.pending) \/ ~RevealLegal(s, r.payload)
        THEN rest
        ELSE IF r.payload.role = "police" THEN JudgedPolice(u, h) ELSE JudgedThief(u)
  BY <1>2, <1>3, <1>4, <1>5, <1>7 DEF Replayed
<1>10. CASE r.payload.role = "police" /\ Replayed(mine)[s] = JudgedPolice(u, None)
  <2>1. JudgedPolice(u, h) = JudgedPolice(u, None)
    BY <1>1, <1>6, <1>10, JudgedAlike
  <2> QED BY <1>1, <1>8, <1>9, <2>1
<1>11. CASE ~(r.payload.role = "police" /\ Replayed(mine)[s] = JudgedPolice(u, None))
  BY <1>1, <1>8, <1>9, <1>11
<1> QED BY <1>10, <1>11

-----------------------------------------------------------------------------
(* The logs of an untorn game *)

LEMMA AlignedKept ==
  ASSUME Types, Untorn, Past, NEW p \in Role
  PROVE  Aligned(p, Kept(p).records, Kept(p).their)
<1>1. PICK q \in Role : q = Rival(p)
  BY RivalFacts
<1>2. Fit(p, Made(p), Heard(p))
  <2>1. Order
    BY DEF Untorn
  <2> QED BY <2>1, Names, NumbersOf DEF Fit, Order
<1>3. ASSUME NEW i \in 1 .. Made(p)
      PROVE  Kept(p).records[i].payload.step = i /\ Kept(p).records[i].payload.role = p
  BY DEF Past, Numbered
<1>4. ASSUME NEW i \in 1 .. Heard(p)
      PROVE  /\ Kept(p).their[i].commit.payload.step = i
             /\ Kept(p).their[i].commit.payload.role = q
  <2>1. i \in 1 .. Made(q)
    <3>1. Heard(p) <= Made(q)
      BY <1>1, Names DEF Untorn, Order
    <3> QED BY <1>1, <3>1, KeptTypes
  <2>2. Kept(p).their[i].commit = Kept(q).records[i]
    BY <1>1 DEF Past, Copied
  <2>3. Kept(q).records[i].payload.step = i /\ Kept(q).records[i].payload.role = q
    BY <2>1 DEF Past, Numbered
  <2> QED BY <2>2, <2>3
<1> QED BY <1>1, <1>2, <1>3, <1>4 DEF Aligned, Made, Heard

LEMMA AlignedOwn ==
  ASSUME NEW p \in Role, NEW mine \in Seq(SealedRec), NEW live \in Seq(HeardRec),
         Aligned(p, mine, live), NEW r \in SealedRec,
         r.payload.step = Len(mine) + 1, r.payload.role = p,
         Fit(p, Len(mine) + 1, Len(live))
  PROVE  Aligned(p, Append(mine, r), live)
<1>1. PICK b : b = Append(mine, r)
  OBVIOUS
<1>2. PICK n \in Nat : n = Len(mine)
  BY LenProperties
<1>3. Len(b) = n + 1 /\ b[n + 1] = r /\ \A i \in 1 .. n : b[i] = mine[i]
  BY <1>1, <1>2, AppendProperties
<1>4. ASSUME NEW i \in 1 .. n + 1
      PROVE  b[i].payload.step = i /\ b[i].payload.role = p
  <2>1. CASE i = n + 1
    BY <1>2, <1>3, <2>1
  <2>2. CASE i # n + 1
    <3>1. i \in 1 .. n
      BY <1>2, <2>2
    <3>2. b[i] = mine[i] /\ mine[i].payload.step = i /\ mine[i].payload.role = p
      BY <1>2, <1>3, <3>1 DEF Aligned
    <3> QED BY <3>2
  <2> QED BY <2>1, <2>2
<1> QED BY <1>1, <1>2, <1>3, <1>4 DEF Aligned

LEMMA AlignedTheirs ==
  ASSUME NEW p \in Role, NEW mine \in Seq(SealedRec), NEW live \in Seq(HeardRec),
         Aligned(p, mine, live), NEW h \in HeardRec,
         h.commit.payload.step = Len(live) + 1, h.commit.payload.role = Rival(p),
         Fit(p, Len(mine), Len(live) + 1)
  PROVE  Aligned(p, mine, Append(live, h))
<1>1. PICK b : b = Append(live, h)
  OBVIOUS
<1>2. PICK n \in Nat : n = Len(live)
  BY LenProperties
<1>3. Len(b) = n + 1 /\ b[n + 1] = h /\ \A i \in 1 .. n : b[i] = live[i]
  BY <1>1, <1>2, AppendProperties
<1>4. ASSUME NEW i \in 1 .. n + 1
      PROVE  b[i].commit.payload.step = i /\ b[i].commit.payload.role = Rival(p)
  <2>1. CASE i = n + 1
    BY <1>2, <1>3, <2>1
  <2>2. CASE i # n + 1
    <3>1. i \in 1 .. n
      BY <1>2, <2>2
    <3>2. /\ b[i] = live[i] /\ live[i].commit.payload.step = i
          /\ live[i].commit.payload.role = Rival(p)
      BY <1>2, <1>3, <3>1 DEF Aligned
    <3> QED BY <3>2
  <2> QED BY <2>1, <2>2
<1> QED BY <1>1, <1>2, <1>3, <1>4 DEF Aligned

-----------------------------------------------------------------------------
(* The joint game, one half-turn further *)

LEMMA JointTypes ==
  ASSUME Types
  PROVE  /\ Cells \in [Role -> Cell] /\ Kept("police").barriers \in SUBSET Cell
         /\ Kept("thief").turns_completed \in Nat /\ JointPending \in BOOLEAN
         /\ JointOutcome \in Outcome /\ Joint \in ReplayState
<1>1. /\ Cells \in [Role -> Cell] /\ Kept("police").barriers \in SUBSET Cell
      /\ Kept("thief").turns_completed \in Nat
  BY Names, KeptTypes DEF Cells
<1>2. JointPending \in BOOLEAN
  BY DEF JointPending, No, Yes
<1>3. JointOutcome \in Outcome
  BY DEF JointOutcome, Outcome
<1> QED BY <1>1, <1>2, <1>3, CleanTypes DEF Joint

\* A game somebody has still to move in.
LEMMA OpenJoint ==
  ASSUME IF ThiefLast THEN ~Conceded /\ ~Claimed ELSE Begun => ~Immured /\ ~Landed
  PROVE  Joint = Clean(Cells, Kept("police").barriers, Kept("thief").turns_completed,
                       "ongoing", No)
<1>1. JointOutcome = "ongoing" /\ JointPending = No
  BY DEF JointOutcome, JointPending
<1> QED BY <1>1 DEF Joint

LEMMA MovedCells ==
  ASSUME NEW p \in Role, Kept(Rival(p))' = Kept(Rival(p))
  PROVE  Cells' = [Cells EXCEPT ![p] = Kept(p)'.cell]
<1>1. PICK q \in Role : q = Rival(p) /\ q # p /\ \A r \in Role : r = p \/ r = q
  BY RivalFacts
<1>2. Cells = [r \in Role |-> Kept(r).cell]
  BY DEF Cells
<1>3. Cells' = [r \in Role |-> Kept(r)'.cell]
  BY DEF Cells
<1> QED BY <1>1, <1>2, <1>3

LEMMA JointPolice ==
  ASSUME Types, Types', NEW x, PoliceActs(x)
  PROVE  Joint' = Replayed(OwnEntry(x))[Joint]
<1>1. /\ Acts("police", x) /\ Kept("thief")' = Kept("thief") /\ Made("thief")' = Made("thief")
      /\ Made("police") = Heard("thief") /\ Made("thief") = Heard("thief") + 1
      /\ ~Conceded /\ ~Claimed
  BY Names, StillKept DEF PoliceActs
<1>2. ThiefLast /\ ~ThiefLast' /\ Begun'
  BY <1>1, NumbersOf DEF ThiefLast, Begun, Acts
<1>3. PICK s : s = Joint /\ s = Clean(Cells, Kept("police").barriers,
                                       Kept("thief").turns_completed, "ongoing", No)
  BY <1>1, <1>2, OpenJoint
<1>4. PICK c, b, t : /\ c = Cells /\ b = Kept("police").barriers
                     /\ t = Kept("thief").turns_completed
  OBVIOUS
<1>5. c \in [Role -> Cell] /\ b \in SUBSET Cell /\ t \in Nat
  BY <1>4, JointTypes
<1>6. c["police"] = Kept("police").cell /\ c["thief"] = Kept("thief").cell
  BY <1>4, Names DEF Cells
<1>7. x \in SealedRec /\ x.payload.role = "police"
  BY <1>1 DEF Acts
<1>8. RevealLegal(s, x.payload)
  <2>1. s.cells = c /\ s.barriers = b
    BY <1>3, <1>4, CleanFields
  <2> QED BY <1>4, <1>6, <1>7, <2>1 DEF PoliceActs, RevealLegal
<1>9. PICK n : n = Landing(x.payload.action, c["police"])
  OBVIOUS
<1>10. PICK w : w = b \cup WallCells(x.payload.action)
  OBVIOUS
<1>11. PICK d : d = [c EXCEPT !["police"] = n]
  OBVIOUS
<1>12. Replayed(OwnEntry(x))[s]
         = IF CapturedAt(w, c["thief"]) THEN Clean(d, w, t, "capture", No)
           ELSE IF n = c["thief"] THEN Clean(d, w, t, "capture", Yes)
           ELSE Clean(d, w, t, "ongoing", No)
  <2>1. s = Clean(c, b, t, "ongoing", No)
    BY <1>3, <1>4
  <2>2. Replayed(OwnEntry(x))[s] = PoliceTold(c, b, t, x.payload.action)
    BY <2>1, <1>5, <1>7, <1>8, PoliceReplay
  <2> QED BY <2>2, <1>9, <1>10, <1>11 DEF PoliceTold
<1>13. Kept("police")'.cell = n
  BY <1>1, <1>6, <1>9 DEF Acts
<1>14. Kept("police")'.barriers = w
  BY <1>4, <1>10 DEF PoliceActs, WallCells
<1>15. Cells' = d
  BY <1>1, <1>4, <1>11, <1>13, Names, MovedCells
<1>16. Immured' <=> CapturedAt(w, c["thief"])
  <2>1. Immured' = CapturedAt(Kept("police")'.barriers, Kept("thief")'.cell)
    BY DEF Immured, CapturedAt
  <2> QED BY <1>1, <1>6, <1>14, <2>1
<1>17. Landed' <=> n = c["thief"]
  BY <1>1, <1>6, <1>13 DEF Landed
<1>18. Joint' = Clean(d, w, t, JointOutcome', JointPending')
  BY <1>1, <1>4, <1>14, <1>15 DEF Joint
<1>19. /\ JointOutcome' = IF CapturedAt(w, c["thief"]) \/ n = c["thief"] THEN "capture" ELSE "ongoing"
       /\ JointPending' = IF ~CapturedAt(w, c["thief"]) /\ n = c["thief"] THEN Yes ELSE No
  BY <1>2, <1>16, <1>17 DEF JointOutcome, JointPending, Yes, No
<1> QED BY <1>3, <1>12, <1>18, <1>19

LEMMA JointThief ==
  ASSUME Types, Types', Past, Landings, NEW x, ThiefActs(x)
  PROVE  Joint' = Replayed(OwnEntry(x))[Joint]
<1>1. /\ Acts("thief", x) /\ Kept("police")' = Kept("police") /\ Made("police")' = Made("police")
      /\ Made("police") = Heard("thief") /\ Made("thief") = Heard("thief")
      /\ Kept("thief").turns_completed = Made("thief")
  BY Names, StillKept DEF ThiefActs
<1>2. ~ThiefLast /\ ThiefLast'
  BY <1>1, NumbersOf DEF ThiefLast, Acts
<1>3. PICK s : s = Joint /\ s = Clean(Cells, Kept("police").barriers,
                                       Kept("thief").turns_completed, "ongoing", No)
  <2>1. Begun => ~Immured /\ ~Landed
    BY <1>1 DEF Landings, Begun
  <2> QED BY <1>2, <2>1, OpenJoint
<1>4. PICK c, b, t : /\ c = Cells /\ b = Kept("police").barriers
                     /\ t = Kept("thief").turns_completed
  OBVIOUS
<1>5. c \in [Role -> Cell] /\ b \in SUBSET Cell /\ t \in Nat
  BY <1>4, JointTypes
<1>6. c["thief"] = Kept("thief").cell
  BY <1>4, Names DEF Cells
<1>7. x \in SealedRec /\ x.payload.role = "thief" /\ x.payload.action.type # "barrier"
  BY <1>1 DEF Acts
<1>A. Kept("thief").barriers = b /\ Kept("thief")'.barriers = b
  BY <1>1, <1>4 DEF Past, WallsPlaced, ThiefActs
<1>8. RevealLegal(s, x.payload)
  <2>1. s.cells = c /\ s.barriers = b
    BY <1>3, <1>4, CleanFields
  <2>2. MoveLegal(b, c["thief"], x.payload.action.move)
    BY <1>6, <1>A DEF ThiefActs
  <2> QED BY <1>7, <2>1, <2>2 DEF RevealLegal
<1>9. PICK n : n = Landing(x.payload.action, c["thief"])
  OBVIOUS
<1>11. PICK d : d = [c EXCEPT !["thief"] = n]
  OBVIOUS
<1>12. Replayed(OwnEntry(x))[s]
         = IF CapturedAt(b, n) THEN Clean(d, b, t, "capture", No)
           ELSE Clean(d, b, t + 1, IF Reached(t + 1) THEN "survival" ELSE "ongoing", No)
  <2>1. s = Clean(c, b, t, "ongoing", No)
    BY <1>3, <1>4
  <2>2. Replayed(OwnEntry(x))[s] = ThiefTold(c, b, t, x.payload.action)
    BY <2>1, <1>5, <1>7, <1>8, ThiefReplay
  <2> QED BY <2>2, <1>9, <1>11 DEF ThiefTold
<1>13. Kept("thief")'.cell = n
  BY <1>1, <1>6, <1>9 DEF Acts
<1>14. Kept("police")'.barriers = b
  BY <1>1, <1>4
<1>15. Cells' = d
  BY <1>1, <1>4, <1>11, <1>13, Names, MovedCells
<1>16. Latest("thief")' # None
  BY <1>1 DEF Acts
<1>17. \/ /\ Conceded' /\ CapturedAt(b, n) /\ Kept("thief")'.turns_completed = t
       \/ /\ ~Conceded' /\ ~CapturedAt(b, n) /\ Kept("thief")'.turns_completed = t + 1
          /\ Claimed' <=> Reached(t + 1)
  BY <1>4, <1>13, <1>16, <1>A DEF ThiefActs, Conceded, Claimed
<1>18. Joint' = Clean(d, b, Kept("thief")'.turns_completed, JointOutcome', JointPending')
  BY <1>14, <1>15 DEF Joint
<1>19. /\ JointPending' = No
       /\ JointOutcome' = IF Conceded' THEN "capture" ELSE IF Claimed' THEN "survival"
                          ELSE "ongoing"
  BY <1>2 DEF JointOutcome, JointPending, Yes, No
<1>20. CASE CapturedAt(b, n)
  BY <1>3, <1>12, <1>17, <1>18, <1>19, <1>20
<1>21. CASE ~CapturedAt(b, n)
  <2>1. JointOutcome' = IF Reached(t + 1) THEN "survival" ELSE "ongoing"
    BY <1>17, <1>19, <1>21
  <2> QED BY <1>3, <1>12, <1>17, <1>18, <1>19, <1>21, <2>1
<1> QED BY <1>20, <1>21

LEMMA JointConcedes ==
  ASSUME Types, Types', Past, Past', Landings, NEW x, NEW h, Concedes(x, h)
  PROVE  Joint' = Replayed(OwnEntry(x))[Joint]
<1>1. /\ Acts("thief", x) /\ Kept("police")' = Kept("police") /\ Made("police")' = Made("police")
      /\ Made("police") = Heard("thief") + 1 /\ Made("thief") = Heard("thief") + 1
      /\ Heard("thief")' = Heard("thief") + 1
      /\ Kept("thief")'.cell = Kept("thief").cell
      /\ Kept("thief")'.turns_completed = Kept("thief").turns_completed
  BY Names, StillKept DEF Concedes, Hears
<1>2. ~ThiefLast /\ ThiefLast' /\ Begun
  BY <1>1, NumbersOf DEF ThiefLast, Acts, Begun
<1>3. Immured \/ Landed
  <2>1. Kept("thief")'.barriers = Kept("police").barriers
    BY <1>1 DEF Past, WallsPlaced
  <2>2. CASE CapturedAt(Kept("thief")'.barriers, Kept("thief").cell)
    BY <2>1, <2>2 DEF Immured
  <2>3. CASE Latest("police").capture_claim # None
             /\ Latest("police").capture_claim.cell = Kept("thief").cell
    <3>1. Latest("police").capture_claim \in {None, Claim(Kept("police").cell)}
      BY <1>2 DEF Landings, Begun
    <3>2. Kept("police").cell \in Cell
      BY Names, KeptTypes
    <3> QED BY <2>3, <3>1, <3>2, ClaimFacts DEF Landed
  <2> QED BY <2>2, <2>3 DEF Concedes
<1>4. PICK c, b, t, w : /\ c = Cells /\ b = Kept("police").barriers
                        /\ t = Kept("thief").turns_completed /\ w = JointPending
  OBVIOUS
<1>5. c \in [Role -> Cell] /\ b \in SUBSET Cell /\ t \in Nat /\ w \in BOOLEAN
  BY <1>4, JointTypes
<1>6. PICK s : s = Joint /\ s = Clean(c, b, t, "capture", w)
  <2>1. JointOutcome = "capture"
    BY <1>2, <1>3 DEF JointOutcome
  <2> QED BY <1>4, <2>1 DEF Joint
<1>7. x \in SealedRec /\ x.payload.role = "thief" /\ x.payload.action = MoveAction("STAY")
  BY <1>1 DEF Acts, Concedes
<1>8. Replayed(OwnEntry(x))[s] = Clean(c, b, t, "capture", No)
  BY <1>5, <1>6, <1>7, ClosureReplay
<1>9. Cells' = c
  <2>1. Cells' = [Cells EXCEPT !["thief"] = Kept("thief").cell]
    BY <1>1, Names, MovedCells
  <2>2. Cells["thief"] = Kept("thief").cell
    BY Names DEF Cells
  <2> QED BY <1>4, <1>5, <2>1, <2>2
<1>10. Conceded'
  BY <1>1 DEF Concedes, Conceded, Acts
<1>11. JointOutcome' = "capture" /\ JointPending' = No
  BY <1>2, <1>10 DEF JointOutcome, JointPending
<1>12. Joint' = Clean(c, b, t, JointOutcome', JointPending')
  BY <1>1, <1>4, <1>9 DEF Joint
<1> QED BY <1>6, <1>8, <1>11, <1>12

\* Hearing changes nothing of it, nor does rest.
LEMMA JointStays ==
  ASSUME \A r \in Role : Made(r)' = Made(r) /\ Kept(r)'.cell = Kept(r).cell,
         Kept("police")'.barriers = Kept("police").barriers,
         Kept("thief")'.turns_completed = Kept("thief").turns_completed,
         Latest("thief")' = Latest("thief")
  PROVE  Joint' = Joint
<1>1. Made("police")' = Made("police") /\ Made("thief")' = Made("thief")
      /\ Kept("police")'.cell = Kept("police").cell /\ Kept("thief")'.cell = Kept("thief").cell
  BY Names
<1>2. (ThiefLast' <=> ThiefLast) /\ (Begun' <=> Begun)
  BY <1>1 DEF ThiefLast, Begun
<1>3. (Immured' <=> Immured) /\ (Landed' <=> Landed)
  <2>1. Immured' = CapturedAt(Kept("police")'.barriers, Kept("thief")'.cell)
    BY DEF Immured, CapturedAt
  <2>2. Immured = CapturedAt(Kept("police").barriers, Kept("thief").cell)
    BY DEF Immured
  <2> QED BY <1>1, <2>1, <2>2 DEF Landed
<1>4. (Conceded' <=> Conceded) /\ (Claimed' <=> Claimed)
  BY DEF Conceded, Claimed
<1>5. JointOutcome' = JointOutcome /\ JointPending' = JointPending
  BY <1>2, <1>3, <1>4 DEF JointOutcome, JointPending
<1>6. Cells' = Cells
  BY <1>1, Names DEF Cells
<1> QED BY <1>5, <1>6 DEF Joint

-----------------------------------------------------------------------------
(* Both replays follow the joint game *)

LEMMA RetoldSame ==
  ASSUME NEW r \in Role, Kept(r)'.records = Kept(r).records, Kept(r)'.their = Kept(r).their
  PROVE  Retold(r)' = Retold(r)
BY DEF Retold

LEMMA FrontCases ==
  ASSUME NEW p \in Role, NEW q, q = Rival(p)
  PROVE  /\ Heard(p) = Made(q) => Front(p) = Retold(p)
         /\ Heard(p) # Made(q) =>
              Front(p) = Replayed(OwnEntry(Kept(q).records[Made(q)]))[Retold(p)]
         /\ Heard(p)' = Made(q)' => Front(p)' = Retold(p)'
         /\ Heard(p)' # Made(q)' =>
              Front(p)' = Replayed(OwnEntry(Kept(q)'.records[Made(q)']))[Retold(p)']
BY DEF Front

LEMMA OwnReplay ==
  ASSUME Types, Untorn, Past, NEW p \in Role, NEW x, Acts(p, x), Deaf(p),
         Fit(p, Made(p) + 1, Heard(p))
  PROVE  Retold(p)' = Replayed(OwnEntry(x))[Retold(p)]
<1>1. PICK mine \in Seq(SealedRec), live \in Seq(HeardRec) :
        mine = Kept(p).records /\ live = Kept(p).their
  BY KeptRecords
<1>2. Len(mine) = Made(p) /\ Len(live) = Heard(p)
  BY <1>1 DEF Made, Heard
<1>3. x \in SealedRec /\ x.payload.step = Made(p) + 1 /\ x.payload.role = p
  BY DEF Acts
<1>4. Aligned(p, mine, live)
  BY <1>1, AlignedKept
<1>5. Aligned(p, Append(mine, x), live)
  BY <1>2, <1>3, <1>4, AlignedOwn
<1>6. Reconstruct(Entries(Append(mine, x), live))
        = Replayed(OwnEntry(x))[Reconstruct(Entries(mine, live))]
  BY <1>3, <1>4, <1>5, ReplayOwn
<1>7. Kept(p)'.records = Append(mine, x) /\ Kept(p)'.their = live
  BY <1>1 DEF Acts, Deaf
<1> QED BY <1>1, <1>6, <1>7 DEF Retold

LEMMA ActsReplay ==
  ASSUME Types, Untorn, Past, Replays, NEW p \in Role, NEW q \in Role, q = Rival(p),
         NEW x, Acts(p, x), Deaf(p), Still(q), Heard(p) = Made(q), Heard(q) = Made(p),
         Fit(p, Made(p) + 1, Heard(p)),
         Joint' = Replayed(OwnEntry(x))[Joint], Joint' \in ReplayState
  PROVE  Replays'
<1>1. p = Rival(q) /\ \A r \in Role : r = p \/ r = q
  BY RivalFacts
<1>2. Retold(p) = Joint /\ Retold(q) = Joint /\ Joint \in ReplayState
  BY <1>1, FrontCases DEF Replays
<1>3. Retold(p)' = Joint'
  BY <1>2, OwnReplay
<1>4. Kept(q)' = Kept(q) /\ Made(q)' = Made(q) /\ Heard(q)' = Heard(q) /\ Heard(p)' = Heard(p)
  BY StillKept DEF Deaf
<1>5. Front(p)' = Joint'
  BY <1>3, <1>4, FrontCases
<1>6. Retold(q)' = Joint
  BY <1>2, <1>4, RetoldSame
<1>7. Made(p)' # Heard(q)' /\ Kept(p)'.records[Made(p)'] = x
  <2>1. Made(p) \in Nat /\ Made(p)' = Made(p) + 1 /\ Kept(p)'.records[Made(p) + 1] = x
    BY AppendedRecords
  <2> QED BY <1>4, <2>1
<1>8. Front(q)' = Joint'
  BY <1>1, <1>6, <1>7, FrontCases
<1> QED BY <1>1, <1>2, <1>3, <1>5, <1>6, <1>8 DEF Replays

\* What the receiver makes of the half-turn under way.
LEMMA TheirReplay ==
  ASSUME Types, Untorn, Past, Landings, Replays, NEW p \in Role, NEW q \in Role, q = Rival(p),
         NEW h, Hears(p, h), Made(q) = Heard(p) + 1
  PROVE  /\ h \in HeardRec /\ h.commit.payload.step = Heard(p) + 1
         /\ h.commit.payload.role = q
         /\ Replayed(TheirEntry(h))[Retold(p)] = Joint
<1>1. Made(q) \in Nat /\ Heard(p) \in Nat /\ Made(q) > 0 /\ Made(q) \in 1 .. Made(q)
      /\ Heard(p) # Made(q)
  BY KeptTypes
<1>2. PICK r : r = Kept(q).records[Made(q)]
  OBVIOUS
<1>3. r \in SealedRec
  BY <1>1, <1>2, KeptRecords DEF Made
<1>4. r.payload.step = Made(q) /\ r.payload.role = q
  BY <1>1, <1>2 DEF Past, Numbered
<1>5. h.commit = r /\ h.barrier_placed = WallOf(r.payload.action) /\ h \in HeardRec
      /\ h.capture_claim = Latest(q).capture_claim
  BY <1>1, <1>2 DEF Past, Newest, Hears
<1>6. Replayed(OwnEntry(r))[Retold(p)] = Joint /\ Retold(p) \in ReplayState
  BY <1>1, <1>2, FrontCases DEF Replays
<1>7. Joint.cells["police"] = Kept("police").cell /\ Kept("police").cell \in Cell
  <2>1. Joint.cells = Cells
    BY CleanFields DEF Joint
  <2> QED BY <2>1, Names, KeptTypes DEF Cells
<1>8. q = "police" => h.capture_claim \in {None, Claim(Kept("police").cell)}
  BY <1>1, <1>5 DEF Landings
<1>9. Replayed(TheirEntry(h))[Retold(p)] = Replayed(OwnEntry(r))[Retold(p)]
  BY <1>3, <1>4, <1>5, <1>6, <1>7, <1>8, HeardAsSealed
<1> QED BY <1>4, <1>5, <1>6, <1>9

LEMMA HeardReplay ==
  ASSUME NEW p \in Role, NEW mine \in Seq(SealedRec), NEW live \in Seq(HeardRec),
         NEW h \in HeardRec, Aligned(p, mine, live), NEW q, q = Rival(p),
         h.commit.payload.step = Len(live) + 1, h.commit.payload.role = q,
         Fit(p, Len(mine), Len(live) + 1)
  PROVE  /\ Aligned(p, mine, Append(live, h))
         /\ Reconstruct(Entries(mine, Append(live, h)))
              = Replayed(TheirEntry(h))[Reconstruct(Entries(mine, live))]
<1>1. Aligned(p, mine, Append(live, h))
  BY AlignedTheirs
<1> QED BY <1>1, ReplayTheirs

LEMMA HearsReplay ==
  ASSUME Types, Untorn, Past, Landings, Replays, NEW p \in Role, NEW q \in Role, q = Rival(p),
         NEW h, Hears(p, h), Silent(p), Still(q), Made(q) = Heard(p) + 1,
         Fit(p, Made(p), Heard(p) + 1), Joint' = Joint
  PROVE  Replays'
<1>1. p = Rival(q) /\ \A r \in Role : r = p \/ r = q
  BY RivalFacts
<1>2. /\ h \in HeardRec /\ h.commit.payload.step = Heard(p) + 1
      /\ h.commit.payload.role = q
      /\ Replayed(TheirEntry(h))[Retold(p)] = Joint
  BY TheirReplay
<1>3. Retold(p)' = Joint
  <2>1. PICK mine \in Seq(SealedRec), live \in Seq(HeardRec) :
          mine = Kept(p).records /\ live = Kept(p).their
    BY KeptRecords
  <2>2. Len(mine) = Made(p) /\ Len(live) = Heard(p)
    BY <2>1 DEF Made, Heard
  <2>3. Aligned(p, mine, live)
    BY <2>1, AlignedKept
  <2>4. Reconstruct(Entries(mine, Append(live, h)))
          = Replayed(TheirEntry(h))[Reconstruct(Entries(mine, live))]
    BY <1>2, <2>2, <2>3, HeardReplay
  <2>5. Kept(p)'.records = mine /\ Kept(p)'.their = Append(live, h)
    BY <2>1 DEF Hears, Silent
  <2> QED BY <1>2, <2>1, <2>4, <2>5 DEF Retold
<1>4. Kept(q)' = Kept(q) /\ Made(q)' = Made(q) /\ Heard(q)' = Heard(q)
      /\ Heard(p)' = Heard(p) + 1 /\ Made(p)' = Made(p)
      /\ Kept(p)'.records = Kept(p).records
  BY StillKept DEF Silent, Hears
<1>5. Front(p)' = Joint
  BY <1>3, <1>4, FrontCases
<1>6. Retold(q)' = Retold(q)
  BY <1>4, RetoldSame
<1>7. Front(q)' = Front(q)
  BY <1>1, <1>4, <1>6, FrontCases
<1>8. Front(q) = Joint /\ Retold(q) \in ReplayState /\ Joint \in ReplayState
  BY JointTypes DEF Replays
<1> QED BY <1>1, <1>3, <1>5, <1>6, <1>7, <1>8 DEF Replays

LEMMA ConcedesReplay ==
  ASSUME Types, Untorn, Past, Landings, Replays, NEW x, NEW h, Concedes(x, h),
         Joint' = Replayed(OwnEntry(x))[Joint], Joint' \in ReplayState
  PROVE  Replays'
<1>1. /\ Acts("thief", x) /\ Hears("thief", h) /\ Still("police")
      /\ Made("police") = Heard("thief") + 1 /\ Made("thief") = Heard("thief") + 1
      /\ Heard("police") = Made("thief")
  BY DEF Concedes
<1>2. /\ h \in HeardRec /\ h.commit.payload.step = Heard("thief") + 1
      /\ h.commit.payload.role = "police"
      /\ Replayed(TheirEntry(h))[Retold("thief")] = Joint
  BY <1>1, Names, TheirReplay
<1>3. Retold("thief")' = Joint'
  <2>1. PICK mine \in Seq(SealedRec), live \in Seq(HeardRec) :
          mine = Kept("thief").records /\ live = Kept("thief").their
    BY Names, KeptRecords
  <2>2. PICK n \in Nat : n = Heard("thief")
    BY NumbersOf
  <2>3. Len(mine) = n + 1 /\ Len(live) = n
    BY <1>1, <2>1, <2>2 DEF Made, Heard
  <2>4. Fit("thief", n + 1, n + 1) /\ Fit("thief", n + 2, n + 1)
    BY <2>2 DEF Fit
  <2>5. Aligned("thief", mine, live)
    BY <2>1, Names, AlignedKept
  <2>6. PICK heard \in Seq(HeardRec) : heard = Append(live, h)
    BY <1>2, AppendProperties
  <2>7. Len(heard) = n + 1
    BY <1>2, <2>3, <2>6, AppendProperties
  <2>8. /\ Aligned("thief", mine, heard)
        /\ Reconstruct(Entries(mine, heard))
             = Replayed(TheirEntry(h))[Reconstruct(Entries(mine, live))]
    BY <1>2, <2>2, <2>3, <2>4, <2>5, <2>6, Names, HeardReplay
  <2>9. x \in SealedRec /\ x.payload.step = n + 2 /\ x.payload.role = "thief"
    BY <1>1, <2>2 DEF Acts
  <2>10. Aligned("thief", Append(mine, x), heard)
    <3>1. Len(mine) + 1 = n + 2
      BY <2>3
    <3> QED BY <2>4, <2>7, <2>8, <2>9, <3>1, Names, AlignedOwn
  <2>11. Reconstruct(Entries(Append(mine, x), heard))
           = Replayed(OwnEntry(x))[Reconstruct(Entries(mine, heard))]
    BY <2>8, <2>9, <2>10, Names, ReplayOwn
  <2>12. Kept("thief")'.records = Append(mine, x) /\ Kept("thief")'.their = heard
    BY <1>1, <2>1, <2>6 DEF Hears, Acts
  <2> QED BY <1>2, <2>1, <2>8, <2>11, <2>12 DEF Retold
<1>4. /\ Kept("police")' = Kept("police") /\ Made("police")' = Made("police")
      /\ Heard("police")' = Heard("police") /\ Heard("thief")' = Heard("thief") + 1
  BY <1>1, Names, StillKept DEF Hears
<1>5. Front("thief")' = Joint'
  BY <1>1, <1>3, <1>4, Names, FrontCases
<1>6. Retold("police")' = Joint /\ Joint \in ReplayState
  <2>1. Retold("police")' = Retold("police")
    BY <1>4, Names, RetoldSame
  <2>2. Retold("police") = Joint
    BY <1>1, Names, FrontCases DEF Replays
  <2> QED BY <2>1, <2>2, JointTypes
<1>7. Made("thief")' # Heard("police")' /\ Kept("thief")'.records[Made("thief")'] = x
  <2>1. /\ Made("thief") \in Nat /\ Made("thief")' = Made("thief") + 1
        /\ Kept("thief")'.records[Made("thief") + 1] = x
    BY <1>1, Names, AppendedRecords
  <2> QED BY <1>1, <1>4, <2>1
<1>8. Front("police")' = Joint'
  BY <1>6, <1>7, Names, FrontCases
<1> QED BY <1>3, <1>5, <1>6, <1>8, Names DEF Replays

LEMMA RestsReplays ==
  ASSUME Types, NEW p \in Role, Rests(p), Replays
  PROVE  Replays'
<1>1. \A r \in Role : /\ Kept(r)' = Kept(r) /\ Made(r)' = Made(r) /\ Heard(r)' = Heard(r)
                      /\ Latest(r)' = Latest(r)
  BY RestsFacts
<1>2. Joint' = Joint
  BY <1>1, Names, JointStays
<1>3. ASSUME NEW r \in Role PROVE Retold(r)' = Retold(r) /\ Front(r)' = Front(r)
  <2>1. Retold(r)' = Retold(r)
    BY <1>1, RetoldSame
  <2>2. PICK q \in Role : q = Rival(r)
    BY RivalFacts
  <2>3. Made(q)' = Made(q) /\ Kept(q)' = Kept(q) /\ Heard(r)' = Heard(r)
    BY <1>1
  <2> QED BY <2>1, <2>2, <2>3, FrontCases
<1> QED BY <1>2, <1>3 DEF Replays

LEMMA JointReplay == Types => Joint \in ReplayState
BY JointTypes

LEMMA ReplaysStep ==
  ASSUME Types, Types', Untorn, Past, Past', Landings, Replays, Moves
  PROVE  Replays'
<1>0. Joint' \in ReplayState
  <2>1. (Joint \in ReplayState)'
    BY JointReplay, PTL
  <2> QED BY <2>1
<1>1. CASE \E x : PoliceActs(x)
  <2>1. PICK x : PoliceActs(x)
    BY <1>1
  <2>2. /\ Acts("police", x) /\ Deaf("police") /\ Still("thief")
        /\ Heard("police") = Made("thief") /\ Heard("thief") = Made("police")
        /\ Fit("police", Made("police") + 1, Heard("police"))
    BY <2>1, NumbersOf DEF PoliceActs, Fit
  <2>3. Joint' = Replayed(OwnEntry(x))[Joint]
    BY <2>1, JointPolice
  <2> QED BY <1>0, <2>2, <2>3, Names, ActsReplay
<1>2. CASE \E x : ThiefActs(x)
  <2>1. PICK x : ThiefActs(x)
    BY <1>2
  <2>2. /\ Acts("thief", x) /\ Deaf("thief") /\ Still("police")
        /\ Heard("thief") = Made("police") /\ Heard("police") = Made("thief")
        /\ Fit("thief", Made("thief") + 1, Heard("thief"))
    BY <2>1, NumbersOf DEF ThiefActs, Fit
  <2>3. Joint' = Replayed(OwnEntry(x))[Joint]
    BY <2>1, JointThief
  <2> QED BY <1>0, <2>2, <2>3, Names, ActsReplay
<1>3. CASE \E h : PoliceListens(h)
  <2>1. PICK h : PoliceListens(h)
    BY <1>3
  <2>2. /\ Hears("police", h) /\ Silent("police") /\ Still("thief")
        /\ Made("thief") = Heard("police") + 1
        /\ Fit("police", Made("police"), Heard("police") + 1)
    BY <2>1, NumbersOf DEF PoliceListens, Fit
  <2>3. Joint' = Joint
    <3>1. /\ Kept("thief")' = Kept("thief") /\ Made("thief")' = Made("thief")
          /\ Latest("thief")' = Latest("thief")
      BY <2>2, Names, StillKept
    <3>2. /\ Made("police")' = Made("police") /\ Kept("police")'.cell = Kept("police").cell
          /\ Kept("police")'.barriers = Kept("police").barriers
      BY <2>1 DEF PoliceListens, Silent
    <3> QED BY <3>1, <3>2, Names, JointStays
  <2> QED BY <2>2, <2>3, Names, HearsReplay
<1>4. CASE \E h : ThiefListens(h)
  <2>1. PICK h : ThiefListens(h)
    BY <1>4
  <2>2. /\ Hears("thief", h) /\ Silent("thief") /\ Still("police")
        /\ Made("police") = Heard("thief") + 1
        /\ Fit("thief", Made("thief"), Heard("thief") + 1)
    BY <2>1, NumbersOf DEF ThiefListens, Fit
  <2>3. Joint' = Joint
    <3>1. Kept("police")' = Kept("police") /\ Made("police")' = Made("police")
      BY <2>2, Names, StillKept
    <3>2. /\ Made("thief")' = Made("thief") /\ Kept("thief")'.cell = Kept("thief").cell
          /\ Latest("thief")' = Latest("thief")
          /\ Kept("thief")'.turns_completed = Kept("thief").turns_completed
      BY <2>1 DEF ThiefListens, Silent
    <3> QED BY <3>1, <3>2, Names, JointStays
  <2> QED BY <2>2, <2>3, Names, HearsReplay
<1>5. CASE \E x, h : Concedes(x, h)
  <2>1. PICK x, h : Concedes(x, h)
    BY <1>5
  <2>2. Joint' = Replayed(OwnEntry(x))[Joint]
    BY <2>1, JointConcedes
  <2> QED BY <1>0, <2>1, <2>2, ConcedesReplay
<1> QED BY <1>1, <1>2, <1>3, <1>4, <1>5 DEF Moves

-----------------------------------------------------------------------------
(* The verdict on a game whose every landing was claimed *)

\* What an audit found, if there was one.
HonestJudged(p) ==
  pc[p] = "done" /\ report[p].audit # "not received" =>
    /\ report[p].audit = "Verified OK"
    /\ report[p].match = IF report[p].foreign \/ their[p] = << >>
                          THEN "not comparable" ELSE "yes"
    /\ ~report[p].disputed

RInv ==
  ~torn =>
    /\ Counted
    /\ ~unclaimed => Landings /\ Replays /\ \A p \in Role : HonestJudged(p)

\* The replay of a peer that has seen the end is the joint game.
LEMMA EndedReplay ==
  ASSUME Types, Untorn, Ends, Replays, NEW p \in Role, pc[p] = "await_audit"
  PROVE  Retold(p) = Joint /\ ThiefLast /\ (Conceded \/ Claimed)
<1>1. own[p].outcome # "ongoing" /\ own[p].outcome \in {"capture", "survival"}
  <2>1. own[p].outcome \in Outcome /\ own[p].outcome # "technical_loss"
    BY DEF Types, TypesOfPeers, OwnState, Ends
  <2>2. own[p].outcome # "ongoing"
    BY DEF Untorn, Saved, Ongoing
  <2> QED BY <2>1, <2>2 DEF Outcome
<1>2. Conceded \/ Claimed
  BY <1>1, Names DEF Ends, Won, Untorn, PoliceSide, ThiefSide, Claimed
<1>3. Made("thief") = Heard("thief") + 1 /\ Made("police") = Heard("thief")
  BY <1>2 DEF Ends, Untorn, ThiefSide, Claimed
<1>4. p = "police" => Heard("police") = Made("thief")
  BY <1>1 DEF Ends, Won
<1>5. Retold(p) = Front(p)
  BY <1>3, <1>4, Names, FrontCases
<1>6. ThiefLast
  BY <1>3, NumbersOf DEF ThiefLast
<1> QED BY <1>2, <1>5, <1>6 DEF Replays

\* It ends as the peer's game did.
LEMMA EndedAlike ==
  ASSUME Types, Untorn, Ends, Counted, NEW p \in Role, pc[p] = "await_audit", ThiefLast
  PROVE  /\ JointOutcome = own[p].outcome /\ own[p].outcome # "ongoing"
         /\ Kept("thief").turns_completed = own[p].turns_completed
<1>1. own[p].outcome \in {"capture", "survival"}
  <2>1. own[p].outcome \in Outcome /\ own[p].outcome # "technical_loss"
    BY DEF Types, TypesOfPeers, OwnState, Ends
  <2>2. own[p].outcome # "ongoing"
    BY DEF Untorn, Saved, Ongoing
  <2> QED BY <2>1, <2>2 DEF Outcome
<1>2. Kept(p).turns_completed = own[p].turns_completed
  BY KeptFields
<1>3. own[p].outcome = "capture" => Conceded
  BY Names DEF Ends
<1>4. own[p].outcome = "survival" => Claimed /\ ~Conceded
  BY Names DEF Ends, Won, Untorn, PoliceSide, ThiefSide, Claimed
<1>5. JointOutcome = own[p].outcome
  BY <1>1, <1>3, <1>4 DEF JointOutcome
<1>6. p = "police" => Heard("police") = Made("thief")
  BY <1>1 DEF Ends, Won
<1>7. Kept(p).turns_completed = Kept("thief").turns_completed
  BY <1>6, Names DEF Counted
<1> QED BY <1>1, <1>2, <1>5, <1>7

LEMMA StrictVerdictClean ==
  ASSUME Types, Untorn, Ends, Counted, Replays, NEW p \in Role, pc[p] = "await_audit"
  PROVE  StrictVerdict(p, Retold(p)) = Verdict("Verified OK", "yes", No)
<1>1. Retold(p) = Joint /\ ThiefLast
  BY EndedReplay
<1>2. /\ JointOutcome = own[p].outcome /\ own[p].outcome # "ongoing"
      /\ Kept("thief").turns_completed = own[p].turns_completed
  BY <1>1, EndedAlike
<1>3. PICK j : j = Joint
  OBVIOUS
<1>4. /\ j.outcome = own[p].outcome /\ j.turns = own[p].turns_completed
      /\ j.disputed = No /\ j.broken = No
  BY <1>2, <1>3, CleanFields DEF Joint
<1>5. Consistent(p, j) /\ ~j.broken /\ j.outcome # "ongoing"
  BY <1>2, <1>4, YesNo DEF Consistent
<1>6. StrictVerdict(p, j) = Verdict("Verified OK", "yes", j.disputed)
  BY <1>5 DEF StrictVerdict
<1> QED BY <1>1, <1>3, <1>4, <1>6

LEMMA StrictAudit ==
  ASSUME NEW p \in Role, pc[p] # "down", NEW revealed, VerifyReveals(their[p], revealed),
         their[p] # << >>, NEW foreign, ~foreign
  PROVE  Audit(p, foreign, revealed) = StrictVerdict(p, Retold(p))
<1>1. Retold(p) = Reconstruct(Entries(records[p], their[p]))
  BY UpRecords DEF Retold
<1>2. PICK E : E = Entries(records[p], their[p])
  OBVIOUS
<1>3. {Reconstruct(e) : e \in {E}} = {Retold(p)}
  BY <1>1, <1>2
<1>4. {StrictVerdict(p, replay) : replay \in {Reconstruct(e) : e \in {E}}}
        = {StrictVerdict(p, Retold(p))}
  BY <1>3
<1> QED BY <1>2, <1>4 DEF Audit

LEMMA HonestAudited ==
  ASSUME Types, TypesOfRest, Untorn, Past, Ends, Counted, Replays, NEW p \in Role,
         Disclosed(p), ReceiveAudit(p)
  PROVE  /\ report'[p].audit = "Verified OK"
         /\ report'[p].match = IF report'[p].foreign \/ their[p] = << >>
                                THEN "not comparable" ELSE "yes"
         /\ ~report'[p].disputed
<1>1. pc[p] = "await_audit" /\ audits[p] # << >>
  BY DEF ReceiveAudit, AwaitingAudit
<1>2. PICK foreign, finding :
        /\ foreign \in BOOLEAN /\ finding = Audit(p, foreign, Head(audits[p]))
        /\ Settle(p, foreign, finding)
  BY DEF ReceiveAudit
<1>3. /\ report'[p].audit = finding.audit /\ report'[p].match = finding.match
      /\ report'[p].disputed = finding.disputed /\ report'[p].foreign = foreign
  BY <1>2, SettledVerdict
<1>4. VerifyReveals(their[p], Head(audits[p]))
  BY <1>1, RevealsVerified
<1>5. CASE foreign \/ their[p] = << >>
  <2>1. finding = ForeignVerdict(p)
    BY <1>2, <1>4, <1>5 DEF Audit
  <2>2. PICK f : f = FALSE
    OBVIOUS
  <2>3. PICK v : v = [audit |-> "Verified OK", match |-> "not comparable", disputed |-> f]
    OBVIOUS
  <2>4. ForeignVerdict(p) = v
    BY <1>1, <2>2, <2>3, ForeignVerdictClean DEF Verdict
  <2>5. v.audit = "Verified OK" /\ v.match = "not comparable" /\ v.disputed = f
    BY <2>3
  <2> QED BY <1>3, <1>5, <2>1, <2>2, <2>4, <2>5
<1>6. CASE ~(foreign \/ their[p] = << >>)
  <2>1. finding = StrictVerdict(p, Retold(p))
    BY <1>1, <1>2, <1>4, <1>6, StrictAudit
  <2>2. finding = Verdict("Verified OK", "yes", No)
    BY <1>1, <2>1, StrictVerdictClean
  <2>3. finding.audit = "Verified OK" /\ finding.match = "yes" /\ finding.disputed = No
    BY <2>2 DEF Verdict
  <2> QED BY <1>3, <1>6, <2>3, YesNo
<1> QED BY <1>5, <1>6

LEMMA HonestJudgedStep ==
  ASSUME Types, TypesOfRest, Untorn, Past, Ends, Counted, Replays, [Next]_vars, ~torn',
         \A p \in Role : Disclosed(p) /\ HonestJudged(p)
  PROVE  \A p \in Role : HonestJudged(p)'
<1> SUFFICES ASSUME NEW p \in Role, pc'[p] = "done", report'[p].audit # "not received"
             PROVE  /\ report'[p].audit = "Verified OK"
                    /\ report'[p].match = IF report'[p].foreign \/ their'[p] = << >>
                                           THEN "not comparable" ELSE "yes"
                    /\ ~report'[p].disputed
  BY DEF HonestJudged
<1>1. CASE pc[p] = "done" /\ report'[p] = report[p]
  <2>1. their'[p] = their[p]
    BY <1>1, EndFixed
  <2> QED BY <1>1, <2>1 DEF HonestJudged
<1>2. CASE ReceiveAudit(p)
  <2>1. their'[p] = their[p]
    BY <1>2 DEF ReceiveAudit, memory, log
  <2> QED BY <1>2, <2>1, HonestAudited
<1>3. CASE Unaudited(p)
  BY <1>3 DEF Unaudited
<1> QED BY <1>1, <1>2, <1>3, ReportsStep DEF Reports

-----------------------------------------------------------------------------
(* The invariant of the replays *)

LEMMA StepMoves ==
  ASSUME Types, Untorn, [Next]_vars, ~torn'
  PROVE  /\ Moves \/ \E p \in Role : Rests(p)
         /\ ~unclaimed' => ~unclaimed
<1>1. Moves \/ \E p \in Role : Rests(p)
  BY StepsLived DEF Moves
<1>2. ASSUME Moves PROVE ~unclaimed' => ~unclaimed
  BY <1>2 DEF Moves, PoliceActs, ThiefActs, PoliceListens, ThiefListens, Concedes
<1>3. ASSUME \E p \in Role : Rests(p) PROVE ~unclaimed' => ~unclaimed
  BY <1>3 DEF Rests
<1> QED BY <1>1, <1>2, <1>3

LEMMA ReplayedStep ==
  HInv /\ HInv' /\ FInv /\ TInv /\ TInv' /\ RInv /\ [Next]_vars => RInv'
<1> SUFFICES ASSUME HInv, HInv', FInv, TInv, TInv', RInv, [Next]_vars, ~torn'
             PROVE  /\ Counted'
                    /\ ~unclaimed' => Landings' /\ Replays' /\ \A p \in Role : HonestJudged(p)'
  BY DEF RInv
<1>1. /\ Types /\ Types' /\ Untorn /\ TypesOfRest /\ Past /\ Past' /\ Ends
      /\ (\A p \in Role : Disclosed(p)) /\ Counted
      /\ ~unclaimed => Landings /\ Replays /\ \A p \in Role : HonestJudged(p)
  BY TornStays DEF HInv, FInv, TInv, RInv
<1>2. /\ Moves \/ \E p \in Role : Rests(p)
      /\ ~unclaimed' => ~unclaimed
  BY <1>1, StepMoves
<1>3. Counted'
  BY <1>1, <1>2, CountedStep, RestsCounted
<1>4. ASSUME ~unclaimed' PROVE Landings' /\ Replays'
  <2>1. Landings /\ Replays
    BY <1>1, <1>2, <1>4
  <2> QED BY <1>1, <1>2, <1>4, <2>1, LandingsStep, RestsLandings, ReplaysStep, RestsReplays
<1>5. ASSUME ~unclaimed' PROVE \A p \in Role : HonestJudged(p)'
  BY <1>1, <1>2, <1>5, HonestJudgedStep
<1> QED BY <1>3, <1>4, <1>5

LEMMA ReplayedInit == Init => RInv
<1> SUFFICES ASSUME Init PROVE RInv
  OBVIOUS
<1>1. ASSUME NEW p \in Role
      PROVE  /\ Made(p) = 0 /\ Heard(p) = 0 /\ Latest(p) = None
             /\ Kept(p).barriers = {} /\ Kept(p).cell = Start(p) /\ Kept(p).turns_completed = 0
             /\ Kept(p).records = << >> /\ Kept(p).their = << >>
  BY PeersInit
<1>2. /\ Made("police") = 0 /\ Made("thief") = 0 /\ Heard("police") = 0 /\ Heard("thief") = 0
      /\ Latest("thief") = None /\ Kept("police").turns_completed = 0
      /\ Kept("thief").turns_completed = 0 /\ Kept("police").barriers = {}
  BY <1>1, Names
<1>3. Counted /\ Landings
  BY <1>2 DEF Counted, Conceded, Landings
<1>4. Joint = ReplayStart
  <2>1. ~ThiefLast /\ ~Begun
    BY <1>2 DEF ThiefLast, Begun
  <2>2. Joint = Clean(Cells, {}, 0, "ongoing", No)
    BY <1>2, <2>1, OpenJoint
  <2>3. Cells = [r \in Role |-> Start(r)]
    BY <1>1 DEF Cells
  <2> QED BY <2>2, <2>3 DEF Clean, ReplayStart, No
<1>5. ASSUME NEW p \in Role PROVE Retold(p) = ReplayStart
  <2>1. PICK none : none = << >>
    OBVIOUS
  <2>2. none \in Seq(SealedRec) /\ none \in Seq(HeardRec) /\ Len(none) = 0
    BY <2>1
  <2>3. Aligned(p, none, none)
    BY <2>2 DEF Aligned, Fit
  <2>4. Entries(none, none) = Merged(p, none, none)
    BY <2>2, <2>3, EntriesMerged
  <2>5. Merged(p, none, none) = << >>
    <3>1. Len(none) + Len(none) = 0
      BY <2>2
    <3> QED BY <3>1 DEF Merged
  <2> QED BY <1>1, <2>1, <2>4, <2>5, ReconstructEmpty DEF Retold
<1>6. Replays
  <2>1. ASSUME NEW p \in Role PROVE Front(p) = Retold(p)
    BY <1>1, RivalFacts, FrontCases
  <2>2. Joint \in ReplayState
    BY TypesInit, JointTypes
  <2> QED BY <1>4, <1>5, <2>1, <2>2 DEF Replays
<1>7. \A p \in Role : HonestJudged(p)
  <2>1. \A p \in Role : pc[p] = "loop"
    BY DEF Init
  <2> QED BY <2>1 DEF HonestJudged
<1> QED BY <1>3, <1>6, <1>7 DEF RInv

LEMMA ReplayedAlways == Spec => []RInv
<1>1. HInv /\ FInv /\ TInv /\ RInv /\ [Next]_vars => RInv'
  <2>1. HInv /\ [Next]_vars => HInv'
    BY HInvStep
  <2>2. HInv /\ FInv /\ TInv /\ [Next]_vars => TInv'
    BY ToldStep
  <2> QED BY <2>1, <2>2, ReplayedStep
<1> QED BY <1>1, ToldAlways, ReplayedInit, PTL DEF Spec

\* The audit of a game whose every landing was claimed clears both peers, and
\* its replay reproduces the game they lived.
THEOREM AuditHonest == Spec => []HonestAudit
<1>1. RInv => HonestAudit
  BY DEF RInv, HonestJudged, HonestAudit, Settled
<1> QED BY <1>1, ReplayedAlways, PTL
=============================================================================
