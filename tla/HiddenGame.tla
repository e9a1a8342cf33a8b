----------------------------- MODULE HiddenGame -----------------------------
(***************************************************************************)
(* Two peers of the hidden wire (HiddenRuntime, hidden_turns, OwnState,    *)
(* HiddenExchange, hidden_resume, the audit replay).                       *)
(*                                                                         *)
(* A peer knows its own cell and the public barriers.  One message per     *)
(* half-turn carries the commit and the public declarations; actions are   *)
(* revealed at the audit, where each side replays the whole game.  The     *)
(* thief opens every round and each side numbers its own steps.            *)
(*                                                                         *)
(* A commit is the pair it hashes; the nonce of a decision is the          *)
(* incarnation that made it.  Scent, hints and the intent flag are left    *)
(* out, and belief is a choice: whether a landing is claimed depends on it.*)
(* The phase machine runs the same chain as in Lockstep.                   *)
(***************************************************************************)
EXTENDS GamePhysics, Functions

CONSTANTS
  Choice,        \* the actions a brain picks from
  MaxCrashes,    \* bound on crashes
  MaxLapses,     \* bound on deadlines missed although the rival is alive
  MaxLate,       \* bound on spare copies the network delivers late
  TornCrashes    \* may a peer crash with something its snapshot does not hold?

\* The flat terms carry one step limit; STAY keeps a brain from ever being
\* without an action.
ASSUME HiddenAssumption ==
  /\ MaxMoves = SurvivalThreshold
  /\ Choice \subseteq Action /\ MoveAction("STAY") \in Choice
  /\ MaxCrashes \in Nat /\ MaxLapses \in Nat /\ MaxLate \in Nat
  /\ TornCrashes \in BOOLEAN

VARIABLES
  pc,           \* where each peer's loop is
  own,          \* OwnState
  draft,        \* the outcome a peer takes on once its message is sent
  response,     \* pending_claim_response
  records,      \* own_records; their number is my_step
  their,        \* their_records; their number is their_step
  consumed,     \* _consumed
  last_sent,    \* exchange.last_sent
  turns,        \* inbox of turn messages
  audits,       \* inbox of audit messages
  controls,     \* number of resume offers in the control inbox
  snapshot,     \* the file on disk
  report,       \* run_peer's classification
  late,         \* copies still in the network
  incarnation,  \* restarts so far, per peer
  crashes, lapses, spares,   \* used budgets
  torn,         \* history: a crash or a lapse cut off what no snapshot holds
  excused,      \* history: a deadline lapsed on a live or a crashed rival
  unclaimed     \* history: the cop shared the thief's cell and claimed nothing

log == <<records, their, consumed, last_sent>>
memory == <<own, draft, response, log>>
boxes == <<turns, audits, controls>>
budgets == <<incarnation, crashes, lapses, spares, torn, excused, unclaimed>>
vars == <<pc, memory, boxes, snapshot, report, late, budgets>>

None == [none |-> TRUE]
-----------------------------------------------------------------------------
(* OwnState *)

Start(p) == IF p = "police" THEN CopStart ELSE ThiefStart

NewOwn(p) ==
  [cell |-> Start(p), barriers |-> {}, turns_completed |-> 0,
   outcome |-> "ongoing", next_actor |-> "thief"]

\* apply_own_action
OwnActionLegal(s, p, action) ==
  /\ s.next_actor = p
  /\ \/ /\ action.type = "barrier" /\ p = "police"
        /\ BarrierLegal(s.barriers, s.cell, action.cell)
     \/ /\ action.type = "move"
        /\ MoveLegal(s.barriers, s.cell, action.move)

ApplyOwnAction(s, p, action) ==
  IF action.type = "barrier"
  THEN [s EXCEPT !.barriers = @ \cup {action.cell}, !.next_actor = Rival(p)]
  ELSE [s EXCEPT !.cell = AppliedTo(action.move, @), !.next_actor = Rival(p)]

\* Mutant: the thief checks its own cell only.
IAmCapturedOnWallOnly(s) == s.cell \in s.barriers

IAmCaptured(s) == s.cell \in s.barriers \/ IsSurrounded(s.barriers, s.cell)

TickedClock(s) == [s EXCEPT !.turns_completed = @ + 1]

SurvivalReached(s) ==
  s.turns_completed >= SurvivalThreshold \/ s.turns_completed >= MaxMoves

\* note_rival_barrier, as far as it accepts the declaration.
WallAccepted(s, wall) ==
  \/ wall = None
  \/ wall # None /\ InBounds(wall.cell)
     /\ (wall.cell \in s.barriers \/ Cardinality(s.barriers) < MaxBarriers)

NoteRivalBarrier(s, wall) ==
  IF wall = None THEN s ELSE [s EXCEPT !.barriers = @ \cup {wall.cell}]
-----------------------------------------------------------------------------
(* Claims and messages *)

Claim(cell) == [cell |-> cell]

AnswerCaptureClaim(s, claim) == [claim |-> claim.cell, caught |-> claim.cell = s.cell]

ConcedeDeclaration(s) == [claim |-> s.cell, caught |-> TRUE]

Caught(answer) == answer # None /\ answer.caught

\* The landing cell after a move, if the belief is strong enough.
CaptureClaims(s, p, action) ==
  IF p = "police" /\ action.type = "move" THEN {None, Claim(s.cell)} ELSE {None}

SealedStep(p, action) ==
  [payload |-> [step |-> Len(records[p]) + 1, role |-> p, action |-> action],
   nonce |-> incarnation[p]]

TurnMessage(sealed, claim, answer, win) ==
  [step |-> sealed.payload.step, sender |-> sealed.payload.role,
   commit |-> sealed,
   barrier_placed |-> IF sealed.payload.action.type = "barrier"
                      THEN Claim(sealed.payload.action.cell) ELSE None,
   capture_claim |-> claim, claim_response |-> answer, win_claim |-> win]
-----------------------------------------------------------------------------
(* Where a peer is *)

Ongoing(p) == own[p].outcome = "ongoing"

MyTurn(p) == pc[p] = "loop" /\ Ongoing(p) /\ own[p].next_actor = p

Expecting(p) == pc[p] = "loop" /\ Ongoing(p) /\ own[p].next_actor # p

\* The number their_half_turn expects.
Expected(p) == Len(their[p]) + 1

HasMessage(p) == turns[p] # << >>

Message(p) == Head(turns[p])

\* _wait_turn: a final with caught is keyed to whatever is expected.
Key(p) == IF Caught(Message(p).claim_response) THEN Expected(p) ELSE Message(p).step

AwaitingAudit(p) == pc[p] = "await_audit"

\* The loop sits in _wait.
Waiting(p) == Expecting(p) \/ AwaitingAudit(p)

Up(p) == pc[p] # "down"

\* deliver, with the settled door.
Delivered(box, p, m) ==
  IF pc[p] = "done" THEN box ELSE [box EXCEPT ![p] = Append(@, m)]

\* A call retried until it is acknowledged; one more copy may be under way.
SendTurn(p, m) ==
  /\ Up(Rival(p))
  /\ turns' = Delivered(turns, Rival(p), m)
  /\ \/ UNCHANGED <<late, spares>>
     \/ spares < MaxLate /\ spares' = spares + 1 /\ late' = late \cup {m}

\* The copy of an earlier call reaches the door after all.
DeliverLate(m) ==
  LET to == Rival(m.sender) IN
  /\ Up(to)
  /\ turns' = Delivered(turns, to, m)
  /\ late' = late \ {m}
  /\ UNCHANGED <<pc, memory, audits, controls, snapshot, report, budgets>>

SendAudit(p) ==
  /\ Up(Rival(p))
  /\ audits' = Delivered(audits, Rival(p), records[p])
-----------------------------------------------------------------------------
(* Half-turns *)

\* Mutant: the walls are not saved.
SnapshotWithoutWalls(o, r, t, c, answer, last) ==
  [cell |-> o.cell, barriers |-> {}, turns_completed |-> o.turns_completed,
   next_actor |-> o.next_actor, records |-> r, their |-> t, consumed |-> c,
   response |-> answer, last_sent |-> last]

\* Mutant: the answer owed to a claim is not saved.
SnapshotWithoutAnswer(o, r, t, c, answer, last) ==
  [cell |-> o.cell, barriers |-> o.barriers, turns_completed |-> o.turns_completed,
   next_actor |-> o.next_actor, records |-> r, their |-> t, consumed |-> c,
   response |-> None, last_sent |-> last]

\* build_snapshot: the outcome is not part of it.
BuildSnapshot(o, r, t, c, answer, last) ==
  [cell |-> o.cell, barriers |-> o.barriers, turns_completed |-> o.turns_completed,
   next_actor |-> o.next_actor, records |-> r, their |-> t, consumed |-> c,
   response |-> answer, last_sent |-> last]

Checkpoint(p) ==
  snapshot' = [snapshot EXCEPT ![p] =
    BuildSnapshot(own'[p], records'[p], their'[p], consumed'[p], response'[p],
                  last_sent'[p])]

\* play: a lapsed deadline or a broken rule ends the game for this peer.
Fail(p, why) ==
  /\ pc' = [pc EXCEPT ![p] = "failed"]
  /\ own' = [own EXCEPT ![p].outcome = "technical_loss"]
  /\ report' = [report EXCEPT ![p] = [error |-> why]]

\* seal_step and the message that carries its commit, up to the send.
Seal(p, s, action, claim, answer, win, ends) ==
  LET sealed == SealedStep(p, action) IN
  /\ own' = [own EXCEPT ![p] = s]
  /\ records' = [records EXCEPT ![p] = Append(@, sealed)]
  /\ last_sent' = [last_sent EXCEPT ![p] = TurnMessage(sealed, claim, answer, win)]
  /\ response' = [response EXCEPT ![p] = None]
  /\ draft' = [draft EXCEPT ![p] = ends]
  /\ pc' = [pc EXCEPT ![p] = "sending"]

Landing(action, cell) ==
  IF action.type = "barrier" THEN cell ELSE AppliedTo(action.move, cell)

\* The cells a peer's sealed actions have taken it through.
Path(start, sealed) ==
  LET at[i \in 0 .. Len(sealed)] ==
        IF i = 0 THEN start ELSE Landing(sealed[i].payload.action, at[i - 1])
  IN  at

Commits(live) == [i \in 1 .. Len(live) |-> live[i].commit]

\* my_half_turn, the police: the claim depends on its belief.
DecidePolice(p) ==
  /\ p = "police" /\ MyTurn(p)
  /\ \E action \in Choice :
       LET s == ApplyOwnAction(own[p], p, action) IN
       /\ OwnActionLegal(own[p], p, action)
       /\ \E claim \in CaptureClaims(s, p, action) :
            /\ Seal(p, s, action, claim, response[p], FALSE, "ongoing")
            /\ unclaimed' = (unclaimed \/ (claim = None
                  /\ s.cell = Path(ThiefStart, Commits(their[p]))[Len(their[p])]))
  /\ UNCHANGED <<their, consumed, boxes, snapshot, report, late, incarnation, crashes,
                 lapses, spares, torn, excused>>

\* my_half_turn, the thief: it concedes, ticks the clock or claims survival.
DecideThief(p) ==
  /\ p = "thief" /\ MyTurn(p)
  /\ \E action \in Choice :
       LET moved == ApplyOwnAction(own[p], p, action)
           ticked == TickedClock(moved)
           win == SurvivalReached(ticked)
       IN
       /\ OwnActionLegal(own[p], p, action)
       /\ IF IAmCaptured(moved)
          THEN Seal(p, moved, action, None, ConcedeDeclaration(moved), FALSE, "capture")
          ELSE Seal(p, ticked, action, None, response[p], win,
                    IF win THEN "survival" ELSE "ongoing")
  /\ UNCHANGED <<their, consumed, boxes, snapshot, report, late, budgets>>

Send(p) ==
  /\ pc[p] = "sending"
  /\ SendTurn(p, last_sent[p])
  /\ pc' = [pc EXCEPT ![p] = "sent"]
  /\ UNCHANGED <<memory, audits, controls, snapshot, report, incarnation, crashes,
                 lapses, torn, excused, unclaimed>>

\* The rest of the half-turn and the checkpoint after it.
AfterSend(p) ==
  /\ pc[p] = "sent"
  /\ own' = [own EXCEPT ![p].outcome = draft[p]]
  /\ pc' = [pc EXCEPT ![p] = "loop"]
  /\ draft' = [draft EXCEPT ![p] = "ongoing"]
  /\ UNCHANGED <<response, log, boxes, report, late, budgets>>
  /\ Checkpoint(p)

\* _next: the key was consumed before.  The live records hold no payload yet,
\* so no copy is ever compared with them.
ReceiveDuplicate(p) ==
  /\ Expecting(p) /\ HasMessage(p) /\ Key(p) \in consumed[p]
  /\ turns' = [turns EXCEPT ![p] = Tail(@)]
  /\ UNCHANGED <<pc, memory, audits, controls, snapshot, report, late, budgets>>

\* receive_turn: the expected message, its commit and its declarations kept.
TakeTurn(p) ==
  /\ Expecting(p) /\ HasMessage(p)
  /\ Key(p) = Expected(p) /\ Expected(p) \notin consumed[p]
  /\ turns' = [turns EXCEPT ![p] = Tail(@)]
  /\ consumed' = [consumed EXCEPT ![p] = @ \cup {Expected(p)}]
  /\ their' = [their EXCEPT ![p] =
                 Append(@, [commit |-> Message(p).commit,
                            barrier_placed |-> Message(p).barrier_placed,
                            capture_claim |-> Message(p).capture_claim])]
  /\ UNCHANGED <<audits, controls, late, budgets>>

\* The rival's message is its half-turn: the turn token comes back.
NoteRivalHalfTurn(p, o) == [o EXCEPT !.next_actor = p]

\* Mutant: the police counts the round of a concession.
NotedTickingFinal(p, m) ==
  LET noted == NoteRivalHalfTurn(p, NoteRivalBarrier(own[p], m.barrier_placed))
  IN  IF p = "police" THEN TickedClock(noted) ELSE noted

\* their_half_turn, the state after the declarations: a concession is
\* mid-round and closes no turn.
Noted(p, m) ==
  LET noted == NoteRivalHalfTurn(p, NoteRivalBarrier(own[p], m.barrier_placed))
  IN  IF p = "police" /\ ~Caught(m.claim_response) THEN TickedClock(noted) ELSE noted

\* their_half_turn, its verdict on a message it accepts.
Ended(p, m) ==
  IF p = "police" /\ Caught(m.claim_response) THEN "capture"
  ELSE IF m.win_claim \/ (p = "police" /\ SurvivalReached(Noted(p, m))) THEN "survival"
  ELSE "ongoing"

\* What the thief will answer.
Answer(p, m) ==
  IF p = "thief" /\ Ended(p, m) = "ongoing" /\ m.capture_claim # None
  THEN AnswerCaptureClaim(own[p], m.capture_claim) ELSE response[p]

MustConcede(p, m) ==
  /\ p = "thief" /\ Ended(p, m) = "ongoing"
  /\ Caught(Answer(p, m)) \/ IAmCaptured(Noted(p, m))

\* A declared wall beyond the quota is a breach.
RefuseTurn(p) ==
  /\ TakeTurn(p)
  /\ ~WallAccepted(own[p], Message(p).barrier_placed)
  /\ Fail(p, "breach")
  /\ UNCHANGED <<draft, response, records, last_sent, snapshot>>

AbsorbTurn(p) ==
  LET m == Message(p) IN
  /\ TakeTurn(p)
  /\ WallAccepted(own[p], m.barrier_placed) /\ ~MustConcede(p, m)
  /\ own' = [own EXCEPT ![p] = [Noted(p, m) EXCEPT !.outcome = Ended(p, m)]]
  /\ response' = [response EXCEPT ![p] = Answer(p, m)]
  /\ UNCHANGED <<pc, draft, records, last_sent, report>>
  /\ Checkpoint(p)

\* send_concede: the sealed closure, numbered as the thief's next step.
ConcedeTurn(p) ==
  LET m == Message(p) IN
  /\ TakeTurn(p)
  /\ WallAccepted(own[p], m.barrier_placed) /\ MustConcede(p, m)
  /\ Seal(p, Noted(p, m), MoveAction("STAY"), None,
          IF Caught(Answer(p, m)) THEN Answer(p, m) ELSE ConcedeDeclaration(own[p]),
          FALSE, "capture")
  /\ UNCHANGED <<snapshot, report>>
-----------------------------------------------------------------------------
(* The audit *)

\* Mutant: the live commits anchor nothing.
VerifyRevealsUnanchored(live, revealed) == Len(live) <= Len(revealed)

\* verify_reveals: every commit received live is among the revealed records.
VerifyReveals(live, revealed) ==
  \A i \in 1 .. Len(live) : live[i].commit \in Range(revealed)

\* verify_declared: the wall said openly is the wall sealed.
DeclaredTrue(entry) ==
  LET action == entry.payload.action IN
  entry.declared = None \/
    entry.declared.barrier_placed =
      IF action.type = "barrier" THEN Claim(action.cell) ELSE None

\* Where an entry sorts: the thief first at equal numbers.
SortKey(entry) ==
  2 * entry.payload.step - (IF entry.payload.role = "thief" THEN 1 ELSE 0)

\* A stable sort.
Sorted(s) ==
  LET before(i) == {j \in DOMAIN s : \/ SortKey(s[j]) < SortKey(s[i])
                                     \/ SortKey(s[j]) = SortKey(s[i]) /\ j < i}
  IN  [n \in DOMAIN s |-> s[CHOOSE i \in DOMAIN s : Cardinality(before(i)) = n - 1]]

\* The records of both sides in game order.
\* (A bound set names a value once, where LET would have TLC rebuild it.)
Entries(mine, live) ==
  CHOOSE sorted \in {Sorted(both) : both \in
    {[i \in 1 .. Len(mine) |-> [payload |-> mine[i].payload, declared |-> None]]
       \o [i \in 1 .. Len(live) |->
             [payload |-> live[i].commit.payload, declared |-> live[i]]]}} : TRUE

ReplayStart ==
  [cells |-> [r \in Role |-> Start(r)], barriers |-> {}, turns |-> 0,
   outcome |-> "ongoing", pending |-> FALSE, disputed |-> FALSE, broken |-> FALSE]

\* _apply
RevealLegal(s, payload) ==
  LET action == payload.action IN
  IF action.type = "barrier"
  THEN payload.role = "police" /\ BarrierLegal(s.barriers, s.cells["police"], action.cell)
  ELSE MoveLegal(s.barriers, s.cells[payload.role], action.move)

Applied(s, payload) ==
  LET action == payload.action IN
  IF action.type = "barrier" THEN [s EXCEPT !.barriers = @ \cup {action.cell}]
  ELSE [s EXCEPT !.cells[payload.role] = AppliedTo(action.move, @)]

LawCaptured(s) ==
  s.cells["thief"] \in s.barriers \/ IsSurrounded(s.barriers, s.cells["thief"])

\* Only the police's own action proves a landing, and only the closure makes
\* it final.
JudgedPolice(s, declared) ==
  LET claim == IF declared = None THEN None ELSE declared.capture_claim IN
  IF claim # None /\ claim.cell # s.cells["police"] THEN [s EXCEPT !.broken = TRUE]
  ELSE IF LawCaptured(s) THEN [s EXCEPT !.outcome = "capture"]
  ELSE IF s.cells["police"] = s.cells["thief"]
  THEN [s EXCEPT !.outcome = "capture", !.pending = TRUE]
  ELSE s

JudgedThief(s) ==
  LET n == s.turns + 1 IN
  IF LawCaptured(s) THEN [s EXCEPT !.outcome = "capture"]
  ELSE [s EXCEPT !.turns = n,
                 !.outcome = IF n >= SurvivalThreshold \/ n >= MaxMoves
                             THEN "survival" ELSE "ongoing"]

ReplayState ==
  [cells : [Role -> Cell], barriers : SUBSET Cell, turns : Nat, outcome : Outcome,
   pending : BOOLEAN, disputed : BOOLEAN, broken : BOOLEAN]

\* One entry of reconstruct: any STAY of the thief closes a game that is over.
Replayed(entry) ==
  [s \in ReplayState |->
     LET payload == entry.payload
         over == s.outcome # "ongoing"
         open == [s EXCEPT !.outcome = "ongoing", !.pending = FALSE,
                           !.disputed = @ \/ s.pending]
     IN
     IF s.broken \/ ~DeclaredTrue(entry) THEN [s EXCEPT !.broken = TRUE]
     ELSE IF over /\ payload.role = "thief" /\ payload.action = MoveAction("STAY")
     THEN [s EXCEPT !.pending = FALSE]
     ELSE IF (over /\ ~s.pending) \/ ~RevealLegal(s, payload)
     THEN [s EXCEPT !.broken = TRUE]
     ELSE IF payload.role = "police"
     THEN JudgedPolice(Applied(open, payload), entry.declared)
     ELSE JudgedThief(Applied(open, payload))]

Reconstruct(entries) ==
  LET after[i \in 0 .. Len(entries)] ==
        IF i = 0 THEN ReplayStart ELSE Replayed(entries[i])[after[i - 1]]
  IN  after[Len(entries)]

\* A half in the rival's own schema shows the cell after each numbered step.
ForeignHalf(role, live) ==
  LET at == Path(Start(role), Commits(live))
  IN  [i \in 1 .. Len(live) |-> [step |-> live[i].commit.payload.step, position |-> at[i]]]

\* The playing steps count 1 .. N, each once.
ContinuityOk(half) == {half[i].step : i \in DOMAIN half} = 1 .. Len(half)

MovementOk(half) ==
  \A i, j \in DOMAIN half :
    /\ InBounds(half[i].position)
    /\ half[j].step = half[i].step + 1 =>
         Distance(half[i].position, half[j].position) <= 1

OwnBarrierTimeline(mine) ==
  {[step |-> r.payload.step, cell |-> r.payload.action.cell] :
     r \in {q \in Range(mine) : q.payload.action.type = "barrier"}}

\* Mutant: positions are compared with the walls of the end.
UnconcededByFinalWalls(half, timeline, outcome) ==
  LET walls == {placed.cell : placed \in timeline} IN
  outcome # "capture" /\
    \E i \in DOMAIN half :
      half[i].position \in walls \/ IsSurrounded(walls, half[i].position)

\* A revealed position that was a capture by the walls standing at that step.
UnconcededCapture(half, timeline, outcome) ==
  outcome # "capture" /\
    \E i \in DOMAIN half :
      LET walls == {placed.cell : placed \in {t \in timeline : t.step <= half[i].step}}
      IN  half[i].position \in walls \/ IsSurrounded(walls, half[i].position)

Verdict(audit, match, disputed) ==
  [audit |-> audit, match |-> match, disputed |-> disputed]

\* foreign_verdict: what can be derived without the rival's schema.
ForeignVerdict(p) ==
  LET half == ForeignHalf(Rival(p), their[p]) IN
  Verdict(IF ContinuityOk(half) /\ MovementOk(half) THEN "Verified OK" ELSE "TAMPERED",
          "not comparable",
          UnconcededCapture(half, OwnBarrierTimeline(records[p]), own[p].outcome))

\* Does the revealed physics reproduce the game this peer lived?
Consistent(p, replay) ==
  replay.outcome = own[p].outcome /\ replay.turns = own[p].turns_completed

StrictVerdict(p, replay) ==
  IF replay.broken \/ replay.outcome = "ongoing" THEN Verdict("TAMPERED", "no", FALSE)
  ELSE Verdict("Verified OK", IF Consistent(p, replay) THEN "yes" ELSE "no", replay.disputed)

\* finish's three tiers; without a record of the rival nothing is comparable.
Audit(p, foreign, revealed) ==
  IF ~VerifyReveals(their[p], revealed) THEN Verdict("TAMPERED", "no", FALSE)
  ELSE IF foreign \/ their[p] = << >> THEN ForeignVerdict(p)
  ELSE CHOOSE v \in {StrictVerdict(p, replay) :
                       replay \in {Reconstruct(e) : e \in {Entries(records[p], their[p])}}} : TRUE

\* finish, its first half.
SendFinalAudit(p) ==
  /\ pc[p] = "loop" /\ ~Ongoing(p)
  /\ SendAudit(p)
  /\ pc' = [pc EXCEPT ![p] = "await_audit"]
  /\ UNCHANGED <<memory, turns, controls, snapshot, report, late, budgets>>

\* run_peer after play returned: classify, close the door, drop the snapshot
\* of a cleanly classified game.
Settle(p, foreign, finding) ==
  LET outcome == IF finding.audit = "TAMPERED" THEN "technical_loss" ELSE own[p].outcome
  IN  /\ report' = [report EXCEPT ![p] =
                      [error |-> "none", outcome |-> outcome, audit |-> finding.audit,
                       match |-> finding.match, disputed |-> finding.disputed,
                       foreign |-> foreign]]
      /\ snapshot' = [snapshot EXCEPT ![p] =
                        IF outcome \in {"capture", "survival"} THEN None ELSE @]
      /\ pc' = [pc EXCEPT ![p] = "done"]

NoAudit == Verdict("not received", "no", FALSE)

\* Each team seals its own schema, and only the audit reads it.
ReceiveAudit(p) ==
  /\ AwaitingAudit(p) /\ audits[p] # << >>
  /\ \E foreign \in BOOLEAN : \E finding \in {Audit(p, foreign, Head(audits[p]))} :
       Settle(p, foreign, finding)
  /\ audits' = [audits EXCEPT ![p] = Tail(@)]
  /\ UNCHANGED <<memory, turns, controls, late, budgets>>

TechnicalLossReport(p) ==
  /\ report' = [report EXCEPT ![p] =
                  [error |-> @.error, outcome |-> "technical_loss",
                   audit |-> "not received", match |-> "no", disputed |-> FALSE,
                   foreign |-> FALSE]]
  /\ pc' = [pc EXCEPT ![p] = "done"]

\* run_peer after play raised: the rival is still owed the disclosure.
EmergencyAudit(p) ==
  /\ pc[p] = "failed"
  /\ SendAudit(p)
  /\ TechnicalLossReport(p)
  /\ UNCHANGED <<memory, turns, controls, snapshot, late, budgets>>
-----------------------------------------------------------------------------
(* Deadlines *)

Sending(p) ==
  \/ pc[p] \in {"sending", "failed", "offering"}
  \/ pc[p] = "loop" /\ ~Ongoing(p)
  \/ Waiting(p) /\ controls[p] > 0 /\ last_sent[p] # None

Starved(p) ==
  /\ Waiting(p) /\ controls[p] = 0
  /\ IF Expecting(p) THEN turns[p] = << >> ELSE audits[p] = << >>

\* Mutant: no deadline on a wait for a crashed rival.
OverduePatient(p) ==
  \/ Sending(p) /\ pc[Rival(p)] = "done"
  \/ Starved(p) /\ (pc[Rival(p)] = "done" \/ Starved(Rival(p)))

\* Nobody alive will end this wait: only its deadline can.
Overdue(p) ==
  \/ Sending(p) /\ pc[Rival(p)] \in {"down", "done"}
  \/ Starved(p) /\ (pc[Rival(p)] \in {"down", "done"} \/ Starved(Rival(p)))

\* DeadlineExpiredError, wherever it is raised.
Expire(p) ==
  \/ /\ pc[p] = "sending" \/ Expecting(p)
     /\ Fail(p, "deadline")
     /\ UNCHANGED snapshot
  \/ /\ pc[p] = "loop" /\ ~Ongoing(p)
     /\ pc' = [pc EXCEPT ![p] = "await_audit"]
     /\ UNCHANGED <<own, snapshot, report>>
  \/ /\ AwaitingAudit(p)
     /\ Settle(p, FALSE, NoAudit)
     /\ UNCHANGED own
  \/ /\ pc[p] = "failed"
     /\ TechnicalLossReport(p)
     /\ UNCHANGED <<own, snapshot>>
  \/ /\ pc[p] = "offering"
     /\ pc' = [pc EXCEPT ![p] = "down"]
     /\ UNCHANGED <<own, snapshot, report>>

\* A deadline that had to lapse.
LapseOverdue(p) ==
  /\ Overdue(p)
  /\ Expire(p)
  /\ excused' = (excused \/ pc[Rival(p)] = "down")
  /\ UNCHANGED <<draft, response, log, boxes, late, incarnation, crashes, lapses,
                 spares, torn, unclaimed>>

\* A call that timed out may be processed after all.
MayArrive(p) ==
  \/ UNCHANGED late
  \/ pc[p] = "sending" /\ late' = late \cup {last_sent[p]}

\* A deadline that lapsed on a slow network or a slow rival.
LapseSlow(p) ==
  /\ Sending(p) \/ Waiting(p)
  /\ lapses < MaxLapses /\ lapses' = lapses + 1
  /\ Expire(p)
  /\ MayArrive(p)
  /\ torn' = (torn \/ late' # late)
  /\ excused' = TRUE
  /\ UNCHANGED <<draft, response, log, boxes, incarnation, crashes, spares, unclaimed>>
-----------------------------------------------------------------------------
(* Crash and resume *)

\* What the peer lived since its last checkpoint: a half-turn in mid-send, or
\* the end of the game, which no snapshot holds.
Unsaved(p) == pc[p] \in {"sending", "sent"} \/ ~Ongoing(p)

\* The process dies: memory and inboxes are gone, the file stays.
Crash(p) ==
  /\ pc[p] \notin {"down", "done"}
  /\ crashes < MaxCrashes /\ crashes' = crashes + 1
  /\ TornCrashes \/ ~Unsaved(p)
  /\ pc' = [pc EXCEPT ![p] = "down"]
  /\ own' = [own EXCEPT ![p] = NewOwn(p)]
  /\ draft' = [draft EXCEPT ![p] = "ongoing"]
  /\ response' = [response EXCEPT ![p] = None]
  /\ last_sent' = [last_sent EXCEPT ![p] = None]
  /\ records' = [records EXCEPT ![p] = << >>]
  /\ their' = [their EXCEPT ![p] = << >>]
  /\ consumed' = [consumed EXCEPT ![p] = {}]
  /\ turns' = [turns EXCEPT ![p] = << >>]
  /\ audits' = [audits EXCEPT ![p] = << >>]
  /\ controls' = [controls EXCEPT ![p] = 0]
  /\ report' = [report EXCEPT ![p] = None]
  /\ incarnation' = [incarnation EXCEPT ![p] = @ + 1]
  /\ MayArrive(p)
  /\ torn' = (torn \/ Unsaved(p))
  /\ UNCHANGED <<snapshot, lapses, spares, excused, unclaimed>>

\* rearm: all the snapshot holds, into an ongoing game.
Rearm(p, s) ==
  /\ own' = [own EXCEPT ![p] =
               [@ EXCEPT !.cell = s.cell, !.barriers = s.barriers,
                         !.turns_completed = s.turns_completed,
                         !.next_actor = s.next_actor]]
  /\ records' = [records EXCEPT ![p] = s.records]
  /\ their' = [their EXCEPT ![p] = s.their]
  /\ consumed' = [consumed EXCEPT ![p] = s.consumed]
  /\ response' = [response EXCEPT ![p] = s.response]
  /\ last_sent' = [last_sent EXCEPT ![p] = s.last_sent]

\* run_peer(resume=True) as far as rearm; the server already listens.
Restart(p) ==
  /\ pc[p] = "down" /\ snapshot[p] # None
  /\ Rearm(p, snapshot[p])
  /\ pc' = [pc EXCEPT ![p] = "offering"]
  /\ UNCHANGED <<draft, boxes, snapshot, report, late, budgets>>

\* Mutant: the restarted peer plays on without a resume offer.
OfferNothing(p) ==
  /\ pc[p] = "offering" /\ Up(Rival(p))
  /\ pc' = [pc EXCEPT ![p] = "loop"]
  /\ UNCHANGED <<memory, boxes, snapshot, report, late, budgets>>

\* offer_resume, then play(step).
OfferResume(p) ==
  /\ pc[p] = "offering" /\ Up(Rival(p))
  /\ controls' = [controls EXCEPT ![Rival(p)] =
                    IF pc[Rival(p)] = "done" THEN @ ELSE @ + 1]
  /\ pc' = [pc EXCEPT ![p] = "loop"]
  /\ UNCHANGED <<memory, turns, audits, snapshot, report, late, budgets>>

\* handle_controls: the last sealed message again, if there is one.
AnswerOffer(p) ==
  /\ Waiting(p) /\ controls[p] > 0
  /\ controls' = [controls EXCEPT ![p] = @ - 1]
  /\ IF last_sent[p] = None THEN UNCHANGED <<turns, late, spares>>
     ELSE SendTurn(p, last_sent[p])
  /\ UNCHANGED <<pc, memory, audits, snapshot, report, incarnation, crashes, lapses,
                 torn, excused, unclaimed>>
-----------------------------------------------------------------------------
Init ==
  /\ pc = [p \in Role |-> "loop"]
  /\ own = [p \in Role |-> NewOwn(p)]
  /\ draft = [p \in Role |-> "ongoing"] /\ response = [p \in Role |-> None]
  /\ records = [p \in Role |-> << >>] /\ their = [p \in Role |-> << >>]
  /\ consumed = [p \in Role |-> {}] /\ last_sent = [p \in Role |-> None]
  /\ turns = [p \in Role |-> << >>] /\ audits = [p \in Role |-> << >>]
  /\ controls = [p \in Role |-> 0]
  /\ snapshot = [p \in Role |-> None] /\ report = [p \in Role |-> None]
  /\ late = {}
  /\ incarnation = [p \in Role |-> 0]
  /\ crashes = 0 /\ lapses = 0 /\ spares = 0
  /\ torn = FALSE /\ excused = FALSE /\ unclaimed = FALSE

\* What a running peer does by itself.
Program(p) ==
  \/ DecidePolice(p) \/ DecideThief(p) \/ Send(p) \/ AfterSend(p)
  \/ ReceiveDuplicate(p) \/ RefuseTurn(p) \/ AbsorbTurn(p) \/ ConcedeTurn(p)
  \/ SendFinalAudit(p) \/ ReceiveAudit(p) \/ EmergencyAudit(p)
  \/ OfferResume(p) \/ AnswerOffer(p) \/ LapseOverdue(p)

Next ==
  \/ \E p \in Role : Program(p)
  \/ \E p \in Role : LapseSlow(p) \/ Crash(p) \/ Restart(p)
  \/ \E m \in late : DeliverLate(m)

Spec == Init /\ [][Next]_vars

\* A running loop keeps running: its sends retry and its waits poll, each
\* under a deadline.  Nothing is promised about the network's spare copies,
\* nor that a crashed peer is ever started again.
FairSpec == Spec /\ \A p \in Role : WF_vars(Program(p))
-----------------------------------------------------------------------------
(* Properties *)

Settled(p) == pc[p] = "done"

Loaded(p) == pc[p] # "down"

\* As long as nothing unsaved was cut off the two records of the public walls
\* differ by at most the wall declared in the message under way, also after a
\* crash of either side.
WallsAgree ==
  (~torn /\ \A p \in Role : Loaded(p)) =>
    /\ own["thief"].barriers \subseteq own["police"].barriers
    /\ Cardinality(own["police"].barriers) <= Cardinality(own["thief"].barriers) + 1

\* A peer that takes the game for survived is right: no wall of either record
\* lies on the thief or locks it in.
SurvivalIsTrue ==
  (~torn /\ \A p \in Role : Loaded(p)) =>
    \A p \in Role : own[p].outcome = "survival" =>
      LET cell == own["thief"].cell
          walls == own["police"].barriers
      IN  /\ cell \notin walls
          /\ \E move \in OrthogonalMoves : IsPassable(walls, AppliedTo(move, cell))

\* The audit of a game whose every landing was claimed clears both peers, and
\* its replay reproduces the game they lived: the concession flow, the clock of
\* a mid-round final and the order of the two numberings come out the same
\* way live and in the replay.
HonestAudit ==
  (~torn /\ ~unclaimed) =>
    \A p \in Role : (Settled(p) /\ report[p].audit # "not received") =>
      /\ report[p].audit = "Verified OK"
      /\ report[p].match = IF report[p].foreign \/ their[p] = << >>
                            THEN "not comparable" ELSE "yes"
      /\ ~report[p].disputed

\* An honest half in the rival's own schema is never called a cheat, claimed
\* landings or not: its steps and moves read clean, and walls accuse it only of
\* where it stood once they stood (dispute.py:41-44, "the 2026-08-03 false
\* positive").
ForeignJudgedFairly ==
  ~torn => \A p \in Role : (Settled(p) /\ report[p].foreign) =>
             report[p].audit = "Verified OK" /\ ~report[p].disputed

\* An honest peer is never accused of a breach, and one crash outside a send,
\* restarted inside the rival's deadline, costs nobody the game.
CrashCostsNothing ==
  (~torn /\ crashes <= 1) =>
    \A p \in Role : report[p] # None =>
      report[p].error \in IF excused THEN {"none", "deadline"} ELSE {"none"}

\* The end state a peer's replay reports as end_state_digest.
EndState(p) ==
  LET r == Reconstruct(Entries(records[p], their[p]))
  IN  <<r.cells, r.barriers, r.turns, r.outcome>>

\* Two peers that both verified the other report one end state and one outcome,
\* even after a half-turn was cut off and decided again.
MutualAudit ==
  (\A p \in Role : Settled(p) /\ report[p].audit = "Verified OK") =>
    /\ EndState("police") = EndState("thief")
    /\ (\A p \in Role : report[p].match = "yes")
         => report["police"].outcome = report["thief"].outcome

\* The truth duty survives a crash of either side: the message a claiming
\* police takes next answers its claim, or concedes.
EveryClaimAnswered ==
  [][(/\ ~torn /\ pc["police"] = "loop"
      /\ Len(their'["police"]) > Len(their["police"])
      /\ last_sent["police"] # None /\ last_sent["police"].capture_claim # None)
     => LET answer == Message("police").claim_response IN
        /\ answer # None
        /\ answer.caught \/ answer.claim = last_sent["police"].capture_claim.cell]_vars

\* "Evidence, never a self-destruct": a landing that was never claimed is put
\* on record and costs no honest peer the audit.
EvidenceOnly ==
  (crashes = 0 /\ lapses = 0) =>
    \A p \in Role : Settled(p) => report[p].audit # "TAMPERED"

\* Every run of a peer ends, classified or dead: no wait outlives its deadline.
EveryPeerSettles == \A p \in Role : []<>(pc[p] \in {"done", "down"})
=============================================================================
