------------------------------ MODULE Lockstep ------------------------------
(***************************************************************************)
(* Two peers of the bookletter wire (GeometricRuntime, SealedExchange,     *)
(* resume, the MCP transport and door, run_peer's classification).         *)
(*                                                                         *)
(* Each peer replicates the engine.  A half-turn is sealed: commit,        *)
(* acknowledgement, reveal, apply, checkpoint.  The transport retries until*)
(* a deadline, so a message may be delivered again, later than messages    *)
(* sent after it (late).  A peer may crash anywhere and be restarted from  *)
(* its last checkpoint.                                                    *)
(*                                                                         *)
(* A payload keeps what the audit and the engine read: step, role, action. *)
(* The nonce of a decision is the incarnation that made it: fresh for every*)
(* decision on a step, because only a restarted peer decides a step again. *)
(* A commit is the pair it hashes; the hash is injective on what we model. *)
(***************************************************************************)
EXTENDS GamePhysics, SequencesExt

CONSTANTS
  Choice,       \* the actions a brain picks from
  PendingCap,   \* inbound_buffer_limit, the cap of the reorder buffer
  MaxCrashes,   \* bound on crashes
  MaxLapses,    \* bound on deadlines missed although the rival is alive
  MaxLate,      \* bound on spare copies the network delivers late
  TornCrashes   \* may a peer crash between its commit and its checkpoint?

\* SealedExchange refuses a cap below MIN_PENDING_CAP; STAY keeps a brain
\* from ever being without an action.
ASSUME LockstepAssumption ==
  /\ Choice \subseteq Action /\ MoveAction("STAY") \in Choice
  /\ PendingCap \in Nat /\ PendingCap >= 4
  /\ MaxCrashes \in Nat /\ MaxLapses \in Nat /\ MaxLate \in Nat
  /\ TornCrashes \in BOOLEAN

VARIABLES
  pc,           \* where each peer's loop is
  fsm,          \* GamePhaseMachine._state
  engine,       \* each peer's replica
  draft,        \* the record being sent by _my_half_turn
  locked,       \* the commit receive_sealed holds while it waits for a reveal
  own, their,   \* own_records, their_records
  consumed,     \* _consumed
  pending,      \* _pending
  resending,    \* between the two sends of _resend_last_sealed
  turns,        \* inbox of turn messages
  audits,       \* inbox of audit messages
  controls,     \* number of resume offers in the control inbox
  snapshot,     \* the file on disk
  report,       \* run_peer's classification
  late,         \* copies still in the network
  incarnation,  \* restarts so far, per peer
  crashes, lapses, spares,   \* used budgets
  torn,         \* history: a half-turn was cut off after its commit left
  excused,      \* history: a deadline lapsed on a live or a crashed rival
  game          \* history: the furthest replica, and its half-turns

memory == <<engine, draft, locked, own, their, consumed, pending, resending>>
boxes == <<turns, audits, controls>>
budgets == <<incarnation, crashes, lapses, spares, torn, excused>>
vars == <<pc, fsm, memory, boxes, snapshot, report, late, budgets, game>>

None == [none |-> TRUE]
-----------------------------------------------------------------------------
(* GamePhaseMachine *)

Transitions ==
  [WAITING_FOR_OPPONENT |-> {"COMPUTING_MOVE"},
   COMPUTING_MOVE |-> {"COMMITTING", "TECHNICAL_LOSS"},
   COMMITTING |-> {"AWAITING_REVEAL"},
   AWAITING_REVEAL |-> {"VERIFYING", "TECHNICAL_LOSS"},
   VERIFYING |-> {"WAITING_FOR_OPPONENT"},
   TECHNICAL_LOSS |-> {}]

\* A chain of transitions; an illegal one would raise and is never enabled.
Follow(p, path) ==
  /\ \A i \in 1 .. Len(path) :
       path[i] \in Transitions[IF i = 1 THEN fsm[p] ELSE path[i - 1]]
  /\ fsm' = [fsm EXCEPT ![p] = Last(path)]
-----------------------------------------------------------------------------
(* Sealed records and messages *)

StepPayload(step, role, action) == [step |-> step, role |-> role, action |-> action]

CommitHash(payload, nonce) == [payload |-> payload, nonce |-> nonce]

SealedRecord(payload, nonce) ==
  [payload |-> payload, nonce |-> nonce, commit |-> CommitHash(payload, nonce)]

CommitMessage(r) ==
  [kind |-> "commit", turn |-> r.payload.step, actor |-> r.payload.role,
   commit |-> r.commit]

RevealMessage(r) ==
  [kind |-> "reveal", turn |-> r.payload.step, actor |-> r.payload.role,
   payload |-> r.payload]

Key(m) == <<m.kind, m.turn>>

\* Mutant: the audit compares the counts only.
AuditCountsOnly(records, nonces) ==
  IF Len(records) = Len(nonces) THEN "Verified OK" ELSE "TAMPERED"

AuditRecords(records, nonces) ==
  IF /\ Len(records) = Len(nonces)
     /\ \A i \in 1 .. Len(records) :
          records[i].commit = CommitHash(records[i].payload, nonces[i])
  THEN "Verified OK" ELSE "TAMPERED"

Disclosure(p) ==
  [digest |-> EndStateDigest(engine[p]),
   nonces |-> [i \in 1 .. Len(own[p]) |-> own[p][i].nonce]]
-----------------------------------------------------------------------------
(* Where a peer is *)

Ongoing(p) == engine[p].outcome = "ongoing"

MyTurn(p) == pc[p] = "loop" /\ Ongoing(p) /\ engine[p].next_actor = p

\* play's turn_index: half-turns in the log, plus the one being played.
Step(p) == Len(own[p]) + Len(their[p]) + 1

\* receive_sealed is in _next, first for the commit and then for the reveal.
Expecting(p) ==
  /\ ~resending[p]
  /\ \/ pc[p] = "loop" /\ Ongoing(p) /\ engine[p].next_actor # p
     \/ pc[p] = "await_reveal"

Expected(p) == <<IF pc[p] = "loop" THEN "commit" ELSE "reveal", Step(p)>>

Buffered(p) == {m \in pending[p] : Key(m) = Expected(p)}

\* _next looks into its buffer before it waits on the inbox.
HasMessage(p) == Buffered(p) # {} \/ turns[p] # << >>

Message(p) ==
  IF Buffered(p) # {} THEN CHOOSE m \in Buffered(p) : TRUE ELSE Head(turns[p])

TakeMessage(p) ==
  IF Buffered(p) # {}
  THEN pending' = [pending EXCEPT ![p] = @ \ Buffered(p)] /\ UNCHANGED turns
  ELSE turns' = [turns EXCEPT ![p] = Tail(@)] /\ UNCHANGED pending

AwaitingAudit(p) == pc[p] = "await_audit" /\ ~resending[p]

\* The loop sits in _wait.
Waiting(p) == (Expecting(p) /\ Buffered(p) = {}) \/ AwaitingAudit(p)
-----------------------------------------------------------------------------
(* Transport *)

Up(p) == pc[p] # "down"

\* deliver: a settled door refuses, and send_turn ignores the answer.
Delivered(box, p, m) ==
  IF pc[p] = "done" THEN box ELSE [box EXCEPT ![p] = Append(@, m)]

\* A call retried until it is acknowledged; one more copy may be under way.
SendTurn(p, m) ==
  /\ Up(Rival(p))
  /\ turns' = Delivered(turns, Rival(p), m)
  /\ \/ UNCHANGED <<late, spares>>
     \/ /\ spares < MaxLate
        /\ spares' = spares + 1
        /\ late' = late \cup {m}

SendAudit(p) ==
  /\ Up(Rival(p))
  /\ audits' = Delivered(audits, Rival(p), Disclosure(p))

\* The copy of an earlier call reaches the door after all.
DeliverLate(m) ==
  LET to == Rival(m.actor) IN
  /\ Up(to)
  /\ turns' = Delivered(turns, to, m)
  /\ late' = late \ {m}
  /\ UNCHANGED <<pc, fsm, memory, audits, controls, snapshot, report, budgets, game>>
-----------------------------------------------------------------------------
(* Half-turns *)

\* The snapshot build_snapshot writes; the log lengths give its turn.
BuildSnapshot(o, t, c, e) ==
  [own |-> o, their |-> t, consumed |-> c, digest |-> EndStateDigest(e)]

\* Mutant: the checkpoint is taken before the half-turn is in the logs.
CheckpointStale(p) ==
  /\ snapshot' = [snapshot EXCEPT
                    ![p] = BuildSnapshot(own[p], their[p], consumed[p], engine[p])]
  /\ game' = IF Step(p) > game.length
             THEN [engine |-> engine'[p], length |-> Step(p)] ELSE game

Checkpoint(p) ==
  /\ snapshot' = [snapshot EXCEPT
                    ![p] = BuildSnapshot(own'[p], their'[p], consumed'[p], engine'[p])]
  /\ game' = IF Step(p) > game.length
             THEN [engine |-> engine'[p], length |-> Step(p)] ELSE game

Abandon(p, why) ==
  /\ pc' = [pc EXCEPT ![p] = "failed"]
  /\ engine' = [engine EXCEPT ![p].outcome = "technical_loss"]
  /\ report' = [report EXCEPT ![p] = [error |-> why]]

\* play: a lapsed deadline or a broken rule ends the game for this peer.
Fail(p, why) ==
  /\ Abandon(p, why)
  /\ fsm' = [fsm EXCEPT ![p] =
               IF "TECHNICAL_LOSS" \in Transitions[@] THEN "TECHNICAL_LOSS" ELSE @]

\* _my_half_turn: decide, then send_sealed as far as the acknowledged commit.
SendCommit(p) ==
  /\ MyTurn(p)
  /\ Follow(p, <<"COMPUTING_MOVE", "COMMITTING">>)
  /\ \E action \in Choice :
       LET r == SealedRecord(StepPayload(Step(p), p, action), incarnation[p]) IN
       /\ ActionLegal(engine[p], p, action)
       /\ draft' = [draft EXCEPT ![p] = r]
       /\ SendTurn(p, CommitMessage(r))
  /\ pc' = [pc EXCEPT ![p] = "revealing"]
  /\ UNCHANGED <<engine, locked, own, their, consumed, pending, resending, audits,
                 controls, snapshot, report, incarnation, crashes, lapses, torn,
                 excused, game>>

SendReveal(p) ==
  /\ pc[p] = "revealing"
  /\ SendTurn(p, RevealMessage(draft[p]))
  /\ pc' = [pc EXCEPT ![p] = "applying"]
  /\ UNCHANGED <<fsm, memory, audits, controls, snapshot, report, incarnation,
                 crashes, lapses, torn, excused, game>>

\* The rest of _my_half_turn and the checkpoint after it.
ApplyOwn(p) ==
  /\ pc[p] = "applying"
  /\ own' = [own EXCEPT ![p] = Append(@, draft[p])]
  /\ engine' = [engine EXCEPT ![p] = ApplyAction(@, p, draft[p].payload.action)]
  /\ Follow(p, <<"AWAITING_REVEAL", "VERIFYING", "WAITING_FOR_OPPONENT">>)
  /\ draft' = [draft EXCEPT ![p] = None]
  /\ pc' = [pc EXCEPT ![p] = "loop"]
  /\ UNCHANGED <<locked, their, consumed, pending, resending, boxes, report, late,
                 budgets>>
  /\ Checkpoint(p)

\* Mutant: any second commit for a played step counts as a conflict.
ConflictingAlways(p, m) ==
  m.kind = "commit" /\ \E i \in 1 .. Len(their[p]) : their[p][i].payload.step = m.turn

\* _next: a key already consumed is a copy, unless it is a commit that
\* differs from the one recorded for that step.
Conflicting(p, m) ==
  /\ m.kind = "commit"
  /\ \E i \in 1 .. Len(their[p]) :
       their[p][i].payload.step = m.turn /\ their[p][i].commit # m.commit

ReceiveDuplicate(p) ==
  /\ Expecting(p) /\ HasMessage(p)
  /\ Key(Message(p)) \in consumed[p]
  /\ ~Conflicting(p, Message(p))
  /\ TakeMessage(p)
  /\ UNCHANGED <<pc, fsm, engine, draft, locked, own, their, consumed, resending,
                 audits, controls, snapshot, report, late, budgets, game>>

ReceiveConflict(p) ==
  /\ Expecting(p) /\ HasMessage(p)
  /\ Key(Message(p)) \in consumed[p]
  /\ Conflicting(p, Message(p))
  /\ TakeMessage(p)
  /\ Fail(p, "conflicting commit")
  /\ UNCHANGED <<draft, locked, own, their, consumed, resending, audits, controls,
                 snapshot, late, budgets, game>>

\* _next: a message that is not expected yet is kept, unless the buffer is
\* full, whatever its key.
ReceiveEarly(p) ==
  /\ Expecting(p) /\ HasMessage(p)
  /\ Key(Message(p)) \notin consumed[p] \cup {Expected(p)}
  /\ turns' = [turns EXCEPT ![p] = Tail(@)]
  /\ IF Cardinality(pending[p]) >= PendingCap
     THEN Fail(p, "flooded") /\ UNCHANGED pending
     ELSE /\ pending' = [pending EXCEPT ![p] =
                           {m \in @ : Key(m) # Key(Message(p))} \cup {Message(p)}]
          /\ UNCHANGED <<pc, fsm, engine, report>>
  /\ UNCHANGED <<draft, locked, own, their, consumed, resending, audits, controls,
                 snapshot, late, budgets, game>>

\* receive_sealed: the commit is locked.
ReceiveCommit(p) ==
  /\ Expecting(p) /\ HasMessage(p)
  /\ Key(Message(p)) = Expected(p) /\ Message(p).kind = "commit"
  /\ Expected(p) \notin consumed[p]
  /\ TakeMessage(p)
  /\ consumed' = [consumed EXCEPT ![p] = @ \cup {Expected(p)}]
  /\ IF Message(p).actor = p
     THEN Fail(p, "echoed role") /\ UNCHANGED locked
     ELSE /\ locked' = [locked EXCEPT ![p] = Message(p).commit]
          /\ pc' = [pc EXCEPT ![p] = "await_reveal"]
          /\ UNCHANGED <<fsm, engine, report>>
  /\ UNCHANGED <<draft, own, their, resending, audits, controls, snapshot, late,
                 budgets, game>>

\* receive_sealed and the rest of _their_half_turn: store, apply, checkpoint.
ReceiveReveal(p) ==
  /\ Expecting(p) /\ HasMessage(p)
  /\ Key(Message(p)) = Expected(p) /\ Message(p).kind = "reveal"
  /\ Expected(p) \notin consumed[p]
  /\ TakeMessage(p)
  /\ consumed' = [consumed EXCEPT ![p] = @ \cup {Expected(p)}]
  /\ their' = [their EXCEPT ![p] =
                 Append(@, [payload |-> Message(p).payload, commit |-> locked[p]])]
  /\ locked' = [locked EXCEPT ![p] = None]
  /\ LET payload == Message(p).payload
     IN  IF payload.role # p /\ ActionLegal(engine[p], payload.role, payload.action)
         THEN /\ engine' = [engine EXCEPT ![p] =
                              ApplyAction(@, payload.role, payload.action)]
              /\ pc' = [pc EXCEPT ![p] = "loop"]
              /\ UNCHANGED <<fsm, own, report>>
              /\ Checkpoint(p)
         ELSE Fail(p, "illegal action") /\ UNCHANGED <<own, snapshot, game>>
  /\ UNCHANGED <<draft, resending, audits, controls, late, budgets>>
-----------------------------------------------------------------------------
(* The end of a game *)

\* _finish, first half.
SendFinalAudit(p) ==
  /\ pc[p] = "loop" /\ ~Ongoing(p)
  /\ SendAudit(p)
  /\ pc' = [pc EXCEPT ![p] = "await_audit"]
  /\ UNCHANGED <<fsm, memory, turns, controls, snapshot, report, late, budgets, game>>

\* run_peer after play returned: classify, close the door, drop the snapshot
\* of a cleanly classified game.
Settle(p, verdict, match) ==
  LET outcome == IF verdict = "TAMPERED" THEN "technical_loss" ELSE engine[p].outcome
  IN  /\ report' = [report EXCEPT ![p] =
                      [error |-> "none", outcome |-> outcome, audit |-> verdict,
                       digest_match |-> match]]
      /\ snapshot' = [snapshot EXCEPT ![p] =
                        IF outcome \in {"capture", "survival"} THEN None ELSE @]
      /\ pc' = [pc EXCEPT ![p] = "done"]

\* audit_theirs keeps the revealed nonces, when there is one for each record.
WithNonces(records, nonces) ==
  IF Len(records) = Len(nonces)
  THEN [i \in 1 .. Len(records) |->
          [payload |-> records[i].payload, commit |-> records[i].commit,
           nonce |-> nonces[i]]]
  ELSE records

\* _finish, second half.
ReceiveAudit(p) ==
  /\ AwaitingAudit(p) /\ audits[p] # << >>
  /\ LET theirs == Head(audits[p])
     IN  /\ Settle(p, AuditRecords(their[p], theirs.nonces),
                   theirs.digest = EndStateDigest(engine[p]))
         /\ their' = [their EXCEPT ![p] = WithNonces(@, theirs.nonces)]
  /\ audits' = [audits EXCEPT ![p] = Tail(@)]
  /\ UNCHANGED <<fsm, engine, draft, locked, own, consumed, pending, resending,
                 turns, controls, late, budgets, game>>

TechnicalLossReport(p) ==
  /\ report' = [report EXCEPT ![p] =
                  [error |-> @.error, outcome |-> "technical_loss",
                   audit |-> "not received", digest_match |-> FALSE]]
  /\ pc' = [pc EXCEPT ![p] = "done"]

\* run_peer after play raised: the rival is still owed the disclosure.
EmergencyAudit(p) ==
  /\ pc[p] = "failed"
  /\ SendAudit(p)
  /\ TechnicalLossReport(p)
  /\ UNCHANGED <<fsm, memory, turns, controls, snapshot, late, budgets, game>>
-----------------------------------------------------------------------------
(* Deadlines *)

\* handle_controls has an offer to answer.
Answering(p) == resending[p] \/ (Waiting(p) /\ controls[p] > 0 /\ own[p] # << >>)

\* The loop is in a blocking send.
Sending(p) ==
  \/ MyTurn(p) \/ Answering(p)
  \/ pc[p] \in {"revealing", "failed", "offering"}
  \/ pc[p] = "loop" /\ ~Ongoing(p)

Starved(p) ==
  /\ Waiting(p) /\ controls[p] = 0
  /\ IF Expecting(p) THEN turns[p] = << >> ELSE audits[p] = << >>

\* Mutant: no deadline on a wait for a crashed rival.
OverduePatient(p) ==
  \/ Sending(p) /\ pc[Rival(p)] = "done"
  \/ Starved(p) /\ (pc[Rival(p)] = "done" \/ Starved(Rival(p)))

\* Nobody alive will end this wait: only its deadline can.
Overdue(p) ==
  \/ Sending(p) /\ pc[Rival(p)] \in {"down", "done"}
  \/ Starved(p) /\ (pc[Rival(p)] \in {"down", "done"} \/ Starved(Rival(p)))

\* What a timed-out call may still deliver: an unacknowledged reveal or commit.
Unacknowledged(p) ==
  IF pc[p] = "revealing" THEN {RevealMessage(draft[p])}
  ELSE IF MyTurn(p)
  THEN {CommitMessage(SealedRecord(StepPayload(Step(p), p, a), incarnation[p])) :
          a \in {b \in Choice : ActionLegal(engine[p], p, b)}}
  ELSE {}

\* DeadlineExpiredError, wherever it is raised.
Expire(p) ==
  \/ /\ MyTurn(p)     \* the commit is sent in COMMITTING, which has no way out
     /\ Follow(p, <<"COMPUTING_MOVE", "COMMITTING">>)
     /\ Abandon(p, "deadline")
     /\ UNCHANGED snapshot
  \/ /\ pc[p] \in {"revealing", "await_reveal"} \/ Expecting(p)
        \/ (resending[p] /\ pc[p] = "loop")
     /\ Fail(p, "deadline")
     /\ UNCHANGED snapshot
  \/ /\ pc[p] = "loop" /\ ~Ongoing(p)
     /\ pc' = [pc EXCEPT ![p] = "await_audit"]
     /\ UNCHANGED <<fsm, engine, snapshot, report>>
  \/ /\ pc[p] = "await_audit"
     /\ Settle(p, "not received", FALSE)
     /\ UNCHANGED <<fsm, engine>>
  \/ /\ pc[p] = "failed"
     /\ TechnicalLossReport(p)
     /\ UNCHANGED <<fsm, engine, snapshot>>
  \/ /\ pc[p] = "offering"
     /\ pc' = [pc EXCEPT ![p] = "down"]
     /\ UNCHANGED <<fsm, engine, snapshot, report>>

\* A deadline that had to lapse.
LapseOverdue(p) ==
  /\ Overdue(p)
  /\ Expire(p)
  /\ resending' = [resending EXCEPT ![p] = FALSE]
  /\ excused' = (excused \/ pc[Rival(p)] = "down")
  /\ UNCHANGED <<draft, locked, own, their, consumed, pending, boxes, late,
                 incarnation, crashes, lapses, spares, torn, game>>

\* A deadline that lapsed on a slow network or a slow rival; the call that
\* timed out may have been processed, or be processed later.
LapseSlow(p) ==
  /\ Sending(p) \/ Waiting(p)
  /\ lapses < MaxLapses /\ lapses' = lapses + 1
  /\ Expire(p)
  /\ resending' = [resending EXCEPT ![p] = FALSE]
  /\ \/ UNCHANGED late
     \/ \E m \in Unacknowledged(p) : late' = late \cup {m}
  /\ torn' = (torn \/ pc[p] = "revealing" \/ late' # late)
  /\ excused' = TRUE
  /\ UNCHANGED <<draft, locked, own, their, consumed, pending, boxes, incarnation,
                 crashes, spares, game>>
-----------------------------------------------------------------------------
(* Crash and resume *)

\* A half-turn whose commit left and whose record is not filed.
MidSend(p) == draft[p] # None

\* The process dies: memory and inboxes are gone, the file stays.
Crash(p) ==
  /\ pc[p] \notin {"down", "done"}
  /\ crashes < MaxCrashes /\ (TornCrashes \/ ~MidSend(p))
  /\ pc' = [pc EXCEPT ![p] = "down"]
  /\ fsm' = [fsm EXCEPT ![p] = "WAITING_FOR_OPPONENT"]
  /\ engine' = [engine EXCEPT ![p] = NewEngine]
  /\ draft' = [draft EXCEPT ![p] = None] /\ locked' = [locked EXCEPT ![p] = None]
  /\ own' = [own EXCEPT ![p] = << >>] /\ their' = [their EXCEPT ![p] = << >>]
  /\ consumed' = [consumed EXCEPT ![p] = {}]
  /\ pending' = [pending EXCEPT ![p] = {}]
  /\ resending' = [resending EXCEPT ![p] = FALSE]
  /\ turns' = [turns EXCEPT ![p] = << >>]
  /\ audits' = [audits EXCEPT ![p] = << >>]
  /\ controls' = [controls EXCEPT ![p] = 0]
  /\ report' = [report EXCEPT ![p] = None]
  /\ incarnation' = [incarnation EXCEPT ![p] = @ + 1]
  /\ crashes' = crashes + 1
  /\ torn' = (torn \/ MidSend(p))
  /\ UNCHANGED <<snapshot, late, lapses, spares, excused, game>>

\* build_snapshot's action log: both logs merged by step.
Actions(o, t) ==
  LET all == {r.payload : r \in Range(o) \cup Range(t)}
  IN  [i \in 1 .. Cardinality(all) |-> CHOOSE a \in all : a.step = i]

\* rearm: the recorded actions through the one application path.
Replay(actions) ==
  LET after[i \in 0 .. Len(actions)] ==
        IF i = 0 THEN NewEngine
        ELSE ApplyAction(after[i - 1], actions[i].role, actions[i].action)
  IN  after[Len(actions)]

\* Mutant: rearm restores the logs and forgets to replay the actions.
RestartWithoutReplay(p) ==
  LET s == snapshot[p] IN
  /\ pc[p] = "down" /\ s # None
  /\ own' = [own EXCEPT ![p] = s.own] /\ their' = [their EXCEPT ![p] = s.their]
  /\ consumed' = [consumed EXCEPT ![p] = s.consumed]
  /\ pc' = [pc EXCEPT ![p] = "offering"]
  /\ UNCHANGED <<fsm, engine, draft, locked, pending, resending, boxes, snapshot,
                 report, late, budgets, game>>

\* run_peer(resume=True) as far as rearm; the server already listens.
Restart(p) ==
  LET s == snapshot[p] IN
  /\ pc[p] = "down" /\ s # None
  /\ EndStateDigest(Replay(Actions(s.own, s.their))) = s.digest
  /\ engine' = [engine EXCEPT ![p] = Replay(Actions(s.own, s.their))]
  /\ own' = [own EXCEPT ![p] = s.own] /\ their' = [their EXCEPT ![p] = s.their]
  /\ consumed' = [consumed EXCEPT ![p] = s.consumed]
  /\ pc' = [pc EXCEPT ![p] = "offering"]
  /\ UNCHANGED <<fsm, draft, locked, pending, resending, boxes, snapshot, report,
                 late, budgets, game>>

\* Mutant: the restarted peer plays on without a resume offer.
OfferNothing(p) ==
  /\ pc[p] = "offering" /\ Up(Rival(p))
  /\ pc' = [pc EXCEPT ![p] = "loop"]
  /\ UNCHANGED <<fsm, memory, boxes, snapshot, report, late, budgets, game>>

\* offer_resume, then play(start_turn).
OfferResume(p) ==
  /\ pc[p] = "offering" /\ Up(Rival(p))
  /\ controls' = [controls EXCEPT ![Rival(p)] =
                    IF pc[Rival(p)] = "done" THEN @ ELSE @ + 1]
  /\ pc' = [pc EXCEPT ![p] = "loop"]
  /\ UNCHANGED <<fsm, memory, turns, audits, snapshot, report, late, budgets, game>>

\* handle_controls: a peer that sealed nothing yet has nothing to send again.
IgnoreOffer(p) ==
  /\ Waiting(p) /\ controls[p] > 0 /\ own[p] = << >>
  /\ controls' = [controls EXCEPT ![p] = @ - 1]
  /\ UNCHANGED <<pc, fsm, memory, turns, audits, snapshot, report, late, budgets, game>>

\* handle_controls: _resend_last_sealed, its two sends.
ResendCommit(p) ==
  /\ Waiting(p) /\ controls[p] > 0 /\ own[p] # << >>
  /\ SendTurn(p, CommitMessage(Last(own[p])))
  /\ resending' = [resending EXCEPT ![p] = TRUE]
  /\ UNCHANGED <<pc, fsm, engine, draft, locked, own, their, consumed, pending,
                 audits, controls, snapshot, report, incarnation, crashes, lapses,
                 torn, excused, game>>

ResendReveal(p) ==
  /\ resending[p]
  /\ SendTurn(p, RevealMessage(Last(own[p])))
  /\ resending' = [resending EXCEPT ![p] = FALSE]
  /\ controls' = [controls EXCEPT ![p] = @ - 1]
  /\ UNCHANGED <<pc, fsm, engine, draft, locked, own, their, consumed, pending,
                 audits, snapshot, report, incarnation, crashes, lapses, torn,
                 excused, game>>
-----------------------------------------------------------------------------
Init ==
  /\ pc = [p \in Role |-> "loop"]
  /\ fsm = [p \in Role |-> "WAITING_FOR_OPPONENT"]
  /\ engine = [p \in Role |-> NewEngine]
  /\ draft = [p \in Role |-> None] /\ locked = [p \in Role |-> None]
  /\ own = [p \in Role |-> << >>] /\ their = [p \in Role |-> << >>]
  /\ consumed = [p \in Role |-> {}] /\ pending = [p \in Role |-> {}]
  /\ resending = [p \in Role |-> FALSE]
  /\ turns = [p \in Role |-> << >>] /\ audits = [p \in Role |-> << >>]
  /\ controls = [p \in Role |-> 0]
  /\ snapshot = [p \in Role |-> None] /\ report = [p \in Role |-> None]
  /\ late = {}
  /\ incarnation = [p \in Role |-> 0]
  /\ crashes = 0 /\ lapses = 0 /\ spares = 0
  /\ torn = FALSE /\ excused = FALSE
  /\ game = [engine |-> NewEngine, length |-> 0]

\* What a running peer does by itself.
Program(p) ==
  \/ SendCommit(p) \/ SendReveal(p) \/ ApplyOwn(p)
  \/ ReceiveDuplicate(p) \/ ReceiveConflict(p) \/ ReceiveEarly(p)
  \/ ReceiveCommit(p) \/ ReceiveReveal(p)
  \/ SendFinalAudit(p) \/ ReceiveAudit(p) \/ EmergencyAudit(p)
  \/ OfferResume(p) \/ IgnoreOffer(p) \/ ResendCommit(p) \/ ResendReveal(p)
  \/ LapseOverdue(p)

Next ==
  \/ \E p \in Role : Program(p)
  \/ \E p \in Role : LapseSlow(p) \/ Crash(p) \/ Restart(p)
  \/ \E m \in late : DeliverLate(m)

Spec == Init /\ [][Next]_vars

\* A running loop keeps running: its sends retry and its waits poll, each
\* under a deadline.  Nothing is promised about the network's spare copies,
\* nor that a crashed peer is ever started again.
FairSpec == Spec /\ \A p \in Role : WF_vars(Program(p))
-----------------------------------------------------------------------------
(* What a third party finds in the two saved logs *)

\* verify_log: our records, and those of the rival whose nonce was revealed.
SealsHold(p) ==
  \A r \in Range(own[p]) \cup Range(their[p]) :
    "nonce" \in DOMAIN r => r.commit = CommitHash(r.payload, r.nonce)

\* recompute_digest: every logged action must be legal on a new engine.
Recomputes(p) ==
  LET actions == Actions(own[p], their[p])
      At(i) == Replay(SubSeq(actions, 1, i))
  IN  /\ \A i \in 1 .. Len(actions) :
           ActionLegal(At(i - 1), actions[i].role, actions[i].action)
      /\ EndStateDigest(At(Len(actions))) = EndStateDigest(engine[p])

VerifyLog(p) == IF SealsHold(p) /\ Recomputes(p) THEN "Verified OK" ELSE "TAMPERED"

\* cross_check: one world at the end, one outcome, and every record one side
\* sealed is what the other side received.
OneGame ==
  /\ EndStateDigest(engine["police"]) = EndStateDigest(engine["thief"])
  /\ report["police"].outcome = report["thief"].outcome
  /\ \A p \in Role : \A r \in Range(own[p]) : \E seen \in Range(their[Rival(p)]) :
       seen.commit = r.commit /\ seen.payload = r.payload

VerifyPair ==
  IF \E p \in Role : VerifyLog(p) = "TAMPERED" THEN "TAMPERED"
  ELSE IF OneGame THEN "Verified OK" ELSE "CROSS-MISMATCH"
-----------------------------------------------------------------------------
(* Properties *)

Durable(p) ==
  IF snapshot[p] # None THEN Actions(snapshot[p].own, snapshot[p].their)
  ELSE Actions(own[p], their[p])

\* As long as no half-turn was cut off after its commit left, the two logs are
\* one game seen at most two half-turns apart (the rival may answer a reveal
\* before its sender has applied it), whatever was duplicated, delayed,
\* lost with an inbox or replayed from a snapshot.
ReplicasAgree ==
  ~torn =>
    /\ \E p \in Role : /\ IsPrefix(Durable(Rival(p)), Durable(p))
                       /\ Len(Durable(p)) <= Len(Durable(Rival(p))) + 2
    /\ \A p \in Role : pc[p] \in {"loop", "await_reveal", "await_audit", "offering"}
                         => engine[p] = Replay(Durable(p))

Settled(p) == pc[p] = "done"

\* Two peers that both verified the other leave two logs a third party verifies
\* alone and together as one game (pair_verify.py:1-9), even after a half-turn
\* was cut off and decided again.
MutualAudit ==
  (\A p \in Role : Settled(p) /\ report[p].audit = "Verified OK") =>
    VerifyPair = "Verified OK" /\ \A p \in Role : report[p].digest_match

\* An honest peer is never accused: neither of a conflicting commit, an illegal
\* action or a flood, nor of a forged record at the audit.  And one crash outside
\* a send, a restart inside the rival's deadline, spare and late copies cost no
\* game.  (Two crashes may: the second peer's crash can take the first one's
\* resume offer with it.)
CrashCostsNothing ==
  ~torn => \A p \in Role : report[p] # None =>
    /\ report[p].error \in IF excused \/ crashes > 1 THEN {"none", "deadline"} ELSE {"none"}
    /\ "audit" \in DOMAIN report[p] => report[p].audit # "TAMPERED"

\* At-least-once delivery alone never shows in a report: every game played
\* without a crash or a lapse ends verified on both sides, with one end state.
CleanFinish ==
  (crashes = 0 /\ lapses = 0) =>
    \A p \in Role : Settled(p) =>
      /\ report[p].audit = "Verified OK" /\ report[p].digest_match
      /\ report[p].outcome = game.engine.outcome

\* Every run of a peer ends, classified or dead: no wait outlives its deadline.
EveryPeerSettles == \A p \in Role : []<>(pc[p] \in {"done", "down"})

Abstract == INSTANCE Engine WITH engine <- game.engine

\* The two replicas together are one engine: the furthest of them only ever
\* advances by an action that engine accepts.
ImplementsEngine == Abstract!Spec
=============================================================================
