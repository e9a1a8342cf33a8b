# P2P-Thief: a verification development

P2P-Thief is one peer of a two-player Cops-and-Robbers game played over
FastMCP without a server or a judge. Both peers run the same physics, seal
every half-turn with a commit, and audit each other at the end. This directory
models that system in TLA+, checks it with TLC on small instances and proves
its central facts with TLAPS.

## 1. Inventory

Paths are relative to `src/src/p2p_thief/`.

| Component | State it keeps | Operations | What makes it correct |
|---|---|---|---|
| Board, rules, engine (`domain/board.py`, `rules.py`, `engine.py`, `protocol.py`) | two cells, the barrier set, full-turn count, outcome, whose action is next, two scent fields | `police_move`, `police_place_barrier`, `thief_move`, `_close_full_turn`, `apply_action`, `end_state_digest` | capture is declared exactly when it holds, survival never masks it, the barrier law, every game ends |
| Sealed exchange, bookletter wire (`peer/sealing.py`, `domain/crypto.py`) | own and rival records, consumed keys, reorder buffer | `send_sealed`, `receive_sealed`, `_next`, `audit_theirs` | duplicates and reordering are absorbed, a changed commit is not, an honest rival is never accused |
| Geometric runtime (`peer/runtime.py`, `domain/state_machine.py`, `peer/deadline.py`) | engine replica, turn phase, turn index | `negotiate`, `_my_half_turn`, `_their_half_turn`, `play`, `_finish`, `_wait` | replicas agree, every wait ends, both reports agree |
| Crash-resume (`peer/resume.py`) | one snapshot file per sub-game | `checkpoint`, `rearm`, `attach`, `offer_resume`, `handle_controls`, `discard` | a crash between half-turns is invisible to the audit |
| Transport and door (`infra/mcp_client.py`, `mcp_server.py`, `duplicate_transport.py`) | one session, four inboxes, the settled flag | `call` with retry until the deadline, `deliver`, outbound duplication | at-least-once, per-message acknowledged, refused once settled |
| Hidden wire (`wire/hidden_runtime.py`, `hidden_turns.py`, `hidden_exchange.py`, `own_state.py`, `claims.py`, `codec.py`) | own cell, public barriers, per-sender step clocks, pending claim response | `my_half_turn`, `their_half_turn`, `send_concede`, `receive_turn`, `finish` | both peers reach one outcome without seeing each other's cell |
| Hidden audit (`wire/audit.py`, `audit_foreign.py`, `declared.py`, `dispute.py`) | none (pure replay) | `verify_reveals`, `reconstruct`, `consistent`, `foreign_verdict` | an honest game replays clean, a rewritten one does not |
| Hidden crash-resume (`wire/hidden_resume.py`) | one snapshot file per sub-game | `build_snapshot`, `rearm`, `handle_controls` | as above, and no reveal before the audit |
| Negotiation and handshake, both wires (`domain/negotiation.py`, `wire/repush.py`, `terms.py`, `lock.py`) | own agreement, verified rival agreement, late offers | `build_agreement`, `verify_agreement`, `validate_shared_terms`, `push_agreement`, `answer_reoffers`, `verify_terms_message`, `verify_declarations` | equal terms or no game; the side one pairs with is the rival's new instance; no side plays what the other refuses |
| Gatekeeper (`shared/gatekeeper.py`, `rate_limiter.py`) | token bucket, daily count, denial streak, lock, waiters | `execute`, `wait_for_token`, `check` | an exhausted bucket queues; the breaker locks only on a storm |
| Watchdog (`peer/watchdog.py`) | last beat, fired flag | `beat`, `check`, `stop` | fires on a stuck loop, and never on one that waits, sends or asks a provider |
| Run and settlement (`sdk/sdk.py`, `settlement.py`, `reporting.py`) | report, settled flag | `run_peer`, `emergency_audit`, `settle_report` | every game is classified and reported once |
| Series (`../../scripts/league_series.py`, `league_close.py`, `sdk/series.py`, `series_email.py`, `counted_ledger.py`, `shared/interlock.py`, `report/series_doc.py`, `archive.py`) | log files of both repos, ledger, lockfile, `[email]` posture | `main` (sweep, gate, window), `resume_plan`, `close_series`, `aggregate_series`, `maybe_email_series`, `refuse_repeat_counted`, `record_counted` | one window at a time, no game of another series in a report, one outcome for both teams, one counted series per rival, the league is mailed only when doubly armed |
| Scent, perception and evidence (`domain/scent.py`, `domain/belief.py`, `evidence.py`, `trail_forensics.py`, `peer/perception.py`, `foreign_scent.py`, `floor_tolerance.py`) | intensity fields, belief map, trust latch, baseline frame, envelope clock, rule-36 track | `update`, `observe`, `law_verdict`, `incredible_saturation`, `plateau_origin`, `diffuse` | an honest trail is never refused, a glitch costs two readings, the belief never loses the rival, the track is the rival's path |
| Thief's strategy (`strategy/thief_brain.py`, `doctrine.py`, `endgame.py`, `cage_forecast.py`) | stay counter, forecasts | `certified_move`, `_score`, `lethal gate`, `k_wall_region` | a certificate survives every police, no forecast promises more than the police leaves |
| Police brains, deception, learned policies (`strategy/`), GUI (`gui/`), documents (`report/`), LLM and e-mail back ends (`infra/`), CLI, configuration | heuristics, weights, documents | | not protocol logic |

### How the parts interact

The SDK builds one runtime per sub-game and starts an MCP server thread whose
four tools put payloads into in-memory queues. The game loop is single
threaded: it sends with blocking calls that retry until a deadline, and polls
its queues; each poll also drains control messages (a rival's `resume_offer`)
and, on the hidden wire, late agreement offers. After each completed half-turn
it replaces the snapshot file. When the loop ends, by outcome or by exception,
the SDK classifies the game, closes the door (`settled`) and writes artifacts.

A series is several such games, the odd ones played by the police repo and the
even ones by the thief repo. Each repo's runner launches its windows as
subprocesses and knows of the other only by the log files it finds; the runner
that sees every log closes the series, mails it and writes the ledger.

### What is hard here

* **At-least-once delivery.** A call that timed out may have been processed,
  and its copy may arrive after later messages.
* **Crashes between two sends of one half-turn**, and restarts from a snapshot
  that is older than what the rival has already consumed.
* **A crash during the audit**, when one side may already be gone.
* **Two-sided classification.** Nobody arbitrates: each peer's report must
  agree with the other's or be a technical loss.
* **Hidden captures.** On the hidden wire a capture is known only to the
  thief, and an unclaimed landing is known to nobody until the audit.
* **A second thread.** The watchdog judges a heartbeat that only the waits and
  sends renew; the gatekeeper, in between, has timeouts and retries of its own.
* **Evidence that arrives late or damaged.** A law check on a peer's trail is a
  self-inflicted denial of service when it refuses an honest one.
* **Promises taken on a belief** and kept against a police that moves later.
* **Coordination through files.** The runners start, crash and sweep on their
  own, and two series under the same terms share their game_uid.

## 2. The modules

| Module | Models | Composes / implements |
|---|---|---|
| `GamePhysics` | the board, the law of barriers, the win conditions and the effect of one action on a `GameEngine`, as operators | used by every game module |
| `Engine` | one `GameEngine` under its three operations | the abstract specification of the bookletter game |
| `Lockstep` | two peers of the bookletter wire: runtime, sealed exchange, phase machine, transport, crash-resume, final audit, classification and the offline replay of the pair of logs | implements `Engine` (`ImplementsEngine`) |
| `HiddenGame` | two peers of the hidden wire: half-turns, claims and concessions, public walls, per-sender numbering, hidden crash-resume, both tiers of the audit | |
| `Negotiation` | the terms, both wires' agreements and the verdict on the rival's, as operators | used by `Handshake` |
| `Handshake` | the agreement handshake of both wires between two addresses whose previous sub-game is still leaving | its end is the state `Lockstep` and `HiddenGame` begin in |
| `Gatekeeper` | `ApiGatekeeper.execute` for one service: bucket, quota, breaker, polling queue, retries | |
| `Watchdog` | the game loop of a peer, its gatekeeper and its watchdog thread in one time | composes `Gatekeeper`; `GameSpec` implements it |
| `Perception` | a police rival's walk and transmitted field, and what the thief's `Perception` makes of the frames | |
| `Escape` | the thief's brain on the engine, against any police and any belief | composes `Engine` |
| `Series` | both repos' runners over several series: sweep, tempo gate, windows, resume, close, mail, ledger, and the outcome both teams hash | takes from `HiddenGame!MutualAudit` that two verified logs of a window agree |
| `PhysicsProofs` | what the operators of `GamePhysics` return, the least-number principle, and facts about roles, actions, inboxes and the order of half-turns | used by `EscapeProofs`, `LockstepProofs` and `HiddenProofs` |
| `LockstepProofs` | the theorems about `Lockstep`: one peer, then two | |
| `HiddenProofs` | the theorems about `HiddenGame` | |
| `EscapeProofs`, `WatchdogProofs`, `HandshakeProofs`, `PerceptionProofs`, `SeriesProofs` | the other theorems of section 4 | |
| `MC*` | values of the constants for TLC | |

Definitions keep the names of the code in TLA+ spelling (`_check_captures_mid_round`
is `CheckCapturesMidRound`), and the `map` of `PROJECT.json` gives the lines
of each. An operator preceded by "Mutant:" is a plausible bug of the
definition it stands before; no specification uses one.

### How state and actions correspond to the code

* **`Engine`, `GamePhysics`.** `engine` is the Python object. Its two scent
  fields are a function of where the agents stood at the closed turns, so the
  record keeps that history (`emissions`). An operation that raises leaves the
  object as it was, so each operation is a predicate and a function.
* **`Lockstep`.** A step of a peer ends where the code blocks, sends, or could
  be killed with a different result: a half-turn is commit acknowledged
  (`SendCommit`), reveal acknowledged (`SendReveal`), applied and checkpointed
  (`ApplyOwn`); a received half-turn is the commit (`ReceiveCommit`) and the
  reveal with everything up to the checkpoint (`ReceiveReveal`). A hash is the
  value it hashes (it is injective on what is modelled) and a nonce is the
  incarnation of the process, which is what makes a re-decided commit differ.
  Hints, the intent flag and the brain's reasons are data nobody's control
  flow reads here; the brain is a choice from `Choice`.
* **`HiddenGame`.** The same cut: decided and sealed, acknowledged,
  checkpointed. `DecidePolice` and `DecideThief` are the two roles of
  `my_half_turn`; `AbsorbTurn`, `ConcedeTurn` and `RefuseTurn` are the three
  ways `their_half_turn` ends. The belief that gates a claim is a choice.
  Their reorder buffer is not a variable: each side sends its next message only
  after it has the rival's, so none arrives early. `Replayed` is one iteration
  of `audit.reconstruct`; `ForeignVerdict` is the tier for a rival whose payload
  schema is another one (continuity, movement and the unconceded capture).
* **`Negotiation`, `Handshake`.** A configuration is a record of the terms the
  agreement carries and of what is declared beside them; `Verdict` follows the
  order of the checks, because the order decides between a refusal and a
  bystander. `previous[p]` is the instance of the previous sub-game that still
  serves p's address: playing (its own waits answer late offers), settled (its
  door refuses) or gone. A bookletter peer pushes once and judges the first
  agreement that arrives; a reference peer re-pushes.
* **`Gatekeeper`, `Watchdog`.** Time passes in drain intervals and tokens are
  counted in integral fractions. There is one caller, the game loop, so the
  queue's FIFO order and the semaphore never bite. `Watchdog` gives that caller
  a life: it waits and sends in slices, and each slice beats (`Beat`); it talks
  through `Request`, `Poll` and `Call`, which do not. `Watch` and `Fire` are the
  thread's comparison and its shutdown, two steps. A loop blocked where no
  timeout reaches is `Hang`. Time may not pass a runnable thread's sleep
  (`MayPass`): that is what a sleep is.
* **`Perception`.** Intensities are integers in millionths, so a tolerance is a
  number. The order of a turn is the code's: the police's field takes the
  boundary's update, the police acts, the frame leaves, so a frame is one turn
  behind its sender. `Observe` is the whole of `Perception.observe` as far as it
  moves the trust, the baseline, the track and the support of the belief; every
  likelihood in the code is a positive factor except the barriers', so the
  support is what can be wrong for good. A rival follows the book's law or has
  declared the league's other one.
* **`Escape`.** A decision sees a belief: its support, the cells likely enough
  for the certificate and perhaps a sharp peak, which need not be the police's
  cell. `Certified` is the exhaustive search of `endgame`, a function over the
  clock; that it is not sought on a broad support, or gives up at its node or
  time cap, is the choice of no certificate. `Forecast`, `DoctrineRoom` and the
  gate are the doctrine's numbers. A cage is looked for among the `SiteCap` sites
  nearest the landing (14 in the code), and on boards above `TunedGrid` (9 in the
  code) not at all: there only declared cuts are priced. What the ranks below
  leave open is a choice. `ThiefMisled` is a belief without the police in it.
* **`Series`.** A command of a repo is at `pc[r]`: waiting at the gate, in a
  window, closing, mailing, recording. Each repo has a `game.toml` of its own
  (`config`: the e-mail settings, and whether it names the rival that is met)
  and each command a `--counted` of its own (`counted`), as nothing in the code
  compares them; `EditConfig` is an operator who edits a file between two
  processes. A runner sweeps its logs only when its file names the rival. A log file is its series, game_uid,
  outcome and whether its window was counted; the series number is history,
  because the code cannot tell two series with one uid apart. "Recent enough"
  (`mtime >= since`) is the set `fresh`, which a start empties, a written log
  joins and `--resume` fills. The rival team's side is its log of each window.
  A log that fails to be written leaves the old file and either exit code.

## 3. The runs

Small enough to enumerate, large enough for each hazard to occur:

| Run | Instance | What it shows |
|---|---|---|
| `escape` | 3x3, 2 barriers, 3 turns, beliefs of one or two cells, 5 sites | the engine's verdicts are exact; a certified move survives every police, no forecast promises more than is left, the gate outranks a wrong peak |
| `perception` | 5x5, both laws, 6 turns, 3 events (steps, walls, stale frames, an empty frame, a restart, a serializer with a floor) | an honest trail is trusted, a stale frame costs two readings, the solved track is the path, the belief keeps the rival |
| `lockstep_resume` | 2x2, 2 rounds, at most one crash outside a send, one late copy | delivery alone never shows in a report; replicas, refinement of `Engine`, no accusation, no lost game |
| `lockstep_settles` | 2x2, 2 rounds, a crash and a lapse, inside a half-turn too | every running peer ends; a mutual "Verified OK" means one game and one outcome, and the replay of the two logs agrees |
| `watchdog` | a bucket of 2 calls, a breaker at 3, one retry, 3 half-turns, one hang | rate and breaker; a working loop is not shot, a stuck one is, every game ends |
| `handshake` | any two of fifteen configurations, one lapse | right counterpart, agreeing verdicts, compatible sides both pair |
| `hidden_resume` | 2x2, 3 thief steps, 2 walls, at most one crash outside a send, one late copy | both tiers of the audit clear both peers; walls, claims and the end come through a restart |
| `hidden_settles` | 2x2, 3 thief steps, standing agents and one of two walls, a crash and a lapse, mid-send and in the audit too | every running hidden peer ends; a mutual "Verified OK" means one end state |
| `series` | 2 series of 3 sub-games, 2 uids, a `game.toml` per repo that is complete or was never filled in, `--counted` or not for each command, a crash, a lost log | one window at a time; one counted uid; no mixed report when both repos name their rival; an uncounted window reaches the league only from a runner started without `--counted` |
| `series_rerun` | 1 series, one command by hand, a crash, a lost log | both teams sign one outcome, every command ends |
| `find_evidence`, `find_rematch` | as `hidden_*` and `series` | the findings of section 5 |

**Bounds.** On a 2x2 board every cell is within two steps, so a landing, a wall
on the thief and a full enclosure each take one or two half-turns of the cop; a
third round adds "play after an unnoticed event", and lets a police that
decided its wall again declare one beyond the quota its rival counted
(`RefuseTurn`), which is why `hidden_settles` trades movement for a third step. A 3x3 board is the least with
a cell of four neighbours, which is what a cage needs. On 5x5 a walk leaves the
kernel's radius behind, so that the envelope and the law check can disagree, and
six frames hold a stale one, the two readings it costs and one that is accepted
again; three broken ones in a row, which latch trust off, fit as well.
`MaxCrashes`, `MaxLapses`, `MaxLate`, `MaxGlitches`, `MaxSilences`,
`MaxRestarts` and `MaxEvents` bound what the environment may do and appear in
the guards of the environment's actions only. One crash suffices for each
recovery path; two crashes lose the first resume offer with the second peer's
inbox, which the code does not promise to survive (`CrashCostsNothing` says
"one"). `MaxOffers` bounds an inbox of agreements; a sender whose rival's inbox
is full waits, and the inbox is drained by the wait that owns it. In `watchdog`
the timeout (11) is exactly `LongestTalk`, the least for which the promise is
made, so one tick more of silence anywhere would break it; `Horizon` bounds the
stretch over which calls are counted. The configurations of `handshake` are the
shipped one of each wire and everything one step away from it. Three sub-games
are the least in which one repo waits for the other twice over; two series
suffice for every property that compares one with an earlier one. `MaxReruns`
bounds what an operator does by hand and `MaxLost` the windows that leave no log.
`SiteCap` and `TunedGrid` are no bounds of the model but the code's own: a cap of 5
leaves sites of a 3x3 board out, as 14 does on the shipped 7x7 (with every wall of
the reach in place of the capped sites, `RoomIsFloor` is violated in that run), and
a 3x3 board is below the tuned one.

**Gates.** `TornCrashes` allows a crash that loses something the snapshot does
not hold: between a send and its checkpoint, and on the hidden wire after the
game is over as well. It is off in `lockstep_resume` and `hidden_resume`, whose
properties the code does not keep there, and on in `lockstep_settles` and
`hidden_settles`. The history variables and fields `torn`, `excused`,
`unclaimed`, `patched`, `unrecorded`, `hung`, `revisited` and `onWall` record
that such a thing happened, so that a property can state what holds otherwise;
no guard but `Hang`'s own bound reads them.

**Deadlock** is not checked where the program stops (settled, crashed for good,
a finished game, the bound on turns); that nothing stops too early is what the
liveness properties say.

**Fairness.** `WF(Program(p))` for each peer: a running loop keeps running; its
sends retry, its waits poll every 0.25 s, and each has a deadline that the
model lets lapse as a forced step once nobody alive can end the wait
(`LapseOverdue`). No fairness for crashes, restarts, slow lapses or the
network's spare copies. `Handshake` also assumes that a previous sub-game ends
(its waits have deadlines) and that both sides start their next instance.
`GameSpec` of `Watchdog` assumes that time passes, that a runnable loop runs and
that the thread polls: neither the rival nor a stuck loop has to do anything, so
games end by the deadlines and by the thread. `Series` assumes that a command
that was given runs on: the gate has its half hour and a window ends because its
peer does (`EveryPeerSettles`); nobody is obliged to start anything. `Perception`
and `Escape` state safety only.

## 4. The proofs

Forty-eight theorems, for every value of the constants the named assumptions admit.
The assumptions are what the constructors and the configuration loader enforce
(`PhysicsAssumption`, `LockstepAssumption`, `GatekeeperAssumption`,
`WatchdogAssumption`, `HandshakeAssumption`, `PerceptionAssumption`,
`EscapeAssumption`, `SeriesAssumption`, `HiddenAssumption`). The bounds on
crashes, copies and lapses are arbitrary naturals in the proofs.

* **`PhysicsProofs`**: no theorem of its own. What a legal action makes of an
  engine (`ApplyActionFacts`), so that
  the other modules never open the physics again; and `LeastNumber`, every set of
  naturals has a least element, with which a statement about a whole log is proved
  by its first counterexample.
* **`EscapeProofs`**, first the engine alone: `TypeCorrect`, `CaptureIsExact`, `SurvivalIsEarned`,
  `BarriersArePaidFor` and, for an action property, `BarriersAreLawful`. The
  inductive invariant is their conjunction and two facts they lack. The barrier
  set is finite, without which its cardinality says nothing. And while a game is
  on the thief does not stand on a barrier: the landing check after a move looks
  at the cop's cell and at the escapes only, so `CaptureExact` would not survive
  a cop's move without it. `BrainPlaysTheGame` carries all of it over: with its
  plans forgotten, the brain and its police are the engine.
  Then what the brain promises.
  * `CageForecastIsFloor` (`RoomIsFloor`) rests on two facts: more walls never
    widen a region (`RegionShrinks`), and a cage smaller than the one the forecast
    tried can be filled up to it (`Padded`), so trying the sets of one size only
    is enough (`RoomPriced`). It is about boards up to `TunedGrid` and about walls
    on the capped sites, because the code promises no more.
    `CutForecastIsFloor` (`CutIsPriced`, which no run checks) is what it promises
    on every board: the cut of a declared line is priced.
  * `ForecastIsFloor`, `GateIsKept` and `CertificateIsKept` are about one reply.
    `Promised` is what a decision leaves behind in terms of the cell the police
    really has: the forecast over the support is no more than that cell's
    (`ForecastIsLeast`), a gated landing is outranked by a free one under either
    order (`GateRanksFirst`), and a move that survives against all of `likely`
    survives against that cell (`Foreseen`). `ReplyIs` lists what the police can
    answer, and each answer is one the promise looked at.
  * The search is a recursive function of the clock, and so is a region of the
    steps. `IterationExists` shows that such a function exists, so that both equal
    their defining equations (`SurvivingIs`, `RegionIs`), and a statement about all
    of their values is proved by its first counterexample.
  The property of the cage forecast speaks of the sites the code looks at: a police
  may wall a cell within the reach that is no site (four cells away, touching
  neither rim nor wall, for which a 3x3 board has no room), or one that the cap
  leaves out, and the room is then no floor.
* **`LockstepProofs`**, first one peer: what it keeps is coherent by itself, in every run,
  torn ones included. `Types` is the type invariant. `Local(p)` ties a peer's two
  logs to each other (an alternating game of legal actions), to its replica (the
  game replayed), to its consumed keys and reorder buffer, to the record it is
  sealing and to its file. It is what a restart relies on: `Replay` of a filed log
  is the engine the crash destroyed. `Replay` is a recursive function of the log's
  length; that it has a value, and that one record more is one action more, is
  shown on the first length at which it would fail. `Machine` is a by-product: the
  phase machine is never asked for a transition it does not list, because the
  control point determines the phase.
  Then two peers, in four layers.
  * `Induction`: `IInv` adds to the above, for runs in which no half-turn was cut
    off, `Faithful` (every message under way and everything a peer noted of its
    rival is what the rival sealed) and `Furthest` (the longer log is the game).
    Neither is inductive alone: `Faithful` needs that a restarted peer comes back
    behind nothing its rival has heard, which is what `~torn` says, and `Furthest`
    needs that a received reveal is the rival's own next record. From it follow
    `Agreement` (`ReplicasAgree`), and `Refinement`: the furthest replica steps as
    one `Engine`, by `EngineStep` and the fact that `GameStep` is the only way the
    longest log grows. `WholeRefinement` states it without the condition on
    behaviours, where crashes in a send and early lapses are switched off.
  * `Closes`: a disclosure is its sender's final log, and a verdict is about it.
    The audit code compares records one by one; `AuditRecords` of honest logs is
    computed here for logs of any length. With it `Honest`: nobody is accused.
  * `Decides` holds in torn runs, where the two logs may differ: a commit names
    one decision, because a nonce is used by one incarnation and one step only.
    Hence `Audited` (`MutualAudit`): two logs that verified each other live verify
    as a pair afterwards, with one end.
  * `Supplies` is about calm games, with at most one crash and no peer given up
    while it was alive. Each half-turn that left is locked, delivered, or its
    receiver is about to ask for it (`Remedy`). So when both wait, one of them has
    what it needs: no deadline is overdue, and `Unharmed` (`CrashCostsNothing`)
    follows. `Finishes` adds that a peer that has left the turn loop has disclosed;
    with `Closes` that is `Clears` (`CleanFinish`).
* **`HiddenProofs`**: the hidden wire. `HiddenInvariant` is the inductive
  invariant: `Types` in every run, and `Untorn` while no half-turn was cut off.
  `Untorn` says nothing of memory or file as such but of what a peer has lived
  (`Kept`: its memory while it runs, its file while it is down), so that a crash
  outside a send, the restart after it, a resume offer, a duplicate and a late
  copy are all steps that leave it alone (`QuietKeeps`); the work is the four
  steps in which a peer lives something, one half-turn and one message of each
  side. What it needs beside the properties:
  * `Order` and `Books`: the two numberings never drift apart by more than the
    message under way, and a peer's consumed keys are exactly what it heard.
  * `PoliceSide` and `ThiefSide`: whose turn it is and which step is played is
    read off these two counts, and what the newest message may say (a win, a
    concession) is tied to its sender's board. `SurvivalHolds` (`SurvivalIsTrue`)
    is the thief's half of it carried to the police by `Walls`.
  * `Walls`: the two wall sets are equal, or the police's newest message is the
    difference and the quota still admits it, so an honest police is never
    refused (`RefuseTurnNever`). From it `WallsHold` (`WallsAgree`).
  * `Claims`: a claim that was heard is answered in the thief's memory until it
    speaks and in its newest message afterwards, through a restart of either.
    From it the action property `ClaimsAnswered` (`EveryClaimAnswered`).
  * `Posted`: whatever the network still holds is the rival's newest message or
    one already consumed, so late copies are absorbed as duplicates.
  `CrashIsFree` (`CrashCostsNothing`) adds `FInv`. Nobody is ever accused while
  no half-turn was cut off (`Errors`). With at most one crash and no deadline
  that lapsed early (`Flawless`), a message its receiver has not heard is in its
  inbox or will be asked for by an offer under way (`Underway`), so two peers
  never starve each other (`NoStarvation`) and no deadline has to lapse; the end
  of a game is on its way to the rival as well (`Finals`), so both leave for the
  audit.
  `ForeignFair` (`ForeignJudgedFairly`) adds `TInv`, about what the records say.
  Every step is one of five, or leaves what was lived alone (`StepsLived`): a
  half-turn of either side, a message heard by either, a concession. `Past`
  follows the records through them: each side's are its half-turns in order, lead
  cell by cell to where it stands (`Trail`) and hold the walls that stand
  (`WallsPlaced`), and what was heard is what the rival sealed (`Copied`); a
  thief that has not conceded was free on every cell once the walls of that round
  stood (`Stood`). `Ends` says which message an outcome rests on, and `Disclosed`
  that an audit under way is the whole record of a side that has ended. From
  these, the revealed commits are all found, steps and moves read clean
  (`HalfReadsClean`), and no wall accuses (`NothingConceals`).
  `AuditHonest` (`HonestAudit`) adds `RInv`, about the replay, while every landing
  was claimed. `Entries` sorts the records of two logs by step and side; that the
  result is the alternating sequence of the half-turns (`Merged`) is shown by
  comparing ranks with counts and needs no induction over the sort (`Aligned`,
  `EntriesMerged`). `Joint` is the game the two have lived, read off both peers'
  boards and the message under way. `Replays`: what a peer replays from its logs
  is `Joint`, or `Joint` but for the newest half-turn, which it has not heard yet
  (`Front`). A half-turn adds one entry, so the fold over the longer log is one step
  on from the fold over the shorter one, and that step of the replay is
  what the live peer did (`ReplaysStep`). That is where claimed landings matter:
  after a claim a STAY of the thief concedes in the replay exactly when it
  conceded live (`Landings`), and `find_evidence` shows it false otherwise. At
  the end both replays are `Joint` with its outcome (`EndedReplay`), so no
  comparison of the audit finds a difference.
* **`WatchdogProofs`**: `RateIsBounded` rests on `Paid`: what the calls of a
  stretch cost and what is left in the bucket never exceed the first bucket and
  the refills since. `LockHolds` is an action property. `GameImplementsGatekeeper`
  shows that every step of the composed game is a step of the gatekeeper or
  leaves it alone, so both theorems hold of a game as well (`GameRateIsBounded`).
  `WatchdogSparesTheLiving` is the arithmetic the run cannot generalise: an
  invariant bounds the silence at each point of a talk by what the attempts made,
  the waits and the backoffs can have taken, so it never passes `LongestTalk`.
* **`HandshakeProofs`**: `CounterpartIsRight` and `VerdictsAgree`. An inbox holds
  only what an instance of the rival may have sent (`Running`). Of those,
  `AcceptedIsRight` and `RefusalIsRight` show that a verdict, taken on one side
  alone, says "accepted" only for the rival's new instance of a compatible
  configuration and "refused" only for an incompatible one; the symmetry of
  compatibility does the rest.
* **`PerceptionProofs`**: the run's six invariants. `HonestIsTrusted` and
  `TruthIsHeld` come first. For an undisturbed
  rival the observer's clock and baseline are the rival's own (`InStep`), and no
  cell of the field reads unless a rival that left the signed start could have
  marked it (`Anchored`), so both checks pass. A field of the other law never
  reaches the saturation the envelope looks at (`Faint`). The support holds the
  rival because each observation maps the old cell's successor into the new
  support, whatever frame came with it (`Grounded`); the exception is a rival
  that walled its own cell. The other four rest on `Whole`, which adds the
  observer's books, and on an exact account of one `Observe` (`ObserveWhole`).
  * `GlitchesAreCheap` (`GlitchCostsTwo`): every refused reading, and the one still
    in doubt while the last frame is not the field, is paid for by a stale frame
    (`Priced`). The proof showed that the property is about one stale frame at a
    time: two in a row break three transitions and do cost the trust, so it claims
    the trust for one and the price for any number.
  * `FloorIsTolerated` and `TrackFollows` need to know what zeroing residues does
    to the law. `CutCell` settles one cell: either the true emitter explains it,
    or no emitter does, or the tolerance puts it back. So whenever any emitter is
    found the true one is among them (`CutSolves`), and `Solved` returns nobody
    else. Both hold for a floor below 40000 millionths, the kernel's least
    deposit; the shipped tolerance is 6000. A serializer that zeroed more would
    zero fresh deposits too.
  * `PinIsNear` (`PinNearTruth`): an accepted head is the last boundary or nothing
    (`Fresh`), and the rival is a step from there (`Behind`).
* **`SeriesProofs`**: `SeriesIsOneSequence` and `CountedOnce`. A runner's windows
  left to play are a tail of its own; a log is fresh only when its window was
  ended in this series; whoever plays found the log of the window before. The
  one with the later window would then have found the log of a window the other
  has not played. For the counted reports: a repo that is reporting plays
  nothing, so its own logs back its document (`Backed`); two that report at once
  report one uid (`SameDoc`); no ledger speaks against a report let through
  (`Unopposed`); and a counted report is in a ledger or about to be (`Booked`).
  The last two, `ReportsAreUnmixed` and `LeagueMailIsCounted`, are about a series
  no operator touched, in which both repos name their rival: a runner that was
  started then swept its logs (`CleanLogs`) and followed the other's log into every
  window it was through (`Followed`), so when it closes both were started
  (`BothStarted`), every slot holds a log of this series with the counted flag of
  its own runner (`OwnRows`), and no runner starts again after a mail. Without the
  names neither holds, and that the two flags are equal is nowhere ensured
  (section 5).

Only model-checked: `MutualAudit` of `HiddenGame`, `ClosedAlike`, and every
liveness property. `MutualAudit` speaks of torn games too, where a half-turn was
decided again after its first version left and finals carry the number their
receiver expected, so the two numberings that `Order` and `Merged` rest on no
longer agree; it needs an invariant of its own for such runs and has not been attempted.
Induction over data is within reach where the step can be stated with sets and
numbers (as above: the library's induction theorems take an operator and cannot
be applied, the least-number principle takes a set and can). Liveness under
fairness is beyond the installed provers.

## 5. Findings

Disagreements between the code and what it says of itself, each shown by a run
that expects a violation; `PROJECT.json` quotes the lines.

1. `find_evidence`: the hidden replay takes any STAY after an unclaimed landing
   as a concession, and the rest of an honest game then reads TAMPERED.
2. `find_rematch`: the ledger compares game_uids, and a second series under the
   same terms has the same one, so it passes the guard as a "re-close", is
   mailed as a counted series and overwrites the first one's entry.

Four more are stated as properties and have no run of their own; each fails
within seconds in the instance named:

* `AnchorSound` (`Perception`, `Perception.cfg` with one restart and four steps): the
  envelope's clock starts at zero in a resumed observer, so an anchor that
  `perception.py:58-62` calls sound by construction refuses an honest rival.
* `PlateauTrue` (`Perception` on the shipped 7x7 board): the opening walk (0,0)
  (1,0) (1,1) (1,2) (0,2) saturates the window of (0,1), and `plateau_origin` pins
  it there, although `evidence.py:96-102` says that it returns the emitter's own
  cell and that a walker's trail stays silent. The original function does so too.
* `LlmFailureIsFree` (`Watchdog` with `CallTimeout` 6, `Backoff` 1, three retries and
  `Timeout` 12, the shipped values in units of 5 s): a provider that fails slowly
  outlasts the watchdog, which closes the transport of a healthy peer, although
  `talk_providers.py:3` says that an LLM failure never blocks a game.
* `NoFriendlyMailed` (`Series`, `Series.cfg`): a police runner with `--counted`
  beside a thief runner without it closes the series and mails the thief's
  uncounted windows to the league, although `interlock.py:8-10` says that
  rehearsals and friendlies structurally cannot reach it. Each process checks its
  own flag, and a log does not say how its window was played.

Seen while modelling, without a property:

* A runner whose `game.toml` names no rival clears nothing and plays on
  (`archive.py:56-66` prints that the logs were not cleared), so under equal
  terms older logs can stand in its report;
  a file that names another rival sweeps that one's logs instead.
* `own_records` grows after the acknowledged reveal only, so a peer whose last
  acknowledgement was lost discloses one nonce too few and is called the
  forging side (`Lockstep`, one lapse).
* Each poll of the gatekeeper's queue is a denial for the breaker, so waiting
  for a token locks the service long before the wait's timeout.
* The hidden snapshot holds no outcome: a peer that crashes in the audit phase
  plays on and accuses its honest rival, which is why `HonestAudit` is checked
  without such a crash.
* A lapse in `WAITING_FOR_OPPONENT` or `COMMITTING` leaves the phase machine
  there, although the repository's README says lapses route it into
  `TECHNICAL_LOSS` (no report reads the phase).
* A crash between a consumed commit and the checkpoint makes the restarted peer
  commit another action for the same step, which `docs/evidence/crash-resume.md`
  excludes (the audits then disagree with the restarted peer, `MutualAudit`).
* Two paired peers answer each other's duplicated agreements, which each takes
  for a sign that the other lacks its own.
* A runner that lingers after its last window can see every log and close the
  series beside its twin: two mails, with one uid and one outcome.
* The lethal gate has nothing to say once the police's quota is spent, because
  the forecast then supposes no wall, although `config/game.toml` and
  `doctrine.py:195-197` speak of occupied landings as well; `GateHolds` is stated
  for a police with walls left.
* The floor-tolerance summary reports whether the rival's trail was solved for
  the book's law only, and its comment says the other law's field is consumed
  unsolved; it is solved now.

## 6. Not modelled

* GUI, documents other than the outcome and the logs, sysinfo, parsing and
  loading of configuration, training scripts and notebooks: formatting and I/O.
* The police brains, deception, the learned policies and the armed escape
  (`builder_escape`, which ranks above the gate when it is configured): they
  promise nothing a property could state, or are trained weights.
* The belief's weights, the hint tiers and the opponent's profile:
  floating-point inference. The belief's support is modelled.
* `McpTransport` below "retry until the deadline, in slices that beat":
  sessions, ports and the asyncio loop belong to libraries.
* The running standings (first meeting, diversity reward), another pairing's
  files and logs that cannot be read, in `Series`.
* Step zero, a sealed declaration the audit reads as evidence for the reports.
* The instant between the release of a runner's lockfile (`league_series.py:168`)
  and the end of its close: `Locked` keeps the repo until the command ends, so a
  second start beside a close in the same repo does not occur.
* `validate_counted_terms` (`settlement.py:23-26`) in `CountedReady`, and the
  `game_uid` both sides may declare (`terms.py:33, 167-175`) in `VerifyReferee`:
  each refuses more than the model does and accepts nothing else.
* What an expired resume offer does besides leaving its peer down: `Expire` keeps
  the inboxes, and nothing reads them afterwards.
* The cage doctrine disarmed (`doctrine.py:160-161`): `SharpChoices` has it armed,
  as it is shipped; without it a sharp peak takes the order without the gate.
* Malformed messages: no peer of the models sends one.
