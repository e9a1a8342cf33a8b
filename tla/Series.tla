------------------------------- MODULE Series -------------------------------
(***************************************************************************)
(* One pairing's series: NumGames sub-games, the odd ones played by our    *)
(* police repo and the even ones by our thief repo, each repo with a       *)
(* runner of its own (league_series.py; the police repo's twin is the same *)
(* script).  A runner sweeps old logs aside, plays its windows in turn,    *)
(* waits before each for the previous sub-game's log, and closes the       *)
(* series when every log is there: aggregate, refuse a repeat, emit, mail, *)
(* record in the ledger.                                                   *)
(*                                                                         *)
(* The rival team runs the same code on its own logs (theirs).  A game_uid *)
(* is derived from the terms, so two series may share one.                 *)
(*                                                                         *)
(* Each repo has a game.toml of its own and each command a --counted of    *)
(* its own; the code compares neither with the other repo's.               *)
(***************************************************************************)
EXTENDS Naturals, FiniteSets, FiniteSetsExt, Functions

CONSTANTS
  None,          \* no file, no entry, no winner
  NumGames,      \* sub-games of a series
  Uid,           \* the game_uids the terms of a series may derive
  Config,        \* what a repo's game.toml may say: e-mail settings, named rival
  Points,        \* outcome -> points of each role
  TieScore,
  MaxSeries,     \* bound on series of this pairing
  MaxReruns,     \* bound on commands an operator gives by hand
  MaxCrashes,    \* bound on runners that die
  MaxLost        \* bound on windows of a series that end without a log

Role == {"police", "thief"}
Other(r) == IF r = "police" THEN "thief" ELSE "police"
Slot == 1 .. NumGames
Played == {"capture", "survival"}

ASSUME SeriesAssumption ==
  /\ NumGames \in Nat /\ NumGames >= 3 /\ None \notin Uid
  /\ Config \subseteq [send : BOOLEAN, counted : BOOLEAN, league : BOOLEAN, named : BOOLEAN]
  /\ Points \in [Played -> [Role -> Nat]] /\ TieScore \in Nat
  /\ MaxSeries \in Nat /\ MaxReruns \in Nat /\ MaxCrashes \in Nat /\ MaxLost \in Nat

VARIABLES
  pc,        \* where each repo's command is
  todo,      \* the windows its runner has still to play
  failed,    \* has one of them failed?
  fresh,     \* the slots whose log is recent enough for its tempo gate
  doc,       \* the series result it is reporting: uid and settled logs
  logs,      \* the log file of each slot, in its owner's results directory
  theirs,    \* the outcome in the rival's log of each slot
  ledger,    \* the pairing's entry in each repo's counted_series.json
  mails,     \* the reports that were sent
  series,    \* the number of the current series
  uid,       \* its game_uid
  config,    \* the game.toml of each repo
  counted,   \* was its last command given --counted?
  started,   \* repos whose runner was started in it
  patched,   \* history: an operator intervened in it
  lost,      \* its windows that ended without one of their two logs
  unrecorded,\* history: a mail left and its ledger entry was never written
  reruns, crashes

command == <<pc, todo, failed, fresh, doc>>
files == <<logs, theirs, ledger, mails>>
terms == <<series, uid, config, counted, started>>
history == <<patched, lost, unrecorded, reruns, crashes>>
vars == <<command, files, terms, history>>

Owner(n) == IF n % 2 = 1 THEN "police" ELSE "thief"
Windows(r) == {n \in Slot : Owner(n) = r}

Init ==
  /\ pc = [r \in Role |-> "off"]
  /\ todo = [r \in Role |-> {}]
  /\ failed = [r \in Role |-> FALSE]
  /\ fresh = [r \in Role |-> {}]
  /\ doc = [r \in Role |-> None]
  /\ logs = [n \in Slot |-> None] /\ theirs = [n \in Slot |-> None]
  /\ ledger = [r \in Role |-> None]
  /\ mails = {}
  /\ series = 1 /\ uid \in Uid
  /\ config \in [Role -> Config] /\ counted = [r \in Role |-> FALSE]
  /\ started = {}
  /\ patched = FALSE /\ lost = 0 /\ unrecorded = FALSE
  /\ reruns = 0 /\ crashes = 0

Exit(r) ==
  /\ pc' = [pc EXCEPT ![r] = "off"]
  /\ todo' = [todo EXCEPT ![r] = {}]
  /\ failed' = [failed EXCEPT ![r] = FALSE]
  /\ fresh' = [fresh EXCEPT ![r] = {}]
  /\ doc' = [doc EXCEPT ![r] = None]

\* The teams agree on another series, under the same terms or under new ones.
NextSeries ==
  /\ series < MaxSeries /\ \A r \in Role : pc[r] = "off"
  /\ series' = series + 1
  /\ uid' \in Uid /\ config' \in [Role -> Config] /\ counted' = [r \in Role |-> FALSE]
  /\ started' = {} /\ patched' = FALSE /\ lost' = 0
  /\ theirs' = [n \in Slot |-> None]
  /\ UNCHANGED <<command, logs, ledger, mails, unrecorded, reruns, crashes>>
-----------------------------------------------------------------------------
(* The runner of one repo *)

\* email_preflight, when the token is good: a counted series owes a report.
Preflight(r, flag) == flag => config[r].send

\* The --counted of the command that is given.
Flagged(r, flag) == counted' = [counted EXCEPT ![r] = flag]

\* Mutant: a fresh run keeps what the last series left behind.
SweptNothing(r) == logs

\* archive_for_pairing moves the logs of this repo's own directory aside, when its
\* game.toml names the rival that is met.  It guesses no pairing, and refuses no run.
Swept(r) ==
  [n \in Slot |-> IF Owner(n) = r /\ config[r].named THEN None ELSE logs[n]]

Intervene == reruns < MaxReruns /\ reruns' = reruns + 1 /\ patched' = TRUE

\* One command of a repo at a time: a runner's lockfile sees to it until it closes.
Locked(r) == pc[r] # "off"

\* A second start in one series is an operator's decision.  So is deleting
\* the lockfile of a runner that died, which comes with it.
StartRunner(r, flag) ==
  /\ ~Locked(r) /\ Preflight(r, flag) /\ Flagged(r, flag)
  /\ IF r \in started THEN Intervene ELSE UNCHANGED <<reruns, patched>>
  /\ pc' = [pc EXCEPT ![r] = "gate"]
  /\ todo' = [todo EXCEPT ![r] = Windows(r)]
  /\ logs' = Swept(r)
  /\ started' = started \cup {r}
  /\ UNCHANGED <<failed, fresh, doc, theirs, ledger, mails, series, uid, config,
                 lost, unrecorded, crashes>>

\* --resume: no sweep, and every existing log passes the gate.
ResumeRunner(r, windows, flag) ==
  /\ ~Locked(r) /\ Preflight(r, flag) /\ Flagged(r, flag) /\ Intervene
  /\ pc' = [pc EXCEPT ![r] = "gate"]
  /\ todo' = [todo EXCEPT ![r] = windows]
  /\ fresh' = [fresh EXCEPT ![r] = Slot]
  /\ UNCHANGED <<failed, doc, files, series, uid, config, started, lost, unrecorded, crashes>>

\* Every process loads game.toml at its start: an edit is for the next one.
EditConfig(r) ==
  /\ pc[r] \in {"off", "gate"} /\ Intervene
  /\ \E edited \in Config : config' = [config EXCEPT ![r] = edited]
  /\ UNCHANGED <<command, files, series, uid, counted, started, lost, unrecorded, crashes>>

Window(r) == Min(todo[r])

\* Mutant: the age of the previous log is not looked at.
GateOpenToAnyLog(r) ==
  \A n \in Slot : n = Window(r) - 1 => logs[n] # None

\* wait_for_previous: the first window waits for nothing.
GateOpen(r) ==
  \A n \in Slot : n = Window(r) - 1 => n \in fresh[r] /\ logs[n] # None

EnterWindow(r) ==
  /\ pc[r] = "gate" /\ todo[r] # {} /\ GateOpen(r)
  /\ pc' = [pc EXCEPT ![r] = "window"]
  /\ UNCHANGED <<todo, failed, fresh, doc, files, terms, history>>

\* Mutant: the gate waits for ever.
GateNeverLapses(r) == FALSE

\* wait_for_previous gives up after half an hour: the window is not launched.
GateLapses(r) ==
  /\ pc[r] = "gate" /\ todo[r] # {} /\ ~GateOpen(r)
  /\ todo' = [todo EXCEPT ![r] = @ \ {Window(r)}]
  /\ failed' = [failed EXCEPT ![r] = TRUE]
  /\ UNCHANGED <<pc, fresh, doc, files, terms, history>>

CountedReady(r) ==
  counted[r] => config[r].send /\ config[r].counted /\ config[r].league

\* build_log.  Its series and whether its window was counted are history: no file
\* says so.
Log(n, report) ==
  [series |-> series, uid |-> uid, outcome |-> report, counted |-> counted[Owner(n)]]

Written(n, report) ==
  IF report = "missing" THEN logs ELSE [logs EXCEPT ![n] = Log(n, report)]

\* Two sides that both end verified tell one story (HiddenGame!MutualAudit).
\* A log that could not be written leaves the file of an earlier attempt, and
\* the exit code does not tell: settle_report never raises.
EndWindow(r) ==
  /\ pc[r] = "window"
  /\ pc' = [pc EXCEPT ![r] = "gate"]
  /\ todo' = [todo EXCEPT ![r] = @ \ {Window(r)}]
  /\ IF CountedReady(r)
     THEN \E ours, rivals \in Played \cup {"unclean", "missing"}, clean \in BOOLEAN :
            /\ {ours, rivals} \subseteq Played => ours = rivals
            /\ ours # "missing" => clean = (ours \in Played)
            /\ lost' = lost + (IF "missing" \in {ours, rivals} THEN 1 ELSE 0)
            /\ lost' <= MaxLost
            /\ failed' = [failed EXCEPT ![r] = @ \/ ~clean]
            /\ logs' = Written(Window(r), ours)
            /\ theirs' = IF lost' > 0 THEN [n \in Slot |-> None]
                         ELSE [theirs EXCEPT ![Window(r)] = rivals]
            /\ fresh' = IF ours = "missing" THEN fresh
                        ELSE [q \in Role |-> IF pc[q] = "off" THEN fresh[q]
                                             ELSE fresh[q] \cup {Window(r)}]
     ELSE /\ failed' = [failed EXCEPT ![r] = TRUE]
          /\ UNCHANGED <<logs, theirs, fresh, lost>>
  /\ UNCHANGED <<doc, ledger, mails, terms, patched, unrecorded, reruns, crashes>>

\* close_series: closes nothing while a log is missing from both directories.
EndRun(r) ==
  /\ pc[r] = "gate" /\ todo[r] = {}
  /\ IF failed[r] \/ \E n \in Slot : logs[n] = None
     THEN Exit(r)
     ELSE pc' = [pc EXCEPT ![r] = "close"] /\ UNCHANGED <<todo, failed, fresh, doc>>
  /\ UNCHANGED <<files, terms, history>>

\* The series-result command, given by an operator.
CloseByHand(r, flag) ==
  /\ pc[r] = "off" /\ Flagged(r, flag) /\ Intervene
  /\ pc' = [pc EXCEPT ![r] = "close"]
  /\ UNCHANGED <<todo, failed, fresh, doc, files, series, uid, config, started,
                 lost, unrecorded, crashes>>
-----------------------------------------------------------------------------
(* The close: aggregate, refuse a repeat, emit, mail, record *)

UidIn(n) == IF logs[n] = None THEN None ELSE logs[n].uid

Votes(u) == Cardinality({n \in Slot : UidIn(n) = u})

\* _consensus_uid: a tie is disagreement.
Consensus(u) == Votes(u) > 0 /\ \A v \in Uid \ {u} : Votes(v) < Votes(u)

\* collect_logs keeps the logs of the series and names the others.
Kept(u) == [n \in Slot |-> IF UidIn(n) = u THEN logs[n] ELSE None]

\* require_settled: every sub-game has a log whose audit is clean.
Settled(rows) == \A n \in Slot : rows[n] # None /\ rows[n].outcome \in Played

\* Mutant: the twin repo's ledger is not consulted.
RepeatHere(r, u) == ledger[r] \notin {None, u}

\* refuse_repeat_counted: the first entry found, our own directory first.
Repeat(r, u) ==
  LET prior == IF ledger[r] # None THEN ledger[r] ELSE ledger[Other(r)]
  IN  prior \notin {None, u}

\* aggregate_series and the guard; the result file it emits is read by nobody.
Aggregate(r) ==
  /\ pc[r] = "close"
  /\ \/ \E u \in Uid :
          /\ Consensus(u) /\ Settled(Kept(u)) /\ ~(counted[r] /\ Repeat(r, u))
          /\ doc' = [doc EXCEPT ![r] = [uid |-> u, rows |-> Kept(u)]]
          /\ pc' = [pc EXCEPT ![r] = "mail"]
          /\ UNCHANGED <<todo, failed, fresh>>
     \/ /\ \A u \in Uid : Consensus(u) /\ Settled(Kept(u)) => counted[r] /\ Repeat(r, u)
        /\ Exit(r)
  /\ UNCHANGED <<files, terms, history>>

\* Mutant: the interlock looks at the config half alone.
MailAllowedHalfArmed(r) ==
  /\ CountedReady(r)
  /\ config[r].send
  /\ config[r].league => config[r].counted

\* ensure_counted_posture, then the mode, then the league's address.
MailAllowed(r) ==
  /\ CountedReady(r)
  /\ config[r].send
  /\ config[r].league => config[r].counted /\ counted[r]

\* What a mail reports, and history: the series and the uncounted windows in it.
Report(r) ==
  LET rows == doc[r].rows
  IN  [uid |-> doc[r].uid, counted |-> counted[r], league |-> config[r].league,
       series |-> {rows[n].series : n \in Slot}, friendly |-> {n \in Slot : ~rows[n].counted}]

NoMail(r) ==
  /\ pc[r] = "mail" /\ ~MailAllowed(r)
  /\ Exit(r) /\ UNCHANGED <<files, terms, history>>

Send(r) ==
  /\ pc[r] = "mail" /\ MailAllowed(r)
  /\ mails' = mails \cup {Report(r)}
  /\ pc' = [pc EXCEPT ![r] = "record"]
  /\ UNCHANGED <<todo, failed, fresh, doc, logs, theirs, ledger, terms, history>>

\* send_report raises: the provider may have taken the mail all the same.
SendFails(r) ==
  /\ pc[r] = "mail" /\ MailAllowed(r)
  /\ \/ mails' = mails /\ unrecorded' = unrecorded
     \/ mails' = mails \cup {Report(r)} /\ unrecorded' = (unrecorded \/ counted[r])
  /\ Exit(r)
  /\ UNCHANGED <<logs, theirs, ledger, terms, patched, lost, reruns, crashes>>

Record(r) ==
  /\ pc[r] = "record"
  /\ ledger' = IF counted[r] THEN [ledger EXCEPT ![r] = doc[r].uid] ELSE ledger
  /\ Exit(r)
  /\ UNCHANGED <<logs, theirs, mails, terms, history>>

Crash(r) ==
  /\ crashes < MaxCrashes /\ pc[r] # "off"
  /\ crashes' = crashes + 1
  /\ unrecorded' = (unrecorded \/ (pc[r] = "record" /\ counted[r]))
  /\ Exit(r)
  /\ UNCHANGED <<files, terms, patched, lost, reruns>>

Program(r) ==
  \/ EnterWindow(r) \/ GateLapses(r) \/ EndWindow(r) \/ EndRun(r)
  \/ Aggregate(r) \/ NoMail(r) \/ Send(r) \/ SendFails(r) \/ Record(r)

Next ==
  \/ NextSeries
  \/ \E r \in Role :
       \/ Program(r) \/ Crash(r) \/ EditConfig(r)
       \/ \E flag \in BOOLEAN :
            \/ StartRunner(r, flag) \/ CloseByHand(r, flag)
            \/ \E windows \in SUBSET Windows(r) \ {{}} : ResumeRunner(r, windows, flag)

Spec == Init /\ [][Next]_vars

\* A command that was given runs on: its waits have deadlines.
FairSpec == Spec /\ \A r \in Role : WF_vars(Program(r))
-----------------------------------------------------------------------------
(* build_series_result, as the team "us" or the team "them" computes it *)

Team == {"us", "them"}
RoleOf(team, n) == IF team = "us" THEN Owner(n) ELSE Other(Owner(n))

\* Mutant: the points of the cop go to whoever writes the report.
ScoreWithoutRoles(me, n, outcome) ==
  [t \in Team |-> Points[outcome][IF t = me THEN "police" ELSE "thief"]]

\* What team me credits each team with for a log of its own.
Score(me, n, outcome) ==
  [t \in Team |-> LET mine == RoleOf(me, n)
                  IN  Points[outcome][IF t = me THEN mine ELSE Other(mine)]]

\* max over the credited points; None when they are level.
Leader(points) ==
  CASE points["us"] > points["them"] -> "us"
    [] points["us"] < points["them"] -> "them"
    [] OTHER -> None

\* One row of sub_games[].
Entry(me, n, outcome) ==
  LET score == Score(me, n, outcome) IN
  [result |-> outcome, score |-> score, winner |-> Leader(score)]

Aggregated(rows) ==
  LET total == [t \in Team |-> MapThenSumSet(LAMBDA n : rows[n].score[t], Slot)]
      tie == total["us"] = total["them"]
      Winner(w) == Cardinality({n \in Slot : rows[n].winner = w})
  IN  [total |-> [t \in Team |-> total[t] + IF tie THEN TieScore ELSE 0],
       won |-> [t \in Team |-> Winner(t)], ties |-> Winner(None), winner |-> Leader(total)]

\* symmetric_outcome_signature: the rows and the aggregate both teams hash.
Outcome(me, outcome) ==
  LET rows == [n \in Slot |-> Entry(me, n, outcome[n])]
  IN  [rows |-> rows, aggregate |-> Aggregated(rows)]
-----------------------------------------------------------------------------
(* Properties *)

\* The series is one sequence across both repos (wait_for_previous,
\* league_series.py:109-113): left alone, the two runners never play two
\* windows at once, in whatever order they are started, crash or lapse.
OneSequence == ~patched => \E r \in Role : pc[r] # "window"

\* No operator intervened in the series, and both repos named their rival.
LeftAlone == ~patched /\ \A r \in Role : config[r].named

\* A report holds games of its own series only (archive.py:3-10), although an
\* earlier series may have left complete logs under the same game_uid, when both
\* repos are configured for the rival they meet: a runner that is not sweeps
\* nothing and plays on (archive.py:56-66).
NoMixedSeries ==
  LeftAlone => \A r \in Role : doc[r] # None => \A n \in Slot : doc[r].rows[n].series = series

\* Two teams that both settle a series sign the same outcome
\* (artifacts.py:43-49), also after windows were replayed, when every window
\* left its log on both sides.
ClosedAlike ==
  [][\A r \in Role :
       doc[r] = None /\ doc'[r] # None /\ lost = 0 /\ Range(theirs) \subseteq Played
         => Outcome("us", [n \in Slot |-> doc'[r].rows[n].outcome]) = Outcome("them", theirs)]_vars

\* The reports of counted series carry one game_uid, whichever repo closes
\* (counted_ledger.py:43-51), unless a mail left and was never recorded.
OneCountedUid ==
  ~unrecorded => \A m1, m2 \in mails : m1.counted /\ m2.counted => m1.uid = m2.uid

\* The league's address is written to by a command that was counted, and what it
\* is told of was counted as well, whichever logs lay about: an uncounted window can
\* only come from a runner that was itself started without --counted, so a series
\* whose runners agree mixes nothing and a friendly one never reaches the league
\* (interlock.py:5-10, league_series.py:86, 132, 166).
LeagueHearsCounted ==
  LeftAlone => \A m \in mails :
    m.league /\ series \in m.series =>
      m.counted /\ m.friendly \subseteq {n \in Slot : ~counted[Owner(n)]}

\* The claim of interlock.py:8-10, "Rehearsals and friendlies structurally cannot
\* reach the league inbox", of every window that is reported.
NoFriendlyMailed ==
  ~patched => \A m \in mails : m.league /\ series \in m.series => m.friendly = {}

\* Runners that wait for each other's logs all end, with or without a report.
EveryRunEnds == \A r \in Role : pc[r] # "off" ~> pc[r] = "off"

=============================================================================
