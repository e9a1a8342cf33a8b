---------------------------- MODULE SeriesProofs ----------------------------
(***************************************************************************)
(* For series of any length, and any number of series, crashes, lost logs  *)
(* and interventions: the two runners of a series left alone play one      *)
(* window at a time, and all counted reports carry one game_uid.  When     *)
(* both repos are configured for their rival, what the reports hold is     *)
(* games of the series itself, and the league hears of an uncounted one    *)
(* only when its runner was started without --counted.                     *)
(***************************************************************************)
EXTENDS Series, WellFoundedInduction, TLAPS

Types ==
  /\ pc \in [Role -> {"off", "gate", "window", "close", "mail", "record"}]
  /\ todo \in [Role -> SUBSET Slot] /\ \A r \in Role : todo[r] \subseteq Windows(r)
  /\ fresh \in [Role -> SUBSET Slot]
  /\ started \subseteq Role

\* A command that ended leaves nothing behind, one that plays has what to play.
Idle ==
  \A r \in Role : /\ pc[r] = "off" => todo[r] = {} /\ fresh[r] = {}
                  /\ pc[r] = "window" => todo[r] # {}

\* Left alone, only a runner that was started runs, and it was started once.
StartedOnce == \A r \in Role : pc[r] # "off" => r \in started

\* It plays its windows in turn: what it has left is the tail of them.
InTurn ==
  \A r \in Role : \A n \in todo[r] : \A m \in Windows(r) : m >= n => m \in todo[r]

\* A log is fresh to a runner only when its window was ended in this series.
FreshIsEnded ==
  \A r \in Role : \A n \in fresh[r] : Owner(n) \in started /\ n \notin todo[Owner(n)]

\* Whoever plays a window found the log of the one before it.
Opened ==
  \A r \in Role : pc[r] = "window" => todo[r] # {} /\ (Window(r) # 1 => Window(r) - 1 \in fresh[r])

Inv == Types /\ Idle /\ (~patched => StartedOnce /\ InTurn /\ FreshIsEnded /\ Opened)

-----------------------------------------------------------------------------
(* Windows *)

LEMMA MinIsLeast ==
  ASSUME NEW S \in SUBSET Nat, S # {}
  PROVE  Min(S) \in S /\ \A y \in S : Min(S) <= y
<1> DEFINE Less == {ss \in Nat \X Nat : ss[1] < ss[2]}
<1>1. IsWellFoundedOn(Less, Nat)
  BY NatLessThanWellFounded DEF OpToRel
<1> HIDE DEF Less
<1>2. PICK x \in S : \A y \in S : ~(<<y, x>> \in Less)
  BY <1>1, WFMin
<1>3. ASSUME NEW y \in S PROVE x <= y
  <2>1. x \in Nat /\ y \in Nat
    OBVIOUS
  <2>2. y < x => <<y, x>> \in Less
    BY <2>1 DEF Less
  <2> QED
    BY <1>2, <2>1, <2>2
<1> QED
  BY <1>3 DEF Min

LEMMA Slots ==
  /\ \A n \in Slot : n \in Nat /\ n >= 1 /\ Owner(n) \in Role
  /\ \A n \in Slot : n # 1 => n - 1 \in Slot /\ Owner(n - 1) = Other(Owner(n))
  /\ \A r \in Role : Other(r) \in Role /\ Other(r) # r
  /\ \A r \in Role : Windows(r) \subseteq Slot /\ \A n \in Windows(r) : Owner(n) = r
<1>1. \A n \in Slot : n \in Nat /\ n >= 1 /\ (n # 1 => n - 1 \in Slot)
  BY SeriesAssumption DEF Slot
<1>2. \A n \in Nat : n % 2 \in {0, 1} /\ (n >= 1 => (n % 2 = 1 <=> (n - 1) % 2 # 1))
  OBVIOUS
<1>3. \A n \in Slot : n # 1 => Owner(n - 1) = Other(Owner(n))
  BY <1>1, <1>2 DEF Owner, Other
<1> QED
  BY <1>1, <1>3 DEF Owner, Other, Windows, Role

LEMMA WindowIsFirst ==
  ASSUME Types, NEW r \in Role, todo[r] # {}
  PROVE  Window(r) \in todo[r] /\ \A n \in todo[r] : Window(r) <= n
<1>1. todo[r] \in SUBSET Nat
  BY Slots DEF Types
<1> QED
  BY <1>1, MinIsLeast DEF Window

\* A runner that is let in finds the other outside its windows: the one it waited
\* for was ended, and the one the other plays must wait for it.
LEMMA OneAtATime ==
  ASSUME Types, InTurn, FreshIsEnded,
         NEW r \in Role, NEW q \in Role, q # r,
         todo[r] # {}, Window(r) # 1 => Window(r) - 1 \in fresh[r],
         todo[q] # {}, Window(q) # 1 => Window(q) - 1 \in fresh[q],
         Window(r) < Window(q)
  PROVE  FALSE
<1> DEFINE m == Window(r)
           n == Window(q)
<1>1. /\ m \in todo[r] /\ \A k \in todo[r] : m <= k
      /\ n \in todo[q] /\ \A k \in todo[q] : n <= k
  BY WindowIsFirst
<1>2. m \in Windows(r) /\ n \in Windows(q) /\ m \in Nat /\ n \in Nat /\ m >= 1 /\ n \in Slot
  BY <1>1, Slots DEF Types
<1> HIDE DEF m, n
<1>3. m < n /\ n # 1 /\ (n # 1 => n - 1 \in fresh[q])
  BY <1>2 DEF m, n
<1>4. n - 1 \in Slot /\ Owner(n - 1) = r
  BY <1>2, <1>3, Slots DEF Other, Role
<1>5. n - 1 \notin todo[r]
  BY <1>3, <1>4 DEF FreshIsEnded
<1>6. n - 1 \in Windows(r) /\ n - 1 >= m
  BY <1>2, <1>3, <1>4 DEF Windows
<1> QED
  BY <1>1, <1>5, <1>6 DEF InTurn

LEMMA InvGivesOneSequence == Inv => OneSequence
<1> SUFFICES ASSUME Inv, ~patched, \A r \in Role : pc[r] = "window"
             PROVE  FALSE
  BY DEF OneSequence
<1>1. Types /\ InTurn /\ FreshIsEnded /\ Opened
  BY DEF Inv
<1>2. /\ "police" \in Role /\ "thief" \in Role
      /\ todo["police"] # {} /\ todo["thief"] # {}
  BY <1>1 DEF Opened, Role
<1>3. Window("police") # Window("thief")
  <2>1. Window("police") \in Windows("police") /\ Window("thief") \in Windows("thief")
    BY <1>1, <1>2, WindowIsFirst DEF Types
  <2> QED
    BY <1>2, <2>1, Slots
<1>4. Window("police") \in Nat /\ Window("thief") \in Nat
  BY <1>1, <1>2, WindowIsFirst, Slots DEF Types
<1>5. CASE Window("police") < Window("thief")
  BY <1>1, <1>2, <1>5, OneAtATime DEF Opened
<1>6. CASE Window("thief") < Window("police")
  BY <1>1, <1>2, <1>6, OneAtATime DEF Opened
<1> QED
  BY <1>3, <1>4, <1>5, <1>6

-----------------------------------------------------------------------------
(* The steps *)

LEMMA InvInit == Init => Inv
BY DEF Init, Inv, Types, Idle, StartedOnce, InTurn, FreshIsEnded, Opened, Role

\* A command that ends: what it had left is no longer played.
LEMMA ExitKeeps ==
  ASSUME Inv, NEW r \in Role, Exit(r), UNCHANGED <<started, patched>>
  PROVE  Inv'
<1> USE DEF Exit
<1>1. Types' /\ Idle'
  BY DEF Inv, Types, Idle
<1>2. ASSUME ~patched PROVE StartedOnce' /\ InTurn' /\ FreshIsEnded' /\ Opened'
  <2>1. StartedOnce /\ InTurn /\ FreshIsEnded /\ Opened
    BY <1>2 DEF Inv
  <2>2. /\ \A q \in Role : pc'[q] \in {pc[q], "off"} /\ todo'[q] \subseteq todo[q]
        /\ \A q \in Role : fresh'[q] \subseteq fresh[q]
        /\ \A q \in Role \ {r} : pc'[q] = pc[q] /\ todo'[q] = todo[q] /\ fresh'[q] = fresh[q]
        /\ pc'[r] = "off" /\ todo'[r] = {}
    BY DEF Inv, Types
  <2>3. StartedOnce'
    BY <2>1, <2>2 DEF StartedOnce
  <2>4. InTurn'
    BY <2>1, <2>2 DEF InTurn, Windows
  <2>5. FreshIsEnded'
    <3>1. \A q \in Role : \A n \in fresh[q] : Owner(n) \in Role
      BY Slots DEF Inv, Types
    <3> QED
      BY <2>1, <2>2, <3>1 DEF FreshIsEnded
  <2>6. Opened'
    BY <2>1, <2>2 DEF Opened, Window
  <2> QED
    BY <2>3, <2>4, <2>5, <2>6
<1> QED
  BY <1>1, <1>2 DEF Inv

\* A step that moves a command on, outside its windows.
LEMMA CommandKeeps ==
  ASSUME Inv, NEW r \in Role, NEW next \in {"gate", "close", "mail", "record"},
         pc' = [pc EXCEPT ![r] = next], pc[r] # "off",
         UNCHANGED <<todo, fresh, started, patched>>
  PROVE  Inv'
<1>1. /\ \A q \in Role : pc'[q] = "off" => pc[q] = "off"
      /\ \A q \in Role : pc'[q] # "off" => pc[q] # "off"
      /\ \A q \in Role : pc'[q] = "window" => pc[q] = "window"
      /\ Types'
  BY DEF Inv, Types
<1>2. Idle' /\ (~patched => StartedOnce' /\ InTurn' /\ FreshIsEnded' /\ Opened')
  BY <1>1 DEF Inv, Idle, StartedOnce, InTurn, FreshIsEnded, Opened, Window
<1> QED
  BY <1>1, <1>2 DEF Inv

LEMMA NextSeriesKeeps == Inv /\ NextSeries => Inv'
<1> SUFFICES ASSUME Inv, NextSeries PROVE Inv'
  OBVIOUS
<1>1. /\ UNCHANGED <<pc, todo, fresh>> /\ started' = {}
      /\ \A r \in Role : pc[r] = "off" /\ todo[r] = {} /\ fresh[r] = {}
  BY DEF NextSeries, command, Inv, Idle
<1>2. Types' /\ Idle'
  BY <1>1 DEF Inv, Types, Idle
<1>3. StartedOnce' /\ InTurn' /\ FreshIsEnded' /\ Opened'
  BY <1>1 DEF StartedOnce, InTurn, FreshIsEnded, Opened
<1> QED
  BY <1>2, <1>3 DEF Inv

LEMMA StartRunnerKeeps ==
  ASSUME Inv, NEW r \in Role, NEW flag \in BOOLEAN, StartRunner(r, flag)
  PROVE  Inv'
<1>1. /\ pc[r] = "off" /\ pc' = [pc EXCEPT ![r] = "gate"]
      /\ todo' = [todo EXCEPT ![r] = Windows(r)]
      /\ started' = started \cup {r} /\ fresh' = fresh
      /\ (r \in started => patched') /\ (r \notin started => patched' = patched)
  BY DEF StartRunner, Locked, Intervene
<1>2. Types' /\ Idle'
  BY <1>1, Slots DEF Inv, Types, Idle, Windows
<1>3. ASSUME ~patched' PROVE StartedOnce' /\ InTurn' /\ FreshIsEnded' /\ Opened'
  <2>1. r \notin started /\ StartedOnce /\ InTurn /\ FreshIsEnded /\ Opened
    BY <1>1, <1>3 DEF Inv
  <2>2. StartedOnce'
    BY <1>1, <2>1 DEF StartedOnce, Inv, Types
  <2>3. InTurn'
    BY <1>1, <2>1 DEF InTurn, Windows, Inv, Types
  <2>4. FreshIsEnded'
    <3> SUFFICES ASSUME NEW q \in Role, NEW n \in fresh[q]
                 PROVE  Owner(n) \in started' /\ n \notin todo'[Owner(n)]
      BY <1>1 DEF FreshIsEnded
    <3>1. Owner(n) \in started /\ n \notin todo[Owner(n)] /\ Owner(n) # r
      BY <2>1 DEF FreshIsEnded
    <3> QED
      BY <1>1, <3>1 DEF Inv, Types
  <2>5. Opened'
    BY <1>1, <2>1 DEF Opened, Window, Inv, Types
  <2> QED
    BY <2>2, <2>3, <2>4, <2>5
<1> QED
  BY <1>2, <1>3 DEF Inv

\* What an operator does by hand.
Intervention(r) ==
  \/ EditConfig(r)
  \/ \E flag \in BOOLEAN :
       \/ CloseByHand(r, flag)
       \/ \E windows \in SUBSET Windows(r) \ {{}} : ResumeRunner(r, windows, flag)

\* It leaves the types, and nothing left alone.
LEMMA InterventionKeeps ==
  ASSUME Inv, NEW r \in Role, Intervention(r)
  PROVE  Inv'
<1>1. ASSUME NEW flag \in BOOLEAN, CloseByHand(r, flag) PROVE Inv'
  <2>1. /\ pc' = [pc EXCEPT ![r] = "close"] /\ UNCHANGED <<todo, fresh, started>> /\ patched'
    BY <1>1 DEF CloseByHand, Intervene
  <2> QED
    BY <2>1 DEF Inv, Types, Idle
<1>2. ASSUME NEW flag \in BOOLEAN, NEW windows \in SUBSET Windows(r) \ {{}},
             ResumeRunner(r, windows, flag)
      PROVE  Inv'
  <2>2. /\ pc' = [pc EXCEPT ![r] = "gate"] /\ todo' = [todo EXCEPT ![r] = windows]
        /\ fresh' = [fresh EXCEPT ![r] = Slot] /\ UNCHANGED started /\ patched'
    BY <1>2 DEF ResumeRunner, Intervene
  <2>3. windows \in SUBSET Slot
    BY Slots
  <2>4. Types' /\ Idle'
    BY <2>2, <2>3 DEF Inv, Types, Idle, Windows
  <2> QED
    BY <2>2, <2>4 DEF Inv
<1>3. CASE EditConfig(r)
  <2>1. UNCHANGED <<pc, todo, fresh, started>> /\ patched'
    BY <1>3 DEF EditConfig, Intervene, command
  <2>2. Types'
    BY <2>1 DEF Inv, Types, Windows
  <2>3. Idle'
    BY <2>1 DEF Inv, Idle
  <2> QED
    BY <2>1, <2>2, <2>3 DEF Inv
<1> QED
  BY <1>1, <1>2, <1>3 DEF Intervention

LEMMA EnterWindowKeeps ==
  ASSUME Inv, NEW r \in Role, EnterWindow(r)
  PROVE  Inv'
<1>1. /\ pc[r] = "gate" /\ pc' = [pc EXCEPT ![r] = "window"] /\ todo[r] # {} /\ GateOpen(r)
      /\ UNCHANGED <<todo, fresh, started, patched>>
  BY DEF EnterWindow, terms, history
<1>2. Types' /\ Idle'
  BY <1>1 DEF Inv, Types, Idle
<1>3. ASSUME ~patched PROVE StartedOnce' /\ InTurn' /\ FreshIsEnded' /\ Opened'
  <2>1. StartedOnce /\ InTurn /\ FreshIsEnded /\ Opened
    BY <1>3 DEF Inv
  <2>2. StartedOnce' /\ InTurn' /\ FreshIsEnded'
    BY <1>1, <2>1 DEF StartedOnce, InTurn, FreshIsEnded, Inv, Types
  <2>3. Window(r) # 1 => Window(r) - 1 \in fresh[r]
    <3>1. Window(r) \in Slot
      BY <1>1, WindowIsFirst DEF Inv, Types
    <3> QED
      BY <1>1, <3>1, Slots DEF GateOpen
  <2>4. Opened'
    BY <1>1, <2>1, <2>3 DEF Opened, Window, Inv, Types
  <2> QED
    BY <2>2, <2>4
<1> QED
  BY <1>1, <1>2, <1>3 DEF Inv

\* A window that ends, played or not: its log is fresh to those who run.
LEMMA WindowOverKeeps ==
  ASSUME Inv, NEW r \in Role, pc[r] # "off", pc' = [pc EXCEPT ![r] = "gate"],
         todo[r] # {},
         todo' = [todo EXCEPT ![r] = @ \ {Window(r)}],
         UNCHANGED <<started, patched>>,
         fresh' \in {fresh, [q \in Role |-> IF pc[q] = "off" THEN fresh[q]
                                           ELSE fresh[q] \cup {Window(r)}]}
  PROVE  Inv'
<1>0. Window(r) \in Slot
  BY WindowIsFirst DEF Inv, Types
<1>1. /\ \A q \in Role : fresh[q] \subseteq fresh'[q] /\ fresh'[q] \subseteq fresh[q] \cup {Window(r)}
      /\ \A q \in Role : pc[q] = "off" => fresh'[q] = fresh[q]
  BY DEF Inv, Types
<1>2. Types' /\ Idle'
  <2>1. fresh' \in [Role -> SUBSET Slot]
    BY <1>0 DEF Inv, Types
  <2> QED
    BY <1>1, <2>1 DEF Inv, Types, Idle
<1>3. ASSUME ~patched PROVE StartedOnce' /\ InTurn' /\ FreshIsEnded' /\ Opened'
  <2>1. StartedOnce /\ InTurn /\ FreshIsEnded /\ Opened
    BY <1>3 DEF Inv
  <2>2. /\ Window(r) \in todo[r] /\ Window(r) \in Slot /\ Owner(Window(r)) = r
        /\ \A n \in todo[r] : Window(r) <= n
    BY <1>3, WindowIsFirst, Slots DEF Inv, Types
  <2>3. StartedOnce'
    BY <2>1 DEF StartedOnce, Inv, Types
  <2>4. InTurn'
    <3> SUFFICES ASSUME NEW q \in Role, NEW n \in todo'[q], NEW m \in Windows(q), m >= n
                 PROVE  m \in todo'[q]
      BY DEF InTurn, Windows
    <3>1. n \in todo[q] /\ m \in todo[q]
      BY <2>1 DEF InTurn, Inv, Types
    <3>2. CASE q = r
      <4>1. n # Window(r) /\ Window(r) <= n /\ n \in Nat /\ m \in Nat /\ Window(r) \in Nat
        BY <2>2, <3>1, <3>2, Slots DEF Inv, Types
      <4> QED
        BY <3>1, <3>2, <4>1 DEF Inv, Types
    <3>3. CASE q # r
      BY <3>1, <3>3 DEF Inv, Types
    <3> QED
      BY <3>2, <3>3
  <2>5. FreshIsEnded'
    <3> SUFFICES ASSUME NEW q \in Role, NEW n \in fresh'[q]
                 PROVE  Owner(n) \in started /\ n \notin todo'[Owner(n)]
      BY DEF FreshIsEnded
    <3>1. CASE n = Window(r)
      BY <2>1, <2>2, <3>1 DEF StartedOnce, Inv, Types
    <3>2. CASE n # Window(r)
      <4>1. n \in fresh[q] /\ Owner(n) \in started /\ n \notin todo[Owner(n)]
        BY <1>1, <2>1, <3>2 DEF FreshIsEnded
      <4> QED
        BY <4>1 DEF Inv, Types
    <3> QED
      BY <3>1, <3>2
  <2>6. Opened'
    <3> SUFFICES ASSUME NEW q \in Role, pc'[q] = "window"
                 PROVE  todo'[q] # {} /\ (Window(q)' # 1 => Window(q)' - 1 \in fresh'[q])
      BY DEF Opened
    <3>1. q # r /\ pc[q] = "window" /\ todo'[q] = todo[q]
      BY DEF Inv, Types
    <3>2. Window(q)' = Window(q)
      BY <3>1 DEF Window
    <3> QED
      BY <1>1, <2>1, <3>1, <3>2 DEF Opened
  <2> QED
    BY <2>3, <2>4, <2>5, <2>6
<1> QED
  BY <1>2, <1>3 DEF Inv

LEMMA ProgramKeeps ==
  ASSUME Inv, NEW r \in Role, Program(r)
  PROVE  Inv'
<1> USE DEF terms, history
<1>1. CASE EnterWindow(r)
  BY <1>1, EnterWindowKeeps
<1>2. CASE GateLapses(r)
  <2>1. /\ pc[r] = "gate" /\ todo[r] # {} /\ pc' = [pc EXCEPT ![r] = "gate"]
        /\ todo' = [todo EXCEPT ![r] = @ \ {Window(r)}]
        /\ UNCHANGED <<fresh, started, patched>>
    BY <1>2 DEF GateLapses, Inv, Types
  <2> QED
    BY <2>1, WindowOverKeeps
<1>3. CASE EndWindow(r)
  <2>1. /\ pc[r] = "window" /\ todo[r] # {} /\ pc' = [pc EXCEPT ![r] = "gate"]
        /\ todo' = [todo EXCEPT ![r] = @ \ {Window(r)}]
        /\ UNCHANGED <<started, patched>>
    BY <1>3 DEF EndWindow, Inv, Idle
  <2>2. fresh' \in {fresh, [q \in Role |-> IF pc[q] = "off" THEN fresh[q]
                                           ELSE fresh[q] \cup {Window(r)}]}
    BY <1>3 DEF EndWindow
  <2> QED
    BY <2>1, <2>2, WindowOverKeeps
<1>4. CASE EndRun(r)
  BY <1>4, ExitKeeps, CommandKeeps DEF EndRun
<1>5. CASE Aggregate(r)
  BY <1>5, ExitKeeps, CommandKeeps DEF Aggregate
<1>6. CASE NoMail(r)
  BY <1>6, ExitKeeps DEF NoMail
<1>7. CASE Send(r)
  BY <1>7, CommandKeeps DEF Send
<1>8. CASE SendFails(r)
  BY <1>8, ExitKeeps DEF SendFails
<1>9. CASE Record(r)
  BY <1>9, ExitKeeps DEF Record
<1> QED
  BY <1>1, <1>2, <1>3, <1>4, <1>5, <1>6, <1>7, <1>8, <1>9 DEF Program

LEMMA InvStep == Inv /\ [Next]_vars => Inv'
<1> SUFFICES ASSUME Inv, [Next]_vars PROVE Inv'
  OBVIOUS
<1>1. CASE UNCHANGED vars
  BY <1>1 DEF vars, command, terms, history, Inv, Types, Idle, StartedOnce, InTurn,
              FreshIsEnded, Opened, Window
<1>2. ASSUME NEW r \in Role, Crash(r)
      PROVE  Inv'
  BY <1>2, ExitKeeps DEF Crash, terms
<1> QED
  BY <1>1, <1>2, NextSeriesKeeps, ProgramKeeps, StartRunnerKeeps, InterventionKeeps
     DEF Next, Intervention

-----------------------------------------------------------------------------
(* The theorem *)

\* However many sub-games a series has, its two runners never play two of them at
\* once while no operator intervenes, whatever crashes, lapses or leaves no log
\* (wait_for_previous, league_series.py:109-113).
THEOREM SeriesIsOneSequence == Spec => []OneSequence
<1> QED
  BY InvInit, InvStep, InvGivesOneSequence, PTL DEF Spec

-----------------------------------------------------------------------------
(* The counted reports *)

Reporting(r) == pc[r] \in {"mail", "record"}

Files ==
  /\ DOMAIN doc = Role /\ DOMAIN ledger = Role /\ DOMAIN logs = Slot
  /\ counted \in [Role -> BOOLEAN]

\* A repo that is reporting plays nothing: its own logs stay those it adds up.
Backed ==
  \A r \in Role : Reporting(r) =>
    /\ doc[r].uid \in Uid
    /\ \A n \in Windows(r) : logs[n] # None /\ logs[n].uid = doc[r].uid

\* Two repos that report at once therefore report one series.
SameDoc ==
  \A r, q \in Role : Reporting(r) /\ Reporting(q) => doc[r].uid = doc[q].uid

\* No ledger speaks against a counted report that was let through.
Unopposed ==
  /\ \A r, q \in Role : Reporting(r) /\ counted[r] => ledger[q] \in {None, doc[r].uid}
  /\ \A r, q \in Role : ledger[r] # None /\ ledger[q] # None => ledger[r] = ledger[q]

\* A counted report is in a ledger, or about to be.
BookedBy(q, u) == ledger[q] = u \/ (pc[q] = "record" /\ counted[q] /\ doc[q].uid = u)

Booked ==
  ~unrecorded =>
    \A m \in mails : m.counted => m.uid \in Uid /\ \E q \in Role : BookedBy(q, m.uid)

Books == Types /\ Idle /\ Files /\ Backed /\ SameDoc /\ Unopposed /\ Booked

LEMMA BooksGiveOneUid == Books => OneCountedUid
<1> SUFFICES ASSUME Books, ~unrecorded,
                    NEW m1 \in mails, NEW m2 \in mails, m1.counted, m2.counted
             PROVE  m1.uid = m2.uid
  BY DEF OneCountedUid
<1>1. /\ m1.uid \in Uid /\ m2.uid \in Uid /\ None \notin Uid
      /\ \E q \in Role : BookedBy(q, m1.uid)
      /\ \E q \in Role : BookedBy(q, m2.uid)
  BY SeriesAssumption DEF Books, Booked
<1> QED
  BY <1>1 DEF Books, SameDoc, Unopposed, Reporting, BookedBy

LEMMA BooksInit == Init => Books
BY DEF Init, Books, Types, Idle, Files, Backed, SameDoc, Unopposed, Booked, Reporting, Role

\* A step in which nobody starts to report, mails or records.
LEMMA AsideKeeps ==
  ASSUME Books, Types', Idle', Files',
         UNCHANGED <<ledger, mails>>, unrecorded => unrecorded',
         \A q \in Role : Reporting(q) => counted'[q] = counted[q],
         \A q \in Role : Reporting(q)' => pc'[q] = pc[q] /\ doc'[q] = doc[q],
         \A q \in Role : pc[q] = "record" /\ counted[q] => pc'[q] = "record" \/ unrecorded',
         \A q \in Role : Reporting(q) => \A n \in Windows(q) : logs'[n] = logs[n]
  PROVE  Books'
<1>1. \A q \in Role : Reporting(q)' => Reporting(q) /\ doc'[q] = doc[q]
  BY DEF Reporting
<1>2. Backed'
  BY <1>1 DEF Books, Backed, Windows
<1>3. SameDoc' /\ Unopposed'
  BY <1>1 DEF Books, SameDoc, Unopposed
<1>4. Booked'
  <2> SUFFICES ASSUME ~unrecorded', NEW m \in mails, m.counted
               PROVE  m.uid \in Uid /\ \E q \in Role : BookedBy(q, m.uid)'
    BY DEF Booked
  <2>1. m.uid \in Uid /\ \E q \in Role : BookedBy(q, m.uid)
    BY DEF Books, Booked
  <2>2. \A q \in Role : pc[q] = "record" /\ counted[q] =>
          pc'[q] = "record" /\ doc'[q] = doc[q] /\ counted'[q] = counted[q]
    BY DEF Reporting
  <2>3. PICK q \in Role : BookedBy(q, m.uid)
    BY <2>1
  <2>4. BookedBy(q, m.uid)'
    BY <2>2, <2>3 DEF BookedBy
  <2> QED
    BY <2>1, <2>4
<1> QED
  BY <1>2, <1>3, <1>4 DEF Books

\* The command of a repo that has not mailed, or whose report need not be
\* recorded, ends.
LEMMA ExitAside ==
  ASSUME Books, NEW r \in Role, Exit(r),
         UNCHANGED <<logs, ledger, mails, counted, started, patched>>,
         unrecorded => unrecorded',
         pc[r] = "record" /\ counted[r] => unrecorded'
  PROVE  Books'
<1> USE DEF Exit
<1>1. Types' /\ Idle' /\ Files'
  BY DEF Books, Types, Idle, Files
<1>2. /\ pc'[r] = "off"
      /\ \A q \in Role \ {r} : pc'[q] = pc[q] /\ doc'[q] = doc[q]
  BY DEF Books, Types, Files
<1> QED
  BY <1>1, <1>2, AsideKeeps DEF Reporting

\* A repo aggregates logs that all carry one game_uid: if the other is reporting,
\* its own are among them.
LEMMA AggregateKeeps ==
  ASSUME Books, NEW r \in Role, Aggregate(r)
  PROVE  Books'
<1> USE DEF files, terms, history
<1>1. CASE Exit(r) /\ UNCHANGED <<files, terms, history>>
  <2>1. pc[r] = "close"
    BY DEF Aggregate
  <2> QED
    BY <1>1, <2>1, ExitAside
<1>2. CASE ~Exit(r)
  <2>1. PICK u \in Uid :
          /\ Settled(Kept(u)) /\ ~(counted[r] /\ Repeat(r, u))
          /\ doc' = [doc EXCEPT ![r] = [uid |-> u, rows |-> Kept(u)]]
          /\ pc' = [pc EXCEPT ![r] = "mail"]
          /\ UNCHANGED <<todo, failed, fresh>>
          /\ UNCHANGED <<files, terms, history>>
    BY <1>2 DEF Aggregate
  <2>2. \A n \in Slot : logs[n] # None /\ logs[n].uid = u
    <3> SUFFICES ASSUME NEW n \in Slot PROVE logs[n] # None /\ logs[n].uid = u
      OBVIOUS
    <3>1. Kept(u)[n] # None
      BY <2>1 DEF Settled
    <3>2. UidIn(n) = u /\ logs[n] # None
      BY <3>1 DEF Kept
    <3> QED
      BY <3>2 DEF UidIn
  <2>3. /\ pc'[r] = "mail" /\ doc'[r].uid = u
        /\ \A q \in Role \ {r} : pc'[q] = pc[q] /\ doc'[q] = doc[q]
    BY <2>1 DEF Books, Types, Files
  <2>4. \A q \in Role : Reporting(q)' => doc'[q].uid = u
    <3> SUFFICES ASSUME NEW q \in Role, q # r, Reporting(q) PROVE doc[q].uid = u
      BY <2>3 DEF Reporting
    <3>1. \E n \in Slot : n \in Windows(q)
      <4>1. 1 \in Slot /\ 2 \in Slot /\ 1 % 2 = 1 /\ 2 % 2 = 0
        BY SeriesAssumption DEF Slot
      <4>2. Owner(1) = "police" /\ Owner(2) = "thief"
        BY <4>1 DEF Owner
      <4> QED
        BY <4>1, <4>2 DEF Windows, Role
    <3> QED
      BY <2>2, <3>1 DEF Books, Backed
  <2>5. Types' /\ Idle' /\ Files'
    BY <2>1 DEF Books, Types, Idle, Files, Aggregate
  <2>6. Backed' /\ SameDoc'
    BY <2>1, <2>2, <2>4, Slots DEF Backed, SameDoc, Windows
  <2>7. Unopposed'
    <3>1. counted[r] => \A q \in Role : ledger[q] \in {None, u}
      <4> SUFFICES ASSUME counted[r], NEW q \in Role PROVE ledger[q] \in {None, u}
        OBVIOUS
      <4>1. (IF ledger[r] # None THEN ledger[r] ELSE ledger[Other(r)]) \in {None, u}
        BY <2>1 DEF Repeat
      <4>2. q = r \/ q = Other(r)
        BY DEF Role, Other
      <4> QED
        BY <4>1, <4>2 DEF Books, Unopposed
    <3>2. counted' = counted /\ ledger' = ledger
      BY <2>1
    <3>3. ASSUME NEW p \in Role, NEW q \in Role, Reporting(p)', counted[p]
          PROVE  ledger[q] \in {None, u}
      <4>1. CASE p = r
        BY <3>1, <3>3, <4>1
      <4>2. CASE p # r
        <5>1. Reporting(p) /\ doc'[p] = doc[p]
          BY <2>3, <3>3, <4>2 DEF Reporting
        <5> QED
          BY <2>4, <3>3, <5>1 DEF Books, Unopposed
      <4> QED
        BY <4>1, <4>2
    <3> QED
      BY <2>4, <3>2, <3>3 DEF Books, Unopposed
  <2>8. Booked'
    <3>1. \A q \in Role : pc[q] = "record" => q # r
      BY DEF Aggregate
    <3> SUFFICES ASSUME ~unrecorded, NEW m \in mails, m.counted
                 PROVE  m.uid \in Uid /\ \E q \in Role : BookedBy(q, m.uid)'
      BY <2>1 DEF Booked
    <3>2. PICK q \in Role : BookedBy(q, m.uid)
      BY DEF Books, Booked
    <3>3. BookedBy(q, m.uid)'
      BY <2>1, <2>3, <3>1, <3>2 DEF BookedBy
    <3> QED
      BY <3>3 DEF Books, Booked
  <2> QED
    BY <2>5, <2>6, <2>7, <2>8 DEF Books
<1> QED
  BY <1>1, <1>2 DEF Aggregate

LEMMA SendKeeps ==
  ASSUME Books, NEW r \in Role, Send(r)
  PROVE  Books'
<1>1. /\ pc[r] = "mail" /\ mails' = mails \cup {Report(r)}
      /\ pc' = [pc EXCEPT ![r] = "record"]
      /\ UNCHANGED <<todo, fresh, started, doc, logs, ledger, counted, unrecorded>>
  BY DEF Send, terms, history
<1>2. /\ pc'[r] = "record" /\ \A q \in Role \ {r} : pc'[q] = pc[q]
      /\ \A q \in Role : Reporting(q)' => Reporting(q)
  BY <1>1 DEF Books, Types, Reporting
<1>3. Types' /\ Idle' /\ Files'
  BY <1>1 DEF Books, Types, Idle, Files
<1>4. Backed' /\ SameDoc' /\ Unopposed'
  BY <1>1, <1>2 DEF Books, Backed, SameDoc, Unopposed, Windows
<1>5. Booked'
  <2> SUFFICES ASSUME ~unrecorded, NEW m \in mails', m.counted
               PROVE  m.uid \in Uid /\ \E q \in Role : BookedBy(q, m.uid)'
    BY <1>1 DEF Booked
  <2>1. CASE m = Report(r)
    <3>1. m.uid = doc[r].uid /\ counted[r]
      BY <2>1 DEF Report
    <3>2. BookedBy(r, m.uid)'
      BY <1>1, <1>2, <3>1 DEF BookedBy
    <3> QED
      BY <1>1, <3>1, <3>2 DEF Books, Backed, Reporting
  <2>2. CASE m \in mails
    <3>1. PICK q \in Role : BookedBy(q, m.uid)
      BY <2>2 DEF Books, Booked
    <3>2. BookedBy(q, m.uid)'
      BY <1>1, <1>2, <3>1 DEF BookedBy
    <3> QED
      BY <2>2, <3>2 DEF Books, Booked
  <2> QED
    BY <1>1, <2>1, <2>2
<1> QED
  BY <1>3, <1>4, <1>5 DEF Books

\* A mail whose sender never learnt that it left is not recorded.
LEMMA SendFailsKeeps ==
  ASSUME Books, NEW r \in Role, SendFails(r)
  PROVE  Books'
<1>1. CASE mails' = mails /\ unrecorded' = unrecorded
  BY <1>1, ExitAside DEF SendFails, terms
<1>2. CASE mails' = mails \cup {Report(r)} /\ unrecorded' = (unrecorded \/ counted[r])
  <2>1. /\ pc[r] = "mail" /\ Exit(r)
        /\ UNCHANGED <<logs, ledger, started, counted>>
    BY DEF SendFails, terms
  <2>2. /\ pc'[r] = "off"
        /\ \A q \in Role \ {r} : pc'[q] = pc[q] /\ doc'[q] = doc[q]
    BY <2>1 DEF Exit, Books, Types, Files
  <2>3. Types' /\ Idle' /\ Files'
    BY <2>1 DEF Exit, Books, Types, Idle, Files
  <2>4. \A q \in Role : Reporting(q)' => Reporting(q) /\ doc'[q] = doc[q]
    BY <2>2 DEF Reporting
  <2>5. Backed' /\ SameDoc' /\ Unopposed'
    BY <2>1, <2>4 DEF Books, Backed, SameDoc, Unopposed, Windows
  <2>6. Booked'
    <3> SUFFICES ASSUME ~unrecorded', NEW m \in mails', m.counted
                 PROVE  m.uid \in Uid /\ \E q \in Role : BookedBy(q, m.uid)'
      BY <2>1 DEF Booked
    <3>1. ~unrecorded /\ ~counted[r]
      BY <1>2
    <3>2. m \in mails
      BY <1>2, <3>1 DEF Report
    <3>3. m.uid \in Uid /\ \E q \in Role : BookedBy(q, m.uid)
      BY <3>1, <3>2 DEF Books, Booked
    <3>4. PICK q \in Role : BookedBy(q, m.uid)
      BY <3>3
    <3>5. BookedBy(q, m.uid)'
      BY <2>1, <2>2, <3>1, <3>4 DEF BookedBy
    <3> QED
      BY <3>3, <3>5
  <2> QED
    BY <2>3, <2>5, <2>6 DEF Books
<1> QED
  BY <1>1, <1>2 DEF SendFails

LEMMA RecordKeeps ==
  ASSUME Books, NEW r \in Role, Record(r)
  PROVE  Books'
<1>1. /\ pc[r] = "record" /\ Exit(r)
      /\ ledger' = IF counted[r] THEN [ledger EXCEPT ![r] = doc[r].uid] ELSE ledger
      /\ UNCHANGED <<logs, mails, started, patched, counted, unrecorded>>
  BY DEF Record, terms, history
<1>2. CASE ~counted[r]
  BY <1>1, <1>2, ExitAside
<1>3. CASE counted[r]
  <2>1. /\ pc'[r] = "off"
        /\ \A q \in Role \ {r} : pc'[q] = pc[q] /\ doc'[q] = doc[q] /\ ledger'[q] = ledger[q]
        /\ ledger'[r] = doc[r].uid
    BY <1>1, <1>3 DEF Exit, Books, Types, Files
  <2>2. Types' /\ Idle' /\ Files'
    BY <1>1, <1>3 DEF Exit, Books, Types, Idle, Files
  <2>3. \A q \in Role : Reporting(q)' => Reporting(q) /\ doc'[q] = doc[q]
    BY <2>1 DEF Reporting
  <2>4. \A q \in Role : ledger[q] \in {None, doc[r].uid}
    BY <1>1, <1>3 DEF Books, Unopposed, Reporting
  <2>5. \A q \in Role : ledger'[q] \in {None, doc[r].uid}
    BY <2>1, <2>4
  <2>6. \A q \in Role : Reporting(q) => doc[q].uid = doc[r].uid
    BY <1>1 DEF Books, SameDoc, Reporting
  <2>7. Backed' /\ SameDoc' /\ Unopposed'
    BY <1>1, <2>3, <2>5, <2>6 DEF Books, Backed, SameDoc, Unopposed, Windows
  <2>8. Booked'
    <3> SUFFICES ASSUME ~unrecorded, NEW m \in mails, m.counted
                 PROVE  m.uid \in Uid /\ \E q \in Role : BookedBy(q, m.uid)'
      BY <1>1 DEF Booked
    <3>1. m.uid \in Uid /\ m.uid # None
      BY SeriesAssumption DEF Books, Booked
    <3>2. PICK q \in Role : BookedBy(q, m.uid)
      BY DEF Books, Booked
    <3>3. m.uid = doc[r].uid
      BY <2>4, <2>6, <3>1, <3>2 DEF Reporting, BookedBy
    <3>4. BookedBy(r, m.uid)'
      BY <2>1, <3>3 DEF BookedBy
    <3> QED
      BY <3>1, <3>4
  <2> QED
    BY <2>2, <2>7, <2>8 DEF Books
<1> QED
  BY <1>2, <1>3

\* The commands of a repo that is not reporting: they touch its own logs only.
LEMMA CommandAside ==
  ASSUME Books, Inv', NEW r \in Role, ~Reporting(r), ~Reporting(r)', Files',
         \A q \in Role \ {r} : pc'[q] = pc[q],
         UNCHANGED <<ledger, mails, unrecorded, doc>>,
         \A q \in Role \ {r} : counted'[q] = counted[q],
         \A n \in Slot : Owner(n) # r => logs'[n] = logs[n]
  PROVE  Books'
<1>1. \A q \in Role : Reporting(q) => \A n \in Windows(q) : logs'[n] = logs[n]
  BY DEF Windows
<1>2. \A q \in Role : Reporting(q)' => pc'[q] = pc[q] /\ doc'[q] = doc[q]
  BY DEF Reporting
<1>3. \A q \in Role : pc[q] = "record" => pc'[q] = "record"
  BY DEF Reporting
<1> QED
  BY <1>1, <1>2, <1>3, AsideKeeps DEF Inv

LEMMA RunnerKeepsBooks ==
  ASSUME Books, Inv', NEW r \in Role,
         \/ EnterWindow(r) \/ GateLapses(r) \/ Intervention(r)
         \/ \E flag \in BOOLEAN : StartRunner(r, flag)
  PROVE  Books'
<1> USE DEF terms, history, files
<1>1. /\ ~Reporting(r) /\ UNCHANGED <<ledger, mails, unrecorded, doc>>
      /\ \E flag \in BOOLEAN : counted' \in {counted, [counted EXCEPT ![r] = flag]}
      /\ logs' \in {logs, Swept(r)}
      /\ \E next \in {"gate", "close", "window", "off"} : pc' = [pc EXCEPT ![r] = next]
  <2>1. CASE \E flag \in BOOLEAN : StartRunner(r, flag)
    BY <2>1 DEF StartRunner, Locked, Flagged, Reporting
  <2>2. CASE \E flag \in BOOLEAN : CloseByHand(r, flag)
    BY <2>2 DEF CloseByHand, Flagged, Reporting
  <2>3. CASE EnterWindow(r)
    BY <2>3 DEF EnterWindow, Reporting
  <2>4. CASE GateLapses(r)
    <3>1. pc' = [pc EXCEPT ![r] = "gate"]
      BY <2>4 DEF GateLapses, Books, Types
    <3> QED
      BY <2>4, <3>1 DEF GateLapses, Reporting
  <2>5. CASE \E flag \in BOOLEAN :
               \E windows \in SUBSET Windows(r) \ {{}} : ResumeRunner(r, windows, flag)
    BY <2>5 DEF ResumeRunner, Locked, Flagged, Reporting
  <2>6. CASE EditConfig(r)
    <3>1. pc' = [pc EXCEPT ![r] = pc[r]] /\ pc[r] \in {"off", "gate"}
      BY <2>6 DEF EditConfig, command, Books, Types
    <3> QED
      BY <2>6, <3>1 DEF EditConfig, command, Reporting
  <2> QED
    BY <2>1, <2>2, <2>3, <2>4, <2>5, <2>6 DEF Intervention
<1>2. ~Reporting(r)' /\ \A q \in Role \ {r} : pc'[q] = pc[q]
  BY <1>1 DEF Books, Types, Reporting
<1>3. DOMAIN logs' = Slot /\ \A n \in Slot : Owner(n) # r => logs'[n] = logs[n]
  BY <1>1 DEF Swept, Books, Files
<1>4. Files' /\ \A q \in Role \ {r} : counted'[q] = counted[q]
  BY <1>1, <1>3 DEF Books, Files
<1> QED
  BY <1>1, <1>2, <1>3, <1>4, CommandAside

LEMMA EndWindowKeepsBooks ==
  ASSUME Books, Inv', NEW r \in Role, EndWindow(r)
  PROVE  Books'
<1> USE DEF terms
<1>1. /\ pc[r] = "window" /\ pc' = [pc EXCEPT ![r] = "gate"]
      /\ UNCHANGED <<ledger, mails, counted, unrecorded, doc>>
  BY DEF EndWindow
<1>2. ~Reporting(r) /\ ~Reporting(r)' /\ \A q \in Role \ {r} : pc'[q] = pc[q]
  BY <1>1 DEF Books, Types, Reporting
<1>3. Window(r) \in Windows(r)
  BY <1>1, WindowIsFirst DEF Books, Idle, Types
<1>4. \E log : logs' \in {logs, [logs EXCEPT ![Window(r)] = log]}
  BY DEF EndWindow, Written
<1>5. DOMAIN logs' = Slot /\ \A n \in Slot : Owner(n) # r => logs'[n] = logs[n]
  BY <1>3, <1>4, Slots DEF Books, Files
<1>6. Files'
  BY <1>1, <1>5 DEF Books, Files
<1> QED
  BY <1>1, <1>2, <1>5, <1>6, CommandAside

LEMMA NextSeriesKeepsBooks ==
  ASSUME Books, Inv', NextSeries
  PROVE  Books'
<1>1. /\ UNCHANGED <<pc, doc, logs, ledger, mails, unrecorded>>
      /\ \A r \in Role : ~Reporting(r) /\ ~Reporting(r)' /\ pc[r] # "record"
  BY DEF NextSeries, command, Reporting
<1>2. counted' \in [Role -> BOOLEAN]
  BY DEF NextSeries
<1>6. Types' /\ Idle' /\ Files' /\ Backed' /\ SameDoc'
  BY <1>1, <1>2 DEF Inv, Books, Files, Backed, SameDoc
<1>3. Unopposed'
  BY <1>1 DEF Books, Unopposed
<1>4. \A q \in Role : \A u : BookedBy(q, u) => BookedBy(q, u)'
  BY <1>1 DEF BookedBy
<1>5. Booked'
  BY <1>1, <1>4 DEF Books, Booked
<1> QED
  BY <1>3, <1>5, <1>6 DEF Books

LEMMA ProgramKeepsBooks ==
  ASSUME Books, Inv', NEW r \in Role, Program(r)
  PROVE  Books'
<1> USE DEF terms, history, files
<1>1. CASE EndRun(r)
  <2>1. CASE Exit(r)
    BY <1>1, <2>1, ExitAside DEF EndRun
  <2>2. CASE pc' = [pc EXCEPT ![r] = "close"] /\ UNCHANGED <<todo, failed, fresh, doc>>
    <3>1. ~Reporting(r) /\ ~Reporting(r)' /\ \A q \in Role \ {r} : pc'[q] = pc[q]
      BY <1>1, <2>2 DEF EndRun, Reporting, Books, Types
    <3>2. UNCHANGED <<ledger, mails, counted, unrecorded, doc, logs>>
      BY <1>1, <2>2 DEF EndRun
    <3>3. Files'
      BY <3>2 DEF Books, Files
    <3> QED
      BY <3>1, <3>2, <3>3, CommandAside
  <2> QED
    BY <1>1, <2>1, <2>2 DEF EndRun
<1>2. CASE NoMail(r)
  BY <1>2, ExitAside DEF NoMail
<1> QED
  BY <1>1, <1>2, RunnerKeepsBooks, EndWindowKeepsBooks, AggregateKeeps, SendKeeps,
     SendFailsKeeps, RecordKeeps DEF Program

LEMMA BooksStep == Inv /\ Books /\ [Next]_vars => Books'
<1> SUFFICES ASSUME Inv, Books, [Next]_vars PROVE Books'
  OBVIOUS
<1>1. Inv'
  BY InvStep
<1>2. CASE UNCHANGED vars
  <2>1. UNCHANGED <<pc, doc, logs, ledger, mails, counted, unrecorded>>
    BY <1>2 DEF vars, command, files, terms, history
  <2>2. Files'
    BY <2>1 DEF Books, Files
  <2> QED
    BY <1>1, <2>1, <2>2, AsideKeeps DEF Inv, Reporting
<1>3. ASSUME NEW r \in Role, Crash(r)
      PROVE  Books'
  BY <1>3, ExitAside DEF Crash, files, terms
<1> QED
  BY <1>1, <1>2, <1>3, NextSeriesKeepsBooks, ProgramKeepsBooks, RunnerKeepsBooks
     DEF Next, Intervention

\* However many counted series are closed, by whichever repo and over whatever logs
\* lie about, their reports carry one game_uid unless a mail left unrecorded
\* (counted_ledger.py:43-51).
THEOREM CountedOnce == Spec => []OneCountedUid
<1> QED
  BY InvInit, InvStep, BooksInit, BooksStep, BooksGiveOneUid, PTL DEF Spec
-----------------------------------------------------------------------------
(* What the reports hold: of any number of series, as long as no operator intervenes *)

\* Nothing on disk, in a report or in a mail is of a series to come.
Dated ==
  /\ series \in Nat
  /\ \A n \in Slot : logs[n] # None => logs[n].series \in 0 .. series
  /\ \A r \in Role : Reporting(r) => \A n \in Slot : doc[r].rows[n].series \in 0 .. series
  /\ \A m \in mails : m.series \subseteq 0 .. series

Shapes ==
  /\ Files /\ DOMAIN failed = Role
  /\ \A r \in Role : ~Reporting(r) => doc[r] = None

\* A log of slot n that its runner wrote in this series.
OfThisSeries(n, row) == row.series = series /\ row.counted = counted[Owner(n)]

Named == \A r \in Role : config[r].named

\* A runner configured for its rival swept its own logs aside before it wrote any.
CleanLogs ==
  \A r \in started : config[r].named =>
    \A n \in Windows(r) : logs[n] # None => OfThisSeries(n, logs[n])

\* It followed the other's log into every window it was through, unless it failed.
Followed ==
  \A r \in Role :
    pc[r] \in {"gate", "window"} /\ ~failed[r] =>
      \A n \in Windows(r) \ todo[r] : n # 1 => n - 1 \in fresh[r]

\* So both runners were started when one of them closes.
BothStarted == \A r \in Role : pc[r] = "close" \/ Reporting(r) => started = Role

OwnRows ==
  Named => \A r \in Role : Reporting(r) => \A n \in Slot : OfThisSeries(n, doc[r].rows[n])

Uncounted == {n \in Slot : ~counted[Owner(n)]}

\* Nobody is started after a mail left: the flags it was judged by are the last ones.
LeagueMail ==
  Named => \A m \in mails : series \in m.series =>
    /\ started = Role
    /\ m.league => m.counted /\ m.friendly \subseteq Uncounted

Papers ==
  /\ Shapes /\ Dated
  /\ ~patched => CleanLogs /\ Followed /\ BothStarted /\ OwnRows /\ LeagueMail

-----------------------------------------------------------------------------

LEMMA PapersInit == Init => Papers
BY DEF Init, Papers, Shapes, Files, Dated, CleanLogs, Followed, BothStarted, OwnRows,
       LeagueMail, Reporting, Role

\* A step that begins no series, reports nothing new and mails nothing.
LEMMA QuietKeeps ==
  ASSUME Inv, Papers, Shapes',
         UNCHANGED <<series, mails>>, patched => patched',
         ~patched' => config' = config,
         ~patched' => \A r \in started : counted'[r] = counted[r],
         \A r \in Role : Reporting(r)' => Reporting(r) /\ doc'[r] = doc[r],
         \A n \in Slot : \/ logs'[n] \in {logs[n], None}
                         \/ OfThisSeries(n, logs'[n]),
         ~patched' => \A r \in started' :
                        \/ r \in started
                        \/ config[r].named => \A n \in Windows(r) : logs'[n] = None,
         ~patched' => started \subseteq started' /\ started' \subseteq Role,
         ~patched' => Followed',
         ~patched' => \A r \in Role : pc'[r] = "close" => pc[r] = "close" \/ started = Role
  PROVE  Papers'
<1>1. Dated'
  <2>1. \A n \in Slot : logs'[n] # None => logs'[n].series \in 0 .. series
    BY DEF Papers, Dated, OfThisSeries
  <2> QED
    BY <2>1 DEF Papers, Dated
<1>2. ASSUME ~patched'
      PROVE  CleanLogs' /\ Followed' /\ BothStarted' /\ OwnRows' /\ LeagueMail'
  <2>1. CleanLogs /\ BothStarted /\ OwnRows /\ LeagueMail /\ started \subseteq Role
    BY <1>2 DEF Papers, Inv, Types
  <2>2. CleanLogs'
    <3> SUFFICES ASSUME NEW r \in started', config[r].named,
                        NEW n \in Windows(r), logs'[n] # None
                 PROVE  logs'[n].series = series /\ logs'[n].counted = counted'[r]
      BY <1>2, Slots DEF CleanLogs, Windows, OfThisSeries
    <3>1. n \in Slot /\ r \in started /\ Owner(n) = r /\ counted'[r] = counted[r]
      BY <1>2, Slots
    <3>2. CASE logs'[n] = logs[n]
      BY <2>1, <3>1, <3>2 DEF CleanLogs, OfThisSeries
    <3>3. CASE OfThisSeries(n, logs'[n])
      BY <3>1, <3>3 DEF OfThisSeries
    <3> QED
      BY <3>1, <3>2, <3>3
  <2>3. BothStarted'
    <3> SUFFICES ASSUME NEW r \in Role, pc'[r] = "close" \/ Reporting(r)'
                 PROVE  started' = Role
      BY DEF BothStarted
    <3>1. started = Role
      BY <1>2, <2>1 DEF BothStarted
    <3> QED
      BY <1>2, <3>1
  <2>4. started = Role => \A n \in Slot : counted'[Owner(n)] = counted[Owner(n)]
    BY <1>2, Slots
  <2>5. OwnRows'
    <3> SUFFICES ASSUME Named, NEW r \in Role, Reporting(r)', NEW n \in Slot
                 PROVE  /\ doc'[r].rows[n].series = series
                        /\ doc'[r].rows[n].counted = counted'[Owner(n)]
      BY <1>2 DEF OwnRows, OfThisSeries, Named
    <3>1. Reporting(r) /\ doc'[r] = doc[r] /\ started = Role
      BY <2>1 DEF BothStarted
    <3> QED
      BY <2>1, <2>4, <3>1 DEF OwnRows, OfThisSeries
  <2>6. LeagueMail'
    <3> SUFFICES ASSUME Named, NEW m \in mails, series \in m.series
                 PROVE  /\ started' = Role
                        /\ m.league => m.counted /\ m.friendly \subseteq Uncounted'
      BY <1>2 DEF LeagueMail, Named
    <3>1. started = Role /\ (m.league => m.counted /\ m.friendly \subseteq Uncounted)
      BY <2>1 DEF LeagueMail
    <3>2. Uncounted' = Uncounted
      BY <2>4, <3>1 DEF Uncounted
    <3> QED
      BY <1>2, <3>1, <3>2
  <2> QED
    BY <1>2, <2>2, <2>3, <2>5, <2>6
<1> QED
  BY <1>1, <1>2 DEF Papers

\* A command that ends.
LEMMA ExitQuiet ==
  ASSUME Inv, Papers, NEW r \in Role, Exit(r),
         DOMAIN ledger' = DOMAIN ledger,
         UNCHANGED <<logs, mails, series, config, counted, started, patched>>
  PROVE  Papers'
<1>1. /\ pc'[r] = "off" /\ doc'[r] = None /\ todo'[r] = {}
      /\ \A q \in Role \ {r} : /\ pc'[q] = pc[q] /\ doc'[q] = doc[q] /\ todo'[q] = todo[q]
                              /\ fresh'[q] = fresh[q] /\ failed'[q] = failed[q]
      /\ DOMAIN doc' = Role /\ DOMAIN failed' = Role
  BY DEF Exit, Inv, Types, Papers, Shapes, Files
<1>2. Shapes'
  BY <1>1 DEF Papers, Shapes, Files, Reporting
<1>3. ~patched => Followed'
  BY <1>1 DEF Papers, Followed, Windows
<1>4. \A q \in Role : Reporting(q)' => Reporting(q) /\ doc'[q] = doc[q]
  BY <1>1 DEF Reporting
<1>5. \A q \in Role : pc'[q] = "close" => pc[q] = "close"
  BY <1>1
<1>6. started \subseteq Role
  BY DEF Inv, Types
<1> QED
  BY <1>2, <1>3, <1>4, <1>5, <1>6, QuietKeeps

LEMMA StartQuiet ==
  ASSUME Inv, Papers, NEW r \in Role, NEW flag \in BOOLEAN, StartRunner(r, flag)
  PROVE  Papers'
<1>1. /\ pc[r] = "off" /\ pc' = [pc EXCEPT ![r] = "gate"]
      /\ todo' = [todo EXCEPT ![r] = Windows(r)] /\ logs' = Swept(r)
      /\ started' = started \cup {r}
      /\ UNCHANGED <<failed, fresh, doc, ledger, mails, series, config>>
      /\ counted' = [counted EXCEPT ![r] = flag]
      /\ (r \in started => patched') /\ (r \notin started => patched' = patched)
  BY DEF StartRunner, Locked, Intervene, Flagged
<1>2. /\ pc'[r] = "gate" /\ todo'[r] = Windows(r)
      /\ \A q \in Role \ {r} : pc'[q] = pc[q] /\ todo'[q] = todo[q]
      /\ DOMAIN logs' = Slot /\ \A n \in Slot : logs'[n] \in {logs[n], None}
      /\ (config[r].named => \A n \in Windows(r) : logs'[n] = None)
      /\ counted' \in [Role -> BOOLEAN] /\ \A q \in Role \ {r} : counted'[q] = counted[q]
  BY <1>1 DEF Inv, Types, Papers, Shapes, Files, Swept, Windows
<1>3. \A q \in Role : (Reporting(q)' <=> Reporting(q))
  BY <1>1, <1>2 DEF Reporting
<1>4. Shapes'
  BY <1>1, <1>2, <1>3 DEF Papers, Shapes, Files
<1>5. ~patched' => Followed'
  BY <1>1, <1>2 DEF Papers, Followed, Windows
<1>6. patched => patched'
  BY <1>1
<1>7. started' \subseteq Role /\ \A q \in Role : pc'[q] = "close" => pc[q] = "close"
  BY <1>1, <1>2 DEF Inv, Types
<1>8. \A q \in started' :
        q \in started \/ (config[q].named => \A n \in Windows(q) : logs'[n] = None)
  BY <1>1, <1>2
<1>9. ~patched' => \A q \in started : counted'[q] = counted[q]
  BY <1>1, <1>2 DEF Inv, Types
<1> QED
  BY <1>1, <1>2, <1>3, <1>4, <1>5, <1>6, <1>7, <1>8, <1>9, QuietKeeps

LEMMA InterventionQuiet ==
  ASSUME Inv, Papers, NEW r \in Role, Intervention(r)
  PROVE  Papers'
<1> USE DEF files, terms, command
<1>1. /\ pc[r] \in {"off", "gate"} /\ patched'
      /\ \E next \in {"off", "gate", "close"} : pc' = [pc EXCEPT ![r] = next]
      /\ \E flag \in BOOLEAN : counted' \in {counted, [counted EXCEPT ![r] = flag]}
      /\ UNCHANGED <<failed, doc, logs, ledger, mails, series, started>>
  <2>1. CASE \E flag \in BOOLEAN : CloseByHand(r, flag)
    BY <2>1 DEF CloseByHand, Intervene, Flagged
  <2>2. CASE \E flag \in BOOLEAN :
               \E windows \in SUBSET Windows(r) \ {{}} : ResumeRunner(r, windows, flag)
    BY <2>2 DEF ResumeRunner, Locked, Intervene, Flagged
  <2>3. CASE EditConfig(r)
    <3>1. pc' = [pc EXCEPT ![r] = pc[r]]
      BY <2>3 DEF EditConfig, Inv, Types
    <3> QED
      BY <2>3, <3>1 DEF EditConfig, Intervene
  <2> QED
    BY <2>1, <2>2, <2>3 DEF Intervention
<1>2. \A q \in Role : (Reporting(q)' <=> Reporting(q))
  BY <1>1 DEF Reporting, Inv, Types
<1>3. Shapes'
  BY <1>1, <1>2 DEF Papers, Shapes, Files
<1> QED
  BY <1>1, <1>2, <1>3, QuietKeeps

LEMMA EnterWindowQuiet ==
  ASSUME Inv, Papers, NEW r \in Role, EnterWindow(r)
  PROVE  Papers'
<1>1. /\ pc[r] = "gate" /\ pc' = [pc EXCEPT ![r] = "window"]
      /\ UNCHANGED <<todo, failed, fresh, doc, logs, ledger, mails, series, config,
                     counted, started, patched>>
  BY DEF EnterWindow, files, terms, history
<1>2. /\ pc'[r] = "window" /\ \A q \in Role \ {r} : pc'[q] = pc[q]
      /\ \A q \in Role : (Reporting(q)' <=> Reporting(q))
  BY <1>1 DEF Reporting, Inv, Types
<1>3. Shapes'
  BY <1>1, <1>2 DEF Papers, Shapes, Files
<1>4. ~patched' => Followed'
  BY <1>1, <1>2 DEF Papers, Followed, Windows
<1>5. started \subseteq Role
  BY DEF Inv, Types
<1> QED
  BY <1>1, <1>2, <1>3, <1>4, <1>5, QuietKeeps

\* A window that is over is behind its runner: it was followed into, or it failed.
LEMMA WindowOverQuiet ==
  ASSUME Inv, Papers, NEW r \in Role, pc[r] \in {"gate", "window"}, todo[r] # {},
         pc' = [pc EXCEPT ![r] = "gate"],
         todo' = [todo EXCEPT ![r] = @ \ {Window(r)}],
         DOMAIN failed' = Role,
         \A q \in Role \ {r} : failed'[q] = failed[q],
         ~patched /\ ~failed'[r] =>
           ~failed[r] /\ (Window(r) # 1 => Window(r) - 1 \in fresh[r]),
         \A q \in Role : fresh[q] \subseteq fresh'[q],
         DOMAIN logs' = Slot,
         \A n \in Slot : logs'[n] = logs[n] \/ OfThisSeries(n, logs'[n]),
         UNCHANGED <<doc, ledger, mails, series, config, counted, started, patched>>
  PROVE  Papers'
<1>1. /\ pc'[r] = "gate" /\ todo'[r] = todo[r] \ {Window(r)}
      /\ \A q \in Role \ {r} : pc'[q] = pc[q] /\ todo'[q] = todo[q]
      /\ \A q \in Role : (Reporting(q)' <=> Reporting(q))
  BY DEF Reporting, Inv, Types
<1>2. Shapes'
  BY <1>1 DEF Papers, Shapes, Files
<1>3. ~patched' => Followed'
  <2> SUFFICES ASSUME ~patched, NEW q \in Role, pc'[q] \in {"gate", "window"}, ~failed'[q],
                      NEW n \in Windows(q) \ todo'[q], n # 1
               PROVE  n - 1 \in fresh'[q]
    BY DEF Followed, Windows
  <2>1. CASE q = r /\ n = Window(r)
    BY <2>1
  <2>2. CASE q = r /\ n # Window(r)
    BY <1>1, <2>2 DEF Papers, Followed
  <2>3. CASE q # r
    BY <1>1, <2>3 DEF Papers, Followed
  <2> QED
    BY <2>1, <2>2, <2>3
<1>4. started \subseteq Role
  BY DEF Inv, Types
<1>5. \A q \in Role : pc'[q] = "close" => pc[q] = "close"
  BY <1>1
<1> QED
  BY <1>1, <1>2, <1>3, <1>4, <1>5, QuietKeeps

LEMMA GateLapsesQuiet ==
  ASSUME Inv, Papers, NEW r \in Role, GateLapses(r)
  PROVE  Papers'
<1>1. /\ pc[r] = "gate" /\ todo[r] # {} /\ pc' = pc
      /\ todo' = [todo EXCEPT ![r] = @ \ {Window(r)}]
      /\ failed' = [failed EXCEPT ![r] = TRUE]
      /\ UNCHANGED <<fresh, doc, logs, ledger, mails, series, config, counted, started,
                     patched>>
  BY DEF GateLapses, files, terms, history
<1>2. pc' = [pc EXCEPT ![r] = "gate"]
  BY <1>1 DEF Inv, Types
<1>3. /\ DOMAIN failed' = Role /\ failed'[r] /\ \A q \in Role \ {r} : failed'[q] = failed[q]
      /\ DOMAIN logs' = Slot
  BY <1>1 DEF Papers, Shapes, Files
<1> QED
  BY <1>1, <1>2, <1>3, WindowOverQuiet

LEMMA EndWindowQuiet ==
  ASSUME Inv, Papers, NEW r \in Role, EndWindow(r)
  PROVE  Papers'
<1>1. /\ pc[r] = "window" /\ pc' = [pc EXCEPT ![r] = "gate"] /\ todo[r] # {}
      /\ todo' = [todo EXCEPT ![r] = @ \ {Window(r)}]
      /\ UNCHANGED <<doc, ledger, mails, series, config, counted, started, patched>>
  BY DEF EndWindow, terms, Inv, Idle
<1>2. Window(r) \in Slot
  BY <1>1, WindowIsFirst DEF Inv, Types
<1>3. ~patched => (Window(r) # 1 => Window(r) - 1 \in fresh[r])
  BY <1>1 DEF Inv, Opened
<1>4. CASE CountedReady(r)
  <2>1. PICK ours \in Played \cup {"unclean", "missing"}, clean \in BOOLEAN :
          /\ failed' = [failed EXCEPT ![r] = @ \/ ~clean]
          /\ logs' = Written(Window(r), ours)
          /\ fresh' = IF ours = "missing" THEN fresh
                      ELSE [q \in Role |-> IF pc[q] = "off" THEN fresh[q]
                                           ELSE fresh[q] \cup {Window(r)}]
    BY <1>4 DEF EndWindow
  <2>2. /\ DOMAIN failed' = Role /\ \A q \in Role \ {r} : failed'[q] = failed[q]
        /\ (~failed'[r] => ~failed[r])
    BY <2>1 DEF Papers, Shapes
  <2>3. \A q \in Role : fresh[q] \subseteq fresh'[q]
    BY <2>1
  <2>4. DOMAIN logs' = Slot
    BY <2>1 DEF Written, Papers, Shapes, Files
  <2>5. \A n \in Slot : OfThisSeries(n, Log(n, ours))
    BY DEF OfThisSeries, Log
  <2>6. \A n \in Slot : logs'[n] \in {logs[n], Log(n, ours)}
    BY <2>1 DEF Written, Papers, Shapes, Files
  <2>7. \A n \in Slot : logs'[n] = logs[n] \/ OfThisSeries(n, logs'[n])
    BY <2>5, <2>6 DEF OfThisSeries
  <2> QED
    BY <1>1, <1>3, <2>2, <2>3, <2>4, <2>7, WindowOverQuiet
<1>5. CASE ~CountedReady(r)
  <2>1. failed' = [failed EXCEPT ![r] = TRUE] /\ UNCHANGED <<logs, fresh>>
    BY <1>5 DEF EndWindow
  <2>2. /\ DOMAIN failed' = Role /\ failed'[r] /\ \A q \in Role \ {r} : failed'[q] = failed[q]
        /\ DOMAIN logs' = Slot
    BY <2>1 DEF Papers, Shapes, Files
  <2> QED
    BY <1>1, <2>1, <2>2, WindowOverQuiet
<1> QED
  BY <1>4, <1>5

\* A runner that closes was through all its windows: it followed the other's logs.
LEMMA EndRunQuiet ==
  ASSUME Inv, Papers, NEW r \in Role, EndRun(r)
  PROVE  Papers'
<1> USE DEF files, terms, history
<1>1. CASE Exit(r)
  BY <1>1, ExitQuiet DEF EndRun
<1>2. CASE ~Exit(r)
  <2>1. /\ pc[r] = "gate" /\ todo[r] = {} /\ ~failed[r] /\ pc' = [pc EXCEPT ![r] = "close"]
        /\ UNCHANGED <<todo, failed, fresh, doc, logs, ledger, mails, series, config,
                       counted, started, patched>>
    BY <1>2 DEF EndRun
  <2>2. /\ pc'[r] = "close" /\ \A q \in Role \ {r} : pc'[q] = pc[q]
        /\ \A q \in Role : (Reporting(q)' <=> Reporting(q))
    BY <2>1 DEF Reporting, Inv, Types
  <2>3. Shapes'
    BY <2>1, <2>2 DEF Papers, Shapes, Files
  <2>4. ~patched => Followed'
    BY <2>1, <2>2 DEF Papers, Followed, Windows
  <2>5. ~patched => started = Role
    <3> SUFFICES ASSUME ~patched PROVE started = Role
      OBVIOUS
    <3>1. r \in started
      BY <2>1 DEF Inv, StartedOnce
    <3>2. Owner(1) = "police" /\ Owner(2) = "thief" /\ Owner(3) = "police"
      <4>1. 1 % 2 = 1 /\ 2 % 2 = 0 /\ 3 % 2 = 1
        OBVIOUS
      <4> QED
        BY <4>1 DEF Owner
    <3>3. 1 \in Slot /\ 2 \in Slot /\ 3 \in Slot
      BY SeriesAssumption DEF Slot
    <3>4. \A n \in Windows(r) : n # 1 => n - 1 \in fresh[r]
      BY <2>1 DEF Papers, Followed
    <3>5. \A n \in fresh[r] : Owner(n) \in started
      BY DEF Inv, FreshIsEnded
    <3>6. CASE r = "police"
      <4>1. 2 \in fresh[r]
        BY <3>2, <3>3, <3>4, <3>6 DEF Windows
      <4> QED
        BY <3>1, <3>2, <3>5, <3>6, <4>1 DEF Role, Inv, Types
    <3>7. CASE r = "thief"
      <4>1. 1 \in fresh[r]
        BY <3>2, <3>3, <3>4, <3>7 DEF Windows
      <4> QED
        BY <3>1, <3>2, <3>5, <3>7, <4>1 DEF Role, Inv, Types
    <3> QED
      BY <3>6, <3>7 DEF Role
  <2>6. started \subseteq Role
    BY DEF Inv, Types
  <2>7. ~patched' => \A q \in Role : pc'[q] = "close" => pc[q] = "close" \/ started = Role
    BY <2>1, <2>5
  <2> QED
    BY <2>1, <2>2, <2>3, <2>4, <2>6, <2>7, QuietKeeps
<1> QED
  BY <1>1, <1>2

\* What is added up then is what the two runners wrote.
LEMMA AggregateAddsOwn ==
  ASSUME Inv, Papers, NEW r \in Role, Aggregate(r)
  PROVE  Papers'
<1> USE DEF files, terms, history
<1>1. CASE Exit(r)
  BY <1>1, ExitQuiet DEF Aggregate
<1>2. CASE ~Exit(r)
  <2>1. PICK u \in Uid :
          /\ Settled(Kept(u))
          /\ doc' = [doc EXCEPT ![r] = [uid |-> u, rows |-> Kept(u)]]
          /\ pc' = [pc EXCEPT ![r] = "mail"]
          /\ UNCHANGED <<todo, failed, fresh>>
          /\ UNCHANGED <<files, terms, history>>
    BY <1>2 DEF Aggregate
  <2>2. \A n \in Slot : logs[n] # None /\ Kept(u)[n] = logs[n]
    <3> SUFFICES ASSUME NEW n \in Slot PROVE logs[n] # None /\ Kept(u)[n] = logs[n]
      OBVIOUS
    <3>1. Kept(u)[n] # None
      BY <2>1 DEF Settled
    <3>2. UidIn(n) = u /\ logs[n] # None
      BY <3>1 DEF Kept
    <3> QED
      BY <3>2 DEF Kept
  <2>3. /\ pc'[r] = "mail" /\ doc'[r].rows = Kept(u)
        /\ \A q \in Role \ {r} : pc'[q] = pc[q] /\ doc'[q] = doc[q]
        /\ \A q \in Role : Reporting(q)' <=> (Reporting(q) \/ q = r)
    BY <2>1 DEF Inv, Types, Papers, Shapes, Files, Reporting
  <2>4. \A n \in Slot : doc'[r].rows[n] = logs[n]
    BY <2>2, <2>3
  <2>5. Shapes'
    BY <2>1, <2>3 DEF Papers, Shapes, Files
  <2>6. Dated'
    <3>1. ASSUME NEW q \in Role, Reporting(q)', NEW n \in Slot
          PROVE  doc'[q].rows[n].series \in 0 .. series
      BY <2>2, <2>3, <2>4, <3>1 DEF Papers, Dated
    <3> QED
      BY <2>1, <3>1 DEF Papers, Dated
  <2>7. ASSUME ~patched
        PROVE  CleanLogs' /\ Followed' /\ BothStarted' /\ OwnRows' /\ LeagueMail'
    <3>1. CleanLogs /\ Followed /\ BothStarted /\ OwnRows /\ LeagueMail
      BY <2>7 DEF Papers
    <3>2. pc[r] = "close" /\ started = Role
      BY <3>1 DEF Aggregate, BothStarted
    <3>3. Named => \A n \in Slot : OfThisSeries(n, logs[n])
      <4> SUFFICES ASSUME Named, NEW n \in Slot PROVE OfThisSeries(n, logs[n])
        OBVIOUS
      <4>1. Owner(n) \in Role /\ n \in Windows(Owner(n)) /\ config[Owner(n)].named
        BY Slots DEF Windows, Named
      <4> QED
        BY <2>2, <3>1, <3>2, <4>1 DEF CleanLogs
    <3>4. OwnRows'
      <4> SUFFICES ASSUME Named, NEW q \in Role, Reporting(q)', NEW n \in Slot
                   PROVE  OfThisSeries(n, doc'[q].rows[n])
        BY <2>1 DEF OwnRows, OfThisSeries, Named
      <4>1. CASE q = r
        BY <2>4, <3>3, <4>1
      <4>2. CASE q # r
        BY <2>3, <3>1, <4>2 DEF OwnRows
      <4> QED
        BY <4>1, <4>2
    <3>5. CleanLogs' /\ LeagueMail'
      BY <2>1, <3>1 DEF CleanLogs, LeagueMail, OfThisSeries, Windows, Named, Uncounted
    <3>6. Followed' /\ BothStarted'
      BY <2>1, <2>3, <3>1, <3>2 DEF Followed, BothStarted, Windows
    <3> QED
      BY <3>4, <3>5, <3>6
  <2> QED
    BY <2>1, <2>5, <2>6, <2>7 DEF Papers
<1> QED
  BY <1>1, <1>2

\* A mail says what its document says, and the league gets it from a counted command.
LEMMA MailIsLeagueMail ==
  ASSUME Papers, NEW r \in Role, Reporting(r), MailAllowed(r)
  PROVE  /\ Report(r).series \subseteq 0 .. series
         /\ ~patched /\ Named => /\ started = Role
                                 /\ Report(r).league => /\ Report(r).counted
                                                        /\ Report(r).friendly \subseteq Uncounted
<1>1. Report(r).series \subseteq 0 .. series
  BY DEF Report, Papers, Dated
<1>2. ASSUME ~patched, Named
      PROVE  started = Role
  BY <1>2 DEF Papers, BothStarted
<1>3. ASSUME Report(r).league
      PROVE  Report(r).counted
  BY <1>3 DEF Report, MailAllowed
<1>4. ASSUME ~patched, Named
      PROVE  Report(r).friendly \subseteq Uncounted
  <2>1. \A n \in Slot : doc[r].rows[n].counted = counted[Owner(n)]
    BY <1>4 DEF Papers, OwnRows, OfThisSeries
  <2>2. Report(r).friendly = {n \in Slot : ~doc[r].rows[n].counted}
    BY DEF Report
  <2> QED
    BY <2>1, <2>2 DEF Uncounted
<1> QED
  BY <1>1, <1>2, <1>3, <1>4

LEMMA SendKeepsPapers ==
  ASSUME Inv, Papers, NEW r \in Role, Send(r) \/ SendFails(r)
  PROVE  Papers'
<1>1. CASE mails' = mails /\ SendFails(r)
  BY <1>1, ExitQuiet DEF SendFails, terms
<1>2. CASE ~(mails' = mails /\ SendFails(r))
  <2>1. /\ pc[r] = "mail" /\ Reporting(r) /\ MailAllowed(r)
        /\ mails' = mails \cup {Report(r)}
        /\ UNCHANGED <<logs, ledger, series, config, counted, started, patched>>
    BY <1>2 DEF Send, SendFails, terms, history, Reporting
  <2>2. /\ pc'[r] \in {"off", "record"} /\ \A q \in Role \ {r} : pc'[q] = pc[q] /\ doc'[q] = doc[q]
        /\ (pc'[r] = "off" => doc'[r] = None) /\ (pc'[r] = "record" => doc'[r] = doc[r])
        /\ \A q \in Role \ {r} : /\ todo'[q] = todo[q] /\ fresh'[q] = fresh[q]
                                /\ failed'[q] = failed[q]
        /\ DOMAIN doc' = Role /\ DOMAIN failed' = Role
    <3>1. CASE Send(r)
      BY <3>1 DEF Send, Inv, Types, Papers, Shapes, Files
    <3>2. CASE SendFails(r)
      BY <3>2 DEF SendFails, Exit, Inv, Types, Papers, Shapes, Files
    <3> QED
      BY <3>1, <3>2
  <2>3. \A q \in Role : Reporting(q)' => Reporting(q) /\ doc'[q] = doc[q]
    BY <2>1, <2>2 DEF Reporting
  <2>4. Shapes'
    BY <2>1, <2>2 DEF Papers, Shapes, Files, Reporting
  <2>5. Dated'
    BY <2>1, <2>3, MailIsLeagueMail DEF Papers, Dated
  <2>6. ASSUME ~patched
        PROVE  CleanLogs' /\ Followed' /\ BothStarted' /\ OwnRows' /\ LeagueMail'
    <3>1. CleanLogs /\ Followed /\ BothStarted /\ OwnRows /\ LeagueMail
      BY <2>6 DEF Papers
    <3>2. LeagueMail'
      <4> SUFFICES ASSUME Named, NEW m \in mails', series \in m.series
                   PROVE  /\ started = Role
                          /\ m.league => m.counted /\ m.friendly \subseteq Uncounted
        BY <2>1 DEF LeagueMail, Named, Uncounted
      <4>1. CASE m \in mails
        BY <3>1, <4>1 DEF LeagueMail
      <4>2. CASE m = Report(r)
        BY <2>1, <2>6, <4>2, MailIsLeagueMail
      <4> QED
        BY <2>1, <4>1, <4>2
    <3>3. CleanLogs' /\ OwnRows'
      BY <2>1, <2>3, <3>1 DEF CleanLogs, OwnRows, OfThisSeries, Windows, Named
    <3>4. Followed' /\ BothStarted'
      BY <2>1, <2>2, <2>3, <3>1 DEF Followed, BothStarted, Windows
    <3> QED
      BY <3>1, <3>2, <3>3, <3>4
  <2> QED
    BY <2>1, <2>4, <2>5, <2>6 DEF Papers
<1> QED
  BY <1>1, <1>2

LEMMA NextSeriesPapers ==
  ASSUME Inv, Papers, NextSeries
  PROVE  Papers'
<1>1. /\ \A r \in Role : pc[r] = "off"
      /\ series' = series + 1 /\ started' = {}
      /\ UNCHANGED <<pc, todo, failed, fresh, doc, logs, ledger, mails>>
  BY DEF NextSeries, command
<1>2. Shapes'
  BY <1>1 DEF NextSeries, Papers, Shapes, Files, Reporting
<1>3. series \in Nat /\ 0 .. series \subseteq 0 .. series + 1 /\ series + 1 \notin 0 .. series
  BY DEF Papers, Dated
<1>4. Dated'
  BY <1>1, <1>3 DEF Papers, Dated, Reporting
<1>5. CleanLogs' /\ Followed' /\ BothStarted' /\ OwnRows'
  BY <1>1 DEF CleanLogs, Followed, BothStarted, OwnRows, Reporting
<1>6. LeagueMail'
  BY <1>1, <1>3 DEF Papers, Dated, LeagueMail
<1> QED
  BY <1>2, <1>4, <1>5, <1>6 DEF Papers

LEMMA PapersStep == Inv /\ Papers /\ [Next]_vars => Papers'
<1> SUFFICES ASSUME Inv, Papers, [Next]_vars PROVE Papers'
  OBVIOUS
<1>1. CASE UNCHANGED vars
  BY <1>1 DEF vars, command, files, terms, history, Papers, Shapes, Files, Dated, CleanLogs,
              Followed, BothStarted, OwnRows, LeagueMail, OfThisSeries, Reporting, Windows,
              Named, Uncounted
<1>2. ASSUME NEW r \in Role, Crash(r) \/ NoMail(r) \/ Record(r)
      PROVE  Papers'
  <2>1. Exit(r) /\ DOMAIN ledger' = DOMAIN ledger
        /\ UNCHANGED <<logs, mails, series, config, counted, started, patched>>
    BY <1>2 DEF Crash, NoMail, Record, files, terms, history, Papers, Shapes, Files
  <2> QED
    BY <2>1, ExitQuiet
<1>3. ASSUME NEW r \in Role, Program(r)
      PROVE  Papers'
  BY <1>2, <1>3, EnterWindowQuiet, GateLapsesQuiet, EndWindowQuiet, EndRunQuiet,
     AggregateAddsOwn, SendKeepsPapers DEF Program
<1> QED
  BY <1>1, <1>2, <1>3, NextSeriesPapers, StartQuiet, InterventionQuiet DEF Next, Intervention

LEMMA PapersGive == Papers => NoMixedSeries /\ LeagueHearsCounted
BY DEF Papers, Shapes, OwnRows, OfThisSeries, LeagueMail, Named, Uncounted, LeftAlone,
       NoMixedSeries, LeagueHearsCounted

-----------------------------------------------------------------------------
(* The theorems *)

\* Whatever logs earlier series left, under the same game_uid or another, the report
\* of a series no operator touched holds games of that series only, when both repos
\* are configured for the rival they meet: the sweep of each runner needs its name
\* (archive.py:3-10, 56-72, league_series.py:91-98).
THEOREM ReportsAreUnmixed == Spec => []NoMixedSeries
<1> QED
  BY InvInit, InvStep, PapersInit, PapersStep, PapersGive, PTL DEF Spec

\* The league hears of such a series only from a counted command, whatever --counted
\* and settings the two repos have, and each window it hears of was played counted
\* unless that window's own runner was started without --counted
\* (interlock.py:5-10, league_series.py:86, 132, 166).
THEOREM LeagueMailIsCounted == Spec => []LeagueHearsCounted
<1> QED
  BY InvInit, InvStep, PapersInit, PapersStep, PapersGive, PTL DEF Spec
=============================================================================
