----------------------------- MODULE Handshake -----------------------------
(***************************************************************************)
(* The agreement handshake of both wires, over a door that may be stale.   *)
(*                                                                         *)
(* On the bookletter wire a peer sends its agreement once and judges the   *)
(* first that arrives.  On the reference wire it pushes its agreement every*)
(* interval until it has adopted one that passes the checks and one of its *)
(* own deliveries was acknowledged.  The rival's address may still be      *)
(* served by the rival's previous sub-game: that instance acknowledges a   *)
(* greeting nobody will read, or answers it with its own, old agreement,   *)
(* until it settles and exits.                                             *)
(***************************************************************************)
EXTENDS Negotiation, Sequences

CONSTANTS
  Configurations,  \* the configurations a peer may hold
  MaxOffers,       \* bound on the agreements an inbox holds
  MaxLapses        \* bound on deadlines missed although the rival is alive

ASSUME HandshakeAssumption ==
  /\ \A c \in Configurations :
       /\ c.wire \in {"bookletter", "reference"} /\ c.mode \in {"belief", "exact"}
       /\ c.wire = "bookletter" => c.scent # Undeclared /\ c.shape = Undeclared
  /\ MaxOffers \in Nat \ {0} /\ MaxLapses \in Nat

Role == {"police", "thief"}

Rival(p) == IF p = "police" THEN "thief" ELSE "police"

None == [none |-> TRUE]

VARIABLES
  config,     \* what each side configured
  previous,   \* the instance of the previous sub-game: playing, settled, gone
  heard,      \* has it an agreement in its inbox?
  pc,         \* the new instance: absent, pushing, waiting, playing, failed
  theirs,     \* push_agreement's theirs
  delivered,  \* push_agreement's delivered
  offers,     \* inbox of agreements
  why,        \* why it failed
  lapses      \* used budget

instance == <<pc, theirs, delivered, offers, why>>
vars == <<config, previous, heard, instance, lapses>>
-----------------------------------------------------------------------------
(* Agreements *)

\* negotiate of either runtime: the agreement its wire shape makes.
Agreement(p, window) ==
  IF config[p].wire = "bookletter"
  THEN BookletterAgreement(config[p])
  ELSE ReferenceAgreement(config[p], window, p)

\* The previous sub-game is window 0, the one being negotiated window 1.
Mine(p) == Agreement(p, 1)

\* The hidden runtime re-pushes, and hears offers once it plays.
Repushes(p) == config[p].wire = "reference"
-----------------------------------------------------------------------------
(* The door *)

Listening(p) == pc[p] \in {"pushing", "waiting", "playing"}

\* Does a call to this address get an answer, or a connection error?
Answers(p) == previous[p] # "gone" \/ pc[p] # "absent"

\* deliver: accepted unless the instance behind the door has settled.
Accepts(p) == previous[p] = "playing" \/ Listening(p)

\* The agreement lands with whoever serves the address.
Deliver(p, agreement) ==
  IF Listening(p)
  THEN /\ Len(offers[p]) < MaxOffers
       /\ offers' = [offers EXCEPT ![p] = Append(@, agreement)]
       /\ UNCHANGED heard
  ELSE /\ heard' = [heard EXCEPT ![p] = @ \/ previous[p] = "playing"]
       /\ UNCHANGED offers
-----------------------------------------------------------------------------
(* The previous instance of an address *)

\* Its answer_reoffers: one send for the whole drained inbox.
PreviousAnswers(p) ==
  /\ previous[p] = "playing" /\ heard[p] /\ Repushes(p)
  /\ Answers(Rival(p))
  /\ IF Listening(Rival(p))
     THEN /\ Len(offers[Rival(p)]) < MaxOffers
          /\ offers' = [offers EXCEPT ![Rival(p)] = Append(@, Agreement(p, 0))]
          /\ heard' = [heard EXCEPT ![p] = FALSE]
     ELSE /\ heard' = [heard EXCEPT ![p] = FALSE,
                                    ![Rival(p)] = @ \/ previous[Rival(p)] = "playing"]
          /\ UNCHANGED offers
  /\ UNCHANGED <<config, previous, pc, theirs, delivered, why, lapses>>

\* run_peer closes the door; the inbox is never read again.
PreviousSettles(p) ==
  /\ previous[p] = "playing"
  /\ previous' = [previous EXCEPT ![p] = "settled"]
  /\ heard' = [heard EXCEPT ![p] = FALSE]
  /\ UNCHANGED <<config, instance, lapses>>

PreviousExits(p) ==
  /\ previous[p] = "settled"
  /\ previous' = [previous EXCEPT ![p] = "gone"]
  /\ UNCHANGED <<config, heard, instance, lapses>>

\* A configuration that does not load starts nothing.  The port must be free
\* before the next instance serves it; terms the flat form cannot carry fail it.
Start(p) ==
  /\ pc[p] = "absent" /\ previous[p] = "gone" /\ Ready(config[p])
  /\ IF Playable(config[p])
     THEN /\ pc' = [pc EXCEPT ![p] = "pushing"]
          /\ UNCHANGED why
     ELSE /\ pc' = [pc EXCEPT ![p] = "failed"]
          /\ why' = [why EXCEPT ![p] = "inexpressible"]
  /\ UNCHANGED <<config, previous, heard, theirs, delivered, offers, lapses>>
-----------------------------------------------------------------------------
(* GeometricRuntime.negotiate and push_agreement *)

\* One send, and the early exit when it was the missing acknowledgement.
Push(p) ==
  /\ pc[p] = "pushing"
  /\ Answers(Rival(p))
  /\ Deliver(Rival(p), Mine(p))
  /\ LET done == delivered[p] \/ Accepts(Rival(p)) IN
       /\ delivered' = [delivered EXCEPT ![p] = done]
       /\ pc' = [pc EXCEPT ![p] =
                   IF theirs[p] # None /\ done THEN "playing" ELSE "waiting"]
  /\ UNCHANGED <<config, previous, theirs, why, lapses>>

\* The paced wait ends with nothing.
WindowLapses(p) ==
  /\ pc[p] = "waiting" /\ offers[p] = << >> /\ Repushes(p)
  /\ pc' = [pc EXCEPT ![p] = "pushing"]
  /\ UNCHANGED <<config, previous, heard, theirs, delivered, offers, why, lapses>>

Taking(p) ==
  /\ pc[p] = "waiting" /\ offers[p] # << >>
  /\ offers' = [offers EXCEPT ![p] = Tail(@)]
  /\ UNCHANGED <<config, previous, heard, delivered, lapses>>

\* A duplicate while ours is still undelivered, or a bystander.
SkipOffer(p) ==
  /\ Taking(p)
  /\ theirs[p] # None \/ Verdict(Mine(p), Head(offers[p])) = "bystander"
  /\ pc' = [pc EXCEPT ![p] = "pushing"]
  /\ UNCHANGED <<theirs, why>>

AdoptOffer(p) ==
  /\ Taking(p)
  /\ theirs[p] = None /\ Verdict(Mine(p), Head(offers[p])) = "accepted"
  /\ theirs' = [theirs EXCEPT ![p] = Head(offers[p])]
  /\ pc' = [pc EXCEPT ![p] = IF delivered[p] \/ ~Repushes(p) THEN "playing" ELSE "pushing"]
  /\ UNCHANGED why

\* A genuine violation is fatal at the first offence.
RefuseOffer(p) ==
  /\ Taking(p)
  /\ theirs[p] = None /\ Verdict(Mine(p), Head(offers[p])) = "violation"
  /\ pc' = [pc EXCEPT ![p] = "failed"]
  /\ why' = [why EXCEPT ![p] = "refused"]
  /\ UNCHANGED theirs

\* Mutant: late offers are drained without an answer.
AnswerReoffersSilently(p) ==
  /\ pc[p] = "playing" /\ offers[p] # << >> /\ Repushes(p)
  /\ offers' = [offers EXCEPT ![p] = << >>]
  /\ UNCHANGED <<config, previous, heard, pc, theirs, delivered, why, lapses>>

\* answer_reoffers, in a wait of the game: drain, then send ours once.
AnswerReoffers(p) ==
  /\ pc[p] = "playing" /\ offers[p] # << >> /\ Repushes(p)
  /\ Answers(Rival(p))
  /\ IF Listening(Rival(p))
     THEN /\ Len(offers[Rival(p)]) < MaxOffers
          /\ offers' = [offers EXCEPT ![p] = << >>, ![Rival(p)] = Append(@, Mine(p))]
          /\ UNCHANGED heard
     ELSE /\ offers' = [offers EXCEPT ![p] = << >>]
          /\ heard' = [heard EXCEPT ![Rival(p)] = @ \/ previous[Rival(p)] = "playing"]
  /\ UNCHANGED <<config, previous, pc, theirs, delivered, why, lapses>>

\* The turn deadline, of the handshake or of the first turn after it.
Lapse(p) ==
  /\ Listening(p)
  /\ \/ pc[Rival(p)] = "failed" /\ UNCHANGED lapses
     \/ lapses < MaxLapses /\ lapses' = lapses + 1
  /\ pc' = [pc EXCEPT ![p] = "failed"]
  /\ why' = [why EXCEPT ![p] = "deadline"]
  /\ UNCHANGED <<config, previous, heard, theirs, delivered, offers>>
-----------------------------------------------------------------------------
Init ==
  /\ config \in [Role -> Configurations]
  /\ previous \in [Role -> {"playing", "settled", "gone"}]
  /\ \A p \in Role : previous[p] # "gone" => Playable(config[p])
  /\ heard = [p \in Role |-> FALSE]
  /\ pc = [p \in Role |-> "absent"]
  /\ theirs = [p \in Role |-> None]
  /\ delivered = [p \in Role |-> FALSE]
  /\ offers = [p \in Role |-> << >>]
  /\ why = [p \in Role |-> "none"]
  /\ lapses = 0

Program(p) ==
  \/ Start(p) \/ Push(p) \/ WindowLapses(p)
  \/ SkipOffer(p) \/ AdoptOffer(p) \/ RefuseOffer(p) \/ AnswerReoffers(p)

Leaving(p) == PreviousSettles(p) \/ PreviousExits(p)

Next ==
  \E p \in Role : Program(p) \/ Lapse(p) \/ Leaving(p) \/ PreviousAnswers(p)

Spec == Init /\ [][Next]_vars

\* The previous sub-games end (their waits have deadlines), both sides start
\* their next instance, and a running loop keeps running.
FairSpec ==
  /\ Spec
  /\ \A p \in Role : /\ WF_vars(Leaving(p))
                     /\ WF_vars(Program(p))
                     /\ WF_vars(Lapse(p) /\ UNCHANGED lapses)
-----------------------------------------------------------------------------
(* Properties *)

Matched == Compatible(config["police"], config["thief"])

\* A peer never plays on an agreement of another sub-game window, of its own
\* role, or between configurations that Appendix VI or a declaration keeps
\* apart; on the reference wire never before some instance of the rival took
\* its own.
RightCounterpart ==
  \A p \in Role :
    /\ theirs[p] # None => theirs[p] = Mine(Rival(p)) /\ Matched
    /\ pc[p] = "playing" => theirs[p] # None /\ (Repushes(p) => delivered[p])

\* The two verdicts agree (verify_agreement, verify_declarations run on each
\* side alone): no peer adopts an agreement whose sender refuses the one it
\* gets in return.
NoSplitVerdict ==
  \A p \in Role : why[p] = "refused" => theirs[Rival(p)] = None

\* Two compatible sides of the reference wire pair unless a deadline lapses:
\* neither a greeting swallowed by an instance that is leaving nor a refused
\* one starves a side whose rival has already gone on to play (repush.py:4-12).
BothPair ==
  Matched /\ Repushes("police") ~>
    \/ \A p \in Role : pc[p] = "playing"
    \/ \E p \in Role : why[p] = "deadline"
=============================================================================
