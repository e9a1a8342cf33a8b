-------------------------- MODULE HandshakeProofs --------------------------
(***************************************************************************)
(* The safety of the handshake, for any set of configurations: the two     *)
(* verdicts, taken on each side alone, both say whether the configurations *)
(* are compatible, and what lands in an inbox was made by the rival.       *)
(***************************************************************************)
EXTENDS Handshake, TLAPS

\* What an instance of q may have put into an inbox.
Sent(q) == {Mine(q)} \cup (IF Repushes(q) THEN {Agreement(q, 0)} ELSE {})

Types ==
  /\ config \in [Role -> Configurations]
  /\ previous \in [Role -> {"playing", "settled", "gone"}]
  /\ pc \in [Role -> {"absent", "pushing", "waiting", "playing", "failed"}]
  /\ DOMAIN theirs = Role /\ DOMAIN delivered = Role
  /\ DOMAIN offers = Role /\ DOMAIN why = Role

\* Whoever runs could start, and only such an instance sends.
Running ==
  \A p \in Role :
    /\ Listening(p) \/ previous[p] # "gone" => Playable(config[p])
    /\ offers[p] \in Seq(Sent(Rival(p)))
    /\ offers[p] # << >> => Playable(config[Rival(p)])

Adopted ==
  \A p \in Role : theirs[p] # None => theirs[p] = Mine(Rival(p)) /\ Matched

Entered ==
  \A p \in Role :
    pc[p] = "playing" => theirs[p] # None /\ (Repushes(p) => delivered[p])

Refused == \A p \in Role : why[p] = "refused" => ~Matched

Inv == Types /\ Running /\ Adopted /\ Entered /\ Refused

-----------------------------------------------------------------------------
(* The verdict *)

LEMMA Rivals ==
  \A p \in Role : Rival(p) \in Role /\ Rival(p) # p /\ Rival(Rival(p)) = p
BY DEF Role, Rival

LEMMA Wires ==
  ASSUME Types, NEW p \in Role
  PROVE  config[p].wire \in {"bookletter", "reference"}
BY HandshakeAssumption DEF HandshakeAssumption, Types

\* An agreement is never the empty slot.
LEMMA AgreementIsSome ==
  ASSUME NEW p \in Role, NEW window
  PROVE  Agreement(p, window) # None
<1>1. "wire" \notin DOMAIN None
  BY DEF None
<1>2. "wire" \in DOMAIN Agreement(p, window)
  BY DEF Agreement, BookletterAgreement, ReferenceAgreement
<1> QED
  BY <1>1, <1>2

LEMMA MatchedEitherWay ==
  ASSUME NEW p \in Role
  PROVE  Matched <=> Compatible(config[p], config[Rival(p)])
BY DEF Matched, Compatible, Role, Rival

\* What a side accepts is the rival's own agreement, of a compatible side.
LEMMA AcceptedIsRight ==
  ASSUME Types, NEW p \in Role, NEW offer \in Sent(Rival(p)),
         Playable(config[p]), Playable(config[Rival(p)]),
         Verdict(Mine(p), offer) = "accepted"
  PROVE  offer = Mine(Rival(p)) /\ Matched
<1> DEFINE a == config[p]
           b == config[Rival(p)]
<1>0. Rival(p) \in Role /\ a.wire \in {"bookletter", "reference"} /\ b.wire \in {"bookletter", "reference"}
  BY Rivals, Wires
<1>1. CASE a.wire = "bookletter"
  <2>1. offer = BookletterAgreement(a)
    BY <1>1 DEF Verdict, VerifyAgreement, Mine, Agreement, BookletterAgreement
  <2>2. offer.wire = "bookletter"
    BY <2>1 DEF BookletterAgreement
  <2>3. b.wire = "bookletter"
    BY <1>0, <2>2 DEF Sent, Mine, Agreement, ReferenceAgreement, BookletterAgreement, Repushes
  <2>4. offer = BookletterAgreement(b) /\ offer = Mine(Rival(p))
    BY <2>3, <1>0 DEF Sent, Mine, Agreement, Repushes
  <2>5. a.shared = b.shared /\ a.mode = b.mode /\ a.scent = b.scent
    BY <2>1, <2>4 DEF BookletterAgreement
  <2> QED
    BY <1>1, <2>3, <2>4, <2>5, MatchedEitherWay DEF Compatible
<1>2. CASE a.wire = "reference"
  <2>1. Mine(p) = ReferenceAgreement(a, 1, p)
    BY <1>2 DEF Mine, Agreement
  <2>2. VerifyReference(Mine(p), offer) = "accepted" /\ Mine(p).wire = "reference"
    BY <1>2, <2>1 DEF Verdict, ReferenceAgreement
  <2>3. /\ offer.wire = "reference" /\ offer.terms = FlatTerms(a.shared)
        /\ offer.mode = a.mode /\ offer.sub_game_number = 1
        /\ ~Differs(a.scent, offer.scent) /\ ~Differs(a.shape, offer.shape)
    BY <2>1, <2>2 DEF VerifyReference, ReferenceAgreement
  <2>4. b.wire = "reference"
    BY <1>0, <2>3 DEF Sent, Mine, Agreement, ReferenceAgreement, BookletterAgreement, Repushes
  <2>5. offer = Mine(Rival(p))
    BY <2>3, <2>4 DEF Sent, Agreement, ReferenceAgreement
  <2>6. offer = ReferenceAgreement(b, 1, Rival(p))
    BY <2>4, <2>5 DEF Mine, Agreement
  <2>7. /\ FlatTerms(a.shared) = FlatTerms(b.shared) /\ a.mode = b.mode
        /\ ~Differs(a.scent, b.scent) /\ ~Differs(a.shape, b.shape)
    BY <2>3, <2>6 DEF ReferenceAgreement
  <2>8. /\ a.shared.grid_size = b.shared.grid_size
        /\ a.shared.survival_threshold = b.shared.survival_threshold
        /\ a.shared.num_games = b.shared.num_games
    BY <2>7 DEF FlatTerms
  <2> QED
    BY <1>2, <2>4, <2>5, <2>7, <2>8, MatchedEitherWay DEF Compatible, Differs
<1> QED
  BY <1>0, <1>1, <1>2

\* Nothing a compatible rival sends is a violation.
LEMMA RefusalIsRight ==
  ASSUME Types, NEW p \in Role, NEW offer \in Sent(Rival(p)),
         Verdict(Mine(p), offer) = "violation"
  PROVE  ~Matched
<1> SUFFICES ASSUME Matched PROVE FALSE
  OBVIOUS
<1> DEFINE a == config[p]
           b == config[Rival(p)]
<1>0. Compatible(a, b) /\ a.wire = b.wire /\ a.mode = b.mode /\ Rival(p) \in Role
  BY MatchedEitherWay, Rivals DEF Compatible
<1>1. CASE a.wire = "bookletter"
  <2>1. offer = BookletterAgreement(b) /\ Mine(p) = BookletterAgreement(a)
    BY <1>0, <1>1 DEF Sent, Mine, Agreement, Repushes
  <2>2. BookletterAgreement(a) = BookletterAgreement(b)
    BY <1>0, <1>1 DEF Compatible, BookletterAgreement
  <2>3. Mine(p).wire = "bookletter"
    BY <2>1 DEF BookletterAgreement
  <2> QED
    BY <2>1, <2>2, <2>3 DEF Verdict, VerifyAgreement
<1>2. CASE a.wire # "bookletter"
  <2>1. PICK window : offer = ReferenceAgreement(b, window, Rival(p))
    BY <1>0, <1>2 DEF Sent, Mine, Agreement
  <2>2. Mine(p) = ReferenceAgreement(a, 1, p)
    BY <1>2 DEF Mine, Agreement
  <2>3. a.shared.fixed = b.shared.fixed
    BY <1>0 DEF Compatible, Playable, Ready, ValidShared, Holds, FixedTerms
  <2>4. FlatTerms(a.shared) = FlatTerms(b.shared)
    BY <1>0, <1>2, <2>3 DEF Compatible, FlatTerms
  <2>5. ~Differs(a.scent, b.scent) /\ ~Differs(a.shape, b.shape)
    BY <1>0, <1>2 DEF Compatible, Differs
  <2>6. Verdict(Mine(p), offer) = VerifyReference(Mine(p), offer)
    BY <2>2 DEF Verdict, ReferenceAgreement
  <2>7. VerifyReference(Mine(p), offer) # "violation"
    BY <1>0, <2>1, <2>2, <2>4, <2>5 DEF VerifyReference, ReferenceAgreement
  <2> QED
    BY <2>6, <2>7
<1> QED
  BY <1>1, <1>2

-----------------------------------------------------------------------------
(* The steps *)

LEMMA InvInit == Init => Inv
<1> SUFFICES ASSUME Init PROVE Inv
  OBVIOUS
<1>1. Types
  BY DEF Init, Types
<1>2. Running
  BY DEF Init, Running, Listening
<1>3. Adopted /\ Entered /\ Refused
  BY DEF Init, Adopted, Entered, Refused
<1> QED
  BY <1>1, <1>2, <1>3 DEF Inv

\* The configurations are fixed, so what they determine is.
LEMMA Fixed ==
  ASSUME config' = config
  PROVE  /\ \A p : Mine(p)' = Mine(p) /\ Sent(p)' = Sent(p)
                   /\ (Repushes(p)' <=> Repushes(p))
                   /\ (Playable(config[p])' <=> Playable(config[p]))
         /\ Matched' <=> Matched
BY DEF Mine, Sent, Agreement, Repushes, Matched

\* What an instance that runs sends may stand in the rival's inbox.
LEMMA DeliveryKeeps ==
  ASSUME Running, Types, NEW q \in Role, NEW agreement \in Sent(q),
         Playable(config[q]), config' = config,
         offers' = [offers EXCEPT ![Rival(q)] = Append(@, agreement)]
                   \/ offers' = offers
  PROVE  \A p \in Role :
           /\ offers'[p] \in Seq(Sent(Rival(p))')
           /\ offers'[p] # << >> => Playable(config[Rival(p)])'
<1> SUFFICES ASSUME NEW p \in Role
             PROVE  /\ offers'[p] \in Seq(Sent(Rival(p)))
                    /\ offers'[p] # << >> => Playable(config[Rival(p)])
  BY Fixed
<1>1. CASE p = Rival(q)
  <2>1. Rival(p) = q
    BY <1>1, Rivals
  <2>2. offers[p] \in Seq(Sent(q))
    BY <2>1 DEF Running
  <2>3. offers'[p] = offers[p] \/ offers'[p] = Append(offers[p], agreement)
    BY <1>1 DEF Types
  <2>4. CASE offers'[p] = offers[p]
    BY <2>1, <2>2, <2>4
  <2>5. CASE offers'[p] = Append(offers[p], agreement)
    <3>1. Append(offers[p], agreement) \in Seq(Sent(q))
      BY <2>2
    <3> QED
      BY <2>1, <2>5, <3>1
  <2> QED
    BY <2>3, <2>4, <2>5
<1>2. CASE p # Rival(q)
  <2>1. offers'[p] = offers[p]
    BY <1>2 DEF Types
  <2> QED
    BY <2>1 DEF Running
<1> QED
  BY <1>1, <1>2

\* An inbox that is read or drained holds nothing new.
LEMMA TakingKeeps ==
  ASSUME Running, Types, NEW p \in Role, config' = config,
         \/ offers[p] # << >> /\ offers' = [offers EXCEPT ![p] = Tail(@)]
         \/ offers' = [offers EXCEPT ![p] = << >>]
  PROVE  \A q \in Role :
           /\ offers'[q] \in Seq(Sent(Rival(q))')
           /\ offers'[q] # << >> => Playable(config[Rival(q)])'
<1> SUFFICES ASSUME NEW q \in Role
             PROVE  /\ offers'[q] \in Seq(Sent(Rival(q)))
                    /\ offers'[q] # << >> => Playable(config[Rival(q)])
  BY Fixed
<1>1. CASE q # p
  <2>1. offers'[q] = offers[q]
    BY <1>1 DEF Types
  <2> QED
    BY <2>1 DEF Running
<1>2. CASE q = p
  <2>1. offers[q] \in Seq(Sent(Rival(q)))
    BY DEF Running
  <2>2. CASE offers[p] # << >> /\ offers' = [offers EXCEPT ![p] = Tail(@)]
    <3>1. offers'[q] = Tail(offers[q])
      BY <1>2, <2>2 DEF Types
    <3>2. Tail(offers[q]) \in Seq(Sent(Rival(q)))
      BY <1>2, <2>1, <2>2
    <3> QED
      BY <1>2, <2>2, <3>1, <3>2 DEF Running
  <2>3. CASE offers' = [offers EXCEPT ![p] = << >>]
    <3>1. offers'[q] = << >>
      BY <1>2, <2>3 DEF Types
    <3> QED
      BY <3>1
  <2> QED
    BY <2>2, <2>3
<1> QED
  BY <1>1, <1>2

\* A step that leaves the agreements alone and starts nobody anew.
LEMMA QuietKeeps ==
  ASSUME Inv, UNCHANGED <<config, theirs, delivered>>,
         Types', Running',
         \A p \in Role : pc'[p] = "playing" => pc[p] = "playing",
         \A p \in Role : why'[p] = "refused" => why[p] = "refused"
  PROVE  Inv'
<1>1. Adopted'
  BY Fixed DEF Inv, Adopted
<1>2. Entered'
  BY Fixed DEF Inv, Entered
<1>3. Refused'
  BY Fixed DEF Inv, Refused
<1> QED
  BY <1>1, <1>2, <1>3 DEF Inv

LEMMA LeavingKeeps ==
  ASSUME Inv, NEW p \in Role, Leaving(p)
  PROVE  Inv'
<1> USE DEF Leaving, PreviousSettles, PreviousExits, instance
<1>1. Types'
  BY DEF Inv, Types
<1>2. Running'
  <2>1. \A q \in Role : previous'[q] # "gone" => previous[q] # "gone"
    BY DEF Inv, Types
  <2> QED
    BY <2>1, Fixed DEF Inv, Running, Listening
<1> QED
  BY <1>1, <1>2, QuietKeeps

LEMMA PreviousAnswersKeeps ==
  ASSUME Inv, NEW p \in Role, PreviousAnswers(p)
  PROVE  Inv'
<1> USE DEF PreviousAnswers
<1>1. Types'
  BY DEF Inv, Types
<1>2. Playable(config[p]) /\ Agreement(p, 0) \in Sent(p)
  BY DEF Inv, Running, Sent
<1>3. \A q \in Role : /\ offers'[q] \in Seq(Sent(Rival(q))')
                      /\ offers'[q] # << >> => Playable(config[Rival(q)])'
  BY <1>2, DeliveryKeeps DEF Inv
<1>4. Running'
  BY <1>3, Fixed DEF Inv, Running, Listening
<1> QED
  BY <1>1, <1>4, QuietKeeps

LEMMA StartKeeps ==
  ASSUME Inv, NEW p \in Role, Start(p)
  PROVE  Inv'
<1> USE DEF Start
<1>1. Types'
  BY DEF Inv, Types
<1>2. Running'
  <2>1. \A q \in Role : Listening(q)' => Listening(q) \/ Playable(config[q])
    BY DEF Inv, Types, Listening
  <2> QED
    BY <2>1, Fixed DEF Inv, Running
<1>3. \A q \in Role : /\ pc'[q] = "playing" => pc[q] = "playing"
                      /\ why'[q] = "refused" => why[q] = "refused"
  BY DEF Inv, Types
<1> QED
  BY <1>1, <1>2, <1>3, QuietKeeps

LEMMA LapseKeeps ==
  ASSUME Inv, NEW p \in Role, Lapse(p)
  PROVE  Inv'
<1> USE DEF Lapse
<1>1. Types'
  BY DEF Inv, Types
<1>2. Running'
  <2>1. \A q \in Role : Listening(q)' => Listening(q)
    BY DEF Inv, Types, Listening
  <2> QED
    BY <2>1, Fixed DEF Inv, Running
<1>3. \A q \in Role : /\ pc'[q] = "playing" => pc[q] = "playing"
                      /\ why'[q] = "refused" => why[q] = "refused"
  BY DEF Inv, Types
<1> QED
  BY <1>1, <1>2, <1>3, QuietKeeps

LEMMA PushKeeps ==
  ASSUME Inv, NEW p \in Role, Push(p)
  PROVE  Inv'
<1> USE DEF Push
<1>1. Types'
  <2>1. DOMAIN offers' = Role
    BY DEF Inv, Types, Deliver
  <2> QED
    BY <2>1 DEF Inv, Types
<1>2. Playable(config[p]) /\ Mine(p) \in Sent(p)
  BY DEF Inv, Running, Sent, Listening
<1>3. \A q \in Role : /\ offers'[q] \in Seq(Sent(Rival(q))')
                      /\ offers'[q] # << >> => Playable(config[Rival(q)])'
  BY <1>2, DeliveryKeeps DEF Inv, Deliver
<1>4. Running'
  <2>1. \A q \in Role : Listening(q)' => Listening(q)
    BY DEF Inv, Types, Listening
  <2> QED
    BY <1>3, <2>1, Fixed DEF Inv, Running
<1>5. Adopted' /\ Refused'
  BY Fixed DEF Inv, Adopted, Refused
<1>6. Entered'
  <2> SUFFICES ASSUME NEW q \in Role, pc'[q] = "playing"
               PROVE  theirs'[q] # None /\ (Repushes(q) => delivered'[q])
    BY Fixed DEF Entered
  <2>1. CASE q = p
    BY <2>1 DEF Inv, Types
  <2>2. CASE q # p
    <3>1. pc[q] = "playing" /\ delivered'[q] = delivered[q]
      BY <2>2 DEF Inv, Types
    <3> QED
      BY <3>1 DEF Inv, Entered
  <2> QED
    BY <2>1, <2>2
<1> QED
  BY <1>1, <1>4, <1>5, <1>6 DEF Inv

LEMMA WindowLapsesKeeps ==
  ASSUME Inv, NEW p \in Role, WindowLapses(p)
  PROVE  Inv'
<1> USE DEF WindowLapses
<1>1. Types'
  BY DEF Inv, Types
<1>2. Running'
  <2>1. \A q \in Role : Listening(q)' => Listening(q)
    BY DEF Inv, Types, Listening
  <2> QED
    BY <2>1, Fixed DEF Inv, Running
<1>3. \A q \in Role : pc'[q] = "playing" => pc[q] = "playing"
  BY DEF Inv, Types
<1> QED
  BY <1>1, <1>2, <1>3, QuietKeeps

\* The head of an inbox was sent by an instance of a rival that could start.
LEMMA HeadIsSent ==
  ASSUME Inv, NEW p \in Role, Taking(p)
  PROVE  /\ Head(offers[p]) \in Sent(Rival(p))
         /\ Playable(config[p]) /\ Playable(config[Rival(p)])
         /\ Types' /\ (\A q \in Role : Listening(q)' => Listening(q)) => Running'
<1> USE DEF Taking
<1>1. Head(offers[p]) \in Sent(Rival(p))
  BY DEF Inv, Running
<1>2. Playable(config[p]) /\ Playable(config[Rival(p)])
  BY DEF Inv, Running, Listening
<1>3. \A q \in Role : /\ offers'[q] \in Seq(Sent(Rival(q))')
                      /\ offers'[q] # << >> => Playable(config[Rival(q)])'
  BY TakingKeeps DEF Inv
<1>4. (\A q \in Role : Listening(q)' => Listening(q)) => Running'
  BY <1>3, Fixed DEF Inv, Running
<1> QED
  BY <1>1, <1>2, <1>4

LEMMA SkipOfferKeeps ==
  ASSUME Inv, NEW p \in Role, SkipOffer(p)
  PROVE  Inv'
<1> USE DEF SkipOffer, Taking
<1>1. Types'
  BY DEF Inv, Types
<1>2. \A q \in Role : /\ Listening(q)' => Listening(q)
                      /\ pc'[q] = "playing" => pc[q] = "playing"
  BY DEF Inv, Types, Listening
<1>3. Running'
  BY <1>1, <1>2, HeadIsSent
<1> QED
  BY <1>1, <1>2, <1>3, QuietKeeps

LEMMA AdoptOfferKeeps ==
  ASSUME Inv, NEW p \in Role, AdoptOffer(p)
  PROVE  Inv'
<1> USE DEF AdoptOffer, Taking
<1>1. Types'
  BY DEF Inv, Types
<1>2. Running'
  <2>1. \A q \in Role : Listening(q)' => Listening(q)
    BY DEF Inv, Types, Listening
  <2> QED
    BY <1>1, <2>1, HeadIsSent
<1>3. Head(offers[p]) = Mine(Rival(p)) /\ Matched
  BY HeadIsSent, AcceptedIsRight DEF Inv
<1>4. theirs'[p] = Mine(Rival(p)) /\ (\A q \in Role \ {p} : theirs'[q] = theirs[q])
  BY <1>3 DEF Inv, Types
<1>5. Adopted'
  BY <1>3, <1>4, Fixed DEF Inv, Adopted
<1>6. Entered'
  <2> SUFFICES ASSUME NEW q \in Role, pc'[q] = "playing"
               PROVE  theirs'[q] # None /\ (Repushes(q) => delivered[q])
    BY Fixed DEF Entered
  <2>1. CASE q = p
    <3>1. theirs'[p] # None
      BY <1>4, Rivals, AgreementIsSome DEF Mine
    <3>2. Repushes(p) => delivered[p]
      BY <2>1 DEF Inv, Types
    <3> QED
      BY <2>1, <3>1, <3>2
  <2>2. CASE q # p
    <3>1. pc[q] = "playing"
      BY <2>2 DEF Inv, Types
    <3> QED
      BY <1>4, <2>2, <3>1 DEF Inv, Entered
  <2> QED
    BY <2>1, <2>2
<1>7. Refused'
  BY Fixed DEF Inv, Refused
<1> QED
  BY <1>1, <1>2, <1>5, <1>6, <1>7 DEF Inv

LEMMA RefuseOfferKeeps ==
  ASSUME Inv, NEW p \in Role, RefuseOffer(p)
  PROVE  Inv'
<1> USE DEF RefuseOffer, Taking
<1>1. Types'
  BY DEF Inv, Types
<1>2. Running'
  <2>1. \A q \in Role : Listening(q)' => Listening(q)
    BY DEF Inv, Types, Listening
  <2> QED
    BY <1>1, <2>1, HeadIsSent
<1>3. ~Matched
  BY HeadIsSent, RefusalIsRight DEF Inv
<1>4. Adopted' /\ Refused'
  BY <1>3, Fixed DEF Inv, Adopted, Refused
<1>5. Entered'
  <2>1. \A q \in Role : pc'[q] = "playing" => pc[q] = "playing"
    BY DEF Inv, Types
  <2> QED
    BY <2>1, Fixed DEF Inv, Entered
<1> QED
  BY <1>1, <1>2, <1>4, <1>5 DEF Inv

LEMMA AnswerReoffersKeeps ==
  ASSUME Inv, NEW p \in Role, AnswerReoffers(p)
  PROVE  Inv'
<1> USE DEF AnswerReoffers
<1>1. Types'
  BY DEF Inv, Types
<1>2. Playable(config[p]) /\ Mine(p) \in Sent(p)
  BY DEF Inv, Running, Sent, Listening
<1>3. \A q \in Role : /\ offers'[q] \in Seq(Sent(Rival(q))')
                      /\ offers'[q] # << >> => Playable(config[Rival(q)])'
  <2>1. CASE Listening(Rival(p))
    <3> SUFFICES ASSUME NEW q \in Role
                 PROVE  /\ offers'[q] \in Seq(Sent(Rival(q)))
                        /\ offers'[q] # << >> => Playable(config[Rival(q)])
      BY Fixed
    <3>1. CASE q = p
      <4>1. offers'[q] = << >>
        BY <2>1, <3>1, Rivals DEF Inv, Types
      <4> QED
        BY <4>1
    <3>2. CASE q = Rival(p)
      <4>1. offers'[q] = Append(offers[q], Mine(p)) /\ Rival(q) = p
        BY <2>1, <3>2, Rivals DEF Inv, Types
      <4>2. offers[q] \in Seq(Sent(p))
        BY <4>1 DEF Inv, Running
      <4> QED
        BY <1>2, <4>1, <4>2
    <3> QED
      BY <3>1, <3>2 DEF Role, Rival
  <2>2. CASE ~Listening(Rival(p))
    BY <2>2, TakingKeeps DEF Inv
  <2> QED
    BY <2>1, <2>2
<1>4. Running'
  BY <1>3, Fixed DEF Inv, Running, Listening
<1> QED
  BY <1>1, <1>4, QuietKeeps

LEMMA InvStep == Inv /\ [Next]_vars => Inv'
<1> SUFFICES ASSUME Inv, [Next]_vars PROVE Inv'
  OBVIOUS
<1>1. CASE UNCHANGED vars
  BY <1>1 DEF vars, instance, Inv, Types, Running, Adopted, Entered, Refused, Listening,
              Mine, Sent, Agreement, Repushes, Matched
<1>2. CASE Next
  <2>1. PICK p \in Role : Program(p) \/ Lapse(p) \/ Leaving(p) \/ PreviousAnswers(p)
    BY <1>2 DEF Next
  <2> QED
    BY <2>1, StartKeeps, PushKeeps, WindowLapsesKeeps, SkipOfferKeeps, AdoptOfferKeeps,
       RefuseOfferKeeps, AnswerReoffersKeeps, LapseKeeps, LeavingKeeps, PreviousAnswersKeeps
       DEF Program
<1> QED
  BY <1>1, <1>2

-----------------------------------------------------------------------------
(* The theorems *)

\* Nobody plays on an agreement of another window, of its own role, or of a
\* configuration it may not play with, whatever the two configurations are
\* (wire/terms.py, domain/negotiation.py, wire/repush.py).
THEOREM CounterpartIsRight == Spec => []RightCounterpart
<1>1. Inv => RightCounterpart
  BY DEF Inv, Adopted, Entered, RightCounterpart
<1> QED
  BY <1>1, InvInit, InvStep, PTL DEF Spec

\* No side adopts what the other refuses: each verdict alone decides whether the
\* two configurations are compatible.
THEOREM VerdictsAgree == Spec => []NoSplitVerdict
<1>1. Inv => NoSplitVerdict
  BY Rivals DEF Inv, Adopted, Refused, NoSplitVerdict
<1> QED
  BY <1>1, InvInit, InvStep, PTL DEF Spec
=============================================================================
