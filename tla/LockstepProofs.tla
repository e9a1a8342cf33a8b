--------------------------- MODULE LockstepProofs -----------------------------
(***************************************************************************)
(* Lockstep for every board, seat, action set and bound: first what each   *)
(* peer keeps is coherent by itself, then what the two agree on.           *)
(*                                                                         *)
(* Types gives every variable its domain. Local(p) ties one peer's logs,   *)
(* its replica, its consumed keys, its draft and its snapshot file to one  *)
(* another: the logs are an alternating legal game, the replica is that    *)
(* game replayed, and the file holds the logs of the memory. Addressed     *)
(* says that a message under way names its sender and its own step. All    *)
(* three hold in torn runs too. A step is shown to keep Types and Local    *)
(* one action at a time: lemmas XTypes and XLocal are about action X.      *)
(*                                                                         *)
(* Faithful: while no half-turn was cut off, whatever one peer holds of    *)
(* the other, in its inbox, its reorder buffer, its locked commit or its   *)
(* log, is what the other sealed. Furthest: the longest log is the game.   *)
(* With the above they make IInv, from which follow ReplicasAgree and      *)
(* that the two replicas implement the engine.                             *)
(*                                                                         *)
(* Closing adds the end of a game: the disclosures and the verdicts.       *)
(* Decisions holds in torn runs too: a commit names one decision, whatever *)
(* a restart made a peer decide again. Together they give MutualAudit.     *)
(*                                                                         *)
(* Supply is about calm games, with at most one crash: the half-turn a     *)
(* peer waits for is in its inbox, or its rival will be asked for it. So   *)
(* two peers never starve each other, no deadline has to lapse, and        *)
(* CrashCostsNothing follows; with Clean, CleanFinish.                     *)
(***************************************************************************)
EXTENDS Lockstep, PhysicsProofs

-----------------------------------------------------------------------------
(* Replaying a list of actions *)

\* What a half-turn is, to a log and to an engine.
Payload == [step : Nat, role : Role, action : Action]

\* The rearming loop of Replay, as an equation.
Unroll(f, n, A) ==
  f = [i \in 0 .. n |-> IF i = 0 THEN NewEngine
                        ELSE ApplyAction(f[i - 1], A[i].role, A[i].action)]

\* The loop has a value after every number of actions.
LEMMA UnrollExists ==
  ASSUME NEW A, NEW n \in Nat
  PROVE  \E f : Unroll(f, n, A)
<1> DEFINE Bad == {k \in Nat : ~ \E f : Unroll(f, k, A)}
<1>1. SUFFICES ASSUME Bad # {} PROVE FALSE
  OBVIOUS
<1>2. PICK m \in Bad : \A k \in Bad : m <= k
  BY <1>1, LeastNumber
<1>3. m # 0
  <2>1. Unroll([i \in 0 .. 0 |-> NewEngine], 0, A)
    BY DEF Unroll
  <2> QED BY <2>1
<1>4. PICK f : Unroll(f, m - 1, A)
  BY <1>2, <1>3
<1> DEFINE g == [i \in 0 .. m |->
                   IF i = m THEN ApplyAction(f[m - 1], A[m].role, A[m].action)
                   ELSE f[i]]
<1>5. Unroll(g, m, A)
  <2>1. ASSUME NEW i \in 0 .. m
        PROVE  g[i] = IF i = 0 THEN NewEngine
                      ELSE ApplyAction(g[i - 1], A[i].role, A[i].action)
    <3>1. CASE i = m
      BY <1>3, <3>1
    <3>2. CASE i # m
      <4>1. i \in 0 .. (m - 1) /\ g[i] = f[i] /\ (i # 0 => g[i - 1] = f[i - 1])
        BY <3>2
      <4>2. f[i] = IF i = 0 THEN NewEngine
                   ELSE ApplyAction(f[i - 1], A[i].role, A[i].action)
        BY <4>1, <1>4 DEF Unroll
      <4> QED BY <4>1, <4>2
    <3> QED BY <3>1, <3>2
  <2> QED BY <2>1 DEF Unroll
<1> QED BY <1>2, <1>5

\* Replay is the loop's last value.
LEMMA ReplayUnroll ==
  ASSUME NEW A, Len(A) \in Nat
  PROVE  \E f : Unroll(f, Len(A), A) /\ Replay(A) = f[Len(A)]
<1>1. \E f : Unroll(f, Len(A), A)
  BY UnrollExists
<1> DEFINE after == CHOOSE f : f = [i \in 0 .. Len(A) |->
                   IF i = 0 THEN NewEngine
                   ELSE ApplyAction(f[i - 1], A[i].role, A[i].action)]
<1>2. after = [i \in 0 .. Len(A) |->
                   IF i = 0 THEN NewEngine
                   ELSE ApplyAction(after[i - 1], A[i].role, A[i].action)]
  BY <1>1 DEF Unroll
<1>3. Replay(A) = after[Len(A)]
  BY DEF Replay
<1> QED BY <1>2, <1>3 DEF Unroll

\* Replaying nothing leaves a new engine.
LEMMA ReplayEmpty == Replay(<< >>) = NewEngine
<1>1. Len(<< >>) = 0
  OBVIOUS
<1>2. PICK f : Unroll(f, 0, << >>) /\ Replay(<< >>) = f[0]
  BY <1>1, ReplayUnroll
<1> QED BY <1>2 DEF Unroll

\* Replaying one action more is applying it to what was replayed.
LEMMA ReplayAppend ==
  ASSUME NEW A \in Seq(Payload), NEW a \in Payload
  PROVE  Replay(Append(A, a)) = ApplyAction(Replay(A), a.role, a.action)
<1> DEFINE n == Len(A)
           B == Append(A, a)
<1>1. n \in Nat /\ Len(B) = n + 1 /\ B[n + 1] = a /\ \A i \in 1 .. n : B[i] = A[i]
  BY AppendProperties, LenProperties
<1> HIDE DEF n, B
<1>2. PICK f : Unroll(f, n, A) /\ Replay(A) = f[n]
  BY <1>1, ReplayUnroll DEF n
<1>3. PICK g : Unroll(g, n + 1, B) /\ Replay(B) = g[n + 1]
  BY <1>1, ReplayUnroll DEF n
<1>4. f[n] = g[n]
  <2> DEFINE Bad == {k \in 0 .. n : f[k] # g[k]}
  <2>1. SUFFICES ASSUME Bad # {} PROVE FALSE
    BY <1>1
  <2>2. PICK k \in Bad : \A j \in Bad : k <= j
    <3>1. Bad \in SUBSET Nat
      OBVIOUS
    <3> HIDE DEF Bad
    <3> QED BY <2>1, <3>1, LeastNumber
  <2>3. k \in 0 .. n /\ k \in 0 .. n + 1
    BY <1>1
  <2>4. f[k] = IF k = 0 THEN NewEngine
               ELSE ApplyAction(f[k - 1], A[k].role, A[k].action)
    BY <1>2, <2>3 DEF Unroll
  <2>5. g[k] = IF k = 0 THEN NewEngine
               ELSE ApplyAction(g[k - 1], B[k].role, B[k].action)
    BY <1>3, <2>3 DEF Unroll
  <2>6. k # 0
    BY <2>4, <2>5
  <2>7. f[k - 1] = g[k - 1]
    BY <1>1, <2>2, <2>6
  <2>8. A[k] = B[k]
    BY <1>1, <2>3, <2>6
  <2> QED BY <2>4, <2>5, <2>6, <2>7, <2>8
<1>5. g[n + 1] = ApplyAction(g[n], a.role, a.action)
  BY <1>1, <1>3 DEF Unroll
<1> QED BY <1>2, <1>3, <1>4, <1>5 DEF B

-----------------------------------------------------------------------------

\* Domains of sealed records, commits and the records received.
SealedRec == [payload : Payload, nonce : Nat, commit : [payload : Payload, nonce : Nat]]
Commit == [payload : Payload, nonce : Nat]
SeenRec == [payload : Payload, commit : Commit] \cup
           [payload : Payload, commit : Commit, nonce : Nat]

\* The step at which role r plays its half-turn i: police starts.
Slot(r, i) == IF r = "police" THEN 2 * i - 1 ELSE 2 * i

\* Lengths of p's two logs in an alternating game.
Balanced(p, m, n) ==
  IF p = "police" THEN n <= m /\ m <= n + 1 ELSE m <= n /\ n <= m + 1

\* The records of both logs sit at their steps, and carry their role.
Aligned(p, o, t) ==
  /\ Balanced(p, Len(o), Len(t))
  /\ \A i \in 1 .. Len(o) : /\ o[i].payload.step = Slot(p, i)
                              /\ o[i].payload.role = p
  /\ \A i \in 1 .. Len(t) : /\ t[i].payload.step = Slot(Rival(p), i)
                              /\ t[i].payload.role = Rival(p)

\* No two half-turns share a step.
LEMMA SlotFacts ==
  ASSUME NEW p \in Role
  PROVE  /\ \A i \in Nat : Slot(p, i) \in Int
         /\ \A i \in Nat \ {0} : Slot(p, i) \in Nat \ {0}
         /\ \A i, j \in Nat : Slot(p, i) = Slot(p, j) => i = j
         /\ \A i, j \in Nat : Slot(p, i) # Slot(Rival(p), j)
BY DEF Role, Rival, Slot

\* Every half-turn has an owner.
LEMMA SlotOwner ==
  ASSUME NEW p \in Role, NEW s \in Nat \ {0}
  PROVE  \E i \in Nat \ {0} : s = Slot(p, i) \/ s = Slot(Rival(p), i)
<1>1. PICK i \in Nat : s = 2 * i \/ s = 2 * i + 1
  <2>1. (s \div 2) \in Nat /\ (s = 2 * (s \div 2) \/ s = 2 * (s \div 2) + 1)
    OBVIOUS
  <2> QED BY <2>1
<1>2. CASE s = 2 * i
  BY <1>2 DEF Slot, Rival, Role
<1>3. CASE s = 2 * i + 1
  <2>1. s = 2 * (i + 1) - 1 /\ i + 1 \in Nat \ {0}
    BY <1>3
  <2> QED BY <2>1 DEF Slot, Rival, Role
<1> QED BY <1>1, <1>2, <1>3

\* The slots two balanced logs fill are the first half-turns, without a gap.
LEMMA SlotRange ==
  ASSUME NEW p \in Role, NEW m \in Nat, NEW n \in Nat, Balanced(p, m, n)
  PROVE  /\ \A i \in Nat \ {0} : Slot(p, i) <= m + n <=> i <= m
         /\ \A i \in Nat \ {0} : Slot(Rival(p), i) <= m + n <=> i <= n
<1>1. CASE p = "police"
  BY <1>1 DEF Slot, Rival, Balanced
<1>2. CASE p = "thief"
  BY <1>2 DEF Slot, Rival, Balanced
<1> QED BY <1>1, <1>2 DEF Role

\* Actions merges aligned logs: record i of a role is at its step.
LEMMA ActionsFacts ==
  ASSUME NEW p \in Role, NEW o \in Seq(SealedRec), NEW t \in Seq(SeenRec),
         Aligned(p, o, t)
  PROVE  /\ Actions(o, t) \in Seq(Payload)
         /\ Len(Actions(o, t)) = Len(o) + Len(t)
         /\ \A i \in 1 .. Len(o) : Actions(o, t)[Slot(p, i)] = o[i].payload
         /\ \A i \in 1 .. Len(t) : Actions(o, t)[Slot(Rival(p), i)] = t[i].payload
         /\ \A s \in 1 .. Len(o) + Len(t) : Actions(o, t)[s].step = s
<1> DEFINE all == {r.payload : r \in Range(o) \cup Range(t)}
           n == Len(o) + Len(t)
           At(s) == CHOOSE a \in all : a.step = s
<1>1. Len(o) \in Nat /\ Len(t) \in Nat /\ n \in Nat
  BY LenProperties
<1>2. /\ \A i \in 1 .. Len(o) : o[i] \in SealedRec /\ o[i].payload \in all
      /\ \A i \in 1 .. Len(t) : t[i] \in SeenRec /\ t[i].payload \in all
  <2>1. DOMAIN o = 1 .. Len(o) /\ DOMAIN t = 1 .. Len(t)
    BY LenProperties
  <2> QED BY <2>1, ElementOfSeq DEF Range
<1>3. \A a \in all : \/ \E i \in 1 .. Len(o) : a = o[i].payload
                     \/ \E i \in 1 .. Len(t) : a = t[i].payload
  <2>1. DOMAIN o = 1 .. Len(o) /\ DOMAIN t = 1 .. Len(t)
    BY LenProperties
  <2> QED BY <2>1 DEF Range
<1>4. /\ \A i \in 1 .. Len(o) : o[i].payload \in Payload
      /\ \A i \in 1 .. Len(t) : t[i].payload \in Payload
  BY <1>2 DEF SealedRec, SeenRec
<1> HIDE DEF all
<1>5. all \subseteq Payload
  BY <1>3, <1>4
<1>6. \A a, b \in all : a.step = b.step => a = b
  <2> SUFFICES ASSUME NEW a \in all, NEW b \in all, a.step = b.step
               PROVE  a = b
    OBVIOUS
  <2>1. ASSUME NEW i \in 1 .. Len(o), NEW j \in 1 .. Len(o),
               a = o[i].payload, b = o[j].payload
        PROVE  a = b
    <3>1. i \in Nat /\ j \in Nat /\ Slot(p, i) = Slot(p, j)
      BY <1>1, <2>1 DEF Aligned
    <3> QED BY <2>1, <3>1, SlotFacts
  <2>2. ASSUME NEW i \in 1 .. Len(t), NEW j \in 1 .. Len(t),
               a = t[i].payload, b = t[j].payload
        PROVE  a = b
    <3>1. i \in Nat /\ j \in Nat /\ Slot(Rival(p), i) = Slot(Rival(p), j)
      BY <1>1, <2>2 DEF Aligned
    <3>2. Rival(p) \in Role
      BY RivalFacts
    <3> QED BY <2>2, <3>1, <3>2, SlotFacts
  <2>3. ASSUME NEW i \in 1 .. Len(o), NEW j \in 1 .. Len(t)
        PROVE  o[i].payload.step # t[j].payload.step
    <3>1. i \in Nat /\ j \in Nat
      BY <1>1
    <3>2. o[i].payload.step = Slot(p, i) /\ t[j].payload.step = Slot(Rival(p), j)
      BY DEF Aligned
    <3>3. Slot(p, i) # Slot(Rival(p), j)
      BY <3>1, SlotFacts
    <3> QED BY <3>2, <3>3
  <2> QED BY <1>3, <2>1, <2>2, <2>3
<1>7. \A a \in all : a.step \in 1 .. n
  <2>1. ASSUME NEW i \in 1 .. Len(o)
        PROVE  o[i].payload.step \in 1 .. n
    <3>1. i \in Nat \ {0} /\ i <= Len(o) /\ o[i].payload.step = Slot(p, i)
      BY <1>1 DEF Aligned
    <3> QED BY <1>1, <3>1, SlotRange, SlotFacts DEF Aligned
  <2>2. ASSUME NEW i \in 1 .. Len(t)
        PROVE  t[i].payload.step \in 1 .. n
    <3>1. i \in Nat \ {0} /\ i <= Len(t) /\ t[i].payload.step = Slot(Rival(p), i)
      BY <1>1 DEF Aligned
    <3>2. Slot(Rival(p), i) \in Nat \ {0}
      BY <3>1, SlotFacts, RivalFacts
    <3> QED BY <1>1, <3>1, <3>2, SlotRange DEF Aligned
  <2> QED BY <1>3, <2>1, <2>2
<1>8. \A s \in 1 .. n : \E a \in all : a.step = s
  <2> SUFFICES ASSUME NEW s \in 1 .. n PROVE \E a \in all : a.step = s
    OBVIOUS
  <2>1. PICK i \in Nat \ {0} : s = Slot(p, i) \/ s = Slot(Rival(p), i)
    BY <1>1, SlotOwner
  <2>2. CASE s = Slot(p, i)
    <3>1. i \in 1 .. Len(o)
      BY <1>1, <2>2, SlotRange DEF Aligned
    <3> QED BY <1>2, <2>2, <3>1 DEF Aligned
  <2>3. CASE s = Slot(Rival(p), i)
    <3>1. i \in 1 .. Len(t)
      BY <1>1, <2>3, SlotRange DEF Aligned
    <3> QED BY <1>2, <2>3, <3>1 DEF Aligned
  <2> QED BY <2>1, <2>2, <2>3
<1>9. \A s \in 1 .. n : At(s) \in all /\ At(s).step = s
  BY <1>8
<1>10. \A a \in all : At(a.step) = a
  BY <1>6, <1>7, <1>9
<1> HIDE DEF At
<1>11. Cardinality(all) = n
  <2> DEFINE f == [s \in 1 .. n |-> At(s)]
  <2>1. f \in Bijection(1 .. n, all)
    <3>1. f \in [1 .. n -> all]
      BY <1>9
    <3>2. \A a, b \in 1 .. n : f[a] = f[b] => a = b
      BY <1>9
    <3>3. \A a \in all : \E s \in 1 .. n : f[s] = a
      BY <1>7, <1>10
    <3> HIDE DEF f
    <3> QED BY <3>1, <3>2, <3>3, Fun_IsBij
  <2>2. IsFiniteSet(1 .. n) /\ Cardinality(1 .. n) = n
    BY <1>1, FS_Interval
  <2> HIDE DEF f, n
  <2> QED BY <2>1, <2>2, FS_Bijection DEF ExistsBijection
<1>12. Actions(o, t) = [s \in 1 .. n |-> At(s)]
  BY <1>11 DEF Actions, all, At
<1>13. /\ Actions(o, t) \in Seq(Payload)
       /\ Len(Actions(o, t)) = n
       /\ \A s \in 1 .. n : Actions(o, t)[s] = At(s)
  <2>1. \A s \in 1 .. n : At(s) \in Payload
    BY <1>5, <1>9
  <2> HIDE DEF n
  <2> QED BY <1>1, <1>12, <2>1
<1>14. \A i \in 1 .. Len(o) : Slot(p, i) \in 1 .. n /\ At(Slot(p, i)) = o[i].payload
  BY <1>2, <1>7, <1>10 DEF Aligned
<1>15. \A i \in 1 .. Len(t) : /\ Slot(Rival(p), i) \in 1 .. n
                              /\ At(Slot(Rival(p), i)) = t[i].payload
  BY <1>2, <1>7, <1>10 DEF Aligned
<1> QED BY <1>9, <1>13, <1>14, <1>15

-----------------------------------------------------------------------------
(* The two logs of a peer, merged by step *)

\* Every action of the list is accepted by the engine it is applied to.
Legal(A) ==
  \A i \in 1 .. Len(A) :
    ActionLegal(Replay(SubSeq(A, 1, i - 1)), A[i].role, A[i].action)

\* A prefix by SubSeq.
LEMMA PartFacts ==
  ASSUME NEW S, NEW A \in Seq(S), NEW k \in 0 .. Len(A)
  PROVE  /\ SubSeq(A, 1, k) \in Seq(S)
         /\ Len(SubSeq(A, 1, k)) = k
         /\ \A i \in 1 .. k : SubSeq(A, 1, k)[i] = A[i]
<1>1. Len(A) \in Nat /\ \A i \in 1 .. k : A[i] \in S
  BY LenProperties, ElementOfSeq
<1>2. 1 \in Int /\ k \in Int /\ (1 <= k => k - 1 + 1 = k) /\ (~ 1 <= k => k = 0)
      /\ k - 1 + 1 = k /\ \A i \in 1 .. k : 1 + i - 1 = i
  BY <1>1
<1> QED BY <1>1, <1>2, SubSeqProperties

\* The shortest and the longest prefix.
LEMMA PartEnds ==
  ASSUME NEW S, NEW A \in Seq(S)
  PROVE  SubSeq(A, 1, 0) = << >> /\ SubSeq(A, 1, Len(A)) = A
BY SubSeqFull, SubSeqEmpty

\* A prefix is the next shorter one and one more element.
LEMMA PartGrows ==
  ASSUME NEW S, NEW A \in Seq(S), NEW k \in 1 .. Len(A)
  PROVE  SubSeq(A, 1, k) = Append(SubSeq(A, 1, k - 1), A[k])
<1>1. Len(A) \in Nat /\ A[k] \in S /\ k \in 0 .. Len(A) /\ k - 1 \in 0 .. Len(A)
  BY LenProperties, ElementOfSeq
<1>2. /\ SubSeq(A, 1, k) \in Seq(S) /\ Len(SubSeq(A, 1, k)) = k
      /\ \A i \in 1 .. k : SubSeq(A, 1, k)[i] = A[i]
  BY <1>1, PartFacts
<1>3. /\ SubSeq(A, 1, k - 1) \in Seq(S) /\ Len(SubSeq(A, 1, k - 1)) = k - 1
      /\ \A i \in 1 .. k - 1 : SubSeq(A, 1, k - 1)[i] = A[i]
  BY <1>1, PartFacts
<1> DEFINE B == SubSeq(A, 1, k - 1)
           C == SubSeq(A, 1, k)
<1> HIDE DEF B, C
<1>4. /\ Append(B, A[k]) \in Seq(S) /\ Len(Append(B, A[k])) = k
      /\ \A i \in 1 .. k : Append(B, A[k])[i] = A[i]
  <2>1. B \in Seq(S) /\ Len(B) = k - 1 /\ \A i \in 1 .. k - 1 : B[i] = A[i]
    BY <1>3 DEF B
  <2>2. /\ Append(B, A[k]) \in Seq(S) /\ Len(Append(B, A[k])) = k
        /\ \A i \in 1 .. k - 1 : Append(B, A[k])[i] = A[i]
        /\ Append(B, A[k])[k] = A[k]
    BY <1>1, <2>1, AppendProperties
  <2> QED BY <1>1, <2>2
<1>5. C \in Seq(S) /\ Len(C) = k /\ \A i \in 1 .. k : C[i] = A[i]
  BY <1>2 DEF C
<1>6. C = Append(B, A[k])
  BY <1>1, <1>4, <1>5, SeqEqual
<1> QED BY <1>6 DEF B, C

\* Appending leaves the prefixes as they were.
LEMMA PartOfAppend ==
  ASSUME NEW S, NEW A \in Seq(S), NEW a \in S, NEW k \in 0 .. Len(A)
  PROVE  SubSeq(Append(A, a), 1, k) = SubSeq(A, 1, k)
<1> DEFINE B == Append(A, a)
<1>1. /\ Len(A) \in Nat /\ B \in Seq(S) /\ Len(B) = Len(A) + 1
      /\ \A i \in 1 .. Len(A) : B[i] = A[i]
  BY LenProperties, AppendProperties
<1> HIDE DEF B
<1>2. k \in 0 .. Len(B)
  BY <1>1
<1>3. /\ SubSeq(A, 1, k) \in Seq(S) /\ Len(SubSeq(A, 1, k)) = k
      /\ \A i \in 1 .. k : SubSeq(A, 1, k)[i] = A[i]
  BY PartFacts
<1>4. /\ SubSeq(B, 1, k) \in Seq(S) /\ Len(SubSeq(B, 1, k)) = k
      /\ \A i \in 1 .. k : SubSeq(B, 1, k)[i] = B[i]
  BY <1>1, <1>2, PartFacts
<1> DEFINE x == SubSeq(A, 1, k)
           y == SubSeq(B, 1, k)
<1>5. x \in Seq(S) /\ y \in Seq(S) /\ Len(x) = Len(y) /\ \A i \in 1 .. Len(x) : x[i] = y[i]
  BY <1>1, <1>3, <1>4
<1> HIDE DEF x, y
<1>6. x = y
  BY <1>5, SeqEqual
<1> QED BY <1>6 DEF x, y, B

\* A prefix of a prefix is a prefix.
LEMMA PartOfPart ==
  ASSUME NEW S, NEW A \in Seq(S), NEW k \in 0 .. Len(A), NEW j \in 0 .. k
  PROVE  SubSeq(SubSeq(A, 1, k), 1, j) = SubSeq(A, 1, j)
<1> DEFINE B == SubSeq(A, 1, k)
<1>1. Len(A) \in Nat /\ B \in Seq(S) /\ Len(B) = k /\ \A i \in 1 .. k : B[i] = A[i]
  BY LenProperties, PartFacts
<1> HIDE DEF B
<1>2. j \in 0 .. Len(B) /\ j \in 0 .. Len(A)
  BY <1>1
<1>3. /\ SubSeq(A, 1, j) \in Seq(S) /\ Len(SubSeq(A, 1, j)) = j
      /\ \A i \in 1 .. j : SubSeq(A, 1, j)[i] = A[i]
  BY <1>2, PartFacts
<1>4. /\ SubSeq(B, 1, j) \in Seq(S) /\ Len(SubSeq(B, 1, j)) = j
      /\ \A i \in 1 .. j : SubSeq(B, 1, j)[i] = B[i]
  BY <1>1, <1>2, PartFacts
<1> DEFINE x == SubSeq(A, 1, j)
           y == SubSeq(B, 1, j)
<1>5. x \in Seq(S) /\ y \in Seq(S) /\ Len(x) = Len(y) /\ \A i \in 1 .. Len(x) : x[i] = y[i]
  BY <1>1, <1>3, <1>4
<1> HIDE DEF x, y
<1>6. x = y
  BY <1>5, SeqEqual
<1> QED BY <1>6 DEF x, y, B

\* The engine after a legal log, and who moves next on it.
LEMMA LegalFacts ==
  ASSUME NEW A \in Seq(Payload), Legal(A)
  PROVE  /\ Replay(A) \in EngineType
         /\ A = << >> => Replay(A).next_actor = "police"
         /\ A # << >> => Replay(A).next_actor = Rival(A[Len(A)].role)
<1> DEFINE R(k) == Replay(SubSeq(A, 1, k))
           Bad == {k \in 0 .. Len(A) : R(k) \notin EngineType}
<1>1. Len(A) \in Nat
  BY LenProperties
<1>2. R(0) = NewEngine
  BY PartEnds, ReplayEmpty
<1>3. ASSUME NEW k \in 1 .. Len(A)
      PROVE  /\ A[k] \in Payload /\ A[k].role \in Role /\ A[k].action \in Action
             /\ R(k) = ApplyAction(R(k - 1), A[k].role, A[k].action)
             /\ ActionLegal(R(k - 1), A[k].role, A[k].action)
  <2>1. A[k] \in Payload /\ SubSeq(A, 1, k - 1) \in Seq(Payload)
    BY <1>1, ElementOfSeq, PartFacts
  <2>2. SubSeq(A, 1, k) = Append(SubSeq(A, 1, k - 1), A[k])
    BY PartGrows
  <2> QED BY <2>1, <2>2, ReplayAppend DEF Legal, Payload
<1> HIDE DEF R
<1>4. Bad = {}
  <2>1. SUFFICES ASSUME Bad # {} PROVE FALSE
    OBVIOUS
  <2>2. PICK k \in Bad : \A j \in Bad : k <= j
    <3>1. Bad \in SUBSET Nat
      BY <1>1
    <3> HIDE DEF Bad
    <3> QED BY <2>1, <3>1, LeastNumber
  <2>3. k # 0
    BY <1>2, NewEngineFacts
  <2>4. R(k - 1) \in EngineType
    BY <1>1, <2>2, <2>3
  <2>5. R(k) \in EngineType
    BY <1>3, <2>3, <2>4, ApplyActionFacts
  <2> QED BY <2>2, <2>5
<1>5. R(Len(A)) = Replay(A)
  BY PartEnds DEF R
<1>6. A = << >> => Replay(A) = NewEngine
  BY ReplayEmpty
<1>7. ASSUME A # << >>
      PROVE  Replay(A).next_actor = Rival(A[Len(A)].role)
  <2>1. Len(A) \in 1 .. Len(A) /\ Len(A) - 1 \in 0 .. Len(A)
    BY <1>1, <1>7, EmptySeq
  <2>2. R(Len(A) - 1) \in EngineType
    BY <1>4, <2>1
  <2> QED BY <1>3, <1>5, <2>1, <2>2, ApplyActionFacts
<1>8. Len(A) \in 0 .. Len(A)
  BY <1>1
<1> QED BY <1>4, <1>5, <1>6, <1>7, <1>8, NewEngineFacts

\* A legal log grows by what its engine accepts, and by nothing else.
LEMMA LegalAppend ==
  ASSUME NEW A \in Seq(Payload), NEW a \in Payload
  PROVE  Legal(Append(A, a)) <=> Legal(A) /\ ActionLegal(Replay(A), a.role, a.action)
<1> DEFINE B == Append(A, a)
           n == Len(A)
<1>1. n \in Nat /\ Len(B) = n + 1 /\ B[n + 1] = a /\ \A i \in 1 .. n : B[i] = A[i]
  BY LenProperties, AppendProperties
<1>2. \A k \in 0 .. n : SubSeq(B, 1, k) = SubSeq(A, 1, k)
  BY PartOfAppend
<1>3. SubSeq(A, 1, n) = A
  BY PartEnds
<1> HIDE DEF B, n
<1>4. \A i \in 1 .. n : SubSeq(B, 1, i - 1) = SubSeq(A, 1, i - 1)
  BY <1>1, <1>2
<1>5. SubSeq(B, 1, (n + 1) - 1) = A
  <2>1. (n + 1) - 1 = n /\ n \in 0 .. n
    BY <1>1
  <2> QED BY <1>2, <1>3, <2>1
<1>6. ASSUME Legal(B) PROVE Legal(A) /\ ActionLegal(Replay(A), a.role, a.action)
  <2>1. \A i \in 1 .. n + 1 :
          ActionLegal(Replay(SubSeq(B, 1, i - 1)), B[i].role, B[i].action)
    BY <1>1, <1>6 DEF Legal
  <2>2. n + 1 \in 1 .. n + 1 /\ \A i \in 1 .. n : i \in 1 .. n + 1
    BY <1>1
  <2>3. \A i \in 1 .. n :
          ActionLegal(Replay(SubSeq(A, 1, i - 1)), A[i].role, A[i].action)
    BY <1>1, <1>4, <2>1, <2>2
  <2>4. ActionLegal(Replay(A), a.role, a.action)
    BY <1>1, <1>5, <2>1, <2>2
  <2> QED BY <2>3, <2>4 DEF Legal, n
<1>7. ASSUME Legal(A), ActionLegal(Replay(A), a.role, a.action) PROVE Legal(B)
  <2>1. \A i \in 1 .. n :
          ActionLegal(Replay(SubSeq(A, 1, i - 1)), A[i].role, A[i].action)
    BY <1>7 DEF Legal, n
  <2> SUFFICES ASSUME NEW i \in 1 .. n + 1
               PROVE  ActionLegal(Replay(SubSeq(B, 1, i - 1)), B[i].role, B[i].action)
    BY <1>1 DEF Legal
  <2>2. CASE i = n + 1
    BY <1>1, <1>5, <1>7, <2>2
  <2>3. CASE i \in 1 .. n
    BY <1>1, <1>4, <2>1, <2>3
  <2> QED BY <1>1, <2>2, <2>3
<1> QED BY <1>6, <1>7 DEF B

\* A part of a legal log is legal, and the game was on after it.
LEMMA LegalPart ==
  ASSUME NEW A \in Seq(Payload), Legal(A), NEW k \in 0 .. Len(A)
  PROVE  /\ Legal(SubSeq(A, 1, k))
         /\ k < Len(A) => Replay(SubSeq(A, 1, k)).outcome = "ongoing"
<1> DEFINE B == SubSeq(A, 1, k)
<1>1. Len(A) \in Nat /\ Len(B) = k /\ \A i \in 1 .. k : B[i] = A[i]
  BY LenProperties, PartFacts
<1>2. \A j \in 0 .. k : SubSeq(B, 1, j) = SubSeq(A, 1, j)
  BY PartOfPart
<1> HIDE DEF B
<1>3. \A i \in 1 .. k : i \in 1 .. Len(A) /\ SubSeq(B, 1, i - 1) = SubSeq(A, 1, i - 1)
  BY <1>1, <1>2
<1>4. Legal(B)
  BY <1>1, <1>3 DEF Legal
<1>5. ASSUME k < Len(A)
      PROVE  Replay(SubSeq(A, 1, k)).outcome = "ongoing"
  <2>1. k + 1 \in 1 .. Len(A) /\ (k + 1) - 1 = k
    BY <1>1, <1>5
  <2>2. ActionLegal(Replay(SubSeq(A, 1, k)), A[k + 1].role, A[k + 1].action)
    <3>1. ActionLegal(Replay(SubSeq(A, 1, (k + 1) - 1)), A[k + 1].role, A[k + 1].action)
      BY <2>1 DEF Legal
    <3> QED BY <2>1, <3>1
  <2> QED BY <2>2 DEF ActionLegal, RequireTurn
<1> QED BY <1>4, <1>5 DEF B

-----------------------------------------------------------------------------
(* Domains *)

\* Domains of the variables.
Kinds == {"commit", "reveal"}
PC == {"loop", "revealing", "applying", "await_reveal", "await_audit", "failed",
       "offering", "down", "done"}
Msg == [kind : {"commit"}, turn : Nat, actor : Role, commit : Commit] \cup
       [kind : {"reveal"}, turn : Nat, actor : Role, payload : Payload]
Digest == [positions : [Role -> Cell], barriers : SUBSET Cell,
           turns_completed : Nat, outcome : Outcome]
Snap == [own : Seq(SealedRec), their : Seq(SeenRec),
         consumed : SUBSET (Kinds \X Nat), digest : Digest]
Error == {"none", "deadline", "flooded", "illegal action", "echoed role",
          "conflicting commit"}
Report == [error : Error] \cup
  [error : Error, outcome : Outcome,
   audit : {"Verified OK", "TAMPERED", "not received"}, digest_match : BOOLEAN]
Disclosed == [digest : Digest, nonces : Seq(Nat)]

\* What a peer keeps in memory and on disk has its domain.
TypesOfPeers ==
  /\ pc \in [Role -> PC]
  /\ engine \in [Role -> EngineType]
  /\ draft \in [Role -> SealedRec \cup {None}]
  /\ locked \in [Role -> Commit \cup {None}]
  /\ own \in [Role -> Seq(SealedRec)]
  /\ their \in [Role -> Seq(SeenRec)]
  /\ consumed \in [Role -> SUBSET (Kinds \X Nat)]
  /\ resending \in [Role -> BOOLEAN]
  /\ snapshot \in [Role -> Snap \cup {None}]
  /\ report \in [Role -> Report \cup {None}]
  /\ incarnation \in [Role -> Nat]

\* What is under way has its domain.
TypesOfWire ==
  /\ pending \in [Role -> SUBSET Msg]
  /\ turns \in [Role -> Seq(Msg)]
  /\ audits \in [Role -> Seq(Disclosed)]
  /\ controls \in [Role -> Nat]
  /\ late \subseteq Msg

\* The budgets and the history variables have their domain.
TypesOfHistory ==
  /\ crashes \in Nat /\ lapses \in Nat /\ spares \in Nat
  /\ torn \in BOOLEAN /\ excused \in BOOLEAN
  /\ game \in [engine : EngineType, length : Nat]

\* Type correctness; the phases have a theorem of their own, Machine.
Types == TypesOfPeers /\ TypesOfWire /\ TypesOfHistory

\* The missing value is no record, commit, snapshot or report.
LEMMA NoneFacts == None \notin SealedRec /\ None \notin Commit /\ None \notin Snap /\ None \notin Report
BY DEF None, SealedRec, Commit, Snap, Report

\* SendTurn touches the rival's inbox and the network only.
LEMMA SendTurnEffect ==
  ASSUME Types, NEW p \in Role, NEW m \in Msg, SendTurn(p, m)
  PROVE  /\ turns' \in [Role -> Seq(Msg)]
         /\ late' \subseteq Msg /\ spares' \in Nat
         /\ turns'[p] = turns[p]
         /\ turns'[Rival(p)] = IF pc[Rival(p)] = "done" THEN turns[Rival(p)]
                               ELSE Append(turns[Rival(p)], m)
         /\ Range(turns'[Rival(p)]) \subseteq Range(turns[Rival(p)]) \cup {m}
         /\ late' \subseteq late \cup {m}
         /\ pc[Rival(p)] # "down"
<1>1. Rival(p) \in Role /\ Rival(p) # p
  BY RivalFacts
<1>2. turns \in [Role -> Seq(Msg)] /\ late \subseteq Msg /\ spares \in Nat
  BY DEF Types, TypesOfWire, TypesOfHistory
<1>3. Append(turns[Rival(p)], m) \in Seq(Msg)
  BY <1>1, <1>2, AppendProperties
<1>4. Range(Append(turns[Rival(p)], m)) = Range(turns[Rival(p)]) \cup {m}
  BY <1>1, <1>2, RangeFacts
<1>5. turns' = IF pc[Rival(p)] = "done" THEN turns
               ELSE [turns EXCEPT ![Rival(p)] = Append(@, m)]
  BY DEF SendTurn, Delivered
<1>6. late' \subseteq late \cup {m} /\ spares' \in Nat
  BY <1>2 DEF SendTurn
<1>7. pc[Rival(p)] # "down"
  BY DEF SendTurn, Up
<1> QED BY <1>1, <1>2, <1>3, <1>4, <1>5, <1>6, <1>7

\* The next message is in the reorder buffer or heads the inbox.
LEMMA MessageFacts ==
  ASSUME Types, NEW p \in Role, HasMessage(p)
  PROVE  /\ Message(p) \in Msg
         /\ Message(p) \in pending[p] \cup Range(turns[p])
         /\ Buffered(p) # {} => Message(p) \in Buffered(p)
         /\ Buffered(p) = {} => turns[p] # << >> /\ Message(p) = Head(turns[p])
<1>1. turns \in [Role -> Seq(Msg)] /\ pending \in [Role -> SUBSET Msg]
  BY DEF Types, TypesOfWire
<1>2. CASE Buffered(p) # {}
  BY <1>1, <1>2 DEF Message, Buffered
<1>3. CASE Buffered(p) = {}
  <2>1. turns[p] # << >> /\ Message(p) = Head(turns[p])
    BY <1>3 DEF HasMessage, Message
  <2> QED BY <1>1, <1>3, <2>1, RangeFacts
<1> QED BY <1>2, <1>3

\* Taking a message only removes from one's own inbox and buffer.
LEMMA TakeMessageEffect ==
  ASSUME Types, NEW p \in Role, HasMessage(p), TakeMessage(p)
  PROVE  /\ turns' \in [Role -> Seq(Msg)] /\ pending' \in [Role -> SUBSET Msg]
         /\ turns'[Rival(p)] = turns[Rival(p)] /\ pending'[Rival(p)] = pending[Rival(p)]
         /\ Range(turns'[p]) \subseteq Range(turns[p])
         /\ pending'[p] = pending[p] \ Buffered(p)
<1>1. turns \in [Role -> Seq(Msg)] /\ pending \in [Role -> SUBSET Msg]
  BY DEF Types, TypesOfWire
<1>2. Rival(p) # p /\ Rival(p) \in Role
  BY RivalFacts
<1>3. CASE Buffered(p) # {}
  BY <1>1, <1>2, <1>3 DEF TakeMessage
<1>4. CASE Buffered(p) = {}
  <2>1. turns[p] # << >> /\ turns' = [turns EXCEPT ![p] = Tail(@)] /\ pending' = pending
    BY <1>4 DEF HasMessage, TakeMessage
  <2>2. Tail(turns[p]) \in Seq(Msg) /\ Range(Tail(turns[p])) \subseteq Range(turns[p])
    BY <1>1, <2>1, RangeFacts
  <2> QED BY <1>1, <1>2, <1>4, <2>1, <2>2
<1> QED BY <1>3, <1>4

-----------------------------------------------------------------------------
(* What one peer keeps *)

\* The loop of p runs, or waits to be entered again.
Live(p) == pc[p] \notin {"failed", "down", "done"}

\* p's game ended by the rules.
Closed(p) == pc[p] = "done" /\ report[p].error = "none"

\* p's replica stands: it has not failed.
Sound(p) == Live(p) \/ Closed(p)

\* p's logs in memory are a game. A failure outside a torn run leaves
\* them so: only an illegal action of the rival would not.
Intact(p) == Sound(p) \/ (~torn /\ pc[p] # "down")

\* Equal but for the nonces, which the audit adds.
SameRecords(t, u) ==
  /\ Len(t) = Len(u)
  /\ \A i \in 1 .. Len(t) : t[i].payload = u[i].payload /\ t[i].commit = u[i].commit

\* Each record carries the hash of its payload and nonce.
SealedLog(o) ==
  \A i \in 1 .. Len(o) : o[i].commit = CommitHash(o[i].payload, o[i].nonce)

\* The keys of the first n half-turns of r.
Keys(r, n) == {<<k, Slot(r, i)>> : k \in Kinds, i \in 1 .. n}

\* The logs o and t are one alternating legal game, with locked commits of
\* the right steps.
LogOK(p, o, t) ==
  /\ Aligned(p, o, t)
  /\ Legal(Actions(o, t))
  /\ \A i \in 1 .. Len(t) : t[i].commit.payload.step = Slot(Rival(p), i)

\* A snapshot holds such logs, and the keys they consumed.
FiledSnapshot(p, s) ==
  /\ LogOK(p, s.own, s.their) /\ SealedLog(s.own)
  /\ s.consumed = Keys(Rival(p), Len(s.their))

\* The file is what the memory holds: the checkpoint closes a half-turn.
Filed(p) ==
  snapshot[p] # None =>
    /\ FiledSnapshot(p, snapshot[p])
    /\ pc[p] # "down" => snapshot[p].own = own[p]
    /\ Intact(p) => SameRecords(snapshot[p].their, their[p])
    /\ Live(p) => snapshot[p].their = their[p]

\* Without a file nothing was played yet, or the game was closed.
Unfiled(p) ==
  snapshot[p] = None =>
    /\ pc[p] # "offering"
    /\ pc[p] # "done" => own[p] = << >>
    /\ pc[p] # "done" /\ (Intact(p) \/ pc[p] = "down") => their[p] = << >>

\* The logs in memory are a game, the replica is that game replayed, and
\* the consumed keys are those of the rival's records.
Kept(p) ==
  /\ SealedLog(own[p])
  /\ Intact(p) => LogOK(p, own[p], their[p])
  /\ Sound(p) => engine[p] = Replay(Actions(own[p], their[p]))
  /\ Live(p) =>
       consumed[p] = Keys(Rival(p), Len(their[p])) \cup
                     (IF pc[p] = "await_reveal" THEN {<<"commit", Step(p)>>} ELSE {})

\* A draft is p's next record, and is there while it is being sent.
Drafted(p) ==
  draft[p] # None =>
    /\ pc[p] \in {"revealing", "applying", "failed", "done"} /\ ~Closed(p)
    /\ draft[p] = SealedRecord(draft[p].payload, incarnation[p])
    /\ draft[p].payload.role = p
    /\ draft[p].payload.step = Step(p)
    /\ draft[p].payload.step = Slot(p, Len(own[p]) + 1)

\* What each place in the loop promises of the replica and the lock.
Busy(p) ==
  /\ pc[p] \in {"revealing", "applying"} =>
       /\ draft[p] # None /\ ActionLegal(engine[p], p, draft[p].payload.action)
  /\ pc[p] = "await_reveal" =>
       /\ Ongoing(p) /\ engine[p].next_actor # p /\ locked[p] # None
       /\ locked[p].payload.step = Step(p)
  /\ pc[p] = "await_audit" \/ Closed(p) => ~Ongoing(p)
  /\ pc[p] \in {"down", "offering"} => pending[p] = {} /\ locked[p] = None
  /\ locked[p] # None => locked[p].payload.role = Rival(p)

\* Only a waiting peer that was asked sends its last record again.
Resending(p) ==
  resending[p] =>
    /\ pc[p] \in {"loop", "await_reveal", "await_audit"}
    /\ own[p] # << >> /\ controls[p] > 0
    /\ pc[p] = "loop" => Ongoing(p) /\ engine[p].next_actor # p

\* A report is there once the game has failed or ended.
Reported(p) ==
  /\ pc[p] = "failed" =>
       report[p] # None /\ report[p].error # "none" /\ "audit" \notin DOMAIN report[p]
  /\ pc[p] = "done" => report[p] # None /\ "audit" \in DOMAIN report[p]
  /\ pc[p] \notin {"failed", "done"} => report[p] = None

\* What one peer keeps is coherent.
Local(p) ==
  Filed(p) /\ Unfiled(p) /\ Kept(p) /\ Drafted(p) /\ Busy(p) /\ Resending(p) /\ Reported(p)

\* A step that leaves what Local says of a peer alone.
Untouched(q) ==
  /\ pc'[q] = pc[q] /\ engine'[q] = engine[q] /\ draft'[q] = draft[q]
  /\ locked'[q] = locked[q] /\ own'[q] = own[q] /\ their'[q] = their[q]
  /\ consumed'[q] = consumed[q] /\ snapshot'[q] = snapshot[q]
  /\ report'[q] = report[q] /\ incarnation'[q] = incarnation[q]
  /\ pending'[q] = pending[q] \/ pc[q] \notin {"down", "offering"}
  /\ resending'[q] => resending[q] /\ controls'[q] >= controls[q]

\* A peer a step does not touch stays coherent.
LEMMA LocalFrame ==
  ASSUME NEW q \in Role, Local(q), Types, Types', torn => torn', Untouched(q)
  PROVE  Local(q)'
<1>1. /\ Live(q)' = Live(q) /\ Closed(q)' = Closed(q) /\ Sound(q)' = Sound(q)
      /\ Intact(q)' => Intact(q)
      /\ Step(q)' = Step(q) /\ Ongoing(q)' = Ongoing(q)
  BY DEF Untouched, Live, Closed, Sound, Intact, Step, Ongoing, Types, TypesOfHistory
<1>2. Filed(q)'
  BY <1>1 DEF Untouched, Local, Filed
<1>3. Unfiled(q)'
  BY <1>1 DEF Untouched, Local, Unfiled
<1>4. Kept(q)'
  BY <1>1 DEF Untouched, Local, Kept
<1>5. Drafted(q)'
  BY <1>1 DEF Untouched, Local, Drafted
<1>6. Busy(q)'
  BY <1>1 DEF Untouched, Local, Busy
<1>7. Resending(q)'
  BY <1>1 DEF Untouched, Local, Resending, Types, TypesOfWire
<1>8. Reported(q)'
  BY <1>1 DEF Untouched, Local, Reported
<1> QED BY <1>2, <1>3, <1>4, <1>5, <1>6, <1>7, <1>8 DEF Local

-----------------------------------------------------------------------------
(* The domains are kept: a peer's own half-turn, and what it refuses *)

\* The end-state digest has its domain.
LEMMA DigestFacts ==
  ASSUME NEW e \in EngineType
  PROVE  EndStateDigest(e) \in Digest
BY DEF EngineType, EndStateDigest, Digest

\* The step counts both logs.
LEMMA StepFacts ==
  ASSUME Types, NEW p \in Role
  PROVE  /\ Step(p) \in Nat \ {0} /\ Step(p) = Len(own[p]) + Len(their[p]) + 1
         /\ Len(own[p]) \in Nat /\ Len(their[p]) \in Nat
         /\ own[p] \in Seq(SealedRec) /\ their[p] \in Seq(SeenRec)
<1>1. own[p] \in Seq(SealedRec) /\ their[p] \in Seq(SeenRec)
  BY DEF Types, TypesOfPeers
<1>2. Len(own[p]) \in Nat /\ Len(their[p]) \in Nat
  BY <1>1, LenProperties
<1>3. Step(p) = Len(own[p]) + Len(their[p]) + 1
  BY DEF Step
<1>4. \A m, n \in Nat : m + n + 1 \in Nat \ {0}
  OBVIOUS
<1> QED BY <1>1, <1>2, <1>3, <1>4

\* The record a decision makes.
LEMMA RecordFacts ==
  ASSUME Types, NEW p \in Role, NEW a \in Action
  PROVE  LET r == SealedRecord(StepPayload(Step(p), p, a), incarnation[p]) IN
         /\ r \in SealedRec /\ r # None
         /\ r.payload = StepPayload(Step(p), p, a)
         /\ r = SealedRecord(r.payload, incarnation[p])
         /\ r.commit = CommitHash(r.payload, r.nonce)
<1>1. Step(p) \in Nat /\ incarnation[p] \in Nat
  BY StepFacts DEF Types, TypesOfPeers
<1>2. StepPayload(Step(p), p, a) \in Payload
  BY <1>1 DEF StepPayload, Payload
<1>3. SealedRecord(StepPayload(Step(p), p, a), incarnation[p]) \in SealedRec
  BY <1>1, <1>2 DEF SealedRecord, SealedRec, CommitHash
<1> QED BY <1>3, NoneFacts DEF SealedRecord

\* A sealed record makes two messages.
LEMMA MessageTypes ==
  ASSUME NEW r \in SealedRec
  PROVE  CommitMessage(r) \in Msg /\ RevealMessage(r) \in Msg
BY DEF SealedRec, Msg, CommitMessage, RevealMessage, Payload, Commit

\* The last element of a sequence.
LEMMA LastFacts ==
  ASSUME NEW S, NEW s \in Seq(S), s # << >>
  PROVE  Last(s) \in S /\ Len(s) \in Nat \ {0} /\ Last(s) = s[Len(s)]
<1>1. Len(s) \in Nat \ {0}
  BY LenProperties, EmptySeq
<1>2. Last(s) = s[Len(s)] /\ s[Len(s)] \in S
  BY <1>1, ElementOfSeq DEF Last
<1> QED BY <1>1, <1>2

LEMMA SendCommitTypes ==
  ASSUME Types, NEW p \in Role, SendCommit(p)
  PROVE  Types'
<1>1. PICK a \in Choice :
        LET r == SealedRecord(StepPayload(Step(p), p, a), incarnation[p]) IN
        /\ draft' = [draft EXCEPT ![p] = r]
        /\ SendTurn(p, CommitMessage(r))
  BY DEF SendCommit
<1> DEFINE r == SealedRecord(StepPayload(Step(p), p, a), incarnation[p])
<1>2. r \in SealedRec
  BY LockstepAssumption, RecordFacts
<1> HIDE DEF r
<1>3. draft' = [draft EXCEPT ![p] = r] /\ SendTurn(p, CommitMessage(r))
  BY <1>1 DEF r
<1>4. turns' \in [Role -> Seq(Msg)] /\ late' \subseteq Msg /\ spares' \in Nat
  BY <1>2, <1>3, MessageTypes, SendTurnEffect
<1>5. pc' = [pc EXCEPT ![p] = "revealing"]
  BY DEF SendCommit
<1>6. TypesOfPeers'
  BY <1>2, <1>3, <1>5 DEF SendCommit, Types, TypesOfPeers, PC
<1>7. TypesOfWire' /\ TypesOfHistory'
  BY <1>4 DEF SendCommit, Types, TypesOfWire, TypesOfHistory
<1> QED BY <1>6, <1>7 DEF Types

LEMMA SendRevealTypes ==
  ASSUME Types, NEW p \in Role, SendReveal(p), Busy(p)
  PROVE  Types'
<1>1. draft[p] \in SealedRec
  BY DEF SendReveal, Busy, Types, TypesOfPeers
<1>2. turns' \in [Role -> Seq(Msg)] /\ late' \subseteq Msg /\ spares' \in Nat
  BY <1>1, MessageTypes, SendTurnEffect DEF SendReveal
<1>3. TypesOfPeers'
  BY DEF SendReveal, Types, TypesOfPeers, PC, memory
<1>4. TypesOfWire' /\ TypesOfHistory'
  BY <1>2 DEF SendReveal, Types, TypesOfWire, TypesOfHistory, memory
<1> QED BY <1>3, <1>4 DEF Types

\* build_snapshot has its domain.
LEMMA SnapshotTypes ==
  ASSUME NEW o \in Seq(SealedRec), NEW t \in Seq(SeenRec),
         NEW c \in SUBSET (Kinds \X Nat), NEW e \in EngineType
  PROVE  BuildSnapshot(o, t, c, e) \in Snap
BY DigestFacts DEF BuildSnapshot, Snap

\* A checkpoint files what the half-turn left, and may advance the game.
LEMMA CheckpointEffect ==
  ASSUME Types, NEW p \in Role, Checkpoint(p), own'[p] \in Seq(SealedRec),
         their'[p] \in Seq(SeenRec), consumed'[p] \in SUBSET (Kinds \X Nat),
         engine'[p] \in EngineType
  PROVE  /\ snapshot' \in [Role -> Snap \cup {None}]
         /\ snapshot'[Rival(p)] = snapshot[Rival(p)]
         /\ snapshot'[p] = BuildSnapshot(own'[p], their'[p], consumed'[p], engine'[p])
         /\ snapshot'[p] # None
         /\ game' = IF Step(p) > game.length
                    THEN [engine |-> engine'[p], length |-> Step(p)] ELSE game
         /\ game' \in [engine : EngineType, length : Nat]
<1>1. BuildSnapshot(own'[p], their'[p], consumed'[p], engine'[p]) \in Snap
  BY SnapshotTypes
<1>2. snapshot \in [Role -> Snap \cup {None}] /\ game \in [engine : EngineType, length : Nat]
  BY DEF Types, TypesOfPeers, TypesOfHistory
<1>3. Step(p) \in Nat
  BY StepFacts
<1>4. Rival(p) \in Role /\ Rival(p) # p
  BY RivalFacts
<1> QED BY <1>1, <1>2, <1>3, <1>4, NoneFacts DEF Checkpoint

LEMMA ApplyOwnTypes ==
  ASSUME Types, NEW p \in Role, ApplyOwn(p), Busy(p), Drafted(p)
  PROVE  Types'
<1>1. /\ draft[p] \in SealedRec /\ draft[p].payload.action \in Action
      /\ ActionLegal(engine[p], p, draft[p].payload.action)
  BY DEF ApplyOwn, Busy, Types, TypesOfPeers, SealedRec, Payload
<1>2. engine[p] \in EngineType /\ own[p] \in Seq(SealedRec)
  BY DEF Types, TypesOfPeers
<1>3. ApplyAction(engine[p], p, draft[p].payload.action) \in EngineType
  BY <1>1, <1>2, ApplyActionFacts
<1>4. Append(own[p], draft[p]) \in Seq(SealedRec)
  BY <1>1, <1>2, AppendProperties
<1>5. /\ own' = [own EXCEPT ![p] = Append(@, draft[p])]
      /\ engine' = [engine EXCEPT ![p] = ApplyAction(@, p, draft[p].payload.action)]
      /\ draft' = [draft EXCEPT ![p] = None]
      /\ pc' = [pc EXCEPT ![p] = "loop"]
      /\ UNCHANGED <<locked, their, consumed, resending, report, incarnation>>
      /\ Checkpoint(p)
  BY DEF ApplyOwn, budgets
<1>6. /\ engine' \in [Role -> EngineType] /\ own' \in [Role -> Seq(SealedRec)]
      /\ own'[p] \in Seq(SealedRec) /\ their'[p] \in Seq(SeenRec)
      /\ consumed'[p] \in SUBSET (Kinds \X Nat) /\ engine'[p] \in EngineType
  BY <1>3, <1>4, <1>5 DEF Types, TypesOfPeers
<1>7. snapshot' \in [Role -> Snap \cup {None}] /\ game' \in [engine : EngineType, length : Nat]
  BY <1>5, <1>6, CheckpointEffect
<1>8. TypesOfPeers'
  BY <1>5, <1>6, <1>7 DEF Types, TypesOfPeers, PC
<1>9. TypesOfWire' /\ TypesOfHistory'
  BY <1>7 DEF ApplyOwn, Types, TypesOfWire, TypesOfHistory, boxes, budgets
<1> QED BY <1>8, <1>9 DEF Types

\* A failed peer keeps the domains, and its report names why.
LEMMA FailTypes ==
  ASSUME TypesOfPeers, NEW p \in Role, NEW why \in Error, Abandon(p, why)
  PROVE  /\ pc' \in [Role -> PC] /\ engine' \in [Role -> EngineType]
         /\ report' \in [Role -> Report \cup {None}]
         /\ pc'[p] = "failed" /\ report'[p] = [error |-> why]
         /\ pc'[Rival(p)] = pc[Rival(p)] /\ engine'[Rival(p)] = engine[Rival(p)]
         /\ report'[Rival(p)] = report[Rival(p)]
<1>1. [engine[p] EXCEPT !.outcome = "technical_loss"] \in EngineType
  <2> DEFINE e == engine[p]
  <2>1. e \in EngineType
    BY DEF TypesOfPeers
  <2> HIDE DEF e
  <2>2. [e EXCEPT !.outcome = "technical_loss"] \in EngineType
    BY <2>1 DEF EngineType, Outcome
  <2> QED BY <2>2 DEF e
<1>2. [error |-> why] \in Report
  BY DEF Report
<1>3. engine' = [engine EXCEPT ![p] = [engine[p] EXCEPT !.outcome = "technical_loss"]]
  BY DEF Abandon
<1>4. Rival(p) \in Role /\ Rival(p) # p
  BY RivalFacts
<1> QED BY <1>1, <1>2, <1>3, <1>4 DEF Abandon, TypesOfPeers, PC

LEMMA ReceiveDuplicateTypes ==
  ASSUME Types, NEW p \in Role, ReceiveDuplicate(p)
  PROVE  Types'
<1>1. turns' \in [Role -> Seq(Msg)] /\ pending' \in [Role -> SUBSET Msg]
  BY TakeMessageEffect DEF ReceiveDuplicate
<1> QED BY <1>1 DEF ReceiveDuplicate, Types, TypesOfPeers, TypesOfWire, TypesOfHistory, budgets

LEMMA ReceiveConflictTypes ==
  ASSUME Types, NEW p \in Role, ReceiveConflict(p)
  PROVE  Types'
<1>1. turns' \in [Role -> Seq(Msg)] /\ pending' \in [Role -> SUBSET Msg]
  BY TakeMessageEffect DEF ReceiveConflict
<1>2. Abandon(p, "conflicting commit")
  BY DEF ReceiveConflict, Fail
<1>3. /\ pc' \in [Role -> PC] /\ engine' \in [Role -> EngineType]
      /\ report' \in [Role -> Report \cup {None}]
  BY <1>2, FailTypes DEF Types, Error
<1>4. TypesOfPeers'
  BY <1>3 DEF ReceiveConflict, Types, TypesOfPeers, budgets
<1>5. TypesOfWire' /\ TypesOfHistory'
  BY <1>1 DEF ReceiveConflict, Types, TypesOfWire, TypesOfHistory, budgets
<1> QED BY <1>4, <1>5 DEF Types

LEMMA ReceiveEarlyTypes ==
  ASSUME Types, NEW p \in Role, ReceiveEarly(p)
  PROVE  Types'
<1>0. HasMessage(p) /\ Key(Message(p)) \notin consumed[p] \cup {Expected(p)}
  BY DEF ReceiveEarly
<1>1. Message(p) \in Msg /\ turns[p] # << >>
  <2>1. Buffered(p) = {}
    BY <1>0, MessageFacts DEF Buffered
  <2> QED BY <1>0, <2>1, MessageFacts
<1>2. Tail(turns[p]) \in Seq(Msg)
  BY <1>1, RangeFacts DEF Types, TypesOfWire
<1>3. turns' \in [Role -> Seq(Msg)]
  BY <1>2 DEF ReceiveEarly, Types, TypesOfWire
<1>4. pending' \in [Role -> SUBSET Msg]
  <2>1. pending \in [Role -> SUBSET Msg]
    BY DEF Types, TypesOfWire
  <2>2. \/ pending' = pending
        \/ pending' = [pending EXCEPT ![p] =
                         {m \in @ : Key(m) # Key(Message(p))} \cup {Message(p)}]
    BY DEF ReceiveEarly
  <2> QED BY <1>1, <2>1, <2>2
<1>5. /\ pc' \in [Role -> PC] /\ engine' \in [Role -> EngineType]
      /\ report' \in [Role -> Report \cup {None}]
  <2>1. CASE Abandon(p, "flooded")
    BY <2>1, FailTypes DEF Types, Error
  <2>2. CASE UNCHANGED <<pc, fsm, engine, report>>
    BY <2>2 DEF Types, TypesOfPeers
  <2> QED BY <2>1, <2>2 DEF ReceiveEarly, Fail
<1>6. TypesOfPeers'
  BY <1>5 DEF ReceiveEarly, Types, TypesOfPeers, budgets
<1>7. TypesOfWire' /\ TypesOfHistory'
  BY <1>3, <1>4 DEF ReceiveEarly, Types, TypesOfWire, TypesOfHistory, budgets
<1> QED BY <1>6, <1>7 DEF Types

-----------------------------------------------------------------------------
(* The domains are kept: what it accepts, the end of a game, resume offers *)

LEMMA ReceiveCommitTypes ==
  ASSUME Types, NEW p \in Role, ReceiveCommit(p)
  PROVE  Types'
<1>1. turns' \in [Role -> Seq(Msg)] /\ pending' \in [Role -> SUBSET Msg]
  BY TakeMessageEffect DEF ReceiveCommit
<1>2. Message(p) \in Msg /\ Message(p).commit \in Commit
  <2>1. Message(p) \in Msg /\ Message(p).kind = "commit"
    BY MessageFacts DEF ReceiveCommit
  <2> QED BY <2>1 DEF Msg
<1>3. Expected(p) \in Kinds \X Nat
  BY StepFacts DEF Expected, Kinds
<1>4. consumed' \in [Role -> SUBSET (Kinds \X Nat)]
  BY <1>3 DEF ReceiveCommit, Types, TypesOfPeers
<1>5. /\ pc' \in [Role -> PC] /\ engine' \in [Role -> EngineType]
      /\ report' \in [Role -> Report \cup {None}]
      /\ locked' \in [Role -> Commit \cup {None}]
  <2>1. CASE Abandon(p, "echoed role") /\ locked' = locked
    BY <2>1, FailTypes DEF Types, TypesOfPeers, Error
  <2>2. CASE /\ locked' = [locked EXCEPT ![p] = Message(p).commit]
             /\ pc' = [pc EXCEPT ![p] = "await_reveal"]
             /\ UNCHANGED <<fsm, engine, report>>
    BY <1>2, <2>2 DEF Types, TypesOfPeers, PC
  <2> QED BY <2>1, <2>2 DEF ReceiveCommit, Fail
<1>6. TypesOfPeers'
  BY <1>4, <1>5 DEF ReceiveCommit, Types, TypesOfPeers, budgets
<1>7. TypesOfWire' /\ TypesOfHistory'
  BY <1>1 DEF ReceiveCommit, Types, TypesOfWire, TypesOfHistory, budgets
<1> QED BY <1>6, <1>7 DEF Types

\* What receiving a reveal does, whether or not its action is accepted.
LEMMA ReceiveRevealEffect ==
  ASSUME Types, NEW p \in Role, ReceiveReveal(p), Busy(p)
  PROVE  LET m == Message(p)
             r == [payload |-> m.payload, commit |-> locked[p]]
         IN
         /\ pc[p] = "await_reveal" /\ Ongoing(p) /\ engine[p].next_actor # p
         /\ m \in Msg /\ m.kind = "reveal" /\ m.turn = Step(p) /\ m.payload \in Payload
         /\ r \in SeenRec
         /\ own' = own /\ their' = [their EXCEPT ![p] = Append(@, r)]
         /\ their'[p] \in Seq(SeenRec)
         /\ consumed' = [consumed EXCEPT ![p] = @ \cup {<<"reveal", Step(p)>>}]
         /\ consumed'[p] \in SUBSET (Kinds \X Nat)
<1>1. pc[p] = "await_reveal"
  BY DEF ReceiveReveal, Expecting, Expected, Key
<1>2. locked[p] \in Commit /\ Ongoing(p) /\ engine[p].next_actor # p
  BY <1>1 DEF Busy, Types, TypesOfPeers
<1>3. /\ Message(p) \in Msg /\ Message(p).kind = "reveal"
      /\ Key(Message(p)) = <<"reveal", Step(p)>>
      /\ Expected(p) = <<"reveal", Step(p)>>
  BY <1>1, MessageFacts DEF ReceiveReveal, Expected
<1>4. Message(p).payload \in Payload /\ Message(p).turn = Step(p)
  BY <1>3 DEF Msg, Key
<1>5. [payload |-> Message(p).payload, commit |-> locked[p]] \in SeenRec
  BY <1>2, <1>4 DEF SeenRec
<1>6. /\ own' = own
      /\ their' = [their EXCEPT ![p] =
                     Append(@, [payload |-> Message(p).payload, commit |-> locked[p]])]
      /\ consumed' = [consumed EXCEPT ![p] = @ \cup {<<"reveal", Step(p)>>}]
  BY <1>3 DEF ReceiveReveal
<1>7. their'[p] \in Seq(SeenRec)
  BY <1>5, <1>6, AppendProperties DEF Types, TypesOfPeers
<1>8. consumed'[p] \in SUBSET (Kinds \X Nat)
  BY <1>6, StepFacts DEF Types, TypesOfPeers, Kinds
<1> QED BY <1>1, <1>2, <1>3, <1>4, <1>5, <1>6, <1>7, <1>8

LEMMA ReceiveRevealTypes ==
  ASSUME Types, NEW p \in Role, ReceiveReveal(p), Busy(p)
  PROVE  Types'
<1> DEFINE m == Message(p)
           a == m.payload
<1>1. /\ a \in Payload /\ own' = own
      /\ their'[p] \in Seq(SeenRec) /\ consumed'[p] \in SUBSET (Kinds \X Nat)
      /\ their' = [their EXCEPT ![p] = their'[p]]
      /\ consumed' = [consumed EXCEPT ![p] = consumed'[p]]
  <2>1. own' = own /\ a \in Payload
    BY ReceiveRevealEffect
  <2>2. their'[p] \in Seq(SeenRec) /\ consumed'[p] \in SUBSET (Kinds \X Nat)
    BY ReceiveRevealEffect
  <2>3. their' = [their EXCEPT ![p] = their'[p]]
    BY DEF ReceiveReveal, Types, TypesOfPeers
  <2>4. consumed' = [consumed EXCEPT ![p] = consumed'[p]]
    BY DEF ReceiveReveal, Types, TypesOfPeers
  <2> QED BY <2>1, <2>2, <2>3, <2>4
<1>2. turns' \in [Role -> Seq(Msg)] /\ pending' \in [Role -> SUBSET Msg]
  BY TakeMessageEffect DEF ReceiveReveal
<1>3. locked' \in [Role -> Commit \cup {None}]
  BY DEF ReceiveReveal, Types, TypesOfPeers
<1>4. /\ pc' \in [Role -> PC] /\ engine' \in [Role -> EngineType]
      /\ report' \in [Role -> Report \cup {None}]
      /\ snapshot' \in [Role -> Snap \cup {None}]
      /\ game' \in [engine : EngineType, length : Nat]
  <2>1. CASE a.role # p /\ ActionLegal(engine[p], a.role, a.action)
    <3>1. /\ engine' = [engine EXCEPT ![p] = ApplyAction(@, a.role, a.action)]
          /\ pc' = [pc EXCEPT ![p] = "loop"]
          /\ UNCHANGED <<fsm, own, report>>
          /\ Checkpoint(p)
      BY <2>1 DEF ReceiveReveal
    <3>2. ApplyAction(engine[p], a.role, a.action) \in EngineType
      BY <1>1, <2>1, ApplyActionFacts DEF Types, TypesOfPeers, Payload
    <3>3. engine' \in [Role -> EngineType] /\ engine'[p] \in EngineType
      BY <3>1, <3>2 DEF Types, TypesOfPeers
    <3>4. own'[p] \in Seq(SealedRec)
      BY <1>1 DEF Types, TypesOfPeers
    <3>5. snapshot' \in [Role -> Snap \cup {None}] /\ game' \in [engine : EngineType, length : Nat]
      BY <1>1, <3>1, <3>3, <3>4, CheckpointEffect
    <3> QED BY <3>1, <3>3, <3>5 DEF Types, TypesOfPeers, PC
  <2>2. CASE ~(a.role # p /\ ActionLegal(engine[p], a.role, a.action))
    <3>1. Abandon(p, "illegal action") /\ UNCHANGED <<own, snapshot, game>>
      BY <2>2 DEF ReceiveReveal, Fail
    <3> QED BY <3>1, FailTypes DEF Types, TypesOfPeers, TypesOfHistory, Error
  <2> QED BY <2>1, <2>2
<1>5. their' \in [Role -> Seq(SeenRec)] /\ consumed' \in [Role -> SUBSET (Kinds \X Nat)]
  BY <1>1 DEF Types, TypesOfPeers
<1> HIDE DEF m, a
<1>6. TypesOfPeers'
  BY <1>1, <1>3, <1>4, <1>5 DEF ReceiveReveal, Types, TypesOfPeers, budgets
<1>7. TypesOfWire' /\ TypesOfHistory'
  BY <1>2, <1>4 DEF ReceiveReveal, Types, TypesOfWire, TypesOfHistory, budgets
<1> QED BY <1>6, <1>7 DEF Types

\* A disclosure has its domain.
LEMMA DisclosureTypes ==
  ASSUME Types, NEW p \in Role
  PROVE  Disclosure(p) \in Disclosed
<1>1. own[p] \in Seq(SealedRec) /\ Len(own[p]) \in Nat
  BY StepFacts
<1>2. \A i \in 1 .. Len(own[p]) : own[p][i].nonce \in Nat
  <2>1. \A i \in 1 .. Len(own[p]) : own[p][i] \in SealedRec
    BY <1>1, ElementOfSeq
  <2> QED BY <2>1 DEF SealedRec
<1>3. [i \in 1 .. Len(own[p]) |-> own[p][i].nonce] \in Seq(Nat)
  BY <1>1, <1>2
<1>4. EndStateDigest(engine[p]) \in Digest
  BY DigestFacts DEF Types, TypesOfPeers
<1> QED BY <1>3, <1>4 DEF Disclosure, Disclosed

\* An audit goes to the rival's audit inbox, if its door is open.
LEMMA SendAuditEffect ==
  ASSUME Types, NEW p \in Role, SendAudit(p)
  PROVE  /\ audits' \in [Role -> Seq(Disclosed)]
         /\ audits'[p] = audits[p] /\ pc[Rival(p)] # "down"
         /\ audits'[Rival(p)] = IF pc[Rival(p)] = "done" THEN audits[Rival(p)]
                                ELSE Append(audits[Rival(p)], Disclosure(p))
<1>1. Disclosure(p) \in Disclosed
  BY DisclosureTypes
<1>2. audits \in [Role -> Seq(Disclosed)]
  BY DEF Types, TypesOfWire
<1>3. Rival(p) \in Role /\ Rival(p) # p
  BY RivalFacts
<1>4. Append(audits[Rival(p)], Disclosure(p)) \in Seq(Disclosed)
  BY <1>1, <1>2, <1>3, AppendProperties
<1>5. audits' = IF pc[Rival(p)] = "done" THEN audits
                ELSE [audits EXCEPT ![Rival(p)] = Append(@, Disclosure(p))]
  BY DEF SendAudit, Delivered
<1>6. pc[Rival(p)] # "down"
  BY DEF SendAudit, Up
<1> QED BY <1>2, <1>3, <1>4, <1>5, <1>6

LEMMA SendFinalAuditTypes ==
  ASSUME Types, NEW p \in Role, SendFinalAudit(p)
  PROVE  Types'
<1>1. audits' \in [Role -> Seq(Disclosed)]
  BY SendAuditEffect DEF SendFinalAudit
<1> QED BY <1>1 DEF SendFinalAudit, Types, TypesOfPeers, TypesOfWire, TypesOfHistory,
                    PC, memory, budgets

\* Settling classifies p's game and drops the file of a cleanly ended one.
LEMMA SettleEffect ==
  ASSUME TypesOfPeers, NEW p \in Role,
         NEW verdict \in {"Verified OK", "TAMPERED", "not received"},
         NEW match \in BOOLEAN, Settle(p, verdict, match)
  PROVE  /\ pc' \in [Role -> PC] /\ report' \in [Role -> Report \cup {None}]
         /\ snapshot' \in [Role -> Snap \cup {None}]
         /\ pc'[p] = "done" /\ pc'[Rival(p)] = pc[Rival(p)]
         /\ report'[p] # None /\ report'[p].error = "none" /\ "audit" \in DOMAIN report'[p]
         /\ report'[p].audit = verdict /\ report'[p].digest_match = match
         /\ verdict # "TAMPERED" => report'[p].outcome = engine[p].outcome
         /\ snapshot'[p] \in {None, snapshot[p]}
         /\ report'[Rival(p)] = report[Rival(p)] /\ snapshot'[Rival(p)] = snapshot[Rival(p)]
<1> DEFINE outcome == IF verdict = "TAMPERED" THEN "technical_loss" ELSE engine[p].outcome
           r == [error |-> "none", outcome |-> outcome, audit |-> verdict, digest_match |-> match]
<1>1. engine[p] \in EngineType
  BY DEF TypesOfPeers
<1>2. outcome \in Outcome
  BY <1>1 DEF EngineType, Outcome
<1>3. r \in Report /\ r.error = "none" /\ r.audit = verdict /\ r.digest_match = match
      /\ r.outcome = outcome /\ "audit" \in DOMAIN r
  BY <1>2 DEF Report, Error
<1>4. /\ report' = [report EXCEPT ![p] = r]
      /\ snapshot' = [snapshot EXCEPT ![p] =
                        IF outcome \in {"capture", "survival"} THEN None ELSE @]
      /\ pc' = [pc EXCEPT ![p] = "done"]
  BY DEF Settle
<1>5. Rival(p) \in Role /\ Rival(p) # p
  BY RivalFacts
<1> HIDE DEF r
<1>6. report' \in [Role -> Report \cup {None}] /\ report'[p] = r
      /\ report'[Rival(p)] = report[Rival(p)]
  BY <1>3, <1>4, <1>5 DEF TypesOfPeers
<1>7. pc' \in [Role -> PC] /\ snapshot' \in [Role -> Snap \cup {None}]
      /\ pc'[p] = "done" /\ pc'[Rival(p)] = pc[Rival(p)]
      /\ snapshot'[p] \in {None, snapshot[p]}
      /\ snapshot'[Rival(p)] = snapshot[Rival(p)]
  BY <1>4, <1>5 DEF TypesOfPeers, PC
<1> QED BY <1>3, <1>6, <1>7, NoneFacts

LEMMA WithNoncesTypes ==
  ASSUME NEW t \in Seq(SeenRec), NEW nonces \in Seq(Nat)
  PROVE  /\ WithNonces(t, nonces) \in Seq(SeenRec)
         /\ SameRecords(WithNonces(t, nonces), t)
         /\ Len(t) = Len(nonces) =>
              \A i \in 1 .. Len(t) : /\ "nonce" \in DOMAIN WithNonces(t, nonces)[i]
                                      /\ WithNonces(t, nonces)[i].nonce = nonces[i]
<1>1. CASE Len(t) # Len(nonces)
  BY <1>1 DEF WithNonces, SameRecords
<1>2. CASE Len(t) = Len(nonces)
  <2> DEFINE w == [i \in 1 .. Len(t) |->
                     [payload |-> t[i].payload, commit |-> t[i].commit, nonce |-> nonces[i]]]
  <2>1. WithNonces(t, nonces) = w
    BY <1>2 DEF WithNonces
  <2>2. Len(t) \in Nat
    BY LenProperties
  <2>3. ASSUME NEW i \in 1 .. Len(t)
        PROVE  [payload |-> t[i].payload, commit |-> t[i].commit, nonce |-> nonces[i]]
                 \in [payload : Payload, commit : Commit, nonce : Nat]
    <3>1. t[i] \in SeenRec /\ nonces[i] \in Nat
      BY <1>2, ElementOfSeq
    <3> QED BY <3>1 DEF SeenRec
  <2>4. w \in Seq(SeenRec) /\ Len(w) = Len(t)
    <3>1. \A i \in 1 .. Len(t) : [payload |-> t[i].payload, commit |-> t[i].commit,
                                   nonce |-> nonces[i]] \in SeenRec
      BY <2>3 DEF SeenRec
    <3> QED BY <2>2, <3>1
  <2>5. \A i \in 1 .. Len(t) :
          w[i] = [payload |-> t[i].payload, commit |-> t[i].commit, nonce |-> nonces[i]]
    OBVIOUS
  <2> HIDE DEF w
  <2>6. \A i \in 1 .. Len(t) :
          /\ w[i].payload = t[i].payload /\ w[i].commit = t[i].commit
          /\ "nonce" \in DOMAIN w[i] /\ w[i].nonce = nonces[i]
    <3> SUFFICES ASSUME NEW i \in 1 .. Len(t)
                 PROVE  /\ w[i].payload = t[i].payload /\ w[i].commit = t[i].commit
                        /\ "nonce" \in DOMAIN w[i] /\ w[i].nonce = nonces[i]
      OBVIOUS
    <3>1. w[i] = [payload |-> t[i].payload, commit |-> t[i].commit, nonce |-> nonces[i]]
      BY <2>5
    <3> QED BY <3>1
  <2>7. SameRecords(w, t)
    BY <2>4, <2>6 DEF SameRecords
  <2> QED BY <2>1, <2>4, <2>6, <2>7
<1> QED BY <1>1, <1>2

LEMMA ReceiveAuditTypes ==
  ASSUME Types, NEW p \in Role, ReceiveAudit(p)
  PROVE  Types'
<1> DEFINE d == Head(audits[p])
           verdict == AuditRecords(their[p], d.nonces)
           match == (d.digest = EndStateDigest(engine[p]))
<1>1. d \in Disclosed /\ Tail(audits[p]) \in Seq(Disclosed)
  BY RangeFacts DEF ReceiveAudit, Types, TypesOfWire
<1>2. d.nonces \in Seq(Nat)
  BY <1>1 DEF Disclosed
<1>3. WithNonces(their[p], d.nonces) \in Seq(SeenRec)
  BY <1>2, StepFacts, WithNoncesTypes
<1>4. /\ Settle(p, verdict, match)
      /\ their' = [their EXCEPT ![p] = WithNonces(@, d.nonces)]
      /\ audits' = [audits EXCEPT ![p] = Tail(@)]
  BY DEF ReceiveAudit
<1>5. verdict \in {"Verified OK", "TAMPERED", "not received"} /\ match \in BOOLEAN
  BY DEF AuditRecords
<1> HIDE DEF d, verdict, match
<1>6. /\ pc' \in [Role -> PC] /\ report' \in [Role -> Report \cup {None}]
      /\ snapshot' \in [Role -> Snap \cup {None}]
  BY <1>4, <1>5, SettleEffect DEF Types
<1>7. TypesOfPeers'
  <2>1. their' \in [Role -> Seq(SeenRec)]
    BY <1>3, <1>4 DEF Types, TypesOfPeers
  <2> QED BY <1>6, <2>1 DEF ReceiveAudit, Types, TypesOfPeers, budgets
<1>8. TypesOfWire' /\ TypesOfHistory'
  BY <1>1, <1>4 DEF ReceiveAudit, Types, TypesOfWire, TypesOfHistory, budgets
<1> QED BY <1>7, <1>8 DEF Types

\* The report of a failed peer is completed, its error kept.
LEMMA LossReportEffect ==
  ASSUME TypesOfPeers, NEW p \in Role, Reported(p), pc[p] = "failed", TechnicalLossReport(p)
  PROVE  /\ pc' \in [Role -> PC] /\ report' \in [Role -> Report \cup {None}]
         /\ pc'[p] = "done" /\ pc'[Rival(p)] = pc[Rival(p)]
         /\ report'[p] # None /\ report'[p].error = report[p].error
         /\ report'[p].error # "none"
         /\ "audit" \in DOMAIN report'[p] /\ report'[p].audit = "not received"
         /\ report'[Rival(p)] = report[Rival(p)]
<1> DEFINE r == [error |-> report[p].error, outcome |-> "technical_loss",
                 audit |-> "not received", digest_match |-> FALSE]
<1>1. report[p] \in Report /\ report[p].error # "none"
  BY DEF Reported, TypesOfPeers
<1>2. r \in Report /\ r.error = report[p].error /\ r.audit = "not received"
      /\ "audit" \in DOMAIN r
  BY <1>1 DEF Report, Outcome
<1>3. report' = [report EXCEPT ![p] = r] /\ pc' = [pc EXCEPT ![p] = "done"]
  BY DEF TechnicalLossReport
<1>4. Rival(p) \in Role /\ Rival(p) # p
  BY RivalFacts
<1> HIDE DEF r
<1>5. report' \in [Role -> Report \cup {None}] /\ report'[p] = r
      /\ report'[Rival(p)] = report[Rival(p)]
  BY <1>2, <1>3, <1>4 DEF TypesOfPeers
<1>6. pc' \in [Role -> PC] /\ pc'[p] = "done" /\ pc'[Rival(p)] = pc[Rival(p)]
  BY <1>3, <1>4 DEF TypesOfPeers, PC
<1> QED BY <1>1, <1>2, <1>5, <1>6, NoneFacts

LEMMA EmergencyAuditTypes ==
  ASSUME Types, NEW p \in Role, Reported(p), EmergencyAudit(p)
  PROVE  Types'
<1>1. audits' \in [Role -> Seq(Disclosed)]
  BY SendAuditEffect DEF EmergencyAudit
<1>2. pc' \in [Role -> PC] /\ report' \in [Role -> Report \cup {None}]
  BY LossReportEffect DEF EmergencyAudit, Types
<1>3. TypesOfPeers'
  BY <1>2 DEF EmergencyAudit, Types, TypesOfPeers, memory, budgets
<1>4. TypesOfWire' /\ TypesOfHistory'
  BY <1>1 DEF EmergencyAudit, Types, TypesOfWire, TypesOfHistory, memory, budgets
<1> QED BY <1>3, <1>4 DEF Types

LEMMA OfferResumeTypes ==
  ASSUME Types, NEW p \in Role, OfferResume(p)
  PROVE  Types'
<1>1. Rival(p) \in Role
  BY RivalFacts
<1>2. controls' \in [Role -> Nat]
  BY <1>1 DEF OfferResume, Types, TypesOfWire
<1> QED BY <1>2 DEF OfferResume, Types, TypesOfPeers, TypesOfWire, TypesOfHistory,
                    PC, memory, budgets

LEMMA IgnoreOfferTypes ==
  ASSUME Types, NEW p \in Role, IgnoreOffer(p)
  PROVE  Types'
BY DEF IgnoreOffer, Types, TypesOfPeers, TypesOfWire, TypesOfHistory, memory, budgets

LEMMA ResendCommitTypes ==
  ASSUME Types, NEW p \in Role, ResendCommit(p)
  PROVE  Types'
<1>1. CommitMessage(Last(own[p])) \in Msg
  BY StepFacts, LastFacts, MessageTypes DEF ResendCommit
<1>2. turns' \in [Role -> Seq(Msg)] /\ late' \subseteq Msg /\ spares' \in Nat
  BY <1>1, SendTurnEffect DEF ResendCommit
<1>3. TypesOfPeers'
  BY DEF ResendCommit, Types, TypesOfPeers
<1>4. TypesOfWire' /\ TypesOfHistory'
  BY <1>2 DEF ResendCommit, Types, TypesOfWire, TypesOfHistory
<1> QED BY <1>3, <1>4 DEF Types

LEMMA ResendRevealTypes ==
  ASSUME Types, NEW p \in Role, Resending(p), ResendReveal(p)
  PROVE  Types'
<1>1. RevealMessage(Last(own[p])) \in Msg
  BY StepFacts, LastFacts, MessageTypes DEF ResendReveal, Resending
<1>2. turns' \in [Role -> Seq(Msg)] /\ late' \subseteq Msg /\ spares' \in Nat
  BY <1>1, SendTurnEffect DEF ResendReveal
<1>3. controls' \in [Role -> Nat]
  BY DEF ResendReveal, Resending, Types, TypesOfWire
<1>4. TypesOfPeers'
  BY DEF ResendReveal, Types, TypesOfPeers
<1>5. TypesOfWire' /\ TypesOfHistory'
  BY <1>2, <1>3 DEF ResendReveal, Types, TypesOfWire, TypesOfHistory
<1> QED BY <1>4, <1>5 DEF Types

-----------------------------------------------------------------------------
(* The domains are kept: deadlines, crashes, restarts, late copies *)

\* The ways a deadline ends.
ExpireFails(p) == Abandon(p, "deadline") /\ UNCHANGED snapshot /\ Live(p)
                  /\ pc[p] # "applying" /\ pc[p] # "offering" /\ pc[p] # "await_audit"
ExpireWaits(p) == pc[p] = "loop" /\ ~Ongoing(p) /\ pc' = [pc EXCEPT ![p] = "await_audit"]
                  /\ UNCHANGED <<engine, snapshot, report>>
ExpireSettles(p) == pc[p] = "await_audit" /\ Settle(p, "not received", FALSE)
                    /\ UNCHANGED engine
ExpireReports(p) == pc[p] = "failed" /\ TechnicalLossReport(p) /\ UNCHANGED <<engine, snapshot>>
ExpireStops(p) == pc[p] = "offering" /\ pc' = [pc EXCEPT ![p] = "down"]
                  /\ UNCHANGED <<engine, snapshot, report>>

\* A lapsed deadline does one of five things.
LEMMA ExpireCases ==
  ASSUME NEW p \in Role, Expire(p)
  PROVE  ExpireFails(p) \/ ExpireWaits(p) \/ ExpireSettles(p) \/ ExpireReports(p) \/ ExpireStops(p)
BY DEF Expire, Fail, MyTurn, Expecting, Live, ExpireFails, ExpireWaits, ExpireSettles,
       ExpireReports, ExpireStops

\* Whichever it does, the domains are kept.
LEMMA ExpireTypes ==
  ASSUME TypesOfPeers, NEW p \in Role, Reported(p), Expire(p)
  PROVE  /\ pc' \in [Role -> PC] /\ engine' \in [Role -> EngineType]
         /\ report' \in [Role -> Report \cup {None}]
         /\ snapshot' \in [Role -> Snap \cup {None}]
<1>1. CASE ExpireFails(p)
  BY <1>1, FailTypes DEF ExpireFails, TypesOfPeers, Error
<1>2. CASE ExpireWaits(p)
  BY <1>2 DEF ExpireWaits, TypesOfPeers, PC
<1>3. CASE ExpireSettles(p)
  <2>1. Settle(p, "not received", FALSE) /\ UNCHANGED engine
    BY <1>3 DEF ExpireSettles
  <2>2. FALSE \in BOOLEAN /\ "not received" \in {"Verified OK", "TAMPERED", "not received"}
    OBVIOUS
  <2> QED BY <2>1, <2>2, SettleEffect DEF TypesOfPeers
<1>4. CASE ExpireReports(p)
  BY <1>4, LossReportEffect DEF ExpireReports, TypesOfPeers
<1>5. CASE ExpireStops(p)
  BY <1>5 DEF ExpireStops, TypesOfPeers, PC
<1> QED BY <1>1, <1>2, <1>3, <1>4, <1>5, ExpireCases

\* What a timed-out send may still deliver are messages.
LEMMA UnacknowledgedTypes ==
  ASSUME Types, NEW p \in Role, Busy(p)
  PROVE  Unacknowledged(p) \subseteq Msg
<1>1. CASE pc[p] = "revealing"
  <2>1. draft[p] \in SealedRec
    BY <1>1 DEF Busy, Types, TypesOfPeers
  <2> QED BY <1>1, <2>1, MessageTypes DEF Unacknowledged
<1>2. CASE pc[p] # "revealing"
  <2> SUFFICES ASSUME NEW a \in Choice
               PROVE  CommitMessage(SealedRecord(StepPayload(Step(p), p, a), incarnation[p])) \in Msg
    BY <1>2 DEF Unacknowledged
  <2>1. SealedRecord(StepPayload(Step(p), p, a), incarnation[p]) \in SealedRec
    BY LockstepAssumption, RecordFacts
  <2> QED BY <2>1, MessageTypes
<1> QED BY <1>1, <1>2

LEMMA LapseOverdueTypes ==
  ASSUME Types, NEW p \in Role, Reported(p), LapseOverdue(p)
  PROVE  Types'
<1>1. /\ pc' \in [Role -> PC] /\ engine' \in [Role -> EngineType]
      /\ report' \in [Role -> Report \cup {None}]
      /\ snapshot' \in [Role -> Snap \cup {None}]
  BY ExpireTypes DEF LapseOverdue, Types
<1>2. TypesOfPeers'
  BY <1>1 DEF LapseOverdue, Types, TypesOfPeers
<1>3. TypesOfWire' /\ TypesOfHistory'
  BY DEF LapseOverdue, Types, TypesOfWire, TypesOfHistory, boxes
<1> QED BY <1>2, <1>3 DEF Types

LEMMA LapseSlowTypes ==
  ASSUME Types, NEW p \in Role, Reported(p), Busy(p), LapseSlow(p)
  PROVE  Types'
<1>1. /\ pc' \in [Role -> PC] /\ engine' \in [Role -> EngineType]
      /\ report' \in [Role -> Report \cup {None}]
      /\ snapshot' \in [Role -> Snap \cup {None}]
  BY ExpireTypes DEF LapseSlow, Types
<1>2. TypesOfPeers'
  BY <1>1 DEF LapseSlow, Types, TypesOfPeers
<1>3. late' \subseteq Msg
  BY UnacknowledgedTypes DEF LapseSlow, Types, TypesOfWire
<1>4. TypesOfWire' /\ TypesOfHistory'
  BY <1>3 DEF LapseSlow, Types, TypesOfWire, TypesOfHistory, boxes
<1> QED BY <1>2, <1>4 DEF Types

LEMMA CrashTypes ==
  ASSUME Types, NEW p \in Role, Crash(p)
  PROVE  Types'
<1>1. << >> \in Seq(SealedRec) /\ << >> \in Seq(SeenRec) /\ << >> \in Seq(Msg)
      /\ << >> \in Seq(Disclosed)
  BY EmptySeq
<1>2. TypesOfPeers'
  BY <1>1, NewEngineFacts DEF Crash, Types, TypesOfPeers, PC
<1>3. TypesOfWire' /\ TypesOfHistory'
  BY <1>1 DEF Crash, Types, TypesOfWire, TypesOfHistory
<1> QED BY <1>2, <1>3 DEF Types

\* The merged logs of a game replay to an engine state.
LEMMA LogFacts ==
  ASSUME NEW p \in Role, NEW o \in Seq(SealedRec), NEW t \in Seq(SeenRec), LogOK(p, o, t)
  PROVE  /\ Actions(o, t) \in Seq(Payload) /\ Len(Actions(o, t)) = Len(o) + Len(t)
         /\ Replay(Actions(o, t)) \in EngineType
BY ActionsFacts, LegalFacts DEF LogOK

LEMMA RestartTypes ==
  ASSUME Types, NEW p \in Role, Filed(p), Restart(p)
  PROVE  Types'
<1> DEFINE s == snapshot[p]
<1>1. s \in Snap /\ LogOK(p, s.own, s.their)
  BY DEF Restart, Filed, FiledSnapshot, Types, TypesOfPeers
<1>2. s.own \in Seq(SealedRec) /\ s.their \in Seq(SeenRec)
      /\ s.consumed \in SUBSET (Kinds \X Nat)
  BY <1>1 DEF Snap
<1>3. Replay(Actions(s.own, s.their)) \in EngineType
  BY <1>1, <1>2, LogFacts
<1>4. /\ own' = [own EXCEPT ![p] = s.own] /\ their' = [their EXCEPT ![p] = s.their]
      /\ consumed' = [consumed EXCEPT ![p] = s.consumed]
      /\ engine' = [engine EXCEPT ![p] = Replay(Actions(s.own, s.their))]
      /\ pc' = [pc EXCEPT ![p] = "offering"]
  BY DEF Restart
<1> HIDE DEF s
<1>5. TypesOfPeers'
  BY <1>2, <1>3, <1>4 DEF Restart, Types, TypesOfPeers, PC, budgets
<1>6. TypesOfWire' /\ TypesOfHistory'
  BY DEF Restart, Types, TypesOfWire, TypesOfHistory, boxes, budgets
<1> QED BY <1>5, <1>6 DEF Types

\* A late copy reaches its addressee's inbox at most.
LEMMA DeliverLateEffect ==
  ASSUME Types, NEW m \in late, DeliverLate(m)
  PROVE  LET to == Rival(m.actor) IN
         /\ m \in Msg /\ m.actor \in Role /\ to \in Role /\ Rival(to) = m.actor
         /\ turns' \in [Role -> Seq(Msg)] /\ late' \subseteq late
         /\ turns'[Rival(to)] = turns[Rival(to)]
         /\ turns'[to] \in {turns[to], Append(turns[to], m)}
         /\ Range(turns'[to]) \subseteq Range(turns[to]) \cup {m}
         /\ pc[to] # "down"
<1> DEFINE to == Rival(m.actor)
<1>1. turns \in [Role -> Seq(Msg)] /\ m \in Msg /\ m.actor \in Role
  BY DEF Types, TypesOfWire, Msg
<1>2. to \in Role /\ Rival(to) = m.actor /\ Rival(to) # to
  BY <1>1, RivalFacts
<1>3. /\ turns' = IF pc[to] = "done" THEN turns ELSE [turns EXCEPT ![to] = Append(@, m)]
      /\ late' \subseteq late /\ pc[to] # "down"
  BY DEF DeliverLate, Delivered, Up
<1> HIDE DEF to
<1>4. /\ Append(turns[to], m) \in Seq(Msg)
      /\ Range(Append(turns[to], m)) = Range(turns[to]) \cup {m}
  BY <1>1, <1>2, AppendProperties, RangeFacts
<1>5. /\ turns' \in [Role -> Seq(Msg)]
      /\ turns'[Rival(to)] = turns[Rival(to)]
      /\ turns'[to] \in {turns[to], Append(turns[to], m)}
      /\ Range(turns'[to]) \subseteq Range(turns[to]) \cup {m}
  BY <1>1, <1>2, <1>3, <1>4
<1> QED BY <1>1, <1>2, <1>3, <1>5 DEF to

LEMMA DeliverLateTypes ==
  ASSUME Types, NEW m \in late, DeliverLate(m)
  PROVE  Types'
<1>1. turns' \in [Role -> Seq(Msg)] /\ late' \subseteq late
  BY DeliverLateEffect
<1>2. TypesOfWire'
  BY <1>1 DEF DeliverLate, Types, TypesOfWire, memory
<1>3. TypesOfPeers' /\ TypesOfHistory'
  BY DEF DeliverLate, Types, TypesOfPeers, TypesOfHistory, memory, budgets
<1> QED BY <1>2, <1>3 DEF Types

\* Every step keeps the domains.
LEMMA TypesStep ==
  ASSUME Types, \A p \in Role : Local(p), [Next]_vars
  PROVE  Types'
<1>1. ASSUME UNCHANGED vars PROVE Types'
  BY <1>1 DEF vars, memory, boxes, budgets, Types, TypesOfPeers, TypesOfWire, TypesOfHistory
<1>2. ASSUME NEW p \in Role, Program(p) PROVE Types'
  BY <1>2, SendCommitTypes, SendRevealTypes, ApplyOwnTypes, ReceiveDuplicateTypes,
     ReceiveConflictTypes, ReceiveEarlyTypes, ReceiveCommitTypes, ReceiveRevealTypes,
     SendFinalAuditTypes, ReceiveAuditTypes, EmergencyAuditTypes, OfferResumeTypes,
     IgnoreOfferTypes, ResendCommitTypes, ResendRevealTypes, LapseOverdueTypes
     DEF Program, Local
<1>3. ASSUME NEW p \in Role, LapseSlow(p) \/ Crash(p) \/ Restart(p) PROVE Types'
  BY <1>3, LapseSlowTypes, CrashTypes, RestartTypes DEF Local
<1>4. ASSUME NEW m \in late, DeliverLate(m) PROVE Types'
  BY <1>4, DeliverLateTypes
<1> QED BY <1>1, <1>2, <1>3, <1>4 DEF Next

-----------------------------------------------------------------------------
(* Logs grow by the player whose turn it is *)

\* Whoever moves next, the log it grows stays balanced and the step is its.
LEMMA MoverFacts ==
  ASSUME NEW p \in Role, NEW o \in Seq(SealedRec), NEW t \in Seq(SeenRec), LogOK(p, o, t)
  PROVE  LET e == Replay(Actions(o, t)) IN
         /\ Len(o) \in Nat /\ Len(t) \in Nat
         /\ e.next_actor = p => /\ Balanced(p, Len(o) + 1, Len(t))
                                /\ Slot(p, Len(o) + 1) = Len(o) + Len(t) + 1
         /\ e.next_actor # p => /\ Balanced(p, Len(o), Len(t) + 1)
                                /\ Slot(Rival(p), Len(t) + 1) = Len(o) + Len(t) + 1
                                /\ e.next_actor = Rival(p)
<1> DEFINE A == Actions(o, t)
           m == Len(o)
           n == Len(t)
           e == Replay(A)
<1>1. m \in Nat /\ n \in Nat
  BY LenProperties
<1>2. Aligned(p, o, t) /\ Legal(A) /\ A \in Seq(Payload) /\ Len(A) = m + n
      /\ (\A i \in 1 .. m : A[Slot(p, i)] = o[i].payload /\ o[i].payload.role = p)
      /\ (\A i \in 1 .. n : A[Slot(Rival(p), i)] = t[i].payload
                            /\ t[i].payload.role = Rival(p))
  BY ActionsFacts DEF LogOK, Aligned
<1>3. Balanced(p, m, n)
  BY <1>2 DEF Aligned
<1>4. e \in EngineType /\ (A = << >> => e.next_actor = "police")
      /\ (A # << >> => e.next_actor = Rival(A[m + n].role))
  BY <1>2, LegalFacts
<1>5. m + n = 0 <=> A = << >>
  BY <1>1, <1>2, EmptySeq
<1> HIDE DEF A, m, n, e
<1>6. ASSUME m # 0, m + n = Slot(p, m) PROVE e.next_actor = Rival(p)
  <2>1. m \in 1 .. m /\ A # << >>
    BY <1>1, <1>5, <1>6
  <2>2. A[m + n].role = p
    BY <1>2, <1>6, <2>1
  <2> QED BY <1>4, <2>1, <2>2
<1>7. ASSUME n # 0, m + n = Slot(Rival(p), n) PROVE e.next_actor = p
  <2>1. n \in 1 .. n /\ A # << >>
    BY <1>1, <1>5, <1>7
  <2>2. A[m + n].role = Rival(p)
    BY <1>2, <1>7, <2>1
  <2> QED BY <1>4, <2>1, <2>2, RivalFacts
<1>8. m + n = 0 => e.next_actor = "police"
  BY <1>4, <1>5
<1>9. /\ e.next_actor = p => /\ Balanced(p, m + 1, n)
                             /\ Slot(p, m + 1) = m + n + 1
      /\ e.next_actor # p => /\ Balanced(p, m, n + 1)
                             /\ Slot(Rival(p), n + 1) = m + n + 1
                             /\ e.next_actor = Rival(p)
  <2>1. CASE p = "police"
    BY <1>1, <1>3, <1>6, <1>7, <1>8, <2>1 DEF Slot, Balanced, Rival
  <2>2. CASE p = "thief"
    BY <1>1, <1>3, <1>6, <1>7, <1>8, <2>2 DEF Slot, Balanced, Rival
  <2> QED BY <2>1, <2>2 DEF Role
<1> QED BY <1>1, <1>9 DEF m, n, e, A

\* Only one list has each record at its step.
LEMMA ActionsUnique ==
  ASSUME NEW p \in Role, NEW o \in Seq(SealedRec), NEW t \in Seq(SeenRec), Aligned(p, o, t),
         NEW A \in Seq(Payload), Len(A) = Len(o) + Len(t),
         \A i \in 1 .. Len(o) : A[Slot(p, i)] = o[i].payload,
         \A i \in 1 .. Len(t) : A[Slot(Rival(p), i)] = t[i].payload
  PROVE  A = Actions(o, t)
<1> DEFINE B == Actions(o, t)
           m == Len(o)
           n == Len(t)
<1>1. m \in Nat /\ n \in Nat /\ Balanced(p, m, n)
  BY LenProperties DEF Aligned
<1>2. /\ B \in Seq(Payload) /\ Len(B) = m + n
      /\ \A i \in 1 .. m : B[Slot(p, i)] = o[i].payload
      /\ \A i \in 1 .. n : B[Slot(Rival(p), i)] = t[i].payload
  BY ActionsFacts
<1>3. /\ Len(A) = m + n
      /\ \A i \in 1 .. m : A[Slot(p, i)] = o[i].payload
      /\ \A i \in 1 .. n : A[Slot(Rival(p), i)] = t[i].payload
  OBVIOUS
<1> HIDE DEF B, m, n
<1>4. ASSUME NEW s \in 1 .. m + n
      PROVE  A[s] = B[s]
  <2>1. PICK i \in Nat \ {0} : s = Slot(p, i) \/ s = Slot(Rival(p), i)
    BY <1>1, SlotOwner
  <2>2. CASE s = Slot(p, i)
    <3>1. i \in 1 .. m
      BY <1>1, <2>2, SlotRange
    <3> QED BY <1>2, <1>3, <2>2, <3>1
  <2>3. CASE s = Slot(Rival(p), i)
    <3>1. i \in 1 .. n
      BY <1>1, <2>3, SlotRange
    <3> QED BY <1>2, <1>3, <2>3, <3>1
  <2> QED BY <2>1, <2>2, <2>3
<1>5. A = B
  BY <1>2, <1>3, <1>4, SeqEqual
<1> QED BY <1>5 DEF B

\* Nonces added by an audit do not change the merged log.
LEMMA SameLogs ==
  ASSUME NEW p \in Role, NEW o \in Seq(SealedRec), NEW t \in Seq(SeenRec),
         NEW u \in Seq(SeenRec), LogOK(p, o, t), SameRecords(u, t)
  PROVE  Actions(o, u) = Actions(o, t) /\ LogOK(p, o, u)
<1>1. Aligned(p, o, u)
  BY DEF SameRecords, LogOK, Aligned
<1>2. /\ Actions(o, t) \in Seq(Payload) /\ Len(Actions(o, t)) = Len(o) + Len(t)
      /\ \A i \in 1 .. Len(o) : Actions(o, t)[Slot(p, i)] = o[i].payload
      /\ \A i \in 1 .. Len(t) : Actions(o, t)[Slot(Rival(p), i)] = t[i].payload
  BY ActionsFacts DEF LogOK
<1>3. Len(u) = Len(t) /\ \A i \in 1 .. Len(u) : Actions(o, t)[Slot(Rival(p), i)] = u[i].payload
  BY <1>2 DEF SameRecords
<1>4. Len(Actions(o, t)) = Len(o) + Len(u)
  BY <1>2, <1>3
<1>5. Actions(o, t) = Actions(o, u)
  BY <1>1, <1>2, <1>3, <1>4, ActionsUnique
<1> QED BY <1>1, <1>5 DEF LogOK, SameRecords

\* A legal own half-turn extends the game by one action.
LEMMA GrowOwn ==
  ASSUME NEW p \in Role, NEW o \in Seq(SealedRec), NEW t \in Seq(SeenRec), LogOK(p, o, t),
         NEW r \in SealedRec, r.payload.role = p, r.payload.step = Len(o) + Len(t) + 1,
         ActionLegal(Replay(Actions(o, t)), p, r.payload.action)
  PROVE  /\ LogOK(p, Append(o, r), t)
         /\ Actions(Append(o, r), t) = Append(Actions(o, t), r.payload)
         /\ Replay(Actions(Append(o, r), t))
              = ApplyAction(Replay(Actions(o, t)), p, r.payload.action)
<1> DEFINE A == Actions(o, t)
           a == r.payload
           B == Append(A, a)
           m == Len(o)
           n == Len(t)
           w == Append(o, r)
<1>1. m \in Nat /\ n \in Nat /\ a \in Payload /\ a.role = p /\ a.step = m + n + 1
  BY LenProperties DEF SealedRec
<1>2. /\ Aligned(p, o, t) /\ Legal(A) /\ A \in Seq(Payload) /\ Len(A) = m + n
      /\ \A i \in 1 .. m : A[Slot(p, i)] = o[i].payload
      /\ \A i \in 1 .. n : A[Slot(Rival(p), i)] = t[i].payload
  BY ActionsFacts DEF LogOK
<1>3. Balanced(p, m + 1, n) /\ Slot(p, m + 1) = m + n + 1 /\ Balanced(p, m, n)
  BY <1>2, MoverFacts DEF ActionLegal, RequireTurn, Aligned
<1>4. /\ w \in Seq(SealedRec) /\ Len(w) = m + 1 /\ w[m + 1] = r
      /\ \A i \in 1 .. m : w[i] = o[i]
  BY AppendProperties
<1>5. /\ B \in Seq(Payload) /\ Len(B) = m + n + 1 /\ B[m + n + 1] = a
      /\ \A s \in 1 .. m + n : B[s] = A[s]
  BY <1>1, <1>2, AppendProperties
<1>6. Len(t) = n /\ Len(o) = m
  OBVIOUS
<1>7. ActionLegal(Replay(A), a.role, a.action) /\ a = r.payload
  BY <1>1
<1> HIDE DEF A, B, a, m, n, w
<1>8. Aligned(p, w, t)
  <2>1. \A i \in 1 .. m + 1 : w[i].payload.step = Slot(p, i) /\ w[i].payload.role = p
    <3> SUFFICES ASSUME NEW i \in 1 .. m + 1
                 PROVE  w[i].payload.step = Slot(p, i) /\ w[i].payload.role = p
      OBVIOUS
    <3>1. CASE i = m + 1
      BY <1>1, <1>3, <1>4, <1>7, <3>1
    <3>2. CASE i # m + 1
      <4>1. i \in 1 .. m
        BY <1>1, <3>2
      <4> QED BY <1>2, <1>4, <1>6, <4>1 DEF Aligned
    <3> QED BY <3>1, <3>2
  <2> QED BY <1>2, <1>3, <1>4, <1>6, <2>1 DEF Aligned
<1>9. \A i \in 1 .. Len(w) : B[Slot(p, i)] = w[i].payload
  <2> SUFFICES ASSUME NEW i \in 1 .. m + 1 PROVE B[Slot(p, i)] = w[i].payload
    BY <1>4
  <2>1. CASE i = m + 1
    BY <1>3, <1>4, <1>5, <1>7, <2>1
  <2>2. CASE i # m + 1
    <3>1. i \in 1 .. m /\ i \in Nat \ {0} /\ i <= m
      BY <1>1, <2>2
    <3>2. Slot(p, i) \in 1 .. m + n
      <4>1. Slot(p, i) \in Nat \ {0}
        BY <3>1, SlotFacts
      <4> QED BY <1>1, <1>3, <3>1, <4>1, SlotRange
    <3> QED BY <1>2, <1>4, <1>5, <3>1, <3>2
  <2> QED BY <2>1, <2>2
<1>10. \A i \in 1 .. Len(t) : B[Slot(Rival(p), i)] = t[i].payload
  <2> SUFFICES ASSUME NEW i \in 1 .. n PROVE B[Slot(Rival(p), i)] = t[i].payload
    BY <1>6
  <2>1. i \in Nat \ {0} /\ i <= n /\ Rival(p) \in Role
    BY <1>1, RivalFacts
  <2>2. Slot(Rival(p), i) \in 1 .. m + n
    <3>1. Slot(Rival(p), i) \in Nat \ {0}
      BY <2>1, SlotFacts
    <3> QED BY <1>1, <1>3, <2>1, <3>1, SlotRange
  <2> QED BY <1>2, <1>5, <2>2
<1>11. B = Actions(w, t)
  <2>1. Len(B) = Len(w) + Len(t)
    BY <1>1, <1>4, <1>5, <1>6
  <2> QED BY <1>4, <1>5, <1>8, <1>9, <1>10, <2>1, ActionsUnique
<1>12. Legal(B)
  BY <1>1, <1>2, <1>7, LegalAppend DEF B
<1>13. Replay(B) = ApplyAction(Replay(A), a.role, a.action)
  BY <1>1, <1>2, ReplayAppend DEF B
<1>14. LogOK(p, w, t)
  BY <1>8, <1>11, <1>12 DEF LogOK
<1> QED BY <1>1, <1>11, <1>13, <1>14 DEF B, A, a, w

\* So does a legal half-turn of the rival.
LEMMA GrowTheir ==
  ASSUME NEW p \in Role, NEW o \in Seq(SealedRec), NEW t \in Seq(SeenRec), LogOK(p, o, t),
         NEW r \in SeenRec, r.payload.role = Rival(p), r.payload.step = Len(o) + Len(t) + 1,
         r.commit.payload.step = Len(o) + Len(t) + 1,
         ActionLegal(Replay(Actions(o, t)), Rival(p), r.payload.action)
  PROVE  /\ LogOK(p, o, Append(t, r))
         /\ Actions(o, Append(t, r)) = Append(Actions(o, t), r.payload)
         /\ Replay(Actions(o, Append(t, r)))
              = ApplyAction(Replay(Actions(o, t)), Rival(p), r.payload.action)
<1> DEFINE A == Actions(o, t)
           a == r.payload
           B == Append(A, a)
           m == Len(o)
           n == Len(t)
           w == Append(t, r)
           q == Rival(p)
<1>1. m \in Nat /\ n \in Nat /\ a \in Payload /\ a.role = q /\ a.step = m + n + 1
      /\ r.commit.payload.step = m + n + 1
  BY LenProperties DEF SeenRec
<1>2. /\ Aligned(p, o, t) /\ Legal(A) /\ A \in Seq(Payload) /\ Len(A) = m + n
      /\ \A i \in 1 .. m : A[Slot(p, i)] = o[i].payload
      /\ \A i \in 1 .. n : A[Slot(q, i)] = t[i].payload
      /\ \A i \in 1 .. n : t[i].commit.payload.step = Slot(q, i)
  BY ActionsFacts DEF LogOK
<1>3. Balanced(p, m, n + 1) /\ Slot(q, n + 1) = m + n + 1 /\ Balanced(p, m, n)
  BY <1>2, MoverFacts, RivalFacts DEF ActionLegal, RequireTurn, Aligned
<1>4. /\ w \in Seq(SeenRec) /\ Len(w) = n + 1 /\ w[n + 1] = r
      /\ \A i \in 1 .. n : w[i] = t[i]
  BY AppendProperties
<1>5. /\ B \in Seq(Payload) /\ Len(B) = m + n + 1 /\ B[m + n + 1] = a
      /\ \A s \in 1 .. m + n : B[s] = A[s]
  BY <1>1, <1>2, AppendProperties
<1>6. Len(t) = n /\ Len(o) = m /\ q = Rival(p) /\ q \in Role
  BY RivalFacts
<1>7. ActionLegal(Replay(A), a.role, a.action) /\ a = r.payload
  BY <1>1
<1> HIDE DEF A, B, a, m, n, w, q
<1>8. \A i \in 1 .. n + 1 : /\ w[i].payload.step = Slot(q, i) /\ w[i].payload.role = q
                            /\ w[i].commit.payload.step = Slot(q, i)
  <2> SUFFICES ASSUME NEW i \in 1 .. n + 1
               PROVE  /\ w[i].payload.step = Slot(q, i) /\ w[i].payload.role = q
                      /\ w[i].commit.payload.step = Slot(q, i)
    OBVIOUS
  <2>1. CASE i = n + 1
    BY <1>1, <1>3, <1>4, <1>7, <2>1
  <2>2. CASE i # n + 1
    <3>1. i \in 1 .. n
      BY <1>1, <2>2
    <3> QED BY <1>2, <1>4, <1>6, <3>1 DEF Aligned
  <2> QED BY <2>1, <2>2
<1>9. Aligned(p, o, w)
  BY <1>2, <1>3, <1>4, <1>6, <1>8 DEF Aligned
<1>10. \A i \in 1 .. Len(w) : B[Slot(Rival(p), i)] = w[i].payload
  <2> SUFFICES ASSUME NEW i \in 1 .. n + 1 PROVE B[Slot(q, i)] = w[i].payload
    BY <1>4, <1>6
  <2>1. CASE i = n + 1
    BY <1>3, <1>4, <1>5, <1>7, <2>1
  <2>2. CASE i # n + 1
    <3>1. i \in 1 .. n /\ i \in Nat \ {0} /\ i <= n
      BY <1>1, <2>2
    <3>2. Slot(q, i) \in 1 .. m + n
      <4>1. Slot(q, i) \in Nat \ {0}
        BY <1>6, <3>1, SlotFacts
      <4> QED BY <1>1, <1>3, <1>6, <3>1, <4>1, SlotRange
    <3> QED BY <1>2, <1>4, <1>5, <3>1, <3>2
  <2> QED BY <2>1, <2>2
<1>11. \A i \in 1 .. Len(o) : B[Slot(p, i)] = o[i].payload
  <2> SUFFICES ASSUME NEW i \in 1 .. m PROVE B[Slot(p, i)] = o[i].payload
    BY <1>6
  <2>1. i \in Nat \ {0} /\ i <= m
    BY <1>1
  <2>2. Slot(p, i) \in 1 .. m + n
    <3>1. Slot(p, i) \in Nat \ {0}
      BY <2>1, SlotFacts
    <3> QED BY <1>1, <1>3, <2>1, <3>1, SlotRange
  <2> QED BY <1>2, <1>5, <2>2
<1>12. B = Actions(o, w)
  <2>1. Len(B) = Len(o) + Len(w)
    BY <1>1, <1>4, <1>5, <1>6
  <2> QED BY <1>4, <1>5, <1>9, <1>10, <1>11, <2>1, ActionsUnique
<1>13. Legal(B)
  BY <1>1, <1>2, <1>7, LegalAppend DEF B
<1>14. Replay(B) = ApplyAction(Replay(A), a.role, a.action)
  BY <1>1, <1>2, ReplayAppend DEF B
<1>15. LogOK(p, o, w)
  BY <1>4, <1>6, <1>8, <1>9, <1>12, <1>13 DEF LogOK
<1> QED BY <1>1, <1>6, <1>12, <1>14, <1>15 DEF B, A, a, w

-----------------------------------------------------------------------------
(* A peer stays coherent: its own half-turn *)

\* Both peers are coherent.
Locals == \A p \in Role : Local(p)

\* Two peers are all peers.
LEMMA BothLocal ==
  ASSUME NEW p \in Role, Local(p)', Local(Rival(p))'
  PROVE  Locals'
BY RivalFacts DEF Locals

\* A step that touches p alone needs to be looked at for p alone.
LEMMA RivalFrame ==
  ASSUME NEW p \in Role, Locals, Types, Types', torn => torn', Untouched(Rival(p)), Local(p)'
  PROVE  Locals'
<1>1. Rival(p) \in Role /\ Local(Rival(p))
  BY RivalFacts DEF Locals
<1> QED BY <1>1, LocalFrame, BothLocal

LEMMA SendCommitLocal ==
  ASSUME Types, Types', Locals, NEW p \in Role, SendCommit(p)
  PROVE  Locals'
<1>1. Untouched(Rival(p))
  <2>1. /\ pc'[Rival(p)] = pc[Rival(p)] /\ engine'[Rival(p)] = engine[Rival(p)]
        /\ draft'[Rival(p)] = draft[Rival(p)] /\ locked'[Rival(p)] = locked[Rival(p)]
        /\ own'[Rival(p)] = own[Rival(p)] /\ their'[Rival(p)] = their[Rival(p)]
    BY RivalFacts DEF SendCommit, Types, TypesOfPeers
  <2>2. /\ consumed'[Rival(p)] = consumed[Rival(p)] /\ snapshot'[Rival(p)] = snapshot[Rival(p)]
        /\ report'[Rival(p)] = report[Rival(p)]
        /\ incarnation'[Rival(p)] = incarnation[Rival(p)]
    BY DEF SendCommit
  <2>3. /\ pending'[Rival(p)] = pending[Rival(p)]
        /\ resending' = resending /\ controls'[Rival(p)] >= controls[Rival(p)]
    BY RivalFacts DEF SendCommit, Types, TypesOfWire
  <2> QED BY <2>1, <2>2, <2>3 DEF Untouched
<1>2. PICK a \in Choice :
        /\ ActionLegal(engine[p], p, a)
        /\ draft' = [draft EXCEPT ![p] = SealedRecord(StepPayload(Step(p), p, a), incarnation[p])]
  BY DEF SendCommit
<1> DEFINE r == SealedRecord(StepPayload(Step(p), p, a), incarnation[p])
<1>3. /\ r # None /\ r.payload = StepPayload(Step(p), p, a)
      /\ r = SealedRecord(r.payload, incarnation[p])
  BY LockstepAssumption, RecordFacts
<1>4. /\ pc[p] = "loop" /\ Ongoing(p) /\ engine[p].next_actor = p /\ pc'[p] = "revealing"
      /\ draft'[p] = r /\ draft[p] = None
      /\ UNCHANGED <<engine, locked, own, their, consumed, pending, resending, controls,
                     snapshot, report, incarnation, torn>>
  BY <1>2 DEF SendCommit, MyTurn, Types, TypesOfPeers, Locals, Local, Drafted
<1> HIDE DEF r
<1>5. Local(p)
  BY DEF Locals
<1>6. /\ r.payload.role = p /\ r.payload.step = Step(p)
      /\ ActionLegal(engine[p], p, r.payload.action)
  BY <1>2, <1>3 DEF StepPayload
<1>7. Live(p) /\ Live(p)' /\ Intact(p) /\ Sound(p) /\ Intact(p)' /\ ~Closed(p)' /\ Step(p)' = Step(p)
      /\ Ongoing(p)' = Ongoing(p)
  BY <1>4 DEF Live, Sound, Intact, Closed, Step, Ongoing
<1>8. LogOK(p, own[p], their[p]) /\ engine[p] = Replay(Actions(own[p], their[p]))
  BY <1>5, <1>7 DEF Local, Kept
<1>9. Step(p) = Slot(p, Len(own[p]) + 1)
  <2>1. Replay(Actions(own[p], their[p])).next_actor = p
    BY <1>4, <1>8
  <2>2. Slot(p, Len(own[p]) + 1) = Len(own[p]) + Len(their[p]) + 1
    BY <1>8, <2>1, StepFacts, MoverFacts
  <2> QED BY <2>2, StepFacts
<1>10. Filed(p)' /\ Unfiled(p)' /\ Kept(p)'
  BY <1>4, <1>5, <1>7 DEF Local, Filed, Unfiled, Kept
<1>11. Drafted(p)'
  BY <1>3, <1>4, <1>6, <1>7, <1>9 DEF Drafted
<1>12. Busy(p)'
  BY <1>3, <1>4, <1>5, <1>6, <1>7 DEF Local, Busy
<1>13. Resending(p)' /\ Reported(p)'
  BY <1>4, <1>5 DEF Local, Resending, Reported
<1> QED BY <1>1, <1>4, <1>10, <1>11, <1>12, <1>13, RivalFrame DEF Local

LEMMA SendRevealLocal ==
  ASSUME Types, Types', Locals, NEW p \in Role, SendReveal(p)
  PROVE  Locals'
<1>1. Untouched(Rival(p))
  BY RivalFacts DEF SendReveal, Untouched, Types, TypesOfPeers, TypesOfWire, memory
<1>2. /\ pc[p] = "revealing" /\ pc'[p] = "applying"
      /\ UNCHANGED <<engine, draft, locked, own, their, consumed, pending, resending,
                     controls, snapshot, report, incarnation, torn>>
  BY DEF SendReveal, memory, Types, TypesOfPeers
<1>3. Local(p)
  BY DEF Locals
<1>4. Live(p) /\ Live(p)' /\ Intact(p) /\ Intact(p)' /\ Sound(p) /\ ~Closed(p)' /\ Step(p)' = Step(p)
      /\ Ongoing(p)' = Ongoing(p)
  BY <1>2 DEF Live, Sound, Intact, Closed, Step, Ongoing
<1>5. Filed(p)' /\ Unfiled(p)' /\ Kept(p)'
  BY <1>2, <1>3, <1>4 DEF Local, Filed, Unfiled, Kept
<1>6. Drafted(p)' /\ Busy(p)' /\ Resending(p)' /\ Reported(p)'
  BY <1>2, <1>3, <1>4 DEF Local, Drafted, Busy, Resending, Reported
<1> QED BY <1>1, <1>2, <1>5, <1>6, RivalFrame DEF Local

LEMMA ApplyOwnLocal ==
  ASSUME Types, Types', Locals, NEW p \in Role, ApplyOwn(p)
  PROVE  Locals'
<1> DEFINE r == draft[p]
           o == own[p]
           t == their[p]
<1>1. /\ pc[p] = "applying" /\ pc'[p] = "loop"
      /\ own'[p] = Append(o, r)
      /\ engine'[p] = ApplyAction(engine[p], p, r.payload.action)
      /\ draft'[p] = None
      /\ UNCHANGED <<locked, their, consumed, pending, resending, controls, report,
                     incarnation, torn>>
      /\ Checkpoint(p)
  BY DEF ApplyOwn, Types, TypesOfPeers, boxes, budgets
<1>2. Local(p) /\ Rival(p) \in Role /\ Rival(p) # p
  BY RivalFacts DEF Locals
<1>3. Untouched(Rival(p))
  BY <1>2 DEF ApplyOwn, Checkpoint, Untouched, Types, TypesOfPeers, TypesOfWire, boxes, budgets
<1>4. Live(p) /\ Live(p)' /\ Intact(p) /\ Sound(p) /\ Sound(p)' /\ ~Closed(p)'
  BY <1>1 DEF Live, Sound, Intact, Closed
<1>5. /\ LogOK(p, o, t) /\ engine[p] = Replay(Actions(o, t)) /\ SealedLog(o)
      /\ consumed[p] = Keys(Rival(p), Len(t))
  BY <1>1, <1>2, <1>4 DEF Local, Kept
<1>6. /\ r \in SealedRec /\ r # None
      /\ r = SealedRecord(r.payload, incarnation[p])
      /\ ActionLegal(engine[p], p, r.payload.action)
      /\ r.payload.role = p /\ r.payload.step = Step(p)
  BY <1>1, <1>2 DEF Local, Busy, Drafted, Types, TypesOfPeers
<1>7. o \in Seq(SealedRec) /\ t \in Seq(SeenRec) /\ Step(p) = Len(o) + Len(t) + 1
  BY StepFacts
<1>8. /\ LogOK(p, own'[p], t)
      /\ engine'[p] = Replay(Actions(own'[p], t))
  BY <1>1, <1>5, <1>6, <1>7, GrowOwn
<1>9. SealedLog(own'[p])
  <2>1. /\ Len(own'[p]) = Len(o) + 1 /\ own'[p][Len(o) + 1] = r
        /\ \A i \in 1 .. Len(o) : own'[p][i] = o[i]
        /\ Len(o) \in Nat
    BY <1>1, <1>6, <1>7, AppendProperties, LenProperties
  <2>2. r.commit = CommitHash(r.payload, r.nonce)
    BY <1>6 DEF SealedRecord
  <2> HIDE DEF o, r
  <2> SUFFICES ASSUME NEW i \in 1 .. Len(o) + 1
               PROVE  own'[p][i].commit = CommitHash(own'[p][i].payload, own'[p][i].nonce)
    BY <2>1 DEF SealedLog
  <2>3. CASE i = Len(o) + 1
    BY <2>1, <2>2, <2>3
  <2>4. CASE i \in 1 .. Len(o)
    BY <1>5, <2>1, <2>4 DEF SealedLog
  <2> QED BY <2>1, <2>3, <2>4
<1>10. /\ snapshot'[p] # None
       /\ snapshot'[p] = BuildSnapshot(own'[p], their'[p], consumed'[p], engine'[p])
  BY <1>1, CheckpointEffect DEF Types, TypesOfPeers
<1>11. /\ snapshot'[p].own = own'[p] /\ snapshot'[p].their = their'[p]
       /\ snapshot'[p].consumed = consumed'[p]
  BY <1>10 DEF BuildSnapshot
<1> HIDE DEF r, o
<1>12. Filed(p)'
  BY <1>1, <1>4, <1>5, <1>8, <1>9, <1>11 DEF Filed, FiledSnapshot, SameRecords
<1>13. Unfiled(p)'
  BY <1>10 DEF Unfiled
<1>14. Kept(p)'
  BY <1>1, <1>4, <1>5, <1>8, <1>9 DEF Kept
<1>15. Drafted(p)' /\ Busy(p)'
  BY <1>1, <1>2, <1>4 DEF Local, Drafted, Busy
<1>16. Resending(p)' /\ Reported(p)'
  BY <1>1, <1>2 DEF Local, Resending, Reported
<1> QED BY <1>1, <1>3, <1>12, <1>13, <1>14, <1>15, <1>16, RivalFrame DEF Local

\* A peer that gives up keeps its logs and its file.
LEMMA FailLocal ==
  ASSUME Types, Types', NEW p \in Role, Local(p), Live(p), torn => torn',
         NEW why \in Error \ {"none"}, Abandon(p, why),
         own'[p] = own[p], their'[p] = their[p], locked'[p] = locked[p],
         draft'[p] = draft[p], snapshot'[p] = snapshot[p],
         incarnation'[p] = incarnation[p],
         resending'[p] => resending[p] /\ pc[p] \notin {"loop", "await_reveal", "await_audit"}
  PROVE  Local(p)'
<1>1. /\ pc'[p] = "failed" /\ report'[p] = [error |-> why]
      /\ report'[p].error = why /\ "audit" \notin DOMAIN report'[p]
  BY FailTypes DEF Types
<1>2. /\ Intact(p) /\ ~Live(p)' /\ ~Sound(p)' /\ ~Closed(p)' /\ Step(p)' = Step(p)
  BY <1>1 DEF Live, Sound, Intact, Closed, Step
<1>3. Filed(p)' /\ Unfiled(p)' /\ Kept(p)'
  BY <1>1, <1>2 DEF Local, Filed, Unfiled, Kept, Live
<1>4. Drafted(p)' /\ Busy(p)'
  BY <1>1, <1>2 DEF Local, Drafted, Busy
<1>5. Resending(p)' /\ Reported(p)'
  <2>1. [error |-> why] \in Report
    BY DEF Report
  <2>2. report'[p] # None
    BY <1>1, <2>1, NoneFacts
  <2> QED BY <1>1, <2>2 DEF Local, Resending, Reported
<1> QED BY <1>3, <1>4, <1>5 DEF Local

-----------------------------------------------------------------------------
(* A peer stays coherent: receiving *)

\* What r has under way: late copies, and what its rival has not taken.
Sent(r) == {m \in late : m.actor = r} \cup Range(turns[Rival(r)]) \cup pending[Rival(r)]

\* A message names its sender, and its own step.
WellAddressed(r, m) ==
  /\ m.actor = r
  /\ m.kind = "commit" => m.turn = m.commit.payload.step /\ m.commit.payload.role = r
  /\ m.kind = "reveal" => m.turn = m.payload.step /\ m.payload.role = r

\* All messages under way do.
Addressed == \A r \in Role : \A m \in Sent(r) : WellAddressed(r, m)

\* What a peer takes its rival sent.
LEMMA MessageSent ==
  ASSUME Types, NEW p \in Role, HasMessage(p)
  PROVE  /\ Message(p) \in Sent(Rival(p)) /\ Message(p) \in Msg
         /\ Addressed => WellAddressed(Rival(p), Message(p))
<1>1. Message(p) \in Msg /\ Message(p) \in pending[p] \cup Range(turns[p])
  BY MessageFacts
<1>2. Rival(p) \in Role /\ Rival(Rival(p)) = p
  BY RivalFacts
<1> QED BY <1>1, <1>2 DEF Sent, Addressed

\* What a peer that waits for a turn message knows.
LEMMA ExpectingFacts ==
  ASSUME Types, NEW p \in Role, Local(p), Expecting(p)
  PROVE  /\ pc[p] \in {"loop", "await_reveal"} /\ Live(p) /\ Sound(p) /\ Intact(p) /\ ~resending[p]
         /\ Ongoing(p) /\ engine[p].next_actor = Rival(p) /\ draft[p] = None /\ report[p] = None
         /\ LogOK(p, own[p], their[p]) /\ engine[p] = Replay(Actions(own[p], their[p]))
         /\ Step(p) = Slot(Rival(p), Len(their[p]) + 1)
         /\ consumed[p] = Keys(Rival(p), Len(their[p])) \cup
                     (IF pc[p] = "await_reveal" THEN {<<"commit", Step(p)>>} ELSE {})
<1>1. pc[p] \in {"loop", "await_reveal"} /\ ~resending[p] /\ Ongoing(p) /\ engine[p].next_actor # p
  BY DEF Expecting, Local, Busy
<1>2. Live(p) /\ Sound(p) /\ Intact(p) /\ draft[p] = None /\ report[p] = None
  BY <1>1 DEF Live, Sound, Intact, Local, Drafted, Reported
<1>3. /\ LogOK(p, own[p], their[p]) /\ engine[p] = Replay(Actions(own[p], their[p]))
      /\ consumed[p] = Keys(Rival(p), Len(their[p])) \cup
                     (IF pc[p] = "await_reveal" THEN {<<"commit", Step(p)>>} ELSE {})
  BY <1>2 DEF Local, Kept
<1>4. Replay(Actions(own[p], their[p])).next_actor # p
  BY <1>1, <1>3
<1>5. Slot(Rival(p), Len(their[p]) + 1) = Len(own[p]) + Len(their[p]) + 1
      /\ Replay(Actions(own[p], their[p])).next_actor = Rival(p)
  BY <1>3, <1>4, StepFacts, MoverFacts
<1> QED BY <1>1, <1>2, <1>3, <1>5, StepFacts

\* A report of a failure is no classification yet.
LEMMA ErrorFacts ==
  ASSUME NEW x, NEW why, x = [error |-> why]
  PROVE  "audit" \notin DOMAIN x /\ x.error = why
OBVIOUS

\* Giving up touches nothing of the rival.
LEMMA AbandonRival ==
  ASSUME Types, NEW p \in Role, NEW why \in Error \ {"none"}, Abandon(p, why),
         UNCHANGED <<draft, locked, own, their, consumed, resending, controls,
                     snapshot, incarnation>>,
         pending'[Rival(p)] = pending[Rival(p)]
  PROVE  Untouched(Rival(p))
<1>1. /\ pc'[Rival(p)] = pc[Rival(p)] /\ engine'[Rival(p)] = engine[Rival(p)]
      /\ report'[Rival(p)] = report[Rival(p)]
  BY FailTypes DEF Types
<1>2. controls[Rival(p)] >= controls[Rival(p)]
  BY RivalFacts DEF Types, TypesOfWire
<1> QED BY <1>1, <1>2 DEF Untouched

LEMMA ReceiveDuplicateLocal ==
  ASSUME Types, Types', Locals, NEW p \in Role, ReceiveDuplicate(p)
  PROVE  Locals'
<1>1. pc[p] \in {"loop", "await_reveal"} /\ Local(p)
  BY DEF ReceiveDuplicate, Expecting, Locals
<1>2. pending'[Rival(p)] = pending[Rival(p)]
  BY TakeMessageEffect DEF ReceiveDuplicate
<1>3. Untouched(p) /\ Untouched(Rival(p)) /\ torn' = torn
  BY <1>1, <1>2, RivalFacts DEF ReceiveDuplicate, Untouched, budgets, Types, TypesOfWire
<1> QED BY <1>1, <1>3, LocalFrame, RivalFrame

LEMMA ReceiveConflictLocal ==
  ASSUME Types, Types', Locals, NEW p \in Role, ReceiveConflict(p)
  PROVE  Locals'
<1>1. Local(p) /\ Live(p) /\ ~resending[p]
  BY ExpectingFacts DEF ReceiveConflict, Locals
<1>2. pending'[Rival(p)] = pending[Rival(p)]
  BY TakeMessageEffect DEF ReceiveConflict
<1>3. Abandon(p, "conflicting commit") /\ "conflicting commit" \in Error \ {"none"}
  BY DEF ReceiveConflict, Fail, Error
<1>4. Untouched(Rival(p)) /\ torn' = torn
  BY <1>2, <1>3, AbandonRival DEF ReceiveConflict, budgets
<1>5. Local(p)'
  BY <1>1, <1>3, FailLocal DEF ReceiveConflict, budgets
<1> QED BY <1>4, <1>5, RivalFrame

LEMMA ReceiveEarlyLocal ==
  ASSUME Types, Types', Locals, NEW p \in Role, ReceiveEarly(p)
  PROVE  Locals'
<1>1. Local(p) /\ Live(p) /\ ~resending[p] /\ pc[p] \in {"loop", "await_reveal"}
  BY ExpectingFacts DEF ReceiveEarly, Locals
<1>2. CASE Cardinality(pending[p]) >= PendingCap
  <2>1. /\ Abandon(p, "flooded") /\ "flooded" \in Error \ {"none"} /\ UNCHANGED pending
    BY <1>2 DEF ReceiveEarly, Fail, Error
  <2>2. Untouched(Rival(p)) /\ torn' = torn
    BY <2>1, AbandonRival DEF ReceiveEarly, budgets
  <2>3. Local(p)'
    BY <1>1, <2>1, FailLocal DEF ReceiveEarly, budgets
  <2> QED BY <2>2, <2>3, RivalFrame
<1>3. CASE ~(Cardinality(pending[p]) >= PendingCap)
  <2>1. Untouched(p) /\ Untouched(Rival(p)) /\ torn' = torn
    BY <1>1, <1>3, RivalFacts DEF ReceiveEarly, Untouched, budgets, Types, TypesOfWire
  <2> QED BY <1>1, <2>1, LocalFrame, RivalFrame
<1> QED BY <1>2, <1>3

LEMMA ReceiveCommitLocal ==
  ASSUME Types, Types', Locals, Addressed, NEW p \in Role, ReceiveCommit(p)
  PROVE  Locals'
<1> DEFINE m == Message(p)
<1>1. /\ Local(p) /\ pc[p] = "loop" /\ Live(p) /\ ~resending[p] /\ Ongoing(p)
      /\ engine[p].next_actor # p /\ Intact(p) /\ Sound(p) /\ draft[p] = None /\ report[p] = None
      /\ consumed[p] = Keys(Rival(p), Len(their[p]))
      /\ Expected(p) = <<"commit", Step(p)>>
  <2>1. Expecting(p) /\ Local(p) /\ Key(m) = Expected(p) /\ m.kind = "commit"
    BY DEF ReceiveCommit, Locals
  <2>2. Key(m)[1] = "commit" /\ Expected(p)[1] = IF pc[p] = "loop" THEN "commit" ELSE "reveal"
    BY <2>1 DEF Key, Expected
  <2>3. pc[p] = "loop"
    BY <2>1, <2>2
  <2>4. Rival(p) # p
    BY RivalFacts
  <2> HIDE DEF m
  <2>5. /\ Live(p) /\ ~resending[p] /\ Ongoing(p)
        /\ engine[p].next_actor # p /\ Intact(p) /\ Sound(p) /\ draft[p] = None
        /\ report[p] = None
        /\ consumed[p] = Keys(Rival(p), Len(their[p]))
    BY <2>1, <2>3, <2>4, ExpectingFacts
  <2> QED BY <2>1, <2>3, <2>5 DEF Expected
<1>2. /\ m \in Msg /\ m.kind = "commit" /\ m.turn = Step(p)
      /\ m.commit.payload.step = Step(p) /\ m.commit.payload.role = Rival(p)
      /\ m.actor = Rival(p) /\ m.commit \in Commit
  <2>1. m \in Msg /\ WellAddressed(Rival(p), m) /\ m.kind = "commit" /\ Key(m) = Expected(p)
    BY MessageSent DEF ReceiveCommit
  <2>2. Key(m)[2] = Step(p)
    BY <1>1, <2>1
  <2>3. m.turn = Step(p)
    BY <2>2 DEF Key
  <2> QED BY <2>1, <2>3 DEF WellAddressed, Msg
<1>3. pending'[Rival(p)] = pending[Rival(p)]
  BY TakeMessageEffect DEF ReceiveCommit
<1>4. /\ locked' = [locked EXCEPT ![p] = m.commit]
      /\ pc' = [pc EXCEPT ![p] = "await_reveal"]
      /\ consumed' = [consumed EXCEPT ![p] = @ \cup {<<"commit", Step(p)>>}]
      /\ UNCHANGED <<engine, report, draft, own, their, resending, controls, snapshot,
                     incarnation, torn>>
  BY <1>1, <1>2, RivalFacts DEF ReceiveCommit, budgets
<1> HIDE DEF m
<1>5. Untouched(Rival(p))
  <2>1. /\ pc'[Rival(p)] = pc[Rival(p)] /\ engine'[Rival(p)] = engine[Rival(p)]
        /\ draft'[Rival(p)] = draft[Rival(p)] /\ locked'[Rival(p)] = locked[Rival(p)]
        /\ own'[Rival(p)] = own[Rival(p)] /\ their'[Rival(p)] = their[Rival(p)]
    BY <1>4, RivalFacts DEF Types, TypesOfPeers
  <2>2. /\ consumed'[Rival(p)] = consumed[Rival(p)] /\ snapshot'[Rival(p)] = snapshot[Rival(p)]
        /\ report'[Rival(p)] = report[Rival(p)]
        /\ incarnation'[Rival(p)] = incarnation[Rival(p)]
    BY <1>4, RivalFacts DEF Types, TypesOfPeers
  <2>3. /\ pending'[Rival(p)] = pending[Rival(p)]
        /\ resending' = resending /\ controls'[Rival(p)] >= controls[Rival(p)]
    BY <1>3, <1>4, RivalFacts DEF Types, TypesOfWire
  <2> QED BY <2>1, <2>2, <2>3 DEF Untouched
<1>6. /\ pc'[p] = "await_reveal" /\ locked'[p] = m.commit
      /\ consumed'[p] = Keys(Rival(p), Len(their[p])) \cup {<<"commit", Step(p)>>}
  BY <1>1, <1>4 DEF Types, TypesOfPeers
<1>7. Live(p)' /\ Intact(p)' /\ Sound(p)' /\ ~Closed(p)' /\ Step(p)' = Step(p) /\ Ongoing(p)' = Ongoing(p)
  BY <1>4, <1>6 DEF Live, Intact, Sound, Closed, Step, Ongoing
<1>8. Filed(p)' /\ Unfiled(p)' /\ Kept(p)'
  BY <1>1, <1>4, <1>6, <1>7 DEF Local, Filed, Unfiled, Kept
<1>9. Drafted(p)' /\ Busy(p)' /\ Resending(p)' /\ Reported(p)'
  BY <1>1, <1>2, <1>4, <1>6, <1>7, NoneFacts DEF Local, Drafted, Busy, Resending, Reported
<1> QED BY <1>4, <1>5, <1>8, <1>9, RivalFrame DEF Local

\* One more half-turn adds its two keys.
LEMMA KeysGrow ==
  ASSUME NEW r \in Role, NEW n \in Nat
  PROVE  /\ Keys(r, n + 1) = Keys(r, n) \cup {<<"commit", Slot(r, n + 1)>>, <<"reveal", Slot(r, n + 1)>>}
<1>1. \A i : i \in 1 .. n + 1 <=> i \in 1 .. n \/ i = n + 1
  OBVIOUS
<1>2. Keys(r, n + 1) \subseteq Keys(r, n) \cup {<<"commit", Slot(r, n + 1)>>, <<"reveal", Slot(r, n + 1)>>}
  BY <1>1 DEF Keys, Kinds
<1>3. Keys(r, n) \subseteq Keys(r, n + 1)
  BY <1>1 DEF Keys, Kinds
<1>4. <<"commit", Slot(r, n + 1)>> \in Keys(r, n + 1) /\ <<"reveal", Slot(r, n + 1)>> \in Keys(r, n + 1)
  BY <1>1 DEF Keys, Kinds
<1> QED BY <1>2, <1>3, <1>4

\* The revealed action is the rival's, and legal on p's replica.
Accepts(p) ==
  LET payload == Message(p).payload
  IN  payload.role # p /\ ActionLegal(engine[p], payload.role, payload.action)

LEMMA ReceiveRevealLocal ==
  ASSUME Types, Types', Locals, Addressed, NEW p \in Role, ReceiveReveal(p), torn \/ Accepts(p)
  PROVE  Locals'
<1> DEFINE m == Message(p)
           a == m.payload
           r == [payload |-> a, commit |-> locked[p]]
           o == own[p]
           t == their[p]
           q == Rival(p)
<1>1. /\ Local(p) /\ pc[p] = "await_reveal"
      /\ LogOK(p, o, t) /\ engine[p] = Replay(Actions(o, t)) /\ Live(p)
      /\ consumed[p] = Keys(q, Len(t)) \cup {<<"commit", Step(p)>>}
      /\ Step(p) = Slot(q, Len(t) + 1) /\ draft[p] = None /\ ~resending[p] /\ report[p] = None
      /\ SealedLog(o) /\ locked[p].payload.step = Step(p)
  <2>1. Local(p) /\ Busy(p) /\ SealedLog(o) /\ Expecting(p)
    BY DEF Locals, Local, ReceiveReveal, Kept
  <2>2. pc[p] = "await_reveal"
    BY <2>1, ReceiveRevealEffect
  <2> QED BY <2>1, <2>2, ExpectingFacts DEF Busy
<1>2. /\ m \in Msg /\ m.kind = "reveal" /\ m.turn = Step(p) /\ a \in Payload
      /\ r \in SeenRec /\ own' = own /\ their' = [their EXCEPT ![p] = Append(@, r)]
      /\ consumed' = [consumed EXCEPT ![p] = @ \cup {<<"reveal", Step(p)>>}]
      /\ their'[p] \in Seq(SeenRec)
      /\ consumed'[p] \in SUBSET (Kinds \X Nat)
  BY <1>1, ReceiveRevealEffect DEF Local
<1>3. a.step = Step(p) /\ a.role = q
  <2>1. WellAddressed(q, m)
    BY MessageSent DEF ReceiveReveal
  <2> QED BY <1>2, <2>1 DEF WellAddressed
<1>4. /\ pending'[q] = pending[q]
      /\ locked' = [locked EXCEPT ![p] = None]
      /\ UNCHANGED <<draft, resending, controls, incarnation, torn>>
  BY TakeMessageEffect DEF ReceiveReveal, budgets
<1>5. /\ own'[p] = o /\ their'[p] = Append(t, r) /\ locked'[p] = None
      /\ consumed'[p] = consumed[p] \cup {<<"reveal", Step(p)>>}
      /\ own'[q] = own[q] /\ their'[q] = their[q] /\ locked'[q] = locked[q]
      /\ consumed'[q] = consumed[q]
  BY <1>2, <1>4, RivalFacts DEF Types, TypesOfPeers
<1>6. consumed'[p] = Keys(q, Len(their'[p]))
  <2>1. Len(t) \in Nat /\ q \in Role /\ Len(their'[p]) = Len(t) + 1
    BY <1>2, <1>5, StepFacts, RivalFacts, AppendProperties
  <2>2. Keys(q, Len(t) + 1) = Keys(q, Len(t)) \cup
          {<<"commit", Slot(q, Len(t) + 1)>>, <<"reveal", Slot(q, Len(t) + 1)>>}
    BY <2>1, KeysGrow
  <2> QED BY <1>1, <1>5, <2>1, <2>2
<1>7. /\ r.payload.role = q /\ r.payload.step = Len(o) + Len(t) + 1
      /\ r.commit.payload.step = Len(o) + Len(t) + 1 /\ r.payload = a
      /\ o \in Seq(SealedRec) /\ t \in Seq(SeenRec)
  BY <1>1, <1>3, StepFacts
<1>8. CASE Accepts(p)
  <2>1. /\ a.role # p /\ ActionLegal(engine[p], a.role, a.action)
        /\ engine' = [engine EXCEPT ![p] = ApplyAction(@, a.role, a.action)]
        /\ pc' = [pc EXCEPT ![p] = "loop"]
        /\ report' = report
        /\ Checkpoint(p)
    BY <1>8 DEF ReceiveReveal, Accepts
  <2>2. /\ engine'[p] = ApplyAction(engine[p], q, a.action) /\ pc'[p] = "loop"
        /\ ActionLegal(engine[p], q, a.action)
    BY <1>3, <2>1 DEF Types, TypesOfPeers
  <2>3. /\ LogOK(p, o, their'[p]) /\ engine'[p] = Replay(Actions(o, their'[p]))
    <3>1. /\ ActionLegal(Replay(Actions(o, t)), q, r.payload.action)
          /\ engine'[p] = ApplyAction(Replay(Actions(o, t)), q, r.payload.action)
      BY <1>1, <1>7, <2>2
    <3>2. r \in SeenRec /\ their'[p] = Append(t, r) /\ LogOK(p, o, t)
      BY <1>1, <1>2, <1>5
    <3> HIDE DEF r, o, t, a
    <3> QED BY <1>7, <3>1, <3>2, GrowTheir
  <2>4. /\ snapshot'[p] # None
        /\ snapshot'[p] = BuildSnapshot(own'[p], their'[p], consumed'[p], engine'[p])
        /\ snapshot'[q] = snapshot[q]
    <3>1. own'[p] \in Seq(SealedRec) /\ engine'[p] \in EngineType
      BY DEF Types, TypesOfPeers
    <3> QED BY <1>2, <2>1, <3>1, CheckpointEffect
  <2>5. /\ snapshot'[p].own = own'[p] /\ snapshot'[p].their = their'[p]
        /\ snapshot'[p].consumed = consumed'[p]
    BY <2>4 DEF BuildSnapshot
  <2> HIDE DEF r, a, m
  <2>6. Untouched(q)
    <3>1. q \in Role /\ q # p
      BY RivalFacts
    <3> HIDE DEF q
    <3>2. pc'[q] = pc[q] /\ engine'[q] = engine[q] /\ report'[q] = report[q]
      BY <2>1, <3>1 DEF Types, TypesOfPeers
    <3>3. controls'[q] >= controls[q]
      <4>1. controls'[q] = controls[q] /\ controls[q] \in Nat
        BY <1>4, <3>1 DEF Types, TypesOfWire
      <4> QED BY <4>1
    <3> QED BY <1>4, <1>5, <2>4, <3>2, <3>3 DEF Untouched
  <2> HIDE DEF q
  <2>7. Live(p)' /\ Sound(p)' /\ ~Closed(p)'
    BY <2>2 DEF Live, Sound, Closed
  <2>8. Filed(p)' /\ Unfiled(p)' /\ Kept(p)'
    BY <1>1, <1>5, <1>6, <2>2, <2>3, <2>4, <2>5, <2>7
       DEF Filed, FiledSnapshot, Unfiled, Kept, SameRecords, q
  <2>9. Drafted(p)' /\ Busy(p)' /\ Resending(p)' /\ Reported(p)'
    BY <1>1, <1>4, <1>5, <2>1, <2>2, <2>7 DEF Drafted, Busy, Resending, Reported
  <2> QED BY <1>4, <2>6, <2>8, <2>9, RivalFrame DEF Local, q
<1>9. CASE ~Accepts(p)
  <2>1. Abandon(p, "illegal action") /\ UNCHANGED <<own, snapshot>>
    BY <1>9 DEF ReceiveReveal, Accepts, Fail
  <2>2. /\ pc'[p] = "failed" /\ report'[p] = [error |-> "illegal action"]
        /\ pc'[q] = pc[q] /\ engine'[q] = engine[q] /\ report'[q] = report[q]
        /\ report'[p] # None
    <3>1. "illegal action" \in Error
      BY DEF Error
    <3>2. [error |-> "illegal action"] \in Report
      BY <3>1 DEF Report
    <3> QED BY <2>1, <3>1, <3>2, FailTypes, NoneFacts DEF Types
  <2>3. Untouched(q)
    <3>1. controls[q] >= controls[q]
      BY RivalFacts DEF Types, TypesOfWire
    <3> HIDE DEF r, a, m, q
    <3> QED BY <1>4, <1>5, <2>1, <2>2, <3>1 DEF Untouched
  <2> HIDE DEF r, a, m, q
  <2>4. torn' /\ ~Live(p)' /\ ~Sound(p)' /\ ~Intact(p)' /\ ~Closed(p)'
    BY <1>4, <1>9, <2>2 DEF Live, Sound, Intact, Closed
  <2>5. Filed(p)' /\ Unfiled(p)' /\ Kept(p)'
    BY <1>1, <1>5, <2>1, <2>2, <2>4 DEF Local, Filed, Unfiled, Kept
  <2>6. Drafted(p)' /\ Busy(p)'
    BY <1>1, <1>4, <1>5, <2>2, <2>4 DEF Drafted, Busy
  <2>7. Resending(p)'
    BY <1>1, <1>4 DEF Resending
  <2>8. "audit" \notin DOMAIN report'[p] /\ report'[p].error = "illegal action"
    BY <2>2, ErrorFacts
  <2>9. Reported(p)'
    BY <2>2, <2>8 DEF Reported
  <2> QED BY <1>4, <2>3, <2>5, <2>6, <2>7, <2>9, RivalFrame DEF Local, q
<1> QED BY <1>8, <1>9

-----------------------------------------------------------------------------
(* A peer stays coherent: the end of a game, deadlines, crashes, restarts *)

LEMMA SendFinalAuditLocal ==
  ASSUME Types, Types', Locals, NEW p \in Role, SendFinalAudit(p)
  PROVE  Locals'
<1>1. /\ pc[p] = "loop" /\ ~Ongoing(p) /\ pc'[p] = "await_audit"
      /\ UNCHANGED <<engine, draft, locked, own, their, consumed, pending, resending,
                     controls, snapshot, report, incarnation, torn>>
      /\ pc'[Rival(p)] = pc[Rival(p)]
  BY RivalFacts DEF SendFinalAudit, memory, budgets, Types, TypesOfPeers
<1>2. Untouched(Rival(p))
  BY <1>1, RivalFacts DEF Untouched, Types, TypesOfWire
<1>3. Local(p)
  BY DEF Locals
<1>4. /\ Live(p) /\ Live(p)' /\ Intact(p) /\ Intact(p)' /\ Sound(p) /\ ~Closed(p)'
      /\ Step(p)' = Step(p) /\ Ongoing(p)' = Ongoing(p)
  BY <1>1 DEF Live, Sound, Intact, Closed, Step, Ongoing
<1>5. Filed(p)' /\ Unfiled(p)' /\ Kept(p)'
  BY <1>1, <1>3, <1>4 DEF Local, Filed, Unfiled, Kept
<1>6. Drafted(p)' /\ Busy(p)' /\ Resending(p)' /\ Reported(p)'
  BY <1>1, <1>3, <1>4 DEF Local, Drafted, Busy, Resending, Reported
<1> QED BY <1>1, <1>2, <1>5, <1>6, RivalFrame DEF Local

\* A classified game keeps the records it was classified on.
LEMMA ClosedLocal ==
  ASSUME Types, Types', NEW p \in Role, Local(p), pc[p] = "await_audit",
         torn => torn', pc'[p] = "done", report'[p] # None, report'[p].error = "none",
         "audit" \in DOMAIN report'[p],
         own'[p] = own[p], SameRecords(their'[p], their[p]), engine'[p] = engine[p],
         draft'[p] = draft[p], locked'[p] = locked[p], ~resending'[p],
         snapshot'[p] \in {None, snapshot[p]}
  PROVE  Local(p)'
<1>1. /\ Live(p) /\ Sound(p) /\ Intact(p) /\ ~Live(p)' /\ Closed(p)' /\ Sound(p)' /\ Intact(p)'
      /\ Ongoing(p)' = Ongoing(p)
  BY DEF Live, Sound, Intact, Closed, Ongoing
<1>2. LogOK(p, own[p], their[p]) /\ engine[p] = Replay(Actions(own[p], their[p]))
  BY <1>1 DEF Local, Kept
<1>3. LogOK(p, own[p], their'[p]) /\ Actions(own[p], their'[p]) = Actions(own[p], their[p])
  <2>1. own[p] \in Seq(SealedRec) /\ their[p] \in Seq(SeenRec) /\ their'[p] \in Seq(SeenRec)
    BY DEF Types, TypesOfPeers
  <2>2. SameRecords(their[p], their'[p])
    BY DEF SameRecords
  <2> QED BY <1>2, <2>1, <2>2, SameLogs
<1>4. Filed(p)'
  <2> SUFFICES ASSUME snapshot'[p] # None PROVE Filed(p)'
    BY DEF Filed
  <2>1. snapshot'[p] = snapshot[p]
    OBVIOUS
  <2>2. FiledSnapshot(p, snapshot[p]) /\ snapshot[p].own = own[p] /\ snapshot[p].their = their[p]
    BY <1>1, <2>1 DEF Local, Filed
  <2>3. SameRecords(snapshot[p].their, their'[p])
    BY <2>2 DEF SameRecords
  <2> QED BY <1>1, <2>1, <2>2, <2>3 DEF Filed
<1>5. Unfiled(p)'
  BY DEF Unfiled
<1>6. Kept(p)'
  BY <1>1, <1>2, <1>3 DEF Local, Kept
<1>7. Drafted(p)' /\ Busy(p)'
  BY <1>1 DEF Local, Drafted, Busy
<1>8. Resending(p)' /\ Reported(p)'
  BY DEF Resending, Reported
<1> QED BY <1>4, <1>5, <1>6, <1>7, <1>8 DEF Local

\* A peer that gave up and has sent its disclosure.
LEMMA LostLocal ==
  ASSUME Types, Types', NEW p \in Role, Local(p), pc[p] = "failed",
         torn => torn', pc'[p] = "done", report'[p] # None, report'[p].error # "none",
         "audit" \in DOMAIN report'[p],
         own'[p] = own[p], their'[p] = their[p],
         draft'[p] = draft[p], locked'[p] = locked[p], resending'[p] => resending[p],
         snapshot'[p] = snapshot[p], incarnation'[p] = incarnation[p]
  PROVE  Local(p)'
<1>1. /\ ~Live(p)' /\ ~Closed(p)' /\ ~Sound(p)' /\ (Intact(p)' => Intact(p))
      /\ Step(p)' = Step(p)
  BY DEF Live, Sound, Intact, Closed, Step, Types, TypesOfHistory
<1>2. Filed(p)' /\ Unfiled(p)' /\ Kept(p)'
  BY <1>1 DEF Local, Filed, Unfiled, Kept
<1>3. Drafted(p)' /\ Busy(p)'
  BY <1>1 DEF Local, Drafted, Busy
<1>4. Resending(p)' /\ Reported(p)'
  BY DEF Local, Resending, Reported
<1> QED BY <1>2, <1>3, <1>4 DEF Local

LEMMA ReceiveAuditLocal ==
  ASSUME Types, Types', Locals, NEW p \in Role, ReceiveAudit(p)
  PROVE  Locals'
<1> DEFINE d == Head(audits[p])
           verdict == AuditRecords(their[p], d.nonces)
           match == (d.digest = EndStateDigest(engine[p]))
<1>1. /\ pc[p] = "await_audit" /\ ~resending[p] /\ audits[p] # << >>
      /\ Settle(p, verdict, match)
      /\ their' = [their EXCEPT ![p] = WithNonces(@, d.nonces)]
      /\ UNCHANGED <<engine, draft, locked, own, consumed, pending, resending, controls,
                     incarnation, torn>>
  BY DEF ReceiveAudit, AwaitingAudit, budgets
<1>2. d \in Disclosed /\ d.nonces \in Seq(Nat)
  <2>1. audits[p] \in Seq(Disclosed)
    BY DEF Types, TypesOfWire
  <2>2. d \in Disclosed
    BY <1>1, <2>1, HeadTailProperties
  <2> QED BY <2>2 DEF Disclosed
<1>3. verdict \in {"Verified OK", "TAMPERED", "not received"} /\ match \in BOOLEAN
  BY DEF AuditRecords
<1>4. their[p] \in Seq(SeenRec) /\ SameRecords(WithNonces(their[p], d.nonces), their[p])
  BY <1>2, WithNoncesTypes DEF Types, TypesOfPeers
<1>5. their'[p] = WithNonces(their[p], d.nonces) /\ their'[Rival(p)] = their[Rival(p)]
  BY <1>1, RivalFacts DEF Types, TypesOfPeers
<1> HIDE DEF d, verdict, match
<1>6. /\ pc'[p] = "done" /\ pc'[Rival(p)] = pc[Rival(p)]
      /\ report'[p] # None /\ report'[p].error = "none" /\ "audit" \in DOMAIN report'[p]
      /\ snapshot'[p] \in {None, snapshot[p]}
      /\ report'[Rival(p)] = report[Rival(p)] /\ snapshot'[Rival(p)] = snapshot[Rival(p)]
  BY <1>1, <1>3, SettleEffect DEF Types
<1>7. Untouched(Rival(p))
  <2>1. controls[Rival(p)] >= controls[Rival(p)]
    BY RivalFacts DEF Types, TypesOfWire
  <2> QED BY <1>1, <1>5, <1>6, <2>1 DEF Untouched
<1>8. Local(p)'
  BY <1>1, <1>4, <1>5, <1>6, ClosedLocal DEF Locals
<1> QED BY <1>1, <1>7, <1>8, RivalFrame

LEMMA EmergencyAuditLocal ==
  ASSUME Types, Types', Locals, NEW p \in Role, EmergencyAudit(p)
  PROVE  Locals'
<1>1. /\ pc[p] = "failed" /\ TechnicalLossReport(p) /\ Local(p) /\ Reported(p)
      /\ UNCHANGED <<engine, draft, locked, own, their, consumed, pending, resending,
                     controls, snapshot, incarnation, torn>>
  BY DEF EmergencyAudit, memory, budgets, Locals, Local
<1>2. /\ pc'[p] = "done" /\ pc'[Rival(p)] = pc[Rival(p)]
      /\ report'[p] # None /\ report'[p].error # "none" /\ "audit" \in DOMAIN report'[p]
      /\ report'[Rival(p)] = report[Rival(p)]
  BY <1>1, LossReportEffect DEF Types
<1>3. Untouched(Rival(p))
  <2>1. controls[Rival(p)] >= controls[Rival(p)]
    BY RivalFacts DEF Types, TypesOfWire
  <2> QED BY <1>1, <1>2, <2>1 DEF Untouched
<1>4. Local(p)'
  BY <1>1, <1>2, LostLocal
<1> QED BY <1>1, <1>3, <1>4, RivalFrame

LEMMA OfferResumeLocal ==
  ASSUME Types, Types', Locals, NEW p \in Role, OfferResume(p)
  PROVE  Locals'
<1>1. /\ pc[p] = "offering" /\ pc'[p] = "loop" /\ pc'[Rival(p)] = pc[Rival(p)]
      /\ UNCHANGED <<engine, draft, locked, own, their, consumed, pending, resending,
                     snapshot, report, incarnation, torn>>
      /\ controls'[Rival(p)] >= controls[Rival(p)]
  BY RivalFacts DEF OfferResume, memory, budgets, Types, TypesOfPeers, TypesOfWire
<1>2. Untouched(Rival(p))
  BY <1>1 DEF Untouched
<1>3. Local(p)
  BY DEF Locals
<1>4. /\ Live(p) /\ Live(p)' /\ Intact(p) /\ Intact(p)' /\ Sound(p) /\ ~Closed(p)'
      /\ Step(p)' = Step(p) /\ Ongoing(p)' = Ongoing(p)
  BY <1>1 DEF Live, Sound, Intact, Closed, Step, Ongoing
<1>5. Filed(p)' /\ Unfiled(p)' /\ Kept(p)'
  BY <1>1, <1>3, <1>4 DEF Local, Filed, Unfiled, Kept
<1>6. Drafted(p)' /\ Busy(p)' /\ Resending(p)' /\ Reported(p)'
  BY <1>1, <1>3, <1>4 DEF Local, Drafted, Busy, Resending, Reported
<1> QED BY <1>1, <1>2, <1>5, <1>6, RivalFrame DEF Local

\* Both peers as they were.
LEMMA BothFrame ==
  ASSUME Types, Types', Locals, NEW p \in Role, Untouched(p), Untouched(Rival(p)),
         torn' = torn
  PROVE  Locals'
BY LocalFrame, RivalFrame DEF Locals

LEMMA IgnoreOfferLocal ==
  ASSUME Types, Types', Locals, NEW p \in Role, IgnoreOffer(p)
  PROVE  Locals'
<1>1. ~resending[p] /\ resending' = resending
  BY DEF IgnoreOffer, memory, Locals, Local, Resending
<1>2. Untouched(p) /\ Untouched(Rival(p)) /\ torn' = torn
  BY <1>1, RivalFacts DEF IgnoreOffer, memory, budgets, Untouched, Types, TypesOfPeers, TypesOfWire
<1> QED BY <1>2, BothFrame

LEMMA ResendCommitLocal ==
  ASSUME Types, Types', Locals, NEW p \in Role, ResendCommit(p)
  PROVE  Locals'
<1>1. /\ Waiting(p) /\ controls[p] > 0 /\ own[p] # << >>
      /\ UNCHANGED <<pc, engine, draft, locked, own, their, consumed, pending, controls,
                     snapshot, report, incarnation, torn>>
      /\ resending'[Rival(p)] = resending[Rival(p)]
  BY RivalFacts DEF ResendCommit, Types, TypesOfPeers
<1>2. Untouched(Rival(p))
  BY <1>1, RivalFacts DEF Untouched, Types, TypesOfWire
<1>3. Local(p)
  BY DEF Locals
<1>4. /\ Live(p)' = Live(p) /\ Intact(p)' = Intact(p) /\ Sound(p)' = Sound(p)
      /\ Closed(p)' = Closed(p) /\ Step(p)' = Step(p) /\ Ongoing(p)' = Ongoing(p)
  BY <1>1 DEF Live, Sound, Intact, Closed, Step, Ongoing
<1>5. Filed(p)' /\ Unfiled(p)' /\ Kept(p)'
  BY <1>1, <1>3, <1>4 DEF Local, Filed, Unfiled, Kept
<1>6. Drafted(p)' /\ Busy(p)' /\ Reported(p)'
  BY <1>1, <1>3, <1>4 DEF Local, Drafted, Busy, Reported
<1>7. Resending(p)'
  BY <1>1, <1>4 DEF Resending, Waiting, Expecting, AwaitingAudit, Ongoing
<1> QED BY <1>1, <1>2, <1>5, <1>6, <1>7, RivalFrame DEF Local

LEMMA ResendRevealLocal ==
  ASSUME Types, Types', Locals, NEW p \in Role, ResendReveal(p)
  PROVE  Locals'
<1>1. resending' = [resending EXCEPT ![p] = FALSE]
  BY DEF ResendReveal
<1>2. Untouched(p) /\ Untouched(Rival(p)) /\ torn' = torn
  BY <1>1, RivalFacts DEF ResendReveal, Untouched, Types, TypesOfPeers, TypesOfWire
<1> QED BY <1>2, BothFrame

LEMMA DeliverLateLocal ==
  ASSUME Types, Types', Locals, NEW m \in late, DeliverLate(m)
  PROVE  Locals'
<1>1. \A r \in Role : Untouched(r)
  BY DEF DeliverLate, memory, budgets, Untouched, Types, TypesOfWire
<1>2. torn' = torn
  BY DEF DeliverLate, budgets
<1> QED BY <1>1, <1>2, LocalFrame DEF Locals

LEMMA ExpireLocal ==
  ASSUME Types, Types', Locals, NEW p \in Role, Expire(p), torn => torn',
         resending' = [resending EXCEPT ![p] = FALSE],
         UNCHANGED <<draft, locked, own, their, consumed, pending, controls, incarnation>>
  PROVE  Locals'
<1>1. Local(p) /\ Reported(p) /\ ~resending'[p] /\ resending'[Rival(p)] = resending[Rival(p)]
      /\ controls[Rival(p)] >= controls[Rival(p)]
  <2>1. Local(p) /\ Reported(p)
    BY DEF Locals, Local
  <2>2. resending'[p] = FALSE /\ resending'[Rival(p)] = resending[Rival(p)]
    BY RivalFacts DEF Types, TypesOfPeers
  <2>3. controls[Rival(p)] >= controls[Rival(p)]
    BY RivalFacts DEF Types, TypesOfWire
  <2> QED BY <2>1, <2>2, <2>3
<1>2. CASE ExpireFails(p)
  <2>1. Abandon(p, "deadline") /\ snapshot' = snapshot /\ Live(p)
        /\ "deadline" \in Error \ {"none"}
    BY <1>2 DEF ExpireFails, Error
  <2>2. /\ pc'[Rival(p)] = pc[Rival(p)] /\ engine'[Rival(p)] = engine[Rival(p)]
        /\ report'[Rival(p)] = report[Rival(p)]
    BY <2>1, FailTypes DEF Types
  <2>3. Untouched(Rival(p))
    BY <1>1, <2>1, <2>2 DEF Untouched
  <2>4. Local(p)'
    BY <1>1, <2>1, FailLocal
  <2> QED BY <2>3, <2>4, RivalFrame
<1>3. CASE ExpireWaits(p)
  <2>1. /\ pc[p] = "loop" /\ ~Ongoing(p) /\ pc'[p] = "await_audit"
        /\ UNCHANGED <<engine, snapshot, report>> /\ pc'[Rival(p)] = pc[Rival(p)]
    BY <1>3, RivalFacts DEF ExpireWaits, Types, TypesOfPeers
  <2>2. Untouched(Rival(p))
    BY <1>1, <2>1 DEF Untouched
  <2>3. /\ Live(p) /\ Live(p)' /\ Intact(p) /\ Intact(p)' /\ Sound(p) /\ ~Closed(p)'
        /\ Step(p)' = Step(p) /\ Ongoing(p)' = Ongoing(p)
    BY <2>1 DEF Live, Sound, Intact, Closed, Step, Ongoing
  <2>4. Filed(p)' /\ Unfiled(p)' /\ Kept(p)'
    BY <1>1, <2>1, <2>3 DEF Local, Filed, Unfiled, Kept
  <2>5. Drafted(p)' /\ Busy(p)' /\ Resending(p)' /\ Reported(p)'
    BY <1>1, <2>1, <2>3 DEF Local, Drafted, Busy, Resending, Reported
  <2> QED BY <2>2, <2>4, <2>5, RivalFrame DEF Local
<1>4. CASE ExpireSettles(p)
  <2>1. pc[p] = "await_audit" /\ Settle(p, "not received", FALSE) /\ engine' = engine
    BY <1>4 DEF ExpireSettles
  <2>2. /\ pc'[p] = "done" /\ pc'[Rival(p)] = pc[Rival(p)]
        /\ report'[p] # None /\ report'[p].error = "none" /\ "audit" \in DOMAIN report'[p]
        /\ snapshot'[p] \in {None, snapshot[p]}
        /\ report'[Rival(p)] = report[Rival(p)] /\ snapshot'[Rival(p)] = snapshot[Rival(p)]
    BY <2>1, SettleEffect DEF Types
  <2>3. Untouched(Rival(p))
    BY <1>1, <2>1, <2>2 DEF Untouched
  <2>4. SameRecords(their'[p], their[p])
    BY DEF SameRecords
  <2>5. Local(p)'
    BY <1>1, <2>1, <2>2, <2>4, ClosedLocal
  <2> QED BY <2>3, <2>5, RivalFrame
<1>5. CASE ExpireReports(p)
  <2>1. /\ pc[p] = "failed" /\ TechnicalLossReport(p) /\ UNCHANGED <<engine, snapshot>>
    BY <1>5 DEF ExpireReports
  <2>2. /\ pc'[p] = "done" /\ pc'[Rival(p)] = pc[Rival(p)]
        /\ report'[p] # None /\ report'[p].error # "none" /\ "audit" \in DOMAIN report'[p]
        /\ report'[Rival(p)] = report[Rival(p)]
    BY <1>1, <2>1, LossReportEffect DEF Types
  <2>3. Untouched(Rival(p))
    BY <1>1, <2>1, <2>2 DEF Untouched
  <2>4. Local(p)'
    BY <1>1, <2>1, <2>2, LostLocal
  <2> QED BY <2>3, <2>4, RivalFrame
<1>6. CASE ExpireStops(p)
  <2>1. /\ pc[p] = "offering" /\ pc'[p] = "down" /\ UNCHANGED <<engine, snapshot, report>>
        /\ pc'[Rival(p)] = pc[Rival(p)]
    BY <1>6, RivalFacts DEF ExpireStops, Types, TypesOfPeers
  <2>2. Untouched(Rival(p))
    BY <1>1, <2>1 DEF Untouched
  <2>3. /\ ~Live(p)' /\ ~Intact(p)' /\ ~Sound(p)' /\ ~Closed(p)'
    BY <2>1 DEF Live, Sound, Intact, Closed
  <2>4. Filed(p)' /\ Unfiled(p)' /\ Kept(p)'
    BY <1>1, <2>1, <2>3 DEF Local, Filed, Unfiled, Kept
  <2>5. Drafted(p)' /\ Busy(p)' /\ Resending(p)' /\ Reported(p)'
    BY <1>1, <2>1, <2>3 DEF Local, Drafted, Busy, Resending, Reported
  <2> QED BY <2>2, <2>4, <2>5, RivalFrame DEF Local
<1> QED BY <1>2, <1>3, <1>4, <1>5, <1>6, ExpireCases

LEMMA LapseLocal ==
  ASSUME Types, Types', Locals, NEW p \in Role, LapseOverdue(p) \/ LapseSlow(p)
  PROVE  Locals'
<1>1. /\ Expire(p) /\ (torn => torn') /\ resending' = [resending EXCEPT ![p] = FALSE]
      /\ UNCHANGED <<draft, locked, own, their, consumed, pending, controls, incarnation>>
  <2>1. CASE LapseOverdue(p)
    BY <2>1 DEF LapseOverdue, boxes
  <2>2. CASE LapseSlow(p)
    <3>1. torn => torn'
      BY <2>2 DEF LapseSlow, Types, TypesOfHistory
    <3> QED BY <2>2, <3>1 DEF LapseSlow, boxes
  <2> QED BY <2>1, <2>2
<1> QED BY <1>1, ExpireLocal

LEMMA CrashLocal ==
  ASSUME Types, Types', Locals, NEW p \in Role, Crash(p)
  PROVE  Locals'
<1>1. /\ pc'[p] = "down" /\ draft'[p] = None /\ locked'[p] = None /\ own'[p] = << >>
      /\ their'[p] = << >> /\ pending'[p] = {} /\ ~resending'[p] /\ report'[p] = None
      /\ snapshot' = snapshot /\ (torn => torn') /\ Local(p)
  <2>1. torn => torn'
    BY DEF Crash, Types, TypesOfHistory
  <2>2. Local(p)
    BY DEF Locals
  <2>3. resending'[p] = FALSE
    BY DEF Crash, Types, TypesOfPeers
  <2> QED BY <2>1, <2>2, <2>3 DEF Crash, Types, TypesOfPeers, TypesOfWire
<1>2. Untouched(Rival(p))
  BY RivalFacts DEF Crash, Untouched, Types, TypesOfPeers, TypesOfWire
<1>3. ~Live(p)' /\ ~Intact(p)' /\ ~Sound(p)' /\ ~Closed(p)'
  BY <1>1 DEF Live, Sound, Intact, Closed
<1>4. SealedLog(own'[p])
  BY <1>1 DEF SealedLog
<1>5. Filed(p)' /\ Unfiled(p)' /\ Kept(p)'
  BY <1>1, <1>3, <1>4 DEF Local, Filed, Unfiled, Kept
<1>6. Drafted(p)' /\ Busy(p)' /\ Resending(p)' /\ Reported(p)'
  BY <1>1, <1>3 DEF Drafted, Busy, Resending, Reported
<1> QED BY <1>1, <1>2, <1>5, <1>6, RivalFrame DEF Local

LEMMA RestartLocal ==
  ASSUME Types, Types', Locals, NEW p \in Role, Restart(p)
  PROVE  Locals'
<1> DEFINE s == snapshot[p]
<1>1. /\ pc[p] = "down" /\ s # None /\ pc'[p] = "offering" /\ pc'[Rival(p)] = pc[Rival(p)]
      /\ engine'[p] = Replay(Actions(s.own, s.their)) /\ own'[p] = s.own /\ their'[p] = s.their
      /\ consumed'[p] = s.consumed /\ engine'[Rival(p)] = engine[Rival(p)]
      /\ own'[Rival(p)] = own[Rival(p)] /\ their'[Rival(p)] = their[Rival(p)]
      /\ consumed'[Rival(p)] = consumed[Rival(p)]
      /\ UNCHANGED <<draft, locked, pending, resending, controls, snapshot, report,
                     incarnation, torn>>
  BY RivalFacts DEF Restart, boxes, budgets, Types, TypesOfPeers
<1>2. Local(p) /\ FiledSnapshot(p, s)
  BY <1>1 DEF Locals, Local, Filed
<1>3. Untouched(Rival(p))
  BY <1>1, RivalFacts DEF Untouched, Types, TypesOfWire
<1> HIDE DEF s
<1>4. Live(p)' /\ Intact(p)' /\ Sound(p)' /\ ~Closed(p)'
  BY <1>1 DEF Live, Sound, Intact, Closed
<1>5. SameRecords(s.their, s.their)
  BY DEF SameRecords
<1>6. Filed(p)' /\ Unfiled(p)' /\ Kept(p)'
  BY <1>1, <1>2, <1>4, <1>5 DEF FiledSnapshot, Filed, Unfiled, Kept, s
<1>7. Drafted(p)' /\ Busy(p)' /\ Resending(p)' /\ Reported(p)'
  BY <1>1, <1>2, <1>4 DEF Local, Drafted, Busy, Resending, Reported
<1> QED BY <1>1, <1>3, <1>6, <1>7, RivalFrame DEF Local

-----------------------------------------------------------------------------
(* Every message under way names its sender and its step *)

\* What a step may add to what a peer has sent.
Fresh(r, m) ==
  \/ SendCommit(r) /\ m = CommitMessage(draft'[r])
  \/ SendReveal(r) /\ m = RevealMessage(draft[r])
  \/ ResendCommit(r) /\ m = CommitMessage(Last(own[r]))
  \/ ResendReveal(r) /\ m = RevealMessage(Last(own[r]))
  \/ LapseSlow(r) /\ m \in Unacknowledged(r) /\ torn'

\* A step that adds no message.
LEMMA SentFrame ==
  ASSUME Types, NEW r \in Role,
         late' \subseteq late, Range(turns'[Rival(r)]) \subseteq Range(turns[Rival(r)]),
         pending'[Rival(r)] \subseteq pending[Rival(r)]
  PROVE  Sent(r)' \subseteq Sent(r)
BY DEF Sent

\* A send adds one message.
LEMMA SendTurnSent ==
  ASSUME Types, NEW p \in Role, NEW m \in Msg, m.actor = p, SendTurn(p, m),
         pending' = pending
  PROVE  Sent(p)' \subseteq Sent(p) \cup {m} /\ Sent(Rival(p))' \subseteq Sent(Rival(p))
<1>1. Rival(p) \in Role /\ Rival(p) # p /\ Rival(Rival(p)) = p
  BY RivalFacts
<1>2. /\ turns'[p] = turns[p]
      /\ Range(turns'[Rival(p)]) \subseteq Range(turns[Rival(p)]) \cup {m}
      /\ late' \subseteq late \cup {m}
  BY SendTurnEffect
<1>3. Sent(p)' \subseteq Sent(p) \cup {m}
  BY <1>1, <1>2 DEF Sent
<1>4. Sent(Rival(p))' \subseteq Sent(Rival(p))
  BY <1>1, <1>2 DEF Sent
<1> QED BY <1>3, <1>4

\* The messages the sends carry.
LEMMA SendFacts ==
  ASSUME Types, Locals, NEW p \in Role
  PROVE  /\ SendCommit(p) =>
              \E a \in Choice :
                LET r == SealedRecord(StepPayload(Step(p), p, a), incarnation[p]) IN
                /\ ActionLegal(engine[p], p, a)
                /\ draft'[p] = r /\ r \in SealedRec /\ SendTurn(p, CommitMessage(r))
                /\ r.payload = StepPayload(Step(p), p, a)
                /\ r.commit = CommitHash(r.payload, r.nonce)
                /\ CommitMessage(r) \in Msg /\ CommitMessage(r).actor = p
         /\ pc[p] \in {"revealing", "applying"} =>
              /\ draft[p] \in SealedRec /\ draft[p].payload.role = p
              /\ draft[p].commit = CommitHash(draft[p].payload, draft[p].nonce)
              /\ RevealMessage(draft[p]) \in Msg /\ RevealMessage(draft[p]).actor = p
         /\ own[p] # << >> /\ Intact(p) =>
              /\ Last(own[p]) \in SealedRec /\ Last(own[p]) = own[p][Len(own[p])]
              /\ Len(own[p]) \in Nat \ {0}
              /\ Last(own[p]).payload.role = p
              /\ Last(own[p]).commit = CommitHash(Last(own[p]).payload, Last(own[p]).nonce)
              /\ CommitMessage(Last(own[p])) \in Msg
              /\ CommitMessage(Last(own[p])).actor = p
              /\ RevealMessage(Last(own[p])) \in Msg
              /\ RevealMessage(Last(own[p])).actor = p
<1>0. Local(p)
  BY DEF Locals
<1>1. ASSUME SendCommit(p)
      PROVE  \E a \in Choice :
                LET r == SealedRecord(StepPayload(Step(p), p, a), incarnation[p]) IN
                /\ ActionLegal(engine[p], p, a)
                /\ draft'[p] = r /\ r \in SealedRec /\ SendTurn(p, CommitMessage(r))
                /\ r.payload = StepPayload(Step(p), p, a)
                /\ r.commit = CommitHash(r.payload, r.nonce)
                /\ CommitMessage(r) \in Msg /\ CommitMessage(r).actor = p
  <2>1. PICK a \in Choice :
          LET r == SealedRecord(StepPayload(Step(p), p, a), incarnation[p]) IN
          /\ ActionLegal(engine[p], p, a)
          /\ draft' = [draft EXCEPT ![p] = r]
          /\ SendTurn(p, CommitMessage(r))
    BY <1>1 DEF SendCommit
  <2> DEFINE r == SealedRecord(StepPayload(Step(p), p, a), incarnation[p])
  <2>2. /\ r \in SealedRec /\ r.payload = StepPayload(Step(p), p, a)
        /\ r.commit = CommitHash(r.payload, r.nonce)
    BY LockstepAssumption, RecordFacts
  <2>3. draft'[p] = r /\ SendTurn(p, CommitMessage(r))
    BY <2>1 DEF Types, TypesOfPeers
  <2> HIDE DEF r
  <2>4. r.payload.role = p
    BY <2>2 DEF StepPayload
  <2>5. CommitMessage(r) \in Msg /\ CommitMessage(r).actor = p
    BY <2>2, <2>4, MessageTypes DEF CommitMessage
  <2> QED BY <2>1, <2>2, <2>3, <2>5 DEF r
<1>2. ASSUME pc[p] \in {"revealing", "applying"}
      PROVE  /\ draft[p] \in SealedRec /\ draft[p].payload.role = p
             /\ draft[p].commit = CommitHash(draft[p].payload, draft[p].nonce)
             /\ RevealMessage(draft[p]) \in Msg /\ RevealMessage(draft[p]).actor = p
  <2>1. draft[p] # None
    BY <1>0, <1>2 DEF Local, Busy
  <2>2. /\ draft[p] \in SealedRec /\ draft[p].payload.role = p
        /\ draft[p] = SealedRecord(draft[p].payload, incarnation[p])
    BY <1>0, <2>1 DEF Local, Drafted, Types, TypesOfPeers
  <2>3. draft[p].commit = CommitHash(draft[p].payload, draft[p].nonce)
    BY <2>2 DEF SealedRecord
  <2>4. RevealMessage(draft[p]) \in Msg /\ RevealMessage(draft[p]).actor = p
    BY <2>2, MessageTypes DEF RevealMessage
  <2> QED BY <2>2, <2>3, <2>4
<1>3. ASSUME own[p] # << >>, Intact(p)
      PROVE  /\ Last(own[p]) \in SealedRec /\ Last(own[p]) = own[p][Len(own[p])]
             /\ Len(own[p]) \in Nat \ {0}
             /\ Last(own[p]).payload.role = p
             /\ Last(own[p]).commit = CommitHash(Last(own[p]).payload, Last(own[p]).nonce)
             /\ CommitMessage(Last(own[p])) \in Msg
             /\ CommitMessage(Last(own[p])).actor = p
             /\ RevealMessage(Last(own[p])) \in Msg
             /\ RevealMessage(Last(own[p])).actor = p
  <2>1. /\ Last(own[p]) \in SealedRec /\ Last(own[p]) = own[p][Len(own[p])]
        /\ Len(own[p]) \in Nat \ {0}
    BY <1>3, LastFacts DEF Types, TypesOfPeers
  <2>2. LogOK(p, own[p], their[p]) /\ SealedLog(own[p])
    BY <1>0, <1>3 DEF Local, Kept
  <2>3. Len(own[p]) \in 1 .. Len(own[p])
    BY <2>1
  <2>4. Last(own[p]).payload.role = p
    BY <2>1, <2>2, <2>3 DEF LogOK, Aligned
  <2>5. Last(own[p]).commit = CommitHash(Last(own[p]).payload, Last(own[p]).nonce)
    BY <2>1, <2>2, <2>3 DEF SealedLog
  <2>6. /\ CommitMessage(Last(own[p])) \in Msg
        /\ RevealMessage(Last(own[p])) \in Msg
    BY <2>1, MessageTypes
  <2>7. /\ CommitMessage(Last(own[p])).actor = p
        /\ RevealMessage(Last(own[p])).actor = p
    BY <2>4 DEF CommitMessage, RevealMessage
  <2> QED BY <2>1, <2>4, <2>5, <2>6, <2>7
<1> QED BY <1>1, <1>2, <1>3

\* A peer that resends has a record and is not in a half-turn.
LEMMA ResendingFacts ==
  ASSUME Types, Locals, NEW p \in Role, ResendCommit(p) \/ ResendReveal(p)
  PROVE  own[p] # << >> /\ Intact(p) /\ Live(p) /\ pending' = pending /\ draft[p] = None
<1>1. Local(p)
  BY DEF Locals
<1>2. CASE ResendCommit(p)
  BY <1>1, <1>2 DEF ResendCommit, Waiting, Expecting, AwaitingAudit, Local, Drafted, Intact,
                    Sound, Live
<1>3. CASE ResendReveal(p)
  BY <1>1, <1>3 DEF ResendReveal, Local, Resending, Drafted, Intact, Sound, Live
<1> QED BY <1>2, <1>3

\* What a timed-out send may still deliver is well addressed.
LEMMA UnacknowledgedFacts ==
  ASSUME Types, Locals, NEW p \in Role, NEW m \in Unacknowledged(p)
  PROVE  m \in Msg /\ WellAddressed(p, m)
<1>1. CASE pc[p] = "revealing"
  <2>1. m = RevealMessage(draft[p])
    BY <1>1 DEF Unacknowledged
  <2>2. m \in Msg /\ draft[p].payload.role = p
    BY <1>1, <2>1, SendFacts
  <2> QED BY <2>1, <2>2 DEF WellAddressed, RevealMessage
<1>2. CASE pc[p] # "revealing"
  <2>1. PICK a \in Choice :
          m = CommitMessage(SealedRecord(StepPayload(Step(p), p, a), incarnation[p]))
    BY <1>2 DEF Unacknowledged
  <2> DEFINE r == SealedRecord(StepPayload(Step(p), p, a), incarnation[p])
  <2>2. /\ r \in SealedRec /\ r.payload = StepPayload(Step(p), p, a)
        /\ r.commit = CommitHash(r.payload, r.nonce)
    BY LockstepAssumption, RecordFacts
  <2>3. m = CommitMessage(r)
    BY <2>1
  <2> HIDE DEF r
  <2>4. r.payload.role = p /\ r.commit.payload = r.payload
    BY <2>2 DEF StepPayload, CommitHash
  <2>5. m \in Msg
    BY <2>2, <2>3, MessageTypes
  <2> QED BY <2>3, <2>4, <2>5 DEF WellAddressed, CommitMessage
<1> QED BY <1>1, <1>2

\* A message under way was there before, or was just sent.
LEMMA SentEffect ==
  ASSUME Types, Types', Locals, [Next]_vars, NEW r \in Role, NEW m \in Sent(r)'
  PROVE  m \in Sent(r) \/ Fresh(r, m)
<1>0. \A p \in Role : Rival(p) \in Role /\ Rival(p) # p /\ Rival(Rival(p)) = p
  BY RivalFacts
<1>1. ASSUME NEW p \in Role, SendCommit(p)
      PROVE  m \in Sent(r) \/ Fresh(r, m)
  <2>1. PICK s \in SealedRec : /\ draft'[p] = s /\ SendTurn(p, CommitMessage(s))
                               /\ CommitMessage(s) \in Msg /\ CommitMessage(s).actor = p
    BY <1>1, SendFacts
  <2>2. pending' = pending
    BY <1>1 DEF SendCommit
  <2>3. Sent(p)' \subseteq Sent(p) \cup {CommitMessage(s)} /\ Sent(Rival(p))' \subseteq Sent(Rival(p))
    BY <2>1, <2>2, SendTurnSent
  <2> QED BY <1>1, <2>1, <2>3, RivalFacts DEF Fresh
<1>2. ASSUME NEW p \in Role, SendReveal(p)
      PROVE  m \in Sent(r) \/ Fresh(r, m)
  <2>1. pending' = pending /\ pc[p] = "revealing" /\ SendTurn(p, RevealMessage(draft[p]))
    BY <1>2 DEF SendReveal, memory
  <2>2. RevealMessage(draft[p]) \in Msg /\ RevealMessage(draft[p]).actor = p
    BY <2>1, SendFacts
  <2>3. Sent(p)' \subseteq Sent(p) \cup {RevealMessage(draft[p])}
        /\ Sent(Rival(p))' \subseteq Sent(Rival(p))
    BY <2>1, <2>2, SendTurnSent
  <2> QED BY <1>2, <2>3, RivalFacts DEF Fresh
<1>3. ASSUME NEW p \in Role, ResendCommit(p)
      PROVE  m \in Sent(r) \/ Fresh(r, m)
  <2>1. own[p] # << >> /\ Intact(p) /\ pending' = pending
        /\ SendTurn(p, CommitMessage(Last(own[p])))
    BY <1>3, ResendingFacts DEF ResendCommit
  <2>2. CommitMessage(Last(own[p])) \in Msg /\ CommitMessage(Last(own[p])).actor = p
    BY <2>1, SendFacts
  <2>3. Sent(p)' \subseteq Sent(p) \cup {CommitMessage(Last(own[p]))}
        /\ Sent(Rival(p))' \subseteq Sent(Rival(p))
    BY <2>1, <2>2, SendTurnSent
  <2> QED BY <1>3, <2>3, RivalFacts DEF Fresh
<1>4. ASSUME NEW p \in Role, ResendReveal(p)
      PROVE  m \in Sent(r) \/ Fresh(r, m)
  <2>1. own[p] # << >> /\ Intact(p) /\ pending' = pending
        /\ SendTurn(p, RevealMessage(Last(own[p])))
    BY <1>4, ResendingFacts DEF ResendReveal
  <2>2. RevealMessage(Last(own[p])) \in Msg /\ RevealMessage(Last(own[p])).actor = p
    BY <2>1, SendFacts
  <2>3. Sent(p)' \subseteq Sent(p) \cup {RevealMessage(Last(own[p]))}
        /\ Sent(Rival(p))' \subseteq Sent(Rival(p))
    BY <2>1, <2>2, SendTurnSent
  <2> QED BY <1>4, <2>3, RivalFacts DEF Fresh
<1>5. ASSUME NEW p \in Role, LapseSlow(p)
      PROVE  m \in Sent(r) \/ Fresh(r, m)
  <2>1. pending' = pending /\ turns' = turns
    BY <1>5 DEF LapseSlow, boxes
  <2>2. CASE late' = late
    BY <2>1, <2>2 DEF Sent
  <2>3. CASE late' # late
    <3>1. PICK u \in Unacknowledged(p) : late' = late \cup {u}
      BY <1>5, <2>3 DEF LapseSlow
    <3>2. torn'
      BY <1>5, <2>3 DEF LapseSlow
    <3>3. u.actor = p
      BY UnacknowledgedFacts DEF WellAddressed
    <3>4. m \in Sent(r) \/ (m = u /\ m.actor = r)
      BY <2>1, <3>1 DEF Sent
    <3> QED BY <1>5, <3>1, <3>2, <3>3, <3>4 DEF Fresh
  <2> QED BY <2>2, <2>3
<1>6. ASSUME NEW p \in Role, TakeMessage(p), HasMessage(p), late' = late
      PROVE  m \in Sent(r)
  <2>1. /\ turns'[Rival(p)] = turns[Rival(p)] /\ pending'[Rival(p)] = pending[Rival(p)]
        /\ Range(turns'[p]) \subseteq Range(turns[p])
        /\ pending'[p] \subseteq pending[p]
    BY <1>6, TakeMessageEffect
  <2>2. Rival(r) \in {p, Rival(p)}
    BY RivalFacts
  <2> QED BY <1>6, <2>1, <2>2, SentFrame
<1>7. ASSUME NEW p \in Role, ReceiveEarly(p)
      PROVE  m \in Sent(r)
  <2>1. /\ HasMessage(p) /\ Key(Message(p)) # Expected(p) /\ late' = late
        /\ turns' = [turns EXCEPT ![p] = Tail(@)]
    BY <1>7 DEF ReceiveEarly
  <2>2. Buffered(p) = {}
    BY <2>1, MessageFacts DEF Buffered
  <2>3. turns[p] # << >> /\ Message(p) = Head(turns[p]) /\ turns[p] \in Seq(Msg)
    BY <2>1, <2>2, MessageFacts DEF Types, TypesOfWire
  <2>4. /\ Range(turns'[p]) \subseteq Range(turns[p]) /\ Message(p) \in Range(turns[p])
        /\ turns'[Rival(p)] = turns[Rival(p)]
    <3>1. turns'[p] = Tail(turns[p]) /\ turns'[Rival(p)] = turns[Rival(p)]
      BY <2>1, RivalFacts DEF Types, TypesOfWire
    <3>2. /\ Range(Tail(turns[p])) \subseteq Range(turns[p])
          /\ Head(turns[p]) \in Range(turns[p])
      BY <2>3, RangeFacts
    <3> QED BY <2>3, <3>1, <3>2
  <2>5. /\ pending'[p] \subseteq pending[p] \cup {Message(p)}
        /\ pending'[Rival(p)] = pending[Rival(p)]
    BY <1>7, RivalFacts DEF ReceiveEarly, Types, TypesOfWire
  <2>6. Rival(r) \in {p, Rival(p)}
    BY RivalFacts
  <2> QED BY <2>1, <2>4, <2>5, <2>6 DEF Sent
<1>8. ASSUME NEW p \in Role, Crash(p)
      PROVE  m \in Sent(r)
  <2>1. /\ turns'[Rival(p)] = turns[Rival(p)] /\ pending'[Rival(p)] = pending[Rival(p)]
        /\ turns'[p] = << >> /\ pending'[p] = {} /\ late' = late
    BY <1>8, RivalFacts DEF Crash, Types, TypesOfWire
  <2>2. Range(turns'[p]) = {}
    <3>1. DOMAIN << >> = {}
      OBVIOUS
    <3> QED BY <2>1, <3>1 DEF Range
  <2>3. Rival(r) \in {p, Rival(p)}
    BY RivalFacts
  <2> QED BY <2>1, <2>2, <2>3, SentFrame
<1>9. ASSUME NEW n \in late, DeliverLate(n)
      PROVE  m \in Sent(r)
  <2> DEFINE to == Rival(n.actor)
  <2>1. /\ n.actor \in Role /\ to \in Role /\ Rival(to) = n.actor /\ late' \subseteq late
        /\ turns'[Rival(to)] = turns[Rival(to)]
        /\ Range(turns'[to]) \subseteq Range(turns[to]) \cup {n}
    BY <1>9, DeliverLateEffect
  <2>2. pending' = pending
    BY <1>9 DEF DeliverLate, memory
  <2>3. Rival(r) \in {to, Rival(to)}
    BY <2>1, RivalFacts
  <2>4. CASE Rival(r) = to
    <3>1. n.actor = r
      BY <2>1, <2>4, RivalFacts
    <3> QED BY <2>1, <2>2, <2>4, <3>1 DEF Sent
  <2>5. CASE Rival(r) # to
    BY <2>1, <2>2, <2>3, <2>5 DEF Sent
  <2> QED BY <2>4, <2>5
<1>10. ASSUME UNCHANGED <<turns, pending, late>>
       PROVE  m \in Sent(r)
  BY <1>10 DEF Sent
<1>11. CASE UNCHANGED vars
  BY <1>10, <1>11 DEF vars, memory, boxes
<1>12. CASE Next
  <2>1. ASSUME NEW p \in Role, Program(p)
        PROVE  m \in Sent(r) \/ Fresh(r, m)
    <3>1. CASE SendCommit(p) \/ SendReveal(p) \/ ResendCommit(p) \/ ResendReveal(p)
      BY <1>1, <1>2, <1>3, <1>4, <3>1
    <3>2. CASE ReceiveDuplicate(p) \/ ReceiveConflict(p) \/ ReceiveCommit(p) \/ ReceiveReveal(p)
      BY <1>6, <3>2 DEF ReceiveDuplicate, ReceiveConflict, ReceiveCommit, ReceiveReveal
    <3>3. CASE ReceiveEarly(p)
      BY <1>7, <3>3
    <3>4. CASE ApplyOwn(p) \/ SendFinalAudit(p) \/ ReceiveAudit(p) \/ EmergencyAudit(p)
               \/ OfferResume(p) \/ IgnoreOffer(p) \/ LapseOverdue(p)
      BY <1>10, <3>4 DEF ApplyOwn, SendFinalAudit, ReceiveAudit, EmergencyAudit, OfferResume,
                         IgnoreOffer, LapseOverdue, memory, boxes
    <3> QED BY <2>1, <3>1, <3>2, <3>3, <3>4 DEF Program
  <2>2. ASSUME NEW p \in Role, Restart(p)
        PROVE  m \in Sent(r)
    BY <1>10, <2>2 DEF Restart, boxes
  <2> QED BY <1>5, <1>8, <1>9, <1>12, <2>1, <2>2 DEF Next
<1> QED BY <1>11, <1>12

\* A message just sent is well addressed.
LEMMA FreshAddressed ==
  ASSUME Types, Locals, NEW r \in Role, NEW m, Fresh(r, m)
  PROVE  WellAddressed(r, m)
<1>1. ASSUME NEW s \in SealedRec, s.payload.role = r, s.commit = CommitHash(s.payload, s.nonce),
             m = CommitMessage(s) \/ m = RevealMessage(s)
      PROVE  WellAddressed(r, m)
  <2>1. s.commit.payload = s.payload
    BY <1>1 DEF CommitHash
  <2>2. CASE m = CommitMessage(s)
    BY <1>1, <2>1, <2>2 DEF WellAddressed, CommitMessage
  <2>3. CASE m = RevealMessage(s)
    BY <1>1, <2>3 DEF WellAddressed, RevealMessage
  <2> QED BY <1>1, <2>2, <2>3
<1>2. CASE SendCommit(r) /\ m = CommitMessage(draft'[r])
  <2>1. PICK a \in Choice :
          LET s == SealedRecord(StepPayload(Step(r), r, a), incarnation[r]) IN
          /\ draft'[r] = s /\ s \in SealedRec /\ s.payload = StepPayload(Step(r), r, a)
          /\ s.commit = CommitHash(s.payload, s.nonce)
    BY <1>2, SendFacts
  <2>2. /\ draft'[r] \in SealedRec
        /\ draft'[r].payload = StepPayload(Step(r), r, a)
        /\ draft'[r].commit = CommitHash(draft'[r].payload, draft'[r].nonce)
    BY <2>1
  <2>3. draft'[r].payload.role = r
    BY <2>2 DEF StepPayload
  <2> QED BY <1>1, <1>2, <2>2, <2>3
<1>3. CASE SendReveal(r) /\ m = RevealMessage(draft[r])
  <2>1. pc[r] = "revealing"
    BY <1>3 DEF SendReveal
  <2> QED BY <1>1, <1>3, <2>1, SendFacts
<1>4. CASE \/ ResendCommit(r) /\ m = CommitMessage(Last(own[r]))
           \/ ResendReveal(r) /\ m = RevealMessage(Last(own[r]))
  <2>1. own[r] # << >> /\ Intact(r)
    BY <1>4, ResendingFacts
  <2> QED BY <1>1, <1>4, <2>1, SendFacts
<1>5. CASE LapseSlow(r) /\ m \in Unacknowledged(r)
  BY <1>5, UnacknowledgedFacts
<1> QED BY <1>2, <1>3, <1>4, <1>5 DEF Fresh

\* A step keeps the messages well addressed.
LEMMA AddressedStep ==
  ASSUME Types, Types', Locals, Addressed, [Next]_vars
  PROVE  Addressed'
<1> SUFFICES ASSUME NEW r \in Role, NEW m \in Sent(r)' PROVE WellAddressed(r, m)
  BY DEF Addressed, WellAddressed
<1>1. m \in Sent(r) \/ Fresh(r, m)
  BY SentEffect
<1> QED BY <1>1, FreshAddressed DEF Addressed

\* A step keeps both peers coherent, if no illegal action was accepted.
LEMMA LocalStep ==
  ASSUME Types, Types', Locals, Addressed, [Next]_vars,
         \A p \in Role : ReceiveReveal(p) => torn \/ Accepts(p)
  PROVE  Locals'
<1>1. CASE UNCHANGED vars
  <2>1. \A p \in Role : Untouched(p)
    BY <1>1 DEF vars, memory, boxes, budgets, Untouched, Types, TypesOfWire
  <2>2. torn' = torn
    BY <1>1 DEF vars, budgets
  <2> QED BY <2>1, <2>2, LocalFrame DEF Locals
<1>2. CASE Next
  <2>1. ASSUME NEW p \in Role, Program(p) PROVE Locals'
    BY <2>1, SendCommitLocal, SendRevealLocal, ApplyOwnLocal, ReceiveDuplicateLocal,
       ReceiveConflictLocal, ReceiveEarlyLocal, ReceiveCommitLocal, ReceiveRevealLocal,
       SendFinalAuditLocal, ReceiveAuditLocal, EmergencyAuditLocal, OfferResumeLocal,
       IgnoreOfferLocal, ResendCommitLocal, ResendRevealLocal, LapseLocal
       DEF Program
  <2> QED BY <1>2, <2>1, LapseLocal, CrashLocal, RestartLocal, DeliverLateLocal DEF Next
<1> QED BY <1>1, <1>2

-----------------------------------------------------------------------------
(* GamePhaseMachine *)

\* Where GamePhaseMachine is, by where the loop is.
PhaseFits(p) ==
  /\ pc[p] \in {"revealing", "applying"} => fsm[p] = "COMMITTING"
  /\ pc[p] \in {"loop", "await_reveal", "await_audit", "offering", "down"} =>
       fsm[p] = "WAITING_FOR_OPPONENT"

\* So for both peers; every phase is one of the machine's.
Phases ==
  /\ DOMAIN pc = Role /\ fsm \in [Role -> DOMAIN Transitions]
  /\ \A p \in Role : PhaseFits(p)

\* The chains of transitions the loop asks for, and whether they are all allowed.
MayFollow(p, path) ==
  \A i \in 1 .. Len(path) : path[i] \in Transitions[IF i = 1 THEN fsm[p] ELSE path[i - 1]]

\* No chain of transitions the loop asks for makes the machine raise.
NoIllegalTransition ==
  \A p \in Role :
    /\ MyTurn(p) => MayFollow(p, <<"COMPUTING_MOVE", "COMMITTING">>)
    /\ pc[p] = "applying" =>
         MayFollow(p, <<"AWAITING_REVEAL", "VERIFYING", "WAITING_FOR_OPPONENT">>)

\* The machine ends where the chain does.
LEMMA FollowEffect ==
  ASSUME NEW p \in Role
  PROVE  /\ Follow(p, <<"COMPUTING_MOVE", "COMMITTING">>) =>
              fsm' = [fsm EXCEPT ![p] = "COMMITTING"]
         /\ Follow(p, <<"AWAITING_REVEAL", "VERIFYING", "WAITING_FOR_OPPONENT">>) =>
              fsm' = [fsm EXCEPT ![p] = "WAITING_FOR_OPPONENT"]
<1>1. Last(<<"COMPUTING_MOVE", "COMMITTING">>) = "COMMITTING"
  BY DEF Last
<1>2. Last(<<"AWAITING_REVEAL", "VERIFYING", "WAITING_FOR_OPPONENT">>) = "WAITING_FOR_OPPONENT"
  BY DEF Last
<1> QED
  BY <1>1, <1>2 DEF Follow

\* A failed peer's phase does not matter any more.
LEMMA FailPhase ==
  ASSUME Phases, NEW p \in Role, NEW why, Fail(p, why)
  PROVE  Phases'
<1>1. pc' = [pc EXCEPT ![p] = "failed"] /\ fsm' \in [Role -> DOMAIN Transitions]
      /\ \A r \in Role : r # p => fsm'[r] = fsm[r]
  BY DEF Fail, Abandon, Phases, Transitions
<1> QED
  BY <1>1 DEF Phases, PhaseFits

\* The phases fit initially.
LEMMA PhasesInit == Init => Phases
BY DEF Init, Phases, PhaseFits, Transitions

\* A step that keeps the phase leaves the loop where the phase fits.
LEMMA PhaseKept ==
  ASSUME Phases, fsm' = fsm, NEW p \in Role, NEW where,
         pc' = [pc EXCEPT ![p] = where],
         \/ where \in {"failed", "done"}
         \/ /\ pc[p] \in {"loop", "await_reveal", "await_audit", "offering", "down"}
            /\ where \in {"loop", "await_reveal", "await_audit", "offering", "down"}
         \/ pc[p] = "revealing" /\ where = "applying"
  PROVE  Phases'
BY DEF Phases, PhaseFits

\* A lapsed deadline keeps them so.
LEMMA PhasesExpire ==
  ASSUME Phases, NEW p \in Role, Expire(p)
  PROVE  Phases'
<1>1. CASE MyTurn(p) /\ Follow(p, <<"COMPUTING_MOVE", "COMMITTING">>) /\ Abandon(p, "deadline")
  <2>1. fsm' \in [Role -> DOMAIN Transitions] /\ \A r \in Role : r # p => fsm'[r] = fsm[r]
    BY <1>1, FollowEffect DEF Phases, Transitions
  <2>2. pc' = [pc EXCEPT ![p] = "failed"]
    BY <1>1 DEF Abandon
  <2> QED
    BY <2>1, <2>2 DEF Phases, PhaseFits
<1>2. CASE Fail(p, "deadline")
  BY <1>2, FailPhase
<1>3. CASE pc[p] = "loop" /\ pc' = [pc EXCEPT ![p] = "await_audit"] /\ fsm' = fsm
  BY <1>3, PhaseKept
<1>4. CASE Settle(p, "not received", FALSE) /\ fsm' = fsm
  BY <1>4, PhaseKept DEF Settle
<1>5. CASE TechnicalLossReport(p) /\ fsm' = fsm
  BY <1>5, PhaseKept DEF TechnicalLossReport
<1>6. CASE pc[p] = "offering" /\ pc' = [pc EXCEPT ![p] = "down"] /\ fsm' = fsm
  BY <1>6, PhaseKept
<1> QED
  BY <1>1, <1>2, <1>3, <1>4, <1>5, <1>6 DEF Expire

\* So does every step.
LEMMA PhasesStep == Phases /\ [Next]_vars => Phases'
<1> SUFFICES ASSUME Phases, [Next]_vars PROVE Phases'
  OBVIOUS
<1>1. ASSUME NEW p \in Role, Program(p) PROVE Phases'
  <2>1. CASE SendCommit(p)
    <3>1. fsm' = [fsm EXCEPT ![p] = "COMMITTING"]
      BY <2>1, FollowEffect DEF SendCommit
    <3>2. pc' = [pc EXCEPT ![p] = "revealing"]
      BY <2>1 DEF SendCommit
    <3> QED
      BY <3>1, <3>2 DEF Phases, PhaseFits, Transitions
  <2>2. CASE ApplyOwn(p)
    <3>1. fsm' = [fsm EXCEPT ![p] = "WAITING_FOR_OPPONENT"]
      BY <2>2, FollowEffect DEF ApplyOwn
    <3>2. pc' = [pc EXCEPT ![p] = "loop"]
      BY <2>2 DEF ApplyOwn
    <3> QED
      BY <3>1, <3>2 DEF Phases, PhaseFits, Transitions
  <2>3. CASE SendReveal(p)
    BY <2>3, PhaseKept DEF SendReveal
  <2>4. CASE ReceiveConflict(p)
    BY <2>4, FailPhase DEF ReceiveConflict
  <2>5. CASE ReceiveEarly(p)
    <3>1. Fail(p, "flooded") \/ UNCHANGED <<pc, fsm>>
      BY <2>5 DEF ReceiveEarly
    <3>2. CASE UNCHANGED <<pc, fsm>>
      BY <3>2 DEF Phases, PhaseFits
    <3> QED
      BY <3>1, <3>2, FailPhase
  <2>6. CASE ReceiveCommit(p)
    <3>1. \/ Fail(p, "echoed role")
          \/ pc' = [pc EXCEPT ![p] = "await_reveal"] /\ fsm' = fsm
      BY <2>6 DEF ReceiveCommit
    <3>2. pc[p] \in {"loop", "await_reveal"}
      BY <2>6 DEF ReceiveCommit, Expecting
    <3> QED
      BY <3>1, <3>2, FailPhase, PhaseKept
  <2>7. CASE ReceiveReveal(p)
    <3>1. \/ Fail(p, "illegal action")
          \/ pc' = [pc EXCEPT ![p] = "loop"] /\ fsm' = fsm
      BY <2>7 DEF ReceiveReveal
    <3>2. pc[p] \in {"loop", "await_reveal"}
      BY <2>7 DEF ReceiveReveal, Expecting
    <3> QED
      BY <3>1, <3>2, FailPhase, PhaseKept
  <2>8. CASE SendFinalAudit(p)
    BY <2>8, PhaseKept DEF SendFinalAudit
  <2>9. CASE ReceiveAudit(p)
    BY <2>9, PhaseKept DEF ReceiveAudit, Settle
  <2>10. CASE EmergencyAudit(p)
    BY <2>10, PhaseKept DEF EmergencyAudit, TechnicalLossReport
  <2>11. CASE OfferResume(p)
    BY <2>11, PhaseKept DEF OfferResume
  <2>12. CASE ReceiveDuplicate(p) \/ IgnoreOffer(p) \/ ResendCommit(p) \/ ResendReveal(p)
    <3>1. UNCHANGED <<pc, fsm>>
      BY <2>12 DEF ReceiveDuplicate, IgnoreOffer, ResendCommit, ResendReveal
    <3> QED
      BY <3>1 DEF Phases, PhaseFits
  <2>13. CASE LapseOverdue(p)
    BY <2>13, PhasesExpire DEF LapseOverdue
  <2> QED
    BY <1>1, <2>1, <2>2, <2>3, <2>4, <2>5, <2>6, <2>7, <2>8, <2>9, <2>10, <2>11, <2>12,
       <2>13 DEF Program
<1>2. ASSUME NEW p \in Role, LapseSlow(p) PROVE Phases'
  BY <1>2, PhasesExpire DEF LapseSlow
<1>3. ASSUME NEW p \in Role, Crash(p) PROVE Phases'
  <2>1. pc' = [pc EXCEPT ![p] = "down"] /\ fsm' = [fsm EXCEPT ![p] = "WAITING_FOR_OPPONENT"]
    BY <1>3 DEF Crash
  <2> QED
    BY <2>1 DEF Phases, PhaseFits, Transitions
<1>4. ASSUME NEW p \in Role, Restart(p) PROVE Phases'
  BY <1>4, PhaseKept DEF Restart
<1>5. ASSUME NEW m \in late, DeliverLate(m) PROVE Phases'
  BY <1>5 DEF DeliverLate, Phases, PhaseFits
<1>6. CASE UNCHANGED vars
  BY <1>6 DEF vars, Phases, PhaseFits
<1> QED
  BY <1>1, <1>2, <1>3, <1>4, <1>5, <1>6 DEF Next

\* GamePhaseMachine (domain/state_machine.py) never refuses a transition: the loop is where its
\* phase says, through failures, lapses, crashes and restarts.
THEOREM Machine == Spec => []NoIllegalTransition
<1>1. Phases => NoIllegalTransition
  BY DEF Phases, PhaseFits, NoIllegalTransition, MayFollow, MyTurn, Transitions
<1> QED
  BY <1>1, PhasesInit, PhasesStep, PTL DEF Spec

-----------------------------------------------------------------------------
(* What a peer holds of its rival *)

\* What survives a crash of r: the logs on file, else those in memory.
OwnLog(r) == IF snapshot[r] # None THEN snapshot[r].own ELSE own[r]
TheirLog(r) == IF snapshot[r] # None THEN snapshot[r].their ELSE their[r]
Log(r) == Actions(OwnLog(r), TheirLog(r))

\* r's record i is filed, or its commit is on its way.
Sealed(r, i) ==
  i \in 1 .. Len(OwnLog(r)) \/ (i = Len(OwnLog(r)) + 1 /\ draft[r] # None)

\* r's record i is filed, or its reveal is on its way.
Revealed(r, i) ==
  i \in 1 .. Len(OwnLog(r)) \/ (i = Len(OwnLog(r)) + 1 /\ pc[r] = "applying")

\* That record.
RecordOf(r, i) == IF i <= Len(OwnLog(r)) THEN OwnLog(r)[i] ELSE draft[r]

\* m is one of the two messages of a record r sealed, or revealed.
Genuine(r, m) ==
  \E i \in 1 .. Len(OwnLog(r)) + 1 :
    \/ Sealed(r, i) /\ m = CommitMessage(RecordOf(r, i))
    \/ Revealed(r, i) /\ m = RevealMessage(RecordOf(r, i))

\* So is every message under way.
AllGenuine == \A r \in Role : \A m \in Sent(r) : Genuine(r, m)

\* p's log of the rival is what the rival revealed.
Heard(p) ==
  \A i \in 1 .. Len(TheirLog(p)) :
    /\ Revealed(Rival(p), i)
    /\ TheirLog(p)[i].payload = RecordOf(Rival(p), i).payload
    /\ TheirLog(p)[i].commit = RecordOf(Rival(p), i).commit

\* The commit p holds is the rival's next one.
Locked(p) ==
  pc[p] = "await_reveal" =>
    /\ Sealed(Rival(p), Len(their[p]) + 1)
    /\ locked[p] = RecordOf(Rival(p), Len(their[p]) + 1).commit

\* The reorder buffer holds the next reveal at most, whatever was duplicated.
Buffer(p) ==
  \A m \in pending[p] : Key(m) = <<"reveal", Slot(Rival(p), Len(TheirLog(p)) + 1)>>

\* No report accuses the rival of breaking the protocol.
Blameless(p) ==
  report[p] # None => report[p].error \in {"none", "deadline"}

\* All that a peer holds of its rival is what the rival sealed.
Faithful ==
  AllGenuine /\ \A p \in Role : Heard(p) /\ Locked(p) /\ Buffer(p) /\ Blameless(p)

\* No log is longer than the game, one is as long, and that one is the game.
Furthest ==
  /\ \A p \in Role : Len(Log(p)) <= game.length
  /\ \A p \in Role : Len(Log(p)) = game.length => game.engine = Replay(Log(p))
  /\ \E p \in Role : Len(Log(p)) = game.length

\* The inductive invariant. Its second half is about runs in which no
\* half-turn was cut off; the first half is needed in all of them.
IInv ==
  /\ Types /\ Locals /\ Addressed
  /\ ~torn => Faithful /\ Furthest

-----------------------------------------------------------------------------
(* Two logs that agree *)

\* A game starts with two empty logs.
LEMMA EmptyLog ==
  ASSUME NEW p \in Role
  PROVE  LogOK(p, << >>, << >>) /\ SealedLog(<< >>)
<1>1. << >> \in Seq(SealedRec) /\ << >> \in Seq(SeenRec) /\ Len(<< >>) = 0
  OBVIOUS
<1>2. Aligned(p, << >>, << >>)
  BY <1>1 DEF Aligned, Balanced
<1>3. Len(Actions(<< >>, << >>)) = 0
  <2>1. ASSUME NEW o \in Seq(SealedRec), NEW t \in Seq(SeenRec), Aligned(p, o, t),
               Len(o) = 0, Len(t) = 0
        PROVE  Len(Actions(o, t)) = 0
    <3>1. Len(Actions(o, t)) = Len(o) + Len(t)
      BY <2>1, ActionsFacts
    <3>2. Len(o) + Len(t) = 0
      BY <2>1
    <3> QED BY <3>1, <3>2
  <2> QED BY <1>1, <1>2, <2>1
<1>4. Legal(Actions(<< >>, << >>))
  BY <1>3 DEF Legal
<1> QED BY <1>1, <1>2, <1>4 DEF LogOK, SealedLog

\* What a peer has on disk, or has had no reason to write yet.
LEMMA KeptLogs ==
  ASSUME Types, Locals, ~torn, NEW p \in Role
  PROVE  /\ OwnLog(p) \in Seq(SealedRec) /\ TheirLog(p) \in Seq(SeenRec)
         /\ Len(OwnLog(p)) \in Nat /\ Len(TheirLog(p)) \in Nat
         /\ LogOK(p, OwnLog(p), TheirLog(p)) /\ SealedLog(OwnLog(p))
         /\ pc[p] # "down" => OwnLog(p) = own[p] /\ SameRecords(TheirLog(p), their[p])
         /\ Live(p) => TheirLog(p) = their[p] /\ engine[p] = Replay(Log(p))
<1>1. Local(p) /\ Filed(p) /\ Unfiled(p) /\ Kept(p)
  BY DEF Locals, Local
<1>2. SameRecords(their[p], their[p])
  BY DEF SameRecords
<1>3. Intact(p) <=> pc[p] # "down"
  BY DEF Intact, Sound, Live, Closed
<1>4. /\ own[p] \in Seq(SealedRec) /\ their[p] \in Seq(SeenRec)
      /\ snapshot[p] # None => snapshot[p].own \in Seq(SealedRec) /\ snapshot[p].their \in Seq(SeenRec)
  BY DEF Types, TypesOfPeers, Snap
<1>5. OwnLog(p) \in Seq(SealedRec) /\ TheirLog(p) \in Seq(SeenRec)
  BY <1>4 DEF OwnLog, TheirLog
<1>6. Len(OwnLog(p)) \in Nat /\ Len(TheirLog(p)) \in Nat
  BY <1>5, LenProperties
<1>7. LogOK(p, OwnLog(p), TheirLog(p)) /\ SealedLog(OwnLog(p))
  <2>1. CASE snapshot[p] # None
    BY <1>1, <2>1 DEF Filed, FiledSnapshot, OwnLog, TheirLog
  <2>2. CASE snapshot[p] = None /\ pc[p] # "down"
    BY <1>1, <1>3, <2>2 DEF Kept, OwnLog, TheirLog
  <2>3. CASE snapshot[p] = None /\ pc[p] = "down"
    <3>1. own[p] = << >> /\ their[p] = << >>
      BY <1>1, <2>3 DEF Unfiled
    <3> QED BY <2>3, <3>1, EmptyLog DEF OwnLog, TheirLog
  <2> QED BY <2>1, <2>2, <2>3
<1>8. ASSUME pc[p] # "down"
      PROVE  OwnLog(p) = own[p] /\ SameRecords(TheirLog(p), their[p])
  BY <1>1, <1>2, <1>3, <1>8 DEF Filed, OwnLog, TheirLog
<1>9. ASSUME Live(p)
      PROVE  TheirLog(p) = their[p] /\ engine[p] = Replay(Log(p))
  <2>1. pc[p] # "down" /\ Sound(p)
    BY <1>9 DEF Live, Sound
  <2>2. TheirLog(p) = their[p] /\ OwnLog(p) = own[p]
    BY <1>1, <1>8, <1>9, <2>1 DEF Filed, TheirLog
  <2> QED BY <1>1, <2>1, <2>2 DEF Kept, Log
<1> QED BY <1>5, <1>6, <1>7, <1>8, <1>9

\* A peer mid-send: its draft is the next record of its log.
LEMMA DraftFacts ==
  ASSUME Types, Locals, ~torn, NEW p \in Role, draft[p] # None
  PROVE  /\ pc[p] \in {"revealing", "applying", "failed", "done"}
         /\ draft[p] \in SealedRec /\ draft[p].payload.role = p
         /\ draft[p].commit = CommitHash(draft[p].payload, draft[p].nonce)
         /\ draft[p].nonce = incarnation[p]
         /\ draft[p].payload.step = Slot(p, Len(OwnLog(p)) + 1)
         /\ Slot(p, Len(OwnLog(p)) + 1) = Len(OwnLog(p)) + Len(TheirLog(p)) + 1
<1>1. /\ pc[p] \in {"revealing", "applying", "failed", "done"}
      /\ draft[p] = SealedRecord(draft[p].payload, incarnation[p])
      /\ draft[p].payload.role = p
      /\ draft[p].payload.step = Step(p)
      /\ draft[p].payload.step = Slot(p, Len(own[p]) + 1)
  BY DEF Locals, Local, Drafted
<1>2. OwnLog(p) = own[p] /\ Len(TheirLog(p)) = Len(their[p])
  BY <1>1, KeptLogs DEF SameRecords
<1>3. draft[p] \in SealedRec
  BY DEF Types, TypesOfPeers
<1>4. draft[p].commit = CommitHash(draft[p].payload, draft[p].nonce) /\ draft[p].nonce = incarnation[p]
  BY <1>1 DEF SealedRecord
<1> QED BY <1>1, <1>2, <1>3, <1>4 DEF Step

\* A half-turn being sent has its record drafted.
LEMMA ApplyingDrafts ==
  ASSUME Types, Locals, NEW p \in Role, pc[p] \in {"revealing", "applying"}
  PROVE  draft[p] # None
BY DEF Locals, Local, Busy

\* A sealed record has its place, its role and its step.
LEMMA SealedFacts ==
  ASSUME Types, Locals, ~torn, NEW r \in Role, NEW i, Sealed(r, i) \/ Revealed(r, i)
  PROVE  /\ Sealed(r, i) /\ i \in 1 .. Len(OwnLog(r)) + 1 /\ i \in Nat \ {0}
         /\ RecordOf(r, i) \in SealedRec
         /\ RecordOf(r, i).payload.step = Slot(r, i)
         /\ RecordOf(r, i).payload.role = r
         /\ RecordOf(r, i).commit = CommitHash(RecordOf(r, i).payload, RecordOf(r, i).nonce)
<1>1. /\ OwnLog(r) \in Seq(SealedRec) /\ Len(OwnLog(r)) \in Nat
      /\ LogOK(r, OwnLog(r), TheirLog(r)) /\ SealedLog(OwnLog(r))
  BY KeptLogs
<1>2. CASE i \in 1 .. Len(OwnLog(r))
  <2>1. RecordOf(r, i) = OwnLog(r)[i] /\ OwnLog(r)[i] \in SealedRec
    BY <1>1, <1>2, ElementOfSeq DEF RecordOf
  <2>2. /\ OwnLog(r)[i].payload.step = Slot(r, i) /\ OwnLog(r)[i].payload.role = r
        /\ OwnLog(r)[i].commit = CommitHash(OwnLog(r)[i].payload, OwnLog(r)[i].nonce)
    BY <1>1, <1>2 DEF LogOK, Aligned, SealedLog
  <2>3. i \in 1 .. Len(OwnLog(r)) + 1 /\ i \in Nat \ {0}
    BY <1>1, <1>2
  <2> QED BY <1>2, <2>1, <2>2, <2>3 DEF Sealed
<1>3. CASE i = Len(OwnLog(r)) + 1
  <2>1. ~(i \in 1 .. Len(OwnLog(r))) /\ ~(i <= Len(OwnLog(r))) /\ i \in 1 .. Len(OwnLog(r)) + 1
        /\ i \in Nat \ {0}
    BY <1>1, <1>3
  <2>2. draft[r] # None
    BY <2>1, ApplyingDrafts DEF Sealed, Revealed
  <2>3. RecordOf(r, i) = draft[r]
    BY <2>1 DEF RecordOf
  <2> QED BY <1>3, <2>1, <2>2, <2>3, DraftFacts DEF Sealed
<1> QED BY <1>2, <1>3 DEF Sealed, Revealed

\* Nobody seals a half-turn before the rival's last one is in the log.
LEMMA SealedReach ==
  ASSUME Types, Locals, ~torn, NEW r \in Role, NEW i, Sealed(r, i)
  PROVE  i <= Len(TheirLog(r)) + (IF r = "police" THEN 1 ELSE 0)
<1>1. /\ Len(OwnLog(r)) \in Nat /\ Len(TheirLog(r)) \in Nat
      /\ Balanced(r, Len(OwnLog(r)), Len(TheirLog(r)))
  BY KeptLogs DEF LogOK, Aligned
<1>2. CASE i \in 1 .. Len(OwnLog(r))
  BY <1>1, <1>2 DEF Balanced
<1>3. CASE i = Len(OwnLog(r)) + 1 /\ draft[r] # None
  <2>1. Slot(r, Len(OwnLog(r)) + 1) = Len(OwnLog(r)) + Len(TheirLog(r)) + 1
    BY <1>3, DraftFacts
  <2> QED BY <1>1, <1>3, <2>1 DEF Slot
<1> QED BY <1>2, <1>3 DEF Sealed

\* p has heard no more than its rival revealed.
LEMMA HeardLength ==
  ASSUME Types, Locals, ~torn, NEW p \in Role, Heard(p)
  PROVE  Len(TheirLog(p)) <= Len(OwnLog(Rival(p))) + (IF pc[Rival(p)] = "applying" THEN 1 ELSE 0)
<1>1. Len(TheirLog(p)) \in Nat /\ Len(OwnLog(Rival(p))) \in Nat
  BY KeptLogs, RivalFacts
<1>2. CASE Len(TheirLog(p)) = 0
  BY <1>1, <1>2
<1>3. CASE Len(TheirLog(p)) # 0
  <2>1. Revealed(Rival(p), Len(TheirLog(p)))
    BY <1>1, <1>3 DEF Heard
  <2> QED BY <1>1, <2>1 DEF Revealed
<1> QED BY <1>2, <1>3

\* A peer that waits is behind by at most the half-turn it waits for.
LEMMA Reach ==
  ASSUME Types, Locals, ~torn, NEW p \in Role, Expecting(p), Heard(Rival(p)),
         NEW i, Sealed(Rival(p), i)
  PROVE  i <= Len(their[p]) + 1 /\ TheirLog(p) = their[p]
<1> DEFINE q == Rival(p)
           k == Len(their[p])
           m == Len(own[p])
           n == Len(TheirLog(q))
<1>1. /\ q \in Role /\ Rival(q) = p
  BY RivalFacts
<1>2. /\ Live(p) /\ Step(p) = Slot(q, k + 1) /\ pc[p] \in {"loop", "await_reveal"}
  BY ExpectingFacts DEF Locals
<1>3. /\ OwnLog(p) = own[p] /\ TheirLog(p) = their[p] /\ k \in Nat /\ m \in Nat
      /\ Step(p) = m + k + 1
  BY <1>2, KeptLogs, StepFacts DEF Live
<1>4. n <= m /\ n \in Nat
  BY <1>1, <1>2, <1>3, HeardLength, KeptLogs
<1>5. i <= n + (IF q = "police" THEN 1 ELSE 0) /\ i \in Nat
  BY <1>1, SealedReach, SealedFacts
<1> HIDE DEF q, k, m, n
<1>6. Slot(q, k + 1) = m + k + 1
  BY <1>2, <1>3
<1>7. i <= k + 1
  BY <1>3, <1>4, <1>5, <1>6 DEF Slot
<1> QED BY <1>3, <1>7 DEF k

\* A heard record is the rival's own, when that is filed.
LEMMA HeardOwn ==
  ASSUME Types, Locals, ~torn, NEW p \in Role, Heard(p),
         NEW i \in 1 .. Len(TheirLog(p)), i <= Len(OwnLog(Rival(p)))
  PROVE  TheirLog(p)[i].payload = OwnLog(Rival(p))[i].payload
BY DEF Heard, RecordOf

\* Where both peers have a half-turn, they have the same one.
LEMMA LogsAgree ==
  ASSUME Types, Locals, ~torn, NEW p \in Role, Heard(p), Heard(Rival(p)),
         NEW s \in Nat \ {0}, s <= Len(Log(p)), s <= Len(Log(Rival(p)))
  PROVE  Log(p)[s] = Log(Rival(p))[s]
<1> DEFINE q == Rival(p)
           A == Log(p)
           B == Log(q)
           oa == OwnLog(p)
           ta == TheirLog(p)
           ob == OwnLog(q)
           tb == TheirLog(q)
<1>1. q \in Role /\ Rival(q) = p
  BY RivalFacts
<1>2. /\ oa \in Seq(SealedRec) /\ ta \in Seq(SeenRec) /\ LogOK(p, oa, ta)
      /\ Len(oa) \in Nat /\ Len(ta) \in Nat /\ Aligned(p, oa, ta)
  BY KeptLogs DEF LogOK
<1>3. /\ ob \in Seq(SealedRec) /\ tb \in Seq(SeenRec) /\ LogOK(q, ob, tb)
      /\ Len(ob) \in Nat /\ Len(tb) \in Nat /\ Aligned(q, ob, tb)
  BY <1>1, KeptLogs DEF LogOK
<1>4. /\ Len(A) = Len(oa) + Len(ta)
      /\ \A i \in 1 .. Len(oa) : A[Slot(p, i)] = oa[i].payload
      /\ \A i \in 1 .. Len(ta) : A[Slot(q, i)] = ta[i].payload
  BY <1>2, ActionsFacts DEF Log
<1>5. /\ Len(B) = Len(ob) + Len(tb)
      /\ \A i \in 1 .. Len(ob) : B[Slot(q, i)] = ob[i].payload
      /\ \A i \in 1 .. Len(tb) : B[Slot(p, i)] = tb[i].payload
  BY <1>1, <1>3, ActionsFacts DEF Log
<1>6. PICK i \in Nat \ {0} : s = Slot(p, i) \/ s = Slot(q, i)
  BY SlotOwner
<1>7. CASE s = Slot(p, i)
  <2>1. i <= Len(oa)
    BY <1>2, <1>4, <1>7, SlotRange DEF Aligned
  <2>2. i <= Len(tb)
    BY <1>1, <1>3, <1>5, <1>7, SlotRange DEF Aligned
  <2>3. tb[i].payload = oa[i].payload
    BY <1>1, <1>2, <1>3, <2>1, <2>2, HeardOwn
  <2> QED BY <1>2, <1>3, <1>4, <1>5, <1>7, <2>1, <2>2, <2>3
<1>8. CASE s = Slot(q, i)
  <2>1. i <= Len(ta)
    BY <1>2, <1>4, <1>8, SlotRange DEF Aligned
  <2>2. i <= Len(ob)
    BY <1>1, <1>3, <1>5, <1>8, SlotRange DEF Aligned
  <2>3. ta[i].payload = ob[i].payload
    BY <1>1, <1>2, <1>3, <2>1, <2>2, HeardOwn
  <2> QED BY <1>2, <1>3, <1>4, <1>5, <1>8, <2>1, <2>2, <2>3
<1> QED BY <1>6, <1>7, <1>8

\* The surviving logs of a peer are one legal game.
LEMMA LogsFacts ==
  ASSUME Types, Locals, ~torn, NEW p \in Role
  PROVE  /\ Log(p) \in Seq(Payload) /\ Len(Log(p)) = Len(OwnLog(p)) + Len(TheirLog(p))
         /\ Len(Log(p)) \in Nat /\ Legal(Log(p)) /\ Replay(Log(p)) \in EngineType
         /\ \A i \in 1 .. Len(OwnLog(p)) : Log(p)[Slot(p, i)] = OwnLog(p)[i].payload
<1>1. /\ OwnLog(p) \in Seq(SealedRec) /\ TheirLog(p) \in Seq(SeenRec)
      /\ Len(OwnLog(p)) \in Nat /\ Len(TheirLog(p)) \in Nat
      /\ LogOK(p, OwnLog(p), TheirLog(p))
  BY KeptLogs
<1> QED BY <1>1, LogFacts, ActionsFacts DEF Log, LogOK

\* The shorter log is the beginning of the longer one.
LEMMA LogPrefix ==
  ASSUME Types, Locals, ~torn, NEW p \in Role, Heard(p), Heard(Rival(p)),
         Len(Log(p)) <= Len(Log(Rival(p)))
  PROVE  Log(p) = SubSeq(Log(Rival(p)), 1, Len(Log(p)))
<1> DEFINE A == Log(p)
           B == Log(Rival(p))
           C == SubSeq(B, 1, Len(A))
<1>1. A \in Seq(Payload) /\ B \in Seq(Payload) /\ Len(A) \in Nat /\ Len(B) \in Nat
  BY LogsFacts, RivalFacts
<1>2. \A s \in 1 .. Len(A) : A[s] = B[s]
  BY <1>1, LogsAgree
<1> HIDE DEF A, B
<1>3. C \in Seq(Payload) /\ Len(C) = Len(A) /\ \A s \in 1 .. Len(A) : C[s] = B[s]
  <2>1. Len(A) \in 0 .. Len(B)
    BY <1>1 DEF A, B
  <2> QED BY <1>1, <2>1, PartFacts
<1> HIDE DEF C
<1>4. A = C
  BY <1>1, <1>2, <1>3, SeqEqual
<1> QED BY <1>4 DEF A, B, C

-----------------------------------------------------------------------------
(* A message that is received *)

\* A genuine message has the step of its record.
LEMMA GenuineKey ==
  ASSUME Types, Locals, ~torn, NEW r \in Role, NEW m, Genuine(r, m)
  PROVE  /\ \E j \in Nat \ {0} :
              /\ Sealed(r, j) /\ m.kind \in Kinds /\ m.turn = Slot(r, j)
              /\ m.kind = "commit" => m = CommitMessage(RecordOf(r, j))
              /\ m.kind = "reveal" => Revealed(r, j) /\ m = RevealMessage(RecordOf(r, j))
         /\ \A j \in Nat \ {0} : m.turn = Slot(r, j) =>
              /\ Sealed(r, j)
              /\ m.kind = "commit" => m = CommitMessage(RecordOf(r, j))
              /\ m.kind = "reveal" => Revealed(r, j) /\ m = RevealMessage(RecordOf(r, j))
<1>1. PICK i \in 1 .. Len(OwnLog(r)) + 1 :
        \/ Sealed(r, i) /\ m = CommitMessage(RecordOf(r, i))
        \/ Revealed(r, i) /\ m = RevealMessage(RecordOf(r, i))
  BY DEF Genuine
<1>2. Sealed(r, i) /\ i \in Nat \ {0} /\ RecordOf(r, i).payload.step = Slot(r, i)
  BY <1>1, SealedFacts
<1>3. /\ m.kind \in Kinds /\ m.turn = Slot(r, i)
      /\ m.kind = "commit" => m = CommitMessage(RecordOf(r, i))
      /\ m.kind = "reveal" => Revealed(r, i) /\ m = RevealMessage(RecordOf(r, i))
  <2>1. CASE m = CommitMessage(RecordOf(r, i))
    BY <1>2, <2>1 DEF CommitMessage, Kinds
  <2>2. CASE m = RevealMessage(RecordOf(r, i)) /\ Revealed(r, i)
    BY <1>2, <2>2 DEF RevealMessage, Kinds
  <2> QED BY <1>1, <2>1, <2>2
<1>4. \A j \in Nat \ {0} : m.turn = Slot(r, j) => i = j
  BY <1>2, <1>3, SlotFacts
<1> QED BY <1>2, <1>3, <1>4

\* What a peer takes is genuine.
LEMMA MessageGenuine ==
  ASSUME Types, AllGenuine, NEW p \in Role, HasMessage(p)
  PROVE  Genuine(Rival(p), Message(p)) /\ Message(p) \in Msg
BY MessageSent, RivalFacts DEF AllGenuine

\* A peer that waits: where it is, and what the rival can have sent it.
LEMMA WaitingFacts ==
  ASSUME Types, Locals, ~torn, NEW p \in Role, Expecting(p)
  PROVE  /\ Len(their[p]) + 1 \in Nat \ {0} /\ TheirLog(p) = their[p] /\ OwnLog(p) = own[p]
         /\ Step(p) = Slot(Rival(p), Len(their[p]) + 1)
         /\ Step(p) = Len(Log(p)) + 1 /\ Live(p)
         /\ pc[p] \in {"loop", "await_reveal"}
<1>1. Live(p) /\ Step(p) = Slot(Rival(p), Len(their[p]) + 1) /\ pc[p] \in {"loop", "await_reveal"}
  BY ExpectingFacts DEF Locals
<1>2. /\ TheirLog(p) = their[p] /\ OwnLog(p) = own[p] /\ Len(their[p]) \in Nat
      /\ Step(p) = Len(own[p]) + Len(their[p]) + 1
  BY <1>1, KeptLogs, StepFacts DEF Live
<1>3. Len(Log(p)) = Len(own[p]) + Len(their[p])
  BY <1>2, LogsFacts
<1>4. Len(their[p]) + 1 \in Nat \ {0} /\ Step(p) = Len(Log(p)) + 1
  BY <1>2, <1>3
<1> QED BY <1>1, <1>2, <1>4

\* The rival's next revealed action is legal on p's replica.
LEMMA LegalNext ==
  ASSUME Types, Locals, ~torn, NEW p \in Role, Live(p), Heard(p), Heard(Rival(p)),
         NEW i, Revealed(Rival(p), i), Slot(Rival(p), i) = Len(Log(p)) + 1
  PROVE  ActionLegal(engine[p], Rival(p), RecordOf(Rival(p), i).payload.action)
<1> DEFINE q == Rival(p)
           A == Log(p)
           B == Log(q)
           s == Slot(q, i)
<1>1. /\ q \in Role /\ Rival(q) = p
  BY RivalFacts
<1>2. /\ engine[p] = Replay(A) /\ Len(A) \in Nat /\ s = Len(A) + 1
  BY KeptLogs, LogsFacts
<1>3. /\ B \in Seq(Payload) /\ Len(B) \in Nat /\ Legal(B)
      /\ Len(B) = Len(OwnLog(q)) + Len(TheirLog(q))
      /\ Len(OwnLog(q)) \in Nat /\ Len(TheirLog(q)) \in Nat
      /\ \A j \in 1 .. Len(OwnLog(q)) : B[Slot(q, j)] = OwnLog(q)[j].payload
      /\ Balanced(q, Len(OwnLog(q)), Len(TheirLog(q)))
  BY <1>1, KeptLogs, LogsFacts DEF LogOK, Aligned
<1>4. CASE i \in 1 .. Len(OwnLog(q))
  <2>1. RecordOf(q, i) = OwnLog(q)[i] /\ B[s] = OwnLog(q)[i].payload /\ i \in Nat \ {0}
        /\ i <= Len(OwnLog(q))
    BY <1>3, <1>4 DEF RecordOf
  <2>2. s <= Len(B)
    BY <1>1, <1>3, <2>1, SlotRange
  <2>3. RecordOf(q, i).payload.role = q
    BY <1>1, SealedFacts
  <2>4. A = SubSeq(B, 1, Len(A))
    BY <1>2, <1>3, <2>2, LogPrefix
  <2> HIDE DEF A, B, s
  <2>5. s \in 1 .. Len(B) /\ s - 1 = Len(A)
    BY <1>2, <1>3, <2>2
  <2>6. ActionLegal(Replay(SubSeq(B, 1, s - 1)), B[s].role, B[s].action)
    BY <1>3, <2>5 DEF Legal
  <2>7. SubSeq(B, 1, s - 1) = A
    BY <2>4, <2>5
  <2> QED BY <1>2, <2>1, <2>3, <2>6, <2>7
<1>5. CASE i = Len(OwnLog(q)) + 1 /\ pc[q] = "applying"
  <2>1. draft[q] # None
    BY <1>1, <1>5, ApplyingDrafts
  <2>2. RecordOf(q, i) = draft[q]
    BY <1>3, <1>5 DEF RecordOf
  <2>3. s = Len(OwnLog(q)) + Len(TheirLog(q)) + 1
    BY <1>1, <1>5, <2>1, DraftFacts
  <2>4. Len(A) = Len(B)
    BY <1>2, <1>3, <2>3
  <2>5. A = SubSeq(B, 1, Len(B))
    BY <1>3, <2>4, LogPrefix
  <2>6. A = B
    BY <1>3, <2>5, PartEnds
  <2>7. Live(q) /\ engine[q] = Replay(B)
    BY <1>1, <1>5, KeptLogs DEF Live
  <2>8. ActionLegal(engine[q], q, draft[q].payload.action)
    BY <1>1, <1>5 DEF Locals, Local, Busy
  <2> QED BY <1>2, <2>2, <2>6, <2>7, <2>8
<1> QED BY <1>4, <1>5 DEF Revealed

\* The commit p locks is the rival's next one.
LEMMA CommitArrives ==
  ASSUME Types, Locals, ~torn, AllGenuine, NEW p \in Role, ReceiveCommit(p)
  PROVE  /\ Sealed(Rival(p), Len(their[p]) + 1) /\ pc[p] = "loop"
         /\ Message(p).commit = RecordOf(Rival(p), Len(their[p]) + 1).commit
<1>1. /\ Expecting(p) /\ HasMessage(p) /\ Key(Message(p)) = Expected(p)
      /\ Message(p).kind = "commit"
  BY DEF ReceiveCommit
<1>2. Message(p).turn = Step(p) /\ pc[p] = "loop"
  <2>1. /\ Key(Message(p))[1] = "commit" /\ Key(Message(p))[2] = Message(p).turn
        /\ Expected(p)[1] = IF pc[p] = "loop" THEN "commit" ELSE "reveal"
        /\ Expected(p)[2] = Step(p)
    BY <1>1 DEF Key, Expected
  <2> QED BY <1>1, <2>1
<1>3. /\ Genuine(Rival(p), Message(p)) /\ Len(their[p]) + 1 \in Nat \ {0}
      /\ Step(p) = Slot(Rival(p), Len(their[p]) + 1)
  BY <1>1, MessageGenuine, WaitingFacts
<1>4. /\ Sealed(Rival(p), Len(their[p]) + 1)
      /\ Message(p) = CommitMessage(RecordOf(Rival(p), Len(their[p]) + 1))
  BY <1>1, <1>2, <1>3, GenuineKey, RivalFacts
<1> QED BY <1>2, <1>4 DEF CommitMessage

\* The reveal p applies belongs to the commit it locked.
LEMMA RevealArrives ==
  ASSUME Types, Locals, ~torn, AllGenuine, NEW p \in Role, ReceiveReveal(p),
         Heard(p), Heard(Rival(p))
  PROVE  /\ Revealed(Rival(p), Len(their[p]) + 1) /\ pc[p] = "await_reveal"
         /\ Message(p).payload = RecordOf(Rival(p), Len(their[p]) + 1).payload
         /\ Accepts(p) /\ TheirLog(p) = their[p]
<1>1. /\ Expecting(p) /\ HasMessage(p) /\ Key(Message(p)) = Expected(p)
      /\ Message(p).kind = "reveal"
  BY DEF ReceiveReveal
<1>2. Message(p).turn = Step(p) /\ pc[p] # "loop"
  <2>1. /\ Key(Message(p))[1] = "reveal" /\ Key(Message(p))[2] = Message(p).turn
        /\ Expected(p)[1] = IF pc[p] = "loop" THEN "commit" ELSE "reveal"
        /\ Expected(p)[2] = Step(p)
    BY <1>1 DEF Key, Expected
  <2> QED BY <1>1, <2>1
<1>3. /\ Genuine(Rival(p), Message(p)) /\ Len(their[p]) + 1 \in Nat \ {0}
      /\ Step(p) = Slot(Rival(p), Len(their[p]) + 1) /\ Step(p) = Len(Log(p)) + 1
      /\ Live(p) /\ TheirLog(p) = their[p] /\ pc[p] \in {"loop", "await_reveal"}
  BY <1>1, MessageGenuine, WaitingFacts
<1>4. /\ Revealed(Rival(p), Len(their[p]) + 1)
      /\ Message(p) = RevealMessage(RecordOf(Rival(p), Len(their[p]) + 1))
  BY <1>1, <1>2, <1>3, GenuineKey, RivalFacts
<1>5. Message(p).payload = RecordOf(Rival(p), Len(their[p]) + 1).payload
  BY <1>4 DEF RevealMessage
<1>6. RecordOf(Rival(p), Len(their[p]) + 1).payload.role = Rival(p) /\ Rival(p) # p
  BY <1>4, SealedFacts, RivalFacts
<1>7. ActionLegal(engine[p], Rival(p), RecordOf(Rival(p), Len(their[p]) + 1).payload.action)
  BY <1>3, <1>4, LegalNext
<1>8. Accepts(p)
  BY <1>5, <1>6, <1>7 DEF Accepts
<1> QED BY <1>2, <1>3, <1>4, <1>5, <1>8

\* The keys of a heard half-turn.
LEMMA KeysFacts ==
  ASSUME NEW r \in Role, NEW n \in Nat, NEW j \in 1 .. n
  PROVE  <<"commit", Slot(r, j)>> \in Keys(r, n) /\ <<"reveal", Slot(r, j)>> \in Keys(r, n)
BY DEF Keys, Kinds

\* A copy of an old commit is that commit.
LEMMA NoConflict ==
  ASSUME Types, Locals, ~torn, AllGenuine, NEW p \in Role, Heard(p), Expecting(p), HasMessage(p)
  PROVE  ~Conflicting(p, Message(p))
<1> DEFINE m == Message(p)
           q == Rival(p)
<1>1. Genuine(q, m) /\ TheirLog(p) = their[p] /\ q \in Role /\ Len(their[p]) \in Nat
  BY MessageGenuine, WaitingFacts, RivalFacts, StepFacts
<1>2. LogOK(p, own[p], their[p])
  BY WaitingFacts, KeptLogs
<1> HIDE DEF m, q
<1> SUFFICES ASSUME m.kind = "commit", NEW i \in 1 .. Len(their[p]),
                    their[p][i].payload.step = m.turn
             PROVE  their[p][i].commit = m.commit
  BY DEF Conflicting, m
<1>3. m.turn = Slot(q, i) /\ i \in Nat \ {0}
  BY <1>1, <1>2 DEF LogOK, Aligned, q
<1>4. m = CommitMessage(RecordOf(q, i))
  BY <1>1, <1>3, GenuineKey
<1>5. their[p][i].commit = RecordOf(q, i).commit
  BY <1>1 DEF Heard, q
<1> QED BY <1>4, <1>5 DEF CommitMessage

\* Only the reveal that belongs to the commit still under way comes early.
LEMMA EarlyReveal ==
  ASSUME Types, Locals, ~torn, AllGenuine, NEW p \in Role, Heard(Rival(p)), Expecting(p),
         HasMessage(p), Key(Message(p)) \notin consumed[p] \cup {Expected(p)}
  PROVE  /\ Key(Message(p)) = <<"reveal", Slot(Rival(p), Len(their[p]) + 1)>>
         /\ pc[p] = "loop"
<1> DEFINE m == Message(p)
           q == Rival(p)
           k == Len(their[p])
<1>1. /\ Genuine(q, m) /\ q \in Role /\ k \in Nat /\ Step(p) = Slot(q, k + 1)
      /\ pc[p] \in {"loop", "await_reveal"}
  BY MessageGenuine, WaitingFacts, RivalFacts, StepFacts
<1>2. consumed[p] = Keys(q, k) \cup
                     (IF pc[p] = "await_reveal" THEN {<<"commit", Step(p)>>} ELSE {})
  BY ExpectingFacts DEF Locals
<1>3. PICK j \in Nat \ {0} : Sealed(q, j) /\ m.kind \in Kinds /\ m.turn = Slot(q, j)
  BY <1>1, GenuineKey
<1>4. j <= k + 1
  BY <1>3, Reach
<1>5. Key(m) = <<m.kind, Slot(q, j)>>
  BY <1>3 DEF Key
<1>6. Expected(p) = <<IF pc[p] = "loop" THEN "commit" ELSE "reveal", Slot(q, k + 1)>>
  BY <1>1 DEF Expected
<1>7. Key(m) \notin consumed[p] /\ Key(m) # Expected(p)
  OBVIOUS
<1> HIDE DEF m, q, k
<1>8. j = k + 1
  <2> SUFFICES ASSUME j # k + 1 PROVE FALSE
    OBVIOUS
  <2>1. j \in 1 .. k
    BY <1>1, <1>3, <1>4
  <2>2. Key(m) \in Keys(q, k)
    <3>1. <<"commit", Slot(q, j)>> \in Keys(q, k) /\ <<"reveal", Slot(q, j)>> \in Keys(q, k)
      BY <1>1, <2>1, KeysFacts
    <3>2. m.kind = "commit" \/ m.kind = "reveal"
      BY <1>3 DEF Kinds
    <3> QED BY <1>5, <3>1, <3>2
  <2> QED BY <1>2, <1>7, <2>2
<1>9. CASE pc[p] = "loop"
  <2>1. m.kind = "reveal"
    BY <1>3, <1>5, <1>6, <1>7, <1>8, <1>9 DEF Kinds
  <2> QED BY <1>5, <1>8, <1>9, <2>1 DEF m, q, k
<1>10. CASE pc[p] = "await_reveal"
  <2>1. m.kind = "reveal" \/ m.kind = "commit"
    BY <1>3 DEF Kinds
  <2>2. m.kind = "commit" => Key(m) \in consumed[p]
    BY <1>1, <1>2, <1>5, <1>8, <1>10
  <2>3. m.kind = "reveal" => Key(m) = Expected(p)
    BY <1>5, <1>6, <1>8, <1>10
  <2> QED BY <1>7, <2>1, <2>2, <2>3
<1> QED BY <1>1, <1>9, <1>10

\* The reorder buffer never holds more than that one reveal.
LEMMA NoFlood ==
  ASSUME Types, Locals, ~torn, AllGenuine, NEW p \in Role, Buffer(p)
  PROVE  ~(Cardinality(pending[p]) >= PendingCap)
<1> DEFINE q == Rival(p)
           i == Len(TheirLog(p)) + 1
           v == RevealMessage(RecordOf(q, i))
<1>1. q \in Role /\ i \in Nat \ {0} /\ Rival(q) = p
  BY RivalFacts, KeptLogs
<1>2. pending[p] \subseteq {v}
  <2> SUFFICES ASSUME NEW m \in pending[p] PROVE m = v
    OBVIOUS
  <2>1. Genuine(q, m)
    BY <1>1 DEF AllGenuine, Sent
  <2>2. Key(m) = <<"reveal", Slot(q, i)>>
    BY DEF Buffer
  <2>3. m.kind = "reveal" /\ m.turn = Slot(q, i)
    BY <2>2 DEF Key
  <2> HIDE DEF q, i
  <2> QED BY <1>1, <2>1, <2>3, GenuineKey
<1> HIDE DEF v
<1>3. IsFiniteSet({v}) /\ Cardinality({v}) = 1
  BY FS_Singleton
<1>4. Cardinality(pending[p]) <= 1 /\ Cardinality(pending[p]) \in Nat
  <2>1. IsFiniteSet(pending[p]) /\ Cardinality(pending[p]) <= Cardinality({v})
    BY <1>2, <1>3, FS_Subset
  <2> QED BY <1>3, <2>1, FS_CardinalityType
<1> QED BY <1>4, LockstepAssumption

-----------------------------------------------------------------------------
(* What a step does to a peer: Quiet, Plays, Listens, Locks or Keeps *)

\* A step that leaves a peer as it is, but for its inboxes.
Idle(r) ==
  /\ pc'[r] = pc[r] /\ draft'[r] = draft[r] /\ own'[r] = own[r] /\ their'[r] = their[r]
  /\ snapshot'[r] = snapshot[r] /\ report'[r] = report[r] /\ locked'[r] = locked[r]
  /\ pending'[r] \subseteq pending[r]

\* r's surviving logs stay as they are, and so does what it is sending.
Steady(r) ==
  /\ OwnLog(r)' = OwnLog(r) /\ SameRecords(TheirLog(r)', TheirLog(r))
  /\ draft[r] # None => draft'[r] = draft[r]
  /\ pc[r] = "applying" => pc'[r] = "applying"

\* r learns nothing and plays nothing.
Quiet(r) ==
  /\ Steady(r)
  /\ pc'[r] = "await_reveal" =>
       pc[r] = "await_reveal" /\ locked'[r] = locked[r] /\ their'[r] = their[r]
  /\ pending'[r] \subseteq pending[r]
  /\ Blameless(r) => Blameless(r)'

\* The half-turn a peer files: its own, or the rival's.
Plays(r) ==
  /\ ApplyOwn(r) /\ pc[r] = "applying" /\ pc'[r] = "loop"
  /\ OwnLog(r)' = Append(OwnLog(r), draft[r]) /\ TheirLog(r)' = TheirLog(r)

\* r files its rival's half-turn.
Listens(r) ==
  /\ ReceiveReveal(r) /\ pc[r] = "await_reveal" /\ pc'[r] = "loop"
  /\ OwnLog(r)' = OwnLog(r)
  /\ TheirLog(r)' = Append(TheirLog(r), [payload |-> Message(r).payload, commit |-> locked[r]])
  /\ draft'[r] = draft[r]

\* An idle peer is quiet.
LEMMA IdleQuiet ==
  ASSUME NEW r \in Role, Idle(r)
  PROVE  Quiet(r)
<1>1. OwnLog(r)' = OwnLog(r) /\ TheirLog(r)' = TheirLog(r)
  BY DEF Idle, OwnLog, TheirLog
<1>2. SameRecords(TheirLog(r), TheirLog(r))
  BY DEF SameRecords
<1>3. Steady(r)
  BY <1>1, <1>2 DEF Idle, Steady
<1>4. Blameless(r) => Blameless(r)'
  BY DEF Idle, Blameless
<1> QED BY <1>3, <1>4 DEF Idle, Quiet

\* A step is a step of one peer.
LEMMA RivalIdle ==
  ASSUME Types, NEW p \in Role, NEW r \in Role, r # p,
         Program(p) \/ LapseSlow(p) \/ Crash(p) \/ Restart(p)
  PROVE  Idle(r)
<1>1. CASE SendCommit(p) \/ SendReveal(p)
  BY <1>1 DEF SendCommit, SendReveal, memory, Idle, Types, TypesOfPeers
<1>2. CASE ApplyOwn(p)
  BY <1>2 DEF ApplyOwn, Checkpoint, Idle, Types, TypesOfPeers
<1>3. CASE ReceiveDuplicate(p) \/ ReceiveConflict(p) \/ ReceiveCommit(p) \/ ReceiveReveal(p)
  <2>1. pending'[r] \subseteq pending[r]
    <3>1. pending'[Rival(p)] = pending[Rival(p)] /\ r = Rival(p)
      BY <1>3, RivalFacts, TakeMessageEffect
         DEF ReceiveDuplicate, ReceiveConflict, ReceiveCommit, ReceiveReveal
    <3> QED BY <3>1
  <2>2. CASE ReceiveDuplicate(p)
    BY <2>1, <2>2 DEF ReceiveDuplicate, Idle
  <2>3. CASE ReceiveConflict(p)
    BY <2>1, <2>3 DEF ReceiveConflict, Fail, Abandon, Idle, Types, TypesOfPeers
  <2>4. CASE ReceiveCommit(p)
    BY <2>1, <2>4 DEF ReceiveCommit, Fail, Abandon, Idle, Types, TypesOfPeers
  <2>5. CASE ReceiveReveal(p)
    BY <2>1, <2>5 DEF ReceiveReveal, Checkpoint, Fail, Abandon, Idle, Types, TypesOfPeers
  <2> QED BY <1>3, <2>2, <2>3, <2>4, <2>5
<1>4. CASE ReceiveEarly(p)
  BY <1>4 DEF ReceiveEarly, Fail, Abandon, Idle, Types, TypesOfPeers, TypesOfWire
<1>5. CASE SendFinalAudit(p) \/ OfferResume(p) \/ IgnoreOffer(p) \/ ResendCommit(p) \/ ResendReveal(p)
  BY <1>5 DEF SendFinalAudit, OfferResume, IgnoreOffer, ResendCommit, ResendReveal, memory,
              Idle, Types, TypesOfPeers
<1>6. CASE ReceiveAudit(p)
  BY <1>6 DEF ReceiveAudit, Settle, Idle, Types, TypesOfPeers
<1>7. CASE EmergencyAudit(p)
  BY <1>7 DEF EmergencyAudit, TechnicalLossReport, memory, Idle, Types, TypesOfPeers
<1>8. CASE LapseOverdue(p) \/ LapseSlow(p)
  <2>1. Expire(p) /\ UNCHANGED <<draft, own, their, locked, pending>>
    BY <1>8 DEF LapseOverdue, LapseSlow
  <2>2. /\ pc'[r] = pc[r] /\ report'[r] = report[r] /\ snapshot'[r] = snapshot[r]
    <3>1. CASE ExpireFails(p) \/ ExpireReports(p)
      BY <3>1 DEF ExpireFails, ExpireReports, Abandon, TechnicalLossReport, Types, TypesOfPeers
    <3>2. CASE ExpireSettles(p)
      BY <3>2 DEF ExpireSettles, Settle, Types, TypesOfPeers
    <3>3. CASE ExpireWaits(p) \/ ExpireStops(p)
      BY <3>3 DEF ExpireWaits, ExpireStops, Types, TypesOfPeers
    <3> QED BY <2>1, <3>1, <3>2, <3>3, ExpireCases
  <2> QED BY <2>1, <2>2 DEF Idle
<1>9. CASE Crash(p)
  BY <1>9 DEF Crash, Idle, Types, TypesOfPeers, TypesOfWire
<1>10. CASE Restart(p)
  BY <1>10 DEF Restart, Idle, Types, TypesOfPeers
<1> QED BY <1>1, <1>2, <1>3, <1>4, <1>5, <1>6, <1>7, <1>8, <1>9, <1>10 DEF Program

\* ApplyOwn files the drafted record.
LEMMA ApplyOwnPlays ==
  ASSUME Types, Types', Locals, Locals', ~torn, ~torn', NEW p \in Role, ApplyOwn(p)
  PROVE  Plays(p)
<1>1. /\ pc[p] = "applying" /\ pc'[p] = "loop" /\ own'[p] = Append(own[p], draft[p])
      /\ their'[p] = their[p]
  BY DEF ApplyOwn, Types, TypesOfPeers
<1>2. OwnLog(p) = own[p] /\ TheirLog(p) = their[p]
  BY <1>1, KeptLogs DEF Live
<1>3. snapshot'[p] # None => snapshot'[p].own = own'[p] /\ snapshot'[p].their = their'[p]
  BY <1>1 DEF Locals, Local, Filed, Live
<1>4. OwnLog(p)' = own'[p] /\ TheirLog(p)' = their'[p]
  BY <1>3 DEF OwnLog, TheirLog
<1> QED BY <1>1, <1>2, <1>4 DEF Plays

\* An accepted reveal is filed.
LEMMA ReceiveRevealListens ==
  ASSUME Types, Types', Locals, Locals', ~torn, ~torn', NEW p \in Role, ReceiveReveal(p), Accepts(p)
  PROVE  Listens(p)
<1>1. Local(p) /\ Busy(p)
  BY DEF Locals, Local
<1>2. /\ pc[p] = "await_reveal" /\ own' = own
      /\ their' = [their EXCEPT ![p] =
                     Append(@, [payload |-> Message(p).payload, commit |-> locked[p]])]
  BY <1>1, ReceiveRevealEffect
<1>3. /\ their'[p] = Append(their[p], [payload |-> Message(p).payload, commit |-> locked[p]])
      /\ pc'[p] = "loop" /\ draft'[p] = draft[p]
  BY <1>2 DEF ReceiveReveal, Accepts, Types, TypesOfPeers
<1>4. OwnLog(p) = own[p] /\ TheirLog(p) = their[p]
  BY <1>2, KeptLogs DEF Live
<1>5. snapshot'[p] # None => snapshot'[p].own = own'[p] /\ snapshot'[p].their = their'[p]
  BY <1>3 DEF Locals, Local, Filed, Live
<1>6. OwnLog(p)' = own'[p] /\ TheirLog(p)' = their'[p]
  BY <1>5 DEF OwnLog, TheirLog
<1> QED BY <1>2, <1>3, <1>4, <1>6 DEF Listens

\* Logs and files alone, or a file dropped on purpose: the log stays.
LEMMA LogFrame ==
  ASSUME Types, Types', Locals, Locals', ~torn, ~torn', NEW p \in Role,
         own'[p] = own[p], SameRecords(their'[p], their[p]),
         \/ snapshot'[p] = snapshot[p] /\ their'[p] = their[p]
         \/ pc[p] # "down" /\ pc'[p] # "down"
  PROVE  OwnLog(p)' = OwnLog(p) /\ SameRecords(TheirLog(p)', TheirLog(p))
<1>1. CASE snapshot'[p] = snapshot[p] /\ their'[p] = their[p]
  <2>1. OwnLog(p)' = OwnLog(p) /\ TheirLog(p)' = TheirLog(p)
    BY <1>1 DEF OwnLog, TheirLog
  <2>2. SameRecords(TheirLog(p), TheirLog(p))
    BY DEF SameRecords
  <2> QED BY <2>1, <2>2
<1>2. CASE pc[p] # "down" /\ pc'[p] # "down"
  <2>1. OwnLog(p) = own[p] /\ SameRecords(TheirLog(p), their[p])
    BY <1>2, KeptLogs
  <2>2. OwnLog(p)' = own'[p] /\ SameRecords(TheirLog(p)', their'[p])
    <3>1. (pc[p] # "down")' => (OwnLog(p) = own[p] /\ SameRecords(TheirLog(p), their[p]))'
      BY KeptLogs, PTL
    <3> QED BY <1>2, <3>1
  <2> QED BY <2>1, <2>2 DEF SameRecords
<1> QED BY <1>1, <1>2

-----------------------------------------------------------------------------
(* Every action is one of these *)

\* A step that leaves the logs alone is steady.
LEMMA SteadyFrame ==
  ASSUME Types, Types', Locals, Locals', ~torn, ~torn', NEW p \in Role,
         own'[p] = own[p], their'[p] = their[p], snapshot'[p] = snapshot[p],
         draft[p] # None => draft'[p] = draft[p], pc[p] # "applying" \/ pc'[p] = pc[p]
  PROVE  Steady(p)
<1>1. SameRecords(their'[p], their[p])
  BY DEF SameRecords
<1> QED BY <1>1, LogFrame DEF Steady

\* The steps a peer takes without filing a half-turn.
LEMMA SendsQuiet ==
  ASSUME Types, Types', Locals, Locals', ~torn, ~torn', NEW p \in Role,
         \/ SendCommit(p) \/ SendReveal(p) \/ SendFinalAudit(p) \/ OfferResume(p)
         \/ IgnoreOffer(p) \/ ResendCommit(p) \/ ResendReveal(p) \/ ReceiveDuplicate(p)
  PROVE  Quiet(p)
<1>1. /\ UNCHANGED <<own, their, snapshot, report, locked>>
      /\ pending'[p] \subseteq pending[p]
  <2>1. CASE ReceiveDuplicate(p)
    BY <2>1, TakeMessageEffect DEF ReceiveDuplicate
  <2>2. CASE ~ReceiveDuplicate(p)
    BY <2>2 DEF SendCommit, SendReveal, SendFinalAudit, OfferResume, IgnoreOffer,
                ResendCommit, ResendReveal, memory
  <2> QED BY <2>1, <2>2
<1>2. /\ draft[p] # None => draft'[p] = draft[p]
      /\ pc[p] # "applying" \/ pc'[p] = pc[p]
      /\ pc'[p] = pc[p] \/ pc'[p] # "await_reveal"
  <2>1. CASE SendCommit(p)
    <3>1. pc[p] = "loop" /\ pc'[p] = "revealing"
      BY <2>1 DEF SendCommit, MyTurn, Types, TypesOfPeers
    <3>2. draft[p] = None
      BY <3>1 DEF Locals, Local, Drafted
    <3> QED BY <3>1, <3>2
  <2>2. CASE ~SendCommit(p)
    BY <2>2 DEF SendReveal, SendFinalAudit, OfferResume, IgnoreOffer,
                ResendCommit, ResendReveal, ReceiveDuplicate, memory, Types, TypesOfPeers
  <2> QED BY <2>1, <2>2
<1>3. Steady(p)
  BY <1>1, <1>2, SteadyFrame
<1>4. Blameless(p) => Blameless(p)'
  BY <1>1 DEF Blameless
<1> QED BY <1>1, <1>2, <1>3, <1>4 DEF Quiet

\* An audit adds nonces only.
LEMMA ReceiveAuditQuiet ==
  ASSUME Types, Types', Locals, Locals', ~torn, ~torn', NEW p \in Role, ReceiveAudit(p)
  PROVE  Quiet(p)
<1> DEFINE d == Head(audits[p])
           verdict == AuditRecords(their[p], d.nonces)
           match == (d.digest = EndStateDigest(engine[p]))
<1>1. /\ pc[p] = "await_audit" /\ audits[p] # << >>
      /\ Settle(p, verdict, match)
      /\ their' = [their EXCEPT ![p] = WithNonces(@, d.nonces)]
      /\ own'[p] = own[p] /\ pending'[p] = pending[p] /\ draft'[p] = draft[p]
  BY DEF ReceiveAudit, AwaitingAudit
<1>2. d \in Disclosed /\ d.nonces \in Seq(Nat)
  <2>1. audits[p] \in Seq(Disclosed)
    BY DEF Types, TypesOfWire
  <2>2. d \in Disclosed
    BY <1>1, <2>1, HeadTailProperties
  <2> QED BY <2>2 DEF Disclosed
<1>3. verdict \in {"Verified OK", "TAMPERED", "not received"} /\ match \in BOOLEAN
  BY DEF AuditRecords
<1>4. their[p] \in Seq(SeenRec) /\ SameRecords(WithNonces(their[p], d.nonces), their[p])
  BY <1>2, WithNoncesTypes DEF Types, TypesOfPeers
<1>5. their'[p] = WithNonces(their[p], d.nonces)
  BY <1>1 DEF Types, TypesOfPeers
<1> HIDE DEF d, verdict, match
<1>6. pc'[p] = "done" /\ report'[p].error = "none"
  BY <1>1, <1>3, SettleEffect DEF Types
<1>7. Steady(p)
  BY <1>1, <1>4, <1>5, <1>6, LogFrame DEF Steady
<1>8. Blameless(p)'
  BY <1>6 DEF Blameless
<1> QED BY <1>1, <1>6, <1>7, <1>8 DEF Quiet

\* A failed peer's audit changes no log.
LEMMA EmergencyAuditQuiet ==
  ASSUME Types, Types', Locals, Locals', ~torn, ~torn', NEW p \in Role, EmergencyAudit(p)
  PROVE  Quiet(p)
<1>1. /\ pc[p] = "failed" /\ TechnicalLossReport(p) /\ Reported(p)
      /\ UNCHANGED <<own, their, snapshot, draft, pending>>
  BY DEF EmergencyAudit, memory, Locals, Local
<1>2. /\ pc'[p] = "done" /\ report'[p].error = report[p].error /\ report[p] # None
  BY <1>1, LossReportEffect DEF Types, Reported
<1>3. Steady(p)
  BY <1>1, <1>2, SteadyFrame
<1>4. Blameless(p) => Blameless(p)'
  BY <1>2 DEF Blameless
<1> QED BY <1>1, <1>2, <1>3, <1>4 DEF Quiet

\* A lapse changes no log.
LEMMA LapseQuiet ==
  ASSUME Types, Types', Locals, Locals', ~torn, ~torn', NEW p \in Role,
         LapseOverdue(p) \/ LapseSlow(p)
  PROVE  Quiet(p)
<1>1. Expire(p) /\ UNCHANGED <<draft, own, their, locked, pending>> /\ Reported(p)
  BY DEF LapseOverdue, LapseSlow, Locals, Local
<1>2. SameRecords(their'[p], their[p])
  BY <1>1 DEF SameRecords
<1>3. CASE ExpireFails(p)
  <2>1. "deadline" \in Error /\ Abandon(p, "deadline") /\ snapshot' = snapshot /\ pc[p] # "applying"
    BY <1>3 DEF ExpireFails, Error
  <2>2. pc'[p] = "failed" /\ report'[p] = [error |-> "deadline"]
    BY <2>1, FailTypes DEF Types
  <2>3. report'[p].error = "deadline"
    BY <2>2, ErrorFacts
  <2>4. Steady(p) /\ Blameless(p)'
    BY <1>1, <2>1, <2>3, SteadyFrame DEF Blameless
  <2> QED BY <1>1, <2>2, <2>4 DEF Quiet
<1>4. CASE ExpireWaits(p) \/ ExpireStops(p)
  <2>1. /\ snapshot' = snapshot /\ report' = report /\ pc[p] # "applying" /\ pc'[p] # "await_reveal"
    BY <1>4 DEF ExpireWaits, ExpireStops, Types, TypesOfPeers
  <2>2. Steady(p) /\ (Blameless(p) => Blameless(p)')
    BY <1>1, <2>1, SteadyFrame DEF Blameless
  <2> QED BY <1>1, <2>1, <2>2 DEF Quiet
<1>5. CASE ExpireSettles(p)
  <2>1. pc[p] = "await_audit" /\ pc'[p] = "done" /\ report'[p].error = "none"
    BY <1>5, SettleEffect DEF ExpireSettles, Types
  <2>2. Steady(p)
    BY <1>1, <1>2, <2>1, LogFrame DEF Steady
  <2>3. Blameless(p)'
    BY <2>1 DEF Blameless
  <2> QED BY <1>1, <2>1, <2>2, <2>3 DEF Quiet
<1>6. CASE ExpireReports(p)
  <2>1. /\ pc[p] = "failed" /\ TechnicalLossReport(p) /\ snapshot' = snapshot
    BY <1>6 DEF ExpireReports
  <2>2. /\ pc'[p] = "done" /\ report'[p].error = report[p].error /\ report[p] # None
    BY <1>1, <2>1, LossReportEffect DEF Types, Reported
  <2>3. Steady(p)
    BY <1>1, <2>1, <2>2, SteadyFrame
  <2>4. Blameless(p) => Blameless(p)'
    BY <2>2 DEF Blameless
  <2> QED BY <1>1, <2>2, <2>3, <2>4 DEF Quiet
<1> QED BY <1>1, <1>3, <1>4, <1>5, <1>6, ExpireCases

\* A crash loses the memory, not the log on file.
LEMMA CrashQuiet ==
  ASSUME Types, Types', Locals, Locals', ~torn, ~torn', NEW p \in Role, Crash(p)
  PROVE  Quiet(p)
<1>1. /\ pc'[p] = "down" /\ draft'[p] = None /\ own'[p] = << >> /\ their'[p] = << >>
      /\ pending'[p] = {} /\ report'[p] = None /\ snapshot' = snapshot
      /\ pc[p] \notin {"down", "done"} /\ ~MidSend(p)
  <2>1. ~MidSend(p)
    BY DEF Crash
  <2> QED BY <2>1 DEF Crash, Types, TypesOfPeers, TypesOfWire
<1>2. draft[p] = None
  BY <1>1 DEF MidSend
<1>3. pc[p] # "applying"
  BY <1>2, ApplyingDrafts
<1>4. snapshot[p] = None => own[p] = << >> /\ their[p] = << >>
  BY <1>1 DEF Locals, Local, Unfiled, Intact
<1>5. OwnLog(p)' = OwnLog(p) /\ TheirLog(p)' = TheirLog(p)
  BY <1>1, <1>4 DEF OwnLog, TheirLog
<1>6. SameRecords(TheirLog(p), TheirLog(p))
  BY DEF SameRecords
<1>7. Steady(p)
  BY <1>2, <1>3, <1>5, <1>6 DEF Steady
<1>8. Blameless(p)'
  BY <1>1 DEF Blameless
<1> QED BY <1>1, <1>7, <1>8 DEF Quiet

\* A restart takes the log from the file.
LEMMA RestartQuiet ==
  ASSUME Types, Types', Locals, Locals', ~torn, ~torn', NEW p \in Role, Restart(p)
  PROVE  Quiet(p)
<1>1. /\ pc[p] = "down" /\ pc'[p] = "offering" /\ snapshot[p] # None
      /\ UNCHANGED <<draft, locked, pending, snapshot, report>>
  BY DEF Restart, Types, TypesOfPeers
<1>2. OwnLog(p)' = OwnLog(p) /\ TheirLog(p)' = TheirLog(p)
  BY <1>1 DEF OwnLog, TheirLog
<1>3. SameRecords(TheirLog(p), TheirLog(p))
  BY DEF SameRecords
<1>4. Steady(p)
  BY <1>1, <1>2, <1>3 DEF Steady
<1> QED BY <1>1, <1>4 DEF Quiet, Blameless

\* Taking a commit, or keeping an early message, files nothing either.
LEMMA ReceiveCommitSteady ==
  ASSUME Types, Types', Locals, Locals', ~torn, ~torn', Addressed, NEW p \in Role, ReceiveCommit(p)
  PROVE  /\ Steady(p) /\ pending'[p] \subseteq pending[p] /\ report' = report
         /\ locked'[p] = Message(p).commit /\ their'[p] = their[p]
<1>1. Message(p).actor # p
  BY MessageSent, RivalFacts DEF ReceiveCommit, WellAddressed
<1>2. /\ UNCHANGED <<own, their, snapshot, report, draft>> /\ locked'[p] = Message(p).commit
  BY <1>1 DEF ReceiveCommit, Types, TypesOfPeers
<1>3. pending'[p] \subseteq pending[p]
  BY TakeMessageEffect DEF ReceiveCommit
<1>4. pc[p] # "applying"
  BY DEF ReceiveCommit, Expecting
<1> QED BY <1>2, <1>3, <1>4, SteadyFrame

\* An early message goes to the buffer.
LEMMA ReceiveEarlySteady ==
  ASSUME Types, Types', Locals, Locals', ~torn, ~torn', NEW p \in Role, ReceiveEarly(p),
         ~(Cardinality(pending[p]) >= PendingCap)
  PROVE  /\ Steady(p) /\ pc'[p] = pc[p] /\ locked'[p] = locked[p] /\ their'[p] = their[p]
         /\ pending'[p] \subseteq pending[p] \cup {Message(p)} /\ report' = report
<1>2. /\ UNCHANGED <<pc, own, their, locked, snapshot, draft, report>>
      /\ pending'[p] = {m \in pending[p] : Key(m) # Key(Message(p))} \cup {Message(p)}
  BY DEF ReceiveEarly, Types, TypesOfWire
<1> QED BY <1>2, SteadyFrame

-----------------------------------------------------------------------------
(* A step keeps Faithful *)

\* A commit is taken; or the reveal that overtook it is kept.
Locks(r) ==
  /\ ReceiveCommit(r) /\ Steady(r) /\ pending'[r] \subseteq pending[r] /\ report' = report
  /\ locked'[r] = Message(r).commit /\ their'[r] = their[r]

\* r buffers an early message.
Keeps(r) ==
  /\ ReceiveEarly(r) /\ Steady(r) /\ pc'[r] = pc[r] /\ locked'[r] = locked[r]
  /\ their'[r] = their[r] /\ report' = report
  /\ pending'[r] \subseteq pending[r] \cup {Message(r)}

\* No honest action is refused, unless a half-turn was cut off.
LEMMA AcceptsAll ==
  ASSUME Types, Locals, Addressed, ~torn => Faithful, NEW p \in Role, ReceiveReveal(p)
  PROVE  torn \/ Accepts(p)
<1> SUFFICES ASSUME ~torn PROVE Accepts(p)
  OBVIOUS
<1>1. Heard(p) /\ Heard(Rival(p)) /\ AllGenuine
  BY RivalFacts DEF Faithful
<1> QED BY <1>1, RevealArrives

\* A step does one of five things to a peer.
LEMMA StepEffect ==
  ASSUME Types, Types', Locals, Locals', Addressed, ~torn, ~torn', Faithful, [Next]_vars,
         NEW r \in Role
  PROVE  Quiet(r) \/ Plays(r) \/ Listens(r) \/ Locks(r) \/ Keeps(r)
<1>0. AllGenuine /\ \A p \in Role : Heard(p) /\ Locked(p) /\ Buffer(p)
  BY DEF Faithful
<1>1. CASE UNCHANGED vars
  <2>1. Idle(r)
    BY <1>1 DEF vars, memory, Idle
  <2> QED BY <2>1, IdleQuiet
<1>2. CASE \E m \in late : DeliverLate(m)
  <2>1. Idle(r)
    BY <1>2 DEF DeliverLate, memory, Idle
  <2> QED BY <2>1, IdleQuiet
<1>3. CASE \E p \in Role : Program(p) \/ LapseSlow(p) \/ Crash(p) \/ Restart(p)
  <2>1. PICK p \in Role : Program(p) \/ LapseSlow(p) \/ Crash(p) \/ Restart(p)
    BY <1>3
  <2>2. CASE p # r
    BY <2>1, <2>2, RivalIdle, IdleQuiet
  <2>3. CASE p = r
    <3>1. CASE \/ SendCommit(r) \/ SendReveal(r) \/ SendFinalAudit(r) \/ OfferResume(r)
               \/ IgnoreOffer(r) \/ ResendCommit(r) \/ ResendReveal(r) \/ ReceiveDuplicate(r)
      BY <3>1, SendsQuiet
    <3>2. CASE ReceiveAudit(r) \/ EmergencyAudit(r) \/ LapseOverdue(r) \/ LapseSlow(r)
      BY <3>2, ReceiveAuditQuiet, EmergencyAuditQuiet, LapseQuiet
    <3>3. CASE Crash(r) \/ Restart(r)
      BY <3>3, CrashQuiet, RestartQuiet
    <3>4. CASE ApplyOwn(r)
      BY <3>4, ApplyOwnPlays
    <3>5. CASE ReceiveReveal(r)
      BY <3>5, AcceptsAll, ReceiveRevealListens
    <3>6. CASE ReceiveConflict(r)
      BY <1>0, <3>6, NoConflict DEF ReceiveConflict
    <3>7. CASE ReceiveCommit(r)
      BY <3>7, ReceiveCommitSteady DEF Locks
    <3>8. CASE ReceiveEarly(r)
      BY <1>0, <3>8, NoFlood, ReceiveEarlySteady DEF Keeps
    <3> QED BY <2>1, <2>3, <3>1, <3>2, <3>3, <3>4, <3>5, <3>6, <3>7, <3>8 DEF Program
  <2> QED BY <2>2, <2>3
<1> QED BY <1>1, <1>2, <1>3 DEF Next

\* What is sealed stays sealed, and what is revealed stays revealed.
LEMMA Growth ==
  ASSUME Types, Types', Locals, Locals', ~torn, ~torn', NEW r \in Role,
         Quiet(r) \/ Plays(r) \/ Listens(r) \/ Locks(r) \/ Keeps(r), NEW i
  PROVE  /\ Sealed(r, i) => Sealed(r, i)' /\ RecordOf(r, i)' = RecordOf(r, i)
         /\ Revealed(r, i) => Revealed(r, i)'
<1>1. OwnLog(r) \in Seq(SealedRec) /\ Len(OwnLog(r)) \in Nat
  BY KeptLogs
<1>2. CASE Steady(r)
  <2>1. /\ Sealed(r, i) => Sealed(r, i)'
        /\ Revealed(r, i) => Revealed(r, i)'
    BY <1>2 DEF Steady, Sealed, Revealed
  <2>2. ASSUME Sealed(r, i) PROVE RecordOf(r, i)' = RecordOf(r, i)
    <3>1. i <= Len(OwnLog(r)) \/ draft[r] # None
      BY <1>1, <2>2 DEF Sealed
    <3> QED BY <1>2, <3>1 DEF Steady, RecordOf
  <2> QED BY <2>1, <2>2
<1>3. CASE Plays(r)
  <2>1. draft[r] # None /\ draft[r] \in SealedRec
    BY <1>3, ApplyingDrafts DEF Plays, Types, TypesOfPeers
  <2>2. /\ Len(OwnLog(r)') = Len(OwnLog(r)) + 1
        /\ OwnLog(r)'[Len(OwnLog(r)) + 1] = draft[r]
        /\ \A j \in 1 .. Len(OwnLog(r)) : OwnLog(r)'[j] = OwnLog(r)[j]
    BY <1>1, <1>3, <2>1, AppendProperties DEF Plays
  <2>3. ASSUME Sealed(r, i) \/ Revealed(r, i)
        PROVE  Sealed(r, i)' /\ Revealed(r, i)' /\ RecordOf(r, i)' = RecordOf(r, i)
    <3>1. CASE i \in 1 .. Len(OwnLog(r))
      BY <1>1, <2>2, <3>1 DEF Sealed, Revealed, RecordOf
    <3>2. CASE i = Len(OwnLog(r)) + 1
      BY <1>1, <2>2, <3>2 DEF Sealed, Revealed, RecordOf
    <3> QED BY <2>3, <3>1, <3>2 DEF Sealed, Revealed
  <2> QED BY <2>3
<1>4. CASE Listens(r)
  BY <1>1, <1>4 DEF Listens, Sealed, Revealed, RecordOf
<1> QED BY <1>2, <1>3, <1>4 DEF Quiet, Locks, Keeps

\* What p has heard stays true, and what it hears is true.
LEMMA HeardStep ==
  ASSUME Types, Types', Locals, Locals', Addressed, ~torn, ~torn', Faithful, [Next]_vars,
         NEW p \in Role
  PROVE  Heard(p)'
<1> DEFINE q == Rival(p)
           t == TheirLog(p)
           u == TheirLog(p)'
<1>1. q \in Role /\ t \in Seq(SeenRec) /\ Len(t) \in Nat
  BY RivalFacts, KeptLogs
<1>2. /\ Quiet(p) \/ Plays(p) \/ Listens(p) \/ Locks(p) \/ Keeps(p)
      /\ Quiet(q) \/ Plays(q) \/ Listens(q) \/ Locks(q) \/ Keeps(q)
  BY <1>1, StepEffect
<1>3. AllGenuine /\ Heard(p) /\ Heard(q) /\ Locked(p)
  BY <1>1 DEF Faithful
<1>4. \A i : /\ Sealed(q, i) => Sealed(q, i)' /\ RecordOf(q, i)' = RecordOf(q, i)
             /\ Revealed(q, i) => Revealed(q, i)'
  BY <1>1, <1>2, Growth
<1>5. ASSUME NEW i \in 1 .. Len(t)
      PROVE  /\ Revealed(q, i)'
             /\ t[i].payload = RecordOf(q, i)'.payload
             /\ t[i].commit = RecordOf(q, i)'.commit
  <2>1. /\ Revealed(q, i) /\ t[i].payload = RecordOf(q, i).payload
        /\ t[i].commit = RecordOf(q, i).commit
    BY <1>3 DEF Heard
  <2>2. Sealed(q, i)
    BY <1>1, <2>1, SealedFacts
  <2> QED BY <1>4, <2>1, <2>2
<1> HIDE DEF q, t, u
<1>6. CASE SameRecords(u, t)
  <2> SUFFICES ASSUME NEW i \in 1 .. Len(u)
               PROVE  /\ Revealed(q, i)'
                      /\ u[i].payload = RecordOf(q, i)'.payload
                      /\ u[i].commit = RecordOf(q, i)'.commit
    BY DEF Heard, q, u
  <2> QED BY <1>5, <1>6 DEF SameRecords
<1>7. CASE Listens(p)
  <2> DEFINE e == [payload |-> Message(p).payload, commit |-> locked[p]]
  <2>1. u = Append(t, e)
    BY <1>7 DEF Listens, t, u
  <2>2. PICK n \in Nat : n = Len(t) + 1
    BY <1>1
  <2>3. /\ Revealed(q, n)' /\ e.payload = RecordOf(q, n)'.payload
        /\ e.commit = RecordOf(q, n)'.commit
    <3>1. /\ Revealed(q, Len(their[p]) + 1) /\ TheirLog(p) = their[p]
          /\ Message(p).payload = RecordOf(q, Len(their[p]) + 1).payload
      BY <1>3, <1>7, RevealArrives DEF Listens, q
    <3>2. locked[p] = RecordOf(q, Len(their[p]) + 1).commit
      BY <1>3, <1>7 DEF Listens, Locked, q
    <3>3. n = Len(their[p]) + 1
      BY <2>2, <3>1 DEF t
    <3>4. /\ Revealed(q, n) /\ e.payload = RecordOf(q, n).payload
          /\ e.commit = RecordOf(q, n).commit
      BY <3>1, <3>2, <3>3
    <3>5. Sealed(q, n)
      BY <1>1, <3>4, SealedFacts
    <3> QED BY <1>4, <3>4, <3>5
  <2>4. e \in SeenRec
    <3>1. Local(p) /\ Busy(p) /\ ReceiveReveal(p)
      BY <1>7 DEF Listens, Locals, Local
    <3>2. Message(p).payload \in Payload
      BY <3>1, ReceiveRevealEffect
    <3>3. locked[p] # None
      BY <1>7, <3>1 DEF Listens, Busy
    <3>4. locked[p] \in Commit
      BY <3>3 DEF Types, TypesOfPeers
    <3> QED BY <3>2, <3>4 DEF SeenRec
  <2> HIDE DEF e
  <2>5. /\ Len(u) = n /\ u[n] = e
        /\ \A i \in 1 .. Len(t) : u[i] = t[i]
    BY <1>1, <2>1, <2>2, <2>4, AppendProperties
  <2> SUFFICES ASSUME NEW i \in 1 .. n
               PROVE  /\ Revealed(q, i)'
                      /\ u[i].payload = RecordOf(q, i)'.payload
                      /\ u[i].commit = RecordOf(q, i)'.commit
    BY <2>5 DEF Heard, q, u
  <2>6. CASE i = n
    <3>1. /\ Revealed(q, i)' /\ e.payload = RecordOf(q, i)'.payload
          /\ e.commit = RecordOf(q, i)'.commit
      BY <2>3, <2>6
    <3> QED BY <2>5, <2>6, <3>1
  <2>7. CASE i # n
    <3>1. i \in 1 .. Len(t)
      BY <1>1, <2>2, <2>7
    <3> QED BY <1>5, <2>5, <3>1
  <2> QED BY <2>6, <2>7
<1>8. SameRecords(t, t)
  BY DEF SameRecords
<1> QED BY <1>2, <1>6, <1>7, <1>8 DEF Quiet, Steady, Plays, Locks, Keeps, t, u

\* The record under way is the one after the log's last.
LEMMA NextRecord ==
  ASSUME Types, Locals, ~torn, NEW r \in Role
  PROVE  draft[r] # None =>
           \E i : /\ Sealed(r, i) /\ RecordOf(r, i) = draft[r]
                  /\ pc[r] = "applying" => Revealed(r, i)
<1>1. Len(OwnLog(r)) \in Nat
  BY KeptLogs
<1>2. ~(Len(OwnLog(r)) + 1 <= Len(OwnLog(r)))
  BY <1>1
<1>3. RecordOf(r, Len(OwnLog(r)) + 1) = draft[r]
  BY <1>2 DEF RecordOf
<1> QED BY <1>3 DEF Sealed, Revealed

\* A record's messages are genuine.
LEMMA SealedGenuine ==
  ASSUME Types, Locals, ~torn, NEW r \in Role
  PROVE  \A i : /\ Sealed(r, i) => Genuine(r, CommitMessage(RecordOf(r, i)))
                /\ Revealed(r, i) => Genuine(r, RevealMessage(RecordOf(r, i)))
<1> TAKE i
<1>1. Sealed(r, i) \/ Revealed(r, i) => i \in 1 .. Len(OwnLog(r)) + 1
  BY SealedFacts
<1> QED BY <1>1 DEF Genuine

\* Nothing that is not genuine gets under way.
LEMMA GenuineStep ==
  ASSUME Types, Types', Locals, Locals', Addressed, ~torn, ~torn', Faithful, [Next]_vars
  PROVE  AllGenuine'
<1> SUFFICES ASSUME NEW r \in Role, NEW m \in Sent(r)' PROVE Genuine(r, m)'
  BY DEF AllGenuine
<1>1. Quiet(r) \/ Plays(r) \/ Listens(r) \/ Locks(r) \/ Keeps(r)
  BY StepEffect
<1>2. \A i : /\ Sealed(r, i) => Sealed(r, i)' /\ RecordOf(r, i)' = RecordOf(r, i)
             /\ Revealed(r, i) => Revealed(r, i)'
  BY <1>1, Growth
<1>3. \A i : /\ Sealed(r, i)' => Genuine(r, CommitMessage(RecordOf(r, i)))'
             /\ Revealed(r, i)' => Genuine(r, RevealMessage(RecordOf(r, i)))'
  <2>1. (\A i : /\ Sealed(r, i) => Genuine(r, CommitMessage(RecordOf(r, i)))
                /\ Revealed(r, i) => Genuine(r, RevealMessage(RecordOf(r, i))))'
    BY SealedGenuine, PTL
  <2> QED BY <2>1
<1>4. draft'[r] # None =>
        \E i : /\ Sealed(r, i)' /\ RecordOf(r, i)' = draft'[r]
               /\ pc'[r] = "applying" => Revealed(r, i)'
  <2>1. (draft[r] # None =>
           \E i : /\ Sealed(r, i) /\ RecordOf(r, i) = draft[r]
                  /\ pc[r] = "applying" => Revealed(r, i))'
    BY NextRecord, PTL
  <2> QED BY <2>1
<1>5. CASE m \in Sent(r)
  <2>1. Genuine(r, m)
    BY <1>5 DEF Faithful, AllGenuine
  <2>2. PICK i \in 1 .. Len(OwnLog(r)) + 1 :
          \/ Sealed(r, i) /\ m = CommitMessage(RecordOf(r, i))
          \/ Revealed(r, i) /\ m = RevealMessage(RecordOf(r, i))
    BY <2>1 DEF Genuine
  <2>3. Sealed(r, i)
    BY <2>2, SealedFacts
  <2> QED BY <1>2, <1>3, <2>2, <2>3
<1>6. CASE SendCommit(r) /\ m = CommitMessage(draft'[r])
  <2>1. pc'[r] = "revealing"
    BY <1>6 DEF SendCommit, Types, TypesOfPeers
  <2>2. pc'[r] = "revealing" => draft'[r] # None
    BY DEF Locals, Local, Busy
  <2>3. draft'[r] # None
    BY <2>1, <2>2
  <2> QED BY <1>3, <1>4, <1>6, <2>3
<1>7. CASE SendReveal(r) /\ m = RevealMessage(draft[r])
  <2>1. pc'[r] = "applying" /\ draft'[r] = draft[r] /\ draft[r] # None
    BY <1>7, ApplyingDrafts DEF SendReveal, memory, Types, TypesOfPeers
  <2> QED BY <1>3, <1>4, <1>7, <2>1
<1>8. CASE \/ ResendCommit(r) /\ m = CommitMessage(Last(own[r]))
           \/ ResendReveal(r) /\ m = RevealMessage(Last(own[r]))
  <2>1. own[r] # << >> /\ Live(r) /\ Intact(r)
    BY <1>8, ResendingFacts
  <2>2. OwnLog(r) = own[r] /\ OwnLog(r) \in Seq(SealedRec)
    BY <2>1, KeptLogs DEF Live
  <2>3. \E i \in 1 .. Len(OwnLog(r)) : OwnLog(r)[i] = Last(own[r])
    BY <2>1, <2>2, SendFacts
  <2>4. PICK i \in 1 .. Len(OwnLog(r)) : OwnLog(r)[i] = Last(own[r])
    BY <2>3
  <2>5. i <= Len(OwnLog(r))
    OBVIOUS
  <2>6. Sealed(r, i) /\ Revealed(r, i) /\ RecordOf(r, i) = Last(own[r])
    BY <2>4, <2>5 DEF Sealed, Revealed, RecordOf
  <2> QED BY <1>2, <1>3, <1>8, <2>6
<1> QED BY <1>5, <1>6, <1>7, <1>8, SentEffect DEF Fresh

-----------------------------------------------------------------------------
(* The longest log is the game *)

\* The locked commit stays the rival's next one.
LEMMA LockedStep ==
  ASSUME Types, Types', Locals, Locals', Addressed, ~torn, ~torn', Faithful, [Next]_vars,
         NEW p \in Role
  PROVE  Locked(p)'
<1> DEFINE q == Rival(p)
<1>0. q \in Role
  BY RivalFacts
<1> HIDE DEF q
<1> SUFFICES ASSUME pc'[p] = "await_reveal"
             PROVE  /\ Sealed(q, Len(their[p]) + 1)'
                    /\ locked'[p] = RecordOf(q, Len(their[p]) + 1)'.commit
  BY DEF Locked, q
<1>1. /\ Quiet(p) \/ Plays(p) \/ Listens(p) \/ Locks(p) \/ Keeps(p)
      /\ Quiet(q) \/ Plays(q) \/ Listens(q) \/ Locks(q) \/ Keeps(q)
  BY <1>0, StepEffect
<1>2. \A i : /\ Sealed(q, i) => Sealed(q, i)' /\ RecordOf(q, i)' = RecordOf(q, i)
             /\ Revealed(q, i) => Revealed(q, i)'
  BY <1>0, <1>1, Growth
<1>3. AllGenuine /\ Locked(p)
  BY DEF Faithful
<1>4. their'[p] = their[p]
      /\ Sealed(q, Len(their[p]) + 1)
      /\ locked'[p] = RecordOf(q, Len(their[p]) + 1).commit
  <2>1. CASE Locks(p)
    BY <1>3, <2>1, CommitArrives DEF Locks, q
  <2>2. CASE Quiet(p) \/ Keeps(p)
    BY <1>3, <2>2 DEF Quiet, Keeps, Locked, q
  <2> QED BY <1>1, <2>1, <2>2 DEF Plays, Listens
<1>5. PICK n : n = Len(their[p]) + 1
  OBVIOUS
<1>6. Sealed(q, n)' /\ locked'[p] = RecordOf(q, n)'.commit
  BY <1>2, <1>4, <1>5
<1>7. n = Len(their'[p]) + 1
  BY <1>4, <1>5
<1> QED BY <1>6, <1>7

\* The buffer holds no more than one reveal.
LEMMA BufferStep ==
  ASSUME Types, Types', Locals, Locals', Addressed, ~torn, ~torn', Faithful, [Next]_vars,
         NEW p \in Role
  PROVE  Buffer(p)'
<1>1. Quiet(p) \/ Plays(p) \/ Listens(p) \/ Locks(p) \/ Keeps(p)
  BY StepEffect
<1>2. AllGenuine /\ Buffer(p) /\ Heard(p) /\ Heard(Rival(p))
  BY RivalFacts DEF Faithful
<1>3. CASE Quiet(p) \/ Plays(p) \/ Locks(p)
  <2>1. pending'[p] \subseteq pending[p] /\ Len(TheirLog(p)') = Len(TheirLog(p))
    BY <1>3 DEF Quiet, Plays, ApplyOwn, Locks, Steady, SameRecords
  <2> QED BY <1>2, <2>1 DEF Buffer
<1>4. CASE Keeps(p)
  <2>1. pending'[p] \subseteq pending[p] \cup {Message(p)} /\ Len(TheirLog(p)') = Len(TheirLog(p))
    BY <1>4 DEF Keeps, Steady, SameRecords
  <2>2. Expecting(p) /\ HasMessage(p) /\ Key(Message(p)) \notin consumed[p] \cup {Expected(p)}
    BY <1>4 DEF Keeps, ReceiveEarly
  <2>3. Key(Message(p)) = <<"reveal", Slot(Rival(p), Len(TheirLog(p)) + 1)>>
    BY <1>2, <2>2, EarlyReveal, WaitingFacts
  <2> QED BY <1>2, <2>1, <2>3 DEF Buffer
<1>5. CASE Listens(p)
  <2>1. Expecting(p) /\ HasMessage(p) /\ pc[p] = "await_reveal" /\ TakeMessage(p)
    BY <1>5 DEF Listens, ReceiveReveal
  <2>2. Expected(p) = <<"reveal", Slot(Rival(p), Len(TheirLog(p)) + 1)>>
    BY <2>1, WaitingFacts DEF Expected
  <2>3. Buffered(p) = pending[p]
    BY <1>2, <2>2 DEF Buffer, Buffered
  <2>4. pending'[p] = {}
    BY <2>1, <2>3, TakeMessageEffect
  <2> QED BY <2>4 DEF Buffer
<1> QED BY <1>1, <1>3, <1>4, <1>5

\* Nobody is accused.
LEMMA BlamelessStep ==
  ASSUME Types, Types', Locals, Locals', Addressed, ~torn, ~torn', Faithful, [Next]_vars,
         NEW p \in Role
  PROVE  Blameless(p)'
<1>1. Quiet(p) \/ Plays(p) \/ Listens(p) \/ Locks(p) \/ Keeps(p)
  BY StepEffect
<1>2. Blameless(p)
  BY DEF Faithful
<1>3. CASE Listens(p)
  <2>1. ~Fail(p, "illegal action")
    BY <1>3 DEF Listens, Fail, Abandon, Types, TypesOfPeers
  <2>2. report' = report
    BY <1>3, <2>1 DEF Listens, ReceiveReveal
  <2> QED BY <1>2, <2>2 DEF Blameless
<1>4. CASE Plays(p) \/ Locks(p) \/ Keeps(p)
  <2>1. report' = report
    BY <1>4 DEF Plays, ApplyOwn, Locks, Keeps
  <2> QED BY <1>2, <2>1 DEF Blameless
<1> QED BY <1>1, <1>2, <1>3, <1>4 DEF Quiet

\* A step keeps Faithful.
LEMMA FaithfulStep ==
  ASSUME Types, Types', Locals, Locals', Addressed, ~torn, ~torn', Faithful, [Next]_vars
  PROVE  Faithful'
BY GenuineStep, HeardStep, LockedStep, BufferStep, BlamelessStep DEF Faithful

\* Two logs of one length are one log.
LEMMA EqualLogs ==
  ASSUME Types, Locals, ~torn, NEW p \in Role, Heard(p), Heard(Rival(p)),
         Len(Log(p)) = Len(Log(Rival(p)))
  PROVE  Log(p) = Log(Rival(p))
<1>1. Log(Rival(p)) \in Seq(Payload) /\ Len(Log(p)) \in Nat
  BY LogsFacts, RivalFacts
<1>2. Log(p) = SubSeq(Log(Rival(p)), 1, Len(Log(Rival(p))))
  BY <1>1, LogPrefix
<1> QED BY <1>1, <1>2, PartEnds

\* What KeptLogs says, as a formula that can be primed.
WellKept(p) ==
  /\ OwnLog(p) \in Seq(SealedRec) /\ TheirLog(p) \in Seq(SeenRec)
  /\ Len(Log(p)) = Len(OwnLog(p)) + Len(TheirLog(p)) /\ Len(Log(p)) \in Nat
  /\ Live(p) => engine[p] = Replay(Log(p))

\* Peers keep their logs well.
LEMMA LogsWellKept ==
  ASSUME Types, Locals, ~torn, NEW p \in Role
  PROVE  WellKept(p)
BY KeptLogs, LogsFacts DEF WellKept

\* Only a filed half-turn moves a log or the game.
LEMMA LogStep ==
  ASSUME Types, Types', Locals, Locals', ~torn, ~torn', NEW p \in Role,
         Quiet(p) \/ Locks(p) \/ Keeps(p)
  PROVE  Log(p)' = Log(p)
<1>1. Steady(p)
  BY DEF Quiet, Locks, Keeps
<1>2. /\ OwnLog(p) \in Seq(SealedRec) /\ TheirLog(p) \in Seq(SeenRec)
      /\ LogOK(p, OwnLog(p), TheirLog(p))
  BY KeptLogs
<1>3. TheirLog(p)' \in Seq(SeenRec)
  <2>1. WellKept(p)'
    BY LogsWellKept, PTL
  <2> QED BY <2>1 DEF WellKept
<1>4. OwnLog(p)' = OwnLog(p) /\ SameRecords(TheirLog(p)', TheirLog(p))
  BY <1>1 DEF Steady
<1>5. Actions(OwnLog(p), TheirLog(p)') = Actions(OwnLog(p), TheirLog(p))
  BY <1>2, <1>3, <1>4, SameLogs
<1>6. Log(p)' = Actions(OwnLog(p)', TheirLog(p)')
  BY DEF Log
<1> QED BY <1>4, <1>5, <1>6 DEF Log

\* A half-turn that is played or heard makes the log longer by one.
LEMMA LogGrows ==
  ASSUME Types, Types', Locals, Locals', ~torn, ~torn', NEW p \in Role,
         Plays(p) \/ Listens(p)
  PROVE  Len(Log(p)') = Len(Log(p)) + 1 /\ engine'[p] = Replay(Log(p)') /\ Step(p) = Len(Log(p)) + 1
         /\ engine[p] = Replay(Log(p))
<1>1. /\ OwnLog(p) \in Seq(SealedRec) /\ TheirLog(p) \in Seq(SeenRec)
      /\ Len(OwnLog(p)) \in Nat /\ Len(TheirLog(p)) \in Nat
      /\ Len(Log(p)) = Len(OwnLog(p)) + Len(TheirLog(p))
  BY KeptLogs, LogsFacts
<1>2. pc'[p] = "loop" /\ Live(p) /\ Live(p)'
  BY DEF Plays, Listens, Live
<1>3. engine'[p] = Replay(Log(p)') /\ Len(Log(p)') = Len(OwnLog(p)') + Len(TheirLog(p)')
  <2>1. WellKept(p)'
    BY LogsWellKept, PTL
  <2> QED BY <1>2, <2>1 DEF WellKept
<1>4. Step(p) = Len(Log(p)) + 1 /\ engine[p] = Replay(Log(p))
  BY <1>1, <1>2, KeptLogs DEF Step, Live
<1>5. CASE Plays(p)
  <2>1. draft[p] # None /\ draft[p] \in SealedRec
    BY <1>5, ApplyingDrafts DEF Plays, Types, TypesOfPeers
  <2>2. Len(OwnLog(p)') = Len(OwnLog(p)) + 1 /\ Len(TheirLog(p)') = Len(TheirLog(p))
    BY <1>1, <1>5, <2>1, AppendProperties DEF Plays
  <2> QED BY <1>1, <1>3, <1>4, <2>2
<1>6. CASE Listens(p)
  <2>1. Local(p) /\ Busy(p)
    BY DEF Locals, Local
  <2>2. [payload |-> Message(p).payload, commit |-> locked[p]] \in SeenRec
    BY <1>6, <2>1, ReceiveRevealEffect DEF Listens
  <2>3. Len(OwnLog(p)') = Len(OwnLog(p)) /\ Len(TheirLog(p)') = Len(TheirLog(p)) + 1
    BY <1>1, <1>6, <2>2, AppendProperties DEF Listens
  <2> QED BY <1>1, <1>3, <1>4, <2>3
<1> QED BY <1>5, <1>6

\* Who files, and what it does to the furthest replica.
Files(r) ==
  /\ Plays(r) \/ Listens(r)
  /\ game' = IF Step(r) > game.length
             THEN [engine |-> engine'[r], length |-> Step(r)] ELSE game

\* The game moves with a half-turn that is filed, and not otherwise.
LEMMA GameStep ==
  ASSUME Types, Types', Locals, Locals', Addressed, ~torn, ~torn', Faithful, [Next]_vars
  PROVE  \/ game' = game /\ \A r \in Role : Log(r)' = Log(r)
         \/ \E r \in Role : Files(r) /\ Log(Rival(r))' = Log(Rival(r))
<1>1. ASSUME NEW p \in Role, ApplyOwn(p) \/ ReceiveReveal(p)
      PROVE  Files(p) /\ Log(Rival(p))' = Log(Rival(p))
  <2>1. Plays(p) \/ Listens(p)
    BY <1>1, AcceptsAll, ApplyOwnPlays, ReceiveRevealListens
  <2>2. Checkpoint(p)
    <3>1. CASE ApplyOwn(p)
      BY <3>1 DEF ApplyOwn
    <3>2. CASE ReceiveReveal(p)
      <4>1. Accepts(p)
        BY <3>2, AcceptsAll
      <4> QED BY <3>2, <4>1 DEF ReceiveReveal, Accepts
    <3> QED BY <1>1, <3>1, <3>2
  <2>3. Idle(Rival(p)) /\ Rival(p) \in Role
    BY <1>1, RivalIdle, RivalFacts DEF Program
  <2> QED BY <2>1, <2>2, <2>3, IdleQuiet, LogStep DEF Files, Checkpoint
<1>2. CASE \E p \in Role : ApplyOwn(p) \/ ReceiveReveal(p)
  BY <1>1, <1>2
<1>3. CASE ~ \E p \in Role : ApplyOwn(p) \/ ReceiveReveal(p)
  <2>1. game' = game
    <3>1. CASE UNCHANGED vars
      BY <3>1 DEF vars
    <3>2. CASE \E m \in late : DeliverLate(m)
      BY <3>2 DEF DeliverLate
    <3>3. ASSUME NEW p \in Role, Program(p) \/ LapseSlow(p) \/ Crash(p) \/ Restart(p)
          PROVE  game' = game
      BY <1>3, <3>3 DEF Program, SendCommit, SendReveal, ReceiveDuplicate, ReceiveConflict,
         ReceiveEarly, ReceiveCommit, SendFinalAudit, ReceiveAudit, EmergencyAudit,
         OfferResume, IgnoreOffer, ResendCommit, ResendReveal, LapseOverdue, LapseSlow,
         Crash, Restart
    <3> QED BY <3>1, <3>2, <3>3 DEF Next
  <2>2. ASSUME NEW r \in Role PROVE Log(r)' = Log(r)
    <3>1. ~Plays(r) /\ ~Listens(r)
      BY <1>3 DEF Plays, Listens
    <3> QED BY <3>1, StepEffect, LogStep
  <2> QED BY <2>1, <2>2
<1> QED BY <1>2, <1>3

\* A step keeps Furthest.
LEMMA FurthestStep ==
  ASSUME Types, Types', Locals, Locals', Addressed, ~torn, ~torn', Faithful, Faithful',
         Furthest, [Next]_vars
  PROVE  Furthest'
<1>1. game \in [engine : EngineType, length : Nat] /\ game.length \in Nat
  BY DEF Types, TypesOfHistory
<1>2. /\ \A p \in Role : Len(Log(p)) <= game.length
      /\ \A p \in Role : Len(Log(p)) = game.length => game.engine = Replay(Log(p))
      /\ \E p \in Role : Len(Log(p)) = game.length
      /\ \A p \in Role : Len(Log(p)) \in Nat
  BY LogsFacts DEF Furthest
<1>3. \A p \in Role : Rival(p) \in Role /\ Rival(p) # p /\ \A r \in Role : r = p \/ r = Rival(p)
  BY RivalFacts
<1>4. CASE game' = game /\ \A r \in Role : Log(r)' = Log(r)
  BY <1>2, <1>4 DEF Furthest
<1>5. CASE \E r \in Role : Files(r) /\ Log(Rival(r))' = Log(Rival(r))
  <2>1. PICK p \in Role : Files(p) /\ Log(Rival(p))' = Log(Rival(p))
    BY <1>5
  <2>2. /\ Len(Log(p)') = Len(Log(p)) + 1 /\ engine'[p] = Replay(Log(p)')
        /\ Step(p) = Len(Log(p)) + 1
    BY <2>1, LogGrows DEF Files
  <2>3. Len(Log(p)') = Len(Log(Rival(p))') => Log(p)' = Log(Rival(p))'
    <3>1. (Heard(p) /\ Heard(Rival(p)))'
      BY <1>3 DEF Faithful
    <3>2. (Heard(p) /\ Heard(Rival(p)) /\ Len(Log(p)) = Len(Log(Rival(p)))
             => Log(p) = Log(Rival(p)))'
      BY EqualLogs, PTL
    <3> QED BY <3>1, <3>2
  <2>4. CASE Step(p) > game.length
    <3>1. game'.engine = engine'[p] /\ game'.length = Step(p)
      BY <2>1, <2>4 DEF Files
    <3>2. \A r \in Role : Len(Log(r)') <= game'.length
      BY <1>1, <1>2, <1>3, <2>1, <2>2, <2>4, <3>1
    <3>3. \A r \in Role : Len(Log(r)') = game'.length => game'.engine = Replay(Log(r)')
      BY <1>1, <1>2, <1>3, <2>1, <2>2, <2>4, <3>1
    <3>4. Len(Log(p)') = game'.length
      BY <2>2, <3>1
    <3> QED BY <3>2, <3>3, <3>4 DEF Furthest
  <2>5. CASE ~(Step(p) > game.length)
    <3>1. game' = game
      BY <2>1, <2>5 DEF Files
    <3>2. Len(Log(Rival(p))') = game'.length
      <4>1. Len(Log(p)) # game.length
        BY <1>1, <1>2, <2>2, <2>5
      <4>2. Len(Log(Rival(p))) = game.length
        BY <1>2, <1>3, <4>1
      <4> QED BY <2>1, <3>1, <4>2
    <3>3. \A r \in Role : Len(Log(r)') <= game'.length
      BY <1>1, <1>2, <1>3, <2>1, <2>2, <2>5, <3>1
    <3>4. game'.engine = Replay(Log(Rival(p))')
      BY <1>2, <1>3, <2>1, <3>1, <3>2
    <3>5. \A r \in Role : Len(Log(r)') = game'.length => game'.engine = Replay(Log(r)')
      BY <1>3, <2>3, <3>2, <3>4
    <3> QED BY <1>3, <3>2, <3>3, <3>5 DEF Furthest
  <2> QED BY <2>4, <2>5
<1> QED BY <1>4, <1>5, GameStep

-----------------------------------------------------------------------------
(* The induction, the agreement and the refinement *)

\* The domains hold initially.
LEMMA InitTypes == Init => Types
<1> SUFFICES ASSUME Init PROVE Types
  OBVIOUS
<1>1. NewEngine \in EngineType
  BY NewEngineFacts
<1>2. TypesOfPeers
  BY <1>1 DEF Init, TypesOfPeers, PC
<1>3. TypesOfWire
  BY DEF Init, TypesOfWire
<1>4. TypesOfHistory
  BY <1>1 DEF Init, TypesOfHistory
<1> QED BY <1>2, <1>3, <1>4 DEF Types

\* A peer that has not played yet is coherent.
LEMMA InitLocals == Init => Locals
<1> SUFFICES ASSUME Init, NEW p \in Role PROVE Local(p)
  BY DEF Locals
<1>1. /\ pc[p] = "loop" /\ engine[p] = NewEngine /\ draft[p] = None /\ locked[p] = None
      /\ own[p] = << >> /\ their[p] = << >> /\ consumed[p] = {} /\ pending[p] = {}
      /\ resending[p] = FALSE /\ snapshot[p] = None /\ report[p] = None
  BY DEF Init
<1>2. LogOK(p, << >>, << >>) /\ SealedLog(<< >>) /\ Replay(<< >>) = NewEngine
  BY EmptyLog, ReplayEmpty
<1>3. Actions(<< >>, << >>) = << >>
  <2>1. << >> \in Seq(SealedRec) /\ << >> \in Seq(SeenRec) /\ << >> \in Seq(Payload)
        /\ Len(<< >>) = 0 /\ Aligned(p, << >>, << >>)
    BY <1>2 DEF LogOK
  <2>2. \A o \in Seq(SealedRec), t \in Seq(SeenRec) :
          o = << >> /\ t = << >> /\ Aligned(p, o, t) => << >> = Actions(o, t)
    <3> TAKE o \in Seq(SealedRec), t \in Seq(SeenRec)
    <3> HAVE o = << >> /\ t = << >> /\ Aligned(p, o, t)
    <3>1. /\ Len(<< >>) = Len(o) + Len(t)
          /\ \A i \in 1 .. Len(o) : << >>[Slot(p, i)] = o[i].payload
          /\ \A i \in 1 .. Len(t) : << >>[Slot(Rival(p), i)] = t[i].payload
      BY <2>1
    <3> QED BY <2>1, <3>1, ActionsUnique
  <2> QED BY <2>1, <2>2
<1>4. Keys(Rival(p), Len(<< >>)) = {}
  BY DEF Keys
<1>5. Kept(p)
  BY <1>1, <1>2, <1>3, <1>4 DEF Kept
<1>6. Filed(p) /\ Unfiled(p) /\ Drafted(p) /\ Busy(p) /\ Resending(p) /\ Reported(p)
  BY <1>1 DEF Filed, Unfiled, Drafted, Busy, Resending, Reported, Closed
<1> QED BY <1>5, <1>6 DEF Local

\* IInv holds initially.
LEMMA InitIInv == Init => IInv
<1> SUFFICES ASSUME Init PROVE IInv
  OBVIOUS
<1>1. Types /\ Locals
  BY InitTypes, InitLocals
<1>2. /\ \A p \in Role : /\ pc[p] = "loop" /\ engine[p] = NewEngine /\ own[p] = << >>
                         /\ their[p] = << >> /\ pending[p] = {} /\ turns[p] = << >>
                         /\ snapshot[p] = None /\ report[p] = None
      /\ late = {} /\ torn = FALSE /\ game = [engine |-> NewEngine, length |-> 0]
  BY DEF Init
<1>3. \A r \in Role : Sent(r) = {}
  <2>1. Range(<< >>) = {}
    BY DEF Range
  <2> QED BY <1>2, <2>1, RivalFacts DEF Sent
<1>4. Addressed /\ AllGenuine
  BY <1>3 DEF Addressed, AllGenuine
<1>5. \A p \in Role : OwnLog(p) = << >> /\ TheirLog(p) = << >>
  BY <1>2 DEF OwnLog, TheirLog
<1>6. ASSUME NEW p \in Role PROVE Heard(p) /\ Locked(p) /\ Buffer(p) /\ Blameless(p)
  BY <1>2, <1>5 DEF Heard, Locked, Buffer, Blameless
<1>7. Furthest
  <2>1. ASSUME NEW p \in Role PROVE Len(Log(p)) = 0 /\ game.engine = Replay(Log(p))
    <3>1. Len(Log(p)) = Len(OwnLog(p)) + Len(TheirLog(p)) /\ engine[p] = Replay(Log(p))
      BY <1>1, <1>2, LogsFacts, KeptLogs DEF Live
    <3>2. Len(<< >>) + Len(<< >>) = 0
      OBVIOUS
    <3> QED BY <1>2, <1>5, <3>1, <3>2
  <2>2. game.length = 0 /\ "police" \in Role
    BY <1>2 DEF Role
  <2> QED BY <2>1, <2>2 DEF Furthest
<1> QED BY <1>1, <1>4, <1>6, <1>7 DEF IInv, Faithful

\* A torn run stays torn.
LEMMA TornStays == ASSUME Types, [Next]_vars PROVE torn => torn'
<1>1. CASE UNCHANGED vars
  BY <1>1 DEF vars, budgets
<1>2. CASE \E m \in late : DeliverLate(m)
  BY <1>2 DEF DeliverLate, budgets
<1>3. ASSUME NEW p \in Role, Program(p)
      PROVE  torn' = torn
  BY <1>3 DEF Program, SendCommit, SendReveal, ReceiveDuplicate, ReceiveConflict,
     ReceiveEarly, ReceiveCommit, SendFinalAudit, ReceiveAudit, EmergencyAudit,
     OfferResume, IgnoreOffer, ResendCommit, ResendReveal, LapseOverdue, ApplyOwn,
     ReceiveReveal, budgets
<1>4. ASSUME NEW p \in Role, LapseSlow(p) \/ Crash(p) \/ Restart(p)
      PROVE  torn => torn'
  <2>1. torn \in BOOLEAN
    BY DEF Types, TypesOfHistory
  <2>2. CASE LapseSlow(p)
    <3>1. torn' = (torn \/ pc[p] = "revealing" \/ late' # late)
      BY <2>2 DEF LapseSlow
    <3> QED BY <3>1
  <2>3. CASE Crash(p)
    <3>1. torn' = (torn \/ MidSend(p))
      BY <2>3 DEF Crash
    <3> QED BY <3>1
  <2>4. CASE Restart(p)
    BY <2>4 DEF Restart, budgets
  <2> QED BY <1>4, <2>2, <2>3, <2>4
<1>5. CASE \E p \in Role : Program(p) \/ LapseSlow(p) \/ Crash(p) \/ Restart(p)
  <2>1. PICK p \in Role : Program(p) \/ LapseSlow(p) \/ Crash(p) \/ Restart(p)
    BY <1>5
  <2>2. CASE Program(p)
    <3>1. torn' = torn
      BY <1>3, <2>2
    <3> QED BY <3>1
  <2>3. CASE LapseSlow(p) \/ Crash(p) \/ Restart(p)
    BY <1>4, <2>3
  <2> QED BY <2>1, <2>2, <2>3
<1> QED BY <1>1, <1>2, <1>5 DEF Next

\* IInv is inductive.
LEMMA StepIInv == IInv /\ [Next]_vars => IInv'
<1> SUFFICES ASSUME IInv, [Next]_vars PROVE IInv'
  OBVIOUS
<1>1. Types /\ Locals /\ Addressed /\ (~torn => Faithful /\ Furthest)
  BY DEF IInv
<1>2. Types'
  BY <1>1, TypesStep DEF Locals
<1>3. \A p \in Role : ReceiveReveal(p) => torn \/ Accepts(p)
  BY <1>1, AcceptsAll
<1>4. Locals' /\ Addressed'
  BY <1>1, <1>2, <1>3, LocalStep, AddressedStep
<1>5. ASSUME ~torn' PROVE Faithful' /\ Furthest'
  <2>1. ~torn
    BY <1>1, <1>5, TornStays
  <2>2. Faithful'
    BY <1>1, <1>2, <1>4, <1>5, <2>1, FaithfulStep
  <2> QED BY <1>1, <1>2, <1>4, <1>5, <2>1, <2>2, FurthestStep
<1> QED BY <1>2, <1>4, <1>5 DEF IInv

\* Type correctness and the inductive invariant hold in every run: whatever was
\* duplicated, delayed, lapsed, crashed or restarted.
THEOREM Induction == Spec => []IInv
<1> QED BY InitIInv, StepIInv, PTL DEF Spec

\* The shorter log is a prefix, at most two half-turns behind.
LEMMA PrefixFacts ==
  ASSUME Types, Locals, ~torn, NEW p \in Role, Heard(p), Heard(Rival(p)),
         Len(Log(Rival(p))) <= Len(Log(p))
  PROVE  /\ IsPrefix(Log(Rival(p)), Log(p))
         /\ Len(Log(p)) <= Len(Log(Rival(p))) + 2
<1> DEFINE q == Rival(p)
           m == Len(OwnLog(p))
           n == Len(TheirLog(p))
           i == Len(OwnLog(q))
           j == Len(TheirLog(q))
<1>1. q \in Role /\ Rival(q) = p
  BY RivalFacts
<1>2. IsPrefix(Log(q), Log(p))
  <2>1. Log(q) = SubSeq(Log(p), 1, Len(Log(q)))
    BY <1>1, LogPrefix
  <2>2. Log(q) \in Seq(Payload) 
    BY <1>1, LogsFacts
  <2>3. SubSeq(Log(q), 1, Len(Log(q))) = Log(q)
    BY <2>2, PartEnds
  <2> QED BY <2>1, <2>3 DEF IsPrefix
<1>3. /\ m \in Nat /\ n \in Nat /\ i \in Nat /\ j \in Nat
      /\ Balanced(p, m, n) /\ Balanced(q, i, j)
      /\ Len(Log(p)) = m + n /\ Len(Log(q)) = i + j
  BY <1>1, KeptLogs, LogsFacts DEF LogOK, Aligned
<1>4. n <= i + (IF pc[q] = "applying" THEN 1 ELSE 0)
  BY HeardLength
<1>5. pc[q] = "applying" => Slot(q, i + 1) = i + j + 1
  BY <1>1, ApplyingDrafts, DraftFacts
<1> HIDE DEF m, n, i, j
<1>6. m + n <= i + j + 2
  <2>1. CASE p = "police"
    <3>1. q = "thief"
      BY <2>1 DEF Rival
    <3> QED BY <1>3, <1>4, <1>5, <2>1, <3>1 DEF Balanced, Slot
  <2>2. CASE p = "thief"
    <3>1. q = "police"
      BY <2>2 DEF Rival
    <3> QED BY <1>3, <1>4, <1>5, <2>2, <3>1 DEF Balanced, Slot
  <2> QED BY <2>1, <2>2 DEF Role
<1> QED BY <1>2, <1>3, <1>6

\* IInv implies ReplicasAgree.
LEMMA IInvReplicas == IInv => ReplicasAgree
<1> SUFFICES ASSUME IInv, ~torn
             PROVE
    /\ \E p \in Role : /\ IsPrefix(Durable(Rival(p)), Durable(p))
                       /\ Len(Durable(p)) <= Len(Durable(Rival(p))) + 2
    /\ \A p \in Role : pc[p] \in {"loop", "await_reveal", "await_audit", "offering"}
                         => engine[p] = Replay(Durable(p))
  BY DEF ReplicasAgree
<1>1. Types /\ Locals /\ \A p \in Role : Heard(p)
  BY DEF IInv, Faithful
<1>2. \A p \in Role : Durable(p) = Log(p)
  BY DEF Durable, Log, OwnLog, TheirLog
<1>3. \A p \in Role : /\ Rival(p) \in Role /\ Rival(Rival(p)) = p
                      /\ Len(Log(p)) \in Nat
  BY <1>1, RivalFacts, LogsFacts
<1>4. \E p \in Role : Len(Log(Rival(p))) <= Len(Log(p))
  <2>1. "police" \in Role
    BY DEF Role
  <2> QED BY <1>3, <2>1
<1>5. PICK p \in Role : Len(Log(Rival(p))) <= Len(Log(p))
  BY <1>4
<1>6. /\ IsPrefix(Durable(Rival(p)), Durable(p))
      /\ Len(Durable(p)) <= Len(Durable(Rival(p))) + 2
  BY <1>1, <1>2, <1>3, <1>5, PrefixFacts
<1>7. ASSUME NEW r \in Role, pc[r] \in {"loop", "await_reveal", "await_audit", "offering"}
      PROVE  engine[r] = Replay(Durable(r))
  BY <1>1, <1>2, <1>7, KeptLogs DEF Live
<1> QED BY <1>6, <1>7

\* As long as no half-turn was cut off after its commit left, the two logs
\* (peer/sealing.py, peer/resume.py) are one game seen at most two half-turns apart, and
\* a running peer's engine is its log replayed.
THEOREM Agreement == Spec => []ReplicasAgree
BY Induction, IInvReplicas, PTL

\* The instance has its own copy of the physics: the same one.
LEMMA SamePhysics ==
  /\ Abstract!NewEngine = NewEngine
  /\ \A e, r : Abstract!RequireTurn(e, r) = RequireTurn(e, r)
  /\ \A b, c, m : Abstract!MoveLegal(b, c, m) = MoveLegal(b, c, m)
  /\ \A b, c, d : Abstract!BarrierLegal(b, c, d) = BarrierLegal(b, c, d)
  /\ \A e, m : Abstract!AfterPoliceMove(e, m) = AfterPoliceMove(e, m)
  /\ \A e, d : Abstract!AfterBarrier(e, d) = AfterBarrier(e, d)
  /\ \A e, m : Abstract!AfterThiefMove(e, m) = AfterThiefMove(e, m)
<1>1. \A m, c : Abstract!AppliedTo(m, c) = AppliedTo(m, c)
  BY DEF Abstract!AppliedTo, AppliedTo, Abstract!Delta, Delta
<1>2. \A b, c : Abstract!IsPassable(b, c) = IsPassable(b, c)
  BY DEF Abstract!IsPassable, IsPassable, Abstract!InBounds, InBounds
<1>3. \A b, c, m : Abstract!MoveLegal(b, c, m) = MoveLegal(b, c, m)
  BY <1>1, <1>2 DEF Abstract!MoveLegal, MoveLegal
<1>4. \A b, c, d : Abstract!CapturedMidRound(b, c, d) = CapturedMidRound(b, c, d)
  BY <1>1, <1>2 DEF Abstract!CapturedMidRound, CapturedMidRound, Abstract!IsSurrounded, IsSurrounded,
                    Abstract!OrthogonalMoves, OrthogonalMoves
<1>5. \A e : Abstract!CheckCapturesMidRound(e) = CheckCapturesMidRound(e)
  BY <1>4 DEF Abstract!CheckCapturesMidRound, CheckCapturesMidRound
<1>6. \A b, c, d : Abstract!BarrierLegal(b, c, d) = BarrierLegal(b, c, d)
  <2>1. \A n : Abstract!Abs(n) = Abs(n)
    BY DEF Abstract!Abs, Abs
  <2>2. \A c, d : Abstract!Distance(c, d) = Distance(c, d)
    BY <2>1 DEF Abstract!Distance, Distance
  <2>3. \A d : Abstract!InBounds(d) = InBounds(d)
    BY DEF Abstract!InBounds, InBounds
  <2>4. \A S : Abstract!Cardinality(S) = Cardinality(S)
    BY DEF Abstract!Cardinality, Cardinality
  <2> QED BY <2>2, <2>3, <2>4 DEF Abstract!BarrierLegal, BarrierLegal
<1>7. \A e, m : Abstract!AfterPoliceMove(e, m) = AfterPoliceMove(e, m)
  BY <1>1, <1>5 DEF Abstract!AfterPoliceMove, AfterPoliceMove
<1>8. \A e, d : Abstract!AfterBarrier(e, d) = AfterBarrier(e, d)
  BY <1>5 DEF Abstract!AfterBarrier, AfterBarrier
<1>9. \A b, c, d, n : Abstract!OutcomeAfterFullTurn(b, c, d, n) = OutcomeAfterFullTurn(b, c, d, n)
  BY <1>4 DEF Abstract!OutcomeAfterFullTurn, OutcomeAfterFullTurn
<1>10. \A e : Abstract!CloseFullTurn(e) = CloseFullTurn(e)
  BY <1>9 DEF Abstract!CloseFullTurn, CloseFullTurn
<1>11. \A e, m : Abstract!AfterThiefMove(e, m) = AfterThiefMove(e, m)
  BY <1>1, <1>5, <1>10 DEF Abstract!AfterThiefMove, AfterThiefMove
<1>12. Abstract!NewEngine = NewEngine
  BY DEF Abstract!NewEngine, NewEngine
<1>13. \A e, r : Abstract!RequireTurn(e, r) = RequireTurn(e, r)
  BY DEF Abstract!RequireTurn, RequireTurn
<1> QED BY <1>3, <1>6, <1>7, <1>8, <1>11, <1>12, <1>13

\* A legal action on the furthest replica is a step of the engine.
LEMMA EngineStep ==
  ASSUME NEW actor \in Role, NEW action \in Action,
         ActionLegal(game.engine, actor, action),
         game'.engine = ApplyAction(game.engine, actor, action)
  PROVE  Abstract!Next
<1> DEFINE e == game.engine
<1>1. CASE action.type = "barrier"
  <2>1. /\ RequireTurn(e, "police") /\ BarrierLegal(e.barriers, e.positions["police"], action.cell)
        /\ game'.engine = AfterBarrier(e, action.cell)
    BY <1>1 DEF ActionLegal, ApplyAction
  <2>2. action.cell \in Abstract!Target
    <3>1. action.cell \in Cell
      BY <1>1 DEF Action, MoveAction, BarrierAction
    <3> QED BY <3>1, PhysicsAssumption DEF Abstract!Target, Cell
  <2>3. Abstract!PolicePlaceBarrier(action.cell)
    BY <2>1, SamePhysics DEF Abstract!PolicePlaceBarrier
  <2> QED BY <2>2, <2>3 DEF Abstract!Next
<1>2. CASE action.type # "barrier"
  <2>1. /\ RequireTurn(e, actor) /\ MoveLegal(e.barriers, e.positions[actor], action.move)
        /\ game'.engine = IF actor = "police" THEN AfterPoliceMove(e, action.move)
                          ELSE AfterThiefMove(e, action.move)
    BY <1>2 DEF ActionLegal, ApplyAction
  <2>2. action.move \in Abstract!Move
    BY <1>2 DEF Action, MoveAction, BarrierAction, Abstract!Move, Move, Abstract!OrthogonalMoves,
                OrthogonalMoves
  <2>3. CASE actor = "police"
    <3>1. Abstract!PoliceMove(action.move)
      BY <2>1, <2>3, SamePhysics DEF Abstract!PoliceMove
    <3> QED BY <2>2, <3>1 DEF Abstract!Next
  <2>4. CASE actor = "thief"
    <3>1. Abstract!ThiefMove(action.move)
      BY <2>1, <2>4, SamePhysics DEF Abstract!ThiefMove
    <3> QED BY <2>2, <3>1 DEF Abstract!Next
  <2> QED BY <2>3, <2>4 DEF Role
<1> QED BY <1>1, <1>2

\* A filed half-turn is a legal action.
LEMMA FilesAction ==
  ASSUME Types, Locals, ~torn, Addressed, Faithful, NEW p \in Role, Plays(p) \/ Listens(p)
  PROVE  \E actor \in Role, action \in Action :
           /\ ActionLegal(engine[p], actor, action)
           /\ engine'[p] = ApplyAction(engine[p], actor, action)
<1>1. Local(p) /\ Busy(p)
  BY DEF Locals, Local
<1>2. CASE Plays(p)
  <2>1. draft[p] # None /\ ActionLegal(engine[p], p, draft[p].payload.action)
    BY <1>1, <1>2 DEF Plays, Busy
  <2>2. draft[p].payload.action \in Action
    <3>1. draft[p] \in SealedRec
      BY <2>1 DEF Types, TypesOfPeers
    <3> QED BY <3>1 DEF SealedRec, Payload
  <2>3. engine'[p] = ApplyAction(engine[p], p, draft[p].payload.action)
    BY <1>2 DEF Plays, ApplyOwn, Types, TypesOfPeers
  <2> QED BY <2>1, <2>2, <2>3
<1>3. CASE Listens(p)
  <2>1. Accepts(p) /\ Message(p).payload \in Payload
    BY <1>1, <1>3, AcceptsAll, ReceiveRevealEffect DEF Listens
  <2>2. /\ Message(p).payload.role \in Role /\ Message(p).payload.action \in Action
        /\ ActionLegal(engine[p], Message(p).payload.role, Message(p).payload.action)
    BY <2>1 DEF Payload, Accepts
  <2>3. engine'[p] =
          ApplyAction(engine[p], Message(p).payload.role, Message(p).payload.action)
    BY <1>3, <2>1 DEF Listens, ReceiveReveal, Accepts, Types, TypesOfPeers
  <2> QED BY <2>2, <2>3
<1> QED BY <1>2, <1>3

\* A step maps to a step of the engine, or to a stutter.
LEMMA GameRefines ==
  ASSUME IInv, IInv', ~torn, ~torn', [Next]_vars
  PROVE  [Abstract!Next]_(game.engine)
<1>1. /\ Types /\ Locals /\ Addressed /\ Faithful /\ Furthest
      /\ Types' /\ Locals'
  BY DEF IInv
<1>2. CASE game' = game
  BY <1>2
<1>3. CASE \E r \in Role : Files(r)
  <2>1. PICK p \in Role : Files(p)
    BY <1>3
  <2>2. CASE Step(p) > game.length
    <3>1. game'.engine = engine'[p]
      BY <2>1, <2>2 DEF Files
    <3>2. Step(p) = Len(Log(p)) + 1 /\ engine[p] = Replay(Log(p))
      BY <1>1, <2>1, LogGrows DEF Files
    <3>3. Len(Log(p)) = game.length
      <4>1. Len(Log(p)) \in Nat /\ game.length \in Nat /\ Len(Log(p)) <= game.length
        BY <1>1, LogsFacts DEF Furthest, Types, TypesOfHistory
      <4> QED BY <2>2, <3>2, <4>1
    <3>4. game.engine = engine[p]
      BY <1>1, <3>2, <3>3 DEF Furthest
    <3>5. PICK actor \in Role, action \in Action :
             /\ ActionLegal(engine[p], actor, action)
             /\ engine'[p] = ApplyAction(engine[p], actor, action)
      BY <1>1, <2>1, FilesAction DEF Files
    <3> QED BY <3>1, <3>4, <3>5, EngineStep
  <2>3. CASE ~(Step(p) > game.length)
    BY <2>1, <2>3 DEF Files
  <2> QED BY <2>2, <2>3
<1> QED BY <1>1, <1>2, <1>3, GameStep

\* Unless a half-turn is cut off, the furthest replica behaves as one engine
\* (domain/engine.py): the lockstep of two runtimes implements it.
THEOREM Refinement == Spec /\ []~torn => ImplementsEngine
<1>1. Init => Abstract!Init
  BY SamePhysics DEF Init, Abstract!Init
<1>2. IInv /\ IInv' /\ ~torn /\ (~torn)' /\ [Next]_vars => [Abstract!Next]_(game.engine)
  BY GameRefines
<1> QED BY <1>1, <1>2, Induction, PTL DEF Spec, ImplementsEngine, Abstract!Spec

\* Half-turns are cut off by crashes and lapses only.
LEMMA Untorn ==
  ASSUME TornCrashes = FALSE, MaxLapses = 0
  PROVE  Spec => []~torn
<1>1. Init => ~torn
  BY DEF Init
<1>2. IInv /\ ~torn /\ [Next]_vars => (~torn)'
  <2> SUFFICES ASSUME IInv, ~torn, [Next]_vars PROVE torn' = torn
    OBVIOUS
  <2>1. CASE UNCHANGED vars
    BY <2>1 DEF vars, budgets
  <2>2. CASE \E m \in late : DeliverLate(m)
    BY <2>2 DEF DeliverLate, budgets
  <2>3. ASSUME NEW p \in Role, Program(p) \/ Restart(p)
        PROVE  torn' = torn
    BY <2>3 DEF Program, SendCommit, SendReveal, ReceiveDuplicate, ReceiveConflict,
       ReceiveEarly, ReceiveCommit, SendFinalAudit, ReceiveAudit, EmergencyAudit,
       OfferResume, IgnoreOffer, ResendCommit, ResendReveal, LapseOverdue, ApplyOwn,
       ReceiveReveal, Restart, budgets
  <2>4. ASSUME NEW p \in Role, LapseSlow(p)
        PROVE  FALSE
    BY <2>4 DEF LapseSlow, IInv, Types, TypesOfHistory
  <2>5. ASSUME NEW p \in Role, Crash(p)
        PROVE  torn' = torn
    <3>1. ~MidSend(p) /\ torn' = (torn \/ MidSend(p))
      BY <2>5 DEF Crash
    <3>2. torn \in BOOLEAN
      BY DEF IInv, Types, TypesOfHistory
    <3> QED BY <3>1, <3>2
  <2> QED BY <2>1, <2>2, <2>3, <2>4, <2>5 DEF Next
<1> QED BY <1>1, <1>2, Induction, PTL DEF Spec

\* Where no peer crashes in a send and no deadline lapses early, the
\* refinement holds of the whole specification.
COROLLARY WholeRefinement ==
  ASSUME TornCrashes = FALSE, MaxLapses = 0
  PROVE  Spec => ImplementsEngine
BY Untorn, Refinement, PTL

-----------------------------------------------------------------------------
(* The end of a game *)

\* The nonces a log reveals.
Nonces(s) == [i \in 1 .. Len(s) |-> s[i].nonce]

\* p's log ends the game.
Over(p) == Replay(Log(p)).outcome # "ongoing"

\* A peer that will seal nothing more.
Final(p) ==
  \/ pc[p] = "done"
  \/ pc[p] \in {"loop", "await_audit", "offering", "down"} /\ Over(p)

\* p did not end with a technical loss.
Unbroken(p) == pc[p] = "done" => report[p].error = "none"

\* What a peer has disclosed.
Shown(q, d) ==
  /\ Final(q) /\ d.nonces = Nonces(OwnLog(q))
  /\ Unbroken(q) => d.digest = EndStateDigest(Replay(Log(q)))

\* Every disclosure under way shows its sender's final log.
Disclosures == \A p \in Role : \A k \in 1 .. Len(audits[p]) : Shown(Rival(p), audits[p][k])

\* What a peer that verified its rival has seen.
Verdict(p) ==
  pc[p] = "done" /\ report[p].audit = "Verified OK" =>
    LET q == Rival(p) IN
    /\ report[p].error = "none" /\ report[p].outcome = Replay(Log(p)).outcome
    /\ Final(q) /\ Len(their[p]) = Len(OwnLog(q))
    /\ \A i \in 1 .. Len(their[p]) :
         /\ "nonce" \in DOMAIN their[p][i]
         /\ their[p][i].nonce = OwnLog(q)[i].nonce
         /\ their[p][i].commit = CommitHash(their[p][i].payload, their[p][i].nonce)
    /\ Unbroken(q) =>
         report[p].digest_match = (EndStateDigest(Replay(Log(q))) = EndStateDigest(Replay(Log(p))))

\* So for both peers.
Verdicts == \A p \in Role : Verdict(p)

\* A peer that is up has its surviving logs in memory.
LEMMA MemoryLogs ==
  ASSUME Types, Locals, NEW p \in Role
  PROVE  /\ pc[p] # "down" => OwnLog(p) = own[p]
         /\ Sound(p) => /\ LogOK(p, own[p], their[p]) /\ Log(p) = Actions(own[p], their[p])
                        /\ engine[p] = Replay(Log(p))
         /\ Live(p) => TheirLog(p) = their[p]
<1>1. Local(p) /\ Filed(p) /\ Unfiled(p) /\ Kept(p)
  BY DEF Locals, Local
<1>2. pc[p] # "down" => OwnLog(p) = own[p]
  BY <1>1 DEF Filed, OwnLog
<1>3. Live(p) => TheirLog(p) = their[p]
  BY <1>1 DEF Filed, TheirLog
<1>4. ASSUME Sound(p)
      PROVE  /\ LogOK(p, own[p], their[p]) /\ Log(p) = Actions(own[p], their[p])
             /\ engine[p] = Replay(Log(p))
  <2>1. Intact(p) /\ pc[p] # "down"
    BY <1>4 DEF Intact, Sound, Live, Closed
  <2>2. LogOK(p, own[p], their[p]) /\ engine[p] = Replay(Actions(own[p], their[p]))
    BY <1>1, <1>4, <2>1 DEF Kept
  <2>3. TheirLog(p) \in Seq(SeenRec) /\ SameRecords(TheirLog(p), their[p])
    <3>1. CASE snapshot[p] # None
      BY <1>1, <2>1, <3>1 DEF Filed, TheirLog, Types, TypesOfPeers, Snap
    <3>2. CASE snapshot[p] = None
      BY <3>2 DEF TheirLog, SameRecords, Types, TypesOfPeers
    <3> QED BY <3>1, <3>2
  <2>4. own[p] \in Seq(SealedRec) /\ their[p] \in Seq(SeenRec)
    BY DEF Types, TypesOfPeers
  <2>5. Log(p) = Actions(own[p], their[p])
    BY <1>2, <2>1, <2>2, <2>3, <2>4, SameLogs DEF Log
  <2> QED BY <2>2, <2>5
<1> QED BY <1>2, <1>3, <1>4

\* What a peer whose game is over may still do.
LEMMA FinalMoves ==
  ASSUME Types, Locals, NEW r \in Role, Final(r),
         Program(r) \/ LapseSlow(r) \/ Crash(r) \/ Restart(r)
  PROVE  /\ pc[r] # "done"
         /\ \/ SendFinalAudit(r) /\ pc[r] = "loop"
            \/ ReceiveAudit(r) /\ pc[r] = "await_audit"
            \/ (IgnoreOffer(r) \/ ResendCommit(r) \/ ResendReveal(r)) /\ pc[r] = "await_audit"
            \/ OfferResume(r) /\ pc[r] = "offering"
            \/ /\ LapseOverdue(r) \/ LapseSlow(r)
               /\ ExpireWaits(r) \/ ExpireSettles(r) \/ ExpireStops(r)
            \/ Crash(r) /\ pc[r] \in {"loop", "await_audit", "offering"}
            \/ Restart(r) /\ pc[r] = "down"
<1>1. Local(r) /\ Resending(r)
  BY DEF Locals, Local
<1>2. /\ pc[r] = "loop" => ~Ongoing(r)
      /\ pc[r] \in {"done", "loop", "await_audit", "offering", "down"}
  BY MemoryLogs DEF Final, Over, Ongoing, Sound, Live
<1>3. pc[r] \in {"loop", "done", "offering", "down"} => ~resending[r]
  BY <1>1, <1>2 DEF Resending
<1>4. ~MyTurn(r) /\ ~Expecting(r)
  BY <1>2 DEF MyTurn, Expecting
<1>5. Waiting(r) => pc[r] = "await_audit"
  BY <1>4 DEF Waiting, AwaitingAudit
<1>6. ~SendCommit(r) /\ ~SendReveal(r) /\ ~ApplyOwn(r) /\ ~EmergencyAudit(r)
  BY <1>2, <1>4 DEF SendCommit, SendReveal, ApplyOwn, EmergencyAudit
<1>7. /\ ~ReceiveDuplicate(r) /\ ~ReceiveConflict(r) /\ ~ReceiveEarly(r)
      /\ ~ReceiveCommit(r) /\ ~ReceiveReveal(r)
  BY <1>4 DEF ReceiveDuplicate, ReceiveConflict, ReceiveEarly, ReceiveCommit, ReceiveReveal
<1>8. CASE SendFinalAudit(r) \/ ReceiveAudit(r) \/ OfferResume(r) \/ Crash(r) \/ Restart(r)
  BY <1>2, <1>8 DEF SendFinalAudit, ReceiveAudit, AwaitingAudit, OfferResume, Crash, Restart
<1>9. CASE IgnoreOffer(r) \/ ResendCommit(r) \/ ResendReveal(r)
  BY <1>2, <1>3, <1>5, <1>9 DEF IgnoreOffer, ResendCommit, ResendReveal
<1>10. CASE LapseOverdue(r) \/ LapseSlow(r)
  <2>1. Expire(r)
    BY <1>10 DEF LapseOverdue, LapseSlow
  <2>2. ExpireWaits(r) \/ ExpireSettles(r) \/ ExpireStops(r)
    BY <1>2, <1>3, <1>4, <2>1 DEF Expire, ExpireWaits, ExpireSettles, ExpireStops
  <2> QED BY <1>10, <2>2 DEF ExpireWaits, ExpireSettles, ExpireStops
<1> QED BY <1>6, <1>7, <1>8, <1>9, <1>10 DEF Program

\* A classified game keeps its log, even where its file goes.
LEMMA SettledLog ==
  ASSUME Types, Types', Locals, NEW r \in Role, pc[r] = "await_audit",
         own'[r] = own[r], SameRecords(their'[r], their[r]), snapshot'[r] \in {None, snapshot[r]}
  PROVE  OwnLog(r)' = OwnLog(r) /\ Log(r)' = Log(r)
<1>1. /\ LogOK(r, own[r], their[r]) /\ Log(r) = Actions(own[r], their[r])
      /\ OwnLog(r) = own[r]
  BY MemoryLogs DEF Sound, Live
<1>2. CASE snapshot'[r] = snapshot[r] /\ snapshot[r] # None
  BY <1>2 DEF OwnLog, TheirLog, Log
<1>3. CASE snapshot'[r] = None
  <2>1. own[r] \in Seq(SealedRec) /\ their[r] \in Seq(SeenRec) /\ their'[r] \in Seq(SeenRec)
    BY DEF Types, TypesOfPeers
  <2>2. Actions(own[r], their'[r]) = Actions(own[r], their[r])
    BY <1>1, <2>1, SameLogs
  <2> QED BY <1>1, <1>3, <2>2 DEF OwnLog, TheirLog, Log
<1> QED BY <1>2, <1>3

\* A final log stays what it is.
LEMMA FinalStep ==
  ASSUME Types, Types', Locals, Locals', [Next]_vars, NEW r \in Role, Final(r)
  PROVE  /\ Final(r)' /\ OwnLog(r)' = OwnLog(r) /\ Log(r)' = Log(r)
         /\ Unbroken(r)' => Unbroken(r)
<1>1. ASSUME OwnLog(r)' = OwnLog(r), Log(r)' = Log(r),
             pc[r] # "done" => pc'[r] \in {"done", "loop", "await_audit", "offering", "down"},
             pc[r] = "done" => pc'[r] = "done" /\ report'[r] = report[r]
      PROVE  /\ Final(r)' /\ OwnLog(r)' = OwnLog(r) /\ Log(r)' = Log(r)
             /\ Unbroken(r)' => Unbroken(r)
  <2>1. Over(r)' <=> Over(r)
    BY <1>1 DEF Over
  <2> QED BY <1>1, <2>1 DEF Final, Unbroken
<1>2. CASE Idle(r)
  <2>1. OwnLog(r)' = OwnLog(r) /\ Log(r)' = Log(r)
    BY <1>2 DEF Idle, OwnLog, TheirLog, Log
  <2> QED BY <1>1, <1>2, <2>1 DEF Idle, Final
<1>3. CASE Program(r) \/ LapseSlow(r) \/ Crash(r) \/ Restart(r)
  <2>0. pc[r] # "done"
    BY <1>3, FinalMoves
  <2>1. CASE \/ SendFinalAudit(r) /\ pc[r] = "loop"
             \/ (IgnoreOffer(r) \/ ResendCommit(r) \/ ResendReveal(r)) /\ pc[r] = "await_audit"
             \/ OfferResume(r) /\ pc[r] = "offering"
    <3>1. UNCHANGED <<own, their, snapshot>>
          /\ pc'[r] \in {"done", "loop", "await_audit", "offering", "down"}
      BY <2>1 DEF SendFinalAudit, IgnoreOffer, ResendCommit, ResendReveal, OfferResume, memory,
                  Types, TypesOfPeers
    <3>2. OwnLog(r)' = OwnLog(r) /\ Log(r)' = Log(r)
      BY <3>1 DEF OwnLog, TheirLog, Log
    <3> QED BY <1>1, <2>0, <3>1, <3>2
  <2>2. CASE ReceiveAudit(r) /\ pc[r] = "await_audit"
    <3> DEFINE d == Head(audits[r])
               verdict == AuditRecords(their[r], d.nonces)
               match == (d.digest = EndStateDigest(engine[r]))
    <3>1. /\ Settle(r, verdict, match) /\ audits[r] # << >> /\ own'[r] = own[r]
          /\ their' = [their EXCEPT ![r] = WithNonces(@, d.nonces)]
      BY <2>2 DEF ReceiveAudit
    <3>2. d.nonces \in Seq(Nat)
      <4>1. d \in Disclosed
        BY <3>1, HeadTailProperties DEF Types, TypesOfWire
      <4> QED BY <4>1 DEF Disclosed
    <3>3. verdict \in {"Verified OK", "TAMPERED", "not received"} /\ match \in BOOLEAN
      BY DEF AuditRecords
    <3>4. their[r] \in Seq(SeenRec) /\ SameRecords(WithNonces(their[r], d.nonces), their[r])
      BY <3>2, WithNoncesTypes DEF Types, TypesOfPeers
    <3>5. their'[r] = WithNonces(their[r], d.nonces)
      BY <3>1 DEF Types, TypesOfPeers
    <3> HIDE DEF d, verdict, match
    <3>6. pc'[r] = "done" /\ snapshot'[r] \in {None, snapshot[r]}
      BY <3>1, <3>3, SettleEffect DEF Types
    <3> QED BY <1>1, <2>0, <2>2, <3>1, <3>4, <3>5, <3>6, SettledLog
  <2>3. CASE /\ LapseOverdue(r) \/ LapseSlow(r)
             /\ ExpireWaits(r) \/ ExpireSettles(r) \/ ExpireStops(r)
    <3>1. UNCHANGED <<own, their>>
      BY <2>3 DEF LapseOverdue, LapseSlow
    <3>2. CASE ExpireWaits(r) \/ ExpireStops(r)
      <4>1. snapshot' = snapshot /\ pc'[r] \in {"await_audit", "down"}
        BY <3>2 DEF ExpireWaits, ExpireStops, Types, TypesOfPeers
      <4>2. OwnLog(r)' = OwnLog(r) /\ Log(r)' = Log(r)
        BY <3>1, <4>1 DEF OwnLog, TheirLog, Log
      <4> QED BY <1>1, <2>0, <4>1, <4>2
    <3>3. CASE ExpireSettles(r)
      <4>1. pc[r] = "await_audit" /\ pc'[r] = "done" /\ snapshot'[r] \in {None, snapshot[r]}
        BY <3>3, SettleEffect DEF ExpireSettles, Types
      <4>2. SameRecords(their'[r], their[r])
        BY <3>1 DEF SameRecords
      <4> QED BY <1>1, <2>0, <3>1, <4>1, <4>2, SettledLog
    <3> QED BY <2>3, <3>2, <3>3
  <2>4. CASE Crash(r) /\ pc[r] \in {"loop", "await_audit", "offering"}
    <3>1. /\ pc'[r] = "down" /\ own'[r] = << >> /\ their'[r] = << >> /\ snapshot' = snapshot
      BY <2>4 DEF Crash, Types, TypesOfPeers
    <3>2. snapshot[r] = None => own[r] = << >> /\ their[r] = << >>
      BY <2>4 DEF Locals, Local, Unfiled, Intact, Sound, Live
    <3>3. OwnLog(r)' = OwnLog(r) /\ TheirLog(r)' = TheirLog(r)
      BY <3>1, <3>2 DEF OwnLog, TheirLog
    <3>4. Log(r)' = Log(r)
      BY <3>3 DEF Log
    <3> QED BY <1>1, <2>0, <3>1, <3>3, <3>4
  <2>5. CASE Restart(r) /\ pc[r] = "down"
    <3>1. pc'[r] = "offering" /\ snapshot' = snapshot /\ snapshot[r] # None
      BY <2>5 DEF Restart, Types, TypesOfPeers
    <3>2. OwnLog(r)' = OwnLog(r) /\ Log(r)' = Log(r)
      BY <3>1 DEF OwnLog, TheirLog, Log
    <3> QED BY <1>1, <2>0, <3>1, <3>2
  <2> QED BY <1>3, <2>1, <2>2, <2>3, <2>4, <2>5, FinalMoves
<1>4. CASE UNCHANGED vars
  BY <1>2, <1>4 DEF vars, memory, Idle
<1>5. CASE \E m \in late : DeliverLate(m)
  BY <1>2, <1>5 DEF DeliverLate, memory, Idle
<1>6. CASE \E p \in Role : Program(p) \/ LapseSlow(p) \/ Crash(p) \/ Restart(p)
  <2>1. PICK p \in Role : Program(p) \/ LapseSlow(p) \/ Crash(p) \/ Restart(p)
    BY <1>6
  <2>2. CASE p = r
    BY <1>3, <2>1, <2>2
  <2>3. CASE p # r
    BY <1>2, <2>1, <2>3, RivalIdle
  <2> QED BY <2>2, <2>3
<1> QED BY <1>4, <1>5, <1>6 DEF Next

-----------------------------------------------------------------------------
(* Disclosures *)

\* This step classifies p's game.
Classified(p) == pc[p] # "done" /\ pc'[p] = "done"

\* The disclosure that is read heads the audit inbox.
LEMMA DisclosedFacts ==
  ASSUME Types, NEW p \in Role, audits[p] # << >>
  PROVE  /\ Len(audits[p]) \in Nat \ {0} /\ Head(audits[p]) = audits[p][1]
         /\ Head(audits[p]) \in Disclosed
         /\ Len(Tail(audits[p])) = Len(audits[p]) - 1
         /\ \A k \in 1 .. Len(Tail(audits[p])) : Tail(audits[p])[k] = audits[p][k + 1]
<1>1. audits[p] \in Seq(Disclosed)
  BY DEF Types, TypesOfWire
<1>2. Len(audits[p]) # 0
  BY <1>1, EmptySeq
<1> QED BY <1>1, <1>2, HeadTailProperties

\* Where the disclosures of an inbox come from.
LEMMA AuditsEffect ==
  ASSUME Types, [Next]_vars, NEW p \in Role, NEW k \in 1 .. Len(audits'[p])
  PROVE  \/ \E j \in 1 .. Len(audits[p]) : audits'[p][k] = audits[p][j]
         \/ /\ SendFinalAudit(Rival(p)) \/ EmergencyAudit(Rival(p))
            /\ audits'[p][k] = Disclosure(Rival(p))
<1>0. /\ Rival(p) \in Role /\ Rival(p) # p /\ Rival(Rival(p)) = p
      /\ \A r \in Role : r = p \/ r = Rival(p)
      /\ audits \in [Role -> Seq(Disclosed)] /\ audits[p] \in Seq(Disclosed)
  BY RivalFacts DEF Types, TypesOfWire
<1>1. ASSUME audits'[p] = audits[p]
      PROVE  \E j \in 1 .. Len(audits[p]) : audits'[p][k] = audits[p][j]
  BY <1>1
<1>2. CASE UNCHANGED vars \/ \E m \in late : DeliverLate(m)
  BY <1>1, <1>2 DEF vars, boxes, DeliverLate
<1>3. ASSUME NEW r \in Role, SendFinalAudit(r) \/ EmergencyAudit(r)
      PROVE  \/ \E j \in 1 .. Len(audits[p]) : audits'[p][k] = audits[p][j]
             \/ r = Rival(p) /\ audits'[p][k] = Disclosure(Rival(p))
  <2>1. SendAudit(r)
    BY <1>3 DEF SendFinalAudit, EmergencyAudit
  <2>2. CASE r = p
    BY <1>1, <2>1, <2>2, SendAuditEffect
  <2>3. CASE r = Rival(p)
    <3>1. audits'[p] = audits[p] \/ audits'[p] = Append(audits[p], Disclosure(Rival(p)))
      BY <1>0, <2>1, <2>3, SendAuditEffect
    <3>2. CASE audits'[p] = audits[p]
      BY <1>1, <3>2
    <3>3. CASE audits'[p] = Append(audits[p], Disclosure(Rival(p)))
      <4>1. Disclosure(Rival(p)) \in Disclosed
        BY <1>0, DisclosureTypes
      <4> DEFINE d == Disclosure(Rival(p))
                 n == Len(audits[p])
      <4>2. /\ Len(audits'[p]) = n + 1 /\ n \in Nat
            /\ \A i \in 1 .. n : audits'[p][i] = audits[p][i]
            /\ audits'[p][n + 1] = d
        BY <1>0, <3>3, <4>1, AppendProperties
      <4> HIDE DEF d, n
      <4>3. CASE k = n + 1
        BY <2>3, <4>2, <4>3 DEF d
      <4>4. CASE k # n + 1
        <5>1. k \in 1 .. n
          BY <4>2, <4>4
        <5> QED BY <4>2, <5>1 DEF n
      <4> QED BY <4>3, <4>4
    <3> QED BY <3>1, <3>2, <3>3
  <2> QED BY <1>0, <2>2, <2>3
<1>4. ASSUME NEW r \in Role, ReceiveAudit(r)
      PROVE  \E j \in 1 .. Len(audits[p]) : audits'[p][k] = audits[p][j]
  <2>1. CASE r = p
    <3>1. audits'[p] = Tail(audits[p]) /\ audits[p] # << >>
      BY <1>0, <1>4, <2>1 DEF ReceiveAudit
    <3>2. k + 1 \in 1 .. Len(audits[p]) /\ audits'[p][k] = audits[p][k + 1]
      BY <3>1, DisclosedFacts
    <3> QED BY <3>2
  <2>2. CASE r # p
    BY <1>0, <1>1, <1>4, <2>2 DEF ReceiveAudit
  <2> QED BY <2>1, <2>2
<1>5. ASSUME NEW r \in Role, Crash(r)
      PROVE  \E j \in 1 .. Len(audits[p]) : audits'[p][k] = audits[p][j]
  <2>1. CASE r = p
    <3>1. audits'[p] = << >>
      BY <1>0, <1>5, <2>1 DEF Crash
    <3> QED BY <3>1
  <2>2. CASE r # p
    BY <1>0, <1>1, <1>5, <2>2 DEF Crash
  <2> QED BY <2>1, <2>2
<1>6. ASSUME NEW r \in Role, Program(r) \/ LapseSlow(r) \/ Restart(r),
             ~SendFinalAudit(r), ~EmergencyAudit(r), ~ReceiveAudit(r)
      PROVE  \E j \in 1 .. Len(audits[p]) : audits'[p][k] = audits[p][j]
  <2>1. audits' = audits
    BY <1>6 DEF Program, SendCommit, SendReveal, ApplyOwn, ReceiveDuplicate, ReceiveConflict,
       ReceiveEarly, ReceiveCommit, ReceiveReveal, OfferResume, IgnoreOffer, ResendCommit,
       ResendReveal, LapseOverdue, LapseSlow, Restart, boxes
  <2> QED BY <1>1, <2>1
<1>7. CASE \E r \in Role : Program(r) \/ LapseSlow(r) \/ Crash(r) \/ Restart(r)
  <2>1. PICK r \in Role : Program(r) \/ LapseSlow(r) \/ Crash(r) \/ Restart(r)
    BY <1>7
  <2> QED BY <1>3, <1>4, <1>5, <1>6, <2>1
<1> QED BY <1>2, <1>7 DEF Next

\* A disclosure stays true of its sender.
LEMMA ShownStep ==
  ASSUME Types, Types', Locals, Locals', [Next]_vars, NEW q \in Role, NEW d, Shown(q, d)
  PROVE  /\ Final(q)' /\ d.nonces = Nonces(OwnLog(q)')
         /\ Unbroken(q)' => d.digest = EndStateDigest(Replay(Log(q)'))
<1>1. /\ Final(q)' /\ OwnLog(q)' = OwnLog(q) /\ Log(q)' = Log(q)
      /\ Unbroken(q)' => Unbroken(q)
  BY FinalStep DEF Shown
<1> QED BY <1>1 DEF Shown

\* A step keeps the disclosures true.
LEMMA DisclosuresStep ==
  ASSUME Types, Types', Locals, Locals', Disclosures, [Next]_vars
  PROVE  Disclosures'
<1> SUFFICES ASSUME NEW p \in Role, NEW k \in 1 .. Len(audits'[p])
             PROVE  Shown(Rival(p), audits[p][k])'
  BY DEF Disclosures
<1> DEFINE q == Rival(p)
           d == audits'[p][k]
<1>0. q \in Role
  BY RivalFacts
<1>1. ASSUME Shown(q, d)
      PROVE  /\ Final(q)' /\ d.nonces = Nonces(OwnLog(q)')
             /\ Unbroken(q)' => d.digest = EndStateDigest(Replay(Log(q)'))
  <2> HIDE DEF q, d
  <2> QED BY <1>0, <1>1, ShownStep
<1>2. ASSUME NEW j \in 1 .. Len(audits[p]), d = audits[p][j]
      PROVE  Shown(q, d)
  BY <1>2 DEF Disclosures
<1>3. ASSUME SendFinalAudit(q), d = Disclosure(q)
      PROVE  Shown(q, d)
  <2> HIDE DEF q, d
  <2>1. pc[q] = "loop" /\ ~Ongoing(q)
    BY <1>3 DEF SendFinalAudit
  <2>2. OwnLog(q) = own[q] /\ engine[q] = Replay(Log(q))
    BY <1>0, <2>1, MemoryLogs DEF Sound, Live
  <2>3. d.digest = EndStateDigest(engine[q]) /\ d.nonces = Nonces(own[q])
    BY <1>3 DEF Disclosure, Nonces
  <2>4. Final(q)
    BY <2>1, <2>2 DEF Final, Over, Ongoing
  <2> QED BY <2>2, <2>3, <2>4 DEF Shown
<1>4. ASSUME EmergencyAudit(q), d = Disclosure(q)
      PROVE  /\ Final(q)' /\ d.nonces = Nonces(OwnLog(q)')
             /\ Unbroken(q)' => d.digest = EndStateDigest(Replay(Log(q)'))
  <2> HIDE DEF q, d
  <2>1. /\ pc[q] = "failed" /\ TechnicalLossReport(q) /\ own' = own /\ snapshot' = snapshot
    BY <1>4 DEF EmergencyAudit, memory
  <2>2. Reported(q) /\ TypesOfPeers
    BY <1>0 DEF Locals, Local, Types
  <2>3. pc'[q] = "done" /\ report'[q].error # "none"
    BY <1>0, <2>1, <2>2, LossReportEffect
  <2>4. OwnLog(q) = own[q] /\ OwnLog(q)' = OwnLog(q)
    <3>1. OwnLog(q)' = OwnLog(q)
      BY <2>1 DEF OwnLog
    <3> QED BY <1>0, <2>1, <3>1, MemoryLogs
  <2>5. d.nonces = Nonces(own[q])
    BY <1>4 DEF Disclosure, Nonces
  <2> QED BY <2>3, <2>4, <2>5 DEF Final, Unbroken
<1>5. /\ Final(q)' /\ d.nonces = Nonces(OwnLog(q)')
      /\ Unbroken(q)' => d.digest = EndStateDigest(Replay(Log(q)'))
  <2>1. \/ \E j \in 1 .. Len(audits[p]) : d = audits[p][j]
        \/ (SendFinalAudit(q) \/ EmergencyAudit(q)) /\ d = Disclosure(q)
    BY AuditsEffect
  <2> HIDE DEF q, d
  <2> QED BY <1>1, <1>2, <1>3, <1>4, <2>1
<1> QED BY <1>5 DEF Shown

\* How a game comes to be classified.
LEMMA ClassifiedBy ==
  ASSUME Types, Locals, [Next]_vars, NEW p \in Role, Classified(p)
  PROVE  ReceiveAudit(p) \/ report'[p].audit = "not received"
<1>0. Reported(p) /\ TypesOfPeers
  BY DEF Locals, Local, Types
<1>1. CASE Idle(p)
  BY <1>1 DEF Idle, Classified
<1>2. CASE UNCHANGED vars \/ \E m \in late : DeliverLate(m)
  BY <1>2 DEF vars, DeliverLate, Classified
<1>3. CASE Program(p) \/ LapseSlow(p) \/ Crash(p) \/ Restart(p)
  <2>1. CASE EmergencyAudit(p)
    <3>1. pc[p] = "failed" /\ TechnicalLossReport(p)
      BY <2>1 DEF EmergencyAudit
    <3> QED BY <1>0, <3>1, LossReportEffect
  <2>2. CASE LapseOverdue(p) \/ LapseSlow(p)
    <3>1. Expire(p)
      BY <2>2 DEF LapseOverdue, LapseSlow
    <3>2. CASE ExpireFails(p)
      BY <1>0, <3>2 DEF ExpireFails, Abandon, Classified, TypesOfPeers
    <3>3. CASE ExpireWaits(p)
      BY <1>0, <3>3 DEF ExpireWaits, Classified, TypesOfPeers
    <3>4. CASE ExpireSettles(p)
      BY <1>0, <3>4, SettleEffect DEF ExpireSettles
    <3>5. CASE ExpireReports(p)
      BY <1>0, <3>5, LossReportEffect DEF ExpireReports
    <3>6. CASE ExpireStops(p)
      BY <1>0, <3>6 DEF ExpireStops, Classified, TypesOfPeers
    <3> QED BY <3>1, <3>2, <3>3, <3>4, <3>5, <3>6, ExpireCases
  <2>3. CASE \/ SendCommit(p) \/ SendReveal(p) \/ ApplyOwn(p) \/ SendFinalAudit(p)
             \/ OfferResume(p) \/ Crash(p) \/ Restart(p)
    BY <1>0, <2>3 DEF SendCommit, SendReveal, ApplyOwn, SendFinalAudit, OfferResume, Crash,
       Restart, Classified, TypesOfPeers
  <2>4. CASE ReceiveDuplicate(p) \/ IgnoreOffer(p) \/ ResendCommit(p) \/ ResendReveal(p)
    BY <2>4 DEF ReceiveDuplicate, IgnoreOffer, ResendCommit, ResendReveal, Classified
  <2>5. CASE ReceiveConflict(p) \/ ReceiveEarly(p)
    BY <1>0, <2>5 DEF ReceiveConflict, ReceiveEarly, Fail, Abandon, Classified, TypesOfPeers
  <2>6. CASE ReceiveCommit(p)
    BY <1>0, <2>6 DEF ReceiveCommit, Fail, Abandon, Classified, TypesOfPeers
  <2>7. CASE ReceiveReveal(p)
    BY <1>0, <2>7 DEF ReceiveReveal, Fail, Abandon, Classified, TypesOfPeers
  <2> QED BY <1>3, <2>1, <2>2, <2>3, <2>4, <2>5, <2>6, <2>7 DEF Program
<1>4. CASE \E r \in Role : Program(r) \/ LapseSlow(r) \/ Crash(r) \/ Restart(r)
  <2>1. PICK r \in Role : Program(r) \/ LapseSlow(r) \/ Crash(r) \/ Restart(r)
    BY <1>4
  <2>2. CASE r = p
    BY <1>3, <2>1, <2>2
  <2>3. CASE r # p
    BY <1>1, <2>1, <2>3, RivalIdle
  <2> QED BY <2>2, <2>3
<1> QED BY <1>2, <1>4 DEF Next

\* A settled peer does nothing more.
LEMMA ClosedIdle ==
  ASSUME Types, Locals, [Next]_vars, NEW p \in Role, pc[p] = "done"
  PROVE  Idle(p)
<1>1. ~(Program(p) \/ LapseSlow(p) \/ Crash(p) \/ Restart(p))
  BY FinalMoves DEF Final
<1>2. CASE UNCHANGED vars
  BY <1>2 DEF vars, memory, Idle
<1>3. CASE \E m \in late : DeliverLate(m)
  BY <1>3 DEF DeliverLate, memory, Idle
<1>4. CASE \E r \in Role : Program(r) \/ LapseSlow(r) \/ Crash(r) \/ Restart(r)
  <2>1. PICK r \in Role : Program(r) \/ LapseSlow(r) \/ Crash(r) \/ Restart(r)
    BY <1>4
  <2>2. r # p
    BY <1>1, <2>1
  <2> QED BY <2>1, <2>2, RivalIdle
<1> QED BY <1>2, <1>3, <1>4 DEF Next

-----------------------------------------------------------------------------
(* Verdicts *)

\* p did not find its rival tampering.
Untampered(p) == pc[p] = "done" => report[p].audit # "TAMPERED"

\* What is disclosed is the final log, what is verified is that the counts and
\* nonces fit it, and nobody is found tampering unless a half-turn was cut off.
Closing ==
  Disclosures /\ Verdicts /\ (~torn => \A p \in Role : Untampered(p))

\* One nonce for each record.
LEMMA NoncesFacts ==
  ASSUME NEW s, Len(s) \in Nat
  PROVE  Len(Nonces(s)) = Len(s) /\ \A i \in 1 .. Len(s) : Nonces(s)[i] = s[i].nonce
BY DEF Nonces

\* What a peer reads when it classifies its game.
LEMMA AuditRead ==
  ASSUME Types, Types', Locals, Locals', Disclosures, [Next]_vars, NEW p \in Role, ReceiveAudit(p)
  PROVE  LET q == Rival(p)
             d == Head(audits[p])
         IN
         /\ pc[p] = "await_audit" /\ Shown(q, d) /\ d \in Disclosed
         /\ d.nonces \in Seq(Nat) /\ their[p] \in Seq(SeenRec)
         /\ their'[p] = WithNonces(their[p], d.nonces)
         /\ report'[p].error = "none" /\ report'[p].audit = AuditRecords(their[p], d.nonces)
         /\ report'[p].digest_match = (d.digest = EndStateDigest(engine[p]))
         /\ report'[p].audit # "TAMPERED" => report'[p].outcome = engine[p].outcome
         /\ Final(p) /\ engine[p] = Replay(Log(p))
<1> DEFINE q == Rival(p)
           d == Head(audits[p])
           verdict == AuditRecords(their[p], d.nonces)
           match == (d.digest = EndStateDigest(engine[p]))
<1>1. /\ pc[p] = "await_audit" /\ audits[p] # << >> /\ Settle(p, verdict, match)
      /\ their' = [their EXCEPT ![p] = WithNonces(@, d.nonces)]
  BY DEF ReceiveAudit, AwaitingAudit
<1>2. Shown(q, d) /\ d \in Disclosed
  <2>1. /\ Head(audits[p]) = audits[p][1] /\ 1 \in 1 .. Len(audits[p])
        /\ Head(audits[p]) \in Disclosed
    BY <1>1, DisclosedFacts
  <2> QED BY <2>1 DEF Disclosures
<1>3. d.nonces \in Seq(Nat)
  BY <1>2 DEF Disclosed
<1>4. verdict \in {"Verified OK", "TAMPERED", "not received"} /\ match \in BOOLEAN
  BY DEF AuditRecords
<1>5. their[p] \in Seq(SeenRec) /\ their'[p] = WithNonces(their[p], d.nonces)
  BY <1>1 DEF Types, TypesOfPeers
<1>6. engine[p] = Replay(Log(p)) /\ Final(p)
  <2>1. engine[p] = Replay(Log(p))
    BY <1>1, MemoryLogs DEF Sound, Live
  <2>2. ~Ongoing(p)
    BY <1>1 DEF Locals, Local, Busy
  <2> QED BY <1>1, <2>1, <2>2 DEF Final, Over, Ongoing
<1> HIDE DEF verdict, match
<1>7. /\ report'[p].error = "none" /\ report'[p].audit = verdict
      /\ report'[p].digest_match = match
      /\ verdict # "TAMPERED" => report'[p].outcome = engine[p].outcome
  BY <1>1, <1>4, SettleEffect DEF Types
<1> QED BY <1>1, <1>2, <1>3, <1>5, <1>6, <1>7 DEF verdict, match

\* A step keeps the verdicts true.
LEMMA VerdictsStep ==
  ASSUME Types, Types', Locals, Locals', Disclosures, Verdicts, [Next]_vars
  PROVE  Verdicts'
<1> SUFFICES ASSUME NEW p \in Role, pc'[p] = "done", report'[p].audit = "Verified OK"
             PROVE  Verdict(p)'
  BY DEF Verdicts, Verdict
<1> DEFINE q == Rival(p)
<1>0. q \in Role
  BY RivalFacts
<1> HIDE DEF q
\* what stays of a verdict once it is given
<1>1. ASSUME Final(q), Final(p), report'[p].error = "none",
             report'[p].outcome = Replay(Log(p)).outcome,
             Len(their'[p]) = Len(OwnLog(q)),
             \A i \in 1 .. Len(their'[p]) :
               /\ "nonce" \in DOMAIN their'[p][i] /\ their'[p][i].nonce = OwnLog(q)[i].nonce
               /\ their'[p][i].commit = CommitHash(their'[p][i].payload, their'[p][i].nonce),
             Unbroken(q) => report'[p].digest_match =
               (EndStateDigest(Replay(Log(q))) = EndStateDigest(Replay(Log(p))))
      PROVE  Verdict(p)'
  <2>1. Final(q)' /\ OwnLog(q)' = OwnLog(q) /\ Log(q)' = Log(q) /\ (Unbroken(q)' => Unbroken(q))
    BY <1>0, <1>1, FinalStep
  <2>2. Log(p)' = Log(p)
    BY <1>1, FinalStep
  <2>3. OwnLog(q)' = OwnLog(q) /\ Len(their'[p]) = Len(OwnLog(q)')
    BY <1>1, <2>1
  <2>4. Unbroken(q)' => report'[p].digest_match =
               (EndStateDigest(Replay(Log(q)')) = EndStateDigest(Replay(Log(p)')))
    BY <1>1, <2>1, <2>2
  <2>5. \A i \in 1 .. Len(their'[p]) :
               /\ "nonce" \in DOMAIN their'[p][i] /\ their'[p][i].nonce = OwnLog(q)'[i].nonce
               /\ their'[p][i].commit = CommitHash(their'[p][i].payload, their'[p][i].nonce)
    BY <1>1, <2>1
  <2> QED BY <1>1, <2>1, <2>2, <2>3, <2>4, <2>5 DEF Verdict, q
<1>2. CASE pc[p] = "done"
  <2>1. report'[p] = report[p] /\ their'[p] = their[p]
    BY <1>2, ClosedIdle DEF Idle
  <2>2. Final(p)
    BY <1>2 DEF Final
  <2>3. Verdict(p) /\ report[p].audit = "Verified OK"
    BY <2>1 DEF Verdicts
  <2>4. /\ report'[p].error = "none" /\ report'[p].outcome = Replay(Log(p)).outcome
        /\ Final(q) /\ Len(their'[p]) = Len(OwnLog(q))
        /\ \A i \in 1 .. Len(their'[p]) :
             /\ "nonce" \in DOMAIN their'[p][i] /\ their'[p][i].nonce = OwnLog(q)[i].nonce
             /\ their'[p][i].commit = CommitHash(their'[p][i].payload, their'[p][i].nonce)
        /\ Unbroken(q) => report'[p].digest_match =
             (EndStateDigest(Replay(Log(q))) = EndStateDigest(Replay(Log(p))))
    BY <1>2, <2>1, <2>3 DEF Verdict, q
  <2> QED BY <1>1, <2>2, <2>4
<1>3. CASE pc[p] # "done"
  <2>1. ReceiveAudit(p)
    BY <1>3, ClassifiedBy DEF Classified
  <2> DEFINE d == Head(audits[p])
             t == their[p]
             u == WithNonces(t, d.nonces)
  <2>2. /\ pc[p] = "await_audit" /\ Shown(q, d)
        /\ d.nonces \in Seq(Nat) /\ t \in Seq(SeenRec) /\ their'[p] = u
        /\ report'[p].error = "none" /\ report'[p].audit = AuditRecords(t, d.nonces)
        /\ report'[p].digest_match = (d.digest = EndStateDigest(engine[p]))
        /\ report'[p].outcome = engine[p].outcome
        /\ Final(p) /\ engine[p] = Replay(Log(p))
    BY <2>1, AuditRead DEF q
  <2> HIDE DEF d
  <2>3. /\ Len(t) = Len(d.nonces)
        /\ \A i \in 1 .. Len(t) : t[i].commit = CommitHash(t[i].payload, d.nonces[i])
    BY <2>2 DEF AuditRecords
  <2>4. /\ SameRecords(u, t)
        /\ \A i \in 1 .. Len(t) : "nonce" \in DOMAIN u[i] /\ u[i].nonce = d.nonces[i]
    BY <2>2, <2>3, WithNoncesTypes
  <2> HIDE DEF u, t
  <2>5. /\ Len(u) = Len(t)
        /\ \A i \in 1 .. Len(u) : u[i].payload = t[i].payload /\ u[i].commit = t[i].commit
    BY <2>4 DEF SameRecords
  <2>6. OwnLog(q) \in Seq(SealedRec) /\ Len(OwnLog(q)) \in Nat
    <3>1. own[q] \in Seq(SealedRec) /\ snapshot[q] \in Snap \cup {None}
      BY <1>0 DEF Types, TypesOfPeers
    <3>2. snapshot[q] # None => snapshot[q].own \in Seq(SealedRec)
      BY <3>1 DEF Snap
    <3>3. OwnLog(q) \in Seq(SealedRec)
      BY <3>1, <3>2 DEF OwnLog
    <3> QED BY <3>3, LenProperties
  <2>7. /\ Final(q) /\ d.nonces = Nonces(OwnLog(q))
        /\ Unbroken(q) => d.digest = EndStateDigest(Replay(Log(q)))
    BY <2>2 DEF Shown
  <2>8. /\ Len(d.nonces) = Len(OwnLog(q))
        /\ \A i \in 1 .. Len(OwnLog(q)) : d.nonces[i] = OwnLog(q)[i].nonce
    BY <2>6, <2>7, NoncesFacts
  <2>9. \A i \in 1 .. Len(u) :
          /\ "nonce" \in DOMAIN u[i] /\ u[i].nonce = OwnLog(q)[i].nonce
          /\ u[i].commit = CommitHash(u[i].payload, u[i].nonce)
    BY <2>3, <2>4, <2>5, <2>8
  <2>10. Len(u) = Len(OwnLog(q))
    BY <2>3, <2>5, <2>8
  <2>11. report'[p].outcome = Replay(Log(p)).outcome
    BY <2>2
  <2>12. Unbroken(q) => report'[p].digest_match =
             (EndStateDigest(Replay(Log(q))) = EndStateDigest(Replay(Log(p))))
    BY <2>2, <2>7
  <2> QED BY <1>1, <2>2, <2>7, <2>9, <2>10, <2>11, <2>12
<1> QED BY <1>2, <1>3

\* The rival of a finished game has sealed nothing that is not in it.
LEMMA WholeLog ==
  ASSUME Types, Locals, ~torn, NEW p \in Role, Heard(p), Heard(Rival(p)),
         pc[p] = "await_audit", Over(p), Final(Rival(p))
  PROVE  Len(TheirLog(p)) = Len(OwnLog(Rival(p))) /\ TheirLog(p) = their[p]
<1> DEFINE q == Rival(p)
           n == Len(TheirLog(p))
           m == Len(OwnLog(q))
<1>0. q \in Role /\ Rival(q) = p
  BY RivalFacts
<1>1. n \in Nat /\ m \in Nat /\ TheirLog(p) = their[p]
      /\ LogOK(p, OwnLog(p), TheirLog(p)) /\ LogOK(q, OwnLog(q), TheirLog(q))
      /\ Len(OwnLog(p)) \in Nat /\ Len(TheirLog(q)) \in Nat
  BY <1>0, KeptLogs DEF Live
<1>2. n <= m
  <2>1. pc[q] # "applying"
    BY DEF Final
  <2> QED BY <1>1, <2>1, HeardLength
<1>3. m <= n
  <2>1. /\ Len(Log(p)) = Len(OwnLog(p)) + n /\ Len(Log(q)) = m + Len(TheirLog(q))
        /\ Legal(Log(p)) /\ Legal(Log(q)) /\ Log(q) \in Seq(Payload) /\ Log(p) \in Seq(Payload)
        /\ Len(Log(p)) \in Nat /\ Len(Log(q)) \in Nat
    BY <1>0, LogsFacts
  <2>2. CASE Len(Log(p)) < Len(Log(q))
    <3>1. Log(p) = SubSeq(Log(q), 1, Len(Log(p)))
      BY <2>1, <2>2, LogPrefix
    <3>2. Len(Log(p)) \in 0 .. Len(Log(q))
      BY <2>1, <2>2
    <3>3. Replay(SubSeq(Log(q), 1, Len(Log(p)))).outcome = "ongoing"
      BY <2>1, <2>2, <3>2, LegalPart
    <3> QED BY <3>1, <3>3 DEF Over
  <2>3. CASE Len(Log(q)) <= Len(Log(p))
    <3>1. CASE m = 0
      BY <1>1, <3>1
    <3>2. CASE m # 0
      <4>1. Balanced(q, m, Len(TheirLog(q))) /\ Balanced(p, Len(OwnLog(p)), n)
        BY <1>1 DEF LogOK, Aligned
      <4> HIDE DEF q, m, n
      <4>2. m \in Nat \ {0} /\ Slot(q, m) \in Nat
        BY <1>0, <1>1, <3>2, SlotFacts
      <4>3. Slot(q, m) <= m + Len(TheirLog(q))
        BY <1>0, <1>1, <4>1, <4>2, SlotRange
      <4>4. Slot(q, m) <= Len(OwnLog(p)) + n
        BY <1>1, <2>1, <2>3, <4>2, <4>3
      <4> QED BY <1>0, <1>1, <4>1, <4>2, <4>4, SlotRange DEF q
    <3> QED BY <3>1, <3>2
  <2> QED BY <2>1, <2>2, <2>3
<1> QED BY <1>1, <1>2, <1>3

\* An untorn audit verifies.
LEMMA UntamperedStep ==
  ASSUME Types, Types', Locals, Locals', Disclosures, ~torn, Faithful, [Next]_vars,
         NEW p \in Role, Untampered(p)
  PROVE  Untampered(p)'
<1> SUFFICES ASSUME pc'[p] = "done" PROVE report'[p].audit # "TAMPERED"
  BY DEF Untampered
<1>1. CASE pc[p] = "done"
  BY <1>1, ClosedIdle DEF Idle, Untampered
<1>2. CASE pc[p] # "done" /\ ReceiveAudit(p)
  <2> DEFINE d == Head(audits[p])
             q == Rival(p)
  <2>1. /\ pc[p] = "await_audit" /\ Shown(q, d)
        /\ report'[p].audit = AuditRecords(their[p], d.nonces)
        /\ Final(p) /\ q \in Role
    BY <1>2, AuditRead, RivalFacts
  <2>2. Over(p) /\ Final(q) /\ d.nonces = Nonces(OwnLog(q))
    BY <2>1 DEF Final, Shown
  <2>3. Len(TheirLog(p)) = Len(OwnLog(q)) /\ TheirLog(p) = their[p]
    BY <2>1, <2>2, WholeLog DEF Faithful
  <2>4. OwnLog(q) \in Seq(SealedRec) /\ SealedLog(OwnLog(q)) /\ Len(OwnLog(q)) \in Nat
    BY <2>1, KeptLogs
  <2> HIDE DEF d, q
  <2>5. /\ Len(d.nonces) = Len(OwnLog(q))
        /\ \A i \in 1 .. Len(OwnLog(q)) : d.nonces[i] = OwnLog(q)[i].nonce
    BY <2>2, <2>4, NoncesFacts
  <2>6. ASSUME NEW i \in 1 .. Len(their[p])
        PROVE  their[p][i].commit = CommitHash(their[p][i].payload, d.nonces[i])
    <3>1. i \in 1 .. Len(OwnLog(q)) /\ RecordOf(q, i) = OwnLog(q)[i]
      BY <2>3, <2>4 DEF RecordOf
    <3>2. their[p][i].payload = OwnLog(q)[i].payload /\ their[p][i].commit = OwnLog(q)[i].commit
      BY <2>3, <3>1 DEF Faithful, Heard, q
    <3>3. OwnLog(q)[i].commit = CommitHash(OwnLog(q)[i].payload, OwnLog(q)[i].nonce)
      BY <2>4, <3>1 DEF SealedLog
    <3> QED BY <2>5, <3>1, <3>2, <3>3
  <2>7. AuditRecords(their[p], d.nonces) = "Verified OK"
    BY <2>3, <2>5, <2>6 DEF AuditRecords
  <2> QED BY <2>1, <2>7
<1>3. CASE pc[p] # "done" /\ ~ReceiveAudit(p)
  BY <1>3, ClassifiedBy DEF Classified
<1> QED BY <1>1, <1>2, <1>3

\* Closing holds initially.
LEMMA InitClosing == Init => Closing
<1> SUFFICES ASSUME Init PROVE Closing
  OBVIOUS
<1>1. \A p \in Role : audits[p] = << >> /\ pc[p] = "loop"
  BY DEF Init
<1>2. Disclosures
  BY <1>1 DEF Disclosures
<1> QED BY <1>1, <1>2 DEF Closing, Verdicts, Verdict, Untampered

\* Closing is inductive, given IInv.
LEMMA ClosingStep == IInv /\ IInv' /\ Closing /\ [Next]_vars => Closing'
<1> SUFFICES ASSUME IInv, IInv', Closing, [Next]_vars PROVE Closing'
  OBVIOUS
<1>1. Types /\ Types' /\ Locals /\ Locals' /\ (~torn => Faithful) /\ Disclosures /\ Verdicts
  BY DEF IInv, Closing
<1>2. Disclosures' /\ Verdicts'
  BY <1>1, DisclosuresStep, VerdictsStep
<1>3. ASSUME ~torn', NEW p \in Role PROVE Untampered(p)'
  <2>1. ~torn /\ Untampered(p)
    BY <1>1, <1>3, TornStays DEF Closing
  <2> QED BY <1>1, <2>1, UntamperedStep
<1> QED BY <1>2, <1>3 DEF Closing

\* In every run, an audit discloses the sender's final log (_finish, peer/runtime.py) and a
\* verdict is about that log.
THEOREM Closes == Spec => [](IInv /\ Closing)
<1>1. Init /\ IInv => IInv /\ Closing
  BY InitClosing
<1> QED BY InitClosing, ClosingStep, Induction, PTL DEF Spec

\* An honest peer is never accused: neither of a conflicting commit, an illegal
\* action or a flood, nor of a forged record at the audit.
NeverAccused ==
  ~torn => \A p \in Role : report[p] # None =>
    /\ report[p].error \in {"none", "deadline"}
    /\ "audit" \in DOMAIN report[p] => report[p].audit # "TAMPERED"

\* No honest peer is ever accused, of a conflicting commit, an echoed role, an
\* illegal action, a flood or a forged record, however many crashes, copies
\* and lapses there are, unless a half-turn was cut off after its commit left.
THEOREM Honest == Spec => []NeverAccused
<1>1. IInv /\ Closing => NeverAccused
  <2> SUFFICES ASSUME IInv, Closing, ~torn, NEW p \in Role, report[p] # None
               PROVE  /\ report[p].error \in {"none", "deadline"}
                      /\ "audit" \in DOMAIN report[p] => report[p].audit # "TAMPERED"
    BY DEF NeverAccused
  <2>1. Blameless(p) /\ Reported(p) /\ Untampered(p)
    BY DEF IInv, Closing, Faithful, Locals, Local
  <2> QED BY <2>1 DEF Blameless, Reported, Untampered
<1> QED BY <1>1, Closes, PTL

-----------------------------------------------------------------------------
(* Commits name one decision *)

\* The commits of a log.
CommitsOf(s) == {s[i].commit : i \in 1 .. Len(s)}

\* The commits of a peer's records that the peer, the network or the rival holds.
Made(r) ==
  CommitsOf(own[r]) \cup CommitsOf(OwnLog(r))
  \cup (IF draft[r] = None THEN {} ELSE {draft[r].commit})

\* The commits r has under way.
Travelling(r) == {m.commit : m \in {x \in Sent(r) : x.kind = "commit"}}

\* The commits q holds of its rival.
Noted(q) == CommitsOf(their[q]) \cup CommitsOf(TheirLog(q)) \cup ({locked[q]} \ {None})

\* All commits r ever made that somebody still holds.
Known(r) == Made(r) \cup Travelling(r) \cup Noted(Rival(r))

\* No step is decided twice by one incarnation ...
Unique(r) ==
  \A c, d \in Known(r) : c.nonce = d.nonce /\ c.payload.step = d.payload.step => c = d

\* ... for what this one has decided is behind it.
Stamp(r, c) ==
  /\ c.nonce <= incarnation[r]
  /\ c.nonce = incarnation[r] =>
       \/ pc[r] \in {"failed", "done"}
       \/ pc[r] \notin {"down", "offering"} /\ c.payload.step < Step(r)
       \/ pc[r] \in {"revealing", "applying"} /\ c = draft[r].commit

\* So are all of them.
Stamped(r) == \A c \in Known(r) : c \in Commit /\ Stamp(r, c)

\* A commit that was not there before.
New(r, n) ==
  /\ MyTurn(r) /\ n \in Commit /\ n.nonce = incarnation[r] /\ n.payload.step = Step(r)
  /\ (SendCommit(r) /\ n = draft'[r].commit) \/ (LapseSlow(r) /\ pc'[r] = "failed")

\* One more record adds its commit.
LEMMA CommitsGrow ==
  ASSUME NEW S, NEW s \in Seq(S), NEW e \in S
  PROVE  CommitsOf(Append(s, e)) \subseteq CommitsOf(s) \cup {e.commit}
<1>1. /\ Len(Append(s, e)) = Len(s) + 1 /\ Len(s) \in Nat
      /\ \A i \in 1 .. Len(s) : Append(s, e)[i] = s[i]
      /\ Append(s, e)[Len(s) + 1] = e
  BY AppendProperties, LenProperties
<1> DEFINE n == Len(s)
           t == Append(s, e)
<1> HIDE DEF n, t
<1>2. ASSUME NEW i \in 1 .. n + 1 PROVE t[i].commit \in CommitsOf(s) \cup {e.commit}
  <2>1. CASE i = n + 1
    BY <1>1, <2>1 DEF n, t
  <2>2. CASE i # n + 1
    <3>1. i \in 1 .. n
      BY <1>1, <2>2 DEF n
    <3> QED BY <1>1, <3>1 DEF n, t, CommitsOf
  <2> QED BY <2>1, <2>2
<1>3. CommitsOf(t) = {t[i].commit : i \in 1 .. n + 1}
  BY <1>1 DEF CommitsOf, n, t
<1>4. CommitsOf(t) \subseteq CommitsOf(s) \cup {e.commit}
  BY <1>2, <1>3
<1> QED BY <1>4 DEF t

\* A step that decides nothing.
LEMMA MadeFrame ==
  ASSUME NEW r \in Role, CommitsOf(own'[r]) \subseteq Made(r), draft'[r] \in {None, draft[r]},
         \/ snapshot'[r] \in {None, snapshot[r]}
         \/ snapshot'[r] # None /\ snapshot'[r].own = own'[r]
  PROVE  Made(r)' \subseteq Made(r)
<1>1. OwnLog(r)' = OwnLog(r) \/ OwnLog(r)' = own'[r]
  BY DEF OwnLog
<1>2. CommitsOf(OwnLog(r))' \subseteq Made(r)
  <2>1. CASE OwnLog(r)' = OwnLog(r)
    BY <2>1 DEF CommitsOf, Made
  <2>2. CASE OwnLog(r)' = own'[r]
    BY <2>2 DEF CommitsOf
  <2> QED BY <1>1, <2>1, <2>2
<1>3. CommitsOf(own[r])' \subseteq Made(r)
  BY DEF CommitsOf
<1>4. (IF draft[r] = None THEN {} ELSE {draft[r].commit})' \subseteq Made(r)
  BY DEF Made
<1> QED BY <1>2, <1>3, <1>4 DEF Made

\* A step that notes known commits only.
LEMMA NotedFrame ==
  ASSUME NEW q \in Role, NEW X, Noted(q) \subseteq X, CommitsOf(their'[q]) \subseteq X,
         locked'[q] \in X \cup {None, locked[q]},
         \/ snapshot'[q] \in {None, snapshot[q]}
         \/ snapshot'[q] # None /\ snapshot'[q].their = their'[q]
  PROVE  Noted(q)' \subseteq X
<1>1. TheirLog(q)' = TheirLog(q) \/ TheirLog(q)' = their'[q]
  BY DEF TheirLog
<1>2. CommitsOf(TheirLog(q))' \subseteq X
  <2>1. CASE TheirLog(q)' = TheirLog(q)
    BY <2>1 DEF CommitsOf, Noted
  <2>2. CASE TheirLog(q)' = their'[q]
    BY <2>2 DEF CommitsOf
  <2> QED BY <1>1, <2>1, <2>2
<1>3. CommitsOf(their[q])' \subseteq X
  BY DEF CommitsOf
<1>4. ({locked[q]} \ {None})' \subseteq X
  BY DEF Noted
<1> QED BY <1>2, <1>3, <1>4 DEF Noted

\* What a lapse does to the logs: nothing.
LEMMA LapseFiles ==
  ASSUME Types, NEW p \in Role, LapseOverdue(p) \/ LapseSlow(p)
  PROVE  /\ own' = own /\ their' = their /\ draft' = draft /\ locked' = locked
         /\ snapshot'[p] \in {None, snapshot[p]}
<1>1. Expire(p) /\ UNCHANGED <<own, their, draft, locked>>
  BY DEF LapseOverdue, LapseSlow
<1>2. snapshot' = snapshot \/ \E v, m : Settle(p, v, m)
  BY <1>1 DEF Expire
<1>3. ASSUME NEW v, NEW m, Settle(p, v, m) PROVE snapshot'[p] \in {None, snapshot[p]}
  BY <1>3 DEF Settle, Types, TypesOfPeers
<1> QED BY <1>1, <1>2, <1>3

\* What a reveal does to the logs.
LEMMA RevealFiles ==
  ASSUME Types, Types', Locals, NEW p \in Role, ReceiveReveal(p)
  PROVE  /\ own' = own /\ draft' = draft /\ locked'[p] = None /\ locked[p] # None
         /\ CommitsOf(their'[p]) \subseteq CommitsOf(their[p]) \cup {locked[p]}
         /\ \/ snapshot' = snapshot
            \/ snapshot'[p] # None /\ snapshot'[p].own = own'[p] /\ snapshot'[p].their = their'[p]
<1> DEFINE r == [payload |-> Message(p).payload, commit |-> locked[p]]
<1>1. /\ own' = own /\ their' = [their EXCEPT ![p] = Append(@, r)] /\ r \in SeenRec
      /\ pc[p] = "await_reveal" /\ consumed'[p] \in SUBSET (Kinds \X Nat)
  <2>1. Busy(p)
    BY DEF Locals, Local
  <2> QED BY <2>1, ReceiveRevealEffect
<1>2. draft' = draft /\ locked' = [locked EXCEPT ![p] = None]
  BY DEF ReceiveReveal
<1>3. their[p] \in Seq(SeenRec) /\ their'[p] = Append(their[p], r) /\ locked'[p] = None
  BY <1>1, <1>2 DEF Types, TypesOfPeers
<1>4. r.commit = locked[p]
  OBVIOUS
<1>5. locked[p] # None
  BY <1>1 DEF Locals, Local, Busy
<1>6. CommitsOf(their'[p]) \subseteq CommitsOf(their[p]) \cup {locked[p]}
  <2> HIDE DEF r
  <2>1. CommitsOf(Append(their[p], r)) \subseteq CommitsOf(their[p]) \cup {r.commit}
    BY <1>1, <1>3, CommitsGrow
  <2> QED BY <1>3, <1>4, <2>1
<1>7. snapshot' = snapshot \/ Checkpoint(p)
  BY DEF ReceiveReveal
<1>8. CASE Checkpoint(p)
  <2>1. own'[p] \in Seq(SealedRec) /\ engine'[p] \in EngineType /\ their'[p] \in Seq(SeenRec)
    BY DEF Types, TypesOfPeers
  <2>2. /\ snapshot'[p] # None
        /\ snapshot'[p] = BuildSnapshot(own'[p], their'[p], consumed'[p], engine'[p])
    BY <1>1, <1>8, <2>1, CheckpointEffect
  <2>3. snapshot'[p].own = own'[p] /\ snapshot'[p].their = their'[p]
    BY <2>2 DEF BuildSnapshot
  <2> QED BY <1>1, <1>2, <1>3, <1>5, <1>6, <2>2, <2>3
<1> QED BY <1>1, <1>2, <1>3, <1>5, <1>6, <1>7, <1>8

\* What applying one's own half-turn does to the logs.
LEMMA ApplyFiles ==
  ASSUME Types, Types', Locals, NEW p \in Role, ApplyOwn(p)
  PROVE  /\ their' = their /\ draft'[p] = None /\ draft[p] # None /\ locked' = locked
         /\ CommitsOf(own'[p]) \subseteq CommitsOf(own[p]) \cup {draft[p].commit}
         /\ snapshot'[p] # None /\ snapshot'[p].own = own'[p] /\ snapshot'[p].their = their'[p]
<1>1. /\ pc[p] = "applying" /\ own' = [own EXCEPT ![p] = Append(@, draft[p])]
      /\ draft' = [draft EXCEPT ![p] = None] /\ Checkpoint(p)
      /\ UNCHANGED <<their, locked, consumed>>
  BY DEF ApplyOwn
<1>2. draft[p] # None /\ draft[p] \in SealedRec
  BY <1>1, ApplyingDrafts DEF Types, TypesOfPeers
<1>3. own[p] \in Seq(SealedRec) /\ own'[p] = Append(own[p], draft[p]) /\ draft'[p] = None
  BY <1>1 DEF Types, TypesOfPeers
<1>4. CommitsOf(own'[p]) \subseteq CommitsOf(own[p]) \cup {draft[p].commit}
  BY <1>2, <1>3, CommitsGrow
<1>5. /\ own'[p] \in Seq(SealedRec) /\ engine'[p] \in EngineType /\ their'[p] \in Seq(SeenRec)
      /\ consumed'[p] \in SUBSET (Kinds \X Nat)
  BY DEF Types, TypesOfPeers
<1>6. /\ snapshot'[p] # None
      /\ snapshot'[p] = BuildSnapshot(own'[p], their'[p], consumed'[p], engine'[p])
  BY <1>1, <1>5, CheckpointEffect
<1>7. snapshot'[p].own = own'[p] /\ snapshot'[p].their = their'[p]
  BY <1>6 DEF BuildSnapshot
<1> QED BY <1>1, <1>2, <1>3, <1>4, <1>6, <1>7

\* What an audit does to the logs.
LEMMA AuditFiles ==
  ASSUME Types, Types', Locals, NEW p \in Role, ReceiveAudit(p)
  PROVE  /\ own' = own /\ draft' = draft /\ locked' = locked
         /\ CommitsOf(their'[p]) = CommitsOf(their[p])
         /\ snapshot'[p] \in {None, snapshot[p]}
<1> DEFINE d == Head(audits[p])
<1>1. /\ their' = [their EXCEPT ![p] = WithNonces(@, d.nonces)] /\ audits[p] # << >>
      /\ \E v, m : Settle(p, v, m)
      /\ own' = own /\ draft' = draft /\ locked' = locked
  BY DEF ReceiveAudit
<1>2. d \in Disclosed
  BY <1>1, DisclosedFacts
<1>3. d.nonces \in Seq(Nat)
  BY <1>2 DEF Disclosed
<1> HIDE DEF d
<1>4. their[p] \in Seq(SeenRec) /\ their'[p] = WithNonces(their[p], d.nonces)
  BY <1>1 DEF Types, TypesOfPeers
<1>5. SameRecords(their'[p], their[p])
  BY <1>3, <1>4, WithNoncesTypes
<1>6. CommitsOf(their'[p]) = CommitsOf(their[p])
  BY <1>5 DEF SameRecords, CommitsOf
<1>7. snapshot'[p] \in {None, snapshot[p]}
  BY <1>1 DEF Settle, Types, TypesOfPeers
<1> QED BY <1>1, <1>6, <1>7

\* A commit is made by SendCommit alone.
LEMMA MadeStep ==
  ASSUME Types, Types', Locals, [Next]_vars, NEW r \in Role, NEW c \in Made(r)'
  PROVE  c \in Made(r) \/ (SendCommit(r) /\ c = draft'[r].commit)
<1>0. CommitsOf(own[r]) \subseteq Made(r) /\ CommitsOf(OwnLog(r)) \subseteq Made(r)
  BY DEF Made
<1>1. CASE own'[r] = own[r] /\ draft'[r] \in {None, draft[r]} /\ snapshot'[r] \in {None, snapshot[r]}
  BY <1>0, <1>1, MadeFrame
<1>2. CASE Idle(r)
  BY <1>1, <1>2 DEF Idle
<1>3. CASE UNCHANGED vars \/ \E m \in late : DeliverLate(m)
  BY <1>1, <1>3 DEF vars, memory, DeliverLate
<1>4. CASE Program(r) \/ LapseSlow(r) \/ Crash(r) \/ Restart(r)
  <2>1. CASE SendCommit(r)
    <3>1. own' = own /\ snapshot' = snapshot
      BY <2>1 DEF SendCommit
    <3>2. OwnLog(r)' = OwnLog(r)
      BY <3>1 DEF OwnLog
    <3> QED BY <2>1, <3>1, <3>2 DEF Made, CommitsOf
  <2>2. CASE ApplyOwn(r)
    <3>1. CommitsOf(own'[r]) \subseteq Made(r)
      BY <2>2, ApplyFiles DEF Made
    <3> QED BY <2>2, <3>1, ApplyFiles, MadeFrame
  <2>3. CASE ReceiveReveal(r)
    BY <1>0, <2>3, RevealFiles, MadeFrame
  <2>4. CASE ReceiveAudit(r)
    BY <1>1, <2>4, AuditFiles
  <2>5. CASE LapseOverdue(r) \/ LapseSlow(r)
    BY <1>1, <2>5, LapseFiles
  <2>6. CASE Crash(r)
    <3>1. own'[r] = << >> /\ draft'[r] = None /\ snapshot' = snapshot
      BY <2>6 DEF Crash, Types, TypesOfPeers
    <3>2. CommitsOf(own'[r]) = {}
      BY <3>1 DEF CommitsOf
    <3> QED BY <3>1, <3>2, MadeFrame
  <2>7. CASE Restart(r)
    <3>1. own'[r] = OwnLog(r) /\ draft' = draft /\ snapshot' = snapshot
      BY <2>7 DEF Restart, OwnLog, Types, TypesOfPeers
    <3> QED BY <1>0, <3>1, MadeFrame
  <2>8. CASE \/ SendReveal(r) \/ ReceiveDuplicate(r) \/ ReceiveConflict(r) \/ ReceiveEarly(r)
             \/ ReceiveCommit(r) \/ SendFinalAudit(r) \/ EmergencyAudit(r) \/ OfferResume(r)
             \/ IgnoreOffer(r) \/ ResendCommit(r) \/ ResendReveal(r)
    BY <1>1, <2>8 DEF SendReveal, ReceiveDuplicate, ReceiveConflict, ReceiveEarly, ReceiveCommit,
       SendFinalAudit, EmergencyAudit, OfferResume, IgnoreOffer, ResendCommit, ResendReveal, memory
  <2> QED BY <1>4, <2>1, <2>2, <2>3, <2>4, <2>5, <2>6, <2>7, <2>8 DEF Program
<1>5. CASE \E p \in Role : Program(p) \/ LapseSlow(p) \/ Crash(p) \/ Restart(p)
  <2>1. PICK p \in Role : Program(p) \/ LapseSlow(p) \/ Crash(p) \/ Restart(p)
    BY <1>5
  <2>2. CASE p = r
    BY <1>4, <2>1, <2>2
  <2>3. CASE p # r
    BY <1>2, <2>1, <2>3, RivalIdle
  <2> QED BY <2>2, <2>3
<1> QED BY <1>3, <1>5 DEF Next

\* A peer notes what travelled to it.
LEMMA NotedStep ==
  ASSUME Types, Types', Locals, [Next]_vars, NEW q \in Role
  PROVE  Noted(q)' \subseteq Noted(q) \cup Travelling(Rival(q))
<1> DEFINE X == Noted(q) \cup Travelling(Rival(q))
<1>0. CommitsOf(their[q]) \subseteq X /\ CommitsOf(TheirLog(q)) \subseteq X /\ Noted(q) \subseteq X
  BY DEF Noted
<1> SUFFICES Noted(q)' \subseteq X
  OBVIOUS
<1>9. X = Noted(q) \cup Travelling(Rival(q))
  OBVIOUS
<1> HIDE DEF X
<1>1. ASSUME their'[q] = their[q], locked'[q] \in {None, locked[q]},
             snapshot'[q] \in {None, snapshot[q]}
      PROVE  Noted(q)' \subseteq X
  BY <1>0, <1>1, NotedFrame
<1>2. CASE Idle(q)
  BY <1>1, <1>2 DEF Idle
<1>3. CASE UNCHANGED vars \/ \E m \in late : DeliverLate(m)
  BY <1>1, <1>3 DEF vars, memory, DeliverLate
<1>4. CASE Program(q) \/ LapseSlow(q) \/ Crash(q) \/ Restart(q)
  <2>2. CASE ApplyOwn(q)
    <3> QED BY <1>0, <2>2, ApplyFiles, NotedFrame
  <2>3. CASE ReceiveReveal(q)
    <3>1. locked[q] \in X
      BY <1>9, <2>3, RevealFiles DEF Noted
    <3> QED BY <1>0, <2>3, <3>1, RevealFiles, NotedFrame
  <2>4. CASE ReceiveAudit(q)
    <3> QED BY <1>0, <2>4, AuditFiles, NotedFrame
  <2>5. CASE LapseOverdue(q) \/ LapseSlow(q)
    BY <1>1, <2>5, LapseFiles
  <2>6. CASE Crash(q)
    <3>1. their'[q] = << >> /\ locked'[q] = None /\ snapshot' = snapshot
      BY <2>6 DEF Crash, Types, TypesOfPeers
    <3>2. CommitsOf(their'[q]) = {}
      BY <3>1 DEF CommitsOf
    <3> QED BY <1>0, <3>1, <3>2, NotedFrame
  <2>7. CASE Restart(q)
    <3>1. their'[q] = TheirLog(q) /\ locked' = locked /\ snapshot' = snapshot
      BY <2>7 DEF Restart, TheirLog, Types, TypesOfPeers
    <3> QED BY <1>0, <3>1, NotedFrame
  <2>8. CASE ReceiveCommit(q)
    <3>1. /\ their' = their /\ snapshot' = snapshot /\ HasMessage(q)
          /\ Message(q).kind = "commit"
          /\ locked'[q] \in {locked[q], Message(q).commit}
      BY <2>8 DEF ReceiveCommit, Types, TypesOfPeers
    <3>2. Message(q).commit \in X
      BY <1>9, <3>1, MessageSent DEF Travelling
    <3> QED BY <1>0, <3>1, <3>2, NotedFrame
  <2>9. CASE \/ SendCommit(q) \/ SendReveal(q) \/ ReceiveDuplicate(q) \/ ReceiveConflict(q)
             \/ ReceiveEarly(q) \/ SendFinalAudit(q) \/ EmergencyAudit(q) \/ OfferResume(q)
             \/ IgnoreOffer(q) \/ ResendCommit(q) \/ ResendReveal(q)
    BY <1>1, <2>9 DEF SendCommit, SendReveal, ReceiveDuplicate, ReceiveConflict, ReceiveEarly,
       SendFinalAudit, EmergencyAudit, OfferResume, IgnoreOffer, ResendCommit, ResendReveal, memory
  <2> QED BY <1>4, <2>2, <2>3, <2>4, <2>5, <2>6, <2>7, <2>8, <2>9 DEF Program
<1>5. CASE \E p \in Role : Program(p) \/ LapseSlow(p) \/ Crash(p) \/ Restart(p)
  <2>1. PICK p \in Role : Program(p) \/ LapseSlow(p) \/ Crash(p) \/ Restart(p)
    BY <1>5
  <2>2. CASE p = q
    BY <1>4, <2>1, <2>2
  <2>3. CASE p # q
    BY <1>2, <2>1, <2>3, RivalIdle
  <2> QED BY <2>2, <2>3
<1> QED BY <1>3, <1>5 DEF Next

-----------------------------------------------------------------------------
(* A step keeps the decisions apart *)

\* The commit SendCommit sends is a new decision.
LEMMA SentCommit ==
  ASSUME Types, Locals, NEW r \in Role, SendCommit(r)
  PROVE  New(r, draft'[r].commit) /\ pc'[r] = "revealing"
<1>1. PICK a \in Choice :
        LET s == SealedRecord(StepPayload(Step(r), r, a), incarnation[r]) IN
        /\ draft'[r] = s /\ s \in SealedRec
        /\ s.payload = StepPayload(Step(r), r, a)
        /\ s.commit = CommitHash(s.payload, s.nonce)
  BY SendFacts
<1> DEFINE s == SealedRecord(StepPayload(Step(r), r, a), incarnation[r])
<1>2. s.commit.nonce = incarnation[r] /\ s.commit.payload.step = Step(r)
  BY DEF SealedRecord, CommitHash, StepPayload
<1>3. s.commit \in Commit
  BY <1>1 DEF SealedRec, Commit
<1>4. MyTurn(r) /\ pc'[r] = "revealing"
  BY DEF SendCommit, Types, TypesOfPeers
<1> QED BY <1>1, <1>2, <1>3, <1>4 DEF New

\* So is the one whose acknowledgement was not awaited.
LEMMA LapsedCommit ==
  ASSUME Types, Locals, NEW r \in Role, LapseSlow(r), NEW u \in Unacknowledged(r),
         u.kind = "commit"
  PROVE  New(r, u.commit) /\ pc'[r] = "failed"
<1>1. MyTurn(r) /\ \E a \in Choice :
        u = CommitMessage(SealedRecord(StepPayload(Step(r), r, a), incarnation[r]))
  <2>1. pc[r] # "revealing"
    BY DEF Unacknowledged, RevealMessage
  <2> QED BY <2>1 DEF Unacknowledged
<1>2. PICK a \in Choice :
        u = CommitMessage(SealedRecord(StepPayload(Step(r), r, a), incarnation[r]))
  BY <1>1
<1> DEFINE s == SealedRecord(StepPayload(Step(r), r, a), incarnation[r])
<1>3. a \in Action /\ s \in SealedRec
  <2>1. a \in Action
    BY LockstepAssumption
  <2> QED BY <2>1, RecordFacts
<1>4. u.commit = s.commit /\ s.commit \in Commit
  BY <1>2, <1>3 DEF CommitMessage, SealedRec, Commit
<1>5. s.commit.nonce = incarnation[r] /\ s.commit.payload.step = Step(r)
  BY DEF SealedRecord, CommitHash, StepPayload
<1>6. pc'[r] = "failed"
  <2>1. Expire(r) /\ pc[r] = "loop" /\ Ongoing(r)
    BY <1>1 DEF LapseSlow, MyTurn
  <2>2. ExpireFails(r)
    BY <2>1, ExpireCases DEF ExpireWaits, ExpireSettles, ExpireReports, ExpireStops
  <2> QED BY <2>2 DEF ExpireFails, Abandon, Types, TypesOfPeers
<1> QED BY <1>1, <1>4, <1>5, <1>6 DEF New

\* One new decision a step is sent, at most.
LEMMA TravellingStep ==
  ASSUME Types, Types', Locals, [Next]_vars, NEW r \in Role
  PROVE  \E n : \A c \in Travelling(r)' :
           c \in Travelling(r) \cup Made(r) \/ (c = n /\ New(r, n))
<1>1. ASSUME NEW m \in Sent(r)', m.kind = "commit"
      PROVE  \/ m.commit \in Travelling(r) \cup Made(r)
             \/ SendCommit(r) /\ m.commit = draft'[r].commit
             \/ LapseSlow(r) /\ m \in Unacknowledged(r)
  <2>1. m \in Sent(r) \/ Fresh(r, m)
    BY <1>1, SentEffect
  <2>2. CASE m \in Sent(r)
    BY <1>1, <2>2 DEF Travelling
  <2>3. CASE SendCommit(r) /\ m = CommitMessage(draft'[r])
    BY <2>3 DEF CommitMessage
  <2>4. CASE ResendCommit(r) /\ m = CommitMessage(Last(own[r]))
    <3>1. own[r] # << >> /\ own[r] \in Seq(SealedRec)
      BY <2>4 DEF ResendCommit, Types, TypesOfPeers
    <3>2. Len(own[r]) \in Nat \ {0} /\ Last(own[r]) = own[r][Len(own[r])]
      BY <3>1, LastFacts
    <3>3. Len(own[r]) \in 1 .. Len(own[r])
      BY <3>2
    <3>4. m.commit = own[r][Len(own[r])].commit
      BY <2>4, <3>2 DEF CommitMessage
    <3> QED BY <3>3, <3>4 DEF Made, CommitsOf
  <2>5. CASE LapseSlow(r) /\ m \in Unacknowledged(r)
    BY <2>5
  <2> QED BY <1>1, <2>1, <2>2, <2>3, <2>4, <2>5 DEF Fresh, RevealMessage
<1>2. ASSUME NEW c \in Travelling(r)'
      PROVE  \E m \in Sent(r)' : m.kind = "commit" /\ c = m.commit
  BY DEF Travelling
<1>3. CASE SendCommit(r)
  <2>1. New(r, draft'[r].commit) /\ pc'[r] = "revealing"
    BY <1>3, SentCommit
  <2>2. ASSUME NEW c \in Travelling(r)'
        PROVE  c \in Travelling(r) \cup Made(r) \/ c = draft'[r].commit
    <3>1. PICK m \in Sent(r)' : m.kind = "commit" /\ c = m.commit
      BY <1>2
    <3>2. ~(LapseSlow(r) /\ m \in Unacknowledged(r))
      BY <2>1, <3>1, LapsedCommit
    <3> QED BY <1>1, <3>1, <3>2
  <2> QED BY <2>1, <2>2
<1>4. CASE ~SendCommit(r) /\ LapseSlow(r) /\ late' # late
  <2>1. PICK u \in Unacknowledged(r) : late' = late \cup {u}
    BY <1>4 DEF LapseSlow
  <2>2. turns' = turns /\ pending' = pending
    BY <1>4 DEF LapseSlow, boxes
  <2>3. Sent(r)' \subseteq Sent(r) \cup {u}
    BY <2>1, <2>2 DEF Sent
  <2>4. ASSUME NEW c \in Travelling(r)'
        PROVE  c \in Travelling(r) \/ (c = u.commit /\ u.kind = "commit")
    <3>1. PICK m \in Sent(r)' : m.kind = "commit" /\ c = m.commit
      BY <1>2
    <3> QED BY <2>3, <3>1 DEF Travelling
  <2>5. u.kind = "commit" => New(r, u.commit)
    BY <1>4, LapsedCommit
  <2> QED BY <2>4, <2>5
<1>5. CASE ~SendCommit(r) /\ (LapseSlow(r) => late' = late)
  <2>1. ASSUME NEW c \in Travelling(r)'
        PROVE  c \in Travelling(r) \cup Made(r)
    <3>1. PICK m \in Sent(r)' : m.kind = "commit" /\ c = m.commit
      BY <1>2
    <3>2. CASE LapseSlow(r)
      <4>1. turns' = turns /\ pending' = pending /\ late' = late
        BY <1>5, <3>2 DEF LapseSlow, boxes
      <4>2. m \in Sent(r)
        BY <3>1, <4>1 DEF Sent
      <4> QED BY <3>1, <4>2 DEF Travelling
    <3>3. CASE ~LapseSlow(r)
      BY <1>1, <1>5, <3>1, <3>3
    <3> QED BY <3>2, <3>3
  <2> QED BY <2>1
<1> QED BY <1>3, <1>4, <1>5

\* A step adds at most one commit to what is known of a peer.
LEMMA KnownStep ==
  ASSUME Types, Types', Locals, [Next]_vars, NEW r \in Role
  PROVE  \E n : \A c \in Known(r)' : c \in Known(r) \/ (c = n /\ New(r, n))
<1>1. PICK n : \A c \in Travelling(r)' :
                 c \in Travelling(r) \cup Made(r) \/ (c = n /\ New(r, n))
  BY TravellingStep
<1>2. \A c \in Noted(Rival(r))' : c \in Known(r)
  <2>1. Rival(r) \in Role /\ Rival(Rival(r)) = r
    BY RivalFacts
  <2>2. Noted(Rival(r))' \subseteq Noted(Rival(r)) \cup Travelling(r)
    BY <2>1, NotedStep
  <2> QED BY <2>2 DEF Known
<1>3. CASE SendCommit(r)
  <2>1. New(r, draft'[r].commit) /\ pc'[r] = "revealing"
    BY <1>3, SentCommit
  <2>2. ASSUME NEW c, c = n, New(r, n) PROVE c = draft'[r].commit
    BY <2>1, <2>2 DEF New
  <2>3. \A c \in Made(r)' : c \in Made(r) \/ c = draft'[r].commit
    BY MadeStep
  <2>4. \A c \in Known(r)' : c \in Known(r) \/ (c = draft'[r].commit /\ New(r, draft'[r].commit))
    BY <1>1, <1>2, <2>1, <2>2, <2>3 DEF Known
  <2> QED BY <2>4
<1>4. CASE ~SendCommit(r)
  <2>1. \A c \in Made(r)' : c \in Made(r)
    BY <1>4, MadeStep
  <2>2. \A c \in Known(r)' : c \in Known(r) \/ (c = n /\ New(r, n))
    BY <1>1, <1>2, <2>1 DEF Known
  <2> QED BY <2>2
<1> QED BY <1>3, <1>4

\* Incarnations count crashes.
LEMMA IncarnationStep ==
  ASSUME Types, [Next]_vars, NEW r \in Role
  PROVE  incarnation'[r] = incarnation[r] \/ Crash(r)
<1>1. CASE UNCHANGED vars \/ \E m \in late : DeliverLate(m)
  BY <1>1 DEF vars, budgets, DeliverLate
<1>2. ASSUME NEW p \in Role, Program(p) \/ LapseSlow(p) \/ Restart(p)
      PROVE  incarnation' = incarnation
  BY <1>2 DEF Program, SendCommit, SendReveal, ApplyOwn, ReceiveDuplicate, ReceiveConflict,
     ReceiveEarly, ReceiveCommit, ReceiveReveal, SendFinalAudit, ReceiveAudit, EmergencyAudit,
     OfferResume, IgnoreOffer, ResendCommit, ResendReveal, LapseOverdue, LapseSlow, Restart, budgets
<1>3. ASSUME NEW p \in Role, Crash(p), p # r
      PROVE  incarnation'[r] = incarnation[r]
  BY <1>3 DEF Crash, Types, TypesOfPeers
<1> QED BY <1>1, <1>2, <1>3 DEF Next

\* A step that neither crashes r nor moves its loop back.
LEMMA StampFrame ==
  ASSUME NEW r \in Role, NEW c, Stamp(r, c), incarnation'[r] = incarnation[r],
         \/ pc'[r] \in {"failed", "done"}
         \/ /\ pc'[r] = pc[r] /\ Len(own'[r]) = Len(own[r]) /\ Len(their'[r]) = Len(their[r])
            /\ draft'[r] = draft[r]
  PROVE  Stamp(r, c)'
<1>1. CASE pc'[r] \in {"failed", "done"}
  BY <1>1 DEF Stamp
<1>2. CASE /\ pc'[r] = pc[r] /\ Len(own'[r]) = Len(own[r]) /\ Len(their'[r]) = Len(their[r])
           /\ draft'[r] = draft[r]
  <2>1. Step(r)' = Step(r)
    BY <1>2 DEF Step
  <2> QED BY <1>2, <2>1 DEF Stamp
<1> QED BY <1>1, <1>2

\* A stamp stays in the past.
LEMMA StampStep ==
  ASSUME Types, Types', Locals, [Next]_vars, NEW r \in Role, NEW c \in Commit, Stamp(r, c)
  PROVE  Stamp(r, c)'
<1>0. /\ c.nonce \in Nat /\ c.payload.step \in Nat /\ incarnation[r] \in Nat
      /\ Step(r) \in Nat \ {0} /\ pc[r] \in PC /\ pc'[r] \in PC
  BY StepFacts DEF Types, TypesOfPeers, Commit, Payload
<1>1. CASE Crash(r)
  <2>1. incarnation'[r] = incarnation[r] + 1
    BY <1>1 DEF Crash, Types, TypesOfPeers
  <2>2. c.nonce <= incarnation'[r] /\ c.nonce # incarnation'[r]
    BY <1>0, <2>1 DEF Stamp
  <2> QED BY <2>2 DEF Stamp
<1>2. CASE Idle(r) /\ ~Crash(r)
  BY <1>2, IncarnationStep, StampFrame DEF Idle
<1>3. CASE UNCHANGED vars \/ \E m \in late : DeliverLate(m)
  <2>1. Idle(r) /\ incarnation'[r] = incarnation[r]
    BY <1>3 DEF vars, memory, budgets, DeliverLate, Idle
  <2> QED BY <2>1, StampFrame DEF Idle
\* a peer that is down has decided nothing since it crashed
<1>4. ASSUME pc[r] \in {"down", "offering"}, incarnation'[r] = incarnation[r]
      PROVE  Stamp(r, c)'
  <2>1. c.nonce # incarnation[r] /\ c.nonce <= incarnation[r]
    BY <1>4 DEF Stamp
  <2> QED BY <1>4, <2>1 DEF Stamp
<1>5. ASSUME incarnation'[r] = incarnation[r], Step(r)' = Step(r),
             pc[r] \in {"loop", "await_reveal"},
             pc'[r] \notin {"down", "offering"}
      PROVE  Stamp(r, c)'
  BY <1>5 DEF Stamp
<1>6. ASSUME incarnation'[r] = incarnation[r], Step(r)' = Step(r) + 1, pc'[r] = "loop",
             pc[r] \notin {"failed", "done"},
             pc[r] \in {"revealing", "applying"} => draft[r].commit.payload.step = Step(r)
      PROVE  Stamp(r, c)'
  <2>1. c.nonce = incarnation[r] => c.payload.step < Step(r) + 1
    BY <1>0, <1>6 DEF Stamp
  <2>2. c.nonce <= incarnation'[r]
    BY <1>6 DEF Stamp
  <2> QED BY <1>6, <2>1, <2>2 DEF Stamp
<1>7. CASE (Program(r) \/ LapseSlow(r) \/ Restart(r)) /\ ~Crash(r)
  <2>0. incarnation'[r] = incarnation[r]
    BY <1>7, IncarnationStep
  <2>1. CASE SendCommit(r)
    <3>1. pc[r] = "loop" /\ pc'[r] = "revealing" /\ own' = own /\ their' = their
      BY <2>1 DEF SendCommit, MyTurn, Types, TypesOfPeers
    <3>2. Step(r)' = Step(r)
      BY <3>1 DEF Step
    <3> QED BY <1>5, <2>0, <3>1, <3>2
  <2>2. CASE SendReveal(r)
    <3>1. /\ pc[r] = "revealing" /\ pc'[r] = "applying" /\ own' = own /\ their' = their
          /\ draft' = draft
      BY <2>2 DEF SendReveal, memory, Types, TypesOfPeers
    <3>2. Step(r)' = Step(r)
      BY <3>1 DEF Step
    <3> QED BY <2>0, <3>1, <3>2 DEF Stamp
  <2>3. CASE ApplyOwn(r)
    <3>1. /\ pc[r] = "applying" /\ pc'[r] = "loop" /\ their' = their
          /\ own'[r] = Append(own[r], draft[r])
      BY <2>3 DEF ApplyOwn, Types, TypesOfPeers
    <3>2. draft[r] # None /\ draft[r] \in SealedRec /\ own[r] \in Seq(SealedRec)
      BY <3>1, ApplyingDrafts DEF Types, TypesOfPeers
    <3>3. Len(own'[r]) = Len(own[r]) + 1
      BY <3>1, <3>2, AppendProperties
    <3>4. Step(r)' = Step(r) + 1
      <4>1. Step(r)' = Len(own'[r]) + Len(their'[r]) + 1
        BY DEF Step
      <4>2. /\ Step(r) = Len(own[r]) + Len(their[r]) + 1
            /\ Len(own[r]) \in Nat /\ Len(their[r]) \in Nat
        BY StepFacts
      <4>3. Len(their'[r]) = Len(their[r])
        BY <3>1
      <4>4. Len(own'[r]) + Len(their'[r]) + 1 = (Len(own[r]) + Len(their[r]) + 1) + 1
        <5>1. \A a, b \in Nat : (a + 1) + b + 1 = (a + b + 1) + 1
          OBVIOUS
        <5>2. (Len(own[r]) + 1) + Len(their[r]) + 1 = (Len(own[r]) + Len(their[r]) + 1) + 1
          BY <4>2, <5>1
        <5> QED BY <3>3, <4>3, <5>2
      <4> QED BY <4>1, <4>2, <4>4
    <3>5. draft[r].commit.payload.step = Step(r)
      <4>1. draft[r] = SealedRecord(draft[r].payload, incarnation[r]) /\ draft[r].payload.step = Step(r)
        BY <3>2 DEF Locals, Local, Drafted
      <4>2. draft[r].commit = CommitHash(draft[r].payload, incarnation[r])
        BY <4>1 DEF SealedRecord
      <4> QED BY <4>1, <4>2 DEF CommitHash
    <3> QED BY <1>6, <2>0, <3>1, <3>4, <3>5
  <2>4. CASE ReceiveReveal(r)
    <3>1. PICK e \in SeenRec : own' = own /\ their'[r] = Append(their[r], e) /\ pc[r] = "await_reveal"
      <4> DEFINE e == [payload |-> Message(r).payload, commit |-> locked[r]]
      <4>1. Busy(r)
        BY DEF Locals, Local
      <4>2. /\ own' = own /\ their' = [their EXCEPT ![r] = Append(@, e)] /\ e \in SeenRec
            /\ pc[r] = "await_reveal"
        BY <2>4, <4>1, ReceiveRevealEffect
      <4> HIDE DEF e
      <4>3. their'[r] = Append(their[r], e)
        BY <4>2 DEF Types, TypesOfPeers
      <4> QED BY <4>2, <4>3
    <3>2. Len(their'[r]) = Len(their[r]) + 1
      BY <3>1, AppendProperties DEF Types, TypesOfPeers
    <3>3. Step(r)' = Step(r) + 1
      <4>1. Step(r)' = Len(own'[r]) + Len(their'[r]) + 1
        BY DEF Step
      <4>2. /\ Step(r) = Len(own[r]) + Len(their[r]) + 1
            /\ Len(own[r]) \in Nat /\ Len(their[r]) \in Nat
        BY StepFacts
      <4>3. Len(own'[r]) = Len(own[r])
        BY <3>1
      <4>4. Len(own'[r]) + Len(their'[r]) + 1 = (Len(own[r]) + Len(their[r]) + 1) + 1
        <5>1. \A a, b \in Nat : a + (b + 1) + 1 = (a + b + 1) + 1
          OBVIOUS
        <5>2. Len(own[r]) + (Len(their[r]) + 1) + 1 = (Len(own[r]) + Len(their[r]) + 1) + 1
          BY <4>2, <5>1
        <5> QED BY <3>2, <4>3, <5>2
      <4> QED BY <4>1, <4>2, <4>4
    <3>4. pc'[r] \in {"loop", "failed"}
      <4>1. pc' = [pc EXCEPT ![r] = "loop"] \/ Fail(r, "illegal action")
        BY <2>4 DEF ReceiveReveal
      <4> QED BY <4>1 DEF Fail, Abandon, Types, TypesOfPeers
    <3> QED BY <1>6, <2>0, <3>1, <3>3, <3>4, StampFrame
  <2>5. CASE SendFinalAudit(r)
    <3>1. pc[r] = "loop" /\ pc'[r] = "await_audit" /\ own' = own /\ their' = their
      BY <2>5 DEF SendFinalAudit, memory, Types, TypesOfPeers
    <3>2. Step(r)' = Step(r)
      BY <3>1 DEF Step
    <3> QED BY <1>5, <2>0, <3>1, <3>2
  <2>6. CASE ReceiveCommit(r)
    <3>1. /\ pc[r] \in {"loop", "await_reveal"} /\ pc'[r] \in {"failed", "await_reveal"}
          /\ own' = own /\ their' = their
      <4>1. /\ pc[r] \in {"loop", "await_reveal"} /\ own' = own /\ their' = their
            /\ \/ pc' = [pc EXCEPT ![r] = "failed"]
               \/ pc' = [pc EXCEPT ![r] = "await_reveal"]
        BY <2>6 DEF ReceiveCommit, Expecting, Fail, Abandon
      <4> QED BY <4>1 DEF Types, TypesOfPeers
    <3>2. Step(r)' = Step(r)
      BY <3>1 DEF Step
    <3> QED BY <1>5, <2>0, <3>1, <3>2
  <2>7. CASE ReceiveConflict(r) \/ ReceiveAudit(r) \/ EmergencyAudit(r)
    <3>1. pc'[r] \in {"failed", "done"}
      BY <2>7 DEF ReceiveConflict, ReceiveAudit, EmergencyAudit, Fail, Abandon, Settle,
         TechnicalLossReport, Types, TypesOfPeers
    <3> QED BY <2>0, <3>1, StampFrame
  <2>8. CASE LapseOverdue(r) \/ LapseSlow(r)
    <3>1. Expire(r) /\ own' = own /\ their' = their
      BY <2>8 DEF LapseOverdue, LapseSlow
    <3>2. Step(r)' = Step(r)
      BY <3>1 DEF Step
    <3>3. \/ pc'[r] \in {"failed", "done"} \/ pc[r] = "offering"
          \/ pc[r] = "loop" /\ pc'[r] = "await_audit"
      <4>1. CASE ExpireFails(r)
        BY <4>1 DEF ExpireFails, Abandon, Types, TypesOfPeers
      <4>2. CASE ExpireWaits(r)
        BY <4>2 DEF ExpireWaits, Types, TypesOfPeers
      <4>3. CASE ExpireSettles(r)
        BY <4>3 DEF ExpireSettles, Settle, Types, TypesOfPeers
      <4>4. CASE ExpireReports(r)
        BY <4>4 DEF ExpireReports, TechnicalLossReport, Types, TypesOfPeers
      <4>5. CASE ExpireStops(r)
        BY <4>5 DEF ExpireStops
      <4> QED BY <3>1, <4>1, <4>2, <4>3, <4>4, <4>5, ExpireCases
    <3> QED BY <1>4, <1>5, <2>0, <3>2, <3>3, StampFrame
  <2>9. CASE OfferResume(r) \/ Restart(r)
    BY <1>4, <2>0, <2>9 DEF OfferResume, Restart
  <2>10. CASE ReceiveEarly(r)
    BY <2>0, <2>10, StampFrame DEF ReceiveEarly, Fail, Abandon, Types, TypesOfPeers
  <2>11. CASE ReceiveDuplicate(r) \/ IgnoreOffer(r) \/ ResendCommit(r) \/ ResendReveal(r)
    BY <2>0, <2>11, StampFrame DEF ReceiveDuplicate, IgnoreOffer, ResendCommit, ResendReveal, memory
  <2> QED BY <1>7, <2>1, <2>2, <2>3, <2>4, <2>5, <2>6, <2>7, <2>8, <2>9, <2>10, <2>11 DEF Program
<1>8. CASE \E p \in Role : Program(p) \/ LapseSlow(p) \/ Crash(p) \/ Restart(p)
  <2>1. PICK p \in Role : Program(p) \/ LapseSlow(p) \/ Crash(p) \/ Restart(p)
    BY <1>8
  <2>2. CASE p = r
    BY <1>1, <1>7, <2>1, <2>2
  <2>3. CASE p # r
    BY <1>1, <1>2, <2>1, <2>3, RivalIdle
  <2> QED BY <2>2, <2>3
<1> QED BY <1>3, <1>8 DEF Next

\* A new decision gets its stamp.
LEMMA NewStamp ==
  ASSUME Types, Types', [Next]_vars, NEW r \in Role, NEW n, New(r, n)
  PROVE  Stamp(r, n)'
<1>0. n.nonce \in Nat /\ incarnation[r] \in Nat /\ n.nonce = incarnation[r]
  BY DEF New, Types, TypesOfPeers
<1>1. CASE SendCommit(r) /\ n = draft'[r].commit
  <2>1. pc'[r] = "revealing" /\ incarnation' = incarnation
    BY <1>1 DEF SendCommit, Types, TypesOfPeers
  <2> QED BY <1>0, <1>1, <2>1 DEF Stamp
<1>2. CASE LapseSlow(r) /\ pc'[r] = "failed"
  <2>1. incarnation' = incarnation
    BY <1>2 DEF LapseSlow
  <2> QED BY <1>0, <1>2, <2>1 DEF Stamp
<1> QED BY <1>1, <1>2 DEF New

\* A new commit is unlike any of its incarnation.
LEMMA NewUnique ==
  ASSUME Types, NEW r \in Role, NEW n, New(r, n), NEW c \in Commit, Stamp(r, c),
         c.nonce = n.nonce
  PROVE  c.payload.step # n.payload.step
<1>1. pc[r] = "loop" /\ n.nonce = incarnation[r] /\ n.payload.step = Step(r)
  BY DEF New, MyTurn
<1>2. c.payload.step < Step(r)
  BY <1>1 DEF Stamp
<1> QED BY <1>1, <1>2, StepFacts DEF Commit, Payload

\* Commits with one nonce and one step are one commit, for both peers.
Decisions == \A r \in Role : Unique(r) /\ Stamped(r)

\* A step keeps the decisions apart.
LEMMA DecisionsStep ==
  ASSUME Types, Types', Locals, [Next]_vars, Decisions
  PROVE  Decisions'
<1> SUFFICES ASSUME NEW r \in Role PROVE Unique(r)' /\ Stamped(r)'
  BY DEF Decisions
<1>1. Unique(r) /\ Stamped(r)
  BY DEF Decisions
<1>2. PICK n : \A c \in Known(r)' : c \in Known(r) \/ (c = n /\ New(r, n))
  BY KnownStep
<1>3. ASSUME NEW c \in Known(r)' PROVE c \in Commit /\ Stamp(r, c)'
  <2>1. CASE c \in Known(r)
    BY <1>1, <2>1, StampStep DEF Stamped
  <2>2. CASE c = n /\ New(r, n)
    BY <2>2, NewStamp DEF New
  <2> QED BY <1>2, <2>1, <2>2
<1>4. Stamped(r)'
  BY <1>3 DEF Stamped
<1>5. ASSUME NEW c \in Known(r)', NEW d \in Known(r)', c.nonce = d.nonce,
             c.payload.step = d.payload.step
      PROVE  c = d
  <2>1. CASE c \in Known(r) /\ d \in Known(r)
    BY <1>1, <1>5, <2>1 DEF Unique
  <2>2. CASE c \in Known(r) /\ d = n /\ New(r, n)
    BY <1>1, <1>5, <2>2, NewUnique DEF Stamped
  <2>3. CASE d \in Known(r) /\ c = n /\ New(r, n)
    BY <1>1, <1>5, <2>3, NewUnique DEF Stamped
  <2> QED BY <1>2, <2>1, <2>2, <2>3
<1>6. Unique(r)'
  BY <1>5 DEF Unique
<1> QED BY <1>4, <1>6

\* Nothing is decided initially.
LEMMA InitDecisions == Init => Decisions
<1> SUFFICES ASSUME Init, NEW r \in Role PROVE Unique(r) /\ Stamped(r)
  BY DEF Decisions
<1>1. \A p \in Role : /\ own[p] = << >> /\ their[p] = << >> /\ draft[p] = None
                      /\ locked[p] = None /\ snapshot[p] = None /\ turns[p] = << >>
                      /\ pending[p] = {}
  BY DEF Init
<1>2. late = {} /\ Range(<< >>) = {}
  BY DEF Init, Range
<1>3. Sent(r) = {}
  BY <1>1, <1>2, RivalFacts DEF Sent
<1>4. CommitsOf(<< >>) = {}
  BY DEF CommitsOf
<1>5. \A p \in Role : OwnLog(p) = << >> /\ TheirLog(p) = << >>
  BY <1>1 DEF OwnLog, TheirLog
<1>6. Known(r) = {}
  BY <1>1, <1>3, <1>4, <1>5, RivalFacts DEF Known, Made, Travelling, Noted
<1> QED BY <1>6 DEF Unique, Stamped

-----------------------------------------------------------------------------
(* Two verified peers *)

\* p verified its rival.
Verified(p) == pc[p] = "done" /\ report[p].audit = "Verified OK"

\* What p has when both verified the other.
LEMMA VerifiedFacts ==
  ASSUME IInv, Closing, NEW p \in Role, Verified(p), Verified(Rival(p))
  PROVE  /\ own[p] \in Seq(SealedRec) /\ their[p] \in Seq(SeenRec)
         /\ LogOK(p, own[p], their[p]) /\ SealedLog(own[p])
         /\ Log(p) = Actions(own[p], their[p]) /\ engine[p] = Replay(Log(p))
         /\ Log(p) \in Seq(Payload) /\ Legal(Log(p))
         /\ Len(their[p]) = Len(own[Rival(p)]) /\ Len(own[p]) \in Nat /\ Len(their[p]) \in Nat
         /\ \A i \in 1 .. Len(their[p]) :
              /\ "nonce" \in DOMAIN their[p][i]
              /\ their[p][i].nonce = own[Rival(p)][i].nonce
              /\ their[p][i].commit = CommitHash(their[p][i].payload, their[p][i].nonce)
         /\ report[p].outcome = engine[p].outcome
         /\ report[p].digest_match =
              (EndStateDigest(Replay(Log(Rival(p)))) = EndStateDigest(Replay(Log(p))))
<1>0. Types /\ Locals /\ Verdicts /\ Local(p) /\ Kept(p) /\ Rival(p) \in Role
  BY RivalFacts DEF IInv, Closing, Locals, Local
<1>1. /\ Verdict(p) /\ Verdict(Rival(p)) /\ pc[p] = "done" /\ pc[Rival(p)] = "done"
      /\ report[p].audit = "Verified OK" /\ report[Rival(p)].audit = "Verified OK"
  BY <1>0 DEF Verdicts, Verified
<1>2. report[p].error = "none" /\ report[Rival(p)].error = "none"
  BY <1>1 DEF Verdict
<1>3. Sound(p) /\ Unbroken(Rival(p))
  BY <1>1, <1>2 DEF Sound, Closed, Unbroken
<1>4. /\ LogOK(p, own[p], their[p]) /\ Log(p) = Actions(own[p], their[p])
      /\ engine[p] = Replay(Log(p)) /\ OwnLog(Rival(p)) = own[Rival(p)]
  BY <1>0, <1>1, <1>3, MemoryLogs
<1>5. /\ own[p] \in Seq(SealedRec) /\ their[p] \in Seq(SeenRec)
      /\ Len(own[p]) \in Nat /\ Len(their[p]) \in Nat
  BY <1>0, StepFacts
<1>6. Log(p) \in Seq(Payload) /\ Legal(Log(p))
  BY <1>4, <1>5, LogFacts DEF LogOK
<1>7. /\ report[p].outcome = Replay(Log(p)).outcome
      /\ Len(their[p]) = Len(own[Rival(p)])
      /\ \A i \in 1 .. Len(their[p]) :
           /\ "nonce" \in DOMAIN their[p][i]
           /\ their[p][i].nonce = own[Rival(p)][i].nonce
           /\ their[p][i].commit = CommitHash(their[p][i].payload, their[p][i].nonce)
      /\ report[p].digest_match =
           (EndStateDigest(Replay(Log(Rival(p)))) = EndStateDigest(Replay(Log(p))))
  BY <1>1, <1>3, <1>4 DEF Verdict
<1>8. SealedLog(own[p])
  BY <1>0 DEF Kept
<1> QED BY <1>4, <1>5, <1>6, <1>7, <1>8

\* One decision per step and incarnation: the nonce singles out the record.
LEMMA SameDecision ==
  ASSUME IInv, Closing, Decisions, NEW p \in Role, Verified(p), Verified(Rival(p)),
         NEW i \in 1 .. Len(their[p])
  PROVE  /\ i \in 1 .. Len(own[Rival(p)])
         /\ their[p][i].commit = own[Rival(p)][i].commit
         /\ their[p][i].payload = own[Rival(p)][i].payload
<1> DEFINE q == Rival(p)
           c == their[p][i].commit
           d == own[q][i].commit
<1>0. q \in Role /\ Rival(q) = p
  BY RivalFacts
<1>1. /\ i \in 1 .. Len(own[q])
      /\ their[p][i].nonce = own[q][i].nonce
      /\ c = CommitHash(their[p][i].payload, their[p][i].nonce)
      /\ LogOK(p, own[p], their[p])
  BY VerifiedFacts
<1>2. LogOK(q, own[q], their[q]) /\ SealedLog(own[q])
  BY <1>0, VerifiedFacts
<1>3. d = CommitHash(own[q][i].payload, own[q][i].nonce)
  BY <1>1, <1>2 DEF SealedLog
<1>4. their[p][i].payload.step = Slot(q, i) /\ own[q][i].payload.step = Slot(q, i)
  BY <1>1, <1>2 DEF LogOK, Aligned
<1>5. c \in Known(q) /\ d \in Known(q)
  <2>1. c \in Noted(p)
    BY DEF Noted, CommitsOf
  <2>2. d \in Made(q)
    BY <1>1 DEF Made, CommitsOf
  <2> HIDE DEF c, d
  <2> QED BY <1>0, <2>1, <2>2 DEF Known
<1>6. c.nonce = d.nonce /\ c.payload.step = d.payload.step
  BY <1>1, <1>3, <1>4 DEF CommitHash
<1>7. c = d
  <2> HIDE DEF c, d, q
  <2> QED BY <1>0, <1>5, <1>6 DEF Decisions, Unique
<1>8. their[p][i].payload = own[q][i].payload
  BY <1>1, <1>3, <1>7 DEF CommitHash
<1> QED BY <1>1, <1>7, <1>8

\* Two peers that verified each other have one log.
LEMMA SameGame ==
  ASSUME IInv, Closing, Decisions, NEW p \in Role, Verified(p), Verified(Rival(p))
  PROVE  Log(p) = Log(Rival(p))
<1> DEFINE q == Rival(p)
           A == Log(p)
<1>0. q \in Role /\ Rival(q) = p /\ Verified(Rival(q)) /\ Verified(q)
  BY RivalFacts
<1>1. /\ own[p] \in Seq(SealedRec) /\ their[p] \in Seq(SeenRec)
      /\ LogOK(p, own[p], their[p]) /\ A = Actions(own[p], their[p]) /\ A \in Seq(Payload)
      /\ Len(their[p]) = Len(own[q]) /\ Len(own[p]) \in Nat /\ Len(their[p]) \in Nat
  BY VerifiedFacts
<1>2. /\ own[q] \in Seq(SealedRec) /\ their[q] \in Seq(SeenRec)
      /\ LogOK(q, own[q], their[q]) /\ Log(q) = Actions(own[q], their[q])
      /\ Len(their[q]) = Len(own[p])
  BY <1>0, VerifiedFacts
<1>3. \A i \in 1 .. Len(own[q]) : their[p][i].payload = own[q][i].payload
  BY <1>1, SameDecision
<1>4. \A i \in 1 .. Len(their[q]) : their[q][i].payload = own[p][i].payload
  BY <1>0, SameDecision
<1> HIDE DEF q
<1>5. /\ Len(A) = Len(own[p]) + Len(their[p])
      /\ \A i \in 1 .. Len(own[p]) : A[Slot(p, i)] = own[p][i].payload
      /\ \A i \in 1 .. Len(their[p]) : A[Slot(q, i)] = their[p][i].payload
  <2> HIDE DEF A
  <2>1. /\ Len(Actions(own[p], their[p])) = Len(own[p]) + Len(their[p])
        /\ \A i \in 1 .. Len(own[p]) : Actions(own[p], their[p])[Slot(p, i)] = own[p][i].payload
        /\ \A i \in 1 .. Len(their[p]) :
             Actions(own[p], their[p])[Slot(Rival(p), i)] = their[p][i].payload
    <3>1. PICK o \in Seq(SealedRec), t \in Seq(SeenRec) :
            o = own[p] /\ t = their[p] /\ Aligned(p, o, t)
      BY <1>1 DEF LogOK
    <3>2. /\ Len(Actions(o, t)) = Len(o) + Len(t)
          /\ \A i \in 1 .. Len(o) : Actions(o, t)[Slot(p, i)] = o[i].payload
          /\ \A i \in 1 .. Len(t) : Actions(o, t)[Slot(Rival(p), i)] = t[i].payload
      <4>1. Aligned(p, o, t)
        BY <3>1
      <4> QED BY <4>1, ActionsFacts
    <3> QED BY <3>1, <3>2
  <2> QED BY <1>1, <2>1 DEF q
<1> HIDE DEF A
<1>6. Len(A) = Len(own[q]) + Len(their[q])
  <2>1. \A a, b \in Nat : a + b = b + a
    OBVIOUS
  <2>2. Len(own[p]) + Len(their[p]) = Len(their[p]) + Len(own[p])
    BY <1>1, <2>1
  <2> QED BY <1>1, <1>2, <1>5, <2>2
<1>7. /\ \A i \in 1 .. Len(own[q]) : A[Slot(q, i)] = own[q][i].payload
      /\ \A i \in 1 .. Len(their[q]) : A[Slot(Rival(q), i)] = their[q][i].payload
  BY <1>0, <1>1, <1>2, <1>3, <1>4, <1>5
<1>8. A = Actions(own[q], their[q])
  <2>1. Aligned(q, own[q], their[q])
    BY <1>2 DEF LogOK
  <2>2. q \in Role /\ own[q] \in Seq(SealedRec) /\ their[q] \in Seq(SeenRec) /\ A \in Seq(Payload)
    BY <1>0, <1>1, <1>2
  <2> QED BY <1>6, <1>7, <2>1, <2>2, ActionsUnique
<1>9. A = Log(q)
  BY <1>2, <1>8
<1> QED BY <1>9 DEF A, q

\* Each log verifies alone.
LEMMA LogVerifies ==
  ASSUME IInv, Closing, NEW p \in Role, Verified(p), Verified(Rival(p))
  PROVE  VerifyLog(p) = "Verified OK"
<1> DEFINE A == Actions(own[p], their[p])
<1>1. /\ own[p] \in Seq(SealedRec) /\ their[p] \in Seq(SeenRec) /\ SealedLog(own[p])
      /\ \A i \in 1 .. Len(their[p]) :
           their[p][i].commit = CommitHash(their[p][i].payload, their[p][i].nonce)
      /\ A \in Seq(Payload) /\ Legal(A) /\ engine[p] = Replay(A)
  BY VerifiedFacts
<1>2. SealsHold(p)
  <2>1. /\ Range(own[p]) = {own[p][i] : i \in 1 .. Len(own[p])}
        /\ Range(their[p]) = {their[p][i] : i \in 1 .. Len(their[p])}
    BY <1>1, RangeEquality
  <2> QED BY <1>1, <2>1 DEF SealsHold, SealedLog
<1>3. Recomputes(p)
  <2>1. SubSeq(A, 1, Len(A)) = A
    BY <1>1, PartEnds
  <2>2. \A i \in 1 .. Len(A) : ActionLegal(Replay(SubSeq(A, 1, i - 1)), A[i].role, A[i].action)
    BY <1>1 DEF Legal
  <2>3. EndStateDigest(Replay(SubSeq(A, 1, Len(A)))) = EndStateDigest(engine[p])
    BY <1>1, <2>1
  <2> QED BY <2>2, <2>3 DEF Recomputes
<1> QED BY <1>2, <1>3 DEF VerifyLog

\* The pair verifies.
LEMMA PairVerifies == IInv /\ Closing /\ Decisions => MutualAudit
<1> SUFFICES ASSUME IInv, Closing, Decisions,
                    \A p \in Role : Settled(p) /\ report[p].audit = "Verified OK"
             PROVE  VerifyPair = "Verified OK" /\ \A p \in Role : report[p].digest_match
  BY DEF MutualAudit
<1>1. \A p \in Role : Verified(p) /\ Verified(Rival(p)) /\ Rival(p) \in Role
  BY RivalFacts DEF Verified, Settled
<1>2. \A p \in Role : VerifyLog(p) = "Verified OK"
  BY <1>1, LogVerifies
<1>3. \A p \in Role : Log(p) = Log(Rival(p))
  BY <1>1, SameGame
<1>4. \A p \in Role : report[p].digest_match
  BY <1>1, <1>3, VerifiedFacts
<1>5. \A p \in Role : \A r \in Range(own[p]) : \E seen \in Range(their[Rival(p)]) :
        seen.commit = r.commit /\ seen.payload = r.payload
  <2> SUFFICES ASSUME NEW p \in Role, NEW r \in Range(own[p])
               PROVE  \E seen \in Range(their[Rival(p)]) :
                        seen.commit = r.commit /\ seen.payload = r.payload
    OBVIOUS
  <2> DEFINE q == Rival(p)
  <2>0. q \in Role /\ Rival(q) = p /\ Verified(p) /\ Verified(q)
    BY <1>1, RivalFacts
  <2>1. own[p] \in Seq(SealedRec) /\ their[q] \in Seq(SeenRec) /\ Len(their[q]) = Len(own[p])
    BY <2>0, VerifiedFacts
  <2>2. PICK i \in 1 .. Len(own[p]) : r = own[p][i]
    <3>1. Range(own[p]) = {own[p][i] : i \in 1 .. Len(own[p])}
      BY <2>1, RangeEquality
    <3> QED BY <3>1
  <2>3. their[q][i] \in Range(their[q])
    BY <2>1, RangeEquality
  <2>4. their[q][i].commit = own[p][i].commit /\ their[q][i].payload = own[p][i].payload
    BY <2>0, <2>1, SameDecision
  <2> QED BY <2>2, <2>3, <2>4
<1>6. OneGame
  <2>1. "police" \in Role /\ "thief" \in Role /\ Rival("police") = "thief"
    BY DEF Role, Rival
  <2>2. engine["police"] = Replay(Log("police")) /\ engine["thief"] = Replay(Log("thief"))
        /\ report["police"].outcome = engine["police"].outcome
        /\ report["thief"].outcome = engine["thief"].outcome
    BY <1>1, <2>1, VerifiedFacts
  <2>3. engine["police"] = engine["thief"]
    BY <1>3, <2>1, <2>2
  <2> QED BY <1>5, <2>2, <2>3 DEF OneGame
<1>7. ~ \E p \in Role : VerifyLog(p) = "TAMPERED"
  BY <1>2
<1>8. VerifyPair = "Verified OK"
  BY <1>6, <1>7 DEF VerifyPair
<1> QED BY <1>4, <1>8

\* A commit names one decision in every run, even when a restarted peer decides
\* a step again (peer/sealing.py draws a fresh nonce).
THEOREM Decides == Spec => []Decisions
<1>1. IInv /\ IInv' /\ Decisions /\ [Next]_vars => Decisions'
  BY DecisionsStep DEF IInv
<1> QED BY InitDecisions, <1>1, Induction, PTL DEF Spec

\* Two peers that both verified the other leave two logs that a third party
\* verifies alone and together as one game (report/pair_verify.py), even after a
\* half-turn was cut off and decided again.
THEOREM Audited == Spec => []MutualAudit
<1> QED BY PairVerifies, Closes, Decides, PTL

-----------------------------------------------------------------------------
(* What a peer waits for reaches it *)

\* No half-turn was cut off, no live or crashed rival was given up, and at most
\* one peer crashed, once.
Calm == ~torn /\ ~excused /\ crashes <= 1

\* The rival's half-turn that p hears next.
Turn(p) == Len(TheirLog(p)) + 1

\* m waits in p's inbox or reorder buffer.
Delivery(p, m) == m \in Range(turns[p]) \cup pending[p]

\* p will ask its rival for its last messages, or has asked.
Remedy(p) == pc[p] \in {"down", "offering"} \/ controls[Rival(p)] > 0

\* A commit that left is locked, or delivered, or will be sent again.
CommitComes(p) ==
  ~Over(p) /\ Sealed(Rival(p), Turn(p)) =>
    \/ pc[p] = "await_reveal"
    \/ Delivery(p, CommitMessage(RecordOf(Rival(p), Turn(p))))
    \/ Remedy(p) /\ ~resending[Rival(p)]

\* A reveal that left is delivered, or will be sent again.
RevealComes(p) ==
  ~Over(p) /\ Revealed(Rival(p), Turn(p)) =>
    Delivery(p, RevealMessage(RecordOf(Rival(p), Turn(p)))) \/ Remedy(p)

\* A game ends by the rules, for both.
Ends(p) ==
  /\ pc[p] # "failed"
  /\ pc[p] = "done" => report[p].error = "none" /\ Over(Rival(p))

\* The one crash explains who is down and what was asked.
Crashed(p) ==
  /\ crashes = 0 => pc[p] \notin {"down", "offering"} /\ controls[p] = 0
  /\ pc[p] \in {"down", "offering"} => controls[Rival(p)] = 0

\* What p needs of its rival reaches it.
Supplied(p) == Ends(p) /\ Crashed(p) /\ CommitComes(p) /\ RevealComes(p)

\* Calm games keep both peers supplied.
Supply == Calm => \A p \in Role : Supplied(p)

\* What IInv says of an untorn state.
LEMMA UntornParts ==
  ASSUME IInv, ~torn
  PROVE  /\ Types /\ Locals /\ Addressed /\ Faithful /\ Furthest /\ AllGenuine
         /\ \A p \in Role : Heard(p) /\ Locked(p) /\ Buffer(p) /\ Blameless(p) /\ Local(p)
BY DEF IInv, Faithful, Locals

\* No more is sealed than the record p hears next.
LEMMA ReachAll ==
  ASSUME Types, Locals, ~torn, NEW p \in Role, Heard(Rival(p)), NEW i, Sealed(Rival(p), i)
  PROVE  i <= Turn(p) /\ i \in Nat \ {0} /\ Turn(p) \in Nat \ {0}
<1> DEFINE q == Rival(p)
           m == Len(OwnLog(p))
           n == Len(TheirLog(p))
<1>1. q \in Role /\ Rival(q) = p /\ q # p
  BY RivalFacts
<1>2. /\ m \in Nat /\ n \in Nat /\ Len(OwnLog(q)) \in Nat /\ Len(TheirLog(q)) \in Nat
      /\ Balanced(p, m, n)
  BY <1>1, KeptLogs DEF LogOK, Aligned
<1>3. i \in Nat \ {0} /\ i <= Len(TheirLog(q)) + (IF q = "police" THEN 1 ELSE 0)
  BY <1>1, SealedFacts, SealedReach
<1>4. Len(TheirLog(q)) <= m + (IF pc[p] = "applying" THEN 1 ELSE 0)
  BY <1>1, HeardLength
<1>5. pc[p] = "applying" => m + 1 <= n + (IF p = "police" THEN 1 ELSE 0)
  <2>1. pc[p] = "applying" => Sealed(p, m + 1)
    BY ApplyingDrafts DEF Sealed
  <2> QED BY <2>1, SealedReach
<1>6. q = "police" <=> p # "police"
  BY DEF Rival, Role
<1> HIDE DEF q, m, n
<1>7. i <= n + 1
  BY <1>2, <1>3, <1>4, <1>5, <1>6 DEF Balanced
<1> QED BY <1>2, <1>3, <1>7 DEF Turn, n

\* A peer that closed its game has it over.
LEMMA ClosedOver ==
  ASSUME Types, Locals, NEW p \in Role, pc[p] = "done", report[p].error = "none"
  PROVE  Over(p)
<1>1. Closed(p) /\ Sound(p) /\ Local(p)
  BY DEF Closed, Sound, Locals
<1>2. ~Ongoing(p)
  BY <1>1 DEF Local, Busy
<1>3. engine[p] = Replay(Log(p))
  BY <1>1, MemoryLogs
<1> QED BY <1>2, <1>3 DEF Over, Ongoing

\* The game of a running peer is over when its replica says so.
LEMMA LiveOver ==
  ASSUME Types, Locals, NEW p \in Role, Live(p)
  PROVE  Over(p) <=> ~Ongoing(p)
<1>1. engine[p] = Replay(Log(p))
  BY MemoryLogs DEF Sound
<1> QED BY <1>1 DEF Over, Ongoing

\* Logs of one game: an over log is not shorter than the other.
LEMMA OverLongest ==
  ASSUME Types, Locals, ~torn, NEW p \in Role, Heard(p), Heard(Rival(p)), Over(p)
  PROVE  Len(Log(Rival(p))) <= Len(Log(p))
<1> DEFINE q == Rival(p)
<1>1. q \in Role /\ Rival(q) = p
  BY RivalFacts
<1>2. /\ Len(Log(p)) \in Nat /\ Len(Log(q)) \in Nat
      /\ Legal(Log(q)) /\ Log(q) \in Seq(Payload)
  BY <1>1, LogsFacts
<1>3. CASE Len(Log(p)) < Len(Log(q))
  <2>1. Log(p) = SubSeq(Log(q), 1, Len(Log(p)))
    BY <1>1, <1>2, <1>3, LogPrefix
  <2>2. Len(Log(p)) \in 0 .. Len(Log(q))
    BY <1>2, <1>3
  <2>3. Replay(SubSeq(Log(q), 1, Len(Log(p)))).outcome = "ongoing"
    BY <1>2, <1>3, <2>2, LegalPart
  <2> QED BY <2>1, <2>3 DEF Over
<1> QED BY <1>2, <1>3

\* Two starving peers: the record one of them waits for was not sealed.
LEMMA Starving ==
  ASSUME IInv, ~torn, NEW p \in Role, Starved(p), Expecting(p), Starved(Rival(p)),
         CommitComes(p), RevealComes(p)
  PROVE  pc[p] = "loop" /\ ~Sealed(Rival(p), Turn(p))
<1> DEFINE q == Rival(p)
           k == Turn(p)
<1>1. q \in Role /\ Rival(q) = p /\ Types /\ Locals /\ Local(p) /\ Local(q)
      /\ Heard(p) /\ Heard(q) /\ Locked(p) /\ Buffer(p)
  BY RivalFacts, UntornParts
<1>2. /\ turns[p] = << >> /\ controls[q] = 0 /\ Buffered(p) = {}
      /\ pc[p] \in {"loop", "await_reveal"}
  <2>1. pc[p] \in {"loop", "await_reveal"} /\ ~AwaitingAudit(p)
    BY DEF Expecting, AwaitingAudit
  <2> QED BY <2>1 DEF Starved, Waiting
<1>3. ~Over(p) /\ TheirLog(p) = their[p] /\ k = Len(their[p]) + 1 /\ k \in Nat \ {0}
      /\ Step(p) = Slot(q, k)
  BY <1>1, ExpectingFacts, LiveOver, WaitingFacts DEF Turn
<1>4. ~Remedy(p) /\ \A m : Delivery(p, m) => m \in pending[p]
  BY <1>2 DEF Remedy, Delivery, Range
<1> HIDE DEF q, k
<1>5. \A m \in pending[p] : Key(m) = <<"reveal", Slot(q, k)>>
  BY <1>1 DEF Buffer, Turn, q, k
<1>6. ~Revealed(q, k) \/ pc[p] = "loop"
  <2> SUFFICES ASSUME Revealed(q, k), pc[p] = "await_reveal" PROVE FALSE
    BY <1>2
  <2> DEFINE m == RevealMessage(RecordOf(q, k))
  <2>1. m \in pending[p]
    BY <1>3, <1>4 DEF RevealComes, q, k
  <2>2. Key(m) = Expected(p)
    BY <1>3, <1>5, <2>1 DEF Expected
  <2> QED BY <1>2, <2>1, <2>2 DEF Buffered
<1>7. CASE pc[p] = "loop"
  <2>1. CASE Sealed(q, k)
    <3> DEFINE m == CommitMessage(RecordOf(q, k))
    <3>1. m \in pending[p]
      BY <1>3, <1>4, <1>7, <2>1 DEF CommitComes, q, k
    <3>2. Key(m)[1] = "commit" /\ Key(m)[1] = "reveal"
      BY <1>5, <3>1 DEF Key, CommitMessage
    <3> QED BY <3>2
  <2> QED BY <1>7, <2>1 DEF q, k
<1>8. CASE pc[p] = "await_reveal"
  <2>1. Sealed(q, k) /\ ~Revealed(q, k)
    BY <1>1, <1>3, <1>6, <1>8 DEF Locked, q
  <2>2. draft[q] # None
    BY <2>1 DEF Sealed, Revealed
  <2>3. pc[q] \in {"revealing", "applying", "failed", "done"}
    BY <1>1, <2>2 DEF Local, Drafted
  <2>4. Waiting(q)
    BY DEF Starved, q
  <2> QED BY <2>3, <2>4 DEF Waiting, Expecting, AwaitingAudit
<1> QED BY <1>2, <1>7, <1>8

\* Two peers never starve with a half-turn to wait for.
LEMMA Stall ==
  ASSUME IInv, ~torn, NEW p \in Role, Starved(p), Expecting(p), Starved(Rival(p)),
         CommitComes(p), RevealComes(p), CommitComes(Rival(p)), RevealComes(Rival(p))
  PROVE  FALSE
<1> DEFINE q == Rival(p)
<1>1. q \in Role /\ Rival(q) = p /\ p # q /\ Types /\ Locals /\ Local(p) /\ Local(q)
      /\ Heard(p) /\ Heard(q)
  BY RivalFacts, UntornParts
<1>2. /\ Len(OwnLog(p)) \in Nat /\ Len(TheirLog(p)) \in Nat
      /\ Len(OwnLog(q)) \in Nat /\ Len(TheirLog(q)) \in Nat
      /\ Len(Log(p)) = Len(OwnLog(p)) + Len(TheirLog(p))
      /\ Len(Log(q)) = Len(OwnLog(q)) + Len(TheirLog(q))
  BY <1>1, KeptLogs, LogsFacts
<1>3. pc[p] \notin {"applying", "failed", "done", "down"}
      /\ pc[q] \notin {"applying", "failed", "done", "down"}
  BY DEF Starved, Waiting, Expecting, AwaitingAudit
<1>4. Len(TheirLog(p)) = Len(OwnLog(q))
  <2>1. ~Sealed(q, Turn(p))
    BY Starving
  <2>2. Len(TheirLog(p)) <= Len(OwnLog(q))
    BY <1>1, <1>2, <1>3, HeardLength
  <2>3. ~(Len(TheirLog(p)) + 1 <= Len(OwnLog(q)))
    BY <1>2, <2>1 DEF Sealed, Turn
  <2> QED BY <1>2, <2>2, <2>3
<1>5. Len(TheirLog(q)) <= Len(OwnLog(p))
  BY <1>1, <1>2, <1>3, HeardLength
<1>6. Ongoing(p) /\ engine[p].next_actor = q /\ Live(p) /\ Live(q)
      /\ engine[p] = Replay(Log(p)) /\ engine[q] = Replay(Log(q))
  BY <1>1, <1>3, ExpectingFacts, LogsWellKept DEF Live, WellKept
<1> HIDE DEF q
<1>7. Len(Log(q)) <= Len(Log(p))
  BY <1>2, <1>4, <1>5
<1>8. CASE Expecting(q)
  <2>1. Len(TheirLog(q)) = Len(OwnLog(p))
    <3>1. ~Sealed(p, Turn(q))
      BY <1>1, <1>8, Starving DEF q
    <3>2. ~(Len(TheirLog(q)) + 1 <= Len(OwnLog(p)))
      BY <1>2, <3>1 DEF Sealed, Turn
    <3> QED BY <1>2, <1>5, <3>2
  <2>2. Len(Log(p)) = Len(Log(q))
    BY <1>2, <1>4, <2>1
  <2>3. Log(p) = Log(q)
    BY <1>1, <2>2, EqualLogs DEF q
  <2>4. engine[q].next_actor = p
    BY <1>1, <1>8, ExpectingFacts
  <2> QED BY <1>1, <1>6, <2>3, <2>4
<1>9. CASE ~Expecting(q)
  <2>1. AwaitingAudit(q)
    BY <1>9 DEF Starved, Waiting, q
  <2>2. Over(q)
    BY <1>1, <1>6, <2>1, LiveOver DEF AwaitingAudit, Local, Busy
  <2>3. Len(Log(p)) <= Len(Log(q))
    BY <1>1, <2>2, OverLongest
  <2>4. Log(p) = Log(q)
    <3>1. Len(Log(p)) = Len(Log(q))
      BY <1>2, <1>7, <2>3
    <3> QED BY <1>1, <3>1, EqualLogs DEF q
  <2> QED BY <1>6, <2>2, <2>4 DEF Over, Ongoing
<1> QED BY <1>8, <1>9

-----------------------------------------------------------------------------
(* Who is disturbed by a step *)

\* A step of somebody else: a peer keeps what it has, its inboxes only fill.
Undisturbed(r) ==
  /\ Idle(r) /\ pending'[r] = pending[r] /\ resending'[r] = resending[r]
  /\ controls'[r] >= controls[r] /\ Range(turns[r]) \subseteq Range(turns'[r])

\* A send only adds to the inbox.
LEMMA SendTurnFills ==
  ASSUME Types, NEW p \in Role, NEW m, SendTurn(p, m)
  PROVE  Range(turns[Rival(p)]) \subseteq Range(turns'[Rival(p)])
<1>1. turns[Rival(p)] \in Seq(Msg) /\ Rival(p) \in DOMAIN turns
  BY RivalFacts DEF Types, TypesOfWire
<1>2. turns'[Rival(p)] \in {turns[Rival(p)], Append(turns[Rival(p)], m)}
  BY <1>1 DEF SendTurn, Delivered
<1>3. Range(turns[Rival(p)]) \subseteq Range(Append(turns[Rival(p)], m))
  BY <1>1 DEF Range
<1> QED BY <1>2, <1>3

\* What one peer does leaves the other undisturbed; only an offer reaches its
\* control inbox.
LEMMA RivalUndisturbed ==
  ASSUME Types, NEW p \in Role, NEW r \in Role, r # p,
         Program(p) \/ LapseSlow(p) \/ Crash(p) \/ Restart(p)
  PROVE  Undisturbed(r) /\ (~OfferResume(p) => controls'[r] = controls[r])
<1>0. Idle(r) /\ r = Rival(p) /\ Rival(p) # p
  BY RivalIdle, RivalFacts
<1>1. CASE SendCommit(p) \/ SendReveal(p) \/ ResendCommit(p) \/ ResendReveal(p)
  <2>1. \E m : SendTurn(p, m)
    BY <1>1 DEF SendCommit, SendReveal, ResendCommit, ResendReveal
  <2>2. Range(turns[r]) \subseteq Range(turns'[r])
    BY <1>0, <2>1, SendTurnFills
  <2>3. pending' = pending /\ resending'[r] = resending[r] /\ controls'[r] = controls[r]
    BY <1>0, <1>1 DEF SendCommit, SendReveal, ResendCommit, ResendReveal, memory, Types,
       TypesOfPeers, TypesOfWire
  <2> QED BY <1>0, <2>2, <2>3 DEF Undisturbed, Types, TypesOfWire
<1>2. CASE ReceiveDuplicate(p) \/ ReceiveConflict(p) \/ ReceiveCommit(p) \/ ReceiveReveal(p)
  <2>1. pending'[r] = pending[r] /\ turns'[r] = turns[r]
    BY <1>0, <1>2, TakeMessageEffect
       DEF ReceiveDuplicate, ReceiveConflict, ReceiveCommit, ReceiveReveal
  <2>2. resending' = resending /\ controls' = controls
    BY <1>2 DEF ReceiveDuplicate, ReceiveConflict, ReceiveCommit, ReceiveReveal
  <2> QED BY <1>0, <2>1, <2>2 DEF Undisturbed, Types, TypesOfWire
<1>3. CASE ReceiveEarly(p)
  <2>1. turns'[r] = turns[r] /\ resending' = resending /\ controls' = controls
        /\ pending'[r] = pending[r]
    BY <1>0, <1>3 DEF ReceiveEarly, Types, TypesOfWire
  <2> QED BY <1>0, <2>1 DEF Undisturbed, Types, TypesOfWire
<1>4. CASE ApplyOwn(p) \/ SendFinalAudit(p) \/ ReceiveAudit(p) \/ EmergencyAudit(p) \/ Restart(p)
  <2>1. turns' = turns /\ resending' = resending /\ controls' = controls /\ pending' = pending
    BY <1>4 DEF ApplyOwn, SendFinalAudit, ReceiveAudit, EmergencyAudit, Restart, memory, boxes
  <2> QED BY <1>0, <2>1 DEF Undisturbed, Types, TypesOfWire
<1>5. CASE OfferResume(p)
  <2>1. turns' = turns /\ resending' = resending /\ pending' = pending
        /\ controls'[r] >= controls[r]
    BY <1>0, <1>5 DEF OfferResume, memory, Types, TypesOfWire
  <2> QED BY <1>0, <1>5, <2>1 DEF Undisturbed
<1>6. CASE IgnoreOffer(p)
  <2>1. turns' = turns /\ resending' = resending /\ pending' = pending
        /\ controls'[r] = controls[r]
    BY <1>0, <1>6 DEF IgnoreOffer, memory, Types, TypesOfWire
  <2> QED BY <1>0, <2>1 DEF Undisturbed, Types, TypesOfWire
<1>7. CASE LapseOverdue(p) \/ LapseSlow(p)
  <2>1. turns' = turns /\ controls' = controls /\ pending' = pending
        /\ resending'[r] = resending[r]
    BY <1>0, <1>7 DEF LapseOverdue, LapseSlow, boxes, Types, TypesOfPeers
  <2> QED BY <1>0, <2>1 DEF Undisturbed, Types, TypesOfWire
<1>8. CASE Crash(p)
  <2>1. turns'[r] = turns[r] /\ controls'[r] = controls[r] /\ pending'[r] = pending[r]
        /\ resending'[r] = resending[r]
    BY <1>0, <1>8 DEF Crash, Types, TypesOfPeers, TypesOfWire
  <2> QED BY <1>0, <2>1 DEF Undisturbed, Types, TypesOfWire
<1> QED BY <1>1, <1>2, <1>3, <1>4, <1>5, <1>6, <1>7, <1>8 DEF Program

\* A late copy, or nothing: both peers keep what they have.
LEMMA NobodyMoves ==
  ASSUME Types, UNCHANGED vars \/ (\E m \in late : DeliverLate(m)), NEW r \in Role
  PROVE  Undisturbed(r) /\ controls' = controls /\ crashes' = crashes
<1>1. CASE UNCHANGED vars
  BY <1>1 DEF vars, memory, boxes, budgets, Undisturbed, Idle, Types, TypesOfWire
<1>2. ASSUME NEW m \in late, DeliverLate(m) PROVE Undisturbed(r) /\ controls' = controls /\ crashes' = crashes
  <2>1. turns'[r] = turns[r] \/ turns'[r] = Append(turns[r], m)
    BY <1>2, RivalFacts, DeliverLateEffect
  <2>2. Range(turns[r]) \subseteq Range(turns'[r])
    <3>1. turns[r] \in Seq(Msg)
      BY DEF Types, TypesOfWire
    <3> QED BY <2>1, <3>1 DEF Range
  <2> QED BY <1>2, <2>2 DEF DeliverLate, memory, budgets, Undisturbed, Idle, Types, TypesOfWire
<1> QED BY <1>1, <1>2

\* Whoever moves.
LEMMA Moves ==
  ASSUME Types, [Next]_vars, NEW p \in Role
  PROVE  \/ Program(p) \/ LapseSlow(p) \/ Crash(p) \/ Restart(p)
         \/ /\ Program(Rival(p)) \/ LapseSlow(Rival(p)) \/ Crash(Rival(p)) \/ Restart(Rival(p))
            /\ Undisturbed(p) /\ (~OfferResume(Rival(p)) => controls'[p] = controls[p])
         \/ /\ \A r \in Role : Undisturbed(r)
            /\ controls' = controls /\ crashes' = crashes
<1>1. Rival(p) \in Role /\ Rival(p) # p /\ \A r \in Role : r = p \/ r = Rival(p)
  BY RivalFacts
<1>2. CASE UNCHANGED vars \/ \E m \in late : DeliverLate(m)
  BY <1>2, NobodyMoves
<1>3. CASE \E r \in Role : Program(r) \/ LapseSlow(r) \/ Crash(r) \/ Restart(r)
  BY <1>1, <1>3, RivalUndisturbed
<1> QED BY <1>2, <1>3 DEF Next

\* The logs and the records of an undisturbed peer.
LEMMA UndisturbedLogs ==
  ASSUME NEW r \in Role, Undisturbed(r)
  PROVE  /\ OwnLog(r)' = OwnLog(r) /\ TheirLog(r)' = TheirLog(r) /\ Log(r)' = Log(r)
         /\ Turn(r)' = Turn(r) /\ Over(r)' = Over(r)
         /\ \A i : /\ Sealed(r, i)' = Sealed(r, i) /\ Revealed(r, i)' = Revealed(r, i)
                   /\ RecordOf(r, i)' = RecordOf(r, i)
<1>1. OwnLog(r)' = OwnLog(r) /\ TheirLog(r)' = TheirLog(r) /\ draft'[r] = draft[r] /\ pc'[r] = pc[r]
  BY DEF Undisturbed, Idle, OwnLog, TheirLog
<1>2. Log(r)' = Log(r)
  BY <1>1 DEF Log
<1> QED BY <1>1, <1>2 DEF Turn, Over, Sealed, Revealed, RecordOf

\* Calm is never regained; a calm step is no slow lapse, and no second crash.
LEMMA CalmBefore ==
  ASSUME Types, Types', [Next]_vars, Calm'
  PROVE  Calm /\ (crashes = 1 => crashes' = 1)
         /\ \A p \in Role : /\ ~LapseSlow(p)
                            /\ Crash(p) => crashes = 0
                            /\ LapseOverdue(p) => pc[Rival(p)] # "down"
<1>1. torn => torn'
  BY TornStays
<1>2. ASSUME NEW p \in Role, Program(p)
      PROVE  /\ (excused => excused') /\ crashes' = crashes
             /\ LapseOverdue(p) => pc[Rival(p)] # "down" \/ excused'
  <2>1. CASE LapseOverdue(p)
    <3>1. (excused' <=> (excused \/ pc[Rival(p)] = "down"))
      BY <2>1, Zenon DEF LapseOverdue
    <3>2. crashes' = crashes
      BY <2>1 DEF LapseOverdue
    <3> QED BY <3>1, <3>2
  <2>2. CASE ~LapseOverdue(p)
    <3>1. excused' = excused /\ crashes' = crashes
      BY <1>2, <2>2 DEF Program, SendCommit, SendReveal, ApplyOwn, ReceiveDuplicate,
         ReceiveConflict, ReceiveEarly, ReceiveCommit, ReceiveReveal, SendFinalAudit,
         ReceiveAudit, EmergencyAudit, OfferResume, IgnoreOffer, ResendCommit, ResendReveal,
         budgets
    <3> QED BY <2>2, <3>1
  <2> QED BY <2>1, <2>2
<1>3. ASSUME NEW p \in Role PROVE LapseSlow(p) => excused' /\ crashes' = crashes
  BY DEF LapseSlow
<1>4. ASSUME NEW p \in Role, Crash(p) PROVE excused' = excused /\ crashes' = crashes + 1
  BY <1>4 DEF Crash
<1>5. ASSUME NEW p \in Role, Restart(p) PROVE excused' = excused /\ crashes' = crashes
  BY <1>5 DEF Restart, budgets
<1>6. ASSUME NEW m \in late, DeliverLate(m) PROVE excused' = excused /\ crashes' = crashes
  BY <1>6 DEF DeliverLate, budgets
<1>7. UNCHANGED vars => excused' = excused /\ crashes' = crashes
  BY DEF vars, budgets
<1>8. crashes \in Nat /\ crashes' \in Nat /\ excused \in BOOLEAN
  BY DEF Types, TypesOfHistory
<1>9. (excused => excused') /\ (crashes' = crashes \/ crashes' = crashes + 1)
  BY <1>2, <1>3, <1>4, <1>5, <1>6, <1>7 DEF Next
<1>10. ASSUME NEW p \in Role, LapseOverdue(p) PROVE pc[Rival(p)] # "down" \/ excused'
  BY <1>2, <1>10 DEF Program
<1> QED BY <1>1, <1>3, <1>4, <1>8, <1>9, <1>10 DEF Calm

\* A game that is over stays so, one that is not was not.
LEMMA OverStep ==
  ASSUME IInv, IInv', ~torn, ~torn', [Next]_vars, NEW p \in Role
  PROVE  Over(p)' = Over(p) \/ (~Over(p) /\ (Plays(p) \/ Listens(p)))
<1>1. Quiet(p) \/ Plays(p) \/ Listens(p) \/ Locks(p) \/ Keeps(p)
  BY UntornParts, StepEffect DEF IInv
<1>2. Types /\ Types' /\ Locals /\ Locals' /\ Local(p)
  BY UntornParts DEF IInv
<1>3. CASE Quiet(p) \/ Locks(p) \/ Keeps(p)
  BY <1>2, <1>3, LogStep DEF Over
<1>4. CASE Plays(p)
  <2>1. pc[p] = "applying" /\ Live(p)
    BY <1>4 DEF Plays, Live
  <2>2. Ongoing(p)
    BY <1>2, <2>1 DEF Local, Busy, ActionLegal, Ongoing, RequireTurn
  <2> QED BY <1>2, <1>4, <2>1, <2>2, LiveOver
<1>5. CASE Listens(p)
  <2>1. pc[p] = "await_reveal" /\ Live(p)
    BY <1>5 DEF Listens, Live
  <2>2. Ongoing(p)
    BY <1>2, <2>1 DEF Local, Busy
  <2> QED BY <1>2, <1>5, <2>1, <2>2, LiveOver
<1> QED BY <1>1, <1>3, <1>4, <1>5

-----------------------------------------------------------------------------
(* A calm game ends by the rules *)

\* A deadline fails a peer only in a game that goes on.
LEMMA Failing ==
  ASSUME Types, Locals, NEW p \in Role, Expire(p), pc'[p] = "failed", pc[p] # "failed"
  PROVE  Live(p) /\ ~Over(p) /\ ~AwaitingAudit(p)
<1>1. Local(p) /\ pc \in [Role -> PC]
  BY DEF Locals, Types, TypesOfPeers
<1>2. Live(p) /\ Ongoing(p) /\ pc[p] # "await_audit"
  <2>1. CASE MyTurn(p)
    BY <2>1 DEF MyTurn, Live
  <2>2. CASE pc[p] = "revealing"
    BY <1>1, <2>2 DEF Local, Busy, ActionLegal, RequireTurn, Ongoing, Live
  <2>3. CASE pc[p] = "await_reveal"
    BY <1>1, <2>3 DEF Local, Busy, Live
  <2>4. CASE Expecting(p)
    BY <1>1, <2>4, ExpectingFacts
  <2>5. CASE resending[p] /\ pc[p] = "loop"
    BY <1>1, <2>5 DEF Local, Resending, Live
  <2>6. CASE pc' = [pc EXCEPT ![p] = "await_audit"] \/ pc' = [pc EXCEPT ![p] = "down"]
    BY <1>1, <2>6
  <2>7. CASE Settle(p, "not received", FALSE) \/ TechnicalLossReport(p)
    BY <1>1, <2>7 DEF Settle, TechnicalLossReport
  <2> QED BY <2>1, <2>2, <2>3, <2>4, <2>5, <2>6, <2>7 DEF Expire
<1> QED BY <1>2, LiveOver DEF AwaitingAudit

\* Whom a supplied peer may find when its deadline had to lapse: one whose game
\* is over, as its own is.
LEMMA LapseFinds ==
  ASSUME IInv, ~torn, NEW p \in Role, Overdue(p), pc[Rival(p)] # "down",
         Supplied(p), Supplied(Rival(p))
  PROVE  /\ Over(Rival(p)) /\ (Over(p) \/ AwaitingAudit(p))
         /\ pc[Rival(p)] = "done" \/ (Starved(p) /\ Starved(Rival(p)) /\ AwaitingAudit(Rival(p)))
<1> DEFINE q == Rival(p)
<1>1. q \in Role /\ Rival(q) = p /\ Types /\ Locals /\ Local(q)
  BY RivalFacts, UntornParts
<1> HIDE DEF q
<1>2. CASE pc[q] = "done"
  BY <1>1, <1>2, ClosedOver DEF Supplied, Ends, q
<1>3. CASE Starved(p) /\ Starved(q)
  <2>1. ~Expecting(p) /\ ~Expecting(q)
    <3>1. CASE Expecting(p)
      BY <1>3, <3>1, Stall DEF Supplied, q
    <3>2. CASE Expecting(q)
      BY <1>1, <1>3, <3>2, Stall DEF Supplied, q
    <3> QED BY <3>1, <3>2
  <2>2. AwaitingAudit(p) /\ AwaitingAudit(q)
    BY <1>3, <2>1 DEF Starved, Waiting
  <2>3. Live(q) /\ ~Ongoing(q)
    BY <1>1, <2>2 DEF AwaitingAudit, Local, Busy, Live
  <2> QED BY <1>1, <1>3, <2>2, <2>3, LiveOver DEF q
<1> QED BY <1>2, <1>3 DEF Overdue, q

\* So a deadline that had to lapse fails nobody, unless the rival is down.
LEMMA NoFailure ==
  ASSUME IInv, ~torn, NEW p \in Role, LapseOverdue(p), pc[Rival(p)] # "down",
         Supplied(p), Supplied(Rival(p))
  PROVE  pc'[p] # "failed"
<1>1. Types /\ Locals /\ Overdue(p) /\ Expire(p) /\ pc[p] # "failed"
  BY UntornParts DEF LapseOverdue, Supplied, Ends
<1>2. Over(p) \/ AwaitingAudit(p)
  BY <1>1, LapseFinds
<1> QED BY <1>1, <1>2, Failing

\* How a peer fails.
LEMMA FailsBy ==
  ASSUME Types, [Next]_vars, NEW p \in Role, pc[p] # "failed", pc'[p] = "failed"
  PROVE  \/ LapseOverdue(p) \/ LapseSlow(p)
         \/ /\ report'[p] # None
            /\ report'[p].error \notin {"none", "deadline"}
<1>0. pc \in [Role -> PC] /\ report \in [Role -> Report \cup {None}]
  BY DEF Types, TypesOfPeers
<1>1. ASSUME NEW why \in {"conflicting commit", "flooded", "echoed role", "illegal action"},
             Fail(p, why)
      PROVE  report'[p] # None /\ report'[p].error \notin {"none", "deadline"}
  <2>1. report'[p] = [error |-> why]
    BY <1>0, <1>1 DEF Fail, Abandon
  <2>2. report'[p] \in Report
    <3>1. why \in Error
      BY DEF Error
    <3>2. [error |-> why] \in Report
      BY <3>1 DEF Report
    <3> QED BY <2>1, <3>2
  <2>3. report'[p].error = why
    BY <2>1, ErrorFacts
  <2> QED BY <2>2, <2>3, NoneFacts
<1>2. CASE Undisturbed(p)
  BY <1>2 DEF Undisturbed, Idle
<1>3. CASE Program(p) \/ LapseSlow(p) \/ Crash(p) \/ Restart(p)
  <2>1. CASE \/ SendCommit(p) \/ SendReveal(p) \/ ApplyOwn(p) \/ SendFinalAudit(p)
             \/ OfferResume(p) \/ Crash(p) \/ Restart(p)
    BY <1>0, <2>1 DEF SendCommit, SendReveal, ApplyOwn, SendFinalAudit, OfferResume, Crash, Restart
  <2>2. CASE ReceiveDuplicate(p) \/ IgnoreOffer(p) \/ ResendCommit(p) \/ ResendReveal(p)
    BY <2>2 DEF ReceiveDuplicate, IgnoreOffer, ResendCommit, ResendReveal
  <2>3. CASE ReceiveAudit(p) \/ EmergencyAudit(p)
    BY <1>0, <2>3 DEF ReceiveAudit, EmergencyAudit, Settle, TechnicalLossReport
  <2>4. CASE ReceiveConflict(p)
    BY <1>1, <2>4 DEF ReceiveConflict
  <2>5. CASE ReceiveEarly(p)
    <3>1. Fail(p, "flooded") \/ pc' = pc
      BY <2>5 DEF ReceiveEarly
    <3> QED BY <1>1, <3>1
  <2>6. CASE ReceiveCommit(p)
    <3>1. Fail(p, "echoed role") \/ pc' = [pc EXCEPT ![p] = "await_reveal"]
      BY <2>6 DEF ReceiveCommit
    <3> QED BY <1>0, <1>1, <3>1
  <2>7. CASE ReceiveReveal(p)
    <3>1. Fail(p, "illegal action") \/ pc' = [pc EXCEPT ![p] = "loop"]
      BY <2>7 DEF ReceiveReveal
    <3> QED BY <1>0, <1>1, <3>1
  <2> QED BY <1>3, <2>1, <2>2, <2>3, <2>4, <2>5, <2>6, <2>7 DEF Program
<1> QED BY <1>2, <1>3, Moves

\* How a peer that has not failed is classified.
LEMMA DoneBy ==
  ASSUME Types, Locals, [Next]_vars, NEW p \in Role, Classified(p), pc[p] # "failed"
  PROVE  /\ pc[p] = "await_audit" /\ report'[p].error = "none"
         /\ ReceiveAudit(p) \/ LapseOverdue(p) \/ LapseSlow(p)
<1>0. pc \in [Role -> PC] /\ report \in [Role -> Report \cup {None}]
  BY DEF Types, TypesOfPeers
<1>1. ASSUME NEW verdict, NEW match, Settle(p, verdict, match) PROVE report'[p].error = "none"
  BY <1>0, <1>1 DEF Settle
<1>2. CASE Undisturbed(p)
  BY <1>2 DEF Undisturbed, Idle, Classified
<1>3. CASE Program(p) \/ LapseSlow(p) \/ Crash(p) \/ Restart(p)
  <2>1. CASE \/ SendCommit(p) \/ SendReveal(p) \/ ApplyOwn(p) \/ SendFinalAudit(p)
             \/ OfferResume(p) \/ Crash(p) \/ Restart(p)
    BY <1>0, <2>1 DEF SendCommit, SendReveal, ApplyOwn, SendFinalAudit, OfferResume, Crash,
       Restart, Classified
  <2>2. CASE ReceiveDuplicate(p) \/ IgnoreOffer(p) \/ ResendCommit(p) \/ ResendReveal(p)
    BY <2>2 DEF ReceiveDuplicate, IgnoreOffer, ResendCommit, ResendReveal, Classified
  <2>3. CASE ReceiveAudit(p)
    BY <1>1, <2>3 DEF ReceiveAudit, AwaitingAudit
  <2>4. CASE EmergencyAudit(p)
    BY <2>4 DEF EmergencyAudit
  <2>5. CASE ReceiveConflict(p) \/ ReceiveEarly(p)
    BY <1>0, <2>5 DEF ReceiveConflict, ReceiveEarly, Fail, Abandon, Classified
  <2>6. CASE ReceiveCommit(p)
    BY <1>0, <2>6 DEF ReceiveCommit, Fail, Abandon, Classified
  <2>7. CASE ReceiveReveal(p)
    BY <1>0, <2>7 DEF ReceiveReveal, Fail, Abandon, Classified
  <2>8. CASE LapseOverdue(p) \/ LapseSlow(p)
    <3>1. Expire(p)
      BY <2>8 DEF LapseOverdue, LapseSlow
    <3>2. ~ExpireFails(p) /\ ~ExpireWaits(p) /\ ~ExpireStops(p)
      BY <1>0 DEF ExpireFails, ExpireWaits, ExpireStops, Abandon, Classified
    <3>3. ~ExpireReports(p)
      BY DEF ExpireReports
    <3>4. ExpireSettles(p)
      BY <3>1, <3>2, <3>3, ExpireCases
    <3> QED BY <1>1, <2>8, <3>4 DEF ExpireSettles
  <2> QED BY <1>3, <2>1, <2>2, <2>3, <2>4, <2>5, <2>6, <2>7, <2>8 DEF Program
<1> QED BY <1>2, <1>3, Moves

\* A calm game is not failed, and is over for both when one peer classifies it.
LEMMA EndsStep ==
  ASSUME IInv, IInv', Closing, Calm, Calm', [Next]_vars,
         \A r \in Role : Supplied(r), NEW p \in Role
  PROVE  Ends(p)'
<1> DEFINE q == Rival(p)
<1>1. /\ q \in Role /\ Rival(q) = p /\ Types /\ Types' /\ Locals /\ Locals' /\ ~torn /\ ~torn'
      /\ Blameless(p)' /\ Disclosures /\ Supplied(p) /\ Supplied(q) /\ pc[p] # "failed"
  BY RivalFacts, UntornParts DEF IInv, Calm, Closing, Supplied, Ends, Faithful
<1>2. ~LapseSlow(p) /\ (LapseOverdue(p) => pc[q] # "down")
  BY <1>1, CalmBefore
<1>3. pc'[p] # "failed"
  <2> SUFFICES ASSUME pc'[p] = "failed" PROVE FALSE
    OBVIOUS
  <2>1. CASE LapseOverdue(p)
    BY <1>1, <1>2, <2>1, NoFailure
  <2>2. CASE report'[p] # None /\ report'[p].error \notin {"none", "deadline"}
    BY <1>1, <2>2 DEF Blameless
  <2> QED BY <1>1, <1>2, <2>1, <2>2, FailsBy
<1>4. Over(q) => Over(q)'
  BY <1>1, OverStep
<1>5. ASSUME pc'[p] = "done" PROVE report'[p].error = "none" /\ Over(q)'
  <2>1. CASE pc[p] = "done"
    <3>1. Idle(p)
      BY <1>1, <2>1, ClosedIdle
    <3> QED BY <1>1, <1>4, <2>1, <3>1 DEF Idle, Supplied, Ends
  <2>2. CASE pc[p] # "done"
    <3>1. Classified(p)
      BY <1>5, <2>2 DEF Classified
    <3>2. report'[p].error = "none" /\ (ReceiveAudit(p) \/ LapseOverdue(p))
      BY <1>1, <1>2, <3>1, DoneBy
    <3>3. CASE ReceiveAudit(p)
      <4>1. Final(q)
        BY <1>1, <3>3, AuditRead DEF Shown
      <4>2. Over(q)
        BY <1>1, <4>1, ClosedOver DEF Final, Supplied, Ends
      <4> QED BY <1>4, <3>2, <4>2
    <3>4. CASE LapseOverdue(p)
      <4>1. Over(q)
        BY <1>1, <1>2, <3>4, LapseFinds DEF LapseOverdue
      <4> QED BY <1>4, <3>2, <4>1
    <3> QED BY <3>2, <3>3, <3>4
  <2> QED BY <2>1, <2>2
<1> QED BY <1>3, <1>5 DEF Ends

-----------------------------------------------------------------------------
(* The one crash, and the inboxes *)

\* A peer's control inbox is emptied by resending, by ignoring, by crashing.
LEMMA OwnControls ==
  ASSUME Types, Locals, NEW p \in Role, Program(p) \/ LapseSlow(p) \/ Crash(p) \/ Restart(p)
  PROVE  /\ controls[p] = 0 => controls'[p] = 0
         /\ ~Crash(p) /\ controls[p] > 0 =>
              controls'[p] = controls[p] \/ ResendReveal(p) \/ IgnoreOffer(p)
<1>0. controls \in [Role -> Nat] /\ Rival(p) # p /\ Local(p)
  BY RivalFacts DEF Types, TypesOfWire, Locals
<1>1. CASE OfferResume(p)
  BY <1>0, <1>1 DEF OfferResume
<1>2. CASE IgnoreOffer(p)
  BY <1>0, <1>2 DEF IgnoreOffer
<1>3. CASE ResendReveal(p)
  BY <1>0, <1>3 DEF ResendReveal, Local, Resending
<1>4. CASE Crash(p)
  BY <1>0, <1>4 DEF Crash
<1>5. CASE ~OfferResume(p) /\ ~IgnoreOffer(p) /\ ~ResendReveal(p) /\ ~Crash(p)
  <2>1. controls' = controls
    BY <1>5 DEF Program, SendCommit, SendReveal, ApplyOwn, ReceiveDuplicate,
         ReceiveConflict, ReceiveEarly, ReceiveCommit, ReceiveReveal, SendFinalAudit,
         ReceiveAudit, EmergencyAudit, ResendCommit, LapseOverdue, LapseSlow, Restart, boxes
  <2> QED BY <2>1
<1> QED BY <1>1, <1>2, <1>3, <1>4, <1>5

\* Whoever goes down crashed, or was giving up a resume already.
LEMMA DownBy ==
  ASSUME Types, NEW p \in Role, Program(p) \/ LapseSlow(p) \/ Crash(p) \/ Restart(p),
         pc'[p] \in {"down", "offering"}
  PROVE  Crash(p) \/ pc[p] \in {"down", "offering"}
<1>0. pc \in [Role -> PC]
  BY DEF Types, TypesOfPeers
<1>1. CASE SendCommit(p) \/ SendReveal(p) \/ ApplyOwn(p) \/ SendFinalAudit(p) \/ OfferResume(p)
  BY <1>0, <1>1 DEF SendCommit, SendReveal, ApplyOwn, SendFinalAudit, OfferResume
<1>2. CASE ReceiveDuplicate(p) \/ IgnoreOffer(p) \/ ResendCommit(p) \/ ResendReveal(p)
  BY <1>2 DEF ReceiveDuplicate, IgnoreOffer, ResendCommit, ResendReveal
<1>3. CASE ReceiveAudit(p) \/ EmergencyAudit(p)
  BY <1>0, <1>3 DEF ReceiveAudit, EmergencyAudit, Settle, TechnicalLossReport
<1>4. CASE ReceiveConflict(p) \/ ReceiveEarly(p)
  BY <1>0, <1>4 DEF ReceiveConflict, ReceiveEarly, Fail, Abandon
<1>5. CASE ReceiveCommit(p)
  BY <1>0, <1>5 DEF ReceiveCommit, Fail, Abandon
<1>6. CASE ReceiveReveal(p)
  BY <1>0, <1>6 DEF ReceiveReveal, Fail, Abandon
<1>7. CASE LapseOverdue(p) \/ LapseSlow(p)
  <2>1. Expire(p)
    BY <1>7 DEF LapseOverdue, LapseSlow
  <2>2. ~ExpireFails(p) /\ ~ExpireWaits(p)
    BY <1>0 DEF ExpireFails, ExpireWaits, Abandon
  <2>3. ~ExpireSettles(p) /\ ~ExpireReports(p)
    BY <1>0 DEF ExpireSettles, ExpireReports, Settle, TechnicalLossReport
  <2> QED BY <2>1, <2>2, <2>3, ExpireCases DEF ExpireStops
<1>8. CASE Restart(p)
  BY <1>8 DEF Restart
<1> QED BY <1>1, <1>2, <1>3, <1>4, <1>5, <1>6, <1>7, <1>8 DEF Program

\* A step keeps what the one crash explains.
LEMMA CrashedStep ==
  ASSUME IInv, IInv', Calm, Calm', [Next]_vars, \A r \in Role : Supplied(r), NEW p \in Role
  PROVE  Crashed(p)'
<1> DEFINE q == Rival(p)
<1>1. /\ q \in Role /\ Rival(q) = p /\ Types /\ Types' /\ Locals
      /\ Crashed(p) /\ Crashed(q)
  BY RivalFacts, UntornParts DEF IInv, Calm, Supplied
<1>2. crashes \in Nat /\ crashes' \in Nat /\ (crashes' = 0 => crashes = 0)
      /\ (Crash(p) => crashes = 0 /\ crashes' # 0)
  <2>1. crashes \in Nat /\ crashes' \in Nat
    BY <1>1 DEF Types, TypesOfHistory
  <2>2. Crash(p) => crashes = 0 /\ crashes' = crashes + 1
    BY <1>1, CalmBefore DEF Crash
  <2>3. crashes = 1 => crashes' = 1
    BY <1>1, CalmBefore
  <2> QED BY <2>1, <2>2, <2>3 DEF Calm
<1>3. CASE Program(p) \/ LapseSlow(p) \/ Crash(p) \/ Restart(p)
  <2>1. Undisturbed(q) /\ (~OfferResume(p) => controls'[q] = controls[q])
    BY <1>1, <1>3, RivalUndisturbed, RivalFacts
  <2>2. ASSUME crashes' = 0 PROVE pc'[p] \notin {"down", "offering"} /\ controls'[p] = 0
    BY <1>1, <1>2, <1>3, <2>2, DownBy, OwnControls DEF Crashed
  <2>3. ASSUME pc'[p] \in {"down", "offering"} PROVE controls'[q] = 0
    <3>1. controls[q] = 0
      BY <1>1, <1>2, <1>3, <2>3, DownBy DEF Crashed
    <3>2. ~OfferResume(p)
      BY <1>1, <2>3 DEF OfferResume, Types, TypesOfPeers
    <3> QED BY <2>1, <3>1, <3>2
  <2> QED BY <2>2, <2>3 DEF Crashed
<1>4. CASE /\ Program(q) \/ LapseSlow(q) \/ Crash(q) \/ Restart(q)
           /\ Undisturbed(p) /\ (~OfferResume(q) => controls'[p] = controls[p])
  <2>1. controls[q] = 0 => controls'[q] = 0
    BY <1>1, <1>4, OwnControls
  <2>2. crashes = 0 => ~OfferResume(q)
    BY <1>1 DEF Crashed, OfferResume
  <2> QED BY <1>1, <1>2, <1>4, <2>1, <2>2 DEF Crashed, Undisturbed, Idle
<1>5. CASE (\A r \in Role : Undisturbed(r)) /\ controls' = controls /\ crashes' = crashes
  BY <1>1, <1>5 DEF Crashed, Undisturbed, Idle
<1> QED BY <1>1, <1>3, <1>4, <1>5, Moves

\* What is not at the head is in the tail.
LEMMA InTail ==
  ASSUME NEW S, NEW s \in Seq(S), s # << >>, NEW e \in Range(s), e # Head(s)
  PROVE  e \in Range(Tail(s))
<1>1. PICK i \in 1 .. Len(s) : s[i] = e
  BY DEF Range
<1>2. i # 1
  BY <1>1
<1>3. /\ Tail(s) \in Seq(S) /\ Len(Tail(s)) = Len(s) - 1 /\ DOMAIN Tail(s) = 1 .. Len(Tail(s))
      /\ Tail(s)[i - 1] = s[i]
  BY <1>1, <1>2
<1>4. i - 1 \in DOMAIN Tail(s)
  BY <1>1, <1>2, <1>3
<1> QED BY <1>1, <1>3, <1>4 DEF Range

\* Taking a message leaves those of another key.
LEMMA TakeKeeps ==
  ASSUME Types, NEW p \in Role, HasMessage(p), TakeMessage(p), NEW m, Delivery(p, m),
         Key(m) # Key(Message(p))
  PROVE  Delivery(p, m)'
<1>1. turns[p] \in Seq(Msg) /\ p \in DOMAIN turns /\ p \in DOMAIN pending
  BY DEF Types, TypesOfWire
<1>2. CASE Buffered(p) # {}
  <2>1. Key(Message(p)) = Expected(p)
    BY <1>2, MessageFacts DEF Buffered
  <2>2. m \notin Buffered(p)
    BY <2>1 DEF Buffered
  <2> QED BY <1>1, <1>2, <2>2 DEF TakeMessage, Delivery
<1>3. CASE Buffered(p) = {}
  <2>1. turns[p] # << >> /\ Message(p) = Head(turns[p])
    BY <1>3, MessageFacts
  <2>2. turns'[p] = Tail(turns[p]) /\ pending' = pending
    BY <1>1, <1>3 DEF TakeMessage
  <2>3. ASSUME m \in Range(turns[p]) PROVE m \in Range(Tail(turns[p]))
    BY <1>1, <2>1, <2>3, InTail
  <2> QED BY <2>2, <2>3 DEF Delivery
<1> QED BY <1>2, <1>3

\* A step of p itself takes what it receives from its inboxes, and no more.
LEMMA InboxKeeps ==
  ASSUME Types, NEW p \in Role, Program(p) \/ LapseSlow(p) \/ Restart(p),
         pc'[p] # "failed", NEW m, Delivery(p, m)
  PROVE  \/ Delivery(p, m)'
         \/ /\ Key(m) = Key(Message(p)) /\ Expecting(p) /\ HasMessage(p)
            /\ \/ ReceiveDuplicate(p) \/ ReceiveConflict(p) \/ ReceiveCommit(p) \/ ReceiveReveal(p)
               \/ ReceiveEarly(p) /\ Message(p) \in pending'[p]
<1>0. pc \in [Role -> PC] /\ Rival(p) # p /\ turns \in [Role -> Seq(Msg)]
      /\ pending \in [Role -> SUBSET Msg]
  BY RivalFacts DEF Types, TypesOfPeers, TypesOfWire
<1>1. CASE ReceiveDuplicate(p) \/ ReceiveConflict(p) \/ ReceiveCommit(p) \/ ReceiveReveal(p)
  BY <1>1, TakeKeeps DEF ReceiveDuplicate, ReceiveConflict, ReceiveCommit, ReceiveReveal
<1>2. CASE ReceiveEarly(p)
  <2>1. Buffered(p) = {} /\ HasMessage(p) /\ Expecting(p)
    BY <1>2, MessageFacts DEF ReceiveEarly, Buffered
  <2>2. turns[p] # << >> /\ Message(p) = Head(turns[p])
    BY <2>1, MessageFacts
  <2>3. ~Fail(p, "flooded")
    BY <1>0 DEF Fail, Abandon
  <2>4. /\ turns'[p] = Tail(turns[p])
        /\ pending'[p] = {x \in pending[p] : Key(x) # Key(Message(p))} \cup {Message(p)}
    BY <1>0, <1>2, <2>3 DEF ReceiveEarly
  <2>5. ASSUME m \in Range(turns[p]), m # Head(turns[p]) PROVE m \in Range(Tail(turns[p]))
    BY <1>0, <2>2, <2>5, InTail
  <2> QED BY <1>2, <2>1, <2>2, <2>4, <2>5 DEF Delivery
<1>3. CASE SendCommit(p) \/ SendReveal(p) \/ ResendCommit(p) \/ ResendReveal(p)
  <2>1. turns'[p] = turns[p] /\ pending' = pending
    BY <1>0, <1>3 DEF SendCommit, SendReveal, ResendCommit, ResendReveal, SendTurn, Delivered, memory
  <2> QED BY <2>1 DEF Delivery
<1>4. CASE \/ ApplyOwn(p) \/ SendFinalAudit(p) \/ ReceiveAudit(p) \/ EmergencyAudit(p)
           \/ OfferResume(p) \/ IgnoreOffer(p) \/ LapseOverdue(p) \/ LapseSlow(p) \/ Restart(p)
  <2>1. turns' = turns /\ pending' = pending
    BY <1>4 DEF ApplyOwn, SendFinalAudit, ReceiveAudit, EmergencyAudit, OfferResume,
       IgnoreOffer, LapseOverdue, LapseSlow, Restart, memory, boxes
  <2> QED BY <2>1 DEF Delivery
<1> QED BY <1>1, <1>2, <1>3, <1>4 DEF Program

-----------------------------------------------------------------------------
(* The rival moves: what p waits for is sent *)

\* Who starts a half-turn, and who reveals it.
LEMMA DraftBy ==
  ASSUME Types, NEW r \in Role, Program(r) \/ LapseSlow(r) \/ Crash(r) \/ Restart(r)
  PROVE  /\ draft'[r] # None /\ draft[r] = None => SendCommit(r)
         /\ pc'[r] = "applying" /\ pc[r] # "applying" => SendReveal(r)
<1>0. pc \in [Role -> PC] /\ draft \in [Role -> SealedRec \cup {None}]
  BY DEF Types, TypesOfPeers
<1>1. CASE SendReveal(r) \/ SendFinalAudit(r) \/ OfferResume(r) \/ Restart(r)
  BY <1>0, <1>1 DEF SendReveal, SendFinalAudit, OfferResume, Restart, memory
<1>2. CASE ReceiveDuplicate(r) \/ IgnoreOffer(r) \/ ResendCommit(r) \/ ResendReveal(r)
  BY <1>2 DEF ReceiveDuplicate, IgnoreOffer, ResendCommit, ResendReveal, memory
<1>3. CASE ReceiveAudit(r) \/ EmergencyAudit(r)
  BY <1>0, <1>3 DEF ReceiveAudit, EmergencyAudit, Settle, TechnicalLossReport, memory
<1>4. CASE ReceiveConflict(r) \/ ReceiveEarly(r)
  BY <1>0, <1>4 DEF ReceiveConflict, ReceiveEarly, Fail, Abandon
<1>5. CASE ReceiveCommit(r)
  BY <1>0, <1>5 DEF ReceiveCommit, Fail, Abandon
<1>6. CASE ReceiveReveal(r)
  BY <1>0, <1>6 DEF ReceiveReveal, Fail, Abandon
<1>7. CASE LapseOverdue(r) \/ LapseSlow(r)
  <2>1. Expire(r) /\ draft' = draft
    BY <1>7 DEF LapseOverdue, LapseSlow
  <2>2. pc'[r] # "applying"
    <3>1. CASE ExpireFails(r)
      BY <1>0, <3>1 DEF ExpireFails, Abandon
    <3>2. CASE ExpireWaits(r)
      BY <1>0, <3>2 DEF ExpireWaits
    <3>3. CASE ExpireSettles(r) \/ ExpireReports(r)
      BY <1>0, <3>3 DEF ExpireSettles, ExpireReports, Settle, TechnicalLossReport
    <3>4. CASE ExpireStops(r)
      BY <1>0, <3>4 DEF ExpireStops
    <3> QED BY <2>1, <3>1, <3>2, <3>3, <3>4, ExpireCases
  <2> QED BY <2>1, <2>2
<1>8. CASE SendCommit(r) \/ ApplyOwn(r) \/ Crash(r)
  BY <1>0, <1>8 DEF SendCommit, ApplyOwn, Crash
<1> QED BY <1>1, <1>2, <1>3, <1>4, <1>5, <1>6, <1>7, <1>8 DEF Program

\* A record is sealed by sending its commit, and revealed by sending its reveal.
LEMMA NewRecord ==
  ASSUME IInv, IInv', ~torn, ~torn', [Next]_vars, NEW r \in Role,
         Program(r) \/ LapseSlow(r) \/ Crash(r) \/ Restart(r), NEW i
  PROVE  /\ Sealed(r, i)' /\ ~Sealed(r, i) => SendCommit(r) /\ RecordOf(r, i)' = draft'[r]
         /\ Revealed(r, i)' /\ ~Revealed(r, i) => SendReveal(r) /\ RecordOf(r, i)' = draft[r]
<1>1. Quiet(r) \/ Plays(r) \/ Listens(r) \/ Locks(r) \/ Keeps(r)
  BY UntornParts, StepEffect DEF IInv
<1>2. Types /\ Types' /\ Locals /\ Locals'
  BY DEF IInv
<1>3. OwnLog(r) \in Seq(SealedRec) /\ Len(OwnLog(r)) \in Nat
  BY <1>2, KeptLogs
<1>4. CASE OwnLog(r)' = OwnLog(r)
  <2>1. Sealed(r, i)' /\ ~Sealed(r, i) =>
          i = Len(OwnLog(r)) + 1 /\ draft'[r] # None /\ draft[r] = None
    BY <1>4 DEF Sealed
  <2>2. Revealed(r, i)' /\ ~Revealed(r, i) =>
          i = Len(OwnLog(r)) + 1 /\ pc'[r] = "applying" /\ pc[r] # "applying"
    BY <1>4 DEF Revealed
  <2>3. i = Len(OwnLog(r)) + 1 => RecordOf(r, i)' = draft'[r]
    BY <1>3, <1>4 DEF RecordOf
  <2>4. SendReveal(r) => draft' = draft
    BY DEF SendReveal, memory
  <2> QED BY <1>2, <2>1, <2>2, <2>3, <2>4, DraftBy
<1>5. CASE Plays(r)
  <2>1. OwnLog(r)' = Append(OwnLog(r), draft[r]) /\ pc[r] = "applying" /\ pc'[r] = "loop"
        /\ draft[r] # None /\ draft[r] \in SealedRec
    BY <1>2, <1>5, ApplyingDrafts DEF Plays, Types, TypesOfPeers
  <2>2. draft'[r] = None
    BY <1>2, <1>5 DEF Plays, ApplyOwn, Types, TypesOfPeers
  <2>3. Len(OwnLog(r)') = Len(OwnLog(r)) + 1
    BY <1>3, <2>1
  <2>4. Sealed(r, i)' => i \in 1 .. Len(OwnLog(r)) + 1
    BY <2>2, <2>3 DEF Sealed
  <2>5. Revealed(r, i)' => i \in 1 .. Len(OwnLog(r)) + 1
    BY <2>1, <2>3 DEF Revealed
  <2>6. i \in 1 .. Len(OwnLog(r)) + 1 => Sealed(r, i) /\ Revealed(r, i)
    BY <1>3, <2>1 DEF Sealed, Revealed
  <2> QED BY <2>4, <2>5, <2>6
<1> QED BY <1>1, <1>4, <1>5 DEF Quiet, Steady, Listens, Locks, Keeps

\* The last record of a peer that sends nothing new is the one its rival hears next.
LEMMA LastIsNext ==
  ASSUME IInv, ~torn, NEW p \in Role, Sealed(Rival(p), Turn(p)),
         draft[Rival(p)] = None, pc[Rival(p)] # "down"
  PROVE  /\ own[Rival(p)] # << >> /\ own[Rival(p)] \in Seq(SealedRec)
         /\ Last(own[Rival(p)]) = RecordOf(Rival(p), Turn(p))
<1> DEFINE q == Rival(p)
           k == Turn(p)
<1>1. q \in Role /\ Rival(q) = p /\ Types /\ Locals /\ Heard(p) /\ Heard(q)
  BY RivalFacts, UntornParts
<1>2. OwnLog(q) = own[q] /\ own[q] \in Seq(SealedRec)
  BY <1>1, MemoryLogs DEF Types, TypesOfPeers
<1>3. k \in 1 .. Len(own[q])
  BY <1>2 DEF Sealed
<1>4. Sealed(q, Len(own[q]))
  BY <1>2, <1>3 DEF Sealed
<1>5. Len(own[q]) <= k
  BY <1>1, <1>4, ReachAll
<1>6. k = Len(own[q]) /\ own[q] # << >>
  BY <1>2, <1>3, <1>5
<1>7. RecordOf(q, k) = own[q][k]
  BY <1>2, <1>6 DEF RecordOf
<1> QED BY <1>2, <1>6, <1>7 DEF Last

\* A send to a rival that still plays is a delivery.
LEMMA SendDelivers ==
  ASSUME Types, NEW p \in Role, NEW m \in Msg, SendTurn(Rival(p), m), pc[p] # "done",
         pending'[p] = pending[p]
  PROVE  Delivery(p, m)'
<1>1. Rival(p) \in Role /\ Rival(Rival(p)) = p /\ turns[p] \in Seq(Msg)
  BY RivalFacts DEF Types, TypesOfWire
<1>2. turns'[p] = Append(turns[p], m)
  <2>1. LET q == Rival(p) IN
          turns'[Rival(q)] = IF pc[Rival(q)] = "done" THEN turns[Rival(q)]
                             ELSE Append(turns[Rival(q)], m)
    BY <1>1, SendTurnEffect
  <2> QED BY <1>1, <2>1
<1>3. m \in Range(Append(turns[p], m))
  BY <1>1, RangeFacts
<1> QED BY <1>2, <1>3 DEF Delivery

\* Only an answered offer starts a resend.
LEMMA ResendsBy ==
  ASSUME Types, NEW r \in Role, Program(r) \/ LapseSlow(r) \/ Crash(r) \/ Restart(r),
         ~ResendCommit(r), resending[r] = FALSE
  PROVE  resending'[r] = FALSE
<1>0. resending \in [Role -> BOOLEAN]
  BY DEF Types, TypesOfPeers
<1>1. CASE ResendReveal(r) \/ Crash(r)
  BY <1>0, <1>1 DEF ResendReveal, Crash
<1>2. CASE LapseOverdue(r) \/ LapseSlow(r)
  BY <1>0, <1>2 DEF LapseOverdue, LapseSlow
<1>3. CASE ~ResendReveal(r) /\ ~Crash(r) /\ ~LapseOverdue(r) /\ ~LapseSlow(r)
  <2>1. resending' = resending
    BY <1>3 DEF Program, SendCommit, SendReveal, ApplyOwn, ReceiveDuplicate,
       ReceiveConflict, ReceiveEarly, ReceiveCommit, ReceiveReveal, SendFinalAudit,
       ReceiveAudit, EmergencyAudit, OfferResume, IgnoreOffer, Restart, memory
  <2> QED BY <2>1
<1> QED BY <1>1, <1>2, <1>3

\* The rival sends: what p waits for stays on its way, or gets under way.
LEMMA RivalSupplies ==
  ASSUME IInv, IInv', Calm, Calm', [Next]_vars, NEW p \in Role, Undisturbed(p),
         Crashed(p)', \A r \in Role : Supplied(r),
         LET q == Rival(p) IN Program(q) \/ LapseSlow(q) \/ Crash(q) \/ Restart(q)
  PROVE  CommitComes(p)' /\ RevealComes(p)'
<1> DEFINE q == Rival(p)
<1>0. PICK k : k = Turn(p)
  OBVIOUS
<1>1. /\ q \in Role /\ Rival(q) = p /\ p # q /\ Types /\ Types' /\ Locals /\ Locals'
      /\ ~torn /\ ~torn' /\ Local(q) /\ Local(q)' /\ Supplied(p) /\ Supplied(q)
      /\ Heard(p) /\ Heard(q) /\ Addressed /\ Faithful
  BY RivalFacts, UntornParts DEF IInv, Calm, Locals
<1>2. Turn(p)' = k /\ Over(p)' = Over(p) /\ pc'[p] = pc[p] /\ pending'[p] = pending[p]
      /\ \A m : Delivery(p, m) => Delivery(p, m)'
  BY <1>0, UndisturbedLogs DEF Undisturbed, Idle, Delivery
<1>3. /\ Sealed(q, k) => RecordOf(q, k)' = RecordOf(q, k)
      /\ Revealed(q, k) => Sealed(q, k)
  <2>1. Quiet(q) \/ Plays(q) \/ Listens(q) \/ Locks(q) \/ Keeps(q)
    BY <1>1, StepEffect
  <2>2. Sealed(q, k) => RecordOf(q, k)' = RecordOf(q, k)
    <3> SUFFICES ASSUME Sealed(q, k) PROVE RecordOf(q, k)' = RecordOf(q, k)
      OBVIOUS
    <3>1. \A i : Sealed(q, i) => RecordOf(q, i)' = RecordOf(q, i)
      BY <1>1, <2>1, Growth
    <3> QED BY <3>1
  <2> QED BY <1>1, <2>2, SealedFacts
<1>4. ~Over(p) => pc[p] # "done"
  BY <1>1, ClosedOver DEF Supplied, Ends
<1>4a. Program(q) \/ LapseSlow(q) \/ Crash(q) \/ Restart(q)
  OBVIOUS
<1>5. controls[q] > 0 => ~Crash(q)
  <2>1. Crash(q) => crashes = 0
    BY <1>1, CalmBefore
  <2> QED BY <1>1, <2>1 DEF Supplied, Crashed
<1>6. Sealed(q, k) => ~IgnoreOffer(q)
  <2> SUFFICES ASSUME Sealed(q, k), IgnoreOffer(q) PROVE FALSE
    OBVIOUS
  <2>1. own[q] = << >> /\ pc[q] \in {"loop", "await_reveal", "await_audit"}
    BY DEF IgnoreOffer, Waiting, Expecting, AwaitingAudit
  <2>2. draft[q] = None
    BY <1>1, <2>1 DEF Local, Drafted
  <2> QED BY <1>0, <1>1, <2>1, <2>2, LastIsNext DEF Live
<1>7. ASSUME ResendCommit(q) \/ ResendReveal(q), Sealed(q, k)
      PROVE  /\ Last(own[q]) \in SealedRec /\ Last(own[q]) = RecordOf(q, k)
             /\ CommitMessage(RecordOf(q, k)) \in Msg /\ RevealMessage(RecordOf(q, k)) \in Msg
  <2>1. draft[q] = None /\ Live(q)
    BY <1>1, <1>7, ResendingFacts
  <2>2. own[q] # << >> /\ own[q] \in Seq(SealedRec) /\ Last(own[q]) = RecordOf(q, k)
    BY <1>0, <1>1, <1>7, <2>1, LastIsNext DEF Live
  <2> QED BY <2>2, LastFacts, MessageTypes
<1>8. ASSUME SendCommit(q)
      PROVE  draft'[q] \in SealedRec /\ SendTurn(q, CommitMessage(draft'[q]))
  <2>1. PICK a \in Choice :
          LET r == SealedRecord(StepPayload(Step(q), q, a), incarnation[q]) IN
          /\ ActionLegal(engine[q], q, a)
          /\ draft'[q] = r /\ r \in SealedRec /\ SendTurn(q, CommitMessage(r))
    BY <1>1, <1>8, SendFacts
  <2> QED BY <2>1
<1>9. ASSUME SendReveal(q)
      PROVE  draft[q] \in SealedRec /\ SendTurn(q, RevealMessage(draft[q]))
  <2>1. draft[q] # None
    BY <1>1, <1>9, ApplyingDrafts DEF SendReveal
  <2> QED BY <1>1, <1>9, <2>1 DEF SendReveal, Types, TypesOfPeers
<1> HIDE DEF q
<1>10. CommitComes(p)'
  <2> SUFFICES ASSUME ~Over(p), Sealed(q, k)'
               PROVE  \/ pc'[p] = "await_reveal"
                      \/ Delivery(p, CommitMessage(RecordOf(q, k)))'
                      \/ Remedy(p)' /\ ~resending'[q]
    BY <1>2 DEF CommitComes, q
  <2>1. CASE ~Sealed(q, k)
    <3>1. SendCommit(q) /\ RecordOf(q, k)' = draft'[q]
      BY <1>1, <1>4a, <2>1, NewRecord
    <3>2. Delivery(p, CommitMessage(draft[q]))'
      <4>1. CommitMessage(draft'[q]) \in Msg
        BY <1>8, <3>1, MessageTypes
      <4> DEFINE m == CommitMessage(draft'[q])
      <4>2. SendTurn(q, m) /\ m \in Msg
        BY <1>8, <3>1, <4>1
      <4> HIDE DEF m
      <4>3. m \in Range(turns'[p]) \cup pending'[p]
        BY <1>1, <1>2, <1>4, <4>2, SendDelivers DEF Delivery, q
      <4> QED BY <4>3 DEF Delivery, m
    <3> QED BY <3>1, <3>2 DEF Delivery
  <2>2. CASE Sealed(q, k)
    <3>1. \/ pc[p] = "await_reveal"
          \/ Delivery(p, CommitMessage(RecordOf(q, k)))
          \/ Remedy(p) /\ ~resending[q]
      BY <1>0, <1>1, <2>2 DEF Supplied, CommitComes, q
    <3>2. CASE Delivery(p, CommitMessage(RecordOf(q, k)))
      BY <1>2, <1>3, <2>2, <3>2 DEF Delivery
    <3>3. CASE pc[p] \in {"down", "offering"}
      <4>1. controls'[q] = 0
        BY <1>2, <3>3 DEF Crashed, q
      <4>2. ~resending'[q]
        BY <1>1, <4>1 DEF Local, Resending
      <4> QED BY <1>2, <3>3, <4>2 DEF Remedy
    <3>4. CASE controls[q] > 0 /\ ~resending[q] /\ ResendCommit(q)
      <4> DEFINE m == CommitMessage(RecordOf(q, k))
      <4>1. SendTurn(q, m) /\ m \in Msg
        BY <1>7, <2>2, <3>4 DEF ResendCommit
      <4>2. Delivery(p, m)'
        <5> HIDE DEF m
        <5>1. m \in Range(turns'[p]) \cup pending'[p]
          BY <1>1, <1>2, <1>4, <4>1, SendDelivers DEF Delivery, q
        <5> QED BY <5>1, <1>3, <2>2 DEF Delivery, m
      <4> QED BY <4>2
    <3>5. CASE controls[q] > 0 /\ ~resending[q] /\ ~ResendCommit(q)
      <4>1. controls'[q] = controls[q]
        <5>1. ~ResendReveal(q)
          BY <3>5 DEF ResendReveal
        <5> QED BY <1>1, <1>5, <1>6, <2>2, <3>5, <5>1, <1>4a, OwnControls
      <4>2. resending'[q] = FALSE
        BY <1>1, <3>5, <1>4a, ResendsBy DEF Types, TypesOfPeers
      <4> QED BY <3>5, <4>1, <4>2 DEF Remedy, q
    <3> QED BY <1>2, <3>1, <3>2, <3>3, <3>4, <3>5 DEF Remedy, q
  <2> QED BY <2>1, <2>2
<1>11. RevealComes(p)'
  <2> SUFFICES ASSUME ~Over(p), Revealed(q, k)'
               PROVE  Delivery(p, RevealMessage(RecordOf(q, k)))' \/ Remedy(p)'
    BY <1>2 DEF RevealComes, q
  <2>1. CASE ~Revealed(q, k)
    <3>1. SendReveal(q) /\ RecordOf(q, k)' = draft[q]
      BY <1>1, <1>4a, <2>1, NewRecord
    <3> DEFINE m == RevealMessage(draft[q])
    <3>2. SendTurn(q, m) /\ m \in Msg
      BY <1>9, <3>1, MessageTypes
    <3>3. m \in Range(turns'[p]) \cup pending'[p]
      <4> HIDE DEF m
      <4> QED BY <1>1, <1>2, <1>4, <3>2, SendDelivers DEF Delivery, q
    <3> QED BY <3>1, <3>3 DEF Delivery
  <2>2. CASE Revealed(q, k)
    <3>1. Delivery(p, RevealMessage(RecordOf(q, k))) \/ Remedy(p)
      BY <1>0, <1>1, <2>2 DEF Supplied, RevealComes, q
    <3>2. CASE Delivery(p, RevealMessage(RecordOf(q, k)))
      BY <1>2, <1>3, <2>2, <3>2 DEF Delivery
    <3>3. CASE pc[p] \in {"down", "offering"}
      BY <1>2, <3>3 DEF Remedy
    <3>4. CASE controls[q] > 0 /\ ResendReveal(q)
      <4> DEFINE m == RevealMessage(RecordOf(q, k))
      <4>1. SendTurn(q, m) /\ m \in Msg
        BY <1>3, <1>7, <2>2, <3>4 DEF ResendReveal
      <4>2. m \in Range(turns'[p]) \cup pending'[p]
        <5> HIDE DEF m
        <5> QED BY <1>1, <1>2, <1>4, <4>1, SendDelivers DEF Delivery, q
      <4> QED BY <1>3, <2>2, <4>2 DEF Delivery
    <3>5. CASE controls[q] > 0 /\ ~ResendReveal(q)
      <4>1. controls'[q] = controls[q]
        BY <1>1, <1>3, <1>5, <1>6, <2>2, <3>5, <1>4a, OwnControls
      <4> QED BY <3>5, <4>1 DEF Remedy, q
    <3> QED BY <1>2, <3>1, <3>2, <3>3, <3>4, <3>5 DEF Remedy, q
  <2> QED BY <2>1, <2>2
<1> QED BY <1>10, <1>11

-----------------------------------------------------------------------------
(* The peer itself moves: what it waits for is kept *)

\* How a peer that holds a commit lets go of it, and one that is down gets up.
LEMMA LeavesBy ==
  ASSUME Types, NEW p \in Role, Program(p) \/ LapseSlow(p) \/ Crash(p) \/ Restart(p)
  PROVE  /\ pc[p] = "await_reveal" =>
              pc'[p] \in {"await_reveal", "failed", "down"} \/ ReceiveReveal(p)
         /\ pc[p] \in {"down", "offering"} =>
              pc'[p] \in {"down", "offering"} \/ OfferResume(p)
<1>0. pc \in [Role -> PC]
  BY DEF Types, TypesOfPeers
<1>1. CASE \/ SendCommit(p) \/ SendReveal(p) \/ ApplyOwn(p) \/ SendFinalAudit(p)
           \/ OfferResume(p) \/ Crash(p) \/ Restart(p)
  BY <1>0, <1>1 DEF SendCommit, SendReveal, ApplyOwn, SendFinalAudit, OfferResume, Crash,
     Restart, MyTurn
<1>2. CASE ReceiveDuplicate(p) \/ IgnoreOffer(p) \/ ResendCommit(p) \/ ResendReveal(p)
  BY <1>2 DEF ReceiveDuplicate, IgnoreOffer, ResendCommit, ResendReveal
<1>3. CASE ReceiveAudit(p) \/ EmergencyAudit(p)
  BY <1>3 DEF ReceiveAudit, EmergencyAudit, AwaitingAudit
<1>4. CASE ReceiveConflict(p) \/ ReceiveEarly(p)
  <2>1. pc'[p] \in {pc[p], "failed"} /\ Expecting(p)
    BY <1>0, <1>4 DEF ReceiveConflict, ReceiveEarly, Fail, Abandon
  <2> QED BY <2>1 DEF Expecting
<1>5. CASE ReceiveCommit(p)
  <2>1. pc'[p] \in {"await_reveal", "failed"} /\ Expecting(p)
    BY <1>0, <1>5 DEF ReceiveCommit, Fail, Abandon
  <2> QED BY <2>1 DEF Expecting
<1>6. CASE ReceiveReveal(p)
  BY <1>6 DEF ReceiveReveal, Expecting
<1>7. CASE LapseOverdue(p) \/ LapseSlow(p)
  <2>1. Expire(p)
    BY <1>7 DEF LapseOverdue, LapseSlow
  <2>2. CASE ExpireFails(p)
    BY <1>0, <2>2 DEF ExpireFails, Abandon, Live, Expire
  <2>3. CASE ExpireWaits(p) \/ ExpireSettles(p) \/ ExpireReports(p) \/ ExpireStops(p)
    BY <1>0, <2>3 DEF ExpireWaits, ExpireSettles, ExpireReports, ExpireStops
  <2> QED BY <2>1, <2>2, <2>3, ExpireCases
<1> QED BY <1>1, <1>2, <1>3, <1>4, <1>5, <1>6, <1>7 DEF Program

\* The record waited for changes with a reveal, and with nothing else.
LEMMA TurnStep ==
  ASSUME IInv, IInv', ~torn, ~torn', [Next]_vars, NEW p \in Role
  PROVE  /\ Turn(p) \in Nat
         /\ ~Listens(p) => Turn(p)' = Turn(p)
         /\ Listens(p) => Turn(p)' = Turn(p) + 1
<1>1. Quiet(p) \/ Plays(p) \/ Listens(p) \/ Locks(p) \/ Keeps(p)
  BY UntornParts, StepEffect DEF IInv
<1>2. TheirLog(p) \in Seq(SeenRec) /\ Len(TheirLog(p)) \in Nat
  BY UntornParts, KeptLogs
<1>3. Steady(p) => Len(TheirLog(p)') = Len(TheirLog(p))
  BY DEF Steady, SameRecords
<1>4. Plays(p) => Len(TheirLog(p)') = Len(TheirLog(p))
  BY DEF Plays
<1>5. ASSUME Listens(p) PROVE Len(TheirLog(p)') = Len(TheirLog(p)) + 1
  <2> DEFINE x == [payload |-> Message(p).payload, commit |-> locked[p]]
  <2>1. TheirLog(p)' = Append(TheirLog(p), x)
    BY <1>5 DEF Listens
  <2> HIDE DEF x
  <2> QED BY <1>2, <2>1
<1>6. ~Listens(p) => Len(TheirLog(p)') = Len(TheirLog(p))
  BY <1>1, <1>3, <1>4 DEF Quiet, Locks, Keeps
<1> QED BY <1>2, <1>5, <1>6 DEF Turn

\* What p throws away, it had consumed; what it takes, it uses.
LEMMA TakesNext ==
  ASSUME IInv, ~torn, NEW p \in Role, Program(p) \/ LapseSlow(p) \/ Restart(p),
         pc'[p] # "failed", NEW r, r = RecordOf(Rival(p), Turn(p)), Sealed(Rival(p), Turn(p))
  PROVE  /\ Delivery(p, CommitMessage(r)) /\ pc[p] # "await_reveal" =>
              CommitMessage(r) \in Range(turns'[p]) \cup pending'[p] \/ pc'[p] = "await_reveal"
         /\ Delivery(p, RevealMessage(r)) =>
              RevealMessage(r) \in Range(turns'[p]) \cup pending'[p] \/ ReceiveReveal(p)
<1> DEFINE q == Rival(p)
<1>0. PICK k : k = Turn(p)
  OBVIOUS
<1>1. /\ q \in Role /\ Types /\ Locals /\ Local(p) /\ Addressed /\ AllGenuine /\ Heard(p) /\ Heard(q)
      /\ pc \in [Role -> PC]
  BY RivalFacts, UntornParts DEF Types, TypesOfPeers
<1>2. r.payload.step = Slot(q, k) /\ k \in Nat \ {0}
  BY <1>0, <1>1, SealedFacts
<1> HIDE DEF q
<1>3. Key(CommitMessage(r)) = <<"commit", Slot(q, k)>> /\ Key(RevealMessage(r)) = <<"reveal", Slot(q, k)>>
  BY <1>2 DEF Key, CommitMessage, RevealMessage
<1>4. ASSUME Expecting(p), HasMessage(p)
      PROVE  /\ Slot(q, k) = Step(p) /\ pc[p] \in {"loop", "await_reveal"}
             /\ <<"reveal", Slot(q, k)>> \notin consumed[p]
             /\ pc[p] # "await_reveal" => <<"commit", Slot(q, k)>> \notin consumed[p]
             /\ ~ReceiveConflict(p)
             /\ Genuine(q, Message(p)) /\ TheirLog(p) = their[p]
  <2>1. /\ k = Len(their[p]) + 1 /\ Len(their[p]) \in Nat /\ TheirLog(p) = their[p]
        /\ Step(p) = Slot(q, k) /\ pc[p] \in {"loop", "await_reveal"}
    <3>1. TheirLog(p) = their[p] /\ Step(p) = Slot(q, Len(their[p]) + 1)
          /\ pc[p] \in {"loop", "await_reveal"}
      BY <1>1, <1>4, WaitingFacts DEF q
    <3>2. Len(their[p]) \in Nat
      BY <1>1, StepFacts
    <3> QED BY <1>0, <3>1, <3>2 DEF Turn
  <2>2. consumed[p] = Keys(q, k - 1) \cup
                       (IF pc[p] = "await_reveal" THEN {<<"commit", Step(p)>>} ELSE {})
    BY <1>1, <1>4, <2>1, ExpectingFacts DEF q
  <2>3. \A x \in Kinds : <<x, Slot(q, k)>> \notin Keys(q, k - 1)
    <3> SUFFICES ASSUME NEW x \in Kinds, NEW y \in Kinds, NEW i \in 1 .. k - 1,
                        <<x, Slot(q, k)>> = <<y, Slot(q, i)>>
                 PROVE  FALSE
      BY DEF Keys
    <3>1. Slot(q, k) = Slot(q, i) /\ i \in Nat \ {0} /\ i # k
      BY <1>2
    <3> QED BY <1>1, <1>2, <3>1, SlotFacts
  <2>4. <<"reveal", Slot(q, k)>> # <<"commit", Step(p)>>
    OBVIOUS
  <2>5. /\ <<"reveal", Slot(q, k)>> \notin consumed[p]
        /\ pc[p] # "await_reveal" => <<"commit", Slot(q, k)>> \notin consumed[p]
    BY <2>2, <2>3, <2>4 DEF Kinds
  <2>6. ~Conflicting(p, Message(p)) /\ Genuine(q, Message(p))
    BY <1>1, <1>4, NoConflict, MessageGenuine DEF q
  <2> QED BY <2>1, <2>5, <2>6 DEF ReceiveConflict
<1>5. ASSUME ReceiveEarly(p), Expecting(p), HasMessage(p)
      PROVE  /\ Key(Message(p)) = <<"reveal", Slot(q, k)>> /\ Message(p) = RevealMessage(r)
  <2>1. Key(Message(p)) = <<"reveal", Slot(q, Len(their[p]) + 1)>>
    BY <1>1, <1>5, EarlyReveal DEF q, ReceiveEarly
  <2>2. k = Len(their[p]) + 1
    BY <1>0, <1>4, <1>5 DEF Turn
  <2>3. Message(p).kind = "reveal" /\ Message(p).turn = Slot(q, k)
    BY <2>1, <2>2 DEF Key
  <2>4. Message(p) = RevealMessage(RecordOf(q, k))
    BY <1>1, <1>2, <1>4, <1>5, <2>3, GenuineKey
  <2> QED BY <1>0, <2>1, <2>2, <2>4 DEF q
<1>6. ReceiveCommit(p) => pc'[p] = "await_reveal" /\ Key(Message(p))[1] = "commit"
  <2>1. ~Fail(p, "echoed role")
    BY <1>1 DEF Fail, Abandon
  <2> QED BY <1>1, <2>1 DEF ReceiveCommit, Key
<1>7. ReceiveReveal(p) => Key(Message(p))[1] = "reveal"
  BY DEF ReceiveReveal, Key
<1>8. ReceiveDuplicate(p) => Key(Message(p)) \in consumed[p]
  BY DEF ReceiveDuplicate
<1>9. ASSUME Delivery(p, CommitMessage(r)), pc[p] # "await_reveal"
      PROVE  CommitMessage(r) \in Range(turns'[p]) \cup pending'[p] \/ pc'[p] = "await_reveal"
  <2> DEFINE m == CommitMessage(r)
  <2>1. Key(m) = <<"commit", Slot(q, k)>>
    BY <1>3
  <2> HIDE DEF m
  <2>2. Delivery(p, m)
    BY <1>9 DEF m
  <2>3. \/ m \in Range(turns'[p]) \cup pending'[p]
        \/ /\ Key(m) = Key(Message(p)) /\ Expecting(p) /\ HasMessage(p)
           /\ \/ ReceiveDuplicate(p) \/ ReceiveConflict(p) \/ ReceiveCommit(p) \/ ReceiveReveal(p)
              \/ ReceiveEarly(p) /\ Message(p) \in pending'[p]
    BY <1>1, <2>2, InboxKeeps DEF Delivery
  <2> QED BY <1>4, <1>5, <1>6, <1>7, <1>8, <1>9, <2>1, <2>3 DEF m
<1>10. ASSUME Delivery(p, RevealMessage(r))
       PROVE  RevealMessage(r) \in Range(turns'[p]) \cup pending'[p] \/ ReceiveReveal(p)
  <2> DEFINE m == RevealMessage(r)
  <2>1. Key(m) = <<"reveal", Slot(q, k)>>
    BY <1>3
  <2>2. Delivery(p, m)
    BY <1>10
  <2>3. ReceiveEarly(p) /\ Expecting(p) /\ HasMessage(p) => Message(p) = m
    BY <1>5
  <2> HIDE DEF m
  <2>4. \/ m \in Range(turns'[p]) \cup pending'[p]
        \/ /\ Key(m) = Key(Message(p)) /\ Expecting(p) /\ HasMessage(p)
           /\ \/ ReceiveDuplicate(p) \/ ReceiveConflict(p) \/ ReceiveCommit(p) \/ ReceiveReveal(p)
              \/ ReceiveEarly(p) /\ Message(p) \in pending'[p]
    BY <1>1, <2>2, InboxKeeps DEF Delivery
  <2>5. m \in Range(turns'[p]) \cup pending'[p] \/ ReceiveReveal(p)
    BY <1>4, <1>6, <1>8, <2>1, <2>3, <2>4
  <2> QED BY <2>5 DEF m
<1> QED BY <1>9, <1>10

\* The peer itself moves: it needs nothing new, or what it needs is still there.
LEMMA OwnSupplies ==
  ASSUME IInv, IInv', Calm, Calm', [Next]_vars, NEW p \in Role,
         Program(p) \/ LapseSlow(p) \/ Crash(p) \/ Restart(p),
         Crashed(p)', Ends(p)', \A r \in Role : Supplied(r)
  PROVE  CommitComes(p)' /\ RevealComes(p)'
<1> DEFINE q == Rival(p)
<1>0. PICK k : k = Turn(p)
  OBVIOUS
<1>1. /\ q \in Role /\ Rival(q) = p /\ p # q /\ Types /\ Types' /\ Locals /\ Locals'
      /\ ~torn /\ ~torn' /\ Local(q) /\ Local(q)' /\ Supplied(p) /\ Supplied(q)
      /\ Heard(p) /\ Heard(q) /\ Addressed /\ Faithful /\ pc \in [Role -> PC]
  BY RivalFacts, UntornParts DEF IInv, Calm, Locals, Types, TypesOfPeers
<1>1a. Program(p) \/ LapseSlow(p) \/ Crash(p) \/ Restart(p)
  OBVIOUS
<1>2. /\ Undisturbed(q) /\ (~OfferResume(p) => controls'[q] = controls[q])
      /\ resending'[q] = resending[q] /\ controls'[q] >= controls[q]
  BY <1>1, <1>1a, RivalUndisturbed DEF Undisturbed
<1>3. \A i : /\ Sealed(q, i)' = Sealed(q, i) /\ Revealed(q, i)' = Revealed(q, i)
             /\ RecordOf(q, i)' = RecordOf(q, i)
  BY <1>1, <1>2, UndisturbedLogs
<1>4. controls[q] \in Nat /\ controls'[q] \in Nat /\ resending[q] \in BOOLEAN
  BY <1>1 DEF Types, TypesOfPeers, TypesOfWire
<1> SUFFICES ASSUME ~Over(p)' PROVE CommitComes(p)' /\ RevealComes(p)'
  BY DEF CommitComes, RevealComes
<1>5. ~Over(p) /\ pc'[p] # "failed"
  BY <1>1, OverStep DEF Ends
<1>6. CASE Listens(p)
  <2>1. Turn(p)' = k + 1
    BY <1>0, <1>1, <1>6, TurnStep
  <2>2. ~Sealed(q, k + 1)
    <3>1. Sealed(q, k + 1) => k + 1 <= k /\ k \in Nat
      BY <1>0, <1>1, ReachAll
    <3> QED BY <3>1
  <2>3. ~Sealed(q, k + 1)' /\ ~Revealed(q, k + 1)'
    BY <1>1, <1>3, <2>2, SealedFacts
  <2> QED BY <2>1, <2>3 DEF CommitComes, RevealComes
<1>7. CASE ~Listens(p)
  <2>1. Turn(p)' = k
    BY <1>0, <1>1, <1>7, TurnStep
  <2>2. CASE pc'[p] \in {"down", "offering"}
    <3>1. controls'[q] = 0
      BY <2>2 DEF Crashed
    <3>2. ~resending'[q]
      BY <1>1, <3>1 DEF Local, Resending
    <3> QED BY <2>2, <3>2 DEF CommitComes, RevealComes, Remedy
  <2>3. CASE OfferResume(p)
    <3>1. pc[q] # "done"
      BY <1>1, <1>5 DEF Supplied, Ends
    <3>2. controls'[q] = controls[q] + 1 /\ pc[p] = "offering"
      BY <1>1, <2>3, <3>1 DEF OfferResume, Types, TypesOfWire
    <3>3. ~resending[q]
      <4>1. controls[q] = 0
        BY <1>1, <3>2 DEF Supplied, Crashed
      <4> QED BY <1>1, <4>1 DEF Local, Resending
    <3>4. Remedy(p)' /\ ~resending'[q]
      BY <1>2, <1>4, <3>2, <3>3 DEF Remedy
    <3> QED BY <3>4 DEF CommitComes, RevealComes
  <2>4. CASE pc'[p] \notin {"down", "offering"} /\ ~OfferResume(p)
    <3>1. controls'[q] = controls[q] /\ pc[p] \notin {"down", "offering"} /\ ~Crash(p)
      BY <1>1, <1>1a, <1>2, <2>4, LeavesBy DEF Crash
    <3>2. ~ReceiveReveal(p)
      BY <1>1, <1>7, AcceptsAll, ReceiveRevealListens
    <3>3. ASSUME Sealed(q, k)
          PROVE  \/ pc'[p] = "await_reveal"
                 \/ CommitMessage(RecordOf(q, k)) \in Range(turns'[p]) \cup pending'[p]
                 \/ controls'[q] > 0 /\ ~resending'[q]
      <4>1. CASE pc[p] = "await_reveal"
        BY <1>1, <1>1a, <1>5, <2>4, <3>2, <4>1, LeavesBy
      <4>2. CASE Delivery(p, CommitMessage(RecordOf(q, k))) /\ pc[p] # "await_reveal"
        BY <1>0, <1>1, <1>1a, <1>5, <3>1, <3>3, <4>2, TakesNext
      <4>3. CASE Remedy(p) /\ ~resending[q]
        BY <1>2, <3>1, <4>3 DEF Remedy
      <4> QED BY <1>0, <1>1, <1>5, <3>3, <4>1, <4>2, <4>3 DEF Supplied, CommitComes
    <3>4. ASSUME Revealed(q, k)
          PROVE  \/ RevealMessage(RecordOf(q, k)) \in Range(turns'[p]) \cup pending'[p]
                 \/ controls'[q] > 0
      <4>1. CASE Delivery(p, RevealMessage(RecordOf(q, k)))
        <5>1. Sealed(q, k)
          BY <1>1, <3>4, SealedFacts
        <5> QED BY <1>0, <1>1, <1>1a, <1>5, <3>1, <3>2, <4>1, <5>1, TakesNext
      <4>2. CASE Remedy(p)
        BY <3>1, <4>2 DEF Remedy
      <4> QED BY <1>0, <1>1, <1>5, <3>4, <4>1, <4>2 DEF Supplied, RevealComes
    <3>5. CommitComes(p)'
      <4> SUFFICES ASSUME Sealed(q, k)'
                   PROVE  \/ pc'[p] = "await_reveal"
                          \/ Delivery(p, CommitMessage(RecordOf(q, k)))'
                          \/ Remedy(p)' /\ ~resending'[q]
        BY <2>1 DEF CommitComes
      <4> QED BY <1>3, <3>3 DEF Delivery, Remedy
    <3>6. RevealComes(p)'
      <4> SUFFICES ASSUME Revealed(q, k)'
                   PROVE  Delivery(p, RevealMessage(RecordOf(q, k)))' \/ Remedy(p)'
        BY <2>1 DEF RevealComes
      <4> QED BY <1>3, <3>4 DEF Delivery, Remedy
    <3> QED BY <3>5, <3>6
  <2> QED BY <2>2, <2>3, <2>4
<1> QED BY <1>6, <1>7

-----------------------------------------------------------------------------
(* A crash costs nothing *)

\* A step keeps the supply.
LEMMA SupplyStep == IInv /\ IInv' /\ Closing /\ Supply /\ [Next]_vars => Supply'
<1> SUFFICES ASSUME IInv, IInv', Closing, Supply, [Next]_vars, Calm', NEW p \in Role
             PROVE  Supplied(p)'
  BY DEF Supply
<1> DEFINE q == Rival(p)
<1>1. q \in Role /\ Rival(q) = p /\ Types /\ Types'
  BY RivalFacts DEF IInv
<1>2. Calm /\ \A r \in Role : Supplied(r)
  BY <1>1, CalmBefore DEF Supply
<1>3. Ends(p)' /\ Crashed(p)'
  BY <1>2, EndsStep, CrashedStep
<1>4. CASE Program(p) \/ LapseSlow(p) \/ Crash(p) \/ Restart(p)
  BY <1>2, <1>3, <1>4, OwnSupplies DEF Supplied
<1>5. CASE /\ Program(q) \/ LapseSlow(q) \/ Crash(q) \/ Restart(q)
           /\ Undisturbed(p)
  BY <1>2, <1>3, <1>5, RivalSupplies DEF Supplied
<1>6. CASE (\A r \in Role : Undisturbed(r)) /\ controls' = controls
  <2>1. /\ Turn(p)' = Turn(p) /\ Over(p)' = Over(p)
        /\ \A i : /\ Sealed(q, i)' = Sealed(q, i) /\ Revealed(q, i)' = Revealed(q, i)
                  /\ RecordOf(q, i)' = RecordOf(q, i)
    BY <1>1, <1>6, UndisturbedLogs
  <2>2. /\ pc'[p] = pc[p] /\ resending'[q] = resending[q] /\ pending'[p] = pending[p]
        /\ Range(turns[p]) \subseteq Range(turns'[p])
    BY <1>1, <1>6 DEF Undisturbed, Idle
  <2>3. CommitComes(p) /\ RevealComes(p)
    BY <1>2 DEF Supplied
  <2>4. PICK k : k = Turn(p)
    OBVIOUS
  <2>5. CommitComes(p)'
    <3> SUFFICES ASSUME ~Over(p)', Sealed(q, k)'
                 PROVE  \/ pc'[p] = "await_reveal"
                        \/ Delivery(p, CommitMessage(RecordOf(q, k)))'
                        \/ Remedy(p)' /\ ~resending'[q]
      BY <2>1, <2>4 DEF CommitComes
    <3>1. \/ pc[p] = "await_reveal"
          \/ Delivery(p, CommitMessage(RecordOf(q, k)))
          \/ Remedy(p) /\ ~resending[q]
      BY <2>1, <2>3, <2>4 DEF CommitComes
    <3> QED BY <1>6, <2>1, <2>2, <3>1 DEF Delivery, Remedy
  <2>6. RevealComes(p)'
    <3> SUFFICES ASSUME ~Over(p)', Revealed(q, k)'
                 PROVE  Delivery(p, RevealMessage(RecordOf(q, k)))' \/ Remedy(p)'
      BY <2>1, <2>4 DEF RevealComes
    <3>1. Delivery(p, RevealMessage(RecordOf(q, k))) \/ Remedy(p)
      BY <2>1, <2>3, <2>4 DEF RevealComes
    <3> QED BY <1>6, <2>1, <2>2, <3>1 DEF Delivery, Remedy
  <2> QED BY <1>3, <2>5, <2>6 DEF Supplied
<1> QED BY <1>1, <1>4, <1>5, <1>6, Moves

\* Nothing is owed initially.
LEMMA InitSupply == Init => Supply
<1> SUFFICES ASSUME Init, NEW p \in Role PROVE Supplied(p)
  BY DEF Supply
<1>1. \A r \in Role : /\ pc[r] = "loop" /\ own[r] = << >> /\ draft[r] = None
                      /\ snapshot[r] = None /\ controls[r] = 0
  BY DEF Init
<1>2. Rival(p) \in Role
  BY RivalFacts
<1>3. \A r \in Role : \A i : ~Sealed(r, i) /\ ~Revealed(r, i)
  BY <1>1 DEF Sealed, Revealed, OwnLog
<1>4. CommitComes(p) /\ RevealComes(p)
  BY <1>2, <1>3 DEF CommitComes, RevealComes
<1> QED BY <1>1, <1>2, <1>4 DEF Supplied, Ends, Crashed

\* In every calm game of two runtimes (peer/runtime.py, peer/sealing.py,
\* peer/resume.py) a half-turn that left is locked, delivered, or will be sent
\* again: a resume offer that is under way covers what a crash emptied.
THEOREM Supplies == Spec => [](IInv /\ Closing /\ Supply)
<1>1. Init => IInv /\ Closing /\ Supply
  BY InitIInv, InitClosing, InitSupply
<1>2. (IInv /\ Closing /\ Supply) /\ [Next]_vars => (IInv /\ Closing /\ Supply)'
  BY StepIInv, ClosingStep, SupplyStep
<1> QED BY <1>1, <1>2, PTL DEF Spec

\* An honest peer is never accused, neither of a conflicting commit, an illegal
\* action or a flood (peer/sealing.py) nor at the audit (crypto.audit_records),
\* and one crash outside a send, a restart inside the rival's deadline, spare and
\* late copies cost no game (peer/resume.py).
THEOREM Unharmed == Spec => []CrashCostsNothing
<1>1. IInv /\ Closing /\ Supply => CrashCostsNothing
  <2> SUFFICES ASSUME IInv, Closing, Supply, ~torn, NEW p \in Role, report[p] # None
               PROVE  /\ report[p].error \in IF excused \/ crashes > 1
                                             THEN {"none", "deadline"} ELSE {"none"}
                      /\ "audit" \in DOMAIN report[p] => report[p].audit # "TAMPERED"
    BY DEF CrashCostsNothing
  <2>1. Blameless(p) /\ Reported(p) /\ Untampered(p) /\ Types
    BY DEF IInv, Closing, Faithful, Locals, Local
  <2>2. crashes \in Nat /\ excused \in BOOLEAN
    BY <2>1 DEF Types, TypesOfHistory
  <2>3. CASE ~excused /\ crashes <= 1
    <3>1. Ends(p)
      BY <2>3 DEF Supply, Calm, Supplied
    <3>2. pc[p] = "done"
      BY <2>1, <3>1 DEF Reported, Ends
    <3> QED BY <2>1, <3>1, <3>2 DEF Ends, Untampered
  <2>4. CASE excused \/ crashes > 1
    BY <2>1, <2>4 DEF Blameless, Reported, Untampered
  <2> QED BY <2>2, <2>3, <2>4
<1> QED BY <1>1, Supplies, PTL

-----------------------------------------------------------------------------
(* A game without a crash or a missed deadline *)

\* A rival that is through with playing has disclosed, and what was disclosed
\* verifies.
Disclosing(p) ==
  /\ pc[Rival(p)] \in {"await_audit", "done"} /\ pc[p] # "done" => audits[p] # << >>
  /\ pc[p] = "done" => report[p].audit = "Verified OK"

\* Nobody crashed, no deadline was missed by a live peer.
Clean ==
  crashes = 0 /\ lapses = 0 => ~torn /\ ~excused /\ \A p \in Role : Disclosing(p)

\* How a peer comes to wait for the rival's disclosure.
LEMMA AuditBy ==
  ASSUME Types, NEW q \in Role, Program(q) \/ LapseSlow(q) \/ Crash(q) \/ Restart(q),
         pc'[q] = "await_audit", pc[q] # "await_audit"
  PROVE  SendFinalAudit(q) \/ ((LapseOverdue(q) \/ LapseSlow(q)) /\ pc[q] = "loop" /\ ~Ongoing(q))
<1>0. pc \in [Role -> PC]
  BY DEF Types, TypesOfPeers
<1>1. CASE \/ SendCommit(q) \/ SendReveal(q) \/ ApplyOwn(q)
           \/ OfferResume(q) \/ Crash(q) \/ Restart(q)
  BY <1>0, <1>1 DEF SendCommit, SendReveal, ApplyOwn, OfferResume, Crash, Restart
<1>2. CASE ReceiveDuplicate(q) \/ IgnoreOffer(q) \/ ResendCommit(q) \/ ResendReveal(q)
  BY <1>2 DEF ReceiveDuplicate, IgnoreOffer, ResendCommit, ResendReveal
<1>3. CASE ReceiveAudit(q) \/ EmergencyAudit(q)
  BY <1>0, <1>3 DEF ReceiveAudit, EmergencyAudit, Settle, TechnicalLossReport
<1>4. CASE ReceiveConflict(q) \/ ReceiveEarly(q)
  BY <1>0, <1>4 DEF ReceiveConflict, ReceiveEarly, Fail, Abandon
<1>5. CASE ReceiveCommit(q)
  BY <1>0, <1>5 DEF ReceiveCommit, Fail, Abandon
<1>6. CASE ReceiveReveal(q)
  BY <1>0, <1>6 DEF ReceiveReveal, Fail, Abandon
<1>7. CASE LapseOverdue(q) \/ LapseSlow(q)
  <2>1. Expire(q)
    BY <1>7 DEF LapseOverdue, LapseSlow
  <2>2. ~ExpireFails(q) /\ ~ExpireStops(q)
    BY <1>0 DEF ExpireFails, ExpireStops, Abandon
  <2>3. ~ExpireSettles(q) /\ ~ExpireReports(q)
    BY <1>0 DEF ExpireSettles, ExpireReports, Settle, TechnicalLossReport
  <2> QED BY <1>7, <2>1, <2>2, <2>3, ExpireCases DEF ExpireWaits
<1> QED BY <1>1, <1>2, <1>3, <1>4, <1>5, <1>6, <1>7 DEF Program

\* What was disclosed stays until it is read.
LEMMA DisclosedStays ==
  ASSUME Types, NEW r \in Role, Program(r) \/ LapseSlow(r) \/ Restart(r)
  PROVE  /\ ReceiveAudit(r) \/ audits'[r] = audits[r]
         /\ audits[Rival(r)] # << >> => audits'[Rival(r)] # << >>
         /\ SendFinalAudit(r) /\ pc[Rival(r)] # "done" => audits'[Rival(r)] # << >>
<1> DEFINE q == Rival(r)
<1>0. q \in Role /\ q # r /\ audits \in [Role -> Seq(Disclosed)] /\ audits[q] \in Seq(Disclosed)
  BY RivalFacts DEF Types, TypesOfWire
<1>1. \A d : Append(audits[q], d) # << >>
  BY <1>0
<1>2. CASE SendFinalAudit(r) \/ EmergencyAudit(r)
  <2> DEFINE d == Disclosure(r)
  <2>1. audits' = Delivered(audits, q, d)
    BY <1>2 DEF SendFinalAudit, EmergencyAudit, SendAudit
  <2> HIDE DEF d, q
  <2>2. /\ audits'[r] = audits[r]
        /\ audits'[q] = IF pc[q] = "done" THEN audits[q] ELSE Append(audits[q], d)
    BY <1>0, <2>1 DEF Delivered
  <2> QED BY <1>1, <2>2 DEF q
<1>3. CASE ReceiveAudit(r)
  <2>1. audits'[q] = audits[q]
    BY <1>0, <1>3 DEF ReceiveAudit
  <2>2. ~SendFinalAudit(r)
    BY <1>3 DEF ReceiveAudit, SendFinalAudit, AwaitingAudit
  <2> QED BY <1>3, <2>1, <2>2
<1>4. CASE ~SendFinalAudit(r) /\ ~EmergencyAudit(r) /\ ~ReceiveAudit(r)
  <2>1. audits' = audits
    BY <1>4 DEF Program, SendCommit, SendReveal, ApplyOwn, ReceiveDuplicate, ReceiveConflict,
       ReceiveEarly, ReceiveCommit, ReceiveReveal, OfferResume, IgnoreOffer, ResendCommit,
       ResendReveal, LapseOverdue, LapseSlow, Restart, memory, boxes
  <2> QED BY <1>4, <2>1
<1> QED BY <1>2, <1>3, <1>4

\* In a game without a crash or a missed deadline nothing else happens.
LEMMA CleanBefore ==
  ASSUME Types, [Next]_vars, crashes' = 0, lapses' = 0
  PROVE  /\ crashes = 0 /\ lapses = 0
         /\ \A p \in Role : ~Crash(p) /\ ~LapseSlow(p)
         /\ torn' = torn
         /\ excused' => excused \/ \E p \in Role : LapseOverdue(p) /\ pc[Rival(p)] = "down"
<1>0. crashes \in Nat /\ lapses \in Nat
  BY DEF Types, TypesOfHistory
<1>1. \A p \in Role : ~Crash(p) /\ ~LapseSlow(p)
  BY <1>0 DEF Crash, LapseSlow
<1>2. ASSUME NEW p \in Role, Program(p) \/ Restart(p)
      PROVE  crashes' = crashes /\ lapses' = lapses /\ torn' = torn
  BY <1>2 DEF Program, SendCommit, SendReveal, ApplyOwn, ReceiveDuplicate, ReceiveConflict,
     ReceiveEarly, ReceiveCommit, ReceiveReveal, SendFinalAudit, ReceiveAudit, EmergencyAudit,
     OfferResume, IgnoreOffer, ResendCommit, ResendReveal, LapseOverdue, Restart, budgets
<1>3. ASSUME NEW p \in Role, Program(p) \/ Restart(p), ~LapseOverdue(p)
      PROVE  excused' = excused
  BY <1>3 DEF Program, SendCommit, SendReveal, ApplyOwn, ReceiveDuplicate, ReceiveConflict,
     ReceiveEarly, ReceiveCommit, ReceiveReveal, SendFinalAudit, ReceiveAudit, EmergencyAudit,
     OfferResume, IgnoreOffer, ResendCommit, ResendReveal, Restart, budgets
<1>4. ASSUME NEW p \in Role, LapseOverdue(p)
      PROVE  excused' => excused \/ pc[Rival(p)] = "down"
  BY <1>4, Zenon DEF LapseOverdue
<1>5. ASSUME NEW m \in late, DeliverLate(m)
      PROVE  crashes' = crashes /\ lapses' = lapses /\ torn' = torn /\ excused' = excused
  BY <1>5 DEF DeliverLate, budgets
<1>6. UNCHANGED vars => crashes' = crashes /\ lapses' = lapses /\ torn' = torn /\ excused' = excused
  BY DEF vars, budgets
<1>7. crashes' = crashes /\ lapses' = lapses /\ torn' = torn
  BY <1>1, <1>2, <1>5, <1>6 DEF Next
<1>8. excused' => excused \/ \E p \in Role : LapseOverdue(p) /\ pc[Rival(p)] = "down"
  BY <1>1, <1>3, <1>4, <1>5, <1>6 DEF Next
<1> QED BY <1>1, <1>7, <1>8

\* A step keeps the disclosures on time and their verdicts good.
LEMMA CleanStep ==
  IInv /\ IInv' /\ Closing /\ Closing' /\ Supply /\ Supply' /\ Clean /\ [Next]_vars => Clean'
<1> SUFFICES ASSUME IInv, IInv', Closing, Closing', Supply, Supply', Clean, [Next]_vars,
                    crashes' = 0, lapses' = 0
             PROVE  ~torn' /\ ~excused' /\ \A p \in Role : Disclosing(p)'
  BY DEF Clean
<1>1. /\ Types /\ Types' /\ Locals /\ Locals' /\ crashes = 0 /\ lapses = 0 /\ torn' = torn
      /\ \A p \in Role : ~Crash(p) /\ ~LapseSlow(p)
      /\ ~torn /\ ~excused /\ \A p \in Role : Disclosing(p)
  BY CleanBefore DEF IInv, Clean
<1>2. \A p \in Role : Supplied(p)
  BY <1>1 DEF Supply, Calm
<1>3. \A p \in Role : pc[p] \notin {"down", "offering", "failed"} /\ controls[p] = 0
  BY <1>1, <1>2 DEF Supplied, Crashed, Ends
<1>4. ~excused'
  <2>1. \A p \in Role : pc[Rival(p)] # "down"
    BY <1>3, RivalFacts
  <2> QED BY <1>1, <2>1, CleanBefore
<1>5. ~torn'
  BY <1>1, Zenon
<1>6. ASSUME NEW p \in Role, pc[p] # "done", pc'[p] = "done"
      PROVE  ReceiveAudit(p) /\ report'[p].audit = "Verified OK"
  <2> DEFINE q == Rival(p)
  <2>0. q \in Role /\ Rival(q) = p
    BY RivalFacts
  <2>1. Classified(p)
    BY <1>6 DEF Classified
  <2>2. pc[p] = "await_audit" /\ (ReceiveAudit(p) \/ LapseOverdue(p))
    BY <1>1, <1>3, <2>1, DoneBy
  <2>3. ~LapseOverdue(p)
    <3> SUFFICES ASSUME LapseOverdue(p) PROVE FALSE
      OBVIOUS
    <3>1. Overdue(p)
      BY DEF LapseOverdue
    <3>2. ~Sending(p)
      <4>1. ~resending[p]
        BY <1>1, <1>3 DEF Locals, Local, Resending
      <4> QED BY <1>3, <2>2, <4>1 DEF Sending, MyTurn, Answering
    <3>3. audits[p] = << >>
      BY <2>2, <3>1, <3>2 DEF Overdue, Starved, Expecting
    <3>4. pc[q] # "done" /\ pc[q] # "await_audit"
      BY <1>1, <2>2, <3>3 DEF Disclosing
    <3>5. Starved(q) /\ AwaitingAudit(q)
      BY <1>1, <1>2, <1>3, <2>0, <3>1, <3>4, LapseFinds
    <3> QED BY <3>4, <3>5 DEF AwaitingAudit
  <2>4. ReceiveAudit(p)
    BY <2>2, <2>3
  <2>5. report'[p].audit \in {"Verified OK", "TAMPERED"}
    BY <1>1, <2>4, AuditRead DEF Closing, AuditRecords
  <2>6. Untampered(p)'
    BY <1>5 DEF Closing
  <2> QED BY <1>6, <2>4, <2>5, <2>6 DEF Untampered
<1>7. ASSUME NEW p \in Role PROVE Disclosing(p)'
  <2> DEFINE q == Rival(p)
  <2>0. q \in Role /\ Rival(q) = p /\ q # p
    BY RivalFacts
  <2>1. ASSUME pc'[p] = "done" PROVE report'[p].audit = "Verified OK"
    <3>1. CASE pc[p] = "done"
      <4>1. Idle(p)
        BY <1>1, <3>1, ClosedIdle
      <4> QED BY <1>1, <3>1, <4>1 DEF Idle, Disclosing
    <3> QED BY <1>6, <2>1, <3>1
  <2>2. ASSUME pc'[q] \in {"await_audit", "done"}, pc'[p] # "done" PROVE audits'[p] # << >>
    <3>1. pc[p] # "done"
      <4>1. pc[p] = "done" => Idle(p)
        BY <1>1, ClosedIdle
      <4> QED BY <2>2, <4>1 DEF Idle
    <3>2. CASE Program(p) \/ LapseSlow(p) \/ Crash(p) \/ Restart(p)
      <4>1. pc'[q] = pc[q]
        BY <1>1, <2>0, <3>2, RivalIdle DEF Idle
      <4>2. audits[p] # << >>
        BY <1>1, <2>2, <3>1, <4>1 DEF Disclosing
      <4>3. ~ReceiveAudit(p)
        <5>1. ReceiveAudit(p) => pc'[p] = "done"
          BY <1>1 DEF ReceiveAudit, Settle, Types, TypesOfPeers
        <5> QED BY <2>2, <5>1
      <4> QED BY <1>1, <3>2, <4>2, <4>3, DisclosedStays
    <3>3. CASE Program(q) \/ LapseSlow(q) \/ Crash(q) \/ Restart(q)
      <4>1. CASE pc[q] \in {"await_audit", "done"}
        <5>1. audits[p] # << >>
          BY <1>1, <3>1, <4>1 DEF Disclosing
        <5> QED BY <1>1, <2>0, <3>3, <5>1, DisclosedStays
      <4>2. CASE pc[q] \notin {"await_audit", "done"}
        <5>1. pc'[q] = "await_audit"
          <6>1. pc'[q] = "done" => Classified(q)
            BY <4>2 DEF Classified
          <6>2. Classified(q) => pc[q] = "await_audit"
            BY <1>1, <1>3, <2>0, DoneBy
          <6> QED BY <2>2, <4>2, <6>1, <6>2
        <5>2. SendFinalAudit(q) \/ (LapseOverdue(q) /\ pc[q] = "loop" /\ ~Ongoing(q))
          BY <1>1, <2>0, <3>3, <4>2, <5>1, AuditBy
        <5>3. ~(LapseOverdue(q) /\ pc[q] = "loop" /\ ~Ongoing(q))
          <6> SUFFICES ASSUME LapseOverdue(q), pc[q] = "loop", ~Ongoing(q) PROVE FALSE
            OBVIOUS
          <6>1. ~Starved(q)
            BY DEF Starved, Waiting, Expecting, AwaitingAudit
          <6> QED BY <1>3, <2>0, <3>1, <6>1 DEF LapseOverdue, Overdue
        <5> QED BY <1>1, <2>0, <3>1, <3>3, <5>2, <5>3, DisclosedStays
      <4> QED BY <4>1, <4>2
    <3>4. CASE UNCHANGED vars \/ \E m \in late : DeliverLate(m)
      <4>1. audits' = audits /\ pc' = pc
        BY <3>4 DEF vars, boxes, DeliverLate
      <4> QED BY <1>1, <2>2, <4>1 DEF Disclosing
    <3> QED BY <2>0, <3>2, <3>3, <3>4, RivalFacts DEF Next
  <2> QED BY <2>1, <2>2 DEF Disclosing
<1> QED BY <1>4, <1>5, <1>7

\* Without a crash or a missed deadline, a peer that waits for the audit or is
\* done has disclosed (_finish, peer/runtime.py), and every verdict so far is
\* Verified OK.
THEOREM Finishes == Spec => [](IInv /\ Closing /\ Supply /\ Clean)
<1>1. Init => IInv /\ Closing /\ Supply /\ Clean
  <2>1. Init => Clean
    <3> SUFFICES ASSUME Init PROVE Clean
      OBVIOUS
    <3>1. torn = FALSE /\ excused = FALSE /\ \A p \in Role : pc[p] = "loop"
      BY DEF Init
    <3> QED BY <3>1, RivalFacts DEF Clean, Disclosing
  <2> QED BY <2>1, InitIInv, InitClosing, InitSupply
<1>2. /\ IInv /\ Closing /\ Supply /\ Clean
      /\ [Next]_vars
      => (IInv /\ Closing /\ Supply /\ Clean)'
  BY StepIInv, ClosingStep, SupplyStep, CleanStep
<1> QED BY <1>1, <1>2, PTL DEF Spec

\* At-least-once delivery alone never shows in a report: every game played without
\* a crash or a lapse ends verified on both sides, with one end state
\* (run_peer, sdk/sdk.py).
THEOREM Clears == Spec => []CleanFinish
<1>1. IInv /\ Closing /\ Supply /\ Clean => CleanFinish
  <2> SUFFICES ASSUME IInv, Closing, Supply, Clean, crashes = 0, lapses = 0,
                      NEW p \in Role, Settled(p)
               PROVE  /\ report[p].audit = "Verified OK" /\ report[p].digest_match
                      /\ report[p].outcome = game.engine.outcome
    BY DEF CleanFinish
  <2> DEFINE q == Rival(p)
  <2>1. /\ q \in Role /\ Rival(q) = p /\ pc[p] = "done" /\ ~torn /\ Types /\ Locals /\ Furthest
        /\ Heard(p) /\ Heard(q) /\ Verdict(p) /\ report[p].audit = "Verified OK"
        /\ Supplied(p) /\ Supplied(q)
    <3>1. q \in Role /\ Rival(q) = p /\ pc[p] = "done"
      BY RivalFacts DEF Settled
    <3>2. ~torn /\ ~excused /\ report[p].audit = "Verified OK"
      BY <3>1 DEF Clean, Disclosing
    <3>3. Calm
      <4>1. crashes <= 1
        OBVIOUS
      <4>2. ~torn /\ ~excused
        BY <3>2
      <4> QED BY <4>1, <4>2, Zenon DEF Calm
    <3>4. Supplied(p) /\ Supplied(q)
      BY <3>1, <3>3 DEF Supply
    <3>5. Verdict(p)
      BY DEF Closing, Verdicts
    <3> QED BY <3>1, <3>2, <3>4, <3>5, UntornParts
  <2>2. /\ report[p].error = "none" /\ report[p].outcome = Replay(Log(p)).outcome
        /\ Final(q)
        /\ Unbroken(q) => report[p].digest_match =
                            (EndStateDigest(Replay(Log(q))) = EndStateDigest(Replay(Log(p))))
    BY <2>1 DEF Verdict
  <2>3. Unbroken(q) /\ Over(p) /\ Over(q)
    BY <2>1, <2>2, ClosedOver DEF Unbroken, Supplied, Ends, Final
  <2>4. /\ Len(Log(p)) \in Nat /\ Len(Log(q)) \in Nat
        /\ Len(Log(q)) <= Len(Log(p)) /\ Len(Log(p)) <= Len(Log(q))
    BY <2>1, <2>3, OverLongest, LogsFacts
  <2>5. Log(p) = Log(q)
    <3>1. Len(Log(p)) = Len(Log(q))
      BY <2>4
    <3> QED BY <2>1, <3>1, EqualLogs
  <2>6. report[p].digest_match
    BY <2>2, <2>3, <2>5
  <2>7. game.engine = Replay(Log(p))
    BY <2>1, <2>5, RivalFacts DEF Furthest
  <2> QED BY <2>1, <2>2, <2>6, <2>7
<1> QED BY <1>1, Finishes, PTL
===============================================================================
