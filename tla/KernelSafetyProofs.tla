------------------------- MODULE KernelSafetyProofs -------------------------
(***************************************************************************)
(* What a memory may become: history, promotion, quarantine, owners and    *)
(* supersession, for any number of entries, principals and revisions.      *)
(*                                                                         *)
(* On top of the sound table of MemoryKernelProofs the inductive invariant *)
(* says of every row that its votes are dated and on revisions it has,     *)
(* that its gate is a known one, that the voters on a peer-gated row have  *)
(* different owners, that a replacement still waiting for its promotion    *)
(* holds the strictest gate, and that promotion was earned; and of the     *)
(* table that a merge passed its mark on.  The same lemmas show what one   *)
(* step does to the rows, from which the action properties follow.         *)
(***************************************************************************)
EXTENDS MemoryKernelProofs

\* The settings two of the results are about: the quorum counts owners, and the
\* operator never changes the threshold.
OwnerMode == \A s \in Settings : s.owner
OneThreshold == \A s, t \in Settings : s.threshold = t.threshold

\* No vote is from a later epoch, and none is on a revision the row does not have.
VotesSound(x) ==
    \A r \in Revs, p \in Principals :
        /\ x.votes[r][p].epoch <= x.epoch
        /\ x.state[r] = "none" => x.votes[r][p].verdict = "none"

\* Core memory is not quarantined, and an unused id carries no mark.
MarksSound(x) ==
    /\ ~(x.core /\ x.quarantine)
    /\ x.life = "absent" => ~x.quarantine

\* Who holds an approval or a rejection of revision r and wrote neither it nor the entry.
Voters(x, r) == (Cast(x, r, "approve") \cup Cast(x, r, "reject")) \ {x.source, x.author[r]}

VotersDistinct(x) ==
    \A r \in Revs : \A p \in Voters(x, r) :
        /\ Owner[p] \notin {Owner[x.source], Owner[x.author[r]]}
        /\ \A q \in Voters(x, r) : q # p => Owner[q] # Owner[p]
OwnersSound(x) ==
    (OwnerMode /\ x.required > 1 /\ x.source # Anonymous) => VotersDistinct(x)

\* What holds of a row at every point of a transaction.
RowKept(x) == VotesSound(x) /\ MarksSound(x) /\ x.required \in Gates /\ OwnersSound(x)

\* A replacement that is still to happen waits behind the strictest gate, which an
\* open-mode write cannot lower.
IntentSound(x) ==
    (OneThreshold /\ x.supersedes # {}) =>
        /\ \A gate \in Gates : gate <= x.required
        /\ x.source = Anonymous => x.peersOnly

\* Status, promotion and label agree and are earned, as PromotionEarned states it.
PromotionSound(x) ==
    /\ x.promoted <=> x.status = "verified"
    /\ x.promoted <=> x.mode # ""
    /\ x.promoted => \E gate \in IF x.source = Anonymous THEN Gates ELSE {x.required} :
                        EarnedAt(x, gate)

RowGood(x) == RowKept(x) /\ IntentSound(x) /\ PromotionSound(x)

\* What was merged has a survivor, and the survivor carries its mark.
Marked(m) ==
    \A e \in Entries : m[e].life = "merged" =>
        /\ m[e].fwd \in Entries
        /\ m[e].quarantine => m[m[e].fwd].quarantine \/ m[m[e].fwd].life = "purged"

TableGood(m) == TableSound(m) /\ Marked(m) /\ \A e \in Entries : RowGood(m[e])

\* The inductive invariant.
SInv == TableGood(mem) /\ settings \in Settings

\* What the history of a row may become (HistoryStep).
History(x, y) ==
    /\ y.life # "absent"
    /\ y.revision >= x.revision
    /\ \A r \in Revs : x.state[r] # "none" =>
          /\ y.state[r] # "none"
          /\ y.author[r] = x.author[r] /\ y.base[r] = x.base[r]
          /\ x.state[r] # "pending" => y.state[r] = x.state[r]

\* What the mark of a row may become, unless the row is being merged.
MarkKept(x, y) ==
    /\ x.quarantine => y.quarantine \/ y.life = "purged"
    /\ x.life = "purged" => y.life = "purged"
    /\ y.life = "merged" => x.life = "merged" /\ y.fwd = x.fwd /\ (y.quarantine => x.quarantine)

\* Columns that two rows share.
SameChainOf(x, y) ==
    /\ y.revision = x.revision /\ y.head = x.head /\ y.state = x.state
    /\ y.author = x.author /\ y.base = x.base /\ y.dropped = x.dropped
SameVotesOf(x, y) == y.votes = x.votes /\ y.epoch = x.epoch
SameGateOf(x, y) == y.required = x.required /\ y.peersOnly = x.peersOnly /\ y.source = x.source
SameMarksOf(x, y) == y.core = x.core /\ y.quarantine = x.quarantine
SameDecisionOf(x, y) == y.status = x.status /\ y.promoted = x.promoted /\ y.mode = x.mode
SamePlaceOf(x, y) == y.life = x.life /\ y.fwd = x.fwd

USE StoreAssumption, KernelAssumption

-----------------------------------------------------------------------------
(***************************************************************************)
(* Which columns each fact is about                                        *)
(***************************************************************************)

\* Gates are natural numbers.
LEMMA GatesNat == \A gate \in Gates : gate \in Nat \ {0}
  BY DEF Gates, Setting, Threshold

\* History composes.
LEMMA HistoryTrans ==
  ASSUME NEW x \in Row, NEW y \in Row, NEW z \in Row, History(x, y), History(y, z)
  PROVE  History(x, z)
  <1>1. \A w \in Row : w.revision \in Nat
      BY DEF Row, Revs
  <1>2. z.revision >= x.revision
      BY <1>1 DEF History
  <1> QED BY <1>2 DEF History

\* So do marks.
LEMMA MarkTrans ==
  ASSUME NEW x, NEW y, NEW z, MarkKept(x, y), MarkKept(y, z)
  PROVE  MarkKept(x, z)
  BY DEF MarkKept

\* A row that keeps its chain keeps its history.
LEMMA SameHistory ==
  ASSUME NEW x \in Row, NEW y, SameChainOf(x, y), y.life # "absent"
  PROVE  History(x, y)
  BY DEF SameChainOf, History, Row, Revs

\* What holds at every point depends on votes, gate and marks.
LEMMA SameKept ==
  ASSUME NEW x, RowKept(x), NEW y, y.state = x.state, y.author = x.author, SameVotesOf(x, y),
         SameGateOf(x, y), SameMarksOf(x, y), y.life = "absent" => x.life = "absent"
  PROVE  RowKept(y)
  <1>1. VotesSound(y) /\ MarksSound(y) /\ y.required \in Gates
      BY DEF RowKept, VotesSound, MarksSound, SameVotesOf, SameGateOf, SameMarksOf
  <1>2. \A r : Voters(y, r) = Voters(x, r)
      BY DEF Voters, Cast, SameVotesOf, SameGateOf
  <1>3. OwnersSound(y)
      BY <1>2 DEF RowKept, OwnersSound, VotersDistinct, SameGateOf
  <1> QED BY <1>1, <1>3 DEF RowKept

\* What the votes decide at a gate depends on the served revision, its author and votes.
LEMMA SameEarned ==
  ASSUME NEW x \in Row, NEW y \in Row, y.revision = x.revision, y.epoch = x.epoch,
         y.votes[x.revision] = x.votes[x.revision], y.author[x.revision] = x.author[x.revision],
         y.source = x.source, y.peersOnly = x.peersOnly, NEW gate
  PROVE  EarnedAt(y, gate) <=> EarnedAt(x, gate)
  <1> DEFINE u == [x EXCEPT !.required = gate]
             w == [y EXCEPT !.required = gate]
             r == x.revision
  <1>1. /\ u.votes = x.votes /\ u.epoch = x.epoch /\ u.source = x.source /\ u.author = x.author
        /\ u.peersOnly = x.peersOnly /\ u.required = gate
        /\ w.votes = y.votes /\ w.epoch = y.epoch /\ w.source = y.source /\ w.author = y.author
        /\ w.peersOnly = y.peersOnly /\ w.required = gate
      BY DEF Row
  <1> HIDE DEF u, w
  <1>2. \A v : Cast(w, r, v) = Cast(u, r, v)
      BY <1>1 DEF Cast
  <1>3. Excluded(w, r) = Excluded(u, r)
      BY <1>1 DEF Excluded
  <1>4. Approvals(w, r) = Approvals(u, r) /\ Rejections(w, r) = Rejections(u, r)
      BY <1>2, <1>3 DEF Approvals, Rejections
  <1>5. OpenModeAssertionStands(w, r) <=> OpenModeAssertionStands(u, r)
      BY <1>1, <1>2 DEF OpenModeAssertionStands
  <1>6. Reconcile(w, r) = Reconcile(u, r)
      BY <1>1, <1>4, <1>5 DEF Reconcile
  <1> QED BY <1>6 DEF EarnedAt, u, w

\* A row with the same decision on the same votes is promoted as rightly.
LEMMA SamePromotion ==
  ASSUME NEW x \in Row, NEW y \in Row, PromotionSound(x), y.revision = x.revision, y.epoch = x.epoch,
         y.votes[x.revision] = x.votes[x.revision], y.author[x.revision] = x.author[x.revision],
         y.source = x.source, y.peersOnly = x.peersOnly, SameDecisionOf(x, y),
         x.source # Anonymous => y.required = x.required
  PROVE  PromotionSound(y)
  <1>1. \A gate : EarnedAt(y, gate) <=> EarnedAt(x, gate)
      BY SameEarned
  <1> QED BY <1>1 DEF PromotionSound, SameDecisionOf

\* A row that keeps all these columns stays good.
LEMMA SameGood ==
  ASSUME NEW x \in Row, NEW y \in Row, RowGood(x), SameChainOf(x, y), SameVotesOf(x, y), SameGateOf(x, y),
         SameMarksOf(x, y), SameDecisionOf(x, y), y.supersedes \in {x.supersedes, {}},
         y.life = "absent" => x.life = "absent"
  PROVE  RowGood(y)
  <1>1. RowKept(y)
      BY SameKept DEF RowGood, SameChainOf
  <1>2. PromotionSound(y)
      BY SamePromotion DEF RowGood, SameChainOf, SameVotesOf, SameGateOf
  <1>3. IntentSound(y)
      BY DEF RowGood, IntentSound, SameGateOf
  <1> QED BY <1>1, <1>2, <1>3 DEF RowGood

-----------------------------------------------------------------------------
(***************************************************************************)
(* What the store's operations keep                                        *)
(***************************************************************************)

\* Under a peer gate a verdict comes from an author, who is not counted, or from an owner
\* that has no other voter.
MayVote(x, r, p, v) ==
    (OwnerMode /\ v \in {"approve", "reject"} /\ x.required > 1) =>
        \/ p \in {x.source, x.author[r]}
        \/ /\ Owner[p] \notin {Owner[x.source], Owner[x.author[r]]}
           /\ \A q \in Cast(x, r, "approve") \cup Cast(x, r, "reject") : q # p => Owner[q] # Owner[p]

\* A verdict is dated today, and leaves the voters distinct.
LEMMA VoteKept ==
  ASSUME NEW x \in Row, RowKept(x), NEW r \in Revs, x.state[r] # "none", NEW p \in Principals,
         NEW v \in Verdicts, NEW t \in Entries \cup {None}, MayVote(x, r, p, v)
  PROVE  LET y == RecordVote(x, r, p, v, t) IN
         /\ RowKept(y)
         /\ SameChainOf(x, y) /\ SameGateOf(x, y) /\ SameMarksOf(x, y) /\ SameDecisionOf(x, y)
         /\ SamePlaceOf(x, y) /\ y.epoch = x.epoch /\ y.supersedes = x.supersedes
         /\ \A q \in Revs : q # r => y.votes[q] = x.votes[q]
         /\ p \in Cast(y, r, v)
         /\ \A u \in Verdicts : u # v => Cast(y, r, u) \subseteq Cast(x, r, u)
  <1> DEFINE y == RecordVote(x, r, p, v, t)
             vote == [verdict |-> v, target |-> t, epoch |-> x.epoch]
             votes == [x.votes EXCEPT ![r][p] = vote]
  <1>1. y = [x EXCEPT !.votes = votes]
      BY DEF RecordVote, Row
  <1>2. \A q \in Revs, w \in Principals :
            votes[q][w] = IF q = r /\ w = p THEN vote ELSE x.votes[q][w]
      BY DEF Row
  <1>3. \A q \in Revs : q # r => votes[q] = x.votes[q]
      BY DEF Row
  <1>4. vote.verdict = v /\ vote.epoch = x.epoch /\ x.epoch \in Nat
      BY DEF Row
  <1> HIDE DEF votes, vote, y
  <1>5. /\ SameChainOf(x, y) /\ SameGateOf(x, y) /\ SameMarksOf(x, y) /\ SameDecisionOf(x, y)
        /\ SamePlaceOf(x, y) /\ y.epoch = x.epoch /\ y.supersedes = x.supersedes /\ y.votes = votes
      BY <1>1 DEF Row, SameChainOf, SameGateOf, SameMarksOf, SameDecisionOf, SamePlaceOf
  <1>6. VotesSound(y)
      BY <1>2, <1>4, <1>5 DEF RowKept, VotesSound, SameChainOf
  <1>7. MarksSound(y) /\ y.required \in Gates
      BY <1>5 DEF RowKept, MarksSound, SameMarksOf, SameGateOf, SamePlaceOf
  <1>8. ASSUME OwnerMode, y.required > 1, y.source # Anonymous PROVE VotersDistinct(y)
      <2>1. VotersDistinct(x) /\ x.required > 1
          BY <1>5, <1>8 DEF RowKept, OwnersSound, SameGateOf
      <2>2. ASSUME NEW q \in Revs, q # r PROVE Voters(y, q) = Voters(x, q)
          BY <1>3, <1>5, <2>2 DEF Voters, Cast, SameChainOf, SameGateOf
      <2>3. \A w \in Voters(y, r) : w = p \/ w \in Voters(x, r)
          BY <1>2, <1>5 DEF Voters, Cast, SameChainOf, SameGateOf
      <2>4. p \in Voters(y, r) => v \in {"approve", "reject"} /\ p \notin {x.source, x.author[r]}
          BY <1>2, <1>4, <1>5 DEF Voters, Cast, SameChainOf, SameGateOf
      <2>5. p \in Voters(y, r) =>
                /\ Owner[p] \notin {Owner[x.source], Owner[x.author[r]]}
                /\ \A q \in Voters(x, r) : q # p => Owner[q] # Owner[p]
          BY <1>8, <2>1, <2>4 DEF MayVote, Voters
      <2>6. ASSUME NEW w \in Voters(y, r)
            PROVE  /\ Owner[w] \notin {Owner[y.source], Owner[y.author[r]]}
                   /\ \A q \in Voters(y, r) : q # w => Owner[q] # Owner[w]
          BY <1>5, <2>1, <2>3, <2>5 DEF VotersDistinct, SameChainOf, SameGateOf
      <2> QED BY <1>5, <2>1, <2>2, <2>6 DEF VotersDistinct, SameChainOf, SameGateOf
  <1>9. RowKept(y)
      BY <1>6, <1>7, <1>8 DEF RowKept, OwnersSound
  <1>10. \A q \in Revs : q # r => y.votes[q] = x.votes[q]
      BY <1>3, <1>5
  <1>11. p \in Cast(y, r, v) /\ \A u \in Verdicts : u # v => Cast(y, r, u) \subseteq Cast(x, r, u)
      BY <1>2, <1>4, <1>5 DEF Cast
  <1> QED BY <1>5, <1>9, <1>10, <1>11 DEF y

\* A write moves only the gate, to a known one, only on open-mode memory, and never
\* below what a waiting replacement needs; with a token it leaves a peer gate.
LEMMA RegateKept ==
  ASSUME NEW x \in Row, RowKept(x), NEW p, NEW s \in Settings
  PROVE  LET y == Regate(x, p, s) IN
         /\ RowKept(y)
         /\ IntentSound(x) => IntentSound(y)
         /\ PromotionSound(x) => PromotionSound(y)
         /\ SameChainOf(x, y) /\ SameVotesOf(x, y) /\ SameMarksOf(x, y) /\ SameDecisionOf(x, y)
         /\ SamePlaceOf(x, y) /\ y.source = x.source /\ y.supersedes = x.supersedes
         /\ (p # Anonymous /\ x.source = Anonymous /\ s.multi /\ s.threshold > 1) => y.required > 1
  <1> DEFINE n == RegatedRequirement(x, p, s)
             y == Regate(x, p, s)
  <1>1. x.required \in Nat \ {0} /\ s.threshold \in Nat \ {0} /\ s.threshold \in Gates /\ 1 \in Gates
      BY DEF Row, Setting, Threshold, Gates
  <1>2. /\ n \in Gates
        /\ x.source # Anonymous => n = x.required
        /\ (p # Anonymous /\ x.source = Anonymous /\ s.multi /\ s.threshold > 1) => n > 1
        /\ (x.source = Anonymous => x.peersOnly) => n \in {x.required, s.threshold}
        /\ ((x.source = Anonymous => x.peersOnly) /\ n # x.required) => x.required <= 1
      BY <1>1 DEF RegatedRequirement, RowKept
  <1>3. n \in Nat \ {0}
      BY <1>2, GatesNat
  <1>4. y = [x EXCEPT !.required = n]
      BY DEF Regate, SetRequiredVerifications
  <1> HIDE DEF n, y
  <1>5. y \in Row
      BY <1>3, <1>4 DEF Row
  <1>6. /\ SameChainOf(x, y) /\ SameVotesOf(x, y) /\ SameMarksOf(x, y) /\ SameDecisionOf(x, y)
        /\ SamePlaceOf(x, y) /\ y.source = x.source /\ y.supersedes = x.supersedes
        /\ y.peersOnly = x.peersOnly /\ y.required = n
      BY <1>4 DEF Row, SameChainOf, SameVotesOf, SameMarksOf, SameDecisionOf, SamePlaceOf
  <1>7. RowKept(y)
      <2>1. VotesSound(y) /\ MarksSound(y) /\ y.required \in Gates
          BY <1>2, <1>6 DEF RowKept, VotesSound, MarksSound, SameChainOf, SameVotesOf, SameMarksOf, SamePlaceOf
      <2>2. \A r : Voters(y, r) = Voters(x, r)
          BY <1>6 DEF Voters, Cast, SameVotesOf, SameChainOf
      <2>3. OwnersSound(y)
          BY <1>2, <1>6, <2>2 DEF RowKept, OwnersSound, VotersDistinct, SameChainOf
      <2> QED BY <2>1, <2>3 DEF RowKept
  <1>8. ASSUME IntentSound(x) PROVE IntentSound(y)
      <2> SUFFICES ASSUME OneThreshold, x.supersedes # {}
                   PROVE  (\A gate \in Gates : gate <= n) /\ (x.source = Anonymous => x.peersOnly)
          BY <1>6 DEF IntentSound
      <2>1. (\A gate \in Gates : gate <= x.required) /\ (x.source = Anonymous => x.peersOnly)
          BY <1>8 DEF IntentSound
      <2>2. \A gate \in Gates : gate = 1 \/ gate = s.threshold
          BY DEF Gates, OneThreshold
      <2>3. \A gate \in Gates : gate <= s.threshold
          BY <1>1, <2>2
      <2> QED BY <1>2, <2>1, <2>3
  <1>9. ASSUME PromotionSound(x) PROVE PromotionSound(y)
      BY <1>2, <1>5, <1>6, <1>9, SamePromotion DEF SameChainOf, SameVotesOf
  <1> QED BY <1>2, <1>6, <1>7, <1>8, <1>9 DEF y

\* Settling earns the promotion.
LEMMA SettledKept ==
  ASSUME NEW x \in Row, RowKept(x), NEW s \in Settings
  PROVE  LET y == Settled(x, s) IN
         /\ y \in Row
         /\ RowKept(y)
         /\ PromotionSound(y)
         /\ y.promoted <=> Reconcile(x, x.revision) = "verified"
         /\ SameChainOf(x, y) /\ SameVotesOf(x, y) /\ SameGateOf(x, y) /\ SameMarksOf(x, y)
         /\ SamePlaceOf(x, y) /\ y.supersedes = x.supersedes
  <1> DEFINE y == Settled(x, s)
             status == Reconcile(x, x.revision)
             mode == IF status = "verified" THEN VerificationMode(x, s.threshold) ELSE ""
  <1>1. status \in Statuses /\ mode \in Modes /\ (mode # "" <=> status = "verified")
      BY DEF Reconcile, Statuses, VerificationMode, Modes
  <1>2. y = [x EXCEPT !.status = status, !.promoted = (status = "verified"), !.mode = mode]
      BY DEF Settled, SetPromotion
  <1> HIDE DEF y, mode
  <1>3. status = Reconcile(x, x.revision)
      OBVIOUS
  <1> HIDE DEF status
  <1>4. y \in Row
      BY <1>1, <1>2 DEF Row
  <1>5. /\ SameChainOf(x, y) /\ SameVotesOf(x, y) /\ SameGateOf(x, y) /\ SameMarksOf(x, y)
        /\ SamePlaceOf(x, y) /\ y.supersedes = x.supersedes
        /\ y.status = status /\ y.promoted = (status = "verified") /\ y.mode = mode
      BY <1>2 DEF Row, SameChainOf, SameVotesOf, SameMarksOf, SameGateOf, SamePlaceOf
  <1>6. RowKept(y)
      BY <1>5, SameKept DEF SameChainOf, SamePlaceOf
  <1>7. [x EXCEPT !.required = x.required] = x
      BY DEF Row
  <1>8. EarnedAt(x, x.required) <=> status = "verified"
      BY <1>3, <1>7 DEF EarnedAt
  <1>9. EarnedAt(y, x.required) <=> status = "verified"
      BY <1>4, <1>5, <1>8, SameEarned DEF SameChainOf, SameVotesOf, SameGateOf
  <1>10. x.required \in Gates /\ y.required = x.required
      BY <1>5 DEF RowKept, SameGateOf
  <1>11. PromotionSound(y)
      BY <1>1, <1>5, <1>9, <1>10 DEF PromotionSound
  <1> QED BY <1>3, <1>4, <1>5, <1>6, <1>11 DEF y

\* A replaced row.
LEMMA SupersedeKept ==
  ASSUME NEW x \in Row, RowGood(x), x.life = "active", NEW e \in Entries
  PROVE  LET y == Supersede(x, e) IN
         /\ RowGood(y)
         /\ History(x, y)
         /\ MarkKept(x, y)
         /\ SameChainOf(x, y) /\ SameDecisionOf(x, y) /\ y.life = "superseded" /\ y.fwd = e
  <1> DEFINE y == Supersede(x, e)
  <1>1. y \in Row
      BY DEF Supersede, Row, Lifecycles
  <1>2. /\ SameChainOf(x, y) /\ SameVotesOf(x, y) /\ SameGateOf(x, y) /\ SameMarksOf(x, y)
        /\ SameDecisionOf(x, y) /\ y.supersedes = x.supersedes /\ y.life = "superseded" /\ y.fwd = e
      BY DEF Supersede, Row, SameChainOf, SameVotesOf, SameGateOf, SameMarksOf, SameDecisionOf
  <1> HIDE DEF y
  <1>3. RowGood(y) /\ History(x, y)
      BY <1>1, <1>2, SameGood, SameHistory
  <1> QED BY <1>2, <1>3 DEF y, MarkKept, SameMarksOf

\* A retired row; the mark of a merged one is the business of MergeGood.
LEMMA RetireKept ==
  ASSUME NEW x \in Row, RowGood(x), x.life = "active",
         NEW to \in {"archived", "retracted", "merged"}, NEW t \in Entries \cup {None}
  PROVE  LET y == Retire(x, to, t) IN
         /\ RowGood(y)
         /\ History(x, y)
         /\ to # "merged" => MarkKept(x, y)
         /\ SameChainOf(x, y) /\ SameVotesOf(x, y) /\ SameGateOf(x, y) /\ SameMarksOf(x, y)
         /\ SameDecisionOf(x, y) /\ y.life = to /\ (to = "merged" => y.fwd = t)
  <1> DEFINE y == Retire(x, to, t)
             fwd == IF to = "merged" THEN t ELSE x.fwd
  <1>1. y = [x EXCEPT !.life = to, !.fwd = fwd]
      BY DEF Retire, Row
  <1>2. fwd \in Entries \cup {None} /\ (to = "merged" => fwd = t)
      BY DEF Row
  <1> HIDE DEF y, fwd
  <1>3. y \in Row
      BY <1>1, <1>2 DEF Row, Lifecycles
  <1>4. /\ SameChainOf(x, y) /\ SameVotesOf(x, y) /\ SameGateOf(x, y) /\ SameMarksOf(x, y)
        /\ SameDecisionOf(x, y) /\ y.supersedes = x.supersedes /\ y.life = to /\ y.fwd = fwd
      BY <1>1 DEF Row, SameChainOf, SameVotesOf, SameGateOf, SameMarksOf, SameDecisionOf
  <1>5. RowGood(y) /\ History(x, y)
      BY <1>3, <1>4, SameGood, SameHistory
  <1> QED BY <1>2, <1>4, <1>5 DEF y, MarkKept, SameMarksOf

\* A row back from the archive.
LEMMA UnarchiveKept ==
  ASSUME NEW x \in Row, RowGood(x), x.life = "archived"
  PROVE  LET y == Unarchive(x) IN
         /\ RowGood(y)
         /\ History(x, y)
         /\ MarkKept(x, y)
         /\ SameChainOf(x, y) /\ SameDecisionOf(x, y) /\ y.life = "active"
  <1> DEFINE y == Unarchive(x)
  <1>1. y \in Row
      BY DEF Unarchive, Row, Lifecycles
  <1>2. /\ SameChainOf(x, y) /\ SameVotesOf(x, y) /\ SameGateOf(x, y) /\ SameMarksOf(x, y)
        /\ SameDecisionOf(x, y) /\ y.supersedes = x.supersedes /\ y.life = "active"
      BY DEF Unarchive, Row, SameChainOf, SameVotesOf, SameGateOf, SameMarksOf, SameDecisionOf
  <1> HIDE DEF y
  <1>3. RowGood(y) /\ History(x, y)
      BY <1>1, <1>2, SameGood, SameHistory
  <1> QED BY <1>2, <1>3 DEF y, MarkKept, SameMarksOf

\* A row back from anywhere else: a new epoch, in which nobody has voted.
LEMMA ReopenKept ==
  ASSUME NEW x \in Row, RowGood(x), x.life # "purged"
  PROVE  LET y == Reopen(x) IN
         /\ RowGood(y)
         /\ History(x, y)
         /\ MarkKept(x, y)
         /\ y.life = "active" /\ ~y.promoted
         /\ \A r \in Revs, v \in Verdicts : Cast(y, r, v) = {}
  <1> DEFINE y == Reopen(x)
             status == IF x.status = "verified" THEN "pending" ELSE x.status
  <1>1. status \in Statuses /\ status # "verified" /\ x.epoch \in Nat /\ x.epoch + 1 \in Nat
      BY DEF Row, Statuses
  <1>2. y = [x EXCEPT !.life = "active", !.fwd = None, !.promoted = FALSE, !.mode = "",
                      !.status = status, !.epoch = x.epoch + 1]
      BY DEF Reopen, Row
  <1> HIDE DEF status, y
  <1>3. /\ SameChainOf(x, y) /\ SameGateOf(x, y) /\ SameMarksOf(x, y) /\ y.votes = x.votes
        /\ y.epoch = x.epoch + 1 /\ y.life = "active" /\ ~y.promoted /\ y.mode = "" /\ y.status = status
        /\ y.supersedes = x.supersedes
      BY <1>2 DEF Row, SameChainOf, SameGateOf, SameMarksOf
  <1>4. \A r \in Revs, p \in Principals : x.votes[r][p].epoch \in Nat
      BY DEF Row, Vote
  <1>12. ASSUME NEW r \in Revs, NEW p \in Principals
         PROVE  /\ y.votes[r][p].epoch # y.epoch /\ y.votes[r][p].epoch <= y.epoch
                /\ y.state[r] = "none" => y.votes[r][p].verdict = "none"
      <2>1. y.votes[r][p] = x.votes[r][p] /\ y.state[r] = x.state[r]
          BY <1>3 DEF SameChainOf
      <2>2. x.votes[r][p].epoch <= x.epoch /\ (x.state[r] = "none" => x.votes[r][p].verdict = "none")
          BY DEF RowGood, RowKept, VotesSound
      <2> DEFINE k == x.votes[r][p].epoch
      <2>3. k \in Nat /\ k <= x.epoch /\ y.votes[r][p].epoch = k /\ y.epoch = x.epoch + 1
          BY <1>3, <1>4, <2>1, <2>2
      <2> HIDE DEF k
      <2>4. y.votes[r][p].epoch # y.epoch /\ y.votes[r][p].epoch <= y.epoch
          BY <1>1, <2>3
      <2> QED BY <2>1, <2>2, <2>4, Zenon
  <1>5. \A r \in Revs, v \in Verdicts : Cast(y, r, v) = {}
      BY <1>12 DEF Cast
  <1>13. VotesSound(y)
      BY <1>12 DEF VotesSound
  <1>6. VotesSound(y) /\ MarksSound(y) /\ y.required \in Gates
      BY <1>3, <1>13 DEF RowGood, RowKept, MarksSound, SameGateOf, SameMarksOf
  <1>7. \A r \in Revs : Voters(y, r) = {}
      BY <1>5 DEF Voters, Verdicts
  <1>8. RowKept(y)
      BY <1>6, <1>7 DEF RowKept, OwnersSound, VotersDistinct
  <1>9. IntentSound(y) /\ PromotionSound(y)
      BY <1>1, <1>3 DEF RowGood, IntentSound, PromotionSound, SameGateOf
  <1>10. History(x, y)
      BY <1>3, SameHistory
  <1>11. MarkKept(x, y)
      BY <1>3 DEF MarkKept, SameMarksOf
  <1> QED BY <1>3, <1>5, <1>8, <1>9, <1>10, <1>11 DEF RowGood, y

\* A purged row waits for nothing and carries no mark.
LEMMA PurgeKept ==
  ASSUME NEW x \in Row, RowGood(x), x.life # "absent"
  PROVE  LET y == Purge(x) IN
         /\ RowGood(y)
         /\ History(x, y)
         /\ MarkKept(x, y)
         /\ y.life = "purged" /\ ~y.promoted
  <1> DEFINE y == Purge(x)
             status == IF x.status = "verified" THEN "pending" ELSE x.status
             dropped == {r \in Revs : x.state[r] # "none"}
             state == [r \in Revs |-> IF x.state[r] = "pending" THEN "withdrawn" ELSE x.state[r]]
  <1>1. /\ status \in Statuses /\ status # "verified" /\ state \in [Revs -> RevStates]
        /\ dropped \in SUBSET Revs /\ {} \in SUBSET Entries
      BY DEF Row, Statuses, RevStates
  <1>2. y = [x EXCEPT !.life = "purged", !.promoted = FALSE, !.mode = "", !.status = status,
                      !.head = x.revision, !.dropped = dropped, !.state = state,
                      !.supersedes = {}, !.quarantine = FALSE]
      BY DEF Purge, Row
  <1>3. \A r \in Revs : state[r] = IF x.state[r] = "pending" THEN "withdrawn" ELSE x.state[r]
      OBVIOUS
  <1> HIDE DEF status, state, dropped, y
  <1>4. /\ y.life = "purged" /\ y.revision = x.revision /\ y.state = state /\ y.author = x.author
        /\ y.base = x.base /\ SameVotesOf(x, y) /\ SameGateOf(x, y) /\ y.core = x.core
        /\ y.quarantine = FALSE /\ y.supersedes = {} /\ ~y.promoted /\ y.mode = "" /\ y.status = status
      BY <1>2 DEF Row, SameVotesOf, SameGateOf
  <1>5. VotesSound(y) /\ MarksSound(y) /\ y.required \in Gates
      BY <1>3, <1>4 DEF RowGood, RowKept, VotesSound, MarksSound, SameVotesOf, SameGateOf
  <1>6. \A r : Voters(y, r) = Voters(x, r)
      BY <1>4 DEF Voters, Cast, SameVotesOf, SameGateOf
  <1>7. RowKept(y)
      BY <1>4, <1>5, <1>6 DEF RowGood, RowKept, OwnersSound, VotersDistinct, SameGateOf
  <1>8. IntentSound(y) /\ PromotionSound(y)
      BY <1>1, <1>4 DEF IntentSound, PromotionSound
  <1>9. x.revision \in Nat
      BY DEF Row, Revs
  <1>10. History(x, y)
      <2>1. ASSUME NEW r \in Revs, x.state[r] # "none"
            PROVE  /\ y.state[r] # "none" /\ y.author[r] = x.author[r] /\ y.base[r] = x.base[r]
                   /\ x.state[r] # "pending" => y.state[r] = x.state[r]
          BY <1>3, <1>4, <2>1
      <2>2. y.life # "absent" /\ y.revision = x.revision
          BY <1>4
      <2>3. y.revision >= x.revision
          BY <1>9, <2>2
      <2> QED BY <2>1, <2>2, <2>3 DEF History
  <1>11. MarkKept(x, y)
      BY <1>4 DEF MarkKept
  <1> QED BY <1>4, <1>7, <1>8, <1>10, <1>11 DEF RowGood, y

\* A new expiry date.
LEMMA ExpiryKept ==
  ASSUME NEW x \in Row, RowGood(x), NEW z \in Expiries
  PROVE  LET y == [x EXCEPT !.expiry = z] IN
         /\ RowGood(y)
         /\ x.life # "absent" => History(x, y)
         /\ MarkKept(x, y)
         /\ SameChainOf(x, y) /\ SameVotesOf(x, y) /\ SameGateOf(x, y) /\ SameMarksOf(x, y)
         /\ SameDecisionOf(x, y) /\ SamePlaceOf(x, y) /\ y.supersedes = x.supersedes
  <1> DEFINE y == [x EXCEPT !.expiry = z]
  <1>1. y \in Row
      BY DEF Row
  <1>2. /\ SameChainOf(x, y) /\ SameVotesOf(x, y) /\ SameGateOf(x, y) /\ SameMarksOf(x, y)
        /\ SameDecisionOf(x, y) /\ SamePlaceOf(x, y) /\ y.supersedes = x.supersedes
      BY DEF Row, SameChainOf, SameVotesOf, SameGateOf, SameMarksOf, SameDecisionOf, SamePlaceOf
  <1> HIDE DEF y
  <1>3. RowGood(y)
      BY <1>1, <1>2, SameGood DEF SamePlaceOf
  <1>4. x.life # "absent" => History(x, y)
      BY <1>2, SameHistory DEF SamePlaceOf
  <1>5. MarkKept(x, y)
      BY <1>2 DEF MarkKept, SameMarksOf, SamePlaceOf
  <1> QED BY <1>2, <1>3, <1>4, <1>5 DEF y

\* A text that retention dropped.
LEMMA DropKept ==
  ASSUME NEW x \in Row, RowGood(x), NEW r \in Revs
  PROVE  LET y == DropContent(x, r) IN
         /\ RowGood(y)
         /\ x.life # "absent" => History(x, y)
         /\ MarkKept(x, y)
         /\ y.revision = x.revision /\ SameDecisionOf(x, y) /\ SamePlaceOf(x, y)
  <1> DEFINE y == DropContent(x, r)
  <1>1. y \in Row
      BY DEF Row, DropContent
  <1>2. /\ y.revision = x.revision /\ y.state = x.state /\ y.author = x.author /\ y.base = x.base
        /\ SameVotesOf(x, y) /\ SameGateOf(x, y) /\ SameMarksOf(x, y)
        /\ SameDecisionOf(x, y) /\ SamePlaceOf(x, y) /\ y.supersedes = x.supersedes
      BY DEF Row, DropContent, SameVotesOf, SameGateOf, SameMarksOf, SameDecisionOf, SamePlaceOf
  <1> HIDE DEF y
  <1>3. RowKept(y)
      BY <1>2, SameKept DEF RowGood, SamePlaceOf
  <1>4. PromotionSound(y)
      BY <1>1, <1>2, SamePromotion DEF RowGood, SameVotesOf, SameGateOf
  <1>5. IntentSound(y)
      BY <1>2 DEF RowGood, IntentSound, SameGateOf
  <1>6. x.revision \in Nat
      BY DEF Row, Revs
  <1>7. x.life # "absent" => History(x, y)
      BY <1>2, <1>6 DEF History, SamePlaceOf
  <1>8. MarkKept(x, y)
      BY <1>2 DEF MarkKept, SameMarksOf, SamePlaceOf
  <1> QED BY <1>2, <1>3, <1>4, <1>5, <1>7, <1>8 DEF RowGood, y

\* A new tier.
LEMMA TierKept ==
  ASSUME NEW x \in Row, RowGood(x), x.life # "absent", NEW b \in BOOLEAN, b => ~x.quarantine
  PROVE  LET y == [x EXCEPT !.core = b] IN
         /\ RowGood(y)
         /\ History(x, y)
         /\ MarkKept(x, y)
         /\ y.revision = x.revision /\ SameDecisionOf(x, y) /\ SamePlaceOf(x, y)
  <1> DEFINE y == [x EXCEPT !.core = b]
  <1>1. y \in Row
      BY DEF Row
  <1>2. /\ SameChainOf(x, y) /\ SameVotesOf(x, y) /\ SameGateOf(x, y) /\ y.quarantine = x.quarantine
        /\ y.core = b /\ SameDecisionOf(x, y) /\ SamePlaceOf(x, y) /\ y.supersedes = x.supersedes
      BY DEF Row, SameChainOf, SameVotesOf, SameGateOf, SameDecisionOf, SamePlaceOf
  <1> HIDE DEF y
  <1>3. VotesSound(y) /\ MarksSound(y) /\ y.required \in Gates
      BY <1>2 DEF RowGood, RowKept, VotesSound, MarksSound, SameChainOf, SameVotesOf, SameGateOf, SamePlaceOf
  <1>4. \A r : Voters(y, r) = Voters(x, r)
      BY <1>2 DEF Voters, Cast, SameChainOf, SameVotesOf, SameGateOf
  <1>5. RowKept(y)
      BY <1>2, <1>3, <1>4 DEF RowGood, RowKept, OwnersSound, VotersDistinct, SameChainOf, SameGateOf
  <1>6. PromotionSound(y)
      BY <1>1, <1>2, SamePromotion DEF RowGood, SameChainOf, SameVotesOf, SameGateOf
  <1>7. IntentSound(y)
      BY <1>2 DEF RowGood, IntentSound, SameGateOf
  <1>8. History(x, y)
      BY <1>2, SameHistory DEF SamePlaceOf
  <1>9. MarkKept(x, y)
      BY <1>2 DEF MarkKept, SamePlaceOf
  <1> QED BY <1>2, <1>5, <1>6, <1>7, <1>8, <1>9 DEF RowGood, SameChainOf, y

\* Revision n is added to a row.
Added(x, n, p, st) == [x EXCEPT !.state[n] = st, !.author[n] = p, !.base[n] = x.head]

\* A new revision has no votes and touches no other.
LEMMA AddKept ==
  ASSUME NEW x \in Row, RowKept(x), x.life = "active", NEW n \in Revs, x.state[n] = "none",
         NEW p \in Principals, NEW st \in RevStates \ {"none"}
  PROVE  LET y == Added(x, n, p, st) IN
         /\ y \in Row
         /\ RowKept(y)
         /\ History(x, y)
         /\ SameVotesOf(x, y) /\ SameGateOf(x, y) /\ SameMarksOf(x, y) /\ SameDecisionOf(x, y)
         /\ SamePlaceOf(x, y) /\ y.supersedes = x.supersedes /\ y.revision = x.revision /\ y.head = x.head
         /\ y.author[n] = p /\ y.state[n] = st
         /\ \A r \in Revs : r # n => y.author[r] = x.author[r] /\ y.state[r] = x.state[r]
  <1> DEFINE y == Added(x, n, p, st)
             state == [x.state EXCEPT ![n] = st]
             author == [x.author EXCEPT ![n] = p]
             base == [x.base EXCEPT ![n] = x.head]
  <1>1. /\ state \in [Revs -> RevStates]
        /\ author \in [Revs -> Principals]
        /\ base \in [Revs -> 0 .. MaxRev]
      BY DEF Row, RevStates, Revs
  <1>2. y = [x EXCEPT !.state = state, !.author = author, !.base = base]
      BY DEF Row, Added
  <1>3. \A r \in Revs : /\ state[r] = IF r = n THEN st ELSE x.state[r]
                        /\ author[r] = IF r = n THEN p ELSE x.author[r]
                        /\ base[r] = IF r = n THEN x.head ELSE x.base[r]
      BY DEF Row
  <1> HIDE DEF state, author, base, y
  <1>4. y \in Row
      BY <1>1, <1>2 DEF Row
  <1>5. /\ SameVotesOf(x, y) /\ SameGateOf(x, y) /\ SameMarksOf(x, y) /\ SameDecisionOf(x, y)
        /\ SamePlaceOf(x, y) /\ y.supersedes = x.supersedes /\ y.revision = x.revision /\ y.head = x.head
        /\ y.state = state /\ y.author = author /\ y.base = base
      BY <1>2 DEF Row, SameVotesOf, SameGateOf, SameMarksOf, SameDecisionOf, SamePlaceOf
  <1>6. VotesSound(y) /\ MarksSound(y) /\ y.required \in Gates
      BY <1>3, <1>5 DEF RowKept, VotesSound, MarksSound, SameVotesOf, SameGateOf, SameMarksOf, SamePlaceOf
  <1>7. \A r \in Revs : r # n => Voters(y, r) = Voters(x, r)
      BY <1>3, <1>5 DEF Voters, Cast, SameVotesOf, SameGateOf
  <1>8. Voters(y, n) = {}
      BY <1>5 DEF RowKept, VotesSound, Voters, Cast, SameVotesOf
  <1>9. OwnersSound(y)
      BY <1>3, <1>5, <1>7, <1>8 DEF RowKept, OwnersSound, VotersDistinct, SameGateOf
  <1>10. x.revision \in Nat
      BY DEF Row, Revs
  <1>11. History(x, y)
      BY <1>3, <1>5, <1>10 DEF History, SamePlaceOf
  <1>12. RowKept(y)
      BY <1>6, <1>9 DEF RowKept
  <1>13. /\ y.author[n] = p /\ y.state[n] = st
         /\ \A r \in Revs : r # n => y.author[r] = x.author[r] /\ y.state[r] = x.state[r]
      BY <1>3, <1>5
  <1> QED BY <1>4, <1>5, <1>11, <1>12, <1>13 DEF y

\* Serving a revision starts verification over.
LEMMA ServeKept ==
  ASSUME NEW x \in Row, RowKept(x), x.life = "active", NEW r \in Revs, r >= x.revision
  PROVE  LET y == ServeRevision(x, r) IN
         /\ RowKept(y)
         /\ PromotionSound(y)
         /\ IntentSound(x) => IntentSound(y)
         /\ History(x, y)
         /\ SameVotesOf(x, y) /\ SameGateOf(x, y) /\ SameMarksOf(x, y) /\ SamePlaceOf(x, y)
         /\ y.author = x.author /\ y.supersedes = x.supersedes
  <1> DEFINE y == ServeRevision(x, r)
             state == [q \in Revs |-> IF x.state[q] = "pending" /\ q < r THEN "withdrawn" ELSE x.state[q]]
             head == IF r > x.head THEN r ELSE x.head
  <1>1. y = [x EXCEPT !.revision = r, !.head = head, !.status = "pending",
                      !.promoted = FALSE, !.mode = "", !.state = state]
      BY DEF ServeRevision, Row
  <1>2. \A q \in Revs : state[q] = IF x.state[q] = "pending" /\ q < r THEN "withdrawn" ELSE x.state[q]
      OBVIOUS
  <1> HIDE DEF state, head, y
  <1>3. /\ SameVotesOf(x, y) /\ SameGateOf(x, y) /\ SameMarksOf(x, y) /\ SamePlaceOf(x, y)
        /\ y.author = x.author /\ y.base = x.base /\ y.supersedes = x.supersedes /\ y.state = state
        /\ y.revision = r /\ y.status = "pending" /\ y.promoted = FALSE /\ y.mode = ""
      BY <1>1 DEF Row, SameVotesOf, SameGateOf, SameMarksOf, SamePlaceOf
  <1>9. ASSUME NEW q \in Revs, y.state[q] = "none" PROVE x.state[q] = "none"
      BY <1>2, <1>3, <1>9
  <1>10. VotesSound(y)
      <2>1. VotesSound(x) /\ y.votes = x.votes /\ y.epoch = x.epoch
          BY <1>3 DEF RowKept, SameVotesOf
      <2> QED BY <1>9, <2>1, Zenon DEF VotesSound
  <1>4. VotesSound(y) /\ MarksSound(y) /\ y.required \in Gates
      BY <1>3, <1>10 DEF RowKept, MarksSound, SameGateOf, SameMarksOf, SamePlaceOf
  <1>5. \A q : Voters(y, q) = Voters(x, q)
      BY <1>3 DEF Voters, Cast, SameVotesOf, SameGateOf
  <1>6. RowKept(y)
      BY <1>3, <1>4, <1>5 DEF RowKept, OwnersSound, VotersDistinct, SameGateOf
  <1>7. PromotionSound(y) /\ (IntentSound(x) => IntentSound(y))
      BY <1>3 DEF PromotionSound, IntentSound, SameGateOf
  <1>8. History(x, y)
      <2>1. y.life # "absent" /\ y.revision >= x.revision
          BY <1>3 DEF SamePlaceOf
      <2>2. ASSUME NEW q \in Revs, x.state[q] # "none"
            PROVE  /\ y.state[q] # "none" /\ y.author[q] = x.author[q] /\ y.base[q] = x.base[q]
                   /\ x.state[q] # "pending" => y.state[q] = x.state[q]
          BY <1>2, <1>3, <2>2
      <2> QED BY <2>1, <2>2 DEF History
  <1> QED BY <1>3, <1>6, <1>7, <1>8 DEF y

\* A pending edit leaves the served revision, its votes and its promotion alone.
LEMMA AppendPendingKept ==
  ASSUME NEW x, RowSound(x), RowGood(x), x.life = "active", NEW n \in Revs, IsNextRevision(x, n),
         NEW p \in Principals
  PROVE  LET y == AppendPending(x, n, p) IN
         /\ RowGood(y)
         /\ History(x, y)
         /\ SameGateOf(x, y) /\ SameMarksOf(x, y) /\ SamePlaceOf(x, y) /\ SameDecisionOf(x, y)
         /\ y.revision = x.revision /\ y.state[n] = "pending" /\ y.author[n] = p
  <1> DEFINE z == Added(x, n, p, "pending")
             y == AppendPending(x, n, p)
  <1>1. x \in Row /\ x.state[n] = "none" /\ n # x.revision /\ x.revision \in Revs
      <2>1. x.state[n] = "none" /\ n > x.revision
          BY NextRevision
      <2> QED BY <2>1 DEF RowSound, Row, Revs
  <1>2. "pending" \in RevStates \ {"none"} /\ RowKept(x)
      BY DEF RevStates, RowGood
  <1>3. /\ z \in Row /\ RowKept(z) /\ History(x, z)
        /\ SameVotesOf(x, z) /\ SameGateOf(x, z) /\ SameMarksOf(x, z) /\ SameDecisionOf(x, z)
        /\ SamePlaceOf(x, z) /\ z.supersedes = x.supersedes /\ z.revision = x.revision
        /\ z.author[n] = p /\ z.state[n] = "pending"
        /\ \A r \in Revs : r # n => z.author[r] = x.author[r] /\ z.state[r] = x.state[r]
      BY <1>1, <1>2, AddKept
  <1>4. y = [z EXCEPT !.head = n]
      BY <1>1 DEF AppendPending, Added, Row
  <1> HIDE DEF y, z
  <1>5. y \in Row
      BY <1>3, <1>4 DEF Row
  <1>6. /\ SameVotesOf(z, y) /\ SameGateOf(z, y) /\ SameMarksOf(z, y) /\ SameDecisionOf(z, y)
        /\ SamePlaceOf(z, y) /\ y.supersedes = z.supersedes /\ y.revision = z.revision
        /\ y.state = z.state /\ y.author = z.author /\ y.base = z.base
      BY <1>3, <1>4 DEF Row, SameVotesOf, SameGateOf, SameMarksOf, SameDecisionOf, SamePlaceOf
  <1>7. RowKept(y)
      BY <1>3, <1>6, SameKept DEF SamePlaceOf
  <1>8. /\ SameVotesOf(x, y) /\ SameGateOf(x, y) /\ SameMarksOf(x, y) /\ SameDecisionOf(x, y)
        /\ SamePlaceOf(x, y) /\ y.supersedes = x.supersedes /\ y.revision = x.revision
        /\ y.author[x.revision] = x.author[x.revision]
      BY <1>1, <1>3, <1>6 DEF SameVotesOf, SameGateOf, SameMarksOf, SameDecisionOf, SamePlaceOf
  <1>9. PromotionSound(y)
      BY <1>1, <1>5, <1>8, SamePromotion DEF RowGood, SameVotesOf, SameGateOf
  <1>10. IntentSound(y)
      BY <1>8 DEF RowGood, IntentSound, SameGateOf
  <1>11. History(x, y)
      BY <1>3, <1>6 DEF History, SamePlaceOf
  <1> QED BY <1>3, <1>6, <1>7, <1>8, <1>9, <1>10, <1>11 DEF RowGood, y

\* A rewrite is served at once and has no votes.
LEMMA AppendServedKept ==
  ASSUME NEW x, RowSound(x), RowGood(x), x.life = "active", NEW n \in Revs, IsNextRevision(x, n),
         NEW p \in Principals
  PROVE  LET y == AppendServed(x, n, p) IN
         /\ RowKept(y)
         /\ PromotionSound(y)
         /\ IntentSound(y)
         /\ History(x, y)
         /\ SameGateOf(x, y) /\ SameMarksOf(x, y) /\ SamePlaceOf(x, y)
  <1> DEFINE z == Added(x, n, p, "accepted")
             y == AppendServed(x, n, p)
  <1>1. x \in Row /\ x.state[n] = "none" /\ n > x.revision
      BY NextRevision DEF RowSound
  <1>2. "accepted" \in RevStates \ {"none"} /\ RowKept(x)
      BY DEF RevStates, RowGood
  <1>3. /\ z \in Row /\ RowKept(z) /\ History(x, z)
        /\ SameGateOf(x, z) /\ SameMarksOf(x, z) /\ SamePlaceOf(x, z) /\ z.supersedes = x.supersedes
        /\ z.revision = x.revision
      BY <1>1, <1>2, AddKept
  <1>4. y = ServeRevision(z, n)
      BY DEF AppendServed, Added
  <1> HIDE DEF y, z
  <1>5. z.life = "active" /\ n >= z.revision
      BY <1>1, <1>3 DEF SamePlaceOf, Row, Revs
  <1>6. IntentSound(z)
      BY <1>3 DEF RowGood, IntentSound, SameGateOf
  <1>7. /\ RowKept(y) /\ PromotionSound(y) /\ IntentSound(y) /\ History(z, y)
        /\ SameGateOf(z, y) /\ SameMarksOf(z, y) /\ SamePlaceOf(z, y)
      BY <1>3, <1>4, <1>5, <1>6, ServeKept
  <1>8. RowSound(y)
      BY AppendServedRow DEF y
  <1>9. History(x, y)
      BY <1>1, <1>3, <1>7, <1>8, HistoryTrans DEF RowSound
  <1> QED BY <1>3, <1>7, <1>9 DEF SameGateOf, SameMarksOf, SamePlaceOf, y

\* A pending edit that won is served with the votes that decided it.
LEMMA AcceptKept ==
  ASSUME NEW x, RowSound(x), RowKept(x), IntentSound(x), x.life = "active", x.head # x.revision
  PROVE  LET y == AcceptRevision(x, x.head) IN
         /\ RowKept(y)
         /\ IntentSound(y)
         /\ History(x, y)
         /\ SameVotesOf(x, y) /\ SameGateOf(x, y) /\ SameMarksOf(x, y) /\ SamePlaceOf(x, y)
         /\ y.author = x.author /\ y.supersedes = x.supersedes
  <1> DEFINE n == x.head
             y == AcceptRevision(x, n)
             state == [x.state EXCEPT ![n] = "accepted"]
             z == [x EXCEPT !.state = state]
  <1>1. x \in Row /\ n \in Revs /\ x.state[n] = "pending" /\ n >= x.revision
      BY DEF RowSound, Row, ChainSound, Revs
  <1>2. state \in [Revs -> RevStates]
      BY <1>1 DEF Row, RevStates
  <1>3. \A r \in Revs : state[r] = IF r = n THEN "accepted" ELSE x.state[r]
      BY <1>1 DEF Row
  <1>4. y = ServeRevision(z, n)
      BY <1>1 DEF AcceptRevision, Row
  <1> HIDE DEF n, state, y
  <1>5. z \in Row
      BY <1>1, <1>2 DEF Row
  <1>6. /\ SameVotesOf(x, z) /\ SameGateOf(x, z) /\ SameMarksOf(x, z) /\ SamePlaceOf(x, z)
        /\ z.author = x.author /\ z.base = x.base /\ z.supersedes = x.supersedes
        /\ z.revision = x.revision /\ z.state = state
      BY <1>1 DEF Row, SameVotesOf, SameGateOf, SameMarksOf, SamePlaceOf
  <1> HIDE DEF z
  <1>7. VotesSound(z) /\ MarksSound(z) /\ z.required \in Gates
      BY <1>3, <1>6 DEF RowKept, VotesSound, MarksSound, SameVotesOf, SameGateOf, SameMarksOf, SamePlaceOf
  <1>8. \A q : Voters(z, q) = Voters(x, q)
      BY <1>6 DEF Voters, Cast, SameVotesOf, SameGateOf
  <1>9. RowKept(z)
      BY <1>6, <1>7, <1>8 DEF RowKept, OwnersSound, VotersDistinct, SameGateOf
  <1>10. z.life = "active" /\ n >= z.revision /\ IntentSound(z)
      BY <1>1, <1>6 DEF SamePlaceOf, IntentSound, SameGateOf
  <1>11. x.revision \in Nat
      BY <1>1 DEF Row, Revs
  <1>12. History(x, z)
      <2>1. z.life # "absent" /\ z.revision >= x.revision
          BY <1>6, <1>10, <1>11
      <2>2. ASSUME NEW q \in Revs, x.state[q] # "none"
            PROVE  /\ z.state[q] # "none" /\ z.author[q] = x.author[q] /\ z.base[q] = x.base[q]
                   /\ x.state[q] # "pending" => z.state[q] = x.state[q]
          BY <1>1, <1>3, <1>6, <2>2
      <2> QED BY <2>1, <2>2 DEF History
  <1>13. /\ RowKept(y) /\ IntentSound(y) /\ History(z, y)
         /\ SameVotesOf(z, y) /\ SameGateOf(z, y) /\ SameMarksOf(z, y) /\ SamePlaceOf(z, y)
         /\ y.author = z.author /\ y.supersedes = z.supersedes
      BY <1>1, <1>4, <1>5, <1>9, <1>10, ServeKept
  <1>14. RowSound(y)
      BY AcceptRow DEF y, n
  <1>15. History(x, y)
      BY <1>1, <1>5, <1>12, <1>13, <1>14, HistoryTrans DEF RowSound
  <1> QED BY <1>6, <1>13, <1>15 DEF SameVotesOf, SameGateOf, SameMarksOf, SamePlaceOf, y, n

\* A pending edit that lost is decided, and that is all.
LEMMA RejectKept ==
  ASSUME NEW x, RowSound(x), RowKept(x), IntentSound(x), x.life = "active", x.head # x.revision
  PROVE  LET y == RejectRevision(x, x.head) IN
         /\ RowKept(y)
         /\ IntentSound(y)
         /\ History(x, y)
         /\ SameVotesOf(x, y) /\ SameGateOf(x, y) /\ SameMarksOf(x, y) /\ SamePlaceOf(x, y)
         /\ y.author = x.author /\ y.supersedes = x.supersedes
  <1> DEFINE n == x.head
             y == RejectRevision(x, n)
             state == [x.state EXCEPT ![n] = "rejected"]
             z == [x EXCEPT !.state[n] = "rejected"]
             P == {q \in Revs : z.state[q] = "pending"}
             head == IF P = {} THEN x.revision ELSE CHOOSE q \in P : \A m \in P : m <= q
  <1>1. x \in Row /\ n \in Revs /\ x.state[n] = "pending"
      BY DEF RowSound, Row, ChainSound
  <1>2. \A r \in Revs : state[r] = IF r = n THEN "rejected" ELSE x.state[r]
      BY <1>1 DEF Row
  <1>3. z = [x EXCEPT !.state = state]
      BY <1>1 DEF Row
  <1>4. y = [z EXCEPT !.head = head]
      BY DEF RejectRevision
  <1>5. state \in [Revs -> RevStates]
      BY <1>1 DEF Row, RevStates
  <1> HIDE DEF n, state, z, y, head
  <1>6. z \in Row
      BY <1>1, <1>3, <1>5 DEF Row
  <1>7. /\ SameVotesOf(x, z) /\ SameGateOf(x, z) /\ SameMarksOf(x, z) /\ SamePlaceOf(x, z)
        /\ z.author = x.author /\ z.base = x.base /\ z.supersedes = x.supersedes
        /\ z.revision = x.revision /\ z.state = state
      BY <1>1, <1>3 DEF Row, SameVotesOf, SameGateOf, SameMarksOf, SamePlaceOf
  <1>8. /\ SameVotesOf(z, y) /\ SameGateOf(z, y) /\ SameMarksOf(z, y) /\ SamePlaceOf(z, y)
        /\ y.author = z.author /\ y.base = z.base /\ y.supersedes = z.supersedes
        /\ y.revision = z.revision /\ y.state = z.state
      BY <1>4, <1>6 DEF Row, SameVotesOf, SameGateOf, SameMarksOf, SamePlaceOf
  <1>9. /\ SameVotesOf(x, y) /\ SameGateOf(x, y) /\ SameMarksOf(x, y) /\ SamePlaceOf(x, y)
        /\ y.author = x.author /\ y.base = x.base /\ y.supersedes = x.supersedes
        /\ y.revision = x.revision /\ y.state = state
      BY <1>7, <1>8 DEF SameVotesOf, SameGateOf, SameMarksOf, SamePlaceOf
  <1>10. VotesSound(y) /\ MarksSound(y) /\ y.required \in Gates
      BY <1>2, <1>9 DEF RowKept, VotesSound, MarksSound, SameVotesOf, SameGateOf, SameMarksOf, SamePlaceOf
  <1>11. \A q : Voters(y, q) = Voters(x, q)
      BY <1>9 DEF Voters, Cast, SameVotesOf, SameGateOf
  <1>12. RowKept(y)
      BY <1>9, <1>10, <1>11 DEF RowKept, OwnersSound, VotersDistinct, SameGateOf
  <1>13. IntentSound(y)
      BY <1>9 DEF IntentSound, SameGateOf
  <1>14. x.revision \in Nat
      BY <1>1 DEF Row, Revs
  <1>15. History(x, y)
      <2>1. y.life # "absent" /\ y.revision >= x.revision
          BY <1>9, <1>14 DEF SamePlaceOf
      <2>2. ASSUME NEW q \in Revs, x.state[q] # "none"
            PROVE  /\ y.state[q] # "none" /\ y.author[q] = x.author[q] /\ y.base[q] = x.base[q]
                   /\ x.state[q] # "pending" => y.state[q] = x.state[q]
          BY <1>1, <1>2, <1>9, <2>2
      <2> QED BY <2>1, <2>2 DEF History
  <1> QED BY <1>9, <1>12, <1>13, <1>15 DEF y, n

-----------------------------------------------------------------------------
(***************************************************************************)
(* What settling does to the table                                         *)
(***************************************************************************)

\* y is row x after settling.
Settles(x, y) ==
    /\ SameChainOf(x, y) /\ SameVotesOf(x, y) /\ SameGateOf(x, y)
    /\ SameMarksOf(x, y) /\ SamePlaceOf(x, y)
    /\ y.promoted => EarnedAt(y, y.required)

\* A row the step is not about keeps its place and its decision ...
Quiet(x, y) ==
    /\ x.life # "absent" => History(x, y)
    /\ SamePlaceOf(x, y) /\ SameDecisionOf(x, y) /\ y.revision = x.revision
\* ... or is replaced by entry e, whose row is z, promoted at a gate at least as strict.
Replaced(x, y, e, z) ==
    /\ x.life = "active" /\ y.life = "superseded" /\ y.fwd = e
    /\ History(x, y) /\ SameDecisionOf(x, y) /\ y.revision = x.revision
    /\ z.promoted
    /\ OneThreshold => x.required <= z.required
Others(m, m2, e) ==
    \A f \in Entries \ {e} : Quiet(m[f], m2[f]) \/ Replaced(m[f], m2[f], e, m2[e])

\* A row of a good table.
LEMMA RowOfGood ==
  ASSUME NEW m, TableGood(m), NEW e \in Entries
  PROVE  m[e] \in Row /\ RowSound(m[e]) /\ RowGood(m[e]) /\ RowKept(m[e])
  BY DEF TableGood, TableSound, RowGood

\* A row that does not change is quiet.
LEMMA SameQuiet ==
  ASSUME NEW x \in Row
  PROVE  Quiet(x, x) /\ MarkKept(x, x)
  <1>1. x.life # "absent" => History(x, x)
      BY SameHistory DEF SameChainOf
  <1> QED BY <1>1 DEF Quiet, SamePlaceOf, SameDecisionOf, MarkKept

\* Survivors keep their marks as long as every row does.
LEMMA MarkedStep ==
  ASSUME NEW m, Marked(m), NEW m2, \A f \in Entries : MarkKept(m[f], m2[f])
  PROVE  Marked(m2)
  <1> SUFFICES ASSUME NEW e \in Entries, m2[e].life = "merged"
               PROVE  /\ m2[e].fwd \in Entries
                      /\ m2[e].quarantine => m2[m2[e].fwd].quarantine \/ m2[m2[e].fwd].life = "purged"
      BY DEF Marked
  <1>1. m[e].life = "merged" /\ m2[e].fwd = m[e].fwd /\ (m2[e].quarantine => m[e].quarantine)
      BY DEF MarkKept
  <1>2. m[e].fwd \in Entries /\ (m[e].quarantine => m[m[e].fwd].quarantine \/ m[m[e].fwd].life = "purged")
      BY <1>1 DEF Marked
  <1>3. MarkKept(m[m[e].fwd], m2[m[e].fwd])
      BY <1>2
  <1> QED BY <1>1, <1>2, <1>3 DEF MarkKept

\* One row may be replaced by a good one.
LEMMA RowGoodTable ==
  ASSUME NEW m, TableGood(m), NEW e \in Entries, NEW y, RowGood(y), MarkKept(m[e], y),
         TableSound([m EXCEPT ![e] = y])
  PROVE  /\ TableGood([m EXCEPT ![e] = y])
         /\ Others(m, [m EXCEPT ![e] = y], e)
         /\ [m EXCEPT ![e] = y][e] = y
  <1> DEFINE m2 == [m EXCEPT ![e] = y]
  <1>1. m \in [Entries -> Row]
      BY DEF TableGood, TableSound
  <1>2. \A f \in Entries : m2[f] = IF f = e THEN y ELSE m[f]
      BY <1>1
  <1>3. \A f \in Entries : Quiet(m[f], m[f]) /\ MarkKept(m[f], m[f])
      BY <1>1, SameQuiet
  <1>4. TableSound(m2)
      OBVIOUS
  <1> HIDE DEF m2
  <1>5. \A f \in Entries : RowGood(m2[f]) /\ MarkKept(m[f], m2[f])
      BY <1>2, <1>3 DEF TableGood
  <1>6. Marked(m2)
      BY <1>5, MarkedStep DEF TableGood
  <1>7. Others(m, m2, e)
      BY <1>2, <1>3 DEF Others
  <1> QED BY <1>2, <1>4, <1>5, <1>6, <1>7 DEF TableGood, m2

\* A replacement that waits behind the strictest gate is as strict as what it replaces.
LEMMA IntentGate ==
  ASSUME NEW m, TableGood(m), NEW x \in Row, IntentSound(x), OneThreshold, NEW f \in x.supersedes
  PROVE  m[f].required <= x.required
  <1>1. f \in Entries
      BY DEF Row
  <1>2. m[f].required \in Gates
      BY <1>1, RowOfGood DEF RowKept
  <1> QED BY <1>2 DEF IntentSound

\* An active row is settled into a good table: its promotion is earned, what it replaces
\* is replaced, and every other row is left alone.
LEMMA SettleEntryGood ==
  ASSUME NEW m, TableGood(m), NEW e \in Entries, NEW x, RowSound(x), x.life = "active", RowKept(x),
         MarkKept(m[e], x), NEW s \in Settings,
         \/ IntentSound(x)
         \/ /\ Reconcile(x, x.revision) = "verified"
            /\ OneThreshold => \A f \in x.supersedes : m[f].required <= x.required
  PROVE  LET m2 == SettleEntry(m, e, x, s) IN
         /\ TableGood(m2)
         /\ Settles(x, m2[e])
         /\ Others(m, m2, e)
  <1> DEFINE y == Settled(x, s)
             w == [y EXCEPT !.supersedes = {}]
             m1 == [m EXCEPT ![e] = y]
             m2 == SettleEntry(m, e, x, s)
  <1>1. x \in Row /\ m \in [Entries -> Row] /\ s \in Setting /\ TableSound(m)
      BY DEF RowSound, TableGood, TableSound
  <1>2. /\ y \in Row /\ RowKept(y) /\ PromotionSound(y)
        /\ y.promoted <=> Reconcile(x, x.revision) = "verified"
        /\ SameChainOf(x, y) /\ SameVotesOf(x, y) /\ SameGateOf(x, y) /\ SameMarksOf(x, y)
        /\ SamePlaceOf(x, y) /\ y.supersedes = x.supersedes
      BY <1>1, SettledKept
  <1>3. OneThreshold => \A f \in x.supersedes : m[f].required <= x.required
      BY <1>1, IntentGate
  <1>4. [x EXCEPT !.required = x.required] = x
      BY <1>1 DEF Row
  <1>5. y.promoted => EarnedAt(x, x.required)
      BY <1>2, <1>4 DEF EarnedAt
  <1> HIDE DEF y
  <1>6. y.promoted => EarnedAt(y, y.required)
      BY <1>1, <1>2, <1>5, SameEarned DEF SameChainOf, SameVotesOf, SameGateOf
  <1>7. \A f \in Entries : m1[f] = IF f = e THEN y ELSE m[f]
      BY <1>1
  <1>8. MarkKept(m[e], y)
      BY <1>2 DEF MarkKept, SameMarksOf, SamePlaceOf
  <1>9. m2 = IF m1[e].promoted THEN ApplySupersession(m1, e) ELSE m1
      BY DEF SettleEntry, y
  <1>10. TableSound(m2)
      BY <1>1, SettleEntryTable
  <1> HIDE DEF m1, m2
  <1>11. CASE ~y.promoted
      <2>1. IntentSound(x)
          BY <1>2, <1>11
      <2>2. RowGood(y)
          BY <1>2, <2>1 DEF RowGood, IntentSound, SameGateOf
      <2>3. m2 = [m EXCEPT ![e] = y]
          BY <1>7, <1>9, <1>11 DEF m1
      <2>4. TableGood(m2) /\ Others(m, m2, e) /\ m2[e] = y
          BY <1>8, <1>10, <2>2, <2>3, RowGoodTable
      <2> QED BY <1>2, <1>6, <2>4 DEF Settles, m2
  <1>12. CASE y.promoted
      <2>1. w \in Row
          BY <1>2 DEF Row
      <2>2. /\ SameChainOf(y, w) /\ SameVotesOf(y, w) /\ SameGateOf(y, w) /\ SameMarksOf(y, w)
            /\ SamePlaceOf(y, w) /\ SameDecisionOf(y, w) /\ w.supersedes = {}
          BY <1>2 DEF Row, SameChainOf, SameVotesOf, SameGateOf, SameMarksOf, SamePlaceOf, SameDecisionOf
      <2>3. ASSUME NEW f \in Entries
            PROVE  m2[f] = IF f = e THEN w
                           ELSE IF f \in x.supersedes /\ m[f].life = "active" THEN Supersede(m[f], e)
                           ELSE m[f]
          BY <1>2, <1>7, <1>9, <1>12 DEF ApplySupersession
      <2> HIDE DEF w
      <2>4. RowKept(w)
          BY <1>2, <2>2, SameKept DEF SameChainOf, SamePlaceOf
      <2>5. PromotionSound(w)
          BY <1>2, <2>1, <2>2, SamePromotion DEF SameChainOf, SameVotesOf, SameGateOf
      <2>6. RowGood(w)
          BY <2>2, <2>4, <2>5 DEF RowGood, IntentSound
      <2>7. EarnedAt(w, w.required) /\ w.promoted
          BY <1>2, <1>6, <1>12, <2>1, <2>2, SameEarned DEF SameChainOf, SameVotesOf, SameGateOf, SameDecisionOf
      <2>8. MarkKept(m[e], w)
          BY <1>8, <2>2 DEF MarkKept, SameMarksOf, SamePlaceOf
      <2>9. Settles(x, w)
          BY <1>2, <2>2, <2>7
             DEF Settles, SameChainOf, SameVotesOf, SameGateOf, SameMarksOf, SamePlaceOf
      <2>10. ASSUME NEW f \in Entries \ {e}
             PROVE  /\ RowGood(m2[f])
                    /\ MarkKept(m[f], m2[f])
                    /\ Quiet(m[f], m2[f]) \/ Replaced(m[f], m2[f], e, w)
          <3>1. m[f] \in Row /\ RowGood(m[f])
              BY RowOfGood
          <3>2. CASE f \in x.supersedes /\ m[f].life = "active"
              <4>1. m2[f] = Supersede(m[f], e)
                  BY <2>3, <3>2
              <4>2. /\ RowGood(m2[f]) /\ History(m[f], m2[f]) /\ MarkKept(m[f], m2[f])
                    /\ SameChainOf(m[f], m2[f]) /\ SameDecisionOf(m[f], m2[f])
                    /\ m2[f].life = "superseded" /\ m2[f].fwd = e
                  BY <3>1, <3>2, <4>1, SupersedeKept
              <4>3. OneThreshold => m[f].required <= w.required
                  BY <1>2, <1>3, <2>2, <3>2 DEF SameGateOf
              <4>4. Replaced(m[f], m2[f], e, w)
                  BY <2>7, <3>2, <4>2, <4>3 DEF Replaced, SameChainOf
              <4> QED BY <4>2, <4>4
          <3>3. CASE ~(f \in x.supersedes /\ m[f].life = "active")
              <4>1. m2[f] = m[f]
                  BY <2>3, <3>3
              <4> QED BY <3>1, <4>1, SameQuiet
          <3> QED BY <3>2, <3>3
      <2>11. m2[e] = w
          BY <2>3
      <2>12. \A f \in Entries : RowGood(m2[f]) /\ MarkKept(m[f], m2[f])
          BY <2>6, <2>8, <2>10, <2>11
      <2>13. Marked(m2)
          BY <2>12, MarkedStep DEF TableGood
      <2>14. Others(m, m2, e)
          BY <2>10, <2>11 DEF Others
      <2> QED BY <1>10, <2>9, <2>11, <2>12, <2>13, <2>14 DEF TableGood, m2
  <1> QED BY <1>11, <1>12

\* A row with a pending edit is settled by the votes on the edit.
LEMMA SettleRevisionGood ==
  ASSUME NEW m, TableGood(m), NEW e \in Entries, NEW x, RowSound(x), ~PeerShortfall(x), RowGood(x),
         x.life = "active", x.head # x.revision, MarkKept(m[e], x), NEW s \in Settings
  PROVE  LET m2 == SettleRevision(m, e, x, x.head, s) IN
         /\ TableGood(m2)
         /\ Others(m, m2, e)
         /\ History(x, m2[e]) /\ m2[e].life = "active" /\ SameGateOf(x, m2[e])
         /\ \/ m2[e].promoted => EarnedAt(m2[e], m2[e].required)
            \/ SameDecisionOf(x, m2[e]) /\ m2[e].revision = x.revision
  <1> DEFINE m2 == SettleRevision(m, e, x, x.head, s)
             a == AcceptRevision(x, x.head)
             b == RejectRevision(x, x.head)
  <1>1. x \in Row /\ TableSound(m) /\ s \in Setting /\ RowKept(x) /\ IntentSound(x)
      BY DEF RowSound, TableGood, RowGood
  <1>2. RowSound(a) /\ a.life = "active" /\ RowSound(b) /\ b.life = "active"
      BY AcceptRow, RejectRow
  <1>3. /\ RowKept(a) /\ IntentSound(a) /\ History(x, a)
        /\ SameGateOf(x, a) /\ SameMarksOf(x, a) /\ SamePlaceOf(x, a)
      BY <1>1, AcceptKept
  <1>4. /\ RowKept(b) /\ IntentSound(b) /\ History(x, b)
        /\ SameGateOf(x, b) /\ SameMarksOf(x, b) /\ SamePlaceOf(x, b)
      BY <1>1, RejectKept
  <1>5. \/ m2 = SettleEntry(m, e, a, s)
        \/ m2 = SettleEntry(m, e, b, s)
        \/ m2 = [m EXCEPT ![e] = x]
      BY DEF SettleRevision
  <1>6. TableSound(m2)
      BY <1>1, SettleRevisionTable
  <1> HIDE DEF a, b, m2
  <1>7. ASSUME NEW z, RowSound(z), z.life = "active", RowKept(z), IntentSound(z), History(x, z),
               SameGateOf(x, z), SameMarksOf(x, z), SamePlaceOf(x, z), m2 = SettleEntry(m, e, z, s)
        PROVE  /\ TableGood(m2) /\ Others(m, m2, e)
               /\ History(x, m2[e]) /\ m2[e].life = "active" /\ SameGateOf(x, m2[e])
               /\ m2[e].promoted => EarnedAt(m2[e], m2[e].required)
      <2>1. MarkKept(m[e], z)
          BY <1>7 DEF MarkKept, SameMarksOf, SamePlaceOf
      <2>2. TableGood(m2) /\ Others(m, m2, e) /\ Settles(z, m2[e])
          BY <1>7, <2>1, SettleEntryGood
      <2>3. m2[e] \in Row /\ z \in Row
          BY <1>7, <2>2, RowOfGood DEF RowSound
      <2>4. m2[e].life = "active" /\ SameGateOf(x, m2[e])
          BY <1>7, <2>2 DEF Settles, SamePlaceOf, SameGateOf
      <2>5. History(z, m2[e])
          BY <2>2, <2>3, <2>4, SameHistory DEF Settles
      <2>6. History(x, m2[e])
          BY <1>1, <1>7, <2>3, <2>5, HistoryTrans
      <2> QED BY <2>2, <2>4, <2>6 DEF Settles
  <1>8. CASE m2 = [m EXCEPT ![e] = x]
      <2>1. TableGood(m2) /\ Others(m, m2, e) /\ m2[e] = x
          BY <1>6, <1>8, RowGoodTable
      <2>2. History(x, x)
          BY <1>1, SameHistory DEF SameChainOf
      <2> QED BY <2>1, <2>2 DEF m2, SameGateOf, SameDecisionOf
  <1>9. CASE m2 = SettleEntry(m, e, a, s)
      BY <1>2, <1>3, <1>7, <1>9 DEF m2
  <1>10. CASE m2 = SettleEntry(m, e, b, s)
      BY <1>2, <1>4, <1>7, <1>10 DEF m2
  <1> QED BY <1>5, <1>8, <1>9, <1>10

\* A mark that an edit or a merge sets.
LEMMA QuarantineKept ==
  ASSUME NEW x \in Row, RowGood(x), x.life # "absent", NEW q \in BOOLEAN, x.quarantine => q, x.core => ~q
  PROVE  LET y == [x EXCEPT !.quarantine = q] IN
         /\ RowGood(y)
         /\ History(x, y)
         /\ x.life # "merged" => MarkKept(x, y)
         /\ SameChainOf(x, y) /\ SameVotesOf(x, y) /\ SameGateOf(x, y) /\ SameDecisionOf(x, y)
         /\ SamePlaceOf(x, y) /\ y.quarantine = q /\ y.supersedes = x.supersedes
  <1> DEFINE y == [x EXCEPT !.quarantine = q]
  <1>1. y \in Row
      BY DEF Row
  <1>2. /\ SameChainOf(x, y) /\ SameVotesOf(x, y) /\ SameGateOf(x, y) /\ y.quarantine = q
        /\ y.core = x.core /\ SameDecisionOf(x, y) /\ SamePlaceOf(x, y) /\ y.supersedes = x.supersedes
      BY DEF Row, SameChainOf, SameVotesOf, SameGateOf, SameDecisionOf, SamePlaceOf
  <1> HIDE DEF y
  <1>3. VotesSound(y) /\ MarksSound(y) /\ y.required \in Gates
      BY <1>2 DEF RowGood, RowKept, VotesSound, MarksSound, SameChainOf, SameVotesOf, SameGateOf, SamePlaceOf
  <1>4. \A r : Voters(y, r) = Voters(x, r)
      BY <1>2 DEF Voters, Cast, SameChainOf, SameVotesOf, SameGateOf
  <1>5. RowKept(y)
      BY <1>2, <1>3, <1>4 DEF RowGood, RowKept, OwnersSound, VotersDistinct, SameChainOf, SameGateOf
  <1>6. PromotionSound(y)
      BY <1>1, <1>2, SamePromotion DEF RowGood, SameChainOf, SameVotesOf, SameGateOf
  <1>7. IntentSound(y)
      BY <1>2 DEF RowGood, IntentSound, SameGateOf
  <1>8. History(x, y)
      BY <1>2, SameHistory DEF SamePlaceOf
  <1>9. x.life # "merged" => MarkKept(x, y)
      BY <1>2 DEF MarkKept, SamePlaceOf
  <1> QED BY <1>2, <1>5, <1>6, <1>7, <1>8, <1>9 DEF RowGood, y

\* A merge passes the mark to the survivor.
LEMMA MergeGood ==
  ASSUME NEW m, TableGood(m), NEW e \in Entries, NEW t \in Entries \ {e},
         m[e].life = "active", m[t].life = "active",
         ~(m[t].core /\ m[e].quarantine /\ ~m[t].quarantine)
  PROVE  LET m2 == Merged(m, e, t) IN
         /\ TableGood(m2)
         /\ m2[e] = Retire(m[e], "merged", t)
         /\ \A f \in Entries \ {e} : Quiet(m[f], m2[f])
  <1> DEFINE m2 == Merged(m, e, t)
             y == Retire(m[e], "merged", t)
             q == m[t].quarantine \/ m[e].quarantine
             z == [m[t] EXCEPT !.quarantine = q]
  <1>1. m \in [Entries -> Row] /\ TableSound(m)
      BY DEF TableGood, TableSound
  <1>2. /\ m[e] \in Row /\ RowGood(m[e]) /\ m[t] \in Row /\ RowGood(m[t])
      BY RowOfGood
  <1>3. \A f \in Entries : m2[f] = IF f = e THEN y ELSE IF f = t THEN z ELSE m[f]
      BY <1>1 DEF Merged, q
  <1>4. TableSound(m2)
      BY <1>1, MergeTable
  <1>5. q \in BOOLEAN /\ (m[t].quarantine => q) /\ (m[e].quarantine => q)
      BY <1>2 DEF Row
  <1>6. m[t].core => ~q
      BY <1>2 DEF RowGood, RowKept, MarksSound
  <1> HIDE DEF q, m2
  <1>7. RowGood(y) /\ SameMarksOf(m[e], y) /\ y.life = "merged" /\ y.fwd = t
      BY <1>2, RetireKept
  <1>8. /\ RowGood(z) /\ History(m[t], z) /\ MarkKept(m[t], z) /\ SameChainOf(m[t], z)
        /\ SameDecisionOf(m[t], z) /\ SamePlaceOf(m[t], z) /\ z.quarantine = q
      BY <1>2, <1>5, <1>6, QuarantineKept
  <1> HIDE DEF y, z
  <1>9. Quiet(m[t], z)
      BY <1>8 DEF Quiet, SameChainOf
  <1>10. \A f \in Entries : Quiet(m[f], m[f]) /\ MarkKept(m[f], m[f])
      BY <1>1, SameQuiet
  <1>11. \A f \in Entries \ {e} : Quiet(m[f], m2[f]) /\ MarkKept(m[f], m2[f])
      BY <1>3, <1>8, <1>9, <1>10
  <1>12. m2[e] = y /\ m2[t] = z
      BY <1>3
  <1>13. \A f \in Entries : RowGood(m2[f])
      BY <1>3, <1>7, <1>8 DEF TableGood
  <1>14. ASSUME NEW f \in Entries, m2[f].life = "merged"
         PROVE  /\ m2[f].fwd \in Entries
                /\ m2[f].quarantine => m2[m2[f].fwd].quarantine \/ m2[m2[f].fwd].life = "purged"
      <2>1. CASE f = e
          BY <1>5, <1>7, <1>8, <1>12, <2>1 DEF SameMarksOf
      <2>2. CASE f # e
          <3>1. m[f].life = "merged" /\ m2[f].fwd = m[f].fwd /\ (m2[f].quarantine => m[f].quarantine)
              BY <1>11, <1>14, <2>2 DEF MarkKept
          <3> DEFINE g == m[f].fwd
          <3>2. g \in Entries /\ (m[f].quarantine => m[g].quarantine \/ m[g].life = "purged")
              BY <3>1 DEF TableGood, Marked
          <3>3. (m[g].quarantine \/ m[g].life = "purged") => (m2[g].quarantine \/ m2[g].life = "purged")
              BY <1>7, <1>11, <1>12, <3>2 DEF MarkKept, SameMarksOf
          <3> QED BY <3>1, <3>2, <3>3
      <2> QED BY <2>1, <2>2
  <1>15. Marked(m2)
      BY <1>14 DEF Marked
  <1> QED BY <1>4, <1>11, <1>12, <1>13, <1>15 DEF TableGood, m2, y

\* The rows a first change left alone or replaced, after a second that leaves them alone.
LEMMA OthersThen ==
  ASSUME NEW m, TableGood(m), NEW m1, TableGood(m1), NEW m2, TableGood(m2), NEW e \in Entries,
         Others(m, m1, e), \A f \in Entries \ {e} : Quiet(m1[f], m2[f]),
         SameDecisionOf(m1[e], m2[e]), SameGateOf(m1[e], m2[e])
  PROVE  Others(m, m2, e)
  <1> SUFFICES ASSUME NEW f \in Entries \ {e}
               PROVE  Quiet(m[f], m2[f]) \/ Replaced(m[f], m2[f], e, m2[e])
      BY DEF Others
  <1>1. Quiet(m1[f], m2[f]) /\ (Quiet(m[f], m1[f]) \/ Replaced(m[f], m1[f], e, m1[e]))
      BY DEF Others
  <1>2. m[f] \in Row /\ m1[f] \in Row /\ m2[f] \in Row
      BY RowOfGood
  <1>3. (m[f].life # "absent" /\ m1[f].life # "absent" /\ History(m[f], m1[f])) => History(m[f], m2[f])
      BY <1>1, <1>2, HistoryTrans DEF Quiet
  <1>4. CASE Quiet(m[f], m1[f])
      BY <1>1, <1>3, <1>4 DEF Quiet, SamePlaceOf, SameDecisionOf
  <1>5. CASE Replaced(m[f], m1[f], e, m1[e])
      <2>1. /\ m2[f].life = "superseded" /\ m2[f].fwd = e
            /\ SameDecisionOf(m[f], m2[f]) /\ m2[f].revision = m[f].revision
          BY <1>1, <1>5 DEF Quiet, Replaced, SamePlaceOf, SameDecisionOf
      <2>2. History(m[f], m2[f])
          BY <1>3, <1>5 DEF Replaced
      <2>3. m2[e].promoted /\ m2[e].required = m1[e].required
          BY <1>5 DEF Replaced, SameDecisionOf, SameGateOf
      <2> QED BY <1>5, <2>1, <2>2, <2>3 DEF Replaced
  <1> QED BY <1>1, <1>4, <1>5

\* Under a peer gate a rewrite of open-mode memory is not its author's alone.
LEMMA NotSolo ==
  ASSUME NEW y \in Row, EarnedAt(y, y.required), y.required > 1, y.source = Anonymous,
         y.author[y.revision] # Anonymous
  PROVE  ~(Cast(y, y.revision, "approve") \subseteq {y.author[y.revision]})
  <1> DEFINE r == y.revision
             A == Cast(y, r, "approve")
             X == Excluded(y, r)
  <1>1. [y EXCEPT !.required = y.required] = y
      BY DEF Row
  <1>2. Approvals(y, r) >= y.required \/ OpenModeAssertionStands(y, r)
      BY <1>1 DEF EarnedAt, Reconcile
  <1>3. CASE OpenModeAssertionStands(y, r)
      BY <1>3 DEF OpenModeAssertionStands
  <1>4. CASE Approvals(y, r) >= y.required
      <2>1. SUFFICES ASSUME A \subseteq {y.author[r]} PROVE FALSE
          OBVIOUS
      <2>2. X = {y.source, y.author[r]}
          BY DEF Excluded
      <2>3. A \ X = {}
          BY <2>1, <2>2
      <2>4. Cardinality({}) = 0
          BY FS_EmptySet
      <2>5. Approvals(y, r) = 0
          BY <2>3, <2>4 DEF Approvals
      <2>6. y.required \in Nat
          BY DEF Row
      <2> QED BY <1>4, <2>5, <2>6
  <1> QED BY <1>2, <1>3, <1>4

-----------------------------------------------------------------------------
(***************************************************************************)
(* Every action is a good step                                             *)
(***************************************************************************)

\* What a step of principal p keeps and what it may do.
StepGood(p) ==
    /\ TableGood(mem')
    /\ HistoryStep
    /\ RestoreStep
    /\ OneThreshold => SupersedeStep
    /\ p # Anonymous => ~SoloRewriteStep

\* A step about entry e is good if e's row is treated rightly.
LEMMA StepFacts ==
  ASSUME SInv, NEW e \in Entries, NEW p, TableGood(mem'), Others(mem, mem', e),
         mem[e].life # "absent" => History(mem[e], mem'[e]),
         mem'[e].life = "superseded" => mem[e].life = "superseded",
         (mem[e].life \in {"retracted", "superseded", "merged"} /\ mem'[e].life = "active") =>
            ~mem'[e].promoted /\ \A r \in Revs, v \in Verdicts : Cast(mem'[e], r, v) = {},
         (/\ p # Anonymous /\ settings.multi /\ settings.threshold > 1
          /\ mem'[e].promoted /\ ~(mem[e].promoted /\ mem[e].revision = mem'[e].revision)
          /\ mem'[e].source = Anonymous /\ mem'[e].author[mem'[e].revision] # Anonymous)
         => EarnedAt(mem'[e], mem'[e].required) /\ mem'[e].required > 1
  PROVE  StepGood(p)
  <1>1. ASSUME NEW f \in Entries, f # e
        PROVE  Quiet(mem[f], mem'[f]) \/ Replaced(mem[f], mem'[f], e, mem'[e])
      BY <1>1 DEF Others
  <1>2. HistoryStep
      <2>1. ASSUME NEW f \in Entries, mem[f].life # "absent" PROVE History(mem[f], mem'[f])
          BY <1>1, <2>1 DEF Quiet, Replaced
      <2> QED BY <2>1 DEF HistoryStep, History
  <1>3. RestoreStep
      <2>1. ASSUME NEW f \in Entries, f # e
            PROVE  ~(mem[f].life \in {"retracted", "superseded", "merged"} /\ mem'[f].life = "active")
          BY <1>1, <2>1 DEF Quiet, Replaced, SamePlaceOf
      <2> QED BY <2>1 DEF RestoreStep
  <1>4. ASSUME OneThreshold PROVE SupersedeStep
      <2> SUFFICES ASSUME NEW f \in Entries, mem[f].life = "active", mem'[f].life = "superseded"
                   PROVE  mem'[mem'[f].fwd].promoted /\ mem'[mem'[f].fwd].required >= mem[f].required
          BY DEF SupersedeStep
      <2>1. f # e /\ ~Quiet(mem[f], mem'[f])
          BY DEF Quiet, SamePlaceOf
      <2>2. Replaced(mem[f], mem'[f], e, mem'[e])
          BY <1>1, <2>1
      <2> QED BY <1>4, <2>2 DEF Replaced
  <1>5. ASSUME p # Anonymous, SoloRewriteStep PROVE FALSE
      <2>1. PICK f \in Entries :
                /\ settings.multi /\ settings.threshold > 1
                /\ mem'[f].promoted /\ ~(mem[f].promoted /\ mem[f].revision = mem'[f].revision)
                /\ mem'[f].source = Anonymous /\ mem'[f].author[mem'[f].revision] # Anonymous
                /\ Cast(mem'[f], mem'[f].revision, "approve") \subseteq {mem'[f].author[mem'[f].revision]}
          BY <1>5 DEF SoloRewriteStep
      <2>2. f = e
          BY <1>1, <2>1 DEF Quiet, Replaced, SameDecisionOf
      <2>3. EarnedAt(mem'[e], mem'[e].required) /\ mem'[e].required > 1
          BY <1>5, <2>1, <2>2
      <2>4. mem'[e] \in Row
          BY DEF TableGood, TableSound
      <2> QED BY <2>1, <2>2, <2>3, <2>4, NotSolo
  <1> QED BY <1>2, <1>3, <1>4, <1>5 DEF StepGood

\* The invariant speaks of a sound table under settings the operator wrote.
LEMMA SafetyFacts ==
  ASSUME SInv
  PROVE  /\ IInv /\ TableGood(mem) /\ TableSound(mem) /\ settings \in Settings /\ settings \in Setting
         /\ mem \in [Entries -> Row]
  BY DEF SInv, IInv, TableGood, TableSound

\* A verdict: counted, gated and settled; the served one may then retract or merge.
LEMMA CastVerdictGood ==
  ASSUME SInv, NEW e \in Entries, NEW p \in Principals, NEW r \in Revs, NEW v \in Verdicts,
         NEW t \in Entries \cup {None}, v = "duplicate_of" => t \in Entries \ {e},
         CastVerdict(e, p, r, v, t)
  PROVE  StepGood(p)
  <1> DEFINE x == mem[e]
             voted == RecordVote(x, r, p, v, t)
             n == RegatedRequirement(voted, p, settings)
             gated == Regate(voted, p, settings)
             m == SettleEntry(mem, e, gated, settings)
  <1>1. /\ x \in Row /\ RowSound(x) /\ RowGood(x) /\ ~PeerShortfall(x) /\ TableGood(mem)
        /\ settings \in Settings /\ settings \in Setting
      BY SafetyFacts, RowOfGood, RowOfTable
  <1>2. /\ TakesVotes(x, r) /\ OwnerDistinct(x, r, p, v) /\ x.life = "active"
        /\ r # x.revision => r = x.head /\ v # "retract"
        /\ ~GateRefused(voted, n)
        /\ \/ r # x.revision /\ mem' = SettleRevision(mem, e, gated, r, settings)
           \/ r = x.revision /\ v \in {"approve", "reject"} /\ mem' = m
           \/ r = x.revision /\ v = "retract" /\ mem' = RetractOnQuorum(m, e)
           \/ /\ r = x.revision /\ v = "duplicate_of"
              /\ ~MergeRefused(m, e, t) /\ mem' = MergeOnQuorum(m, e, t)
      BY DEF CastVerdict, TakesVotes, RegateRefused
  <1>3. x.state[r] # "none"
      BY <1>1, <1>2 DEF TakesVotes, RowSound, ChainSound
  <1>4. MayVote(x, r, p, v)
      BY <1>1, <1>2 DEF MayVote, OwnerDistinct, OwnerMode
  <1>5. RowKept(x) /\ IntentSound(x) /\ PromotionSound(x)
      BY <1>1 DEF RowGood
  <1>6. SInv
      OBVIOUS
  <1> HIDE DEF x
  <1>7. /\ RowKept(voted) /\ SameChainOf(x, voted) /\ SameGateOf(x, voted) /\ SameMarksOf(x, voted)
        /\ SameDecisionOf(x, voted) /\ SamePlaceOf(x, voted) /\ voted.epoch = x.epoch
        /\ voted.supersedes = x.supersedes
        /\ \A q \in Revs : q # r => voted.votes[q] = x.votes[q]
      BY <1>1, <1>3, <1>4, <1>5, VoteKept
  <1>8. /\ RowSound(voted) /\ voted \in Row
        /\ r # x.revision => PeerApprovers(voted) = PeerApprovers(x) /\ voted.mode = x.mode
      BY <1>1, <1>2, RecordVoteRow DEF RowSound
  <1>9. r # x.revision => ~PeerShortfall(voted)
      BY <1>1, <1>7, <1>8 DEF PeerShortfall, SameGateOf
  <1>10. IntentSound(voted)
      BY <1>5, <1>7 DEF IntentSound, SameGateOf
  <1>11. r # x.revision => PromotionSound(voted)
      <2>1. x.revision \in Revs
          BY <1>1 DEF Row
      <2> QED BY <1>1, <1>5, <1>7, <1>8, <2>1, SamePromotion DEF SameChainOf, SameGateOf
  <1>12. n \in Nat \ {0} /\ gated = SetRequiredVerifications(voted, n)
      BY <1>1, <1>8, RegateBound DEF Regate
  <1>13. /\ RowKept(gated) /\ IntentSound(gated)
         /\ PromotionSound(voted) => PromotionSound(gated)
         /\ SameChainOf(voted, gated) /\ SameVotesOf(voted, gated) /\ SameMarksOf(voted, gated)
         /\ SameDecisionOf(voted, gated) /\ SamePlaceOf(voted, gated) /\ gated.source = voted.source
         /\ (p # Anonymous /\ voted.source = Anonymous /\ settings.multi /\ settings.threshold > 1)
               => gated.required > 1
      BY <1>1, <1>7, <1>8, <1>10, RegateKept
  <1> HIDE DEF voted, n, gated
  <1>14. RowSound(gated) /\ (r # x.revision => ~PeerShortfall(gated))
      BY <1>2, <1>8, <1>9, <1>12, GateRow
  <1>15. /\ gated.life = "active" /\ gated.head = x.head /\ gated.revision = x.revision
         /\ gated.source = x.source /\ SameChainOf(x, gated) /\ SameDecisionOf(x, gated)
         /\ MarkKept(x, gated) /\ gated \in Row
      BY <1>2, <1>7, <1>13, <1>14
         DEF SameChainOf, SamePlaceOf, SameMarksOf, SameGateOf, SameDecisionOf, MarkKept, RowSound
  <1>16. History(x, gated)
      BY <1>1, <1>15, SameHistory
  <1>17. (p # Anonymous /\ gated.source = Anonymous /\ settings.multi /\ settings.threshold > 1)
             => gated.required > 1
      BY <1>13
  <1>18. TableGood(m) /\ Settles(gated, m[e]) /\ Others(mem, m, e)
      BY <1>1, <1>13, <1>14, <1>15, SettleEntryGood DEF x
  <1> HIDE DEF m
  <1>19. /\ m[e] \in Row /\ RowGood(m[e]) /\ m[e].life = "active" /\ SameGateOf(gated, m[e])
         /\ SameChainOf(x, m[e]) /\ (m[e].promoted => EarnedAt(m[e], m[e].required))
      BY <1>15, <1>18, RowOfGood DEF Settles, SamePlaceOf, SameChainOf
  <1>20. History(x, m[e])
      BY <1>1, <1>19, SameHistory
  <1>21. CASE r # x.revision /\ mem' = SettleRevision(mem, e, gated, r, settings)
      <2>1. RowGood(gated)
          BY <1>11, <1>13, <1>21 DEF RowGood
      <2>2. gated.head # gated.revision /\ r = gated.head
          BY <1>2, <1>15, <1>21
      <2>3. /\ TableGood(mem') /\ Others(mem, mem', e) /\ History(gated, mem'[e]) /\ mem'[e].life = "active"
            /\ SameGateOf(gated, mem'[e])
            /\ \/ mem'[e].promoted => EarnedAt(mem'[e], mem'[e].required)
               \/ SameDecisionOf(gated, mem'[e]) /\ mem'[e].revision = gated.revision
          BY <1>1, <1>14, <1>15, <1>21, <2>1, <2>2, SettleRevisionGood DEF x
      <2>4. History(x, mem'[e])
          <3>1. mem'[e] \in Row
              BY <2>3 DEF TableGood, TableSound
          <3> QED BY <1>1, <1>15, <1>16, <2>3, <3>1, HistoryTrans
      <2>5. (/\ p # Anonymous /\ settings.multi /\ settings.threshold > 1
             /\ mem'[e].promoted /\ ~(x.promoted /\ x.revision = mem'[e].revision)
             /\ mem'[e].source = Anonymous)
            => EarnedAt(mem'[e], mem'[e].required) /\ mem'[e].required > 1
          BY <1>15, <1>17, <2>3 DEF SameGateOf, SameDecisionOf
      <2> QED BY <1>2, <1>6, <2>3, <2>4, <2>5, StepFacts DEF x
  <1>22. CASE mem' = m
      <2>1. (p # Anonymous /\ settings.multi /\ settings.threshold > 1 /\ m[e].source = Anonymous)
                => m[e].required > 1
          BY <1>17, <1>19 DEF SameGateOf
      <2> QED BY <1>2, <1>6, <1>18, <1>19, <1>20, <1>22, <2>1, StepFacts DEF x
  <1>23. ASSUME NEW y, TableGood(mem'), mem'[e] = y, History(m[e], y), SameDecisionOf(m[e], y),
                SameGateOf(m[e], y), SameChainOf(m[e], y), SameVotesOf(m[e], y),
                y.life \notin {"superseded", "active"},
                \A f \in Entries \ {e} : Quiet(m[f], mem'[f])
         PROVE  StepGood(p)
      <2>1. Others(mem, mem', e)
          BY <1>1, <1>18, <1>23, OthersThen
      <2>2. y \in Row
          BY <1>23 DEF TableGood, TableSound
      <2>3. History(x, y)
          BY <1>1, <1>19, <1>20, <1>23, <2>2, HistoryTrans
      <2>4. y.promoted => EarnedAt(y, y.required)
          BY <1>19, <1>23, <2>2, SameEarned DEF SameDecisionOf, SameGateOf, SameChainOf, SameVotesOf
      <2>5. (p # Anonymous /\ settings.multi /\ settings.threshold > 1 /\ y.source = Anonymous)
                => y.required > 1
          BY <1>17, <1>19, <1>23 DEF SameGateOf
      <2> QED BY <1>2, <1>6, <1>23, <2>1, <2>3, <2>4, <2>5, StepFacts DEF x
  <1>24. CASE mem' = RetractOnQuorum(m, e)
      <2> DEFINE y == Retire(m[e], "retracted", None)
      <2>1. /\ RowGood(y) /\ History(m[e], y) /\ MarkKept(m[e], y) /\ SameChainOf(m[e], y)
            /\ SameVotesOf(m[e], y) /\ SameGateOf(m[e], y) /\ SameDecisionOf(m[e], y) /\ y.life = "retracted"
          BY <1>19, RetireKept
      <2>2. RowSound(m[e]) /\ ~PeerShortfall(m[e]) /\ TableSound(m)
          BY <1>18 DEF TableGood, TableSound
      <2>3. RowSound(y) /\ ~PeerShortfall(y) /\ y.fwd = None
          BY <1>19, <2>2, RetireRow
      <2>4. mem' = m \/ mem' = [m EXCEPT ![e] = y]
          BY <1>24 DEF RetractOnQuorum
      <2> HIDE DEF y
      <2>5. CASE mem' = [m EXCEPT ![e] = y]
          <3>1. TableSound([m EXCEPT ![e] = y])
              BY <2>2, <2>3, RowTable
          <3>2. TableGood(mem') /\ mem'[e] = y
              BY <1>18, <2>1, <2>5, <3>1, RowGoodTable
          <3>3. \A f \in Entries \ {e} : mem'[f] = m[f] /\ m[f] \in Row
              BY <1>18, <2>5 DEF TableGood, TableSound
          <3>4. \A f \in Entries \ {e} : Quiet(m[f], mem'[f])
              BY <3>3, SameQuiet
          <3> QED BY <1>23, <2>1, <3>2, <3>4
      <2> QED BY <1>22, <2>4, <2>5
  <1>25. CASE v = "duplicate_of" /\ ~MergeRefused(m, e, t) /\ mem' = MergeOnQuorum(m, e, t)
      <2> DEFINE y == Retire(m[e], "merged", t)
      <2>1. /\ t \in Entries \ {e} /\ m[t].life = "active"
          BY <1>25 DEF MergeRefused, Served
      <2>2. \/ mem' = m
            \/ mem' = Merged(m, e, t) /\ ~(m[t].core /\ m[e].quarantine /\ ~m[t].quarantine)
          <3>1. CASE Cardinality(NamedDuplicateOf(m[e], t)) < m[e].required
              BY <1>25, <3>1 DEF MergeOnQuorum
          <3>2. CASE ~(Cardinality(NamedDuplicateOf(m[e], t)) < m[e].required)
              <4>1. NamedDuplicateOf(m[e], t) \subseteq Principals
                  BY DEF NamedDuplicateOf, Cast
              <4>2. Cardinality(NamedDuplicateOf(m[e], t)) \in Nat /\ m[e].required \in Nat
                  BY <1>19, <4>1, FS_Subset, FS_CardinalityType DEF Row
              <4>3. Cardinality(NamedDuplicateOf(m[e], t)) >= m[e].required
                  BY <3>2, <4>2
              <4> QED BY <1>25, <3>2, <4>3 DEF MergeOnQuorum, MergeRefused
          <3> QED BY <3>1, <3>2
      <2>3. CASE mem' = Merged(m, e, t) /\ ~(m[t].core /\ m[e].quarantine /\ ~m[t].quarantine)
          <3>1. /\ TableGood(mem') /\ mem'[e] = y
                /\ \A f \in Entries \ {e} : Quiet(m[f], mem'[f])
              BY <1>18, <1>19, <2>1, <2>3, MergeGood
          <3>2. /\ History(m[e], y) /\ SameChainOf(m[e], y)
                /\ SameVotesOf(m[e], y) /\ SameGateOf(m[e], y) /\ SameDecisionOf(m[e], y) /\ y.life = "merged"
              BY <1>19, RetireKept
          <3> HIDE DEF y
          <3> QED BY <1>23, <3>1, <3>2
      <2> QED BY <1>22, <2>2, <2>3
  <1> QED BY <1>2, <1>21, <1>22, <1>24, <1>25

\* A verdict asked for by name.
LEMMA VerifyGood ==
  ASSUME SInv, NEW e \in Entries, NEW p \in Principals, VerifyContextOutcome(e, p)
  PROVE  StepGood(p)
  <1>1. PICK r \in Revs, v \in Ballots :
            \/ v # "duplicate_of" /\ CastVerdict(e, p, r, v, None)
            \/ /\ v = "duplicate_of"
               /\ \E t \in Entries \ {e} : mem[t].life # "absent" /\ CastVerdict(e, p, r, v, t)
      BY DEF VerifyContextOutcome
  <1>2. v \in Verdicts
      OBVIOUS
  <1>3. CASE v # "duplicate_of" /\ CastVerdict(e, p, r, v, None)
      BY <1>2, <1>3, CastVerdictGood
  <1>4. CASE v = "duplicate_of" /\ \E t \in Entries \ {e} : CastVerdict(e, p, r, v, t)
      <2>1. PICK t \in Entries \ {e} : CastVerdict(e, p, r, v, t)
          BY <1>4
      <2> QED BY <1>2, <2>1, CastVerdictGood
  <1> QED BY <1>1, <1>3, <1>4

\* A new row: no votes, its author's, behind a known gate.
LEMMA InsertKept ==
  ASSUME NEW p \in Principals, NEW d \in Draft, NEW n \in Gates, NEW b \in BOOLEAN,
         NEW S \in SUBSET Entries, d.core => ~d.quarantine
  PROVE  LET y == InsertEntry(p, d, n, b, S) IN
         /\ RowKept(y)
         /\ y.life = "active" /\ y.source = p /\ y.required = n /\ y.peersOnly = b /\ y.supersedes = S
         /\ y.revision = 1 /\ y.state[1] = "accepted" /\ y.author[1] = p
         /\ \A r \in Revs, v \in Verdicts : Cast(y, r, v) = {}
  <1> DEFINE y == InsertEntry(p, d, n, b, S)
             state == [Absent.state EXCEPT ![1] = "accepted"]
             author == [Absent.author EXCEPT ![1] = p]
  <1>1. 1 \in Revs
      BY DEF Revs
  <1>2. y = [Absent EXCEPT !.life = "active", !.source = p, !.required = n, !.peersOnly = b,
                           !.readonly = d.readonly, !.state = state, !.author = author,
                           !.supersedes = S, !.core = d.core, !.quarantine = d.quarantine,
                           !.expiry = d.expiry]
      BY DEF InsertEntry, Absent
  <1>3. state[1] = "accepted" /\ author[1] = p
      BY <1>1 DEF Absent
  <1> HIDE DEF state, author
  <1>4. /\ y.life = "active" /\ y.source = p /\ y.required = n /\ y.peersOnly = b /\ y.supersedes = S
        /\ y.revision = 1 /\ y.state = state /\ y.author = author /\ y.core = d.core
        /\ y.quarantine = d.quarantine /\ y.epoch = 0
        /\ y.votes = [r \in Revs |-> [q \in Principals |-> NoVote]]
      BY <1>2 DEF Absent
  <1> HIDE DEF y
  <1>5. NoVote.verdict = "none" /\ NoVote.epoch = 0
      BY DEF NoVote
  <1>6. \A r \in Revs, q \in Principals : y.votes[r][q] = NoVote
      BY <1>4
  <1>7. ASSUME NEW r \in Revs, NEW v \in Verdicts PROVE Cast(y, r, v) = {}
      <2>1. v # "none"
          BY DEF Verdicts
      <2> QED BY <1>5, <1>6, <2>1 DEF Cast
  <1>8. VotesSound(y)
      BY <1>4, <1>5, <1>6 DEF VotesSound
  <1>9. MarksSound(y) /\ y.required \in Gates
      BY <1>4 DEF MarksSound
  <1>10. \A r \in Revs : Voters(y, r) = {}
      BY <1>7 DEF Voters, Verdicts
  <1>11. RowKept(y)
      BY <1>8, <1>9, <1>10 DEF RowKept, OwnersSound, VotersDistinct
  <1> QED BY <1>3, <1>4, <1>7, <1>11 DEF y

\* One's own word settles a row behind the single assertion's gate.
LEMMA SelfVerified ==
  ASSUME NEW x \in Row, x.required = 1, NEW p \in Cast(x, x.revision, "approve"),
         Cast(x, x.revision, "reject") = {}
  PROVE  Reconcile(x, x.revision) = "verified"
  <1> DEFINE A == Cast(x, x.revision, "approve")
  <1>1. Excluded(x, x.revision) = {}
      BY DEF Excluded
  <1>2. Cardinality({}) = 0
      BY FS_EmptySet
  <1>3. Rejections(x, x.revision) = 0
      <2>1. Cast(x, x.revision, "reject") \ Excluded(x, x.revision) = {}
          BY <1>1
      <2> QED BY <1>2, <2>1 DEF Rejections
  <1>4. IsFiniteSet(A)
      BY FS_Subset DEF Cast
  <1>5. Cardinality(A) \in Nat /\ Cardinality(A) # 0
      BY <1>4, FS_CardinalityType, FS_EmptySet
  <1>6. Approvals(x, x.revision) = Cardinality(A)
      <2>1. A \ Excluded(x, x.revision) = A
          BY <1>1
      <2> QED BY <2>1 DEF Approvals
  <1>7. Approvals(x, x.revision) >= 1
      BY <1>5, <1>6
  <1> QED BY <1>3, <1>7 DEF Reconcile

\* A proposal either stands on its author's word, and then replaces only what one word
\* may replace, or waits behind the strictest gate.
LEMMA ProposeGood ==
  ASSUME SInv, NEW e \in Entries, NEW p \in Principals, NEW d \in Drafts, NEW S \in SUBSET Entries,
         ProposeContext(e, p, d, S), NEW w
  PROVE  StepGood(w)
  <1> DEFINE gates == SupersededGate(S)
             peersOnly == d.tighten \/ \E g \in gates : g > 1
             self == SelfAsserts(p, peersOnly, settings)
  <1>1. /\ settings \in Settings /\ settings \in Setting /\ TableGood(mem) /\ TableSound(mem) /\ d \in Draft
      BY SafetyFacts
  <1>2. PICK gate \in gates \cup {settings.threshold} :
            /\ Strictest(gate, gates \cup {settings.threshold})
            /\ mem' = SettleEntry(mem, e,
                      IF self THEN RecordVote(InsertEntry(p, d, IF self THEN 1 ELSE gate, peersOnly, S),
                                              1, p, "approve", None)
                      ELSE InsertEntry(p, d, IF self THEN 1 ELSE gate, peersOnly, S), settings)
      BY DEF ProposeContext
  <1>3. mem[e].life = "absent" /\ (d.core => ~d.quarantine)
      BY DEF ProposeContext
  <1>4. \A o \in Entries : mem[o].required \in Gates
      BY <1>1, RowOfGood DEF RowKept
  <1>5. gate \in Gates /\ 1 \in Gates /\ settings.threshold \in Gates
      BY <1>1, <1>4 DEF SupersededGate, Gates
  <1>6. peersOnly \in BOOLEAN
      BY <1>1 DEF Draft
  <1>7. settings.threshold <= gate
      BY <1>2 DEF Strictest
  <1>8. ~peersOnly => \A f \in S : ~(mem[f].required > 1)
      BY DEF SupersededGate
  <1>9. (~self /\ p = Anonymous) => peersOnly
      BY DEF SelfAsserts
  <1>10. self => ~peersOnly
      BY DEF SelfAsserts
  <1> DEFINE n == IF self THEN 1 ELSE gate
             x == InsertEntry(p, d, n, peersOnly, S)
             voted == IF self THEN RecordVote(x, 1, p, "approve", None) ELSE x
  <1>11. n \in Gates /\ (self => n = 1) /\ (~self => n = gate)
      BY <1>5
  <1>12. mem' = SettleEntry(mem, e, voted, settings)
      BY <1>2
  <1> HIDE DEF n, peersOnly, self
  <1>13. n \in Nat \ {0} /\ gate \in Nat \ {0}
      BY <1>5, <1>11, GatesNat
  <1>14. RowSound(x) /\ x \in Row
      BY <1>1, <1>6, <1>13, InsertRow DEF RowSound
  <1>15. /\ RowKept(x) /\ x.life = "active" /\ x.source = p /\ x.required = n /\ x.peersOnly = peersOnly
         /\ x.supersedes = S /\ x.revision = 1 /\ x.state[1] = "accepted" /\ x.author[1] = p
         /\ \A r \in Revs, v \in Verdicts : Cast(x, r, v) = {}
      BY <1>1, <1>3, <1>6, <1>11, InsertKept
  <1> HIDE DEF x
  <1>16. 1 \in Revs /\ "approve" \in Verdicts /\ "reject" \in Verdicts
      BY DEF Revs, Verdicts
  <1>17. \A f \in S : mem[f].required \in Nat
      BY <1>4, GatesNat
  <1>18. /\ RowSound(voted) /\ voted \in Row /\ RowKept(voted) /\ voted.life = "active" /\ voted.source = p
         /\ voted.revision = 1 /\ voted.author[1] = p
         /\ \/ IntentSound(voted)
            \/ /\ Reconcile(voted, voted.revision) = "verified"
               /\ OneThreshold => \A f \in voted.supersedes : mem[f].required <= voted.required
      <2>1. CASE self
          <3> DEFINE y == RecordVote(x, 1, p, "approve", None)
          <3>1. MayVote(x, 1, p, "approve") /\ x.state[1] # "none" /\ None \in Entries \cup {None}
              BY <1>15 DEF MayVote
          <3>2. RowSound(y) /\ y \in Row
              BY <1>14, <1>16, <3>1, RecordVoteRow DEF RowSound
          <3>3. /\ RowKept(y) /\ SameChainOf(x, y) /\ SameGateOf(x, y) /\ SamePlaceOf(x, y)
                /\ y.supersedes = x.supersedes /\ p \in Cast(y, 1, "approve")
                /\ \A u \in Verdicts : u # "approve" => Cast(y, 1, u) \subseteq Cast(x, 1, u)
              BY <1>14, <1>15, <1>16, <3>1, VoteKept
          <3> HIDE DEF y
          <3>4. /\ y.revision = 1 /\ y.required = 1 /\ y.life = "active" /\ y.source = p /\ y.author[1] = p
                /\ y.supersedes = S
              BY <1>11, <1>15, <2>1, <3>3 DEF SameChainOf, SameGateOf, SamePlaceOf
          <3>5. Cast(y, 1, "reject") = {}
              BY <1>15, <1>16, <3>3
          <3>6. Reconcile(y, y.revision) = "verified"
              BY <3>2, <3>3, <3>4, <3>5, SelfVerified
          <3>7. \A f \in S : mem[f].required <= 1
              BY <1>8, <1>10, <1>17, <2>1
          <3>8. voted = y
              BY <2>1 DEF y
          <3> QED BY <3>2, <3>3, <3>4, <3>6, <3>7, <3>8
      <2>2. CASE ~self
          <3>1. voted = x
              BY <2>2
          <3>2. ASSUME OneThreshold PROVE \A g \in Gates : g <= gate
              <4>1. \A g \in Gates : g = 1 \/ g = settings.threshold
                  BY <1>1, <3>2 DEF Gates, OneThreshold
              <4> QED BY <1>7, <1>13, <4>1
          <3>3. IntentSound(x)
              BY <1>9, <1>11, <1>15, <2>2, <3>2 DEF IntentSound
          <3> QED BY <1>14, <1>15, <3>1, <3>3
      <2> QED BY <2>1, <2>2
  <1> HIDE DEF voted
  <1>19. MarkKept(mem[e], voted)
      <2>1. ~mem[e].quarantine
          BY <1>1, <1>3, RowOfGood DEF RowKept, MarksSound
      <2> QED BY <1>3, <1>18, <2>1 DEF MarkKept
  <1>20. TableGood(mem') /\ Settles(voted, mem'[e]) /\ Others(mem, mem', e)
      BY <1>1, <1>12, <1>18, <1>19, SettleEntryGood
  <1>21. mem'[e].life = "active" /\ mem'[e].source = p /\ mem'[e].author[mem'[e].revision] = p
      BY <1>18, <1>20 DEF Settles, SamePlaceOf, SameGateOf, SameChainOf
  <1> QED BY <1>3, <1>20, <1>21, StepFacts

\* An edit of the text waits on top of the served one, with its author's word or without.
LEMMA EditContentGood ==
  ASSUME SInv, NEW e \in Entries, NEW p \in Principals, NEW d \in Edits, NEW n \in Revs,
         mem[e].life = "active", mem[e].head = mem[e].revision, EditContent(e, p, d, n)
  PROVE  StepGood(p)
  <1> DEFINE x == mem[e]
             dated == IF d.expiry = "none" THEN x ELSE [x EXCEPT !.expiry = d.expiry]
             appended == AppendPending(dated, n, p)
             q == appended.quarantine \/ d.quarantine
             edited == [appended EXCEPT !.quarantine = q]
             voted == IF SelfAsserts(p, x.peersOnly, settings)
                      THEN RecordVote(edited, n, p, "approve", None) ELSE edited
             k == RegatedRequirement(voted, p, settings)
             gated == Regate(voted, p, settings)
  <1>1. /\ RowSound(x) /\ ~PeerShortfall(x) /\ TableGood(mem) /\ x \in Row /\ RowGood(x)
        /\ settings \in Settings /\ settings \in Setting /\ d.expiry \in Expiries /\ d.quarantine \in BOOLEAN
      BY SafetyFacts, RowOfGood, RowOfTable DEF Edit
  <1>2. /\ IsNextRevision(x, n)
        /\ x.core => ~d.quarantine \/ x.quarantine
        /\ ~GateRefused(voted, k)
        /\ mem' = SettleRevision(mem, e, gated, n, settings)
      <2>1. edited = [appended EXCEPT !.quarantine = @ \/ d.quarantine]
          OBVIOUS
      <2> QED BY <2>1, Zenon DEF EditContent, RegateRefused
  <1>3. x.life = "active" /\ x.head = x.revision /\ SInv
      OBVIOUS
  <1>4. dated \in Row
      BY <1>1 DEF Row
  <1>5. /\ dated.life = x.life /\ dated.fwd = x.fwd /\ dated.revision = x.revision /\ dated.state = x.state
        /\ dated.head = x.head /\ dated.base = x.base /\ dated.dropped = x.dropped
        /\ dated.required = x.required /\ dated.mode = x.mode /\ dated.votes = x.votes
        /\ dated.epoch = x.epoch /\ dated.source = x.source /\ dated.author = x.author
      BY <1>1 DEF Row
  <1>6. /\ RowGood(dated) /\ SameChainOf(x, dated) /\ SameGateOf(x, dated) /\ SameMarksOf(x, dated)
        /\ SameDecisionOf(x, dated) /\ SamePlaceOf(x, dated)
      BY <1>1, <1>3, ExpiryKept DEF SameChainOf, SameGateOf, SameMarksOf, SameDecisionOf, SamePlaceOf
  <1> HIDE DEF x, dated
  <1>7. RowSound(dated) /\ ~PeerShortfall(dated) /\ dated.life = "active" /\ IsNextRevision(dated, n)
      BY <1>1, <1>2, <1>3, <1>4, <1>5, SameChain, SameLabel DEF IsNextRevision
  <1>8. /\ RowSound(appended) /\ ~PeerShortfall(appended) /\ appended.life = "active"
        /\ appended.head = n /\ appended.revision # n
      BY <1>3, <1>5, <1>7, AppendPendingRow
  <1>9. /\ RowGood(appended) /\ History(dated, appended) /\ SameGateOf(dated, appended)
        /\ SameMarksOf(dated, appended) /\ SameDecisionOf(dated, appended)
        /\ appended.revision = dated.revision /\ appended.state[n] = "pending" /\ appended.author[n] = p
      BY <1>6, <1>7, AppendPendingKept
  <1> HIDE DEF appended
  <1>10. appended \in Row
      BY <1>8 DEF RowSound
  <1>11. q \in BOOLEAN /\ (appended.quarantine => q)
      BY <1>1, <1>10 DEF Row
  <1>12. appended.core => ~q
      <2>1. ~(x.core /\ x.quarantine) /\ appended.core = x.core /\ appended.quarantine = x.quarantine
          BY <1>1, <1>6, <1>9 DEF RowGood, RowKept, MarksSound, SameMarksOf
      <2> QED BY <1>2, <2>1
  <1> HIDE DEF q
  <1>13. edited \in Row
      BY <1>10, <1>11 DEF Row
  <1>14. /\ RowGood(edited) /\ History(appended, edited) /\ MarkKept(appended, edited)
         /\ SameChainOf(appended, edited) /\ SameVotesOf(appended, edited) /\ SameGateOf(appended, edited)
         /\ SameDecisionOf(appended, edited) /\ SamePlaceOf(appended, edited)
      BY <1>8, <1>9, <1>10, <1>11, <1>12, QuarantineKept
  <1> HIDE DEF edited
  <1>15. /\ RowSound(edited) /\ ~PeerShortfall(edited) /\ edited.life = "active"
         /\ edited.head = n /\ edited.revision # n /\ edited.state[n] = "pending" /\ edited.author[n] = p
      BY <1>8, <1>9, <1>13, <1>14, SameChain, SameLabel
         DEF SameChainOf, SameVotesOf, SameGateOf, SameDecisionOf, SamePlaceOf
  <1>16. "approve" \in Verdicts /\ None \in Entries \cup {None} /\ edited.revision \in Revs
      BY <1>13 DEF Verdicts, Row
  <1>17. /\ RowSound(voted) /\ voted \in Row /\ ~PeerShortfall(voted) /\ RowGood(voted)
         /\ SameChainOf(edited, voted) /\ SameGateOf(edited, voted) /\ SameMarksOf(edited, voted)
         /\ SameDecisionOf(edited, voted) /\ SamePlaceOf(edited, voted)
      <2> DEFINE y == RecordVote(edited, n, p, "approve", None)
      <2>1. MayVote(edited, n, p, "approve") /\ edited.state[n] # "none" /\ RowKept(edited)
          BY <1>14, <1>15 DEF MayVote, RowGood
      <2>2. /\ RowSound(y) /\ y.required = edited.required /\ y.mode = edited.mode
            /\ PeerApprovers(y) = PeerApprovers(edited)
          BY <1>15, <1>16, RecordVoteRow
      <2>3. /\ RowKept(y) /\ SameChainOf(edited, y) /\ SameGateOf(edited, y) /\ SameMarksOf(edited, y)
            /\ SameDecisionOf(edited, y) /\ SamePlaceOf(edited, y) /\ y.epoch = edited.epoch
            /\ y.supersedes = edited.supersedes
            /\ \A r \in Revs : r # n => y.votes[r] = edited.votes[r]
          BY <1>13, <1>16, <2>1, VoteKept
      <2> HIDE DEF y
      <2>4. y \in Row /\ ~PeerShortfall(y)
          BY <1>15, <2>2 DEF RowSound, PeerShortfall
      <2>5. PromotionSound(y)
          BY <1>13, <1>14, <1>15, <1>16, <2>3, <2>4, SamePromotion DEF RowGood, SameChainOf, SameGateOf
      <2>6. RowGood(y)
          BY <1>14, <2>3, <2>5 DEF RowGood, IntentSound, SameGateOf
      <2>7. voted = y \/ voted = edited
          BY DEF y
      <2> QED BY <1>13, <1>14, <1>15, <2>2, <2>3, <2>4, <2>6, <2>7
             DEF SameChainOf, SameGateOf, SameMarksOf, SameDecisionOf, SamePlaceOf
  <1> HIDE DEF voted
  <1>18. k \in Nat \ {0} /\ gated = SetRequiredVerifications(voted, k)
      BY <1>1, <1>17, RegateBound DEF Regate
  <1>19. /\ RowGood(gated) /\ SameChainOf(voted, gated) /\ SameMarksOf(voted, gated)
         /\ SameDecisionOf(voted, gated) /\ SamePlaceOf(voted, gated) /\ gated.source = voted.source
         /\ (p # Anonymous /\ voted.source = Anonymous /\ settings.multi /\ settings.threshold > 1)
               => gated.required > 1
      BY <1>1, <1>17, RegateKept DEF RowGood
  <1> HIDE DEF k, gated
  <1>20. RowSound(gated) /\ ~PeerShortfall(gated) /\ gated \in Row
      BY <1>2, <1>17, <1>18, GateRow DEF RowSound
  <1>21. /\ gated.life = "active" /\ gated.head = n /\ gated.revision # n /\ SameChainOf(edited, gated)
         /\ SameDecisionOf(x, gated) /\ gated.revision = x.revision
      BY <1>6, <1>9, <1>14, <1>15, <1>17, <1>19 DEF SameChainOf, SameDecisionOf, SamePlaceOf
  <1>22. History(x, gated)
      <2>1. History(x, appended)
          BY <1>6, <1>9 DEF History, SameChainOf
      <2>2. History(edited, gated)
          BY <1>13, <1>21, SameHistory
      <2>3. History(appended, gated)
          BY <1>10, <1>13, <1>14, <1>20, <2>2, HistoryTrans
      <2> QED BY <1>1, <1>10, <1>20, <2>1, <2>3, HistoryTrans
  <1>23. MarkKept(x, gated)
      <2>1. x.quarantine => gated.quarantine
          BY <1>6, <1>9, <1>14, <1>17, <1>19, <1>21 DEF SameMarksOf, MarkKept, SamePlaceOf
      <2> QED BY <1>3, <1>21, <2>1 DEF MarkKept
  <1>24. /\ TableGood(mem') /\ Others(mem, mem', e) /\ History(gated, mem'[e]) /\ mem'[e].life = "active"
         /\ SameGateOf(gated, mem'[e])
         /\ \/ mem'[e].promoted => EarnedAt(mem'[e], mem'[e].required)
            \/ SameDecisionOf(gated, mem'[e]) /\ mem'[e].revision = gated.revision
      BY <1>1, <1>2, <1>19, <1>20, <1>21, <1>23, SettleRevisionGood DEF x
  <1>25. History(x, mem'[e])
      <2>1. mem'[e] \in Row
          BY <1>24 DEF TableGood, TableSound
      <2> QED BY <1>1, <1>20, <1>22, <1>24, <2>1, HistoryTrans
  <1>26. (/\ p # Anonymous /\ settings.multi /\ settings.threshold > 1
          /\ mem'[e].promoted /\ ~(x.promoted /\ x.revision = mem'[e].revision)
          /\ mem'[e].source = Anonymous)
         => EarnedAt(mem'[e], mem'[e].required) /\ mem'[e].required > 1
      BY <1>19, <1>21, <1>24 DEF SameGateOf, SameDecisionOf
  <1> QED BY <1>3, <1>24, <1>25, <1>26, StepFacts DEF x

\* A rewrite over HTTP is served and settled at once.
LEMMA UpdateGood ==
  ASSUME SInv, NEW e \in Entries, NEW p \in Principals, UpdateContextContent(e, p)
  PROVE  StepGood(p)
  <1>1. PICK n \in Revs :
            /\ IsNextRevision(mem[e], n)
            /\ mem' = SettleEntry(mem, e, Regate(AppendServed(mem[e], n, p), p, settings), settings)
      BY DEF UpdateContextContent
  <1>2. /\ mem[e] \in Row /\ RowSound(mem[e]) /\ RowGood(mem[e]) /\ TableGood(mem)
        /\ settings \in Settings /\ settings \in Setting
      BY SafetyFacts, RowOfGood
  <1>3. mem[e].life = "active"
      BY DEF UpdateContextContent, AcceptsRevision
  <1> DEFINE x == AppendServed(mem[e], n, p)
             y == Regate(x, p, settings)
  <1>4. RowSound(x) /\ x \in Row /\ x.life = "active"
      BY <1>1, <1>2, <1>3, AppendServedRow DEF RowSound
  <1>5. /\ RowKept(x) /\ IntentSound(x) /\ History(mem[e], x) /\ SameMarksOf(mem[e], x)
      BY <1>1, <1>2, <1>3, AppendServedKept
  <1> HIDE DEF x
  <1>6. RegatedRequirement(x, p, settings) \in Nat \ {0}
      BY <1>2, <1>4, RegateBound
  <1>7. RowSound(y) /\ y \in Row /\ y.life = "active"
      BY <1>4, <1>6, GateRow DEF Regate, RowSound
  <1>8. /\ RowKept(y) /\ IntentSound(y) /\ SameChainOf(x, y) /\ SameMarksOf(x, y) /\ y.source = x.source
        /\ (p # Anonymous /\ x.source = Anonymous /\ settings.multi /\ settings.threshold > 1)
              => y.required > 1
      BY <1>2, <1>4, <1>5, RegateKept
  <1>9. mem' = SettleEntry(mem, e, y, settings)
      BY <1>1 DEF x
  <1> HIDE DEF y
  <1>10. MarkKept(mem[e], y)
      BY <1>3, <1>5, <1>7, <1>8 DEF MarkKept, SameMarksOf
  <1>11. TableGood(mem') /\ Settles(y, mem'[e]) /\ Others(mem, mem', e)
      BY <1>2, <1>7, <1>8, <1>9, <1>10, SettleEntryGood
  <1>12. mem'[e] \in Row
      BY <1>11 DEF TableGood, TableSound
  <1>13. mem'[e].life = "active" /\ SameChainOf(x, mem'[e])
      BY <1>7, <1>8, <1>11 DEF Settles, SamePlaceOf, SameChainOf
  <1>14. History(mem[e], mem'[e])
      BY <1>2, <1>4, <1>5, <1>12, <1>13, SameHistory, HistoryTrans
  <1>15. (/\ p # Anonymous /\ settings.multi /\ settings.threshold > 1
          /\ mem'[e].promoted /\ mem'[e].source = Anonymous)
         => EarnedAt(mem'[e], mem'[e].required) /\ mem'[e].required > 1
      BY <1>8, <1>11 DEF Settles, SameGateOf
  <1> QED BY <1>3, <1>11, <1>13, <1>14, <1>15, StepFacts

\* A step that changes one row and promotes nothing.
LEMMA RowStep ==
  ASSUME SInv, NEW e \in Entries, NEW y, mem' = [mem EXCEPT ![e] = y], TableSound(mem'), RowGood(y),
         MarkKept(mem[e], y), mem[e].life # "absent" => History(mem[e], y),
         y.promoted => mem[e].promoted /\ mem[e].revision = y.revision,
         y.life = "superseded" => mem[e].life = "superseded",
         (mem[e].life \in {"retracted", "superseded", "merged"} /\ y.life = "active") =>
            ~y.promoted /\ \A r \in Revs, v \in Verdicts : Cast(y, r, v) = {},
         NEW w
  PROVE  StepGood(w)
  <1>1. TableGood(mem') /\ Others(mem, mem', e) /\ mem'[e] = y
      BY SafetyFacts, RowGoodTable
  <1> QED BY <1>1, StepFacts

\* The same for a row that keeps its place.
LEMMA PlaceStep ==
  ASSUME SInv, NEW e \in Entries, NEW y, mem' = [mem EXCEPT ![e] = y], TableSound(mem'), RowGood(y),
         MarkKept(mem[e], y), mem[e].life # "absent" => History(mem[e], y),
         SameDecisionOf(mem[e], y), y.revision = mem[e].revision, SamePlaceOf(mem[e], y), NEW w
  PROVE  StepGood(w)
  <1>1. /\ y.promoted => mem[e].promoted /\ mem[e].revision = y.revision
        /\ y.life = mem[e].life
      BY DEF SameDecisionOf, SamePlaceOf
  <1> QED BY <1>1, RowStep

\* A new expiry date, chosen or reached.
LEMMA ExpiryGood ==
  ASSUME SInv, NEW e \in Entries, NEW z \in Expiries, mem' = [mem EXCEPT ![e].expiry = z], NEW w
  PROVE  StepGood(w)
  <1> DEFINE x == mem[e]
             y == [x EXCEPT !.expiry = z]
  <1>1. x \in Row /\ RowGood(x) /\ mem \in [Entries -> Row] /\ IInv
      BY SafetyFacts, RowOfGood
  <1>2. mem' = [mem EXCEPT ![e] = y] /\ TableSound(mem')
      BY <1>1, ColumnTable
  <1>3. /\ RowGood(y) /\ (x.life # "absent" => History(x, y)) /\ MarkKept(x, y) /\ SameChainOf(x, y)
        /\ SameDecisionOf(x, y) /\ SamePlaceOf(x, y)
      BY <1>1, ExpiryKept
  <1> HIDE DEF y
  <1> QED BY <1>2, <1>3, PlaceStep DEF SameChainOf

\* A tier chosen by a human.
LEMMA TierGood ==
  ASSUME SInv, NEW e \in Entries, NEW p \in Principals, NEW b \in BOOLEAN, SetMemoryTier(e, p, b), NEW w
  PROVE  StepGood(w)
  <1> DEFINE x == mem[e]
             y == [x EXCEPT !.core = b]
  <1>1. x \in Row /\ RowGood(x) /\ mem \in [Entries -> Row] /\ IInv
      BY SafetyFacts, RowOfGood
  <1>2. x.life = "active" /\ (b => ~x.quarantine) /\ mem' = [mem EXCEPT ![e].core = b]
      BY DEF SetMemoryTier
  <1>3. mem' = [mem EXCEPT ![e] = y] /\ TableSound(mem')
      BY <1>1, <1>2, ColumnTable
  <1>4. /\ RowGood(y) /\ History(x, y) /\ MarkKept(x, y) /\ y.revision = x.revision
        /\ SameDecisionOf(x, y) /\ SamePlaceOf(x, y)
      BY <1>1, <1>2, TierKept
  <1> HIDE DEF y
  <1> QED BY <1>3, <1>4, PlaceStep

\* A text dropped by retention.
LEMMA RetentionGood ==
  ASSUME SInv, NEW e \in Entries, NEW r \in Revs, ApplyRetention(e, r), NEW w
  PROVE  StepGood(w)
  <1> DEFINE x == mem[e]
             y == DropContent(x, r)
  <1>1. x \in Row /\ RowGood(x) /\ IInv
      BY SafetyFacts, RowOfGood
  <1>2. mem' = [mem EXCEPT ![e] = y] /\ TableSound(mem')
      BY <1>1, RetentionTable DEF ApplyRetention
  <1>3. /\ RowGood(y) /\ (x.life # "absent" => History(x, y)) /\ MarkKept(x, y) /\ y.revision = x.revision
        /\ SameDecisionOf(x, y) /\ SamePlaceOf(x, y)
      BY <1>1, DropKept
  <1> HIDE DEF y
  <1> QED BY <1>2, <1>3, PlaceStep

\* An entry retired outright.
LEMMA RetireGood ==
  ASSUME SInv, NEW e \in Entries, mem[e].life = "active", NEW to \in {"archived", "retracted"},
         mem' = [mem EXCEPT ![e] = Retire(mem[e], to, None)], NEW w
  PROVE  StepGood(w)
  <1> DEFINE x == mem[e]
             y == Retire(x, to, None)
  <1>1. x \in Row /\ RowGood(x) /\ IInv
      BY SafetyFacts, RowOfGood
  <1>2. mem' = [mem EXCEPT ![e] = y] /\ TableSound(mem')
      BY <1>1, RetireTable
  <1>3. /\ RowGood(y) /\ History(x, y) /\ MarkKept(x, y) /\ SameChainOf(x, y)
        /\ SameDecisionOf(x, y) /\ y.life = to
      BY <1>1, RetireKept
  <1> HIDE DEF y
  <1>4. /\ y.promoted => x.promoted /\ x.revision = y.revision
        /\ y.life \notin {"active", "superseded"}
      BY <1>3 DEF SameDecisionOf, SameChainOf
  <1> QED BY <1>2, <1>3, <1>4, RowStep

\* A purged entry.
LEMMA PurgeGood ==
  ASSUME SInv, NEW e \in Entries, NEW p \in Principals, PurgeContext(e, p), NEW w
  PROVE  StepGood(w)
  <1> DEFINE x == mem[e]
             y == Purge(x)
  <1>1. x \in Row /\ RowGood(x) /\ IInv
      BY SafetyFacts, RowOfGood
  <1>2. mem' = [mem EXCEPT ![e] = y] /\ TableSound(mem') /\ x.life # "absent"
      BY <1>1, PurgeTable DEF PurgeContext
  <1>3. RowGood(y) /\ History(x, y) /\ MarkKept(x, y) /\ y.life = "purged" /\ ~y.promoted
      BY <1>1, <1>2, PurgeKept
  <1> HIDE DEF y
  <1> QED BY <1>2, <1>3, RowStep

\* A restored entry: unchanged from the archive, unverified from anywhere else.
LEMMA RestoreGood ==
  ASSUME SInv, NEW e \in Entries, NEW p \in Principals, RestoreContext(e, p), NEW w
  PROVE  StepGood(w)
  <1> DEFINE x == mem[e]
  <1>1. x \in Row /\ RowGood(x) /\ IInv
      BY SafetyFacts, RowOfGood
  <1>2. \/ mem' = [mem EXCEPT ![e].expiry = "none"]
        \/ x.life = "archived" /\ mem' = [mem EXCEPT ![e] = Unarchive(x)]
        \/ x.life \in {"retracted", "superseded", "merged"} /\ mem' = [mem EXCEPT ![e] = Reopen(x)]
      BY DEF RestoreContext, Transitions
  <1>3. TableSound(mem')
      BY <1>1, RestoreTable
  <1>4. CASE mem' = [mem EXCEPT ![e].expiry = "none"]
      BY <1>4, ExpiryGood DEF Expiries
  <1>5. CASE x.life = "archived" /\ mem' = [mem EXCEPT ![e] = Unarchive(x)]
      <2> DEFINE y == Unarchive(x)
      <2>1. /\ RowGood(y) /\ History(x, y) /\ MarkKept(x, y) /\ SameChainOf(x, y)
            /\ SameDecisionOf(x, y) /\ y.life = "active"
          BY <1>1, <1>5, UnarchiveKept
      <2>2. mem' = [mem EXCEPT ![e] = y]
          BY <1>5
      <2> HIDE DEF y
      <2>3. y.promoted => x.promoted /\ x.revision = y.revision
          BY <2>1 DEF SameDecisionOf, SameChainOf
      <2> QED BY <1>3, <1>5, <2>1, <2>2, <2>3, RowStep
  <1>6. CASE x.life \in {"retracted", "superseded", "merged"} /\ mem' = [mem EXCEPT ![e] = Reopen(x)]
      <2> DEFINE y == Reopen(x)
      <2>1. /\ RowGood(y) /\ History(x, y) /\ MarkKept(x, y) /\ y.life = "active" /\ ~y.promoted
            /\ \A r \in Revs, v \in Verdicts : Cast(y, r, v) = {}
          BY <1>1, <1>6, ReopenKept
      <2>2. mem' = [mem EXCEPT ![e] = y]
          BY <1>6
      <2> HIDE DEF y
      <2> QED BY <1>3, <2>1, <2>2, RowStep
  <1> QED BY <1>2, <1>4, <1>5, <1>6

\* A step that leaves the table alone.
LEMMA IdleGood ==
  ASSUME SInv, mem' = mem, NEW w
  PROVE  StepGood(w)
  <1>1. TableGood(mem')
      BY SafetyFacts
  <1>2. \A e \in Entries : mem[e] \in Row
      BY SafetyFacts
  <1>3. \A e \in Entries : mem[e].life # "absent" => History(mem[e], mem'[e])
      BY <1>2, SameHistory DEF SameChainOf
  <1>4. HistoryStep
      BY <1>3 DEF HistoryStep, History
  <1>5. RestoreStep /\ SupersedeStep /\ ~SoloRewriteStep
      BY DEF RestoreStep, SupersedeStep, SoloRewriteStep
  <1> QED BY <1>1, <1>4, <1>5 DEF StepGood

\* The empty table is good.
LEMMA InitGood == Init => SInv
  <1> SUFFICES ASSUME Init PROVE SInv
      OBVIOUS
  <1>1. mem = [e \in Entries |-> Absent] /\ settings \in Settings
      BY DEF Init
  <1>2. TableSound(mem)
      BY InitTable DEF IInv
  <1>3. \A r \in Revs, p \in Principals : Absent.votes[r][p] = NoVote
      BY DEF Absent
  <1>4. /\ Absent.life = "absent" /\ Absent.epoch = 0 /\ ~Absent.quarantine /\ Absent.required = 1
        /\ Absent.supersedes = {} /\ ~Absent.promoted /\ Absent.mode = "" /\ Absent.status = "pending"
        /\ Absent.source = Anonymous
      BY DEF Absent
  <1>5. NoVote.verdict = "none" /\ NoVote.epoch = 0
      BY DEF NoVote
  <1>6. RowKept(Absent)
      <2>1. VotesSound(Absent)
          <3> SUFFICES ASSUME NEW r \in Revs, NEW p \in Principals
                       PROVE  /\ Absent.votes[r][p].epoch <= Absent.epoch
                              /\ Absent.votes[r][p].verdict = "none"
              BY DEF VotesSound
          <3>1. Absent.votes[r][p].epoch = 0 /\ Absent.votes[r][p].verdict = "none"
              BY <1>3, <1>5
          <3>2. 0 <= 0
              OBVIOUS
          <3> QED BY <1>4, <3>1, <3>2, Zenon
      <2>2. MarksSound(Absent) /\ Absent.required \in Gates
          BY <1>4 DEF MarksSound, Gates
      <2>3. OwnersSound(Absent)
          BY <1>4 DEF OwnersSound
      <2> QED BY <2>1, <2>2, <2>3 DEF RowKept
  <1>7. RowGood(Absent)
      BY <1>4, <1>6 DEF RowGood, IntentSound, PromotionSound
  <1>8. Marked(mem)
      BY <1>1, <1>4 DEF Marked
  <1> QED BY <1>1, <1>2, <1>7, <1>8 DEF SInv, TableGood

\* What every step keeps and what it may do.
StepSafe ==
    /\ SInv'
    /\ HistoryStep
    /\ RestoreStep
    /\ OneThreshold => SupersedeStep
    /\ SoloRewriteStep => OpenModeWrite

\* Every step of the kernel, of the clock and of the operator is safe.
LEMMA StepTheorem == SInv /\ [Next]_vars => StepSafe
  <1> SUFFICES ASSUME SInv, [Next]_vars PROVE StepSafe
      OBVIOUS
  <1>1. PICK token \in {0, 1} : token # Anonymous
      OBVIOUS
  <1>2. settings' \in Settings
      BY SafetyFacts, StepTable DEF IInv
  <1>3. ASSUME NEW p, StepGood(p), p = Anonymous => OpenModeWrite PROVE StepSafe
      <2>1. SInv'
          BY <1>2, <1>3 DEF SInv, StepGood
      <2> QED BY <1>3, <2>1 DEF StepGood, StepSafe
  <1>4. ASSUME StepGood(token) PROVE StepSafe
      BY <1>1, <1>3, <1>4
  <1>5. ASSUME NEW e \in Entries, NEW p \in Principals, NEW d \in Drafts, NEW S \in SUBSET Entries,
               ProposeContext(e, p, d, S)
        PROVE  StepSafe
      BY <1>4, <1>5, ProposeGood
  <1>6. ASSUME NEW e \in Entries, NEW p \in Principals, VerifyContextOutcome(e, p) PROVE StepSafe
      BY <1>3, <1>6, VerifyGood DEF OpenModeWrite
  <1>7. ASSUME NEW e \in Entries, NEW p \in Principals, NEW d \in Edits, EditContext(e, p, d) PROVE StepSafe
      <2>1. mem[e].life = "active" /\ mem[e].head = mem[e].revision /\ d.expiry \in Expiries
          BY <1>7 DEF EditContext, AcceptsRevision, Edit
      <2>2. p = Anonymous => OpenModeWrite
          BY <1>7 DEF OpenModeWrite
      <2>3. CASE \E n \in Revs : EditContent(e, p, d, n)
          BY <1>3, <2>1, <2>2, <2>3, EditContentGood
      <2>4. CASE mem' = [mem EXCEPT ![e].expiry = d.expiry]
          BY <1>4, <2>1, <2>4, ExpiryGood
      <2> QED BY <1>7, <2>3, <2>4 DEF EditContext
  <1>8. ASSUME NEW e \in Entries, NEW p \in Principals, UpdateContextContent(e, p) PROVE StepSafe
      BY <1>3, <1>8, UpdateGood DEF OpenModeWrite
  <1>9. ASSUME NEW e \in Entries, NEW p \in Principals, RetireContext(e, p) PROVE StepSafe
      <2>1. mem[e].life = "active" /\ mem[e].revision \in Revs /\ "retract" \in Verdicts
          BY <1>9, SafetyFacts DEF RetireContext, Row, Verdicts
      <2>2. p = Anonymous => OpenModeWrite
          BY <1>9 DEF OpenModeWrite
      <2>3. CASE mem' = [mem EXCEPT ![e] = Retire(mem[e], "archived", None)]
          BY <1>4, <2>1, <2>3, RetireGood
      <2>4. CASE CastVerdict(e, p, mem[e].revision, "retract", None)
          BY <1>3, <2>1, <2>2, <2>4, CastVerdictGood
      <2> QED BY <1>9, <2>3, <2>4 DEF RetireContext
  <1>10. ASSUME NEW e \in Entries, NEW p \in Principals, RestoreContext(e, p) PROVE StepSafe
      BY <1>4, <1>10, RestoreGood
  <1>11. ASSUME NEW e \in Entries, NEW p \in Principals, RetractContext(e, p) PROVE StepSafe
      <2>1. mem[e].life = "active" /\ mem' = [mem EXCEPT ![e] = Retire(mem[e], "retracted", None)]
          BY <1>11 DEF RetractContext, Transitions
      <2> QED BY <1>4, <2>1, RetireGood
  <1>12. ASSUME NEW e \in Entries, NEW p \in Principals, PurgeContext(e, p) PROVE StepSafe
      BY <1>4, <1>12, PurgeGood
  <1>13. ASSUME NEW e \in Entries, NEW p \in Principals, NEW b \in BOOLEAN, SetMemoryTier(e, p, b)
         PROVE  StepSafe
      BY <1>4, <1>13, TierGood
  <1>14. ASSUME NEW e \in Entries, NEW r \in Revs, ApplyRetention(e, r) PROVE StepSafe
      BY <1>4, <1>14, RetentionGood
  <1>15. ASSUME NEW e \in Entries, ClockPasses(e) PROVE StepSafe
      BY <1>4, <1>15, ExpiryGood DEF ClockPasses, Expiries
  <1>16. CASE mem' = mem
      BY <1>4, <1>16, IdleGood
  <1>17. CASE ChangeSettings
      BY <1>16, <1>17 DEF ChangeSettings
  <1>18. CASE UNCHANGED vars
      BY <1>16, <1>18 DEF vars
  <1> QED
      BY <1>5, <1>6, <1>7, <1>8, <1>9, <1>10, <1>11, <1>12, <1>13, <1>14, <1>15, <1>17, <1>18 DEF Next

-----------------------------------------------------------------------------
(***************************************************************************)
(* What follows for every behaviour                                        *)
(***************************************************************************)

\* The table is good in every state the kernel reaches.
THEOREM SafetyInvariant == Spec => []SInv
  <1>1. Init => SInv
      BY InitGood
  <1>2. SInv /\ [Next]_vars => SInv'
      BY StepTheorem DEF StepSafe
  <1> QED BY <1>1, <1>2, PTL DEF Spec

\* Status, promotion and label of every memory agree, and what recall shows as verified
\* is what the votes on the served text decide (settleEntry, SetPromotion).
THEOREM PromotionTheorem == Spec => []PromotionEarned
  <1>1. SInv => PromotionEarned
      BY DEF SInv, TableGood, RowGood, PromotionSound, PromotionEarned
  <1> QED BY <1>1, SafetyInvariant, PTL

\* The survivor of a merge carries the mark of what was merged into it, until it is
\* purged, and core memory carries none (mergeOnQuorum, SetTier).
THEOREM QuarantineTheorem == Spec => []QuarantineContained
  <1>1. SInv => QuarantineContained
      BY DEF SInv, TableGood, Marked, RowGood, RowKept, MarksSound, QuarantineContained
  <1> QED BY <1>1, SafetyInvariant, PTL

\* Where the workspace counts owners, the peers that earned the label on an entry
\* proposed with a token have different owners, none of them an author's (checkOwnerDistinct).
THEOREM OwnersTheorem ==
  ASSUME OwnerMode
  PROVE  Spec => []QuorumCountsOwners
  <1>1. SInv => QuorumCountsOwners
      <2> SUFFICES ASSUME SInv, NEW e \in Entries, mem[e].required > 1, mem[e].source # Anonymous
                   PROVE  \A p \in PeerApprovers(mem[e]) :
                             /\ Owner[p] \notin {Owner[mem[e].source], Owner[mem[e].author[mem[e].revision]]}
                             /\ \A q \in PeerApprovers(mem[e]) : q # p => Owner[q] # Owner[p]
          BY DEF QuorumCountsOwners
      <2> DEFINE x == mem[e]
      <2>1. x \in Row /\ OwnersSound(x)
          BY SafetyFacts, RowOfGood DEF RowKept
      <2>2. x.revision \in Revs /\ VotersDistinct(x)
          BY <2>1 DEF Row, OwnersSound
      <2>3. PeerApprovers(x) \subseteq Voters(x, x.revision)
          BY DEF PeerApprovers, Voters
      <2> HIDE DEF x
      <2>4. \A p \in PeerApprovers(x) :
                /\ Owner[p] \notin {Owner[x.source], Owner[x.author[x.revision]]}
                /\ \A q \in PeerApprovers(x) : q # p => Owner[q] # Owner[p]
          BY <2>2, <2>3 DEF VotersDistinct
      <2> QED BY <2>4 DEF x
  <1> QED BY <1>1, SafetyInvariant, PTL

\* A revision keeps its author and base, a decided one its decision, and what is served
\* only moves forward (AppendRevision, ServeRevision).
THEOREM HistoryTheorem == Spec => HistoryImmutable
  <1>1. SInv /\ [Next]_vars => [HistoryStep]_vars
      BY StepTheorem DEF StepSafe
  <1> QED BY <1>1, SafetyInvariant, PTL DEF Spec, HistoryImmutable

\* A memory restored from retracted, superseded or merged is unverified, and no earlier
\* vote counts for or against it (Transition, vote_epoch).
THEOREM RestoreTheorem == Spec => RestoredMustReverify
  <1>1. SInv /\ [Next]_vars => [RestoreStep]_vars
      BY StepTheorem DEF StepSafe
  <1> QED BY <1>1, SafetyInvariant, PTL DEF Spec, RestoredMustReverify

\* While the threshold does not change, what replaces a memory was promoted at a gate at
\* least as strict as the replaced one's (ProposeContext, applySupersession).
THEOREM SupersedeTheorem ==
  ASSUME OneThreshold
  PROVE  Spec => SupersededAtItsGate
  <1>1. SInv /\ [Next]_vars => [SupersedeStep]_vars
      BY StepTheorem DEF StepSafe
  <1> QED BY <1>1, SafetyInvariant, PTL DEF Spec, SupersededAtItsGate

\* Where the workspace asks for peers, no write with a token promotes a rewrite of
\* open-mode memory on its author's approval alone (regatedRequirement).
THEOREM SoloTheorem == Spec => NoSoloRewrite
  <1>1. SInv /\ [Next]_vars => [SoloRewriteStep => OpenModeWrite]_vars
      BY StepTheorem DEF StepSafe
  <1> QED BY <1>1, SafetyInvariant, PTL DEF Spec, NoSoloRewrite
=============================================================================
