------------------------- MODULE MemoryKernelProofs -------------------------
(***************************************************************************)
(* The safety of the memory kernel for any number of entries, principals,  *)
(* revisions and vote epochs, and any roles, owners and settings.          *)
(*                                                                         *)
(* The inductive invariant is a property of the entries table: its rows    *)
(* are sound one by one, none is over-labelled, and their forwarding       *)
(* pointers form no loop.  The lemmas go from the store's operations on    *)
(* rows, through the settling of the whole table, to the kernel's actions. *)
(***************************************************************************)
EXTENDS MemoryKernel, FiniteSetTheorems, TLAPS

\* The revision chain of one row, as RevisionsSound states it, and that only a
\* revision the row has can have lost its text.
ChainSound(x) ==
    /\ \A r \in x.dropped : x.state[r] # "none"
    /\ x.life # "absent" =>
          /\ x.state[x.revision] = "accepted"
          /\ x.head # x.revision => x.state[x.head] = "pending"
          /\ \A r \in Revs : x.state[r] = "pending" =>
                r = x.head /\ r > x.revision /\ x.base[r] = x.revision
          /\ IF x.life = "purged"
             THEN \A r \in Revs : x.state[r] # "none" => r \in x.dropped /\ x.state[r] # "pending"
             ELSE x.dropped \cap {x.revision, x.head} = {}

\* A row is well typed, its chain is sound, and unless it was retired it forwards nowhere.
RowSound(x) ==
    /\ x \in Row
    /\ ChainSound(x)
    /\ x.life \in {"absent", "active"} => x.fwd = None

\* No loop of forwarding pointers in table m.
Acyclic(m) == \A S \in (SUBSET Entries) \ {{}} : \E e \in S : m[e].fwd \notin S

\* The inductive invariant of the table.
TableSound(m) ==
    /\ m \in [Entries -> Row]
    /\ \A e \in Entries : RowSound(m[e]) /\ ~PeerShortfall(m[e])
    /\ Acyclic(m)

IInv == TableSound(mem) /\ settings \in Settings

USE StoreAssumption, KernelAssumption

-----------------------------------------------------------------------------
(***************************************************************************)
(* The store's operations keep rows sound                                  *)
(***************************************************************************)

\* The row of an id that was never used.
LEMMA AbsentRow == RowSound(Absent) /\ ~PeerShortfall(Absent)
  <1>1. Absent \in Row
      BY DEF Absent, Row, Revs, NoVote, Vote, Lifecycles, Statuses, Modes, RevStates, Verdicts, Expiries
  <1>2. ChainSound(Absent)
      BY DEF ChainSound, Absent
  <1> QED BY <1>1, <1>2 DEF RowSound, PeerShortfall, Absent

\* RecordVote changes nothing but the votes.
LEMMA RecordVoteRow ==
  ASSUME NEW x, RowSound(x), NEW r \in Revs, NEW p \in Principals, NEW v \in Verdicts,
         NEW t \in Entries \cup {None}
  PROVE  LET y == RecordVote(x, r, p, v, t) IN
         /\ RowSound(y)
         /\ y.life = x.life
         /\ y.fwd = x.fwd
         /\ y.revision = x.revision
         /\ y.state = x.state
         /\ y.head = x.head
         /\ y.required = x.required
         /\ r # x.revision => PeerApprovers(y) = PeerApprovers(x) /\ y.mode = x.mode
  <1> DEFINE y == RecordVote(x, r, p, v, t)
  <1>1. x \in Row
      BY DEF RowSound
  <1>2. [verdict |-> v, target |-> t, epoch |-> x.epoch] \in Vote
      BY <1>1 DEF Vote, Row
  <1>3. [x.votes EXCEPT ![r][p] = [verdict |-> v, target |-> t, epoch |-> x.epoch]]
            \in [Revs -> [Principals -> Vote]]
      BY <1>1, <1>2 DEF Row
  <1>4. y = [x EXCEPT !.votes = [x.votes EXCEPT ![r][p] = [verdict |-> v, target |-> t, epoch |-> x.epoch]]]
      BY <1>1 DEF RecordVote, Row
  <1>5. y \in Row
      BY <1>1, <1>3, <1>4 DEF Row
  <1>6. /\ y.life = x.life /\ y.fwd = x.fwd /\ y.revision = x.revision /\ y.state = x.state
        /\ y.head = x.head /\ y.required = x.required /\ y.mode = x.mode /\ y.base = x.base
        /\ y.dropped = x.dropped /\ y.epoch = x.epoch /\ y.source = x.source /\ y.author = x.author
      BY <1>1, <1>4 DEF Row
  <1>7. RowSound(y)
      BY <1>5, <1>6 DEF RowSound, ChainSound
  <1>8. r # x.revision => y.votes[x.revision] = x.votes[x.revision]
      BY <1>1, <1>4 DEF Row
  <1>9. r # x.revision => PeerApprovers(y) = PeerApprovers(x)
      BY <1>6, <1>8 DEF PeerApprovers, Cast
  <1> HIDE DEF y
  <1>10. QED BY <1>6, <1>7, <1>9 DEF y

\* SetRequiredVerifications changes nothing but the gate, and what the trigger lets
\* through is not over-labelled.
LEMMA GateRow ==
  ASSUME NEW x, RowSound(x), NEW n \in Nat \ {0}
  PROVE  LET y == SetRequiredVerifications(x, n) IN
         /\ RowSound(y)
         /\ y.life = x.life
         /\ y.fwd = x.fwd
         /\ y.revision = x.revision
         /\ y.state = x.state
         /\ y.head = x.head
         /\ (~PeerShortfall(x) /\ ~GateRefused(x, n)) => ~PeerShortfall(y)
  <1> DEFINE y == SetRequiredVerifications(x, n)
  <1>1. x \in Row
      BY DEF RowSound
  <1>2. y \in Row
      BY <1>1 DEF Row, SetRequiredVerifications
  <1>3. /\ y.life = x.life /\ y.fwd = x.fwd /\ y.revision = x.revision /\ y.state = x.state
        /\ y.head = x.head /\ y.base = x.base /\ y.dropped = x.dropped
      BY <1>1 DEF Row, SetRequiredVerifications
  <1>4. RowSound(y)
      BY <1>2, <1>3 DEF RowSound, ChainSound
  <1>5. n = x.required => y = x
      BY <1>1 DEF Row, SetRequiredVerifications
  <1>6. n # x.required => (GateRefused(x, n) <=> PeerShortfall(y))
      BY DEF GateRefused, SetRequiredVerifications
  <1> HIDE DEF y
  <1> QED BY <1>3, <1>4, <1>5, <1>6 DEF y

\* The peers that earn the label are at least as many as the gate asks for.
LEMMA PeersNeededBound ==
  ASSUME NEW n \in Nat \ {0}, NEW k \in Nat
  PROVE  PeersNeeded(n, k) \in Nat /\ PeersNeeded(n, k) >= n
  BY DEF PeersNeeded

\* Votes are counted in natural numbers.
LEMMA PeersCounted ==
  ASSUME NEW x
  PROVE  Cardinality(PeerApprovers(x)) \in Nat
  <1>1. PeerApprovers(x) \subseteq Principals
      BY DEF PeerApprovers, Cast
  <1> QED BY <1>1, FS_Subset, FS_CardinalityType

\* Settling decides status, promotion and label only, and never over-labels.
LEMMA SettledRow ==
  ASSUME NEW x, RowSound(x), NEW s \in Setting
  PROVE  LET y == Settled(x, s) IN
         /\ RowSound(y)
         /\ y.life = x.life
         /\ y.fwd = x.fwd
         /\ ~PeerShortfall(y)
  <1> DEFINE y == Settled(x, s)
             status == Reconcile(x, x.revision)
             mode == IF status = "verified" THEN VerificationMode(x, s.threshold) ELSE ""
  <1>1. x \in Row
      BY DEF RowSound
  <1>2. status \in Statuses /\ mode \in Modes
      BY DEF Reconcile, Statuses, VerificationMode, Modes
  <1>3. y = [x EXCEPT !.status = status, !.promoted = (status = "verified"), !.mode = mode]
      BY DEF Settled, SetPromotion
  <1> HIDE DEF y, status, mode
  <1>4. y \in Row
      BY <1>1, <1>2, <1>3 DEF Row
  <1>5. /\ y.life = x.life /\ y.fwd = x.fwd /\ y.revision = x.revision /\ y.state = x.state
        /\ y.head = x.head /\ y.base = x.base /\ y.dropped = x.dropped /\ y.required = x.required
        /\ y.votes = x.votes /\ y.epoch = x.epoch /\ y.source = x.source /\ y.author = x.author
        /\ y.mode = mode
      BY <1>1, <1>3 DEF Row
  <1>6. RowSound(y)
      BY <1>4, <1>5 DEF RowSound, ChainSound
  <1>7. PeerApprovers(y) = PeerApprovers(x)
      BY <1>5 DEF PeerApprovers, Cast
  <1>8. mode = "peer_verified" => Cardinality(PeerApprovers(x)) >= PeersNeeded(x.required, s.threshold)
      BY DEF mode, VerificationMode
  <1>9. x.required \in Nat \ {0} /\ s.threshold \in Nat
      BY <1>1 DEF Row, Setting, Threshold
  <1>10. ~PeerShortfall(y)
      BY <1>5, <1>7, <1>8, <1>9, PeersNeededBound, PeersCounted DEF PeerShortfall
  <1> QED BY <1>5, <1>6, <1>10 DEF y

\* A new entry is active, served and without a label.
LEMMA InsertRow ==
  ASSUME NEW p \in Principals, NEW d \in Draft, NEW n \in Nat \ {0}, NEW b \in BOOLEAN,
         NEW S \in SUBSET Entries
  PROVE  LET y == InsertEntry(p, d, n, b, S) IN
         /\ RowSound(y)
         /\ y.life = "active"
  <1> DEFINE y == InsertEntry(p, d, n, b, S)
             state == [Absent.state EXCEPT ![1] = "accepted"]
             author == [Absent.author EXCEPT ![1] = p]
  <1>1. 1 \in Revs
      BY DEF Revs
  <1>2. state \in [Revs -> RevStates] /\ author \in [Revs -> Principals]
      BY <1>1 DEF Absent, RevStates
  <1>3. y = [Absent EXCEPT !.life = "active", !.source = p, !.required = n, !.peersOnly = b,
                           !.readonly = d.readonly, !.state = state, !.author = author,
                           !.supersedes = S, !.core = d.core, !.quarantine = d.quarantine,
                           !.expiry = d.expiry]
      BY DEF InsertEntry, Absent
  <1>4. /\ y.life = "active" /\ y.revision = 1 /\ y.head = 1 /\ y.state = state
        /\ y.dropped = {} /\ y.fwd = None
      BY <1>3 DEF Absent
  <1>5. Absent \in Row
      BY AbsentRow DEF RowSound
  <1> HIDE DEF y
  <1>6. d.readonly \in BOOLEAN /\ d.core \in BOOLEAN /\ d.quarantine \in BOOLEAN /\ d.expiry \in Expiries
      BY DEF Draft
  <1>7. y \in Row
      <2> HIDE DEF state, author
      <2> QED BY <1>2, <1>3, <1>5, <1>6 DEF Row, Lifecycles
  <1>8. \A r \in Revs : state[r] = IF r = 1 THEN "accepted" ELSE "none"
      BY DEF Absent
  <1> HIDE DEF state
  <1>9. ChainSound(y)
      BY <1>1, <1>4, <1>8 DEF ChainSound
  <1> QED BY <1>4, <1>7, <1>9 DEF RowSound, y

\* Whether a row is over-labelled depends on its gate, its label and its votes only.
LEMMA SameLabel ==
  ASSUME NEW x, NEW y, y.mode = x.mode, y.required = x.required, y.votes = x.votes,
         y.epoch = x.epoch, y.source = x.source, y.author = x.author, y.revision = x.revision
  PROVE  PeerShortfall(y) <=> PeerShortfall(x)
  <1>1. PeerApprovers(y) = PeerApprovers(x)
      BY DEF PeerApprovers, Cast
  <1> QED BY <1>1 DEF PeerShortfall

\* Leaving recall keeps the chain and the label.
LEMMA LeaveRow ==
  ASSUME NEW x, RowSound(x), ~PeerShortfall(x), x.life = "active", NEW y \in Row,
         y.life \notin {"absent", "active", "purged"}, y.mode = x.mode, y.required = x.required,
         y.votes = x.votes, y.epoch = x.epoch, y.source = x.source, y.author = x.author,
         y.revision = x.revision, y.head = x.head, y.state = x.state, y.base = x.base,
         y.dropped = x.dropped
  PROVE  RowSound(y) /\ ~PeerShortfall(y)
  <1>1. ChainSound(y)
      BY DEF RowSound, ChainSound
  <1>2. ~PeerShortfall(y)
      BY SameLabel
  <1> QED BY <1>1, <1>2 DEF RowSound

\* Retire leaves a pointer only where it merges.
LEMMA RetireRow ==
  ASSUME NEW x, RowSound(x), ~PeerShortfall(x), x.life = "active",
         NEW to \in {"archived", "retracted", "merged"}, NEW t \in Entries \cup {None}
  PROVE  LET y == Retire(x, to, t) IN
         /\ RowSound(y)
         /\ ~PeerShortfall(y)
         /\ y.fwd = IF to = "merged" THEN t ELSE None
  <1> DEFINE y == Retire(x, to, t)
             fwd == IF to = "merged" THEN t ELSE None
  <1>1. x \in Row /\ x.fwd = None
      BY DEF RowSound
  <1>2. y = [x EXCEPT !.life = to, !.fwd = fwd]
      BY <1>1 DEF Retire, Row
  <1>3. fwd \in Entries \cup {None}
      OBVIOUS
  <1> HIDE DEF y, fwd
  <1>4. y \in Row
      BY <1>1, <1>2, <1>3 DEF Row, Lifecycles
  <1>5. /\ y.life = to /\ y.fwd = fwd /\ y.revision = x.revision /\ y.state = x.state
        /\ y.head = x.head /\ y.base = x.base /\ y.dropped = x.dropped /\ y.required = x.required
        /\ y.votes = x.votes /\ y.epoch = x.epoch /\ y.source = x.source /\ y.author = x.author
        /\ y.mode = x.mode
      BY <1>1, <1>2 DEF Row
  <1>6. RowSound(y) /\ ~PeerShortfall(y)
      BY <1>4, <1>5, LeaveRow
  <1> QED BY <1>5, <1>6 DEF y, fwd

\* Supersede leaves a pointer to the newer entry.
LEMMA SupersedeRow ==
  ASSUME NEW x, RowSound(x), ~PeerShortfall(x), x.life = "active", NEW t \in Entries
  PROVE  RowSound(Supersede(x, t)) /\ ~PeerShortfall(Supersede(x, t)) /\ Supersede(x, t).fwd = t
  <1> DEFINE y == Supersede(x, t)
  <1>1. x \in Row
      BY DEF RowSound
  <1>2. y \in Row
      BY <1>1 DEF Supersede, Row, Lifecycles
  <1>3. /\ y.life = "superseded" /\ y.fwd = t /\ y.revision = x.revision /\ y.state = x.state
        /\ y.head = x.head /\ y.base = x.base /\ y.dropped = x.dropped /\ y.required = x.required
        /\ y.votes = x.votes /\ y.epoch = x.epoch /\ y.source = x.source /\ y.author = x.author
        /\ y.mode = x.mode
      BY <1>1 DEF Supersede, Row
  <1> HIDE DEF y
  <1>4. RowSound(y) /\ ~PeerShortfall(y)
      BY <1>2, <1>3, LeaveRow
  <1> QED BY <1>3, <1>4 DEF y

\* Coming back from the archive keeps the chain and the label.
LEMMA UnarchiveRow ==
  ASSUME NEW x, RowSound(x), ~PeerShortfall(x), x.life = "archived"
  PROVE  RowSound(Unarchive(x)) /\ ~PeerShortfall(Unarchive(x)) /\ Unarchive(x).fwd = None
  <1> DEFINE y == Unarchive(x)
  <1>1. x \in Row
      BY DEF RowSound
  <1>2. y \in Row
      BY <1>1 DEF Row, Lifecycles, Unarchive
  <1>3. /\ y.life = "active" /\ y.fwd = None /\ y.revision = x.revision /\ y.state = x.state
        /\ y.head = x.head /\ y.base = x.base /\ y.dropped = x.dropped /\ y.required = x.required
        /\ y.votes = x.votes /\ y.epoch = x.epoch /\ y.source = x.source /\ y.author = x.author
        /\ y.mode = x.mode
      BY <1>1 DEF Row, Unarchive
  <1> HIDE DEF y
  <1>4. ChainSound(y)
      BY <1>3 DEF RowSound, ChainSound
  <1>5. ~PeerShortfall(y)
      BY <1>3, SameLabel
  <1> QED BY <1>2, <1>3, <1>4, <1>5 DEF RowSound, y

\* Coming back from anywhere else drops the label.
LEMMA ReopenRow ==
  ASSUME NEW x, RowSound(x), x.life \in {"retracted", "superseded", "merged"}
  PROVE  RowSound(Reopen(x)) /\ ~PeerShortfall(Reopen(x)) /\ Reopen(x).fwd = None
  <1> DEFINE y == Reopen(x)
             status == IF x.status = "verified" THEN "pending" ELSE x.status
  <1>1. x \in Row
      BY DEF RowSound
  <1>2. status \in Statuses /\ x.epoch + 1 \in Nat
      BY <1>1 DEF Row, Statuses
  <1>3. y = [x EXCEPT !.life = "active", !.fwd = None, !.promoted = FALSE, !.mode = "",
                      !.status = status, !.epoch = x.epoch + 1]
      BY <1>1 DEF Reopen, Row
  <1> HIDE DEF status, y
  <1>4. y \in Row
      BY <1>1, <1>2, <1>3 DEF Row, Lifecycles, Modes
  <1>5. /\ y.life = "active" /\ y.fwd = None /\ y.revision = x.revision /\ y.state = x.state
        /\ y.head = x.head /\ y.base = x.base /\ y.dropped = x.dropped /\ y.mode = ""
      BY <1>1, <1>3 DEF Row
  <1>6. ChainSound(y)
      BY <1>5 DEF RowSound, ChainSound
  <1> QED BY <1>4, <1>5, <1>6 DEF RowSound, PeerShortfall, y

\* A purged row keeps its chain without texts.
LEMMA PurgeRow ==
  ASSUME NEW x, RowSound(x), x.life # "absent"
  PROVE  RowSound(Purge(x)) /\ ~PeerShortfall(Purge(x)) /\ Purge(x).fwd = x.fwd
  <1> DEFINE y == Purge(x)
             status == IF x.status = "verified" THEN "pending" ELSE x.status
             dropped == {r \in Revs : x.state[r] # "none"}
             state == [r \in Revs |-> IF x.state[r] = "pending" THEN "withdrawn" ELSE x.state[r]]
  <1>1. x \in Row
      BY DEF RowSound
  <1>2. status \in Statuses /\ state \in [Revs -> RevStates] /\ dropped \in SUBSET Revs /\ {} \in SUBSET Entries
      BY <1>1 DEF Row, Statuses, RevStates
  <1>3. y = [x EXCEPT !.life = "purged", !.promoted = FALSE, !.mode = "", !.status = status,
                      !.head = x.revision, !.dropped = dropped, !.state = state,
                      !.supersedes = {}, !.quarantine = FALSE]
      BY <1>1 DEF Purge, Row
  <1>4. \A r \in Revs : state[r] # "pending" /\ (state[r] # "none" <=> r \in dropped)
      BY DEF state
  <1>5. x.state[x.revision] = "accepted" => state[x.revision] = "accepted"
      BY <1>1 DEF Row
  <1> HIDE DEF status, state, dropped, y
  <1>6. y \in Row
      BY <1>1, <1>2, <1>3 DEF Row, Lifecycles, Modes
  <1>7. /\ y.life = "purged" /\ y.fwd = x.fwd /\ y.revision = x.revision /\ y.state = state
        /\ y.head = x.revision /\ y.dropped = dropped /\ y.mode = ""
      BY <1>1, <1>3 DEF Row
  <1>8. ChainSound(y)
      BY <1>2, <1>4, <1>5, <1>7 DEF RowSound, ChainSound
  <1> QED BY <1>6, <1>7, <1>8 DEF RowSound, PeerShortfall, y

\* Retention drops a text that nothing serves and nothing waits for.
LEMMA DropRow ==
  ASSUME NEW x, RowSound(x), ~PeerShortfall(x), NEW r \in Revs, Droppable(x, r)
  PROVE  RowSound(DropContent(x, r)) /\ ~PeerShortfall(DropContent(x, r)) /\ DropContent(x, r).fwd = x.fwd
  <1> DEFINE y == DropContent(x, r)
  <1>1. x \in Row
      BY DEF RowSound
  <1>2. y \in Row
      BY <1>1 DEF Row, DropContent
  <1>3. /\ y.life = x.life /\ y.fwd = x.fwd /\ y.revision = x.revision /\ y.state = x.state
        /\ y.head = x.head /\ y.base = x.base /\ y.dropped = x.dropped \cup {r} /\ y.required = x.required
        /\ y.votes = x.votes /\ y.epoch = x.epoch /\ y.source = x.source /\ y.author = x.author
        /\ y.mode = x.mode
      BY <1>1 DEF Row, DropContent
  <1> HIDE DEF y
  <1>4. ChainSound(y)
      BY <1>3 DEF RowSound, ChainSound, Droppable
  <1>5. ~PeerShortfall(y)
      BY <1>3, SameLabel
  <1> QED BY <1>2, <1>3, <1>4, <1>5 DEF RowSound, y

\* Columns other than the chain, the lifecycle and the pointers do not matter to soundness.
LEMMA SameChain ==
  ASSUME NEW x, RowSound(x), NEW y \in Row, y.life = x.life, y.fwd = x.fwd, y.revision = x.revision,
         y.state = x.state, y.head = x.head, y.base = x.base, y.dropped = x.dropped
  PROVE  RowSound(y)
  BY DEF RowSound, ChainSound

\* The number of a new revision is free, and above every other.
LEMMA NextRevision ==
  ASSUME NEW x, RowSound(x), x.life = "active", NEW n \in Revs, IsNextRevision(x, n)
  PROVE  /\ x.state[n] = "none"
         /\ n > x.revision
         /\ n > x.head
         /\ n \notin x.dropped
  <1>1. x.revision \in Revs /\ x.head \in Revs /\ x.dropped \subseteq Revs
      BY DEF RowSound, Row
  <1>2. x.state[x.revision] # "none" /\ x.state[x.head] # "none"
      BY DEF RowSound, ChainSound
  <1>3. \A r \in Revs : x.state[r] # "none" => r < n
      BY DEF IsNextRevision
  <1>4. x.state[n] = "none"
      BY <1>3 DEF Revs
  <1> QED BY <1>1, <1>2, <1>3, <1>4 DEF RowSound, ChainSound

\* A pending revision becomes the head of an entry whose head was served; the label,
\* which is the served revision's, stands.
LEMMA AppendPendingRow ==
  ASSUME NEW x, RowSound(x), ~PeerShortfall(x), x.life = "active", x.head = x.revision,
         NEW p \in Principals, NEW n \in Revs, IsNextRevision(x, n)
  PROVE  LET y == AppendPending(x, n, p) IN
         /\ RowSound(y)
         /\ ~PeerShortfall(y)
         /\ y.life = "active"
         /\ y.head = n
         /\ y.revision # n
  <1> DEFINE y == AppendPending(x, n, p)
             state == [x.state EXCEPT ![n] = "pending"]
             author == [x.author EXCEPT ![n] = p]
             base == [x.base EXCEPT ![n] = x.head]
  <1>1. x \in Row
      BY DEF RowSound
  <1>2. /\ state \in [Revs -> RevStates]
        /\ author \in [Revs -> Principals]
        /\ base \in [Revs -> 0 .. MaxRev]
      BY <1>1 DEF Row, RevStates, Revs
  <1>3. y = [x EXCEPT !.state = state, !.author = author, !.base = base, !.head = n]
      BY <1>1 DEF AppendPending, Row
  <1>4. /\ \A r \in Revs : state[r] = IF r = n THEN "pending" ELSE x.state[r]
        /\ \A r \in Revs : base[r] = IF r = n THEN x.head ELSE x.base[r]
        /\ \A r \in Revs : r # n => author[r] = x.author[r]
      BY <1>1 DEF Row
  <1> HIDE DEF state, author, base, y
  <1>5. y \in Row
      BY <1>1, <1>2, <1>3 DEF Row
  <1>6. /\ y.life = x.life /\ y.fwd = x.fwd /\ y.revision = x.revision /\ y.state = state
        /\ y.head = n /\ y.base = base /\ y.dropped = x.dropped /\ y.required = x.required
        /\ y.votes = x.votes /\ y.epoch = x.epoch /\ y.source = x.source /\ y.author = author
        /\ y.mode = x.mode
      BY <1>1, <1>3 DEF Row
  <1>7. x.state[n] = "none" /\ n > x.revision /\ n \notin x.dropped
      BY NextRevision
  <1>8. x.revision \in Revs /\ n # x.revision
      BY <1>1, <1>7 DEF Row, Revs
  <1>9. ChainSound(x)
      BY DEF RowSound
  <1>10. x.dropped \subseteq Revs
      BY <1>1 DEF Row
  <1>11. ChainSound(y)
      <2>1. \A r \in y.dropped : y.state[r] # "none"
          BY <1>4, <1>6, <1>7, <1>9, <1>10 DEF ChainSound
      <2>2. y.state[y.revision] = "accepted" /\ y.state[y.head] = "pending"
          BY <1>4, <1>6, <1>8, <1>9 DEF ChainSound
      <2>3. ASSUME NEW r \in Revs, y.state[r] = "pending"
            PROVE  r = y.head /\ r > y.revision /\ y.base[r] = y.revision
          <3>1. r = n
              BY <1>4, <1>6, <1>8, <1>9, <2>3 DEF ChainSound, Revs
          <3> QED BY <1>4, <1>6, <1>7, <3>1
      <2>4. y.dropped \cap {y.revision, y.head} = {}
          BY <1>6, <1>7, <1>9 DEF ChainSound
      <2> QED BY <1>6, <2>1, <2>2, <2>3, <2>4 DEF ChainSound
  <1>12. PeerApprovers(y) = PeerApprovers(x)
      BY <1>4, <1>6, <1>8 DEF PeerApprovers, Cast
  <1>13. ~PeerShortfall(y)
      BY <1>6, <1>12 DEF PeerShortfall
  <1>14. RowSound(y)
      BY <1>5, <1>6, <1>11 DEF RowSound
  <1> QED BY <1>6, <1>8, <1>13, <1>14 DEF y

\* Serving an accepted revision above the served one that nothing pending is above.
LEMMA ServeRow ==
  ASSUME NEW x \in Row, x.life = "active", x.fwd = None, NEW r \in Revs,
         x.state[r] = "accepted", r >= x.head,
         \A q \in Revs : x.state[q] = "pending" => q < r,
         r \notin x.dropped, \A q \in x.dropped : x.state[q] # "none"
  PROVE  LET y == ServeRevision(x, r) IN
         /\ RowSound(y)
         /\ y.life = "active"
  <1> DEFINE y == ServeRevision(x, r)
             state == [q \in Revs |-> IF x.state[q] = "pending" /\ q < r THEN "withdrawn" ELSE x.state[q]]
  <1>1. state \in [Revs -> RevStates]
      BY DEF Row, RevStates
  <1>2. y = [x EXCEPT !.revision = r, !.head = r, !.status = "pending",
                      !.promoted = FALSE, !.mode = "", !.state = state]
      <2>1. (IF r > x.head THEN r ELSE x.head) = r
          BY DEF Row, Revs
      <2> QED BY <2>1 DEF ServeRevision, Row
  <1>3. /\ state[r] = "accepted"
        /\ \A q \in Revs : state[q] # "pending" /\ (state[q] = "none" <=> x.state[q] = "none")
      OBVIOUS
  <1> HIDE DEF state, y
  <1>4. y \in Row
      BY <1>1, <1>2 DEF Row, Statuses, Modes
  <1>5. /\ y.life = x.life /\ y.fwd = x.fwd /\ y.revision = r /\ y.state = state
        /\ y.head = r /\ y.dropped = x.dropped
      BY <1>2 DEF Row
  <1>6. x.dropped \subseteq Revs
      BY DEF Row
  <1>7. ChainSound(y)
      BY <1>3, <1>5, <1>6 DEF ChainSound
  <1> QED BY <1>4, <1>5, <1>7 DEF RowSound, y

\* A rewrite is served at once.
LEMMA AppendServedRow ==
  ASSUME NEW x, RowSound(x), x.life = "active", NEW p \in Principals, NEW n \in Revs,
         IsNextRevision(x, n)
  PROVE  LET y == AppendServed(x, n, p) IN
         /\ RowSound(y)
         /\ y.life = "active"
  <1> DEFINE state == [x.state EXCEPT ![n] = "accepted"]
             author == [x.author EXCEPT ![n] = p]
             base == [x.base EXCEPT ![n] = x.head]
             z == [x EXCEPT !.state = state, !.author = author, !.base = base]
  <1>1. x \in Row
      BY DEF RowSound
  <1>2. /\ state \in [Revs -> RevStates]
        /\ author \in [Revs -> Principals]
        /\ base \in [Revs -> 0 .. MaxRev]
      BY <1>1 DEF Row, RevStates, Revs
  <1>3. AppendServed(x, n, p) = ServeRevision(z, n)
      BY <1>1 DEF AppendServed, Row
  <1>4. \A r \in Revs : state[r] = IF r = n THEN "accepted" ELSE x.state[r]
      BY <1>1 DEF Row
  <1> HIDE DEF state, author, base
  <1>5. z \in Row
      BY <1>1, <1>2 DEF Row
  <1>6. z.life = x.life /\ z.fwd = x.fwd /\ z.state = state /\ z.head = x.head /\ z.dropped = x.dropped
      BY <1>1 DEF Row
  <1> HIDE DEF z
  <1>7. n > x.head /\ n \notin x.dropped /\ x.head \in Nat /\ n \in Nat
      BY <1>1, NextRevision DEF Row, Revs
  <1>8. \A r \in Revs : x.state[r] # "none" => r < n
      BY DEF IsNextRevision
  <1>9. x.fwd = None /\ ChainSound(x) /\ x.dropped \subseteq Revs
      BY <1>1 DEF RowSound, Row
  <1>10. \A q \in z.dropped : z.state[q] # "none"
      BY <1>4, <1>6, <1>9 DEF ChainSound
  <1>11. \A q \in Revs : z.state[q] = "pending" => q < n
      BY <1>4, <1>6, <1>8
  <1>12. z.state[n] = "accepted" /\ n >= z.head /\ n \notin z.dropped
      BY <1>4, <1>6, <1>7
  <1> QED BY <1>3, <1>5, <1>6, <1>9, <1>10, <1>11, <1>12, ServeRow

\* A pending edit that won is served.
LEMMA AcceptRow ==
  ASSUME NEW x, RowSound(x), x.life = "active", x.head # x.revision
  PROVE  LET y == AcceptRevision(x, x.head) IN
         /\ RowSound(y)
         /\ y.life = "active"
  <1> DEFINE n == x.head
             state == [x.state EXCEPT ![n] = "accepted"]
             z == [x EXCEPT !.state = state]
  <1>1. x \in Row
      BY DEF RowSound
  <1>2. state \in [Revs -> RevStates]
      BY <1>1 DEF Row, RevStates
  <1>3. AcceptRevision(x, n) = ServeRevision(z, n)
      BY <1>1 DEF AcceptRevision, Row
  <1>4. \A r \in Revs : state[r] = IF r = n THEN "accepted" ELSE x.state[r]
      BY <1>1 DEF Row
  <1>5. n \in Revs
      BY <1>1 DEF Row
  <1> HIDE DEF state
  <1>6. z \in Row
      BY <1>1, <1>2 DEF Row
  <1>7. z.life = x.life /\ z.fwd = x.fwd /\ z.state = state /\ z.head = n /\ z.dropped = x.dropped
      BY <1>1 DEF Row
  <1> HIDE DEF z
  <1>8. x.fwd = None /\ ChainSound(x) /\ x.dropped \subseteq Revs
      BY <1>1 DEF RowSound, Row
  <1>9. \A q \in z.dropped : z.state[q] # "none"
      BY <1>4, <1>7, <1>8 DEF ChainSound
  <1>10. \A q \in Revs : z.state[q] = "pending" => q < n
      BY <1>4, <1>7, <1>8 DEF ChainSound
  <1>11. z.state[n] = "accepted" /\ n >= z.head /\ n \notin z.dropped
      BY <1>4, <1>5, <1>7, <1>8 DEF ChainSound, Revs
  <1> QED BY <1>3, <1>5, <1>6, <1>7, <1>8, <1>9, <1>10, <1>11, ServeRow

\* A pending edit that lost leaves the head where it was: on the served revision.
LEMMA RejectRow ==
  ASSUME NEW x, RowSound(x), x.life = "active", x.head # x.revision
  PROVE  LET y == RejectRevision(x, x.head) IN
         /\ RowSound(y)
         /\ y.life = "active"
  <1> DEFINE y == RejectRevision(x, x.head)
             state == [x.state EXCEPT ![x.head] = "rejected"]
  <1>1. x \in Row /\ ChainSound(x)
      BY DEF RowSound
  <1>2. \A r \in Revs : state[r] = IF r = x.head THEN "rejected" ELSE x.state[r]
      BY <1>1 DEF Row
  <1>3. \A r \in Revs : state[r] # "pending"
      BY <1>1, <1>2 DEF ChainSound
  <1>4. state \in [Revs -> RevStates]
      BY <1>1 DEF Row, RevStates
  <1> DEFINE z == [x EXCEPT !.state[x.head] = "rejected"]
  <1>5. z = [x EXCEPT !.state = state]
      BY <1>1 DEF Row
  <1> DEFINE P == {q \in Revs : z.state[q] = "pending"}
  <1>6. y = [z EXCEPT !.head = IF P = {} THEN x.revision
                               ELSE CHOOSE q \in P : \A m \in P : m <= q]
      BY DEF RejectRevision
  <1> HIDE DEF state, y, z
  <1>7. z \in Row /\ P = {}
      BY <1>1, <1>3, <1>4, <1>5 DEF Row
  <1>8. y = [x EXCEPT !.state = state, !.head = x.revision]
      <2>1. y = [z EXCEPT !.head = x.revision]
          BY <1>6, <1>7
      <2> QED BY <1>1, <1>5, <2>1 DEF Row
  <1> HIDE DEF y
  <1>9. y \in Row
      BY <1>1, <1>4, <1>8 DEF Row
  <1>10. /\ y.life = "active" /\ y.fwd = x.fwd /\ y.revision = x.revision /\ y.state = state
         /\ y.head = x.revision /\ y.dropped = x.dropped
      BY <1>1, <1>8 DEF Row
  <1>11. x.revision \in Revs /\ x.dropped \subseteq Revs
      BY <1>1 DEF Row
  <1>12. ChainSound(y)
      BY <1>1, <1>2, <1>3, <1>10, <1>11 DEF ChainSound
  <1> QED BY <1>9, <1>10, <1>12 DEF RowSound, y

-----------------------------------------------------------------------------
(***************************************************************************)
(* The kernel's settling keeps the table sound                             *)
(***************************************************************************)

\* Rows may be pointed at an entry that itself forwards nowhere.
LEMMA LinkAcyclic ==
  ASSUME NEW m, Acyclic(m), NEW m2, NEW e \in Entries, m2[e].fwd = None,
         \A f \in Entries : m2[f].fwd \in {m[f].fwd, e, None}
  PROVE  Acyclic(m2)
  <1> SUFFICES ASSUME NEW S \in SUBSET Entries, S # {} PROVE \E f \in S : m2[f].fwd \notin S
      BY DEF Acyclic
  <1>1. CASE e \in S
      BY <1>1
  <1>2. CASE e \notin S
      <2>1. PICK f \in S : m[f].fwd \notin S
          BY DEF Acyclic
      <2> QED BY <1>2, <2>1
  <1> QED BY <1>1, <1>2

\* One row may be replaced by a sound one that forwards no further.
LEMMA RowTable ==
  ASSUME NEW m, TableSound(m), NEW e \in Entries, NEW y, RowSound(y), ~PeerShortfall(y),
         y.fwd \in {m[e].fwd, None}
  PROVE  TableSound([m EXCEPT ![e] = y])
  <1> DEFINE m2 == [m EXCEPT ![e] = y]
  <1>1. y \in Row
      BY DEF RowSound
  <1>2. m \in [Entries -> Row]
      BY DEF TableSound
  <1>3. m2 \in [Entries -> Row] /\ \A f \in Entries : m2[f] = IF f = e THEN y ELSE m[f]
      BY <1>1, <1>2
  <1> HIDE DEF m2
  <1>4. \A f \in Entries : RowSound(m2[f]) /\ ~PeerShortfall(m2[f])
      BY <1>3 DEF TableSound
  <1>5. ASSUME NEW S \in SUBSET Entries, S # {} PROVE \E f \in S : m2[f].fwd \notin S
      <2>1. Acyclic(m) /\ S \in (SUBSET Entries) \ {{}}
          BY <1>5 DEF TableSound
      <2>2. PICK f \in S : m[f].fwd \notin S
          BY <2>1 DEF Acyclic
      <2> QED BY <1>3, <2>2
  <1> QED BY <1>3, <1>4, <1>5 DEF TableSound, Acyclic, m2

\* Promotion points what it replaces at an active entry.
LEMMA SupersessionTable ==
  ASSUME NEW m, TableSound(m), NEW e \in Entries, m[e].life = "active"
  PROVE  /\ TableSound(ApplySupersession(m, e))
         /\ ApplySupersession(m, e)[e].life = "active"
  <1> DEFINE m2 == ApplySupersession(m, e)
             y == [m[e] EXCEPT !.supersedes = {}]
  <1>1. RowSound(m[e]) /\ m[e] \in Row /\ ~PeerShortfall(m[e])
      BY DEF TableSound, RowSound
  <1>2. y \in Row
      BY <1>1 DEF Row
  <1>3. /\ y.life = m[e].life /\ y.fwd = m[e].fwd /\ y.revision = m[e].revision /\ y.state = m[e].state
        /\ y.head = m[e].head /\ y.base = m[e].base /\ y.dropped = m[e].dropped
        /\ y.required = m[e].required /\ y.mode = m[e].mode
        /\ y.votes = m[e].votes /\ y.epoch = m[e].epoch /\ y.source = m[e].source /\ y.author = m[e].author
      BY <1>1 DEF Row
  <1>4. m[e].fwd = None
      BY <1>1 DEF RowSound
  <1> HIDE DEF y
  <1>5. RowSound(y)
      BY <1>1, <1>2, <1>3, SameChain
  <1>6. ~PeerShortfall(y)
      BY <1>1, <1>3, SameLabel
  <1>7. ASSUME NEW f \in Entries
        PROVE  m2[f] = IF f = e THEN y
                       ELSE IF f \in m[e].supersedes /\ m[f].life = "active" THEN Supersede(m[f], e)
                       ELSE m[f]
      BY DEF ApplySupersession, y
  <1>8. ASSUME NEW f \in Entries, m[f].life = "active"
        PROVE  RowSound(Supersede(m[f], e)) /\ ~PeerShortfall(Supersede(m[f], e)) /\ Supersede(m[f], e).fwd = e
      <2>1. RowSound(m[f]) /\ ~PeerShortfall(m[f])
          BY DEF TableSound
      <2> QED BY <1>8, <2>1, SupersedeRow
  <1>9. m2 = [f \in Entries |-> m2[f]]
      BY DEF ApplySupersession
  <1> HIDE DEF m2
  <1>10. \A f \in Entries : RowSound(m2[f]) /\ ~PeerShortfall(m2[f])
      BY <1>5, <1>6, <1>7, <1>8 DEF TableSound
  <1>11. m2 \in [Entries -> Row]
      BY <1>9, <1>10 DEF RowSound
  <1>12. m2[e].fwd = None /\ m2[e].life = "active"
      BY <1>3, <1>4, <1>7
  <1>13. \A f \in Entries : m2[f].fwd \in {m[f].fwd, e, None}
      BY <1>3, <1>7, <1>8
  <1>14. Acyclic(m2)
      BY <1>12, <1>13, LinkAcyclic DEF TableSound
  <1> QED BY <1>10, <1>11, <1>12, <1>14 DEF TableSound, m2

\* An active row is settled into a sound table.
LEMMA SettleEntryTable ==
  ASSUME NEW m, TableSound(m), NEW e \in Entries, NEW x, RowSound(x), x.life = "active",
         NEW s \in Setting
  PROVE  /\ TableSound(SettleEntry(m, e, x, s))
         /\ SettleEntry(m, e, x, s)[e].life = "active"
  <1> DEFINE y == Settled(x, s)
             m2 == [m EXCEPT ![e] = y]
  <1>1. RowSound(y) /\ ~PeerShortfall(y) /\ y.life = "active" /\ y.fwd = x.fwd
      BY SettledRow
  <1>2. y.fwd = None
      BY <1>1 DEF RowSound
  <1> HIDE DEF y
  <1>3. TableSound(m2)
      BY <1>1, <1>2, RowTable
  <1>4. m2[e] = y
      BY DEF TableSound
  <1>5. SettleEntry(m, e, x, s) = IF m2[e].promoted THEN ApplySupersession(m2, e) ELSE m2
      BY DEF SettleEntry, y
  <1> HIDE DEF m2
  <1> QED BY <1>1, <1>3, <1>4, <1>5, SupersessionTable

\* A row with a pending edit is settled by the votes on the edit.
LEMMA SettleRevisionTable ==
  ASSUME NEW m, TableSound(m), NEW e \in Entries, NEW x, RowSound(x), ~PeerShortfall(x),
         x.life = "active", x.head # x.revision, NEW s \in Setting
  PROVE  TableSound(SettleRevision(m, e, x, x.head, s))
  <1>1. RowSound(AcceptRevision(x, x.head)) /\ AcceptRevision(x, x.head).life = "active"
      BY AcceptRow
  <1>2. RowSound(RejectRevision(x, x.head)) /\ RejectRevision(x, x.head).life = "active"
      BY RejectRow
  <1>3. TableSound(SettleEntry(m, e, AcceptRevision(x, x.head), s))
      BY <1>1, SettleEntryTable
  <1>4. TableSound(SettleEntry(m, e, RejectRevision(x, x.head), s))
      BY <1>2, SettleEntryTable
  <1>5. x.fwd = None
      BY DEF RowSound
  <1>6. TableSound([m EXCEPT ![e] = x])
      BY <1>5, RowTable
  <1> QED BY <1>3, <1>4, <1>6 DEF SettleRevision

\* A gate is moved to a natural number above zero.
LEMMA RegateBound ==
  ASSUME NEW x, RowSound(x), NEW p, NEW s \in Setting
  PROVE  RegatedRequirement(x, p, s) \in Nat \ {0}
  BY DEF RowSound, Row, Setting, Threshold, RegatedRequirement

\* A merge points an active entry at an active one.
LEMMA MergeTable ==
  ASSUME NEW m, TableSound(m), NEW e \in Entries, NEW t \in Entries \ {e},
         m[e].life = "active", m[t].life = "active"
  PROVE  TableSound(Merged(m, e, t))
  <1> DEFINE x == m[e]
             y == Retire(x, "merged", t)
             q == m[t].quarantine \/ x.quarantine
             z == [m[t] EXCEPT !.quarantine = q]
             m2 == Merged(m, e, t)
  <1>1. RowSound(x) /\ ~PeerShortfall(x) /\ RowSound(m[t]) /\ ~PeerShortfall(m[t])
      BY DEF TableSound
  <1>2. m \in [Entries -> Row] /\ x \in Row /\ m[t] \in Row
      BY DEF TableSound
  <1>4. RowSound(y) /\ ~PeerShortfall(y) /\ y.fwd = t
      BY <1>1, RetireRow
  <1>5. q \in BOOLEAN
      BY <1>2 DEF Row
  <1> HIDE DEF q
  <1>6. z \in Row
      BY <1>2, <1>5 DEF Row
  <1>7. /\ z.life = m[t].life /\ z.fwd = m[t].fwd /\ z.revision = m[t].revision /\ z.state = m[t].state
        /\ z.head = m[t].head /\ z.base = m[t].base /\ z.dropped = m[t].dropped
        /\ z.required = m[t].required /\ z.mode = m[t].mode
        /\ z.votes = m[t].votes /\ z.epoch = m[t].epoch /\ z.source = m[t].source /\ z.author = m[t].author
      BY <1>2 DEF Row
  <1>8. \A f \in Entries : m2[f] = IF f = e THEN y ELSE IF f = t THEN z ELSE m[f]
      BY <1>2 DEF Merged, q
  <1>9. m2 = [f \in Entries |-> m2[f]]
      BY <1>2 DEF Merged
  <1> HIDE DEF x, y, z, m2
  <1>10. RowSound(z)
      BY <1>1, <1>6, <1>7, SameChain
  <1>11. ~PeerShortfall(z)
      BY <1>1, <1>7, SameLabel
  <1>12. \A f \in Entries : RowSound(m2[f]) /\ ~PeerShortfall(m2[f])
      BY <1>4, <1>8, <1>10, <1>11 DEF TableSound
  <1>13. m2 \in [Entries -> Row]
      BY <1>9, <1>12 DEF RowSound
  <1>14. m[t].fwd = None
      BY <1>1 DEF RowSound
  <1>15. m2[t].fwd = None /\ \A f \in Entries : m2[f].fwd \in {m[f].fwd, t, None}
      BY <1>4, <1>7, <1>8, <1>14
  <1>16. Acyclic(m2)
      BY <1>15, LinkAcyclic DEF TableSound
  <1> QED BY <1>12, <1>13, <1>16 DEF TableSound, m2

-----------------------------------------------------------------------------
(***************************************************************************)
(* Every action keeps the table sound                                      *)
(***************************************************************************)

\* A row of a sound table.
LEMMA RowOfTable ==
  ASSUME IInv, NEW e \in Entries
  PROVE  mem[e] \in Row /\ RowSound(mem[e]) /\ ~PeerShortfall(mem[e])
  BY DEF IInv, TableSound

\* A verdict on the served revision settles the entry and may then retract or merge it;
\* one on the pending edit settles the edit, and moves the gate of the label only where
\* the trigger lets it.
LEMMA CastVerdictTable ==
  ASSUME IInv, NEW e \in Entries, NEW p \in Principals, NEW r \in Revs, NEW v \in Verdicts,
         NEW t \in Entries \cup {None}, v = "duplicate_of" => t \in Entries \ {e},
         CastVerdict(e, p, r, v, t)
  PROVE  TableSound(mem')
  <1> DEFINE x == mem[e]
             voted == RecordVote(x, r, p, v, t)
             n == RegatedRequirement(voted, p, settings)
             gated == SetRequiredVerifications(voted, n)
             m == SettleEntry(mem, e, gated, settings)
  <1>1. RowSound(x) /\ ~PeerShortfall(x) /\ TableSound(mem)
      BY RowOfTable DEF IInv
  <1>2. settings \in Setting
      BY DEF IInv
  <1>3. gated = Regate(voted, p, settings)
      BY DEF Regate
  <1>4. /\ x.life = "active"
        /\ r # x.revision => r = x.head /\ v # "retract"
        /\ ~GateRefused(voted, n)
        /\ \/ r # x.revision /\ mem' = SettleRevision(mem, e, gated, r, settings)
           \/ r = x.revision /\ v \in {"approve", "reject"} /\ mem' = m
           \/ r = x.revision /\ v = "retract" /\ mem' = RetractOnQuorum(m, e)
           \/ /\ r = x.revision /\ v = "duplicate_of"
              /\ ~MergeRefused(m, e, t) /\ mem' = MergeOnQuorum(m, e, t)
      BY <1>3 DEF CastVerdict, TakesVotes, RegateRefused
  <1> HIDE DEF x
  <1>5. /\ RowSound(voted) /\ voted.life = "active" /\ voted.revision = x.revision
        /\ voted.head = x.head /\ voted.required = x.required
        /\ r # x.revision => PeerApprovers(voted) = PeerApprovers(x) /\ voted.mode = x.mode
      BY <1>1, <1>4, RecordVoteRow
  <1>6. r # x.revision => ~PeerShortfall(voted)
      BY <1>1, <1>5 DEF PeerShortfall
  <1> HIDE DEF voted
  <1>7. n \in Nat \ {0}
      BY <1>2, <1>5, RegateBound
  <1> HIDE DEF n
  <1>8. /\ RowSound(gated) /\ gated.life = "active" /\ gated.revision = x.revision
        /\ gated.head = x.head
        /\ r # x.revision => ~PeerShortfall(gated)
      BY <1>4, <1>5, <1>6, <1>7, GateRow
  <1> HIDE DEF gated
  <1>9. TableSound(m) /\ m[e].life = "active"
      BY <1>1, <1>2, <1>8, SettleEntryTable
  <1> HIDE DEF m
  <1>10. CASE r # x.revision /\ mem' = SettleRevision(mem, e, gated, r, settings)
      BY <1>1, <1>2, <1>4, <1>8, <1>10, SettleRevisionTable
  <1>11. CASE mem' = m
      BY <1>9, <1>11
  <1>12. CASE mem' = RetractOnQuorum(m, e)
      <2>1. RowSound(m[e]) /\ ~PeerShortfall(m[e])
          BY <1>9 DEF TableSound
      <2>2. RowSound(Retire(m[e], "retracted", None)) /\ ~PeerShortfall(Retire(m[e], "retracted", None))
          BY <1>9, <2>1, RetireRow
      <2>3. Retire(m[e], "retracted", None).fwd = None
          BY <1>9, <2>1, RetireRow
      <2>4. TableSound([m EXCEPT ![e] = Retire(m[e], "retracted", None)])
          BY <1>9, <2>2, <2>3, RowTable
      <2> QED BY <1>9, <1>12, <2>4 DEF RetractOnQuorum
  <1>13. CASE v = "duplicate_of" /\ ~MergeRefused(m, e, t) /\ mem' = MergeOnQuorum(m, e, t)
      <2>1. t \in Entries \ {e} /\ m[t].life = "active"
          BY <1>13 DEF MergeRefused, Served
      <2>2. TableSound(Merged(m, e, t))
          BY <1>9, <2>1, MergeTable
      <2> QED BY <1>9, <1>13, <2>2 DEF MergeOnQuorum
  <1> QED BY <1>4, <1>10, <1>11, <1>12, <1>13

\* A verdict asked for by name.
LEMMA VerifyTable ==
  ASSUME IInv, NEW e \in Entries, NEW p \in Principals, VerifyContextOutcome(e, p)
  PROVE  TableSound(mem')
  <1>1. PICK r \in Revs, v \in Ballots :
            \/ v # "duplicate_of" /\ CastVerdict(e, p, r, v, None)
            \/ /\ v = "duplicate_of"
               /\ \E t \in Entries \ {e} : mem[t].life # "absent" /\ CastVerdict(e, p, r, v, t)
      BY DEF VerifyContextOutcome
  <1>2. v \in Verdicts
      OBVIOUS
  <1>3. CASE v # "duplicate_of" /\ CastVerdict(e, p, r, v, None)
      BY <1>2, <1>3, CastVerdictTable
  <1>4. CASE v = "duplicate_of" /\ \E t \in Entries \ {e} : CastVerdict(e, p, r, v, t)
      <2>1. PICK t \in Entries \ {e} : CastVerdict(e, p, r, v, t)
          BY <1>4
      <2> QED BY <1>2, <2>1, CastVerdictTable
  <1> QED BY <1>1, <1>3, <1>4

\* A proposal enters the table settled.
LEMMA ProposeTable ==
  ASSUME IInv, NEW e \in Entries, NEW p \in Principals, NEW d \in Drafts, NEW S \in SUBSET Entries,
         ProposeContext(e, p, d, S)
  PROVE  TableSound(mem')
  <1> DEFINE gates == SupersededGate(S)
             peersOnly == d.tighten \/ \E g \in gates : g > 1
             self == SelfAsserts(p, peersOnly, settings)
  <1>1. settings \in Setting /\ TableSound(mem) /\ d \in Draft
      BY DEF IInv
  <1>2. PICK gate \in gates \cup {settings.threshold} :
            mem' = SettleEntry(mem, e,
                      IF self THEN RecordVote(InsertEntry(p, d, IF self THEN 1 ELSE gate, peersOnly, S), 1, p, "approve", None)
                      ELSE InsertEntry(p, d, IF self THEN 1 ELSE gate, peersOnly, S), settings)
      BY DEF ProposeContext
  <1>3. \A o \in Entries : mem[o].required \in Nat \ {0}
      BY RowOfTable DEF Row
  <1>4. gate \in Nat \ {0}
      BY <1>1, <1>3 DEF SupersededGate, Setting, Threshold
  <1>5. peersOnly \in BOOLEAN
      BY <1>1 DEF Draft
  <1> DEFINE n == IF self THEN 1 ELSE gate
             x == InsertEntry(p, d, n, peersOnly, S)
             voted == IF self THEN RecordVote(x, 1, p, "approve", None) ELSE x
  <1>6. n \in Nat \ {0}
      BY <1>4
  <1> HIDE DEF n, peersOnly
  <1>7. RowSound(x) /\ x.life = "active"
      BY <1>1, <1>5, <1>6, InsertRow
  <1> HIDE DEF x
  <1>8. RowSound(voted) /\ voted.life = "active"
      <2>1. 1 \in Revs /\ "approve" \in Verdicts
          BY DEF Revs, Verdicts
      <2> QED BY <1>7, <2>1, RecordVoteRow
  <1>9. mem' = SettleEntry(mem, e, voted, settings)
      BY <1>2 DEF x, n, peersOnly
  <1> HIDE DEF voted
  <1> QED BY <1>1, <1>8, <1>9, SettleEntryTable

\* An edit of the text is settled as a pending revision.
LEMMA EditContentTable ==
  ASSUME IInv, NEW e \in Entries, NEW p \in Principals, NEW d \in Edits, NEW n \in Revs,
         mem[e].life = "active", mem[e].head = mem[e].revision, EditContent(e, p, d, n)
  PROVE  TableSound(mem')
  <1> DEFINE x == mem[e]
             dated == IF d.expiry = "none" THEN x ELSE [x EXCEPT !.expiry = d.expiry]
             appended == AppendPending(dated, n, p)
             q == appended.quarantine \/ d.quarantine
             edited == [appended EXCEPT !.quarantine = q]
             voted == IF SelfAsserts(p, x.peersOnly, settings)
                      THEN RecordVote(edited, n, p, "approve", None) ELSE edited
             k == RegatedRequirement(voted, p, settings)
             gated == SetRequiredVerifications(voted, k)
  <1>1. RowSound(x) /\ ~PeerShortfall(x) /\ TableSound(mem) /\ x \in Row
      BY RowOfTable DEF IInv
  <1>2. settings \in Setting /\ d.expiry \in Expiries /\ d.quarantine \in BOOLEAN
      BY DEF IInv, Edit
  <1>3. /\ IsNextRevision(x, n)
        /\ ~GateRefused(voted, k)
        /\ mem' = SettleRevision(mem, e, gated, n, settings)
      <2>1. edited = [appended EXCEPT !.quarantine = @ \/ d.quarantine]
          OBVIOUS
      <2> QED BY <2>1, Zenon DEF EditContent, RegateRefused, Regate
  <1>4. dated \in Row
      BY <1>1, <1>2 DEF Row
  <1>5. /\ dated.life = x.life /\ dated.fwd = x.fwd /\ dated.revision = x.revision /\ dated.state = x.state
        /\ dated.head = x.head /\ dated.base = x.base /\ dated.dropped = x.dropped
        /\ dated.required = x.required /\ dated.mode = x.mode /\ dated.votes = x.votes
        /\ dated.epoch = x.epoch /\ dated.source = x.source /\ dated.author = x.author
      BY <1>1 DEF Row
  <1>6. x.life = "active" /\ x.head = x.revision
      OBVIOUS
  <1> HIDE DEF x, dated
  <1>7. RowSound(dated) /\ ~PeerShortfall(dated)
      BY <1>1, <1>4, <1>5, SameChain, SameLabel
  <1>8. IsNextRevision(dated, n)
      BY <1>3, <1>5 DEF IsNextRevision
  <1>9. /\ RowSound(appended) /\ ~PeerShortfall(appended) /\ appended.life = "active"
        /\ appended.head = n /\ appended.revision # n
      BY <1>5, <1>6, <1>7, <1>8, AppendPendingRow
  <1> HIDE DEF appended
  <1>10. appended \in Row
      BY <1>9 DEF RowSound
  <1>11. q \in BOOLEAN
      BY <1>2, <1>10 DEF Row
  <1> HIDE DEF q
  <1>12. edited \in Row
      BY <1>10, <1>11 DEF Row
  <1>13. /\ edited.life = appended.life /\ edited.fwd = appended.fwd /\ edited.revision = appended.revision
         /\ edited.state = appended.state /\ edited.head = appended.head /\ edited.base = appended.base
         /\ edited.dropped = appended.dropped
         /\ edited.required = appended.required /\ edited.mode = appended.mode /\ edited.votes = appended.votes
         /\ edited.epoch = appended.epoch /\ edited.source = appended.source /\ edited.author = appended.author
      BY <1>10 DEF Row
  <1> HIDE DEF edited
  <1>14. RowSound(edited) /\ ~PeerShortfall(edited)
      BY <1>9, <1>12, <1>13, SameChain, SameLabel
  <1>15. /\ RowSound(voted) /\ ~PeerShortfall(voted) /\ voted.life = "active"
         /\ voted.head = n /\ voted.revision # n
      <2> DEFINE y == RecordVote(edited, n, p, "approve", None)
      <2>1. "approve" \in Verdicts
          BY DEF Verdicts
      <2>2. /\ RowSound(y) /\ y.life = "active" /\ y.head = n /\ y.revision # n
            /\ y.required = edited.required /\ y.mode = edited.mode
            /\ PeerApprovers(y) = PeerApprovers(edited)
          BY <1>9, <1>13, <1>14, <2>1, RecordVoteRow
      <2>3. ~PeerShortfall(y)
          BY <1>14, <2>2 DEF PeerShortfall
      <2> HIDE DEF y
      <2> QED BY <1>9, <1>13, <1>14, <2>2, <2>3 DEF y
  <1> HIDE DEF voted
  <1>16. k \in Nat \ {0}
      BY <1>2, <1>15, RegateBound
  <1> HIDE DEF k
  <1>17. /\ RowSound(gated) /\ ~PeerShortfall(gated) /\ gated.life = "active"
         /\ gated.head = n /\ gated.revision # n
      BY <1>3, <1>15, <1>16, GateRow
  <1> HIDE DEF gated
  <1> QED BY <1>1, <1>2, <1>3, <1>17, SettleRevisionTable

\* A rewrite over HTTP is settled as the served revision.
LEMMA UpdateTable ==
  ASSUME IInv, NEW e \in Entries, NEW p \in Principals, UpdateContextContent(e, p)
  PROVE  TableSound(mem')
  <1>1. PICK n \in Revs :
            /\ IsNextRevision(mem[e], n)
            /\ mem' = SettleEntry(mem, e, Regate(AppendServed(mem[e], n, p), p, settings), settings)
      BY DEF UpdateContextContent
  <1>2. RowSound(mem[e]) /\ TableSound(mem) /\ settings \in Setting /\ mem[e].life = "active"
      BY RowOfTable DEF IInv, UpdateContextContent, AcceptsRevision
  <1> DEFINE x == AppendServed(mem[e], n, p)
             k == RegatedRequirement(x, p, settings)
             y == SetRequiredVerifications(x, k)
  <1>3. RowSound(x) /\ x.life = "active"
      BY <1>1, <1>2, AppendServedRow
  <1>4. mem' = SettleEntry(mem, e, y, settings)
      BY <1>1 DEF Regate
  <1> HIDE DEF x
  <1>5. k \in Nat \ {0}
      BY <1>2, <1>3, RegateBound
  <1> HIDE DEF k
  <1>6. RowSound(y) /\ y.life = "active"
      BY <1>3, <1>5, GateRow
  <1> HIDE DEF y
  <1> QED BY <1>2, <1>4, <1>6, SettleEntryTable

\* Expiry and tier are nobody's business but their own.
LEMMA ColumnTable ==
  ASSUME IInv, NEW e \in Entries
  PROVE  /\ \A z \in Expiries : TableSound([mem EXCEPT ![e].expiry = z])
         /\ \A b \in BOOLEAN : TableSound([mem EXCEPT ![e].core = b])
  <1> DEFINE x == mem[e]
  <1>1. RowSound(x) /\ ~PeerShortfall(x) /\ x \in Row /\ TableSound(mem)
      BY RowOfTable DEF IInv
  <1>2. ASSUME NEW z \in Expiries PROVE TableSound([mem EXCEPT ![e].expiry = z])
      <2> DEFINE y == [x EXCEPT !.expiry = z]
      <2>1. y \in Row
          BY <1>1 DEF Row
      <2>2. /\ y.life = x.life /\ y.fwd = x.fwd /\ y.revision = x.revision /\ y.state = x.state
            /\ y.head = x.head /\ y.base = x.base /\ y.dropped = x.dropped /\ y.required = x.required
            /\ y.votes = x.votes /\ y.epoch = x.epoch /\ y.source = x.source /\ y.author = x.author
            /\ y.mode = x.mode
          BY <1>1 DEF Row
      <2>3. [mem EXCEPT ![e].expiry = z] = [mem EXCEPT ![e] = y]
          BY <1>1
      <2> HIDE DEF y
      <2>4. RowSound(y) /\ ~PeerShortfall(y)
          BY <1>1, <2>1, <2>2, SameChain, SameLabel
      <2> QED BY <1>1, <2>2, <2>3, <2>4, RowTable
  <1>3. ASSUME NEW b \in BOOLEAN PROVE TableSound([mem EXCEPT ![e].core = b])
      <2> DEFINE y == [x EXCEPT !.core = b]
      <2>1. y \in Row
          BY <1>1 DEF Row
      <2>2. /\ y.life = x.life /\ y.fwd = x.fwd /\ y.revision = x.revision /\ y.state = x.state
            /\ y.head = x.head /\ y.base = x.base /\ y.dropped = x.dropped /\ y.required = x.required
            /\ y.votes = x.votes /\ y.epoch = x.epoch /\ y.source = x.source /\ y.author = x.author
            /\ y.mode = x.mode
          BY <1>1 DEF Row
      <2>3. [mem EXCEPT ![e].core = b] = [mem EXCEPT ![e] = y]
          BY <1>1
      <2> HIDE DEF y
      <2>4. RowSound(y) /\ ~PeerShortfall(y)
          BY <1>1, <2>1, <2>2, SameChain, SameLabel
      <2> QED BY <1>1, <2>2, <2>3, <2>4, RowTable
  <1> QED BY <1>2, <1>3

\* An entry is retired outright.
LEMMA RetireTable ==
  ASSUME IInv, NEW e \in Entries, mem[e].life = "active", NEW to \in {"archived", "retracted"}
  PROVE  TableSound([mem EXCEPT ![e] = Retire(mem[e], to, None)])
  <1> DEFINE y == Retire(mem[e], to, None)
  <1>1. RowSound(mem[e]) /\ ~PeerShortfall(mem[e]) /\ TableSound(mem)
      BY RowOfTable DEF IInv
  <1>2. RowSound(y) /\ ~PeerShortfall(y) /\ y.fwd = None
      BY <1>1, RetireRow
  <1> HIDE DEF y
  <1>3. TableSound([mem EXCEPT ![e] = y])
      BY <1>1, <1>2, RowTable
  <1> QED BY <1>3 DEF y

\* A restored entry is active again and forwards nowhere.
LEMMA RestoreTable ==
  ASSUME IInv, NEW e \in Entries, NEW p \in Principals, RestoreContext(e, p)
  PROVE  TableSound(mem')
  <1> DEFINE x == mem[e]
  <1>1. RowSound(x) /\ ~PeerShortfall(x) /\ TableSound(mem)
      BY RowOfTable DEF IInv
  <1>2. \/ mem' = [mem EXCEPT ![e].expiry = "none"]
        \/ x.life = "archived" /\ mem' = [mem EXCEPT ![e] = Unarchive(x)]
        \/ x.life \in {"retracted", "superseded", "merged"} /\ mem' = [mem EXCEPT ![e] = Reopen(x)]
      BY DEF RestoreContext, Transitions
  <1>3. CASE mem' = [mem EXCEPT ![e].expiry = "none"]
      BY <1>3, ColumnTable DEF Expiries
  <1>4. CASE x.life = "archived" /\ mem' = [mem EXCEPT ![e] = Unarchive(x)]
      <2> DEFINE y == Unarchive(x)
      <2>1. RowSound(y) /\ ~PeerShortfall(y) /\ y.fwd = None
          BY <1>1, <1>4, UnarchiveRow
      <2>2. mem' = [mem EXCEPT ![e] = y]
          BY <1>4
      <2> HIDE DEF y
      <2> QED BY <1>1, <2>1, <2>2, RowTable
  <1>5. CASE x.life \in {"retracted", "superseded", "merged"} /\ mem' = [mem EXCEPT ![e] = Reopen(x)]
      <2> DEFINE y == Reopen(x)
      <2>1. RowSound(y) /\ ~PeerShortfall(y) /\ y.fwd = None
          BY <1>1, <1>5, ReopenRow
      <2>2. mem' = [mem EXCEPT ![e] = y]
          BY <1>5
      <2> HIDE DEF y
      <2> QED BY <1>1, <2>1, <2>2, RowTable
  <1> QED BY <1>2, <1>3, <1>4, <1>5

\* A purged entry keeps its pointer.
LEMMA PurgeTable ==
  ASSUME IInv, NEW e \in Entries, NEW p \in Principals, PurgeContext(e, p)
  PROVE  TableSound(mem')
  <1> DEFINE y == Purge(mem[e])
  <1>1. RowSound(mem[e]) /\ TableSound(mem) /\ mem[e].life # "absent" /\ mem' = [mem EXCEPT ![e] = y]
      BY RowOfTable DEF IInv, PurgeContext
  <1>2. RowSound(y) /\ ~PeerShortfall(y) /\ y.fwd = mem[e].fwd
      BY <1>1, PurgeRow
  <1> HIDE DEF y
  <1> QED BY <1>1, <1>2, RowTable

\* Retention keeps every pointer.
LEMMA RetentionTable ==
  ASSUME IInv, NEW e \in Entries, NEW r \in Revs, ApplyRetention(e, r)
  PROVE  TableSound(mem')
  <1> DEFINE y == DropContent(mem[e], r)
  <1>1. /\ RowSound(mem[e]) /\ ~PeerShortfall(mem[e]) /\ TableSound(mem)
        /\ Droppable(mem[e], r) /\ mem' = [mem EXCEPT ![e] = y]
      BY RowOfTable DEF IInv, ApplyRetention
  <1>2. RowSound(y) /\ ~PeerShortfall(y) /\ y.fwd = mem[e].fwd
      BY <1>1, DropRow
  <1> HIDE DEF y
  <1> QED BY <1>1, <1>2, RowTable

\* The empty table is sound.
LEMMA InitTable == Init => IInv
  <1> SUFFICES ASSUME Init PROVE IInv
      OBVIOUS
  <1>1. mem = [e \in Entries |-> Absent] /\ settings \in Settings
      BY DEF Init
  <1>2. Absent \in Row /\ RowSound(Absent) /\ ~PeerShortfall(Absent)
      BY AbsentRow DEF RowSound
  <1>3. Absent.fwd = None
      BY DEF Absent
  <1>4. Acyclic(mem)
      BY <1>1, <1>3 DEF Acyclic
  <1> QED BY <1>1, <1>2, <1>4 DEF IInv, TableSound

\* Every step of the kernel, of the clock and of the operator keeps the table sound.
LEMMA StepTable == IInv /\ [Next]_vars => IInv'
  <1> SUFFICES ASSUME IInv, [Next]_vars PROVE IInv'
      OBVIOUS
  <1>0. ASSUME TableSound(mem'), UNCHANGED settings PROVE IInv'
      BY <1>0 DEF IInv, TableSound, Acyclic
  <1>1. ASSUME NEW e \in Entries, NEW p \in Principals, NEW d \in Drafts, NEW S \in SUBSET Entries,
               ProposeContext(e, p, d, S)
        PROVE  IInv'
      BY <1>0, <1>1, ProposeTable DEF ProposeContext
  <1>2. ASSUME NEW e \in Entries, NEW p \in Principals, VerifyContextOutcome(e, p) PROVE IInv'
      BY <1>0, <1>2, VerifyTable DEF VerifyContextOutcome
  <1>3. ASSUME NEW e \in Entries, NEW p \in Principals, NEW d \in Edits, EditContext(e, p, d) PROVE IInv'
      <2>1. mem[e].life = "active" /\ mem[e].head = mem[e].revision /\ UNCHANGED settings
          BY <1>3 DEF EditContext, AcceptsRevision
      <2>2. CASE \E n \in Revs : EditContent(e, p, d, n)
          BY <1>0, <2>1, <2>2, EditContentTable
      <2>3. CASE mem' = [mem EXCEPT ![e].expiry = d.expiry]
          BY <1>0, <2>1, <2>3, ColumnTable DEF Edit
      <2> QED BY <1>3, <2>2, <2>3 DEF EditContext
  <1>4. ASSUME NEW e \in Entries, NEW p \in Principals, UpdateContextContent(e, p) PROVE IInv'
      BY <1>0, <1>4, UpdateTable DEF UpdateContextContent
  <1>5. ASSUME NEW e \in Entries, NEW p \in Principals, RetireContext(e, p) PROVE IInv'
      <2>1. mem[e].life = "active" /\ UNCHANGED settings /\ mem[e].revision \in Revs
          BY <1>5, RowOfTable DEF RetireContext, Row
      <2>2. CASE mem' = [mem EXCEPT ![e] = Retire(mem[e], "archived", None)]
          BY <1>0, <2>1, <2>2, RetireTable
      <2>3. CASE CastVerdict(e, p, mem[e].revision, "retract", None)
          BY <1>0, <2>1, <2>3, CastVerdictTable DEF Verdicts
      <2> QED BY <1>5, <2>2, <2>3 DEF RetireContext
  <1>6. ASSUME NEW e \in Entries, NEW p \in Principals, RestoreContext(e, p) PROVE IInv'
      BY <1>0, <1>6, RestoreTable DEF RestoreContext
  <1>7. ASSUME NEW e \in Entries, NEW p \in Principals, RetractContext(e, p) PROVE IInv'
      <2>1. mem[e].life = "active" /\ UNCHANGED settings
          BY <1>7 DEF RetractContext, Transitions
      <2> QED BY <1>0, <1>7, <2>1, RetireTable DEF RetractContext
  <1>8. ASSUME NEW e \in Entries, NEW p \in Principals, PurgeContext(e, p) PROVE IInv'
      BY <1>0, <1>8, PurgeTable DEF PurgeContext
  <1>9. ASSUME NEW e \in Entries, NEW p \in Principals, NEW b \in BOOLEAN, SetMemoryTier(e, p, b) PROVE IInv'
      BY <1>0, <1>9, ColumnTable DEF SetMemoryTier
  <1>10. ASSUME NEW e \in Entries, NEW r \in Revs, ApplyRetention(e, r) PROVE IInv'
      BY <1>0, <1>10, RetentionTable DEF ApplyRetention
  <1>11. ASSUME NEW e \in Entries, ClockPasses(e) PROVE IInv'
      BY <1>0, <1>11, ColumnTable DEF ClockPasses, Expiries
  <1>12. CASE ChangeSettings
      BY <1>12 DEF ChangeSettings, IInv, TableSound, Acyclic
  <1>13. CASE UNCHANGED vars
      BY <1>13 DEF vars, IInv, TableSound, Acyclic
  <1> QED
      BY <1>1, <1>2, <1>3, <1>4, <1>5, <1>6, <1>7, <1>8, <1>9, <1>10, <1>11, <1>12, <1>13 DEF Next

-----------------------------------------------------------------------------
(***************************************************************************)
(* What follows for every reachable table                                  *)
(***************************************************************************)

\* The table is sound in every state the kernel reaches.
THEOREM TableInvariant == Spec => []IInv
  <1>1. Init => IInv
      BY InitTable
  <1>2. IInv /\ [Next]_vars => IInv'
      BY StepTable
  <1> QED BY <1>1, <1>2, PTL DEF Spec

\* Every row keeps its columns' types.
THEOREM TypeTheorem == Spec => []TypeOK
  <1>1. IInv => TypeOK
      BY DEF IInv, TableSound, TypeOK
  <1> QED BY <1>1, TableInvariant, PTL

\* checkInvariants never refuses a commit: no row is labelled peer_verified without the
\* approvals of as many distinct peers as its gate asks for.
THEOREM PeerTheorem == Spec => []PeerVerifiedSound
  <1>1. IInv => PeerVerifiedSound
      BY DEF IInv, TableSound, PeerVerifiedSound
  <1> QED BY <1>1, TableInvariant, PTL

\* The revision chain of every entry is sound: one pending edit at most, on top of the
\* served text, and nothing served or pending has lost its text.
THEOREM RevisionsTheorem == Spec => []RevisionsSound
  <1>1. IInv => RevisionsSound
      BY DEF IInv, TableSound, RowSound, ChainSound, RevisionsSound
  <1> QED BY <1>1, TableInvariant, PTL

\* Following superseded_by and merged_into always ends.
THEOREM ForwardingTheorem == Spec => []ForwardingAcyclic
  <1>1. IInv => ForwardingAcyclic
      BY DEF IInv, TableSound, Acyclic, ForwardingAcyclic
  <1> QED BY <1>1, TableInvariant, PTL
=============================================================================
