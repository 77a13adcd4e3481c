---------------------------- MODULE MemoryKernel ----------------------------
(***************************************************************************)
(* The memory kernel (api-go/internal/workspaceops): proposing, verifying, *)
(* editing, retiring and restoring the memories of one workspace.          *)
(*                                                                         *)
(* Every operation is one write transaction of the governance store, which *)
(* takes the database's write lock before it reads (BEGIN IMMEDIATE), so   *)
(* an operation is one action and principals interleave between them.  An  *)
(* error anywhere in an operation rolls the transaction back: a refusal is *)
(* a guard.  The one check that is not a guard is checkInvariants, run on  *)
(* the rows a transaction touched before it commits: PeerVerifiedSound     *)
(* says it never has anything to refuse.                                   *)
(*                                                                         *)
(* Open mode (no tokens configured) is a property of each request: its     *)
(* principal is Anonymous, who holds every role but the human approver's.  *)
(***************************************************************************)
EXTENDS MemoryStore

CONSTANTS
    Admins, Approvers, Verifiers,  \* who passes each role's gate
    HumanApprovers,                \* approvers of kind human: may write protected memory
    Proposers, Editors,            \* bound: who proposes, who edits
    Owner,                         \* principal -> the operator who owns its token
    Ballots,                       \* bound: the verdicts cast
    Drafts, Edits,                 \* bound: the shapes of proposals and of edits
    Settings,                      \* the settings the operator switches between
    Tiering                        \* bound: whether tiers are changed

Threshold == Nat \ {0}
Draft == [readonly : BOOLEAN, tighten : BOOLEAN, quarantine : BOOLEAN, core : BOOLEAN, expiry : Expiries]
Edit == [changes : BOOLEAN, quarantine : BOOLEAN, expiry : Expiries]
Setting == [multi : BOOLEAN, threshold : Threshold, owner : BOOLEAN]

ASSUME KernelAssumption ==
    /\ Admins \cup Approvers \cup Verifiers \cup Proposers \cup Editors \subseteq Principals
    /\ HumanApprovers \subseteq Approvers \ {Anonymous}
    /\ Ballots \subseteq Verdicts
    /\ Drafts \subseteq Draft
    /\ Edits \subseteq Edit
    /\ Settings \subseteq Setting
    /\ Tiering \in BOOLEAN

VARIABLES
    mem,       \* the entries table with its revisions and votes
    settings   \* the settings file: contextDefaults and principalDistinctness

vars == <<mem, settings>>

HasLifecycleAuthority(p) == p \in Admins \cup Approvers

-----------------------------------------------------------------------------
(***************************************************************************)
(* Settling: from votes to status, promotion and label                     *)
(***************************************************************************)

\* Under a peer gate the entry's author and the revision's author are no voters.
Excluded(x, r) == IF x.required > 1 THEN {x.source, x.author[r]} ELSE {}
Approvals(x, r) == Cardinality(Cast(x, r, "approve") \ Excluded(x, r))
Rejections(x, r) == Cardinality(Cast(x, r, "reject") \ Excluded(x, r))

\* The word of the open-mode author, until anyone dissents.
OpenModeAssertionStands(x, r) ==
    /\ ~x.peersOnly
    /\ x.source = Anonymous
    /\ Cast(x, r, "reject") = {}
    /\ Anonymous \in Cast(x, r, "approve")

\* reconcileEntry: what the votes on revision r decide.
Reconcile(x, r) ==
    IF Rejections(x, r) >= x.required THEN "rejected"
    ELSE IF Approvals(x, r) >= x.required \/ OpenModeAssertionStands(x, r) THEN "verified"
    ELSE "pending"

\* Mutants: a gate of none, and a gate that is never raised.
RegatedToNone(x, p, s) ==
    IF x.source = Anonymous /\ p = Anonymous /\ ~x.peersOnly THEN 0 ELSE x.required
RegatedNever(x, p, s) == x.required
\* The gate of an entry the open-mode identity wrote follows the kind of write.
RegatedRequirement(x, p, s) ==
    IF x.source # Anonymous THEN x.required
    ELSE IF p = Anonymous /\ ~x.peersOnly THEN 1
    ELSE IF p # Anonymous /\ x.required <= 1 /\ (s.multi \/ x.peersOnly) THEN s.threshold
    ELSE x.required

Regate(x, p, s) == SetRequiredVerifications(x, RegatedRequirement(x, p, s))
RegateRefused(x, p, s) == GateRefused(x, RegatedRequirement(x, p, s))

\* The row settled on the votes on its served revision.
Settled(x, s) ==
    LET status == Reconcile(x, x.revision)
    IN  SetPromotion(x, status, IF status = "verified" THEN VerificationMode(x, s.threshold) ELSE "")

\* Promotion retires what the entry replaces, once.
ApplySupersession(m, e) ==
    [f \in Entries |->
        IF f = e THEN [m[e] EXCEPT !.supersedes = {}]
        ELSE IF f \in m[e].supersedes /\ m[f].life = "active" THEN Supersede(m[f], e)
        ELSE m[f]]

SettleEntry(m, e, x, s) ==
    LET settled == [m EXCEPT ![e] = Settled(x, s)]
    IN  IF settled[e].promoted THEN ApplySupersession(settled, e) ELSE settled

\* A pending revision is decided by the rule that promotes entries.
SettleRevision(m, e, x, r, s) ==
    LET decided == Reconcile(x, r)
    IN  IF decided = "verified" THEN SettleEntry(m, e, AcceptRevision(x, r), s)
        ELSE IF decided = "rejected" THEN SettleEntry(m, e, RejectRevision(x, r), s)
        ELSE [m EXCEPT ![e] = x]

\* A write that waits for nobody: open mode or single-agent mode, unless peers were asked for.
SelfAsserts(p, peersOnly, s) == ~peersOnly /\ (p = Anonymous \/ ~s.multi)

-----------------------------------------------------------------------------
(***************************************************************************)
(* Verdicts                                                                *)
(***************************************************************************)

\* Mutant: only the authors' owners are looked at.
OwnerDistinctFromAuthors(x, r, p, v) ==
    (v \in {"approve", "reject"} /\ x.required > 1 /\ settings.owner) =>
        Owner[p] \notin {Owner[x.source], Owner[x.author[r]]}
\* checkOwnerDistinct, read before the write re-gates the entry.
OwnerDistinct(x, r, p, v) ==
    (v \in {"approve", "reject"} /\ x.required > 1 /\ settings.owner) =>
        /\ Owner[p] \notin {Owner[x.source], Owner[x.author[r]]}
        /\ \A q \in Cast(x, r, "approve") \cup Cast(x, r, "reject") :
              q # p => Owner[q] # Owner[p]

RetractOnQuorum(m, e) ==
    IF Cardinality(Cast(m[e], m[e].revision, "retract")) < m[e].required THEN m
    ELSE [m EXCEPT ![e] = Retire(m[e], "retracted", None)]

\* Mutant: the mark stays behind.
MergedUnmarked(m, e, t) == [m EXCEPT ![e] = Retire(m[e], "merged", t)]
\* A quarantined duplicate passes its mark to the survivor.
Merged(m, e, t) ==
    [m EXCEPT ![e] = Retire(m[e], "merged", t),
              ![t].quarantine = m[t].quarantine \/ m[e].quarantine]
MergeOnQuorum(m, e, t) ==
    IF Cardinality(NamedDuplicateOf(m[e], t)) < m[e].required THEN m ELSE Merged(m, e, t)
MergeRefused(m, e, t) ==
    \/ ~Served(m[t])
    \/ /\ Cardinality(NamedDuplicateOf(m[e], t)) >= m[e].required
       /\ m[t].core /\ m[e].quarantine /\ ~m[t].quarantine

\* castVerdict: p's verdict v on revision r of e, and what it decides.
CastVerdict(e, p, r, v, t) ==
    LET x == mem[e]
        voted == RecordVote(x, r, p, v, t)
        gated == Regate(voted, p, settings)
        m == SettleEntry(mem, e, gated, settings)
    IN  /\ TakesVotes(x, r)
        /\ r # x.revision => r = x.head /\ v # "retract"
        /\ OwnerDistinct(x, r, p, v)
        /\ ~RegateRefused(voted, p, settings)
        /\ \/ /\ r # x.revision
              /\ mem' = SettleRevision(mem, e, gated, r, settings)
           \/ /\ r = x.revision /\ v \in {"approve", "reject"}
              /\ mem' = m
           \/ /\ r = x.revision /\ v = "retract"
              /\ mem' = RetractOnQuorum(m, e)
           \/ /\ r = x.revision /\ v = "duplicate_of"
              /\ ~MergeRefused(m, e, t)
              /\ mem' = MergeOnQuorum(m, e, t)

VerifyContextOutcome(e, p) ==
    /\ p \in Verifiers
    /\ \E r \in Revs, v \in Ballots :
          \/ v # "duplicate_of" /\ CastVerdict(e, p, r, v, None)
          \/ /\ v = "duplicate_of"
             /\ \E t \in Entries \ {e} : mem[t].life # "absent" /\ CastVerdict(e, p, r, v, t)
    /\ UNCHANGED settings

-----------------------------------------------------------------------------
(***************************************************************************)
(* Proposals and edits                                                     *)
(***************************************************************************)

\* Mutant: what is replaced has no say.
NoSupersededGate(S) == {}
\* Of the gates a proposal must pass, the strictest counts.
SupersededGate(S) == {mem[o].required : o \in S}
Strictest(n, gates) == \A g \in gates : g <= n

\* A core entry is born, changed or replaced only by a human approver.
ProposeContext(e, p, d, S) ==
    LET gates == SupersededGate(S)
        peersOnly == d.tighten \/ \E g \in gates : g > 1
        self == SelfAsserts(p, peersOnly, settings)
    IN  /\ mem[e].life = "absent"
        /\ \A o \in S : mem[o].life = "active" /\ (mem[o].core => p \in HumanApprovers)
        /\ d.core => p \in HumanApprovers /\ ~d.quarantine
        /\ \E gate \in gates \cup {settings.threshold} :
              LET x == InsertEntry(p, d, IF self THEN 1 ELSE gate, peersOnly, S)
                  voted == IF self THEN RecordVote(x, 1, p, "approve", None) ELSE x
              IN  /\ Strictest(gate, gates \cup {settings.threshold})
                  /\ mem' = SettleEntry(mem, e, voted, settings)
        /\ UNCHANGED settings

AuthorizeEdit(p, x) ==
    /\ p = x.source \/ p \in Admins
    /\ ~(x.readonly /\ (x.promoted \/ x.status = "verified"))
    /\ x.core => p \in HumanApprovers

AuthorizeExpiry(p, x) ==
    HasLifecycleAuthority(p) \/ (p = x.source /\ ~(x.promoted /\ x.required > 1))

\* EditContext: a pending revision on top of the served one, which stays served.
EditContent(e, p, d, n) ==
    LET x == mem[e]
        dated == IF d.expiry = "none" THEN x ELSE [x EXCEPT !.expiry = d.expiry]
        edited == [AppendPending(dated, n, p) EXCEPT !.quarantine = @ \/ d.quarantine]
        voted == IF SelfAsserts(p, x.peersOnly, settings)
                 THEN RecordVote(edited, n, p, "approve", None) ELSE edited
    IN  /\ IsNextRevision(x, n)
        /\ x.core => ~d.quarantine \/ x.quarantine
        /\ ~RegateRefused(voted, p, settings)
        /\ mem' = SettleRevision(mem, e, Regate(voted, p, settings), n, settings)

EditContext(e, p, d) ==
    /\ AcceptsRevision(mem[e], mem[e].head)
    /\ AuthorizeEdit(p, mem[e])
    /\ mem[e].head = mem[e].revision
    /\ d.changes \/ d.expiry # "none"
    /\ d.expiry # "none" => AuthorizeExpiry(p, mem[e])
    /\ \/ d.changes /\ \E n \in Revs : EditContent(e, p, d, n)
       \/ ~d.changes /\ mem' = [mem EXCEPT ![e].expiry = d.expiry]
    /\ UNCHANGED settings

\* The HTTP rewrite: a new served revision at once, on whatever the head is.
UpdateContextContent(e, p) ==
    /\ AcceptsRevision(mem[e], mem[e].head)
    /\ AuthorizeEdit(p, mem[e])
    /\ \E n \in Revs :
          LET x == AppendServed(mem[e], n, p)
          IN  /\ IsNextRevision(mem[e], n)
              /\ ~RegateRefused(x, p, settings)
              /\ mem' = SettleEntry(mem, e, Regate(x, p, settings), settings)
    /\ UNCHANGED settings

-----------------------------------------------------------------------------
(***************************************************************************)
(* Lifecycle                                                               *)
(***************************************************************************)

\* Verified memory leaves by quorum: without authority the call is a retract verdict.
RetireContext(e, p) ==
    LET x == mem[e]
        direct == HasLifecycleAuthority(p) \/ (p = x.source /\ ~x.promoted)
    IN  /\ x.life = "active"
        /\ \/ direct /\ mem' = [mem EXCEPT ![e] = Retire(x, "archived", None)]
           \/ /\ ~direct /\ p \in Verifiers
              /\ CastVerdict(e, p, x.revision, "retract", None)
        /\ UNCHANGED settings

RestoreContext(e, p) ==
    LET x == mem[e]
    IN  /\ \/ /\ x.life = "active" /\ x.expiry # "none"
              /\ AuthorizeExpiry(p, x)
              /\ mem' = [mem EXCEPT ![e].expiry = "none"]
           \/ /\ x.life = "archived" /\ HasLifecycleAuthority(p)
              /\ mem' = [mem EXCEPT ![e] = Unarchive(x)]
           \/ /\ x.life # "archived" /\ <<x.life, "active">> \in Transitions
              /\ HasLifecycleAuthority(p)
              /\ x.epoch < MaxEpoch
              /\ mem' = [mem EXCEPT ![e] = Reopen(x)]
        /\ UNCHANGED settings

RetractContext(e, p) ==
    /\ HasLifecycleAuthority(p)
    /\ <<mem[e].life, "retracted">> \in Transitions
    /\ mem' = [mem EXCEPT ![e] = Retire(mem[e], "retracted", None)]
    /\ UNCHANGED settings

PurgeContext(e, p) ==
    /\ HasLifecycleAuthority(p)
    /\ mem[e].life \notin {"absent", "purged"}
    /\ mem' = [mem EXCEPT ![e] = Purge(mem[e])]
    /\ UNCHANGED settings

\* A tier is chosen by a human approver; core is for served, unquarantined memory.
SetMemoryTier(e, p, core) ==
    /\ Tiering
    /\ p \in HumanApprovers
    /\ mem[e].life = "active"
    /\ core => Served(mem[e]) /\ ~mem[e].quarantine
    /\ mem' = [mem EXCEPT ![e].core = core]
    /\ UNCHANGED settings

-----------------------------------------------------------------------------
(***************************************************************************)
(* The world around the kernel                                             *)
(***************************************************************************)

ApplyRetention(e, r) ==
    /\ Droppable(mem[e], r)
    /\ mem' = [mem EXCEPT ![e] = DropContent(mem[e], r)]
    /\ UNCHANGED settings

ClockPasses(e) ==
    /\ mem[e].expiry = "future"
    /\ mem' = [mem EXCEPT ![e].expiry = "past"]
    /\ UNCHANGED settings

ChangeSettings ==
    /\ settings' \in Settings \ {settings}
    /\ UNCHANGED mem

Init ==
    /\ mem = [e \in Entries |-> Absent]
    /\ settings \in Settings

Next ==
    \/ \E e \in Entries, p \in Principals :
          \/ p \in Proposers /\ \E d \in Drafts, S \in SUBSET Entries : ProposeContext(e, p, d, S)
          \/ VerifyContextOutcome(e, p)
          \/ p \in Editors /\ \E d \in Edits : EditContext(e, p, d)
          \/ p \in Editors /\ UpdateContextContent(e, p)
          \/ RetireContext(e, p)
          \/ RestoreContext(e, p)
          \/ RetractContext(e, p)
          \/ PurgeContext(e, p)
          \/ \E core \in BOOLEAN : SetMemoryTier(e, p, core)
    \/ \E e \in Entries, r \in Revs : ApplyRetention(e, r)
    \/ \E e \in Entries : ClockPasses(e)
    \/ ChangeSettings

Spec == Init /\ [][Next]_vars

-----------------------------------------------------------------------------
(***************************************************************************)
(* Properties                                                              *)
(***************************************************************************)

\* Every row has its columns' types, and the settings file is one the operator wrote.
TypeOK == mem \in [Entries -> Row] /\ settings \in Settings

\* No row is labelled peer_verified without its gate's number of distinct peer approvals
\* on the revision it serves: checkInvariants (govstore/store.go) never refuses a commit,
\* whatever votes, edits, re-gating, restores and settings changes come between.
PeerVerifiedSound == \A e \in Entries : ~PeerShortfall(mem[e])

\* The gates the code ever sets: the single assertion's and the workspace's quorums.
Gates == {1} \cup {s.threshold : s \in Settings}
EarnedAt(x, gate) == Reconcile([x EXCEPT !.required = gate], x.revision) = "verified"

\* Status, promotion and label agree, and what recall shows as verified is what the votes
\* on the served text decide: at the entry's gate if it was proposed with a token.  The
\* gate of an open-mode entry moves without settling it (a vote on a pending edit, an
\* edit: castVerdict, EditContext), so there the votes decide at one of the gates.
PromotionEarned ==
    \A e \in Entries : LET x == mem[e] IN
        /\ x.promoted <=> x.status = "verified"
        /\ x.promoted <=> x.mode # ""
        /\ x.promoted => \E gate \in IF x.source = Anonymous THEN Gates ELSE {x.required} :
                            EarnedAt(x, gate)

\* The writes of the open-mode identity that settle an entry.
OpenModeWrite ==
    \E e \in Entries :
        \/ VerifyContextOutcome(e, Anonymous)
        \/ UpdateContextContent(e, Anonymous)
        \/ RetireContext(e, Anonymous)
        \/ \E d \in Edits : EditContext(e, Anonymous, d)

\* regatedRequirement: "once tokens exist no single principal can reject, rewrite and
\* re-promote open-mode memory alone".  Where the workspace asks for peers, a rewrite of
\* an open-mode entry is promoted by a write with a token only if someone other than its
\* author approved it, whatever open-mode writes came before.
SoloRewriteStep ==
    \E e \in Entries : LET x == mem[e] y == mem'[e] IN
        /\ settings.multi /\ settings.threshold > 1
        /\ y.promoted /\ ~(x.promoted /\ x.revision = y.revision)
        /\ y.source = Anonymous /\ y.author[y.revision] # Anonymous
        /\ Cast(y, y.revision, "approve") \subseteq {y.author[y.revision]}
NoSoloRewrite == [][SoloRewriteStep => OpenModeWrite]_vars

\* The revision chain: the served revision was accepted; at most one edit is pending,
\* it is the head and it was written against the text being served; without one the
\* head is the served revision.  The served and the pending text are kept; a purged
\* entry keeps none.
RevisionsSound ==
    \A e \in Entries : LET x == mem[e] IN
        x.life # "absent" =>
            /\ x.state[x.revision] = "accepted"
            /\ x.head # x.revision => x.state[x.head] = "pending"
            /\ \A r \in Revs : x.state[r] = "pending" =>
                  r = x.head /\ r > x.revision /\ x.base[r] = x.revision
            /\ IF x.life = "purged"
               THEN \A r \in Revs : x.state[r] # "none" => r \in x.dropped /\ x.state[r] # "pending"
               ELSE x.dropped \cap {x.revision, x.head} = {}

\* History is never rewritten: a revision keeps its author and base, a decided one its
\* decision, numbers are not reused after a rejection moves the head back
\* (AppendRevision), and what is served only moves forward.
HistoryStep ==
    \A e \in Entries : LET x == mem[e] y == mem'[e] IN
        x.life # "absent" =>
            /\ y.revision >= x.revision
            /\ \A r \in Revs : x.state[r] # "none" =>
                  /\ y.author[r] = x.author[r] /\ y.base[r] = x.base[r]
                  /\ x.state[r] # "pending" => y.state[r] = x.state[r]
HistoryImmutable == [][HistoryStep]_vars

\* A memory restored from retracted, superseded or merged comes back unverified and no
\* vote cast before the restore counts for or against it (Transition, vote_epoch).
RestoreStep ==
    \A e \in Entries :
        (mem[e].life \in {"retracted", "superseded", "merged"} /\ mem'[e].life = "active")
            => /\ ~mem'[e].promoted
               /\ \A r \in Revs, v \in Verdicts : Cast(mem'[e], r, v) = {}
RestoredMustReverify == [][RestoreStep]_vars

\* superseded_by and merged_into never form a loop, so following them from a retired
\* memory always ends at one that is not forwarded: in every set of entries some entry
\* does not forward into the set.
ForwardingAcyclic ==
    \A S \in (SUBSET Entries) \ {{}} : \E e \in S : mem[e].fwd \notin S

\* "an entry that needs peers is never superseded on one word" (ProposeContext): what
\* replaces a memory passed a gate at least as strict, although the gate was read when
\* the replacement was proposed and the supersession runs when it is promoted.  It holds
\* while the operator's threshold stays the same: once the threshold is raised, a write
\* may raise the old memory's gate and leave the replacement's where it was.
SupersedeStep ==
    \A o \in Entries :
        (mem[o].life = "active" /\ mem'[o].life = "superseded")
            => LET n == mem'[mem'[o].fwd] IN n.promoted /\ n.required >= mem[o].required
SupersededAtItsGate == [][SupersedeStep]_vars

\* Quarantine is never laundered: the survivor of a merge carries the mark of what was
\* merged into it, until it is purged, and core memory never carries one (mergeOnQuorum,
\* markQuarantined, SetClassification, SetTier).
QuarantineContained ==
    \A e \in Entries :
        /\ (mem[e].life = "merged" /\ mem[e].quarantine)
              => LET t == mem[mem[e].fwd] IN t.quarantine \/ t.life = "purged"
        /\ ~(mem[e].core /\ mem[e].quarantine)

\* "Under `owner`, the quorum counts owners" (docs/SECURITY.md): on a peer-gated entry
\* proposed with a token the approvals that earned the label have different owners, and
\* none is an author's, whatever restores, edits asserted in single-agent mode and changed
\* votes come between.
QuorumCountsOwners ==
    \A e \in Entries : LET x == mem[e] IN
        (x.mode = "peer_verified" /\ x.required > 1 /\ x.source # Anonymous) =>
            \A p \in PeerApprovers(x) :
                /\ Owner[p] \notin {Owner[x.source], Owner[x.author[x.revision]]}
                /\ \A q \in PeerApprovers(x) : q # p => Owner[q] # Owner[p]
=============================================================================
