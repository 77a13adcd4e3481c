---------------------------- MODULE MemoryStore ----------------------------
(***************************************************************************)
(* The governance store's view of one memory (api-go/internal/govstore).   *)
(*                                                                         *)
(* A row is everything the store keeps about an entry: its columns, its    *)
(* revisions and the votes on them.  Every store method that changes an    *)
(* entry is an operator from a row to a row, with the method's refusals as *)
(* a predicate beside it, so that a kernel transaction is a composition of *)
(* them (MemoryKernel).                                                    *)
(*                                                                         *)
(* Abstracted: text, titles, tags and digests (a revision is its number),  *)
(* times other than "has the expiry passed", the event log, the search     *)
(* index, anchors and their drift baselines, and scopes.  A principal is   *)
(* its key (principalKey folds case and blanks).                           *)
(***************************************************************************)
EXTENDS Integers, FiniteSets

CONSTANTS
    Entries,     \* the ids proposals may take
    Principals,  \* the keys of the principals that write
    Anonymous,   \* OpenModeIdentity, every caller's key in open mode
    None,        \* the empty string where an id may stand
    MaxRev,      \* bound: revisions per entry
    MaxEpoch     \* bound: restores per entry that start a new vote epoch

ASSUME StoreAssumption ==
    /\ IsFiniteSet(Principals)
    /\ Anonymous \in Principals
    /\ None \notin Entries
    /\ MaxRev \in Nat \ {0}
    /\ MaxEpoch \in Nat

-----------------------------------------------------------------------------
(***************************************************************************)
(* Rows                                                                    *)
(***************************************************************************)

Revs == 1 .. MaxRev

\* "absent": the id is not in the table.
Lifecycles == {"absent", "active", "superseded", "retracted", "merged", "archived", "purged"}
Statuses == {"pending", "verified", "rejected"}
Modes == {"", "peer_verified", "self_asserted_open_mode", "single_agent"}
RevStates == {"none", "pending", "accepted", "rejected", "withdrawn"}
Verdicts == {"approve", "reject", "duplicate_of", "retract"}

\* expires_at against the clock: unset, still to come, passed.
Expiries == {"none", "future", "past"}

Vote == [verdict : Verdicts \cup {"none"}, target : Entries \cup {None}, epoch : Nat]

Row == [life : Lifecycles, status : Statuses, promoted : BOOLEAN, mode : Modes,
        required : Nat \ {0}, peersOnly : BOOLEAN, readonly : BOOLEAN, epoch : Nat,
        source : Principals, revision : Revs, head : Revs,
        state : [Revs -> RevStates], author : [Revs -> Principals],
        base : [Revs -> 0 .. MaxRev], dropped : SUBSET Revs,
        votes : [Revs -> [Principals -> Vote]],
        fwd : Entries \cup {None},          \* superseded_by or merged_into
        supersedes : SUBSET Entries,        \* metadata "supersedes": intent not yet applied
        core : BOOLEAN, quarantine : BOOLEAN, expiry : Expiries]

NoVote == [verdict |-> "none", target |-> None, epoch |-> 0]

Absent ==
    [life |-> "absent", status |-> "pending", promoted |-> FALSE, mode |-> "",
     required |-> 1, peersOnly |-> FALSE, readonly |-> FALSE, epoch |-> 0,
     source |-> Anonymous, revision |-> 1, head |-> 1,
     state |-> [r \in Revs |-> "none"], author |-> [r \in Revs |-> Anonymous],
     base |-> [r \in Revs |-> 0], dropped |-> {},
     votes |-> [r \in Revs |-> [p \in Principals |-> NoVote]],
     fwd |-> None, supersedes |-> {},
     core |-> FALSE, quarantine |-> FALSE, expiry |-> "none"]

\* Entry.Served: what recall shows as verified memory.
Served(x) == x.promoted /\ x.life = "active" /\ x.expiry # "past"

-----------------------------------------------------------------------------
(***************************************************************************)
(* Votes                                                                   *)
(***************************************************************************)

\* Who holds verdict v on revision r in the current vote epoch (ListVotes).
Cast(x, r, v) ==
    {p \in Principals : x.votes[r][p].verdict = v /\ x.votes[r][p].epoch = x.epoch}

\* Who named entry t in a duplicate_of verdict on the served revision.
NamedDuplicateOf(x, t) ==
    {p \in Cast(x, x.revision, "duplicate_of") : x.votes[x.revision][p].target = t}

\* Tally.PeerApprovals: neither the entry's author, nor the author of the served
\* revision, nor the open-mode identity is a peer.
PeerApprovers(x) ==
    Cast(x, x.revision, "approve") \ {x.source, x.author[x.revision], Anonymous}

\* What the entries_peer_verified_update trigger and checkInvariants refuse.
PeerShortfall(x) ==
    x.mode = "peer_verified" /\ Cardinality(PeerApprovers(x)) < x.required

\* How many peer approvals earn the peer_verified label.
PeersNeeded(required, threshold) ==
    IF required > 1 THEN required ELSE IF threshold > 1 THEN threshold ELSE 1

VerificationMode(x, threshold) ==
    IF Cardinality(PeerApprovers(x)) >= PeersNeeded(x.required, threshold) THEN "peer_verified"
    ELSE IF Anonymous \in Cast(x, x.revision, "approve") THEN "self_asserted_open_mode"
    ELSE "single_agent"

TakesVotes(x, r) == x.life = "active" /\ (r = x.revision \/ x.state[r] = "pending")

\* One verdict per principal and revision: a new one replaces it, in today's epoch.
RecordVote(x, r, p, v, t) ==
    [x EXCEPT !.votes[r][p] = [verdict |-> v, target |-> t, epoch |-> x.epoch]]

-----------------------------------------------------------------------------
(***************************************************************************)
(* Entries and lifecycle                                                   *)
(***************************************************************************)

\* A pending entry whose revision 1 is served, authored by p.
InsertEntry(p, draft, required, peersOnly, supersedes) ==
    [Absent EXCEPT !.life = "active", !.source = p, !.required = required,
                   !.peersOnly = peersOnly, !.readonly = draft.readonly,
                   !.state[1] = "accepted", !.author[1] = p, !.supersedes = supersedes,
                   !.core = draft.core, !.quarantine = draft.quarantine,
                   !.expiry = draft.expiry]

\* Mutant: promotion is not taken back when the votes turn.
SetPromotionSticky(x, status, mode) ==
    [x EXCEPT !.status = status, !.promoted = @ \/ (status = "verified"), !.mode = mode]
\* SetPromotion: the caller's reconciliation of the served revision.
SetPromotion(x, status, mode) ==
    [x EXCEPT !.status = status, !.promoted = (status = "verified"), !.mode = mode]

\* SetRequiredVerifications is an UPDATE, so the trigger looks at the new gate at
\* once, before the caller has settled the entry again.
GateRefused(x, n) == n # x.required /\ PeerShortfall([x EXCEPT !.required = n])
SetRequiredVerifications(x, n) == [x EXCEPT !.required = n]

\* The moves of Transition; Supersede and Purge are separate.
Transitions ==
    {<<"active", "retracted">>, <<"active", "archived">>, <<"active", "merged">>,
     <<"archived", "active">>, <<"retracted", "active">>,
     <<"superseded", "active">>, <<"merged", "active">>}

\* Out of recall: promotion, label and votes stay on the row.
Retire(x, to, target) ==
    [x EXCEPT !.life = to, !.fwd = IF to = "merged" THEN target ELSE @]

\* Back to active. Only from archived does anything verified carry over.
Unarchive(x) == [x EXCEPT !.life = "active", !.fwd = None]
\* Mutants: the label, the old votes, or the pointer survive.
ReopenLabelled(x) ==
    [x EXCEPT !.life = "active", !.fwd = None, !.promoted = FALSE,
              !.status = IF @ = "verified" THEN "pending" ELSE @, !.epoch = @ + 1]
ReopenSameEpoch(x) ==
    [x EXCEPT !.life = "active", !.fwd = None, !.promoted = FALSE, !.mode = "",
              !.status = IF @ = "verified" THEN "pending" ELSE @]
ReopenForwarded(x) ==
    [x EXCEPT !.life = "active", !.promoted = FALSE, !.mode = "",
              !.status = IF @ = "verified" THEN "pending" ELSE @, !.epoch = @ + 1]
Reopen(x) ==
    [x EXCEPT !.life = "active", !.fwd = None, !.promoted = FALSE, !.mode = "",
              !.status = IF @ = "verified" THEN "pending" ELSE @, !.epoch = @ + 1]

Supersede(x, newer) == [x EXCEPT !.life = "superseded", !.fwd = newer]

\* Purge: every text is dropped, pending revisions are withdrawn, metadata is emptied.
Purge(x) ==
    [x EXCEPT !.life = "purged", !.promoted = FALSE, !.mode = "",
              !.status = IF @ = "verified" THEN "pending" ELSE @,
              !.head = x.revision, !.dropped = {r \in Revs : x.state[r] # "none"},
              !.state = [r \in Revs |-> IF @[r] = "pending" THEN "withdrawn" ELSE @[r]],
              !.supersedes = {}, !.quarantine = FALSE]

-----------------------------------------------------------------------------
(***************************************************************************)
(* Revisions                                                               *)
(***************************************************************************)

\* Mutant: the number after the head.
IsAfterHead(x, n) == n = x.head + 1
\* max(revision) + 1: a number is never reused, not even a rejected one's.
IsNextRevision(x, n) ==
    /\ n > 1 /\ x.state[n - 1] # "none"
    /\ \A r \in Revs : x.state[r] # "none" => r < n

\* AppendRevision's compare-and-set on the head, whose text must still be there.
AcceptsRevision(x, base) == x.life = "active" /\ base = x.head /\ base \notin x.dropped

\* Mutant: older pending revisions stay pending.
ServeRevisionOnly(x, r) ==
    [x EXCEPT !.revision = r, !.head = IF r > @ THEN r ELSE @,
              !.status = "pending", !.promoted = FALSE, !.mode = ""]
\* Serving a revision starts verification over and withdraws older pending ones.
ServeRevision(x, r) ==
    [x EXCEPT !.revision = r, !.head = IF r > @ THEN r ELSE @,
              !.status = "pending", !.promoted = FALSE, !.mode = "",
              !.state = [q \in Revs |-> IF @[q] = "pending" /\ q < r THEN "withdrawn" ELSE @[q]]]

AppendPending(x, n, p) ==
    [x EXCEPT !.state[n] = "pending", !.author[n] = p, !.base[n] = x.head, !.head = n]

AppendServed(x, n, p) ==
    ServeRevision([x EXCEPT !.state[n] = "accepted", !.author[n] = p, !.base[n] = x.head], n)

AcceptRevision(x, r) == ServeRevision([x EXCEPT !.state[r] = "accepted"], r)

\* The head falls back to the newest pending revision, or to the served one.
RejectRevision(x, r) ==
    LET y == [x EXCEPT !.state[r] = "rejected"]
        pending == {q \in Revs : y.state[q] = "pending"}
    IN  [y EXCEPT !.head = IF pending = {} THEN x.revision
                           ELSE CHOOSE q \in pending : \A m \in pending : m <= q]

\* ApplyRetention drops the text of a revision that is neither served nor pending.
Droppable(x, r) ==
    /\ x.state[r] \notin {"none", "pending"} /\ r # x.revision /\ r \notin x.dropped
DropContent(x, r) == [x EXCEPT !.dropped = @ \cup {r}]
=============================================================================
