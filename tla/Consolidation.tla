--------------------------- MODULE Consolidation ---------------------------
(***************************************************************************)
(* The consolidation pass (RunConsolidationPass and what it calls,         *)
(* workspaceops/memory_jobs.go, with the watermarks of govstore/jobs.go):  *)
(* it walks a bounded piece of the entry table from where the last pass    *)
(* stopped, derives questions about the memories it read, queues those     *)
(* that have no job yet and moves the watermark.  Passes overlap, fail and *)
(* are repeated, while entries are added and retired and jobs cancelled.   *)
(*                                                                         *)
(* Entries are named by their cursor (insertion order); their ids have an  *)
(* order of their own.  A question stands for its conflict signature.      *)
(* Every view and every update of the store is one action.  The queue      *)
(* holds fewer jobs than ListJobs returns (1,000).                         *)
(***************************************************************************)
EXTENDS Integers, FiniteSets, SequencesExt

CONSTANTS
    MaxEntries,    \* bound: entries ever in the table
    InitialRows,   \* entries in it to begin with
    IdRank,        \* entry -> its place in the order of ids
    AnchorsOf,     \* entry -> the sequence of its anchors
    Stale,         \* anchors that drifted or are gone
    Aged,          \* entries that are old unverified proposals
    Retirable,     \* bound: entries that may be retired
    Passes,        \* the passes that may overlap
    Page, Pages,   \* consolidationPage, consolidationPages
    AnchorBudget,  \* consolidationAnchors
    JobsPerRun,    \* consolidationJobsPerRun
    MaxCancels,    \* bound: cancelled jobs
    MaxFailures    \* bound: passes that fail or die

Window == Page * Pages * 2
Entries == 1 .. MaxEntries

ASSUME ConsolidationAssumption ==
    /\ MaxEntries \in Nat /\ InitialRows \in 0 .. MaxEntries
    /\ Retirable \subseteq Entries
    /\ AnchorBudget \in Nat \ {0}
    /\ {Page, Pages, JobsPerRun} \subseteq Nat \ {0}
    /\ \A e \in Entries : AnchorsOf[e] \in Seq(ToSet(AnchorsOf[e]))

VARIABLES
    rows,       \* how many entries the table holds
    retired,    \* those that are no longer active
    queued,     \* questions with a job that was not cancelled
    cancelled,  \* questions whose job was cancelled
    watermark,  \* the cursor the last successful pass recorded
    current,    \* passes that started since (their version is the watermark's)
    pass,       \* pass -> where it is and what it has read
    failures

vars == <<rows, retired, queued, cancelled, watermark, current, pass, failures>>

Idle == [at |-> "idle", from |-> 0, found |-> {}, cursor |-> 0, complete |-> FALSE, free |-> FALSE]

Init ==
    /\ rows = InitialRows
    /\ retired = {} /\ queued = {} /\ cancelled = {}
    /\ watermark = 0 /\ current = {}
    /\ pass = [p \in Passes |-> Idle]
    /\ failures = 0

-----------------------------------------------------------------------------
(***************************************************************************)
(* consolidationCandidates: reading entries and anchors under a budget     *)
(***************************************************************************)

\* One entry, in the order of ids: not at all once the budget is used up, its first
\* anchors when they do not all fit.
ReadEntry(s, e) ==
    LET all == AnchorsOf[e]
        room == IF Len(all) <= AnchorBudget - s.used THEN Len(all) ELSE AnchorBudget - s.used
    IN  IF s.used >= AnchorBudget THEN s
        ELSE [s EXCEPT !.used = @ + room,
                       !.kept = @ \cup {e},
                       !.anchors = @ \cup {<<e, all[i]>> : i \in 1 .. room},
                       !.partial = @ \/ room < Len(all)]

ById(S) == SetToSortSeq(S, LAMBDA e, f : IdRank[e] < IdRank[f])
LastCursorOf(S) == CHOOSE e \in S : \A f \in S : f <= e

\* Where the walk stands after a page: it stops where the budget ran out, before the
\* page if an entry was read in part.
AfterPage(s, r, page) ==
    LET kept == r.kept \ s.kept
    IN  IF kept = {} THEN [r EXCEPT !.complete = TRUE, !.stop = TRUE]
        ELSE IF r.partial THEN [r EXCEPT !.stop = TRUE]
        ELSE [r EXCEPT !.cursor = LastCursorOf(kept),
                       !.stop = kept # page \/ Cardinality(page) < Page,
                       !.complete = kept = page /\ Cardinality(page) < Page]

ReadPage(s, n) ==
    LET page == {e \in 1 .. n : s.cursor < e /\ e <= s.cursor + Page}
    IN  IF s.stop THEN s
        ELSE IF page = {} THEN [s EXCEPT !.complete = TRUE, !.stop = TRUE]
        ELSE AfterPage(s, FoldLeft(ReadEntry, s, ById(page)), page)

\* The walk of up to Pages pages over a table of n entries.  It never fills the window,
\* which is twice as long.
WalkTable(from, n) ==
    LET start == [cursor |-> from, kept |-> {}, anchors |-> {}, used |-> 0,
                  partial |-> FALSE, complete |-> FALSE, stop |-> FALSE]
        after[i \in 0 .. Pages] == IF i = 0 THEN start ELSE ReadPage(after[i - 1], n)
    IN  after[Pages]
Walks == [from, n \in 0 .. MaxEntries |-> WalkTable(from, n)]
Walk(from) == Walks[from, rows]

\* A walk that starts in the table stays in it.
WalksTyped ==
    \A from, n \in 0 .. MaxEntries : from <= n =>
        /\ Walks[from, n].kept \subseteq 1 .. n
        /\ Walks[from, n].cursor \in 0 .. n
        /\ Walks[from, n].complete \in BOOLEAN

Question(kind, members, refs) == [kind |-> kind, members |-> members, refs |-> refs]
AnchorsRead(s, e) == {a \in ToSet(AnchorsOf[e]) : <<e, a>> \in s.anchors}

\* The generators: entries on one anchor, an entry's drifted or missing anchors, and an
\* ageing proposal.  Clusters stay under consolidationMaxCluster.
AnchorQuestion(e, read) == Question("anchor", {e}, read \cap Stale)
Questions(s) ==
    LET live == s.kept \ retired
        on(a) == {e \in live : <<e, a>> \in s.anchors}
    IN  {Question("cluster", on(x[2]), {}) : x \in {y \in s.anchors : Cardinality(on(y[2])) >= 2}}
        \cup {AnchorQuestion(e, AnchorsRead(s, e)) : e \in {f \in live : AnchorsRead(s, f) \cap Stale # {}}}
        \cup {Question("ageing", {e}, {}) : e \in live \cap Aged}

-----------------------------------------------------------------------------
(***************************************************************************)
(* RunConsolidationPass                                                    *)
(***************************************************************************)

\* StartWatermark: the position and the version the pass starts from.
StartPass(p) ==
    /\ pass[p].at = "idle"
    /\ pass' = [pass EXCEPT ![p] = [Idle EXCEPT !.at = "reading", !.from = watermark]]
    /\ current' = current \cup {p}
    /\ UNCHANGED <<rows, retired, queued, cancelled, watermark, failures>>

Found(p, s, to) ==
    pass' = [pass EXCEPT ![p] = [@ EXCEPT !.at = to, !.found = Questions(s),
                                          !.cursor = s.cursor, !.complete = s.complete]]

\* From the watermark; a walk that reaches the end and finds nothing starts over.
ReadOnward(p) ==
    LET s == Walk(pass[p].from)
    IN  /\ pass[p].at = "reading"
        /\ Found(p, s, IF s.complete /\ Questions(s) = {} THEN "rereading" ELSE "checking")
        /\ UNCHANGED <<rows, retired, queued, cancelled, watermark, current, failures>>

Reread(p) ==
    /\ pass[p].at = "rereading"
    /\ Found(p, Walk(0), "checking")
    /\ UNCHANGED <<rows, retired, queued, cancelled, watermark, current, failures>>

AfterReading(x) == IF x.complete /\ ~x.free THEN "restarting" ELSE "prepared"

\* unqueuedCandidates: whether the pass has work the queue does not hold.
CheckQueue(p) ==
    LET x == [pass[p] EXCEPT !.free = pass[p].found \ queued # {}]
    IN  /\ x.at = "checking"
        /\ pass' = [pass EXCEPT ![p] =
                      [x EXCEPT !.at = IF x.from > 0 THEN "back" ELSE AfterReading(x)]]
        /\ UNCHANGED <<rows, retired, queued, cancelled, watermark, current, failures>>

\* A walk from one window back, whose questions are added.
ReadBack(p) ==
    LET x == pass[p]
        back == Walk(IF x.from > Window THEN x.from - Window ELSE 0)
    IN  /\ x.at = "back"
        /\ pass' = [pass EXCEPT ![p] = [x EXCEPT !.at = AfterReading(x), !.found = @ \cup Questions(back)]]
        /\ UNCHANGED <<rows, retired, queued, cancelled, watermark, current, failures>>

\* Nothing to add and the end of the table reached: the start may hold freed work.
Restart(p) ==
    LET s == Walk(0)
    IN  /\ pass[p].at = "restarting"
        /\ IF Questions(s) \ queued # {}
           THEN Found(p, s, "prepared")
           ELSE pass' = [pass EXCEPT ![p].at = "prepared"]
        /\ UNCHANGED <<rows, retired, queued, cancelled, watermark, current, failures>>

Queued(x) == [Idle EXCEPT !.at = "queued", !.from = x.from, !.cursor = x.cursor]

\* Mutant: the bound is applied before the queue is consulted.
EnqueueFirst(p) ==
    LET taken == CHOOSE S \in SUBSET pass[p].found :
                    \/ Cardinality(S) = JobsPerRun
                    \/ S = pass[p].found /\ Cardinality(S) <= JobsPerRun
    IN  /\ pass[p].at = "prepared"
        /\ queued' = queued \cup taken
        /\ pass' = [pass EXCEPT ![p] = Queued(@)]
        /\ UNCHANGED <<rows, retired, cancelled, watermark, current, failures>>
\* The questions without a job are taken first, up to the bound, in signature order.
Enqueue(p) ==
    LET new == pass[p].found \ queued
        n == IF Cardinality(new) < JobsPerRun THEN Cardinality(new) ELSE JobsPerRun
    IN  /\ pass[p].at = "prepared"
        /\ \E S \in SUBSET new : Cardinality(S) = n /\ queued' = queued \cup S
        /\ pass' = [pass EXCEPT ![p] = Queued(@)]
        /\ UNCHANGED <<rows, retired, cancelled, watermark, current, failures>>

\* Mutants: the position after what was read, where AfterCursor excludes the position
\* itself, and no compare-and-set.
AdvanceBeyond(p) ==
    /\ pass[p].at = "queued"
    /\ pass' = [pass EXCEPT ![p] = Idle]
    /\ \/ /\ p \in current
          /\ watermark' = pass[p].cursor + 1
          /\ current' = {}
       \/ p \notin current /\ UNCHANGED <<watermark, current>>
    /\ UNCHANGED <<rows, retired, queued, cancelled, failures>>
AdvanceAnyway(p) ==
    /\ pass[p].at = "queued"
    /\ pass' = [pass EXCEPT ![p] = Idle]
    /\ watermark' = pass[p].cursor
    /\ current' = current \ {p}
    /\ UNCHANGED <<rows, retired, queued, cancelled, failures>>
\* AdvanceWatermark compares versions: a pass that another one overtook is refused.
Advance(p) ==
    /\ pass[p].at = "queued"
    /\ pass' = [pass EXCEPT ![p] = Idle]
    /\ \/ /\ p \in current
          /\ watermark' = pass[p].cursor
          /\ current' = {}
       \/ p \notin current /\ UNCHANGED <<watermark, current>>
    /\ UNCHANGED <<rows, retired, queued, cancelled, failures>>

\* An error or a crash between two transactions.
Fail(p) ==
    /\ pass[p].at # "idle" /\ failures < MaxFailures
    /\ pass' = [pass EXCEPT ![p] = Idle]
    /\ failures' = failures + 1
    /\ current' = current \ {p}
    /\ UNCHANGED <<rows, retired, queued, cancelled, watermark>>

-----------------------------------------------------------------------------
(***************************************************************************)
(* The rest of the store                                                   *)
(***************************************************************************)

AddEntry ==
    /\ rows < MaxEntries
    /\ rows' = rows + 1
    /\ UNCHANGED <<retired, queued, cancelled, watermark, current, pass, failures>>

RetireEntry(e) ==
    /\ e <= rows /\ e \notin retired
    /\ retired' = retired \cup {e}
    /\ UNCHANGED <<rows, queued, cancelled, watermark, current, pass, failures>>

\* CancelJob: the signature is free again.
CancelJob(q) ==
    /\ Cardinality(cancelled) < MaxCancels
    /\ queued' = queued \ {q}
    /\ cancelled' = cancelled \cup {q}
    /\ UNCHANGED <<rows, retired, watermark, current, pass, failures>>

Proceed(p) ==
    \/ StartPass(p) \/ ReadOnward(p) \/ Reread(p) \/ CheckQueue(p) \/ ReadBack(p)
    \/ Restart(p) \/ Enqueue(p) \/ Advance(p)

Next ==
    \/ \E p \in Passes : Proceed(p) \/ Fail(p)
    \/ AddEntry
    \/ \E e \in Retirable : RetireEntry(e)
    \/ \E q \in queued : CancelJob(q)

Spec == Init /\ [][Next]_vars

\* The operator's loop (xmustard-ops memory jobs-run) keeps running passes.
FairSpec == Spec /\ \A p \in Passes : WF_vars(Proceed(p))

-----------------------------------------------------------------------------
(***************************************************************************)
(* Properties                                                              *)
(***************************************************************************)

Kinds == {"cluster", "anchor", "ageing"}
Anchors == UNION {ToSet(AnchorsOf[e]) : e \in Entries}
Stages == {"idle", "reading", "rereading", "checking", "back", "restarting", "prepared", "queued"}
AnyQuestion == [kind : Kinds, members : SUBSET Entries, refs : SUBSET Anchors]

\* The table, the queue, the watermark and the passes have their types.
ConsolidationTypeOK ==
    /\ rows \in 0 .. MaxEntries
    /\ retired \subseteq Entries
    /\ queued \cup cancelled \subseteq AnyQuestion
    /\ watermark \in 0 .. rows
    /\ current \subseteq Passes
    /\ \A p \in Passes :
          /\ pass[p].at \in Stages
          /\ pass[p].from \in 0 .. rows /\ pass[p].cursor \in 0 .. rows
          /\ pass[p].found \subseteq AnyQuestion
          /\ pass[p].complete \in BOOLEAN /\ pass[p].free \in BOOLEAN

\* "a pass that overlapped another is refused rather than silently merged over it": a
\* pass that may still move the watermark started from where the watermark is now.
NoLostAdvance == \A p \in current : pass[p].at # "idle" /\ pass[p].from = watermark

Asked == queued \cup cancelled
Live(e) == e <= rows /\ e \notin retired

\* Tables in which the budget neither skips an entry nor holds the cursor: ids are given
\* in insertion order, and the anchors of Page entries fit into one budget.
IdsInOrder == \A e, f \in Entries : e < f => IdRank[e] < IdRank[f]
PagesFit ==
    \A e \in Entries :
        LET page == {f \in Entries : e <= f /\ f < e + Page}
        IN  Cardinality(UNION {{f} \X DOMAIN AnchorsOf[f] : f \in page}) <= AnchorBudget

\* No memory is starved in such a table: every ageing proposal and every drifted anchor
\* is asked about in the end, although a pass reads a piece of the table, stops where its
\* budget ends in the middle of a page, queues a bounded number of jobs, and passes overlap
\* and fail.  In other tables entries are starved (DroppedReadAgain).
EveryQuestionAsked ==
    (IdsInOrder /\ PagesFit) =>
    /\ \A e \in Aged : Live(e) ~> (~Live(e) \/ Question("ageing", {e}, {}) \in Asked)
    /\ \A e \in Entries : LET q == AnchorQuestion(e, ToSet(AnchorsOf[e])) IN
          q.refs # {} => (Live(e) ~> (~Live(e) \/ q \in Asked))

\* memory_jobs.go, consolidationCandidates, of an entry the anchor budget did not reach:
\* "It is not kept, so the cursor stops behind it and the next pass reads it: an entry
\* dropped silently here would never be looked at again."
DroppedReadAgain ==
    \A e \in Entries : LET q == AnchorQuestion(e, ToSet(AnchorsOf[e])) IN
        q.refs # {} => ((Live(e) /\ e <= watermark) ~> (~Live(e) \/ q \in Asked))

\* memory_jobs.go, RunConsolidationPass: "the pass reads from the cursor back through the
\* window, which is what makes two memories sharing an anchor candidates for each other
\* however the boundary fell."
PairsMet ==
    \A e, f \in Entries :
        (e < f /\ f - e < Window /\ ToSet(AnchorsOf[e]) \cap ToSet(AnchorsOf[f]) # {}) =>
            ((Live(e) /\ Live(f)) ~>
                (~Live(e) \/ ~Live(f) \/ \E q \in Asked : {e, f} \subseteq q.members))
=============================================================================
