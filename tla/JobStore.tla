------------------------------ MODULE JobStore ------------------------------
(***************************************************************************)
(* The consolidation work queue of the governance store                    *)
(* (api-go/internal/govstore/jobs.go): jobs under compare-and-set leases,  *)
(* claimed, renewed and finished by processes that may stop at any moment. *)
(*                                                                         *)
(* Every store method is one write transaction, so one action.  A process  *)
(* remembers the lease it was given (job and version; the owner is its     *)
(* principal) and may act on it long after it lapsed.  Time is abstracted  *)
(* to one bit per lease: whether lease_expires_at has passed.              *)
(***************************************************************************)
EXTENDS Naturals, FiniteSets

CONSTANTS
    MaxJobs,      \* bound: rows the table ever holds
    Signatures,   \* the conflict signatures of the work to be prepared
    Kinds,        \* job kinds
    KindOf,       \* signature -> kind
    Processes,    \* the callers that hold leases
    Principal,    \* process -> the principal it acts for (lease_owner)
    Nobody,       \* the empty lease_owner
    MaxAttempts   \* max_attempts of every job

ASSUME JobAssumption ==
    /\ MaxJobs \in Nat
    /\ MaxAttempts \in Nat \ {0}
    /\ KindOf \in [Signatures -> Kinds]
    /\ \A p \in Processes : Principal[p] # Nobody
    /\ IsFiniteSet(Processes)

VARIABLES
    jobs,    \* the jobs table by pk, which orders it
    rows,    \* how many rows were ever inserted
    lease    \* process -> the lease it believes it holds

vars == <<jobs, rows, lease>>

Pks == 1 .. MaxJobs
Owners == {Principal[p] : p \in Processes}
Finished == {"done", "failed", "cancelled"}

\* "none": not inserted yet; "deleted": removed by retention.
States == {"none", "queued", "leased", "deleted"} \cup Finished
Job == [state : States, sig : Signatures, owner : Owners \cup {Nobody},
        expired : BOOLEAN, version : Nat, attempts : Nat]
NoLease == [job |-> 0, version |-> 0]
Lease == [job : Pks, version : Nat] \cup {NoLease}

NewJob(s) ==
    [state |-> "queued", sig |-> s, owner |-> Nobody, expired |-> FALSE, version |-> 0, attempts |-> 0]

-----------------------------------------------------------------------------
(***************************************************************************)
(* The store's operations                                                  *)
(***************************************************************************)

\* Mutant: only a queued job blocks its signature.
HasQueuedJob(s) == \E j \in Pks : jobs[j].sig = s /\ jobs[j].state = "queued"
\* The signature has a job in any state but cancelled.
HasJob(s) ==
    \E j \in Pks : jobs[j].sig = s /\ jobs[j].state \notin {"none", "deleted", "cancelled"}

EnqueueJob(s) ==
    /\ rows < MaxJobs
    /\ ~HasJob(s)
    /\ rows' = rows + 1
    /\ jobs' = [jobs EXCEPT ![rows + 1] = NewJob(s)]
    /\ UNCHANGED lease

Lapsed(j) == jobs[j].state = "leased" /\ jobs[j].expired
\* Mutant: a lapsed lease is nobody's to take.
ClaimableQueued(ks) == {j \in Pks : KindOf[jobs[j].sig] \in ks /\ jobs[j].state = "queued"}
Claimable(ks) == {j \in Pks : KindOf[jobs[j].sig] \in ks /\ (jobs[j].state = "queued" \/ Lapsed(j))}
\* Mutant: one attempt too many.
ExhaustedLate(j) == Lapsed(j) /\ jobs[j].attempts > MaxAttempts
Exhausted(j) == Lapsed(j) /\ jobs[j].attempts >= MaxAttempts

Finish(j, state) == [jobs[j] EXCEPT !.state = state, !.owner = Nobody, !.expired = FALSE]

\* The scan of ClaimJob, oldest first: exhausted jobs on the way to j become failed.
FailedBefore(ks, j) == {i \in Claimable(ks) : Exhausted(i) /\ i < j}
Oldest(ks, j) ==
    /\ j \in Claimable(ks) /\ ~Exhausted(j)
    /\ \A i \in Claimable(ks) : i < j => Exhausted(i)

\* The scan gives up after maxListLimit (1,000) exhausted jobs: it returns ErrBusy and
\* the failures it wrote are rolled back.  The table has fewer rows here.
\* Mutants: the version stays, or the owner is the process and not its principal.
ClaimJobUnversioned(p, ks, j) ==
    /\ Oldest(ks, j)
    /\ jobs' = [i \in Pks |->
                  IF i = j THEN [jobs[j] EXCEPT !.state = "leased", !.owner = Principal[p],
                                                !.expired = FALSE, !.attempts = @ + 1]
                  ELSE IF i \in FailedBefore(ks, j) THEN Finish(i, "failed")
                  ELSE jobs[i]]
    /\ lease' = [lease EXCEPT ![p] = [job |-> j, version |-> jobs[j].version]]
    /\ UNCHANGED rows
ClaimJobByProcess(p, ks, j) ==
    /\ Oldest(ks, j)
    /\ jobs' = [jobs EXCEPT ![j].state = "leased", ![j].owner = p, ![j].expired = FALSE,
                            ![j].version = @ + 1, ![j].attempts = @ + 1]
    /\ lease' = [lease EXCEPT ![p] = [job |-> j, version |-> jobs[j].version + 1]]
    /\ UNCHANGED rows
ClaimJob(p, ks, j) ==
    /\ Oldest(ks, j)
    /\ jobs' = [i \in Pks |->
                  IF i = j THEN [jobs[j] EXCEPT !.state = "leased", !.owner = Principal[p],
                                                !.expired = FALSE, !.version = @ + 1, !.attempts = @ + 1]
                  ELSE IF i \in FailedBefore(ks, j) THEN Finish(i, "failed")
                  ELSE jobs[i]]
    /\ lease' = [lease EXCEPT ![p] = [job |-> j, version |-> jobs[j].version + 1]]
    /\ UNCHANGED rows

\* A scan that finds nothing to lease still fails the exhausted jobs it met.
ClaimNothing(ks) ==
    /\ Claimable(ks) # {}
    /\ \A j \in Claimable(ks) : Exhausted(j)
    /\ jobs' = [i \in Pks |-> IF i \in Claimable(ks) THEN Finish(i, "failed") ELSE jobs[i]]
    /\ UNCHANGED <<rows, lease>>

\* leaseUpdate's compare-and-set. The expiry is not looked at.
Holds(p) ==
    LET l == lease[p] IN
    /\ l # NoLease
    /\ jobs[l.job].state = "leased"
    /\ jobs[l.job].owner = Principal[p]
    /\ jobs[l.job].version = l.version

RenewLease(p) ==
    /\ Holds(p)
    /\ jobs' = [jobs EXCEPT ![lease[p].job].expired = FALSE]
    /\ UNCHANGED <<rows, lease>>

\* CompleteJob and FailJob. The process has no more use for its lease.
FinishJob(p, state) ==
    /\ Holds(p)
    /\ state \in {"done", "failed"}
    /\ jobs' = [jobs EXCEPT ![lease[p].job] = Finish(lease[p].job, state)]
    /\ lease' = [lease EXCEPT ![p] = NoLease]
    /\ UNCHANGED rows

\* Mutant: a finished job can be cancelled.
CancelAnyJob(j) ==
    /\ jobs[j].state \notin {"none", "deleted"}
    /\ jobs' = [jobs EXCEPT ![j] = Finish(j, "cancelled")]
    /\ UNCHANGED <<rows, lease>>
CancelJob(j) ==
    /\ jobs[j].state \in {"queued", "leased"}
    /\ jobs' = [jobs EXCEPT ![j] = Finish(j, "cancelled")]
    /\ UNCHANGED <<rows, lease>>

\* Mutant: a leased job is deleted too.
RetainLeasedJobs(j) ==
    /\ jobs[j].state \in Finished \cup {"leased"}
    /\ jobs' = [jobs EXCEPT ![j].state = "deleted"]
    /\ UNCHANGED <<rows, lease>>
\* ApplyRetention deletes finished jobs; the signature is free again.
RetainJobs(j) ==
    /\ jobs[j].state \in Finished
    /\ jobs' = [jobs EXCEPT ![j].state = "deleted"]
    /\ UNCHANGED <<rows, lease>>

-----------------------------------------------------------------------------
(***************************************************************************)
(* The callers and the clock                                               *)
(***************************************************************************)

LeaseExpires(j) ==
    /\ jobs[j].state = "leased" /\ ~jobs[j].expired
    /\ jobs' = [jobs EXCEPT ![j].expired = TRUE]
    /\ UNCHANGED <<rows, lease>>

\* The process stops, or gives up on a refusal, and forgets its lease.
Crash(p) ==
    /\ lease[p] # NoLease
    /\ lease' = [lease EXCEPT ![p] = NoLease]
    /\ UNCHANGED <<jobs, rows>>

\* A process works on one job at a time and claims among all kinds or one.
Claim(p) ==
    \E ks \in {Kinds} \cup {{k} : k \in Kinds} :
        \/ lease[p] = NoLease /\ \E j \in Pks : ClaimJob(p, ks, j)
        \/ ClaimNothing(ks)

Init ==
    /\ \E s \in Signatures : jobs = [j \in Pks |-> [NewJob(s) EXCEPT !.state = "none"]]
    /\ rows = 0
    /\ lease = [p \in Processes |-> NoLease]

Next ==
    \/ \E s \in Signatures : EnqueueJob(s)
    \/ \E p \in Processes :
          \/ Claim(p)
          \/ RenewLease(p)
          \/ \E state \in {"done", "failed"} : FinishJob(p, state)
          \/ Crash(p)
    \/ \E j \in Pks : CancelJob(j) \/ RetainJobs(j) \/ LeaseExpires(j)

\* A worker that holds a lease finishes its job or stops; a lease that is not renewed
\* runs out; someone keeps asking for work of every kind.
Fairness ==
    /\ \A p \in Processes : WF_vars(Crash(p) \/ \E state \in {"done", "failed"} : FinishJob(p, state))
    /\ \A j \in Pks : WF_vars(LeaseExpires(j))
    /\ WF_vars(\E p \in Processes : Claim(p))

Spec == Init /\ [][Next]_vars
FairSpec == Spec /\ Fairness

-----------------------------------------------------------------------------
(***************************************************************************)
(* Properties                                                              *)
(***************************************************************************)

\* Rows, their count and the processes' leases have their types.
TypeOK ==
    /\ jobs \in [Pks -> Job]
    /\ rows \in 0 .. MaxJobs
    /\ lease \in [Processes -> Lease]

\* A lease is a fencing token: of all the processes that were ever told they hold a job
\* and have not forgotten it, at most one is the holder, two processes of the same
\* principal included, so a holder that wakes up after its lease lapsed and was taken
\* over cannot finish the job under the new holder (leaseUpdate).
OneHolder ==
    \A p, q \in Processes :
        (lease[p] # NoLease /\ lease[p].job = lease[q].job /\ Holds(p) /\ Holds(q)) => p = q

\* One job per signature that was not cancelled: work is never prepared twice, whichever
\* of enqueueing, cancelling and retention come between (EnqueueJob, jobs_signature).
OneJobPerSignature ==
    \A i, j \in Pks :
        ( /\ jobs[i].sig = jobs[j].sig
          /\ {jobs[i].state, jobs[j].state} \cap {"none", "deleted", "cancelled"} = {}) => i = j

\* Crashes cost a job at most MaxAttempts leases, and a queued job was never leased:
\* there is no way back from leased to queued (ClaimJob).
AttemptsBounded ==
    \A j \in Pks :
        /\ jobs[j].attempts <= MaxAttempts
        /\ jobs[j].version = jobs[j].attempts
        /\ jobs[j].state = "queued" => jobs[j].attempts = 0

\* "a failed job is reported, never relaunched": a finished job keeps its outcome until
\* retention removes the row (leaseUpdate, CancelJob, ClaimJob's conditions).
FinalStep ==
    \A j \in Pks :
        /\ jobs[j].state \in Finished => jobs'[j].state \in {jobs[j].state, "deleted"}
        /\ jobs[j].state = "deleted" => jobs'[j].state = "deleted"
FinishedFinal == [][FinalStep]_vars

\* No job is lost to a crash: every job that was enqueued is finished in the end,
\* because a lapsed lease is claimable again until its attempts run out.  This is what
\* the store offers to callers that keep asking, while fewer jobs than ClaimJob scans are
\* exhausted; AnswerJob, the program's one caller, does not (LapsedLeaseRetaken).
JobsFinish ==
    \A j \in Pks : jobs[j].state \in {"queued", "leased"} ~> jobs[j].state \in Finished
=============================================================================
