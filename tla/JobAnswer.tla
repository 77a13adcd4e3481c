----------------------------- MODULE JobAnswer -----------------------------
(***************************************************************************)
(* Agents answering consolidation jobs (AnswerJob of                       *)
(* workspaceops/memory_jobs_answer.go), the one caller of the store's      *)
(* leases: a request names a job, claims it in one transaction, proposes   *)
(* its answer as a memory in a second and completes the job in a third.    *)
(* Between them the request may die or the proposal may be refused; either *)
(* way the lease is not given back.                                        *)
(*                                                                         *)
(* The queue changes under a request by what the program does to it:       *)
(* enqueueing, retention, lapses and other answers.  CancelJob is no step, *)
(* because nothing in the program calls it (its callers are tests).        *)
(***************************************************************************)
EXTENDS JobStore

VARIABLES
    pc,        \* process -> where its request is
    proposed   \* job -> the answers proposed for it

avars == <<jobs, rows, lease, pc, proposed>>

\* Mutants: the lease is the request's and not its agent's; a lapsed job may be answered
\* again.
AnswerJobAsRequest(p, j) ==
    /\ pc[p] = "idle"
    /\ jobs[j].state = "queued"
    /\ ClaimJobByProcess(p, {KindOf[jobs[j].sig]}, j)
    /\ pc' = [pc EXCEPT ![p] = "claimed"]
    /\ UNCHANGED proposed
AnswerLapsedJob(p, j) ==
    /\ pc[p] = "idle"
    /\ jobs[j].state = "queued" \/ Lapsed(j)
    /\ ClaimJob(p, {KindOf[jobs[j].sig]}, j)
    /\ pc' = [pc EXCEPT ![p] = "claimed"]
    /\ UNCHANGED proposed
\* The first transaction: the job must be queued, and it must be the one ClaimJob
\* leases, the oldest claimable job of its kind; otherwise everything is rolled back.
AnswerJob(p, j) ==
    /\ pc[p] = "idle"
    /\ jobs[j].state = "queued"
    /\ ClaimJob(p, {KindOf[jobs[j].sig]}, j)
    /\ pc' = [pc EXCEPT ![p] = "claimed"]
    /\ UNCHANGED proposed

\* The answer goes through Remember, under the agent's name.
Propose(p) ==
    /\ pc[p] = "claimed"
    /\ pc' = [pc EXCEPT ![p] = "proposed"]
    /\ proposed' = [proposed EXCEPT ![lease[p].job] = @ + 1]
    /\ UNCHANGED vars

\* An answer that proposes nothing only records the decision.
Skip(p) ==
    /\ pc[p] = "claimed"
    /\ pc' = [pc EXCEPT ![p] = "proposed"]
    /\ UNCHANGED <<vars, proposed>>

Complete(p) ==
    /\ pc[p] = "proposed"
    /\ FinishJob(p, "done")
    /\ pc' = [pc EXCEPT ![p] = "idle"]
    /\ UNCHANGED proposed

\* A refused proposal returns its error; a crashed request returns nothing.
Abandon(p) ==
    /\ pc[p] # "idle"
    /\ Crash(p)
    /\ pc' = [pc EXCEPT ![p] = "idle"]
    /\ UNCHANGED proposed

AInit ==
    /\ Init
    /\ pc = [p \in Processes |-> "idle"]
    /\ proposed = [j \in Pks |-> 0]

ANext ==
    \/ \E p \in Processes :
          \/ \E j \in Pks : AnswerJob(p, j)
          \/ Propose(p) \/ Skip(p) \/ Complete(p) \/ Abandon(p)
    \/ /\ \/ \E s \in Signatures : EnqueueJob(s)
          \/ \E j \in Pks : RetainJobs(j) \/ LeaseExpires(j)
       /\ UNCHANGED <<pc, proposed>>

\* Requests run to an end, leases lapse, and agents keep answering every job.
AFairness ==
    /\ \A p \in Processes : WF_avars(Propose(p) \/ Skip(p) \/ Complete(p) \/ Abandon(p))
    /\ \A j \in Pks :
          /\ WF_avars(LeaseExpires(j) /\ UNCHANGED <<pc, proposed>>)
          /\ SF_avars(\E p \in Processes : AnswerJob(p, j))

ASpec == AInit /\ [][ANext]_avars
AFairSpec == ASpec /\ AFairness

-----------------------------------------------------------------------------
(***************************************************************************)
(* Properties                                                              *)
(***************************************************************************)

\* Rows, leases and requests have their types; a lease in the table is in the name of an
\* agent (jobActor).
ATypeOK ==
    /\ TypeOK
    /\ pc \in [Processes -> {"idle", "claimed", "proposed"}]
    /\ proposed \in [Pks -> Nat]

\* "two agents answering the same job cannot both win": one job never yields two
\* proposals, however requests, expiries and retention interleave.
AnsweredOnce == \A j \in Pks : proposed[j] <= 1

\* A request that has claimed a job and is still running can always complete it: no
\* other request, lapse or clean-up takes the job from under it.  CancelJob would, if the
\* program ever called it.
AnswerNotLost == \A p \in Processes : pc[p] # "idle" => Holds(p)

\* memory_jobs_answer.go: "jobLease is how long a claim is held before another agent
\* may take the job."  A lapsed lease is taken over or its job is finished.
LapsedLeaseRetaken ==
    \A j \in Pks : Lapsed(j) ~> (jobs[j].state \in Finished \/ ~jobs[j].expired)
=============================================================================
