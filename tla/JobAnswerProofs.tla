-------------------------- MODULE JobAnswerProofs --------------------------
(***************************************************************************)
(* Answering jobs implements the work queue, and for any number of agents  *)
(* and jobs an answer is given once and not taken from under its request,  *)
(* provided a job has more than one attempt (EnqueueJob's default is 3).   *)
(***************************************************************************)
EXTENDS JobAnswer, JobStoreProofs

\* A running request holds its job, and an idle process believes in no lease.
RequestsHold ==
    \A p \in Processes :
        /\ pc[p] = "idle" <=> lease[p] = NoLease
        /\ pc[p] # "idle" => Holds(p)

\* AnswerJob claims queued jobs only, so none is ever leased a second time.
LeasedOnce == \A j \in Pks : jobs[j].attempts <= 1

\* A job nobody has claimed has no answer, nor has one whose request is before Remember.
UnansweredYet ==
    /\ \A j \in Pks : jobs[j].state \in {"none", "queued"} => proposed[j] = 0
    /\ \A p \in Processes : pc[p] = "claimed" => proposed[lease[p].job] = 0

\* The inductive invariant, beside the queue's own.
AInv == ATypeOK /\ RequestsHold /\ LeasedOnce /\ UnansweredYet /\ AnsweredOnce

USE JobAssumption

\* The first requests find nothing done.
LEMMA AInitInvariant == AInit => IInv /\ AInv
  <1> SUFFICES ASSUME AInit PROVE IInv /\ AInv
      OBVIOUS
  <1>1. IInv
      BY InitInvariant DEF AInit
  <1>2. ATypeOK
      BY <1>1 DEF AInit, ATypeOK, IInv
  <1>3. RequestsHold
      BY DEF AInit, Init, RequestsHold
  <1>4. LeasedOnce
      BY DEF AInit, Init, LeasedOnce, NewJob, Pks
  <1>5. UnansweredYet /\ AnsweredOnce
      BY DEF AInit, UnansweredYet, AnsweredOnce
  <1> QED BY <1>1, <1>2, <1>3, <1>4, <1>5 DEF AInv

\* Every step of a request is a step of the queue, or leaves the queue alone.
LEMMA AnswerStep == AInv /\ [ANext]_avars => [Next]_vars
  <1> SUFFICES ASSUME AInv, ANext PROVE [Next]_vars
      BY DEF avars, vars
  <1>1. ASSUME NEW p \in Processes, NEW j \in Pks, AnswerJob(p, j) PROVE Next
      <2>1. lease[p] = NoLease
          BY <1>1 DEF AnswerJob, AInv, RequestsHold
      <2>2. KindOf[jobs[j].sig] \in Kinds
          BY DEF AInv, ATypeOK, TypeOK, Job
      <2> DEFINE ks == {KindOf[jobs[j].sig]}
      <2>3. ks \in {Kinds} \cup {{k} : k \in Kinds}
          BY <2>2
      <2>4. ClaimJob(p, ks, j)
          BY <1>1 DEF AnswerJob
      <2> HIDE DEF ks
      <2>5. Claim(p)
          BY <2>1, <2>3, <2>4 DEF Claim
      <2> QED BY <2>5 DEF Next
  <1>2. ASSUME NEW p \in Processes, Propose(p) \/ Skip(p) PROVE UNCHANGED vars
      BY <1>2 DEF Propose, Skip
  <1>3. ASSUME NEW p \in Processes, Complete(p) PROVE Next
      BY <1>3 DEF Complete, Next
  <1>4. ASSUME NEW p \in Processes, Abandon(p) PROVE Next
      BY <1>4 DEF Abandon, Next
  <1>5. ASSUME NEW s \in Signatures, EnqueueJob(s) PROVE Next
      BY <1>5 DEF Next
  <1>6. ASSUME NEW j \in Pks, RetainJobs(j) \/ LeaseExpires(j) PROVE Next
      BY <1>6 DEF Next
  <1> QED BY <1>1, <1>2, <1>3, <1>4, <1>5, <1>6 DEF ANext

\* The queue's own invariant survives the requests.
LEMMA QueuePreserved == IInv /\ AInv /\ [ANext]_avars => IInv'
  BY AnswerStep, TypePreserved, FencingPreserved, SignaturesPreserved, AttemptsPreserved DEF IInv

\* A claim takes one queued job, fails nobody else's and leaves the other rows alone.
LEMMA ClaimTakesOne ==
  ASSUME MaxAttempts > 1, IInv, AInv, NEW p \in Processes, NEW j \in Pks, AnswerJob(p, j)
  PROVE  /\ \A i \in Pks : i # j => jobs'[i] = jobs[i]
         /\ jobs'[j].state = "leased" /\ jobs'[j].owner = Principal[p]
         /\ jobs'[j].version = jobs[j].version + 1 /\ jobs'[j].attempts = 1
         /\ lease' = [lease EXCEPT ![p] = [job |-> j, version |-> jobs[j].version + 1]]
         /\ jobs[j].state = "queued"
  <1>1. FailedBefore({KindOf[jobs[j].sig]}, j) = {}
      <2> SUFFICES ASSUME NEW i \in Pks, Exhausted(i) PROVE FALSE
          BY DEF FailedBefore, Claimable
      <2>1. jobs[i] \in Job /\ jobs[i].attempts <= 1
          BY DEF AInv, LeasedOnce, ATypeOK, TypeOK
      <2> QED BY <2>1 DEF Exhausted, Job
  <1>2. jobs[j] \in Job /\ jobs[j].state = "queued" /\ jobs[j].attempts = 0
      BY DEF AnswerJob, IInv, AttemptsBounded, TypeOK
  <1>3. /\ jobs' = [i \in Pks |->
                      IF i = j THEN [jobs[j] EXCEPT !.state = "leased", !.owner = Principal[p],
                                       !.expired = FALSE, !.version = @ + 1, !.attempts = @ + 1]
                      ELSE jobs[i]]
        /\ lease' = [lease EXCEPT ![p] = [job |-> j, version |-> jobs[j].version + 1]]
      BY <1>1 DEF AnswerJob, ClaimJob
  <1>4. \A i \in Pks : i # j => jobs'[i] = jobs[i]
      BY <1>3
  <1>5. jobs'[j] = [jobs[j] EXCEPT !.state = "leased", !.owner = Principal[p],
                                   !.expired = FALSE, !.version = @ + 1, !.attempts = @ + 1]
      BY <1>3
  <1>6. /\ jobs'[j].state = "leased" /\ jobs'[j].owner = Principal[p]
        /\ jobs'[j].version = jobs[j].version + 1 /\ jobs'[j].attempts = 1
      BY <1>2, <1>5 DEF Job
  <1> QED BY <1>2, <1>3, <1>4, <1>6

\* Nothing takes a job from under a running request.
LEMMA AnswerPreserved ==
  ASSUME MaxAttempts > 1, IInv, AInv, [ANext]_avars
  PROVE  AInv'
  <1>0. IInv'
      BY QueuePreserved
  <1> USE DEF IInv, TypeOK, Pks
  <1>1. ASSUME NEW p \in Processes, NEW j \in Pks, AnswerJob(p, j) PROVE AInv'
      <2>1. /\ \A i \in Pks : i # j => jobs'[i] = jobs[i]
            /\ jobs'[j].state = "leased" /\ jobs'[j].owner = Principal[p]
            /\ jobs'[j].version = jobs[j].version + 1 /\ jobs'[j].attempts = 1
            /\ lease' = [lease EXCEPT ![p] = [job |-> j, version |-> jobs[j].version + 1]]
            /\ jobs[j].state = "queued"
          BY <1>1, ClaimTakesOne
      <2>2. pc' = [pc EXCEPT ![p] = "claimed"] /\ proposed' = proposed
          BY <1>1 DEF AnswerJob
      <2>3. ATypeOK'
          BY <1>0, <2>2 DEF AInv, ATypeOK
      <2>4. RequestsHold'
          BY <2>1, <2>2 DEF AInv, ATypeOK, RequestsHold, Holds, NoLease, Lease
      <2>5. LeasedOnce'
          BY <2>1 DEF AInv, LeasedOnce
      <2>6. UnansweredYet'
          BY <2>1, <2>2 DEF AInv, ATypeOK, UnansweredYet
      <2>7. AnsweredOnce'
          BY <2>2 DEF AInv, AnsweredOnce
      <2> QED BY <2>3, <2>4, <2>5, <2>6, <2>7 DEF AInv
  <1>2. ASSUME NEW p \in Processes, Propose(p) PROVE AInv'
      <2>1. Holds(p) /\ lease[p].job \in Pks /\ proposed[lease[p].job] = 0
          BY <1>2 DEF Propose, AInv, RequestsHold, UnansweredYet, Holds, Lease, NoLease
      <2>2. /\ pc' = [pc EXCEPT ![p] = "proposed"]
            /\ proposed' = [proposed EXCEPT ![lease[p].job] = 1]
            /\ jobs' = jobs /\ lease' = lease
          BY <1>2, <2>1 DEF Propose, vars
      <2>3. ATypeOK'
          BY <1>0, <2>1, <2>2 DEF AInv, ATypeOK
      <2>4. RequestsHold' /\ LeasedOnce'
          BY <1>2, <2>2 DEF AInv, ATypeOK, RequestsHold, Holds, LeasedOnce, Propose
      <2>5. UnansweredYet'
          <3>1. ASSUME NEW q \in Processes, pc'[q] = "claimed" PROVE lease[q].job # lease[p].job
              <4>1. q # p /\ Holds(q)
                  BY <3>1, <2>2 DEF AInv, ATypeOK, RequestsHold
              <4>2. SUFFICES ASSUME lease[q].job = lease[p].job PROVE FALSE
                  OBVIOUS
              <4>3. lease[p] = lease[q] /\ lease[p] # NoLease
                  BY <2>1, <4>1, <4>2 DEF Holds, Lease
              <4> QED BY <4>1, <4>3 DEF LeasesFenced
          <3>2. jobs[lease[p].job].state = "leased"
              BY <2>1 DEF Holds
          <3> QED BY <2>1, <2>2, <3>1, <3>2 DEF AInv, ATypeOK, UnansweredYet, RequestsHold, Lease
      <2>6. AnsweredOnce'
          BY <2>1, <2>2 DEF AInv, ATypeOK, AnsweredOnce
      <2> QED BY <2>3, <2>4, <2>5, <2>6 DEF AInv
  <1>3. ASSUME NEW p \in Processes, Skip(p) PROVE AInv'
      BY <1>0, <1>3 DEF Skip, vars, AInv, ATypeOK, RequestsHold, Holds, LeasedOnce, UnansweredYet, AnsweredOnce
  <1>4. ASSUME NEW p \in Processes, Complete(p) PROVE AInv'
      <2>1. /\ lease[p].job \in Pks
            /\ jobs' = [jobs EXCEPT ![lease[p].job] = Finish(lease[p].job, "done")]
            /\ lease' = [lease EXCEPT ![p] = NoLease]
            /\ pc' = [pc EXCEPT ![p] = "idle"] /\ proposed' = proposed
          BY <1>4 DEF Complete, FinishJob, Holds, Lease
      <2>2. /\ Finish(lease[p].job, "done").state = "done"
            /\ Finish(lease[p].job, "done").attempts = jobs[lease[p].job].attempts
          BY <2>1, FinishRow DEF Finished
      <2>3. ATypeOK'
          BY <1>0, <2>1 DEF AInv, ATypeOK
      <2>4. ASSUME NEW q \in Processes, q # p, pc[q] # "idle" PROVE lease[q].job # lease[p].job
          <3>1. Holds(p) /\ Holds(q) /\ lease[p] # NoLease
              BY <1>4, <2>4 DEF Complete, FinishJob, Holds, AInv, RequestsHold
          <3>2. SUFFICES ASSUME lease[q].job = lease[p].job PROVE FALSE
              OBVIOUS
          <3>3. lease[p] = lease[q]
              BY <3>1, <3>2 DEF Holds, Lease
          <3> QED BY <2>4, <3>1, <3>3 DEF LeasesFenced
      <2>5. RequestsHold'
          BY <2>1, <2>4 DEF AInv, ATypeOK, RequestsHold, Holds, Lease
      <2>6. LeasedOnce'
          BY <2>1, <2>2 DEF AInv, LeasedOnce
      <2>7. UnansweredYet' /\ AnsweredOnce'
          BY <2>1, <2>2 DEF AInv, ATypeOK, UnansweredYet, AnsweredOnce
      <2> QED BY <2>3, <2>5, <2>6, <2>7 DEF AInv
  <1>5. ASSUME NEW p \in Processes, Abandon(p) PROVE AInv'
      BY <1>0, <1>5 DEF Abandon, Crash, AInv, ATypeOK, RequestsHold, Holds, LeasedOnce, UnansweredYet, AnsweredOnce
  <1>6. ASSUME NEW s \in Signatures, EnqueueJob(s), UNCHANGED <<pc, proposed>> PROVE AInv'
      <2>1. /\ jobs[rows + 1].state = "none" /\ rows + 1 \in Pks
            /\ jobs' = [jobs EXCEPT ![rows + 1] = NewJob(s)] /\ lease' = lease
          BY <1>6 DEF EnqueueJob, RowsSound
      <2>2. \A p \in Processes : lease[p].job # rows + 1
          BY DEF RowsSound, Lease, NoLease
      <2>3. RequestsHold'
          BY <1>6, <2>1, <2>2 DEF AInv, RequestsHold, Holds
      <2>4. LeasedOnce' /\ UnansweredYet' /\ AnsweredOnce'
          BY <1>6, <2>1 DEF AInv, LeasedOnce, UnansweredYet, AnsweredOnce, NewJob
      <2> QED BY <1>0, <1>6, <2>3, <2>4 DEF AInv, ATypeOK
  <1>7. ASSUME NEW j \in Pks, RetainJobs(j) \/ LeaseExpires(j), UNCHANGED <<pc, proposed>> PROVE AInv'
      <2>1. /\ lease' = lease
            /\ \A i \in Pks : /\ jobs'[i].attempts = jobs[i].attempts
                              /\ jobs'[i].version = jobs[i].version /\ jobs'[i].owner = jobs[i].owner
                              /\ jobs[i].state = "leased" => jobs'[i].state = "leased"
                              /\ jobs'[i].state \in {"none", "queued"} => jobs[i].state = jobs'[i].state
          <3>1. CASE RetainJobs(j)
              BY <3>1 DEF RetainJobs, Finished, Job
          <3>2. CASE LeaseExpires(j)
              BY <3>2 DEF LeaseExpires, Job
          <3> QED BY <1>7, <3>1, <3>2
      <2>2. pc' = pc /\ proposed' = proposed
          BY <1>7
      <2>3. RequestsHold'
          <3> SUFFICES ASSUME NEW p \in Processes, pc[p] # "idle" PROVE Holds(p)'
              BY <2>1, <2>2 DEF AInv, RequestsHold
          <3>1. Holds(p) /\ lease[p].job \in Pks
              BY DEF AInv, RequestsHold, Holds, Lease
          <3> QED BY <2>1, <3>1 DEF Holds
      <2>4. LeasedOnce'
          BY <2>1 DEF AInv, LeasedOnce
      <2>5. UnansweredYet'
          BY <2>1, <2>2 DEF AInv, UnansweredYet
      <2>6. AnsweredOnce'
          BY <2>2 DEF AInv, AnsweredOnce
      <2> QED BY <1>0, <2>2, <2>3, <2>4, <2>5, <2>6 DEF AInv, ATypeOK
  <1>8. ASSUME UNCHANGED avars PROVE AInv'
      BY <1>8 DEF avars, AInv, ATypeOK, RequestsHold, Holds, LeasedOnce, UnansweredYet, AnsweredOnce
  <1> QED BY <1>1, <1>2, <1>3, <1>4, <1>5, <1>6, <1>7, <1>8 DEF ANext

\* The inductive invariant holds in every reachable state, if a job has two attempts.
THEOREM AnswerInvariant == ASSUME MaxAttempts > 1 PROVE ASpec => [](IInv /\ AInv)
  <1>1. AInit => IInv /\ AInv
      BY AInitInvariant
  <1>2. (IInv /\ AInv) /\ [ANext]_avars => (IInv /\ AInv)'
      BY QueuePreserved, AnswerPreserved
  <1> QED BY <1>1, <1>2, PTL DEF ASpec

\* AnswerJob is a user of the queue and nothing more: every behaviour of requests is a
\* behaviour of the work queue, so all its theorems hold while agents answer.
THEOREM AnswerImplementsQueue == ASSUME MaxAttempts > 1 PROVE ASpec => Spec
  <1>1. AInit => Init
      BY DEF AInit
  <1>2. AInv /\ [ANext]_avars => [Next]_vars
      BY AnswerStep
  <1> QED BY <1>1, <1>2, AnswerInvariant, PTL DEF ASpec, Spec

\* Rows, leases and requests have their types.
THEOREM AnswerTypes == ASSUME MaxAttempts > 1 PROVE ASpec => []ATypeOK
  <1>1. AInv => ATypeOK
      BY DEF AInv
  <1> QED BY <1>1, AnswerInvariant, PTL

\* "two agents answering the same job cannot both win" (memory_jobs_answer.go): one job
\* yields at most one proposal.
THEOREM AnsweredOnceTheorem == ASSUME MaxAttempts > 1 PROVE ASpec => []AnsweredOnce
  <1>1. AInv => AnsweredOnce
      BY DEF AInv
  <1> QED BY <1>1, AnswerInvariant, PTL

\* The third transaction of AnswerJob never finds its lease gone while the request runs.
THEOREM NotLostTheorem == ASSUME MaxAttempts > 1 PROVE ASpec => []AnswerNotLost
  <1>1. AInv => AnswerNotLost
      BY DEF AInv, RequestsHold, AnswerNotLost
  <1> QED BY <1>1, AnswerInvariant, PTL
=============================================================================
