--------------------------- MODULE JobStoreProofs ---------------------------
(***************************************************************************)
(* The safety of the work queue for any number of jobs, processes,         *)
(* signatures and attempts.                                                *)
(***************************************************************************)
EXTENDS JobStore, TLAPS

\* Rows are inserted in pk order and nothing refers to a row that is not there yet.
RowsSound ==
    /\ \A j \in Pks : j > rows => jobs[j].state = "none" /\ jobs[j].version = 0 /\ jobs[j].attempts = 0
    /\ \A p \in Processes : lease[p].job <= rows

\* No lease is newer than its job, and no two processes were given the same one.
LeasesFenced ==
    /\ \A p \in Processes : lease[p] # NoLease => lease[p].version <= jobs[lease[p].job].version
    /\ \A p, q \in Processes : (lease[p] # NoLease /\ lease[p] = lease[q]) => p = q

\* The inductive invariant.
IInv == TypeOK /\ RowsSound /\ LeasesFenced /\ OneJobPerSignature /\ AttemptsBounded

USE JobAssumption

\* The empty table satisfies the invariant.
LEMMA InitInvariant == Init => IInv
  <1> SUFFICES ASSUME Init PROVE IInv
      OBVIOUS
  <1> PICK s \in Signatures : jobs = [j \in Pks |-> [NewJob(s) EXCEPT !.state = "none"]]
      BY DEF Init
  <1>0. [NewJob(s) EXCEPT !.state = "none"] \in Job
      BY DEF Job, NewJob, States
  <1>1. TypeOK
      BY <1>0 DEF Init, TypeOK, Lease, Pks
  <1>2. RowsSound
      BY DEF Init, RowsSound, NewJob, NoLease, Pks
  <1>3. LeasesFenced
      BY DEF Init, LeasesFenced
  <1>4. OneJobPerSignature
      BY DEF OneJobPerSignature, NewJob, Pks
  <1>5. AttemptsBounded
      BY DEF AttemptsBounded, NewJob, Pks
  <1> QED BY <1>1, <1>2, <1>3, <1>4, <1>5 DEF IInv

\* Ending a job keeps its type and everything but its state, owner and expiry.
LEMMA FinishRow ==
  ASSUME TypeOK, NEW j \in Pks, NEW st \in Finished
  PROVE  /\ Finish(j, st) \in Job
         /\ Finish(j, st).state = st
         /\ Finish(j, st).sig = jobs[j].sig
         /\ Finish(j, st).version = jobs[j].version
         /\ Finish(j, st).attempts = jobs[j].attempts
  BY DEF TypeOK, Finish, Job, States, Finished

\* Each step keeps the types.
LEMMA TypePreserved == TypeOK /\ [Next]_vars => TypeOK'
  <1> SUFFICES ASSUME TypeOK, [Next]_vars PROVE TypeOK'
      OBVIOUS
  <1> USE DEF TypeOK, Pks
  <1>1. ASSUME NEW s \in Signatures, EnqueueJob(s) PROVE TypeOK'
      BY <1>1 DEF EnqueueJob, NewJob, Job, States
  <1>2. ASSUME NEW p \in Processes, NEW ks, NEW j \in Pks, ClaimJob(p, ks, j) PROVE TypeOK'
      <2>1. \A i \in Pks : Finish(i, "failed") \in Job
          BY FinishRow DEF Finished
      <2>2. [jobs[j] EXCEPT !.state = "leased", !.owner = Principal[p], !.expired = FALSE,
                            !.version = @ + 1, !.attempts = @ + 1] \in Job
          <3>1. jobs[j] \in Job /\ jobs[j].version + 1 \in Nat /\ jobs[j].attempts + 1 \in Nat
              BY DEF Job
          <3>2. Principal[p] \in Owners /\ "leased" \in States
              BY DEF Owners, States
          <3> QED BY <3>1, <3>2 DEF Job
      <2>3. jobs' \in [Pks -> Job]
          BY <1>2, <2>1, <2>2 DEF ClaimJob
      <2>4. lease' \in [Processes -> Lease]
          BY <1>2 DEF ClaimJob, Lease, Job
      <2> QED BY <1>2, <2>3, <2>4 DEF ClaimJob
  <1>3. ASSUME NEW ks, ClaimNothing(ks) PROVE TypeOK'
      <2>1. \A i \in Pks : Finish(i, "failed") \in Job
          BY FinishRow DEF Finished
      <2> QED BY <1>3, <2>1 DEF ClaimNothing
  <1>4. ASSUME NEW p \in Processes, RenewLease(p) PROVE TypeOK'
      BY <1>4 DEF RenewLease, Holds, Job, Lease, NoLease
  <1>5. ASSUME NEW p \in Processes, NEW st \in {"done", "failed"}, FinishJob(p, st) PROVE TypeOK'
      <2>1. lease[p].job \in Pks
          BY <1>5 DEF FinishJob, Holds, Lease, NoLease
      <2>2. Finish(lease[p].job, st) \in Job
          BY <2>1, FinishRow DEF Finished
      <2> QED BY <1>5, <2>1, <2>2 DEF FinishJob, Lease
  <1>6. ASSUME NEW p \in Processes, Crash(p) PROVE TypeOK'
      BY <1>6 DEF Crash, Lease
  <1>7. ASSUME NEW j \in Pks, CancelJob(j) PROVE TypeOK'
      BY <1>7, FinishRow DEF CancelJob, Finished
  <1>8. ASSUME NEW j \in Pks, RetainJobs(j) PROVE TypeOK'
      BY <1>8 DEF RetainJobs, Job, States
  <1>9. ASSUME NEW j \in Pks, LeaseExpires(j) PROVE TypeOK'
      BY <1>9 DEF LeaseExpires, Job
  <1>10. CASE UNCHANGED vars
      BY <1>10 DEF vars
  <1> QED BY <1>1, <1>2, <1>3, <1>4, <1>5, <1>6, <1>7, <1>8, <1>9, <1>10 DEF Next, Claim

\* Rows and leases refer only to what was inserted; leases stay fencing tokens.
LEMMA FencingPreserved ==
  TypeOK /\ RowsSound /\ LeasesFenced /\ [Next]_vars => RowsSound' /\ LeasesFenced'
  <1> SUFFICES ASSUME TypeOK, RowsSound, LeasesFenced, [Next]_vars
               PROVE  RowsSound' /\ LeasesFenced'
      OBVIOUS
  <1> USE DEF TypeOK, Pks, RowsSound, LeasesFenced
  \* A step that inserts no row, leaves every version alone and gives out no lease.
  <1>0. ASSUME rows' = rows,
               \A j \in Pks : /\ jobs'[j].version = jobs[j].version
                              /\ jobs'[j].attempts = jobs[j].attempts
                              /\ jobs[j].state = "none" => jobs'[j].state = "none",
               \A p \in Processes : lease'[p] = lease[p] \/ lease'[p] = NoLease
        PROVE  RowsSound' /\ LeasesFenced'
      <2>1. RowsSound'
          BY <1>0 DEF NoLease
      <2>2. ASSUME NEW p \in Processes, lease'[p] # NoLease
            PROVE  lease'[p].version <= jobs'[lease'[p].job].version
          BY <1>0, <2>2 DEF Lease, Job
      <2>3. ASSUME NEW p \in Processes, NEW q \in Processes, lease'[p] # NoLease, lease'[p] = lease'[q]
            PROVE  p = q
          BY <1>0, <2>3
      <2> QED BY <2>1, <2>2, <2>3
  <1>1. ASSUME NEW s \in Signatures, EnqueueJob(s) PROVE RowsSound' /\ LeasesFenced'
      <2>1. /\ rows' = rows + 1
            /\ rows + 1 \in Pks
            /\ jobs' = [jobs EXCEPT ![rows + 1] = NewJob(s)]
            /\ lease' = lease
          BY <1>1 DEF EnqueueJob
      <2>2. RowsSound'
          <3>1. ASSUME NEW j \in Pks, j > rows'
                PROVE  jobs'[j].state = "none" /\ jobs'[j].version = 0 /\ jobs'[j].attempts = 0
              BY <2>1, <3>1
          <3>2. ASSUME NEW p \in Processes PROVE lease'[p].job <= rows'
              BY <2>1, <3>2 DEF Lease, NoLease
          <3> QED BY <3>1, <3>2
      <2>3. ASSUME NEW p \in Processes, lease'[p] # NoLease
            PROVE  lease'[p].version <= jobs'[lease'[p].job].version
          BY <2>1, <2>3 DEF Lease
      <2> QED BY <2>1, <2>2, <2>3
  <1>2. ASSUME NEW p \in Processes, NEW ks, NEW j \in Pks, ClaimJob(p, ks, j)
        PROVE  RowsSound' /\ LeasesFenced'
      <2>1. /\ rows' = rows
            /\ lease' = [lease EXCEPT ![p] = [job |-> j, version |-> jobs[j].version + 1]]
            /\ jobs[j].state # "none"
          BY <1>2 DEF ClaimJob, Oldest, Claimable, Lapsed
      <2>2. /\ jobs'[j].version = jobs[j].version + 1
            /\ jobs[j] \in Job
          BY <1>2 DEF ClaimJob, Job
      <2>3. ASSUME NEW i \in Pks, i # j
            PROVE  /\ jobs'[i].version = jobs[i].version
                   /\ jobs'[i].attempts = jobs[i].attempts
                   /\ jobs[i].state = "none" => jobs'[i].state = "none"
          <3>1. i \in FailedBefore(ks, j) => jobs[i].state # "none"
              BY DEF FailedBefore, Exhausted, Lapsed
          <3> QED BY <1>2, <2>3, <3>1, FinishRow DEF ClaimJob, Finished
      <2>4. j <= rows
          BY <2>1
      <2>5. RowsSound'
          BY <2>1, <2>2, <2>3, <2>4
      <2>6. ASSUME NEW q \in Processes, lease'[q] # NoLease
            PROVE  lease'[q].version <= jobs'[lease'[q].job].version
          <3>1. CASE q = p
              BY <2>1, <2>2, <3>1 DEF Job
          <3>2. CASE q # p
              <4>1. lease'[q] = lease[q] /\ lease[q].job \in Pks /\ lease[q].version \in Nat
                  BY <2>1, <2>6, <3>2 DEF Lease
              <4>2. lease[q].version <= jobs[lease[q].job].version
                  BY <4>1, <2>6
              <4> QED BY <4>1, <4>2, <2>2, <2>3 DEF Job
          <3> QED BY <3>1, <3>2
      <2>7. ASSUME NEW q \in Processes, q # p, lease[q] # NoLease
            PROVE  lease[q] # [job |-> j, version |-> jobs[j].version + 1]
          BY <2>2, <2>7 DEF Lease, Job
      <2>8. ASSUME NEW q \in Processes, NEW w \in Processes, lease'[q] # NoLease, lease'[q] = lease'[w]
            PROVE  q = w
          BY <2>1, <2>7, <2>8
      <2> QED BY <2>5, <2>6, <2>8
  <1>3. ASSUME NEW ks, ClaimNothing(ks) PROVE RowsSound' /\ LeasesFenced'
      <2>1. \A i \in Claimable(ks) : jobs[i].state # "none"
          BY DEF Claimable, Lapsed
      <2> QED BY <1>3, <2>1, <1>0, FinishRow DEF ClaimNothing, Finished
  <1>4. ASSUME NEW p \in Processes, RenewLease(p) PROVE RowsSound' /\ LeasesFenced'
      BY <1>4, <1>0 DEF RenewLease, Holds, Lease, Job
  <1>5. ASSUME NEW p \in Processes, NEW st \in {"done", "failed"}, FinishJob(p, st)
        PROVE  RowsSound' /\ LeasesFenced'
      <2>1. lease[p].job \in Pks /\ jobs[lease[p].job].state = "leased"
          BY <1>5 DEF FinishJob, Holds, Lease, NoLease
      <2> QED BY <1>5, <2>1, <1>0, FinishRow DEF FinishJob, Finished
  <1>6. ASSUME NEW p \in Processes, Crash(p) PROVE RowsSound' /\ LeasesFenced'
      BY <1>6, <1>0 DEF Crash
  <1>7. ASSUME NEW j \in Pks, CancelJob(j) PROVE RowsSound' /\ LeasesFenced'
      BY <1>7, <1>0, FinishRow DEF CancelJob, Finished
  <1>8. ASSUME NEW j \in Pks, RetainJobs(j) PROVE RowsSound' /\ LeasesFenced'
      BY <1>8, <1>0 DEF RetainJobs, Job, Finished
  <1>9. ASSUME NEW j \in Pks, LeaseExpires(j) PROVE RowsSound' /\ LeasesFenced'
      BY <1>9, <1>0 DEF LeaseExpires, Job
  <1>10. CASE UNCHANGED vars
      BY <1>10, <1>0 DEF vars
  <1> QED BY <1>1, <1>2, <1>3, <1>4, <1>5, <1>6, <1>7, <1>8, <1>9, <1>10 DEF Next, Claim

\* No step gives a signature a second live job.
LEMMA SignaturesPreserved ==
  TypeOK /\ RowsSound /\ OneJobPerSignature /\ [Next]_vars => OneJobPerSignature'
  <1> SUFFICES ASSUME TypeOK, RowsSound, OneJobPerSignature, [Next]_vars PROVE OneJobPerSignature'
      OBVIOUS
  <1> USE DEF TypeOK, Pks
  <1> DEFINE Dead == {"none", "deleted", "cancelled"}
  \* A step that brings no row to life and changes no signature.
  <1>0. ASSUME \A j \in Pks : /\ jobs'[j].sig = jobs[j].sig
                              /\ jobs[j].state \in Dead => jobs'[j].state \in Dead
        PROVE  OneJobPerSignature'
      BY <1>0 DEF OneJobPerSignature
  <1>1. ASSUME NEW s \in Signatures, EnqueueJob(s) PROVE OneJobPerSignature'
      <2>1. /\ rows + 1 \in Pks
            /\ jobs' = [jobs EXCEPT ![rows + 1] = NewJob(s)]
            /\ \A j \in Pks : jobs[j].sig = s => jobs[j].state \in Dead
          BY <1>1 DEF EnqueueJob, HasJob
      <2> QED BY <2>1 DEF OneJobPerSignature, NewJob
  <1>2. ASSUME NEW p \in Processes, NEW ks, NEW j \in Pks, ClaimJob(p, ks, j) PROVE OneJobPerSignature'
      <2>1. jobs[j].state \notin Dead /\ \A i \in FailedBefore(ks, j) : jobs[i].state \notin Dead
          BY <1>2 DEF ClaimJob, Oldest, Claimable, Lapsed, FailedBefore, Exhausted
      <2>2. jobs'[j].sig = jobs[j].sig
          BY <1>2 DEF ClaimJob, Job
      <2>3. ASSUME NEW i \in Pks, i # j
            PROVE  jobs'[i].sig = jobs[i].sig /\ (jobs[i].state \in Dead => jobs'[i].state \in Dead)
          BY <1>2, <2>1, <2>3, FinishRow DEF ClaimJob, Finished
      <2> QED BY <1>0, <2>1, <2>2, <2>3
  <1>3. ASSUME NEW ks, ClaimNothing(ks) PROVE OneJobPerSignature'
      <2>1. \A i \in Claimable(ks) : jobs[i].state \notin Dead
          BY DEF Claimable, Lapsed
      <2> QED BY <1>3, <2>1, <1>0, FinishRow DEF ClaimNothing, Finished
  <1>4. ASSUME NEW p \in Processes, RenewLease(p) PROVE OneJobPerSignature'
      BY <1>4, <1>0 DEF RenewLease, Holds, Lease, Job
  <1>5. ASSUME NEW p \in Processes, NEW st \in {"done", "failed"}, FinishJob(p, st) PROVE OneJobPerSignature'
      <2>1. lease[p].job \in Pks /\ jobs[lease[p].job].state = "leased"
          BY <1>5 DEF FinishJob, Holds, Lease, NoLease
      <2> QED BY <1>5, <2>1, <1>0, FinishRow DEF FinishJob, Finished
  <1>6. ASSUME NEW p \in Processes, Crash(p) PROVE OneJobPerSignature'
      BY <1>6, <1>0 DEF Crash
  <1>7. ASSUME NEW j \in Pks, CancelJob(j) PROVE OneJobPerSignature'
      BY <1>7, <1>0, FinishRow DEF CancelJob, Finished
  <1>8. ASSUME NEW j \in Pks, RetainJobs(j) PROVE OneJobPerSignature'
      BY <1>8, <1>0 DEF RetainJobs, Job, Finished
  <1>9. ASSUME NEW j \in Pks, LeaseExpires(j) PROVE OneJobPerSignature'
      BY <1>9, <1>0 DEF LeaseExpires, Job
  <1>10. CASE UNCHANGED vars
      BY <1>10, <1>0 DEF vars
  <1> QED BY <1>1, <1>2, <1>3, <1>4, <1>5, <1>6, <1>7, <1>8, <1>9, <1>10 DEF Next, Claim

\* A lease is only given while attempts remain, and every lease is counted.
LEMMA AttemptsPreserved == TypeOK /\ AttemptsBounded /\ [Next]_vars => AttemptsBounded'
  <1> SUFFICES ASSUME TypeOK, AttemptsBounded, [Next]_vars PROVE AttemptsBounded'
      OBVIOUS
  <1> USE DEF TypeOK, Pks
  <1>0. ASSUME \A j \in Pks : /\ jobs'[j].version = jobs[j].version
                              /\ jobs'[j].attempts = jobs[j].attempts
                              /\ jobs'[j].state = "queued" => jobs[j].state = "queued"
        PROVE  AttemptsBounded'
      BY <1>0 DEF AttemptsBounded
  <1>1. ASSUME NEW s \in Signatures, EnqueueJob(s) PROVE AttemptsBounded'
      BY <1>1 DEF EnqueueJob, NewJob, AttemptsBounded
  <1>2. ASSUME NEW p \in Processes, NEW ks, NEW j \in Pks, ClaimJob(p, ks, j) PROVE AttemptsBounded'
      <2>1. jobs[j] \in Job /\ jobs[j].attempts < MaxAttempts
          BY <1>2 DEF ClaimJob, Oldest, Claimable, Exhausted, AttemptsBounded, Job
      <2>2. /\ jobs'[j].version = jobs[j].version + 1
            /\ jobs'[j].attempts = jobs[j].attempts + 1
            /\ jobs'[j].state = "leased"
          BY <1>2 DEF ClaimJob, Job
      <2>3. ASSUME NEW i \in Pks, i # j
            PROVE  /\ jobs'[i].version = jobs[i].version
                   /\ jobs'[i].attempts = jobs[i].attempts
                   /\ jobs'[i].state = "queued" => jobs[i].state = "queued"
          BY <1>2, <2>3, FinishRow DEF ClaimJob, Finished
      <2> QED BY <2>1, <2>2, <2>3 DEF AttemptsBounded, Job
  <1>3. ASSUME NEW ks, ClaimNothing(ks) PROVE AttemptsBounded'
      BY <1>3, <1>0, FinishRow DEF ClaimNothing, Finished
  <1>4. ASSUME NEW p \in Processes, RenewLease(p) PROVE AttemptsBounded'
      BY <1>4, <1>0 DEF RenewLease, Holds, Lease, Job
  <1>5. ASSUME NEW p \in Processes, NEW st \in {"done", "failed"}, FinishJob(p, st) PROVE AttemptsBounded'
      <2>1. lease[p].job \in Pks
          BY <1>5 DEF FinishJob, Holds, Lease, NoLease
      <2> QED BY <1>5, <2>1, <1>0, FinishRow DEF FinishJob, Finished
  <1>6. ASSUME NEW p \in Processes, Crash(p) PROVE AttemptsBounded'
      BY <1>6, <1>0 DEF Crash
  <1>7. ASSUME NEW j \in Pks, CancelJob(j) PROVE AttemptsBounded'
      BY <1>7, <1>0, FinishRow DEF CancelJob, Finished
  <1>8. ASSUME NEW j \in Pks, RetainJobs(j) PROVE AttemptsBounded'
      BY <1>8, <1>0 DEF RetainJobs, Job, Finished
  <1>9. ASSUME NEW j \in Pks, LeaseExpires(j) PROVE AttemptsBounded'
      BY <1>9, <1>0 DEF LeaseExpires, Job
  <1>10. CASE UNCHANGED vars
      BY <1>10, <1>0 DEF vars
  <1> QED BY <1>1, <1>2, <1>3, <1>4, <1>5, <1>6, <1>7, <1>8, <1>9, <1>10 DEF Next, Claim

\* The inductive invariant holds in every reachable state.
THEOREM QueueInvariant == Spec => []IInv
  <1>1. Init => IInv
      BY InitInvariant
  <1>2. IInv /\ [Next]_vars => IInv'
      BY TypePreserved, FencingPreserved, SignaturesPreserved, AttemptsPreserved DEF IInv
  <1> QED BY <1>1, <1>2, PTL DEF Spec

\* A lapsed holder can never act on a job under its new holder: OneHolder, because leases
\* are fencing tokens (leaseUpdate's compare-and-set on lease_version).
THEOREM HolderTheorem == Spec => []OneHolder
  <1>1. IInv => OneHolder
      <2> SUFFICES ASSUME IInv, NEW p \in Processes, NEW q \in Processes,
                          lease[p] # NoLease, lease[p].job = lease[q].job, Holds(p), Holds(q)
                   PROVE  p = q
          BY DEF OneHolder
      <2>1. lease[p].version = lease[q].version /\ lease[q] # NoLease
          BY DEF Holds
      <2>2. lease[p] = lease[q]
          BY <2>1 DEF IInv, TypeOK, Lease
      <2> QED BY <2>2 DEF IInv, LeasesFenced
  <1> QED BY <1>1, QueueInvariant, PTL

\* The rows of the table, their count and the processes' leases have their types.
THEOREM QueueTypes == Spec => []TypeOK
  <1>1. IInv => TypeOK
      BY DEF IInv
  <1> QED BY <1>1, QueueInvariant, PTL

\* Work is never prepared twice: a signature has at most one job that was not cancelled,
\* whichever of EnqueueJob, CancelJob and ApplyRetention come between.
THEOREM SignatureTheorem == Spec => []OneJobPerSignature
  <1>1. IInv => OneJobPerSignature
      BY DEF IInv
  <1> QED BY <1>1, QueueInvariant, PTL

\* No job is leased more often than max_attempts (ClaimJob), however often its holders
\* crash.
THEOREM AttemptsTheorem == Spec => []AttemptsBounded
  <1>1. IInv => AttemptsBounded
      BY DEF IInv
  <1> QED BY <1>1, QueueInvariant, PTL

\* A finished job is never relaunched and keeps its outcome until it is deleted.
THEOREM FinalTheorem == Spec => FinishedFinal
  <1>1. IInv /\ [Next]_vars => [FinalStep]_vars
      <2> SUFFICES ASSUME IInv, Next, NEW j \in Pks
                   PROVE  /\ jobs[j].state \in Finished => jobs'[j].state \in {jobs[j].state, "deleted"}
                          /\ jobs[j].state = "deleted" => jobs'[j].state = "deleted"
          BY DEF FinalStep
      <2> USE DEF IInv, TypeOK, Pks
      <2>1. ASSUME NEW s \in Signatures, EnqueueJob(s) PROVE jobs'[j] = jobs[j] \/ jobs[j].state = "none"
          BY <2>1 DEF EnqueueJob, RowsSound
      <2>2. ASSUME NEW p \in Processes, NEW ks, NEW i \in Pks, ClaimJob(p, ks, i)
            PROVE  jobs'[j] = jobs[j] \/ jobs[j].state \in {"queued", "leased"}
          BY <2>2 DEF ClaimJob, Oldest, Claimable, Lapsed, FailedBefore, Exhausted
      <2>3. ASSUME NEW ks, ClaimNothing(ks) PROVE jobs'[j] = jobs[j] \/ jobs[j].state \in {"queued", "leased"}
          BY <2>3 DEF ClaimNothing, Claimable, Lapsed
      <2>4. ASSUME NEW p \in Processes, RenewLease(p) PROVE jobs'[j] = jobs[j] \/ jobs[j].state = "leased"
          BY <2>4 DEF RenewLease, Holds, Lease
      <2>5. ASSUME NEW p \in Processes, NEW st \in {"done", "failed"}, FinishJob(p, st)
            PROVE  jobs'[j] = jobs[j] \/ jobs[j].state = "leased"
          BY <2>5 DEF FinishJob, Holds
      <2>6. ASSUME NEW p \in Processes, Crash(p) PROVE jobs'[j] = jobs[j]
          BY <2>6 DEF Crash
      <2>7. ASSUME NEW i \in Pks, CancelJob(i) PROVE jobs'[j] = jobs[j] \/ jobs[j].state \in {"queued", "leased"}
          BY <2>7 DEF CancelJob
      <2>8. ASSUME NEW i \in Pks, RetainJobs(i) PROVE jobs'[j] = jobs[j] \/ jobs'[j].state = "deleted"
          BY <2>8 DEF RetainJobs, Job
      <2>9. ASSUME NEW i \in Pks, LeaseExpires(i) PROVE jobs'[j] = jobs[j] \/ jobs[j].state = "leased"
          BY <2>9 DEF LeaseExpires
      <2> QED BY <2>1, <2>2, <2>3, <2>4, <2>5, <2>6, <2>7, <2>8, <2>9 DEF Next, Claim, Finished
  <1> QED BY <1>1, QueueInvariant, PTL DEF Spec, FinishedFinal
=============================================================================
