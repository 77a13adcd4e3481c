----------------------- MODULE WorkerSupervisorProofs -----------------------
(***************************************************************************)
(* The worker supervisor is safe for any number of calls, configurations   *)
(* and child slots, whenever its processes crash.                          *)
(***************************************************************************)
EXTENDS WorkerSupervisor, FiniteSetTheorems, TLAPS

Making == {"starting", "failing", "started"}
Seeking == {"acquiring", "replacing"}
Unasked == {"using", "admitted"} \cup Seeking \cup Making
Users(p) == {c \in Calls : pc[c] \in InUse /\ at[c] = p}

\* One call at a time starts a process, while there is none, and nobody else has it.
StartsAlone ==
    /\ starting # None => proc = None
    /\ \A c \in Calls : pc[c] \in Making <=> starting = c
    /\ \A c \in Calls : pc[c] \in Making \cup Seeking =>
          w[c].active = 0 /\ w[c].pending = {} /\ ~w[c].retiring /\ ~w[c].retired
    /\ \A c \in Calls : pc[c] \in Seeking => w[c].life = "none"
    /\ proc # None => pc[proc] \notin Making \cup Seeking

\* What is known of a process.
ProcessSound ==
    \A p \in Calls :
        /\ w[p].life \in {"reaped", "done"} => w[p].dead
        /\ w[p].life \in {"reaped", "done"} => w[p].pending = {}
        /\ w[p].retired => w[p].retiring
        /\ (w[p].life = "up" /\ ~w[p].retiring) => p \in {proc, starting}

\* A call that uses or retires a process has one that was installed; another has none.
CallSound ==
    \A c \in Calls :
        /\ pc[c] \in InUse \cup Closing => at[c] \in Calls
        /\ pc[c] \notin InUse \cup Closing => at[c] = None
        /\ at[c] # None => pc[at[c]] \notin Making \cup Seeking
        /\ pc[c] \in Unasked => outcome[c] = "none" /\ c \notin ran
        /\ pc[c] = "writing" => outcome[c] # "fallback" /\ c \notin ran
        /\ c \in abandoned => pc[c] \in {"releasing", "closing", "over"}

\* A request is pending in one process: its caller's, unless the caller gave up.
PendingSound ==
    \A c, p \in Calls : c \in w[p].pending =>
        /\ \A q \in Calls : c \in w[q].pending => q = p
        /\ \/ pc[c] \in {"writing", "waiting"} /\ at[c] = p /\ outcome[c] = "none"
           \/ c \in abandoned

Sound == StartsAlone /\ ProcessSound /\ CallSound /\ PendingSound

\* The inductive invariant.
WInv == WorkerTypeOK /\ SlotWhileRunning /\ RetiredUnused /\ RunsOnce /\ Sound

USE WorkerAssumption DEF InUse, Closing, Seeking, Stages, Lives, Outcomes, Making, Unasked, supervisor, Goto, Told, Live

\* Every way a process's record changes keeps its type.
LEMMA ProcessUpdates ==
  ASSUME NEW x \in Process
  PROVE  /\ Retire(x) \in Process /\ Kill(x) \in Process /\ Forgotten(x) \in Process
         /\ \A b \in BOOLEAN : /\ [x EXCEPT !.retiring = b] \in Process
                               /\ [x EXCEPT !.started = b] \in Process
                               /\ [x EXCEPT !.recycle = b] \in Process
                               /\ [x EXCEPT !.blocked = b] \in Process
                               /\ [x EXCEPT !.dead = b] \in Process
         /\ \A l \in Lives : [x EXCEPT !.life = l] \in Process
         /\ \A n \in Nat : [x EXCEPT !.active = n] \in Process
         /\ \A S \in SUBSET Calls : [x EXCEPT !.pending = S] \in Process
<1> USE DEF Process
<1>1. NotStarted \in Process
  BY DEF NotStarted
<1>2. Retire(x) \in Process /\ Kill(x) \in Process
  BY DEF Retire, Kill
<1>3. Forgotten(x) \in Process
  BY <1>1 DEF Forgotten
<1>4. \A b \in BOOLEAN : /\ [x EXCEPT !.retiring = b] \in Process
                         /\ [x EXCEPT !.started = b] \in Process
                         /\ [x EXCEPT !.recycle = b] \in Process
                         /\ [x EXCEPT !.blocked = b] \in Process
                         /\ [x EXCEPT !.dead = b] \in Process
  OBVIOUS
<1>5. \A l \in Lives : [x EXCEPT !.life = l] \in Process
  OBVIOUS
<1>6. \A n \in Nat : [x EXCEPT !.active = n] \in Process
  OBVIOUS
<1>7. \A S \in SUBSET Calls : [x EXCEPT !.pending = S] \in Process
  OBVIOUS
<1> QED BY <1>2, <1>3, <1>4, <1>5, <1>6, <1>7

\* What the steps below look up in the invariant.
LEMMA Facts ==
  ASSUME WInv
  PROVE  /\ w \in [Calls -> Process] /\ proc \in Calls \cup {None}
         /\ pc \in [Calls -> Stages] /\ at \in [Calls -> Calls \cup {None}]
         /\ \A p \in Calls : w[p].active \in Nat /\ w[p].pending \in SUBSET Calls
         /\ RetiredUnused /\ StartsAlone /\ ProcessSound /\ CallSound
BY DEF WInv, Sound, WorkerTypeOK, Process

\* active counts the callers (RetiredUnused).
LEMMA Counts ==
  ASSUME WInv
  PROVE  \A p \in Calls : w[p].active = Cardinality(Users(p)) /\ IsFiniteSet(Users(p))
<1>1. \A p \in Calls : IsFiniteSet(Users(p))
  BY FS_Subset DEF Users
<1> QED BY <1>1, Facts DEF RetiredUnused, Users

\* A process that dies keeps its callers and its requests until the read loop sees it.
LEMMA ExitKeeps ==
  ASSUME WInv, NEW p \in Calls, Exit(p)
  PROVE  WInv'
<1>1. w' \in [Calls -> Process]
  BY Facts, ProcessUpdates DEF Exit, Kill
<1>2. WorkerTypeOK'
  BY <1>1 DEF WInv, WorkerTypeOK, Exit, Kill
<1>3. \A q \in Calls : Users(q)' = Users(q) /\ w'[q].active = w[q].active
  BY Facts DEF Users, Process, Exit, Kill
<1>4. RetiredUnused'
  BY <1>3, Facts DEF Users, RetiredUnused, Process, ProcessSound, StartsAlone, Exit, Kill
<1>5. SlotWhileRunning' /\ RunsOnce'
  BY DEF SlotWhileRunning, RunsOnce, WInv, WorkerTypeOK, Sound, StartsAlone, ProcessSound, CallSound, PendingSound, Process, Exit, Kill
<1>6. Sound'
  BY DEF WInv, WorkerTypeOK, Sound, StartsAlone, ProcessSound, CallSound, PendingSound, Process, Exit, Kill
<1> QED BY <1>2, <1>4, <1>5, <1>6 DEF WInv

\* Reaping a process fails what is pending and gives its slots back.
LEMMA ReadLoopEndsKeeps ==
  ASSUME WInv, NEW p \in Calls, ReadLoopEnds(p)
  PROVE  WInv'
<1>1. w' \in [Calls -> Process]
  BY Facts, ProcessUpdates DEF ReadLoopEnds
<1>2. WorkerTypeOK'
  BY <1>1 DEF WInv, WorkerTypeOK, ReadLoopEnds
<1>3. \A q \in Calls : Users(q)' = Users(q) /\ w'[q].active = w[q].active
  BY Facts DEF Users, Process, ReadLoopEnds
<1>4. RetiredUnused'
  BY <1>3, Facts DEF Users, RetiredUnused, Process, ProcessSound, StartsAlone, ReadLoopEnds
<1>f. /\ PendingSound /\ SlotWhileRunning /\ RunsOnce
      /\ outcome \in [Calls -> Outcomes] /\ slots \subseteq Calls
  BY DEF WInv, Sound, WorkerTypeOK
<1>a. /\ w'[p].pending = {}
      /\ \A q \in Calls \ {p} : w'[q] = w[q]
  BY Facts DEF Process, ReadLoopEnds
<1>b. \A q, d \in Calls : d \in w'[q].pending <=> (d \in w[q].pending /\ d \notin w[p].pending)
  BY <1>a, <1>f, Facts DEF PendingSound
<1>c. \A d \in w[p].pending : pc[d] # "admitted"
  BY <1>f, Facts DEF PendingSound, CallSound
<1>5a. SlotWhileRunning'
  BY <1>b, <1>c, <1>f DEF SlotWhileRunning, ReadLoopEnds
<1>5b. RunsOnce'
  BY <1>f DEF RunsOnce, ReadLoopEnds
<1>5. SlotWhileRunning' /\ RunsOnce'
  BY <1>5a, <1>5b
<1>6. Sound'
  BY DEF WInv, WorkerTypeOK, Sound, StartsAlone, ProcessSound, CallSound, PendingSound, Process, ReadLoopEnds
<1> QED BY <1>2, <1>4, <1>5, <1>6 DEF WInv

\* A process that is gone leaves the supervisor, and its callers release it later.
LEMMA OnExitKeeps ==
  ASSUME WInv, NEW p \in Calls, OnExit(p)
  PROVE  WInv'
<1>1. w' \in [Calls -> Process]
  BY Facts, ProcessUpdates DEF OnExit, Forgotten, NotStarted, Keys
<1>2. WorkerTypeOK'
  BY <1>1 DEF WInv, WorkerTypeOK, OnExit, Forgotten, NotStarted, Keys
<1>3. \A q \in Calls : Users(q)' = Users(q) /\ w'[q].active = w[q].active
  BY Facts DEF Users, Process, OnExit, Forgotten, NotStarted, Keys
<1>4. RetiredUnused'
  BY <1>3, Facts DEF Users, RetiredUnused, Process, ProcessSound, StartsAlone, OnExit, Forgotten, NotStarted, Keys
<1>5. SlotWhileRunning' /\ RunsOnce'
  BY DEF SlotWhileRunning, RunsOnce, WInv, WorkerTypeOK, Sound, StartsAlone, ProcessSound, CallSound, PendingSound, Process, OnExit, Forgotten, NotStarted, Keys
<1>6. Sound'
  BY DEF WInv, WorkerTypeOK, Sound, StartsAlone, ProcessSound, CallSound, PendingSound, Process, OnExit, Forgotten, NotStarted, Keys
<1> QED BY <1>2, <1>4, <1>5, <1>6 DEF WInv

\* The end of a back-off touches no process and no call.
LEMMA BackoffEndsKeeps ==
  ASSUME WInv, BackoffEnds
  PROVE  WInv'
<1>2. WorkerTypeOK'
  BY DEF WInv, WorkerTypeOK, BackoffEnds
<1>3. \A q \in Calls : Users(q)' = Users(q) /\ w'[q].active = w[q].active
  BY Facts DEF Users, Process, BackoffEnds
<1>4. RetiredUnused'
  BY <1>3, Facts DEF Users, RetiredUnused, Process, ProcessSound, StartsAlone, BackoffEnds
<1>5. SlotWhileRunning' /\ RunsOnce'
  BY DEF SlotWhileRunning, RunsOnce, WInv, WorkerTypeOK, Sound, StartsAlone, ProcessSound, CallSound, PendingSound, Process, BackoffEnds
<1>6. Sound'
  BY DEF WInv, WorkerTypeOK, Sound, StartsAlone, ProcessSound, CallSound, PendingSound, Process, BackoffEnds
<1> QED BY <1>2, <1>4, <1>5, <1>6 DEF WInv

\* A call that may only use a running worker ends without one.
LEMMA NoLiveWorkerKeeps ==
  ASSUME WInv, NEW c \in Calls, NoLiveWorker(c)
  PROVE  WInv'
<1>2. WorkerTypeOK'
  BY DEF WInv, WorkerTypeOK, NoLiveWorker
<1>3. \A q \in Calls : Users(q)' = Users(q) /\ w'[q].active = w[q].active
  BY Facts DEF Users, Process, NoLiveWorker
<1>4. RetiredUnused'
  BY <1>3, Facts DEF Users, RetiredUnused, Process, ProcessSound, StartsAlone, NoLiveWorker
<1>5. SlotWhileRunning' /\ RunsOnce'
  BY DEF SlotWhileRunning, RunsOnce, WInv, WorkerTypeOK, Sound, StartsAlone, ProcessSound, CallSound, PendingSound, Process, NoLiveWorker
<1>6. Sound'
  BY DEF WInv, WorkerTypeOK, Sound, StartsAlone, ProcessSound, CallSound, PendingSound, Process, NoLiveWorker
<1> QED BY <1>2, <1>4, <1>5, <1>6 DEF WInv

\* The supervisor lets go of a process that is gone.
LEMMA ForgetDeadKeeps ==
  ASSUME WInv, NEW c \in Calls, ForgetDead(c)
  PROVE  WInv'
<1>2. WorkerTypeOK'
  BY DEF WInv, WorkerTypeOK, ForgetDead
<1>3. \A q \in Calls : Users(q)' = Users(q) /\ w'[q].active = w[q].active
  BY Facts DEF Users, Process, ForgetDead
<1>4. RetiredUnused'
  BY <1>3, Facts DEF Users, RetiredUnused, Process, ProcessSound, StartsAlone, ForgetDead
<1>5. SlotWhileRunning' /\ RunsOnce'
  BY DEF SlotWhileRunning, RunsOnce, WInv, WorkerTypeOK, Sound, StartsAlone, ProcessSound, CallSound, PendingSound, Process, ForgetDead
<1>6. Sound'
  BY DEF WInv, WorkerTypeOK, Sound, StartsAlone, ProcessSound, CallSound, PendingSound, Process, ForgetDead
<1> QED BY <1>2, <1>4, <1>5, <1>6 DEF WInv

\* A process of another configuration is retired, now or by its last caller.
LEMMA ReplaceOtherKeeps ==
  ASSUME WInv, NEW c \in Calls, ReplaceOther(c)
  PROVE  WInv'
<1>1. w' \in [Calls -> Process]
  BY Facts, ProcessUpdates DEF ReplaceOther, RetireProc, Retire
<1>2. WorkerTypeOK'
  BY <1>1 DEF WInv, WorkerTypeOK, ReplaceOther, RetireProc, Retire
<1>3. \A q \in Calls : Users(q)' = Users(q) /\ w'[q].active = w[q].active
  BY Facts DEF Users, Process, ReplaceOther, RetireProc, Retire
<1>4. RetiredUnused'
  BY <1>3, Facts DEF Users, RetiredUnused, Process, ProcessSound, StartsAlone, ReplaceOther, RetireProc, Retire
<1>5. SlotWhileRunning' /\ RunsOnce'
  BY DEF SlotWhileRunning, RunsOnce, WInv, WorkerTypeOK, Sound, StartsAlone, ProcessSound, CallSound, PendingSound, Process, ReplaceOther, RetireProc, Retire
<1>6. Sound'
  BY DEF WInv, WorkerTypeOK, Sound, StartsAlone, ProcessSound, CallSound, PendingSound, Process, ReplaceOther, RetireProc, Retire
<1> QED BY <1>2, <1>4, <1>5, <1>6 DEF WInv

\* A call that stops waiting for a worker has nothing to give back.
LEMMA GiveUpAcquiringKeeps ==
  ASSUME WInv, NEW c \in Calls, GiveUpAcquiring(c)
  PROVE  WInv'
<1>2. WorkerTypeOK'
  BY DEF WInv, WorkerTypeOK, GiveUpAcquiring
<1>3. \A q \in Calls : Users(q)' = Users(q) /\ w'[q].active = w[q].active
  BY Facts DEF Users, Process, GiveUpAcquiring
<1>4. RetiredUnused'
  BY <1>3, Facts DEF Users, RetiredUnused, Process, ProcessSound, StartsAlone, GiveUpAcquiring
<1>5. SlotWhileRunning' /\ RunsOnce'
  BY DEF SlotWhileRunning, RunsOnce, WInv, WorkerTypeOK, Sound, StartsAlone, ProcessSound, CallSound, PendingSound, Process, GiveUpAcquiring
<1>6. Sound'
  BY DEF WInv, WorkerTypeOK, Sound, StartsAlone, ProcessSound, CallSound, PendingSound, Process, GiveUpAcquiring
<1> QED BY <1>2, <1>4, <1>5, <1>6 DEF WInv

\* A call refused by the back-off has nothing to give back.
LEMMA BackingOffKeeps ==
  ASSUME WInv, NEW c \in Calls, BackingOff(c)
  PROVE  WInv'
<1>2. WorkerTypeOK'
  BY DEF WInv, WorkerTypeOK, BackingOff
<1>3. \A q \in Calls : Users(q)' = Users(q) /\ w'[q].active = w[q].active
  BY Facts DEF Users, Process, BackingOff
<1>4. RetiredUnused'
  BY <1>3, Facts DEF Users, RetiredUnused, Process, ProcessSound, StartsAlone, BackingOff
<1>5. SlotWhileRunning' /\ RunsOnce'
  BY DEF SlotWhileRunning, RunsOnce, WInv, WorkerTypeOK, Sound, StartsAlone, ProcessSound, CallSound, PendingSound, Process, BackingOff
<1>6. Sound'
  BY DEF WInv, WorkerTypeOK, Sound, StartsAlone, ProcessSound, CallSound, PendingSound, Process, BackingOff
<1> QED BY <1>2, <1>4, <1>5, <1>6 DEF WInv

\* A process is started only when there is none and nobody else starts one.
LEMMA StartWorkerKeeps ==
  ASSUME WInv, NEW c \in Calls, StartWorker(c)
  PROVE  WInv'
<1>1. w' \in [Calls -> Process]
  BY Facts, ProcessUpdates DEF StartWorker
<1>2. WorkerTypeOK'
  BY <1>1 DEF WInv, WorkerTypeOK, StartWorker
<1>3. \A q \in Calls : Users(q)' = Users(q) /\ w'[q].active = w[q].active
  BY Facts DEF Users, Process, StartWorker
<1>4. RetiredUnused'
  BY <1>3, Facts DEF Users, RetiredUnused, Process, ProcessSound, StartsAlone, StartWorker
<1>5. SlotWhileRunning' /\ RunsOnce'
  BY DEF SlotWhileRunning, RunsOnce, WInv, WorkerTypeOK, Sound, StartsAlone, ProcessSound, CallSound, PendingSound, Process, StartWorker
<1>6. Sound'
  BY DEF WInv, WorkerTypeOK, Sound, StartsAlone, ProcessSound, CallSound, PendingSound, Process, StartWorker
<1> QED BY <1>2, <1>4, <1>5, <1>6 DEF WInv

\* A process that fails its handshake is killed before anybody else has it.
LEMMA InitializeFailsKeeps ==
  ASSUME WInv, NEW c \in Calls, InitializeFails(c)
  PROVE  WInv'
<1>1. w' \in [Calls -> Process]
  BY Facts, ProcessUpdates DEF InitializeFails, Kill
<1>2. WorkerTypeOK'
  BY <1>1 DEF WInv, WorkerTypeOK, InitializeFails, Kill
<1>3. \A q \in Calls : Users(q)' = Users(q) /\ w'[q].active = w[q].active
  BY Facts DEF Users, Process, InitializeFails, Kill
<1>4. RetiredUnused'
  BY <1>3, Facts DEF Users, RetiredUnused, Process, ProcessSound, StartsAlone, InitializeFails, Kill
<1>5. SlotWhileRunning' /\ RunsOnce'
  BY DEF SlotWhileRunning, RunsOnce, WInv, WorkerTypeOK, Sound, StartsAlone, ProcessSound, CallSound, PendingSound, Process, InitializeFails, Kill
<1>6. Sound'
  BY DEF WInv, WorkerTypeOK, Sound, StartsAlone, ProcessSound, CallSound, PendingSound, Process, InitializeFails, Kill
<1> QED BY <1>2, <1>4, <1>5, <1>6 DEF WInv

\* A failed start is over once its process is gone.
LEMMA StartFailedKeeps ==
  ASSUME WInv, NEW c \in Calls, StartFailed(c)
  PROVE  WInv'
<1>2. WorkerTypeOK'
  BY DEF WInv, WorkerTypeOK, StartFailed, Keys
<1>3. \A q \in Calls : Users(q)' = Users(q) /\ w'[q].active = w[q].active
  BY Facts DEF Users, Process, StartFailed, Keys
<1>4. RetiredUnused'
  BY <1>3, Facts DEF Users, RetiredUnused, Process, ProcessSound, StartsAlone, StartFailed, Keys
<1>5. SlotWhileRunning' /\ RunsOnce'
  BY DEF SlotWhileRunning, RunsOnce, WInv, WorkerTypeOK, Sound, StartsAlone, ProcessSound, CallSound, PendingSound, Process, StartFailed, Keys
<1>6. Sound'
  BY DEF WInv, WorkerTypeOK, Sound, StartsAlone, ProcessSound, CallSound, PendingSound, Process, StartFailed, Keys
<1> QED BY <1>2, <1>4, <1>5, <1>6 DEF WInv

\* A call the worker does not run takes no slot.
LEMMA NotResidentKeeps ==
  ASSUME WInv, NEW c \in Calls, NotResident(c)
  PROVE  WInv'
<1>2. WorkerTypeOK'
  BY DEF WInv, WorkerTypeOK, NotResident
<1>3. \A q \in Calls : Users(q)' = Users(q) /\ w'[q].active = w[q].active
  BY Facts DEF Users, Process, NotResident
<1>4. RetiredUnused'
  BY <1>3, Facts DEF Users, RetiredUnused, Process, ProcessSound, StartsAlone, NotResident
<1>5. SlotWhileRunning' /\ RunsOnce'
  BY DEF SlotWhileRunning, RunsOnce, WInv, WorkerTypeOK, Sound, StartsAlone, ProcessSound, CallSound, PendingSound, Process, NotResident
<1>6. Sound'
  BY DEF WInv, WorkerTypeOK, Sound, StartsAlone, ProcessSound, CallSound, PendingSound, Process, NotResident
<1> QED BY <1>2, <1>4, <1>5, <1>6 DEF WInv

\* A call that got no slot takes none.
LEMMA ChildLimitReachedKeeps ==
  ASSUME WInv, NEW c \in Calls, ChildLimitReached(c)
  PROVE  WInv'
<1>2. WorkerTypeOK'
  BY DEF WInv, WorkerTypeOK, ChildLimitReached
<1>3. \A q \in Calls : Users(q)' = Users(q) /\ w'[q].active = w[q].active
  BY Facts DEF Users, Process, ChildLimitReached
<1>4. RetiredUnused'
  BY <1>3, Facts DEF Users, RetiredUnused, Process, ProcessSound, StartsAlone, ChildLimitReached
<1>5. SlotWhileRunning' /\ RunsOnce'
  BY DEF SlotWhileRunning, RunsOnce, WInv, WorkerTypeOK, Sound, StartsAlone, ProcessSound, CallSound, PendingSound, Process, ChildLimitReached
<1>6. Sound'
  BY DEF WInv, WorkerTypeOK, Sound, StartsAlone, ProcessSound, CallSound, PendingSound, Process, ChildLimitReached
<1> QED BY <1>2, <1>4, <1>5, <1>6 DEF WInv

\* An admitted call takes a slot.
LEMMA TakeChildSlotKeeps ==
  ASSUME WInv, NEW c \in Calls, TakeChildSlot(c)
  PROVE  WInv'
<1>2. WorkerTypeOK'
  BY DEF WInv, WorkerTypeOK, TakeChildSlot
<1>3. \A q \in Calls : Users(q)' = Users(q) /\ w'[q].active = w[q].active
  BY Facts DEF Users, Process, TakeChildSlot
<1>4. RetiredUnused'
  BY <1>3, Facts DEF Users, RetiredUnused, Process, ProcessSound, StartsAlone, TakeChildSlot
<1>5. SlotWhileRunning' /\ RunsOnce'
  BY DEF SlotWhileRunning, RunsOnce, WInv, WorkerTypeOK, Sound, StartsAlone, ProcessSound, CallSound, PendingSound, Process, TakeChildSlot
<1>6. Sound'
  BY DEF WInv, WorkerTypeOK, Sound, StartsAlone, ProcessSound, CallSound, PendingSound, Process, TakeChildSlot
<1> QED BY <1>2, <1>4, <1>5, <1>6 DEF WInv

\* A written request was pending and untold, and may run from now on.
LEMMA WriteKeeps ==
  ASSUME WInv, NEW c \in Calls, Write(c)
  PROVE  WInv'
<1>2. WorkerTypeOK'
  BY DEF WInv, WorkerTypeOK, Write
<1>3. \A q \in Calls : Users(q)' = Users(q) /\ w'[q].active = w[q].active
  BY Facts DEF Users, Process, Write
<1>4. RetiredUnused'
  BY <1>3, Facts DEF Users, RetiredUnused, Process, ProcessSound, StartsAlone, Write
<1>5. SlotWhileRunning' /\ RunsOnce'
  BY DEF SlotWhileRunning, RunsOnce, WInv, WorkerTypeOK, Sound, StartsAlone, ProcessSound, CallSound, PendingSound, Process, Write
<1>6. Sound'
  BY DEF WInv, WorkerTypeOK, Sound, StartsAlone, ProcessSound, CallSound, PendingSound, Process, Write
<1> QED BY <1>2, <1>4, <1>5, <1>6 DEF WInv

\* A call told its outcome goes on to release the worker.
LEMMA AnsweredKeeps ==
  ASSUME WInv, NEW c \in Calls, Answered(c)
  PROVE  WInv'
<1>2. WorkerTypeOK'
  BY DEF WInv, WorkerTypeOK, Answered
<1>3. \A q \in Calls : Users(q)' = Users(q) /\ w'[q].active = w[q].active
  BY Facts DEF Users, Process, Answered
<1>4. RetiredUnused'
  BY <1>3, Facts DEF Users, RetiredUnused, Process, ProcessSound, StartsAlone, Answered
<1>5. SlotWhileRunning' /\ RunsOnce'
  BY DEF SlotWhileRunning, RunsOnce, WInv, WorkerTypeOK, Sound, StartsAlone, ProcessSound, CallSound, PendingSound, Process, Answered
<1>6. Sound'
  BY DEF WInv, WorkerTypeOK, Sound, StartsAlone, ProcessSound, CallSound, PendingSound, Process, Answered
<1> QED BY <1>2, <1>4, <1>5, <1>6 DEF WInv

\* A request whose caller is gone stays pending and keeps its slot; its cancel frame may
\* be stuck.
LEMMA AbandonKeeps ==
  ASSUME WInv, NEW c \in Calls, Abandon(c)
  PROVE  WInv'
<1> DEFINE p == at[c]
<1>0. p \in Calls /\ pc[c] = "waiting" /\ w[p] \in Process
  BY Facts DEF Abandon, CallSound
<1>1. /\ at' = at /\ proc' = proc /\ starting' = starting /\ ran' = ran
      /\ retryKey' = retryKey /\ crashed' = crashed /\ slots' = slots
      /\ pc' = [pc EXCEPT ![c] = "releasing"] /\ outcome' = [outcome EXCEPT ![c] = "failed"]
      /\ abandoned' = IF c \in w[p].pending THEN abandoned \cup {c} ELSE abandoned
  BY <1>0 DEF Abandon
<1>2. PICK b \in BOOLEAN : w' = [w EXCEPT ![p] = [w[p] EXCEPT !.blocked = b]]
  <2>1. w[p].blocked \in BOOLEAN /\ w = [w EXCEPT ![p] = [w[p] EXCEPT !.blocked = w[p].blocked]]
    BY <1>0, Facts DEF Process
  <2>2. CASE c \in w[p].pending
    <3>1. PICK full \in BOOLEAN : w' = [w EXCEPT ![p].blocked = @ \/ (full /\ w[p].life = "up")]
      BY <2>2 DEF Abandon
    <3>2. (w[p].blocked \/ (full /\ w[p].life = "up")) \in BOOLEAN
      BY Zenon
    <3> QED BY <3>1, <3>2
  <2>3. CASE c \notin w[p].pending
    BY <2>1, <2>3 DEF Abandon
  <2> QED BY <2>2, <2>3
<1> DEFINE x == [w[p] EXCEPT !.blocked = b]
<1>3. x \in Process
  BY <1>0, ProcessUpdates
<1>4. /\ x.life = w[p].life /\ x.dead = w[p].dead /\ x.retiring = w[p].retiring
      /\ x.retired = w[p].retired /\ x.active = w[p].active /\ x.pending = w[p].pending
  BY <1>0 DEF Process
<1>5. w' = [w EXCEPT ![p] = x]
  BY <1>2
<1> HIDE DEF x
<1>6. w' \in [Calls -> Process] /\ \A q \in Calls : w'[q] = IF q = p THEN x ELSE w[q]
  BY <1>0, <1>3, <1>5, Facts
<1>7. WorkerTypeOK'
  BY <1>1, <1>6 DEF WInv, WorkerTypeOK
<1>8. SlotWhileRunning' /\ RunsOnce'
  BY <1>0, <1>1, <1>4, <1>6 DEF SlotWhileRunning, RunsOnce, WInv, WorkerTypeOK
<1>9. StartsAlone' /\ ProcessSound'
  BY <1>0, <1>1, <1>4, <1>6, Facts DEF StartsAlone, ProcessSound, CallSound
<1>10. CallSound' /\ PendingSound'
  BY <1>0, <1>1, <1>4, <1>6 DEF CallSound, PendingSound, WInv, WorkerTypeOK, Sound
<1>11. \A q \in Calls : Users(q)' = Users(q) /\ w'[q].active = w[q].active
  BY <1>0, <1>1, <1>4, <1>6, Facts DEF Users
<1>12. RetiredUnused'
  BY <1>1, <1>4, <1>6, <1>11, Facts DEF Users, RetiredUnused
<1> QED BY <1>7, <1>8, <1>9, <1>10, <1>12 DEF WInv, Sound

\* A worker that reads again changes nothing the supervisor knows of.
LEMMA DrainKeeps ==
  ASSUME WInv, NEW p \in Calls, Drain(p)
  PROVE  WInv'
<1>1. w' \in [Calls -> Process]
  BY Facts, ProcessUpdates DEF Drain
<1>2. WorkerTypeOK'
  BY <1>1 DEF WInv, WorkerTypeOK, Drain
<1>3. \A q \in Calls : Users(q)' = Users(q) /\ w'[q].active = w[q].active
  BY Facts DEF Users, Process, Drain
<1>4. RetiredUnused'
  BY <1>3, Facts DEF Users, RetiredUnused, Process, ProcessSound, StartsAlone, Drain
<1>5. SlotWhileRunning' /\ RunsOnce'
  BY DEF SlotWhileRunning, RunsOnce, WInv, WorkerTypeOK, Sound, StartsAlone, ProcessSound, CallSound, PendingSound, Process, Drain
<1>6. Sound'
  BY DEF WInv, WorkerTypeOK, Sound, StartsAlone, ProcessSound, CallSound, PendingSound, Process, Drain
<1> QED BY <1>2, <1>4, <1>5, <1>6 DEF WInv

\* A call that has closed the stdin of a process is over, or looks for another one.
LEMMA ClosedKeeps ==
  ASSUME WInv, NEW c \in Calls, Closed(c)
  PROVE  WInv'
<1>2. WorkerTypeOK'
  BY DEF WInv, WorkerTypeOK, Closed
<1>3. \A q \in Calls : Users(q)' = Users(q) /\ w'[q].active = w[q].active
  BY Facts DEF Users, Process, Closed
<1>4. RetiredUnused'
  BY <1>3, Facts DEF Users, RetiredUnused, Closed
<1>5. SlotWhileRunning' /\ RunsOnce'
  BY DEF SlotWhileRunning, RunsOnce, WInv, WorkerTypeOK, Sound, StartsAlone, ProcessSound, CallSound, PendingSound, Process, Closed
<1>6. Sound'
  BY DEF WInv, WorkerTypeOK, Sound, StartsAlone, ProcessSound, CallSound, PendingSound, Process, Closed
<1> QED BY <1>2, <1>4, <1>5, <1>6 DEF WInv

\* An idle worker is retired with no caller.
LEMMA RecycleIdleKeeps ==
  ASSUME WInv, RecycleIdle
  PROVE  WInv'
<1>1. w' \in [Calls -> Process]
  BY Facts, ProcessUpdates DEF RecycleIdle, Retire
<1>2. WorkerTypeOK'
  BY <1>1 DEF WInv, WorkerTypeOK, RecycleIdle, Retire
<1>3. \A q \in Calls : Users(q)' = Users(q) /\ w'[q].active = w[q].active
  BY Facts DEF Users, Process, RecycleIdle, Retire
<1>4. RetiredUnused'
  BY <1>3, Facts DEF Users, RetiredUnused, Process, ProcessSound, StartsAlone, RecycleIdle, Retire
<1>5. SlotWhileRunning' /\ RunsOnce'
  BY DEF SlotWhileRunning, RunsOnce, WInv, WorkerTypeOK, Sound, StartsAlone, ProcessSound, CallSound, PendingSound, Process, RecycleIdle, Retire
<1>6. Sound'
  BY DEF WInv, WorkerTypeOK, Sound, StartsAlone, ProcessSound, CallSound, PendingSound, Process, RecycleIdle, Retire
<1> QED BY <1>2, <1>4, <1>5, <1>6 DEF WInv

\* A recycled worker is retired, now or by its last caller.
LEMMA RecycleCoreWorkerKeeps ==
  ASSUME WInv, RecycleCoreWorker
  PROVE  WInv'
<1>1. w' \in [Calls -> Process]
  BY Facts, ProcessUpdates DEF RecycleCoreWorker, RetireProc, Retire
<1>2. WorkerTypeOK'
  BY <1>1 DEF WInv, WorkerTypeOK, RecycleCoreWorker, RetireProc, Retire
<1>3. \A q \in Calls : Users(q)' = Users(q) /\ w'[q].active = w[q].active
  BY Facts DEF Users, Process, RecycleCoreWorker, RetireProc, Retire
<1>4. RetiredUnused'
  BY <1>3, Facts DEF Users, RetiredUnused, Process, ProcessSound, StartsAlone, RecycleCoreWorker, RetireProc, Retire
<1>5. SlotWhileRunning' /\ RunsOnce'
  BY DEF SlotWhileRunning, RunsOnce, WInv, WorkerTypeOK, Sound, StartsAlone, ProcessSound, CallSound, PendingSound, Process, RecycleCoreWorker, RetireProc, Retire
<1>6. Sound'
  BY DEF WInv, WorkerTypeOK, Sound, StartsAlone, ProcessSound, CallSound, PendingSound, Process, RecycleCoreWorker, RetireProc, Retire
<1> QED BY <1>2, <1>4, <1>5, <1>6 DEF WInv

\* An answer takes the request out of its process and gives its slot back, once.
LEMMA DeliverKeeps ==
  ASSUME WInv, NEW p \in Calls, NEW c \in w[p].pending, Deliver(p, c)
  PROVE  WInv'
<1>0. c \in Calls
  BY Facts
<1>1. w' \in [Calls -> Process]
  <2>1. w' = [w EXCEPT ![p] = [w[p] EXCEPT !.pending = w[p].pending \ {c}]]
    BY DEF Deliver
  <2>2. w[p].pending \ {c} \in SUBSET Calls
    BY Facts
  <2>3. [w[p] EXCEPT !.pending = w[p].pending \ {c}] \in Process
    BY <2>2, Facts, ProcessUpdates
  <2> QED BY <2>1, <2>3, Facts
<1>2. WorkerTypeOK'
  BY <1>0, <1>1 DEF WInv, WorkerTypeOK, Deliver
<1>3. \A q \in Calls : Users(q)' = Users(q) /\ w'[q].active = w[q].active
  BY Facts DEF Users, Process, Deliver
<1>4. RetiredUnused'
  BY <1>3, Facts DEF Users, RetiredUnused, Process, Deliver
<1>f. /\ PendingSound /\ SlotWhileRunning /\ RunsOnce
      /\ outcome \in [Calls -> Outcomes] /\ slots \subseteq Calls
  BY DEF WInv, Sound, WorkerTypeOK
<1>a. /\ w'[p].pending = w[p].pending \ {c}
      /\ \A q \in Calls \ {p} : w'[q] = w[q]
  BY Facts DEF Process, Deliver
<1>b. \A q \in Calls : c \in w[q].pending => q = p
  BY <1>0, <1>f DEF PendingSound
<1>c. \A q, d \in Calls : d \in w'[q].pending <=> (d \in w[q].pending /\ d # c)
  BY <1>a, <1>b, Facts
<1>d. pc[c] # "admitted"
  BY <1>0, <1>f, Facts DEF PendingSound, CallSound
<1>5a. SlotWhileRunning'
  BY <1>0, <1>c, <1>d, <1>f DEF SlotWhileRunning, Deliver
<1>5b. RunsOnce'
  BY <1>0, <1>f DEF RunsOnce, Told, Deliver
<1>5. SlotWhileRunning' /\ RunsOnce'
  BY <1>5a, <1>5b
<1>6. Sound'
  BY <1>0 DEF WInv, WorkerTypeOK, Sound, StartsAlone, ProcessSound, CallSound, PendingSound, Process, Deliver
<1> QED BY <1>2, <1>4, <1>5, <1>6 DEF WInv

\* A call is counted on a running worker that is not on its way out.
LEMMA UseRunningKeeps ==
  ASSUME WInv, NEW c \in Calls, UseRunning(c)
  PROVE  WInv'
<1>0. proc \in Calls /\ pc[c] = "acquiring" /\ at[c] = None
  BY Facts DEF UseRunning, CallSound
<1>1. w' \in [Calls -> Process]
  <2>0. w[proc] \in Process /\ w[proc].active + 1 \in Nat
    BY <1>0, Facts
  <2>1. [w[proc] EXCEPT !.active = w[proc].active + 1] \in Process
    BY <2>0, ProcessUpdates
  <2>2. w' = [w EXCEPT ![proc] = [w[proc] EXCEPT !.active = w[proc].active + 1]]
    BY DEF UseRunning
  <2> QED BY <1>0, <2>1, <2>2, Facts
<1>2. WorkerTypeOK'
  BY <1>0, <1>1 DEF WInv, WorkerTypeOK, UseRunning
<1>3. \A q \in Calls : /\ w'[q].active = IF q = proc THEN w[q].active + 1 ELSE w[q].active
                       /\ Users(q)' = IF q = proc THEN Users(q) \cup {c} ELSE Users(q)
  BY <1>0, Facts DEF Users, Process, UseRunning
<1>4. RetiredUnused'
  <2>1. c \notin Users(proc) /\ IsFiniteSet(Users(proc))
    BY <1>0, FS_Subset DEF Users
  <2>2. Cardinality(Users(proc) \cup {c}) = Cardinality(Users(proc)) + 1
    BY <2>1, FS_AddElement
  <2>3. \A q \in Calls : w'[q].active = Cardinality(Users(q)')
    BY <1>3, <2>2, Counts
  <2>4. ~w[proc].retired
    BY <1>0, Facts DEF RetiredUnused, ProcessSound
  <2>5. \A q \in Calls : w'[q].retired = w[q].retired /\ w'[q].retiring = w[q].retiring
    BY <1>0, Facts DEF Process, UseRunning
  <2>6. proc' = proc
    BY DEF UseRunning
  <2> QED BY <1>0, <1>3, <2>3, <2>4, <2>5, <2>6, Facts DEF Users, RetiredUnused
<1>5. SlotWhileRunning' /\ RunsOnce'
  BY DEF SlotWhileRunning, RunsOnce, WInv, WorkerTypeOK, Sound, StartsAlone, ProcessSound, CallSound, PendingSound, Process, UseRunning
<1>6. Sound'
  BY DEF WInv, WorkerTypeOK, Sound, StartsAlone, ProcessSound, CallSound, PendingSound, Process, UseRunning
<1> QED BY <1>2, <1>4, <1>5, <1>6 DEF WInv

\* A started worker becomes the one in use, with its starter counted.
LEMMA InstallKeeps ==
  ASSUME WInv, NEW c \in Calls, Install(c)
  PROVE  WInv'
<1>0. pc[c] = "started" /\ at[c] = None /\ w[c].active = 0 /\ ~w[c].retiring /\ ~w[c].retired
  BY Facts DEF Install, CallSound, StartsAlone
<1>1. w' \in [Calls -> Process]
  <2>0. w[c] \in Process /\ w[c].active + 1 \in Nat
    BY Facts
  <2>1. [w[c] EXCEPT !.active = w[c].active + 1] \in Process
    BY <2>0, ProcessUpdates
  <2>2. w' = [w EXCEPT ![c] = [w[c] EXCEPT !.active = w[c].active + 1]]
    BY DEF Install
  <2> QED BY <2>1, <2>2, Facts
<1>2. WorkerTypeOK'
  BY <1>1 DEF WInv, WorkerTypeOK, Install
<1>3. \A q \in Calls : /\ w'[q].active = IF q = c THEN w[q].active + 1 ELSE w[q].active
                       /\ Users(q)' = IF q = c THEN Users(q) \cup {c} ELSE Users(q)
  BY <1>0, Facts DEF Users, Process, Install
<1>4. RetiredUnused'
  <2>1. c \notin Users(c) /\ IsFiniteSet(Users(c))
    BY <1>0, FS_Subset DEF Users
  <2>2. Cardinality(Users(c) \cup {c}) = Cardinality(Users(c)) + 1
    BY <2>1, FS_AddElement
  <2>3. \A q \in Calls : w'[q].active = Cardinality(Users(q)')
    BY <1>3, <2>2, Counts
  <2>4. \A q \in Calls : w'[q].retired = w[q].retired /\ w'[q].retiring = w[q].retiring
    BY Facts DEF Process, Install
  <2>5. proc' = c
    BY DEF Install
  <2> QED BY <1>0, <1>3, <2>3, <2>4, <2>5, Facts DEF Users, RetiredUnused
<1>5. SlotWhileRunning' /\ RunsOnce'
  BY DEF SlotWhileRunning, RunsOnce, WInv, WorkerTypeOK, Sound, StartsAlone, ProcessSound, CallSound, PendingSound, Process, Install
<1>6. Sound'
  BY DEF WInv, WorkerTypeOK, Sound, StartsAlone, ProcessSound, CallSound, PendingSound, Process, Install
<1> QED BY <1>2, <1>4, <1>5, <1>6 DEF WInv

\* A handshake that succeeds leaves the process with its starter alone.
LEMMA InitializedKeeps ==
  ASSUME WInv, NEW c \in Calls, Initialized(c)
  PROVE  WInv'
<1>1. w' \in [Calls -> Process]
  BY Facts, ProcessUpdates DEF Initialized
<1>2. WorkerTypeOK'
  BY <1>1 DEF WInv, WorkerTypeOK, Initialized
<1>3. \A q \in Calls : Users(q)' = Users(q) /\ w'[q].active = w[q].active
  BY Facts DEF Users, Process, Initialized
<1>4. RetiredUnused'
  <2>1. \A q \in Calls : w'[q].retired = w[q].retired /\ w'[q].retiring = w[q].retiring
    BY Facts DEF Process, Initialized
  <2> QED BY <1>3, <2>1, Facts DEF Users, RetiredUnused, Initialized
<1>5. SlotWhileRunning' /\ RunsOnce'
  BY DEF SlotWhileRunning, RunsOnce, WInv, WorkerTypeOK, Sound, StartsAlone, ProcessSound, CallSound, PendingSound, Process, Initialized
<1>6. Sound'
  BY DEF WInv, WorkerTypeOK, Sound, StartsAlone, ProcessSound, CallSound, PendingSound, Process, Initialized
<1> QED BY <1>2, <1>4, <1>5, <1>6 DEF WInv

\* The worker of an abandoned request is retired, now or by its last caller.
LEMMA AbandonedTooLongKeeps ==
  ASSUME WInv, NEW c \in Calls, AbandonedTooLong(c)
  PROVE  WInv'
<1>1. PICK p \in Calls : RetireProc(p)
  BY DEF AbandonedTooLong, Procs
<1>2. w' \in [Calls -> Process]
  BY <1>1, Facts, ProcessUpdates DEF RetireProc
<1>3. WorkerTypeOK'
  BY <1>1, <1>2 DEF WInv, WorkerTypeOK, RetireProc, AbandonedTooLong
<1>4. \A q \in Calls : Users(q)' = Users(q) /\ w'[q].active = w[q].active
  BY <1>1, Facts DEF Users, Process, RetireProc, Retire, AbandonedTooLong
<1>5. RetiredUnused'
  BY <1>1, <1>4, Facts DEF Users, RetiredUnused, Process, RetireProc, Retire
<1>6. SlotWhileRunning' /\ RunsOnce'
  BY <1>1 DEF SlotWhileRunning, RunsOnce, WInv, WorkerTypeOK, Sound, StartsAlone, ProcessSound, CallSound, PendingSound, Process, AbandonedTooLong, RetireProc, Retire
<1>7. Sound'
  BY DEF WInv, WorkerTypeOK, Sound, StartsAlone, ProcessSound, CallSound, PendingSound, Process, AbandonedTooLong, RetireProc, Retire, Procs
<1> QED BY <1>3, <1>5, <1>6, <1>7 DEF WInv

\* A request becomes pending in a process that is not dead; otherwise its slot goes back.
LEMMA RegisterKeeps ==
  ASSUME WInv, NEW c \in Calls, Register(c)
  PROVE  WInv'
<1>0. at[c] \in Calls /\ pc[c] = "admitted" /\ w[at[c]] \in Process
  BY Facts DEF Register, CallSound
<1>1. CASE w[at[c]].dead
  <2>1. /\ w' = w /\ at' = at /\ proc' = proc /\ starting' = starting /\ ran' = ran /\ abandoned' = abandoned
        /\ retryKey' = retryKey /\ crashed' = crashed
        /\ pc' = [pc EXCEPT ![c] = "releasing"] /\ outcome' = [outcome EXCEPT ![c] = "fallback"]
        /\ slots' = slots \ {c}
    BY <1>1, <1>0 DEF Register
  <2>2. WorkerTypeOK' /\ Sound'
    BY <1>0, <2>1 DEF WInv, WorkerTypeOK, Sound, StartsAlone, ProcessSound, CallSound, PendingSound, Process
  <2>3. SlotWhileRunning' /\ RunsOnce'
    BY <1>0, <2>1 DEF SlotWhileRunning, RunsOnce, WInv, WorkerTypeOK, Sound, StartsAlone, ProcessSound, CallSound, PendingSound, Process
  <2>4. \A q \in Calls : Users(q)' = Users(q)
    BY <1>0, <2>1, Facts DEF Users
  <2>5. RetiredUnused'
    BY <2>1, <2>4, Facts DEF Users, RetiredUnused
  <2> QED BY <2>2, <2>3, <2>5 DEF WInv
<1>2. CASE ~w[at[c]].dead
  <2> DEFINE p == at[c]
             x == [w[p] EXCEPT !.pending = w[p].pending \cup {c}]
  <2>1. /\ w' = [w EXCEPT ![p] = x] /\ at' = at /\ proc' = proc /\ starting' = starting /\ ran' = ran
        /\ abandoned' = abandoned /\ retryKey' = retryKey /\ crashed' = crashed
        /\ pc' = [pc EXCEPT ![c] = "writing"] /\ outcome' = outcome /\ slots' = slots
    BY <1>2, <1>0 DEF Register
  <2>2. w[p].pending \cup {c} \in SUBSET Calls
    BY <1>0, Facts
  <2>3. x \in Process
    BY <1>0, <2>2, ProcessUpdates
  <2>4. /\ x.life = w[p].life /\ x.dead = w[p].dead /\ x.retiring = w[p].retiring
        /\ x.retired = w[p].retired /\ x.active = w[p].active /\ x.pending = w[p].pending \cup {c}
    BY <1>0 DEF Process
  <2> HIDE DEF x
  <2>5. w' \in [Calls -> Process] /\ \A q \in Calls : w'[q] = IF q = p THEN x ELSE w[q]
    BY <1>0, <2>1, <2>3, Facts
  <2>6. WorkerTypeOK'
    BY <2>1, <2>5 DEF WInv, WorkerTypeOK
  <2>7. \A q \in Calls : c \notin w[q].pending
    BY <1>0 DEF WInv, Sound, PendingSound, CallSound
  <2>8. SlotWhileRunning' /\ RunsOnce'
    BY <1>0, <2>1, <2>4, <2>5 DEF SlotWhileRunning, RunsOnce, WInv, WorkerTypeOK
  <2>9. StartsAlone' /\ ProcessSound'
    BY <1>0, <1>2, <2>1, <2>4, <2>5, Facts DEF StartsAlone, ProcessSound, CallSound
  <2>10. CallSound' /\ PendingSound'
    BY <1>0, <2>1, <2>4, <2>5, <2>7 DEF CallSound, PendingSound, WInv, WorkerTypeOK, Sound
  <2>11. \A q \in Calls : Users(q)' = Users(q) /\ w'[q].active = w[q].active
    BY <1>0, <2>1, <2>4, <2>5, Facts DEF Users
  <2>12. RetiredUnused'
    BY <2>1, <2>4, <2>5, <2>11, Facts DEF Users, RetiredUnused
  <2> QED BY <2>6, <2>8, <2>9, <2>10, <2>12 DEF WInv, Sound
<1> QED BY <1>1, <1>2

\* A request that could not be written is withdrawn, with its slot, before it ran.
LEMMA WriteFailsKeeps ==
  ASSUME WInv, NEW c \in Calls, WriteFails(c)
  PROVE  WInv'
<1> DEFINE p == at[c]
           x == Kill([w[p] EXCEPT !.pending = w[p].pending \ {c}, !.dead = TRUE])
<1>0. p \in Calls /\ pc[c] = "writing" /\ w[p] \in Process /\ w[p].life \in Lives
  BY Facts DEF WriteFails, CallSound, Process
<1>1. /\ w' = [w EXCEPT ![p] = x] /\ at' = at /\ proc' = proc /\ starting' = starting /\ ran' = ran
      /\ abandoned' = abandoned /\ retryKey' = retryKey /\ crashed' = crashed
      /\ pc' = [pc EXCEPT ![c] = "releasing"] /\ outcome' = [outcome EXCEPT ![c] = "fallback"]
      /\ slots' = slots \ {c}
  BY <1>0 DEF WriteFails
<1>2. w[p].pending \ {c} \in SUBSET Calls
  BY <1>0, Facts
<1>3. x \in Process
  BY <1>0, <1>2 DEF Process, Kill
<1>4. /\ x.life = IF w[p].life = "up" THEN "exited" ELSE w[p].life
      /\ x.dead /\ x.retiring = w[p].retiring
      /\ x.retired = w[p].retired /\ x.active = w[p].active /\ x.pending = w[p].pending \ {c}
  BY <1>0 DEF Process, Kill
<1> HIDE DEF x
<1>5. w' \in [Calls -> Process] /\ \A q \in Calls : w'[q] = IF q = p THEN x ELSE w[q]
  BY <1>0, <1>1, <1>3, Facts
<1>6. WorkerTypeOK'
  BY <1>1, <1>5 DEF WInv, WorkerTypeOK
<1>7. \A q \in Calls : c \in w[q].pending => q = p
  BY <1>0 DEF WInv, Sound, PendingSound, CallSound
<1>8. SlotWhileRunning' /\ RunsOnce'
  BY <1>0, <1>1, <1>4, <1>5, <1>7 DEF SlotWhileRunning, RunsOnce, WInv, WorkerTypeOK, Sound, CallSound
<1>9. StartsAlone' /\ ProcessSound'
  BY <1>0, <1>1, <1>4, <1>5, Facts DEF StartsAlone, ProcessSound, CallSound
<1>10. CallSound' /\ PendingSound'
  BY <1>0, <1>1, <1>4, <1>5, <1>7 DEF CallSound, PendingSound, WInv, WorkerTypeOK, Sound
<1>11. \A q \in Calls : Users(q)' = Users(q) /\ w'[q].active = w[q].active
  BY <1>0, <1>1, <1>4, <1>5, Facts DEF Users
<1>12. RetiredUnused'
  BY <1>1, <1>4, <1>5, <1>11, Facts DEF Users, RetiredUnused
<1> QED BY <1>6, <1>8, <1>9, <1>10, <1>12 DEF WInv, Sound

\* A reclaimed worker is retired when idle and marked when busy.
LEMMA ReclaimKeeps ==
  ASSUME WInv, ReclaimCoreWorker
  PROVE  WInv'
<1>0. proc \in Calls /\ w[proc] \in Process
  BY Facts DEF ReclaimCoreWorker
<1>1. CASE w[proc].active > 0 /\ w' = [w EXCEPT ![proc].recycle = TRUE] /\ UNCHANGED proc
  <2> DEFINE x == [w[proc] EXCEPT !.recycle = TRUE]
  <2>1. /\ w' = [w EXCEPT ![proc] = x] /\ at' = at /\ proc' = proc /\ starting' = starting /\ ran' = ran
        /\ abandoned' = abandoned /\ retryKey' = retryKey /\ crashed' = crashed
        /\ pc' = pc /\ outcome' = outcome /\ slots' = slots
    BY <1>1 DEF ReclaimCoreWorker
  <2>2. x \in Process
    BY <1>0, ProcessUpdates
  <2>3. /\ x.life = w[proc].life /\ x.dead = w[proc].dead /\ x.retiring = w[proc].retiring
        /\ x.retired = w[proc].retired /\ x.active = w[proc].active /\ x.pending = w[proc].pending
    BY <1>0 DEF Process
  <2> HIDE DEF x
  <2>4. w' \in [Calls -> Process] /\ \A q \in Calls : w'[q] = IF q = proc THEN x ELSE w[q]
    BY <1>0, <2>1, <2>2, Facts
  <2>5. WorkerTypeOK' /\ SlotWhileRunning' /\ RunsOnce'
    BY <2>1, <2>3, <2>4 DEF WInv, WorkerTypeOK, SlotWhileRunning, RunsOnce
  <2>6. Sound'
    BY <2>1, <2>3, <2>4 DEF WInv, Sound, StartsAlone, ProcessSound, CallSound, PendingSound
  <2>7. RetiredUnused'
    BY <2>1, <2>3, <2>4, Facts DEF RetiredUnused
  <2> QED BY <2>5, <2>6, <2>7 DEF WInv
<1>2. CASE w[proc].active = 0 /\ w' = [w EXCEPT ![proc] = Retire(w[proc])] /\ proc' = None
  <2> DEFINE x == Retire(w[proc])
  <2>1. /\ w' = [w EXCEPT ![proc] = x] /\ at' = at /\ proc' = None /\ starting' = starting /\ ran' = ran
        /\ abandoned' = abandoned /\ retryKey' = retryKey /\ crashed' = crashed
        /\ pc' = pc /\ outcome' = outcome /\ slots' = slots
    BY <1>2 DEF ReclaimCoreWorker
  <2>2. x \in Process
    BY <1>0, ProcessUpdates
  <2>3. /\ x.life = w[proc].life /\ x.dead = w[proc].dead /\ x.retiring
        /\ x.retired /\ x.active = w[proc].active /\ x.pending = w[proc].pending
    BY <1>0 DEF Process, Retire
  <2> HIDE DEF x
  <2>4. w' \in [Calls -> Process] /\ \A q \in Calls : w'[q] = IF q = proc THEN x ELSE w[q]
    BY <1>0, <2>1, <2>2, Facts
  <2>5. WorkerTypeOK' /\ SlotWhileRunning' /\ RunsOnce'
    BY <2>1, <2>3, <2>4 DEF WInv, WorkerTypeOK, SlotWhileRunning, RunsOnce
  <2>6. Sound'
    BY <1>0, <2>1, <2>3, <2>4 DEF WInv, Sound, WorkerTypeOK, StartsAlone, ProcessSound, CallSound, PendingSound
  <2>7. RetiredUnused'
    BY <1>2, <2>1, <2>3, <2>4, Facts DEF RetiredUnused
  <2> QED BY <2>5, <2>6, <2>7 DEF WInv
<1> QED BY <1>1, <1>2 DEF ReclaimCoreWorker

\* A call that is over is counted off; the last one ends a retiring or marked process.
LEMMA ReleaseKeeps ==
  ASSUME WInv, NEW c \in Calls, Release(c)
  PROVE  WInv'
<1> DEFINE p == at[c]
           left == [w[p] EXCEPT !.active = @ - 1]
           recycle == left.active = 0 /\ proc = p /\ left.recycle
           ends == left.active = 0 /\ (left.retiring \/ recycle)
           waits == ends /\ left.blocked
           kept == IF ends THEN Retire(left) ELSE left
           x == Forgotten(kept)
<1>0. p \in Calls /\ pc[c] = "releasing" /\ w[p] \in Process
  BY Facts DEF Release, CallSound
<1>1. /\ w' = [w EXCEPT ![p] = x] /\ at' = (IF waits THEN at ELSE [at EXCEPT ![c] = None])
      /\ proc' = (IF recycle THEN None ELSE proc) /\ starting' = starting /\ ran' = ran \ {c}
      /\ abandoned' = abandoned /\ retryKey' = retryKey /\ crashed' = (crashed /\ outcome[c] # "answered")
      /\ pc' = [pc EXCEPT ![c] = IF waits THEN "closing" ELSE "over"]
      /\ outcome' = [outcome EXCEPT ![c] = "none"] /\ slots' = slots
  BY <1>0 DEF Release
<1>2. c \in Users(p) /\ w[p].active = Cardinality(Users(p)) /\ IsFiniteSet(Users(p))
  BY <1>0, Counts DEF Users
<1>3. /\ Cardinality(Users(p) \ {c}) = w[p].active - 1
      /\ Cardinality(Users(p) \ {c}) \in Nat
  BY <1>2, FS_RemoveElement, FS_CardinalityType
<1>4. w[p].active - 1 \in Nat
  BY <1>3
<1>5. left \in Process
  BY <1>0, <1>4 DEF Process
<1>6. /\ left.life = w[p].life /\ left.dead = w[p].dead /\ left.retiring = w[p].retiring
      /\ left.retired = w[p].retired /\ left.active = w[p].active - 1 /\ left.pending = w[p].pending
      /\ left.life \in Lives
  BY <1>0 DEF Process
<1> HIDE DEF left
<1>7. kept \in Process
  BY <1>5, ProcessUpdates
<1>8. /\ kept.life = w[p].life /\ kept.dead = w[p].dead
      /\ kept.active = w[p].active - 1 /\ kept.pending = w[p].pending
      /\ kept.retiring <=> (w[p].retiring \/ recycle)
      /\ kept.retired => w[p].retired \/ kept.active = 0
      /\ kept.retired => kept.retiring
  <2>1. w[p].retired => w[p].retiring
    BY <1>0, Facts DEF ProcessSound
  <2> QED BY <1>5, <1>6, <2>1 DEF Process, Retire
<1> HIDE DEF kept, recycle, ends, waits
<1>9. x \in Process
  BY <1>7, ProcessUpdates
<1>10. /\ x.life = w[p].life /\ x.dead = w[p].dead
       /\ x.active = w[p].active - 1 /\ x.pending = w[p].pending
       /\ x.retiring => w[p].retiring \/ recycle
       /\ x.life = "up" => (x.retiring <=> (w[p].retiring \/ recycle))
       /\ x.retired => x.retiring /\ (w[p].retired \/ x.active = 0)
  <2>1. w[p].life = "done" => w[p].dead /\ w[p].pending = {}
    BY <1>0, Facts DEF ProcessSound
  <2>2. w[p].dead \in BOOLEAN
    BY <1>0 DEF Process
  <2>3. CASE kept.life = "done" /\ kept.active = 0
    BY <1>7, <1>8, <2>1, <2>2, <2>3 DEF Forgotten, NotStarted
  <2>4. CASE ~(kept.life = "done" /\ kept.active = 0)
    <3>1. x = kept
      BY <2>4 DEF Forgotten
    <3> QED BY <1>8, <3>1
  <2> QED BY <2>3, <2>4
<1> HIDE DEF x
<1>11. w' \in [Calls -> Process] /\ \A q \in Calls : w'[q] = IF q = p THEN x ELSE w[q]
  BY <1>0, <1>1, <1>9, Facts
<1>12. WorkerTypeOK'
  <2>1. crashed' \in BOOLEAN
    BY <1>1, Zenon
  <2> QED BY <1>1, <1>11, <2>1 DEF WInv, WorkerTypeOK
<1>13. SlotWhileRunning' /\ RunsOnce'
  BY <1>0, <1>1, <1>10, <1>11 DEF SlotWhileRunning, RunsOnce, WInv, WorkerTypeOK
<1>14. StartsAlone' /\ ProcessSound'
  BY <1>0, <1>1, <1>10, <1>11, Facts DEF StartsAlone, ProcessSound, CallSound, recycle
<1>15. CallSound' /\ PendingSound'
  BY <1>0, <1>1, <1>10, <1>11 DEF CallSound, PendingSound, WInv, WorkerTypeOK, Sound
<1>16. RetiredUnused'
  <2>1. \A q \in Calls : Users(q)' = IF q = p THEN Users(q) \ {c} ELSE Users(q)
    BY <1>0, <1>1, Facts DEF Users
  <2>2. \A q \in Calls : w'[q].active = Cardinality(Users(q)')
    BY <1>3, <1>10, <1>11, <2>1, Counts
  <2>3. \A q \in Calls : w'[q].retired => w'[q].active = 0
    <3>1. w[p].retired => w[p].active = 0
      BY <1>0, Facts DEF RetiredUnused
    <3> QED BY <1>0, <1>3, <1>10, <1>11, <3>1, Facts DEF RetiredUnused
  <2>4. proc' # None => ~w'[proc'].retiring
    BY <1>0, <1>1, <1>10, <1>11, Facts DEF RetiredUnused
  <2> QED BY <2>2, <2>3, <2>4 DEF RetiredUnused, Users
<1> QED BY <1>12, <1>13, <1>14, <1>15, <1>16 DEF WInv, Sound

\* The supervisor starts with no process and no call in use.
LEMMA InitWInv == Init => WInv
<1> SUFFICES ASSUME Init PROVE WInv
  OBVIOUS
<1>1. NotStarted \in Process /\ NotStarted.active = 0 /\ NotStarted.pending = {}
      /\ NotStarted.life = "none" /\ ~NotStarted.retiring /\ ~NotStarted.retired
  BY DEF NotStarted, Process
<1> HIDE DEF NotStarted
<1>2. \A c \in Calls : w[c] = NotStarted /\ pc[c] \in {"acquiring", "over"} /\ at[c] = None /\ outcome[c] = "none"
  BY DEF Init
<1>3. WorkerTypeOK
  BY <1>1 DEF Init, WorkerTypeOK
<1>4. SlotWhileRunning /\ RunsOnce
  BY <1>1, <1>2 DEF Init, SlotWhileRunning, RunsOnce
<1>5. Sound
  BY <1>1, <1>2 DEF Init, Sound, StartsAlone, ProcessSound, CallSound, PendingSound
<1>6. \A p \in Calls : {c \in Calls : pc[c] \in InUse /\ at[c] = p} = {}
  BY <1>2
<1>7. RetiredUnused
  BY <1>1, <1>2, <1>6, FS_EmptySet DEF Init, RetiredUnused
<1> QED BY <1>3, <1>4, <1>5, <1>7 DEF WInv

\* A step of a call on its way through runViaWorker.
LEMMA ProceedKeeps ==
  ASSUME WInv, NEW c \in Calls, Proceed(c)
  PROVE  WInv'
<1>1. CASE Acquire(c)
  BY <1>1, UseRunningKeeps, NoLiveWorkerKeeps, ForgetDeadKeeps, ReplaceOtherKeeps, GiveUpAcquiringKeeps,
     BackingOffKeeps, StartWorkerKeeps DEF Acquire
<1>2. CASE Start(c)
  BY <1>2, InitializedKeeps, InitializeFailsKeeps, StartFailedKeeps, InstallKeeps DEF Start
<1>3. CASE Call(c)
  BY <1>3, NotResidentKeeps, ChildLimitReachedKeeps, TakeChildSlotKeeps, RegisterKeeps,
     WriteFailsKeeps, AnsweredKeeps, AbandonKeeps, ReleaseKeeps DEF Call
<1> QED BY <1>1, <1>2, <1>3, ClosedKeeps DEF Proceed

\* Every step of the supervisor, its calls and its processes keeps the invariant.
LEMMA NextWInv == WInv /\ [Next]_vars => WInv'
<1> SUFFICES ASSUME WInv, [Next]_vars PROVE WInv'
  OBVIOUS
<1>1. ASSUME NEW c \in Going, Proceed(c) \/ Write(c) PROVE WInv'
  BY <1>1, ProceedKeeps, WriteKeeps DEF Going
<1>2. ASSUME NEW c \in abandoned, AbandonedTooLong(c) PROVE WInv'
  BY <1>2, AbandonedTooLongKeeps DEF WInv, WorkerTypeOK
<1>3. ASSUME NEW p \in Procs,
             \/ Exit(p) \/ Drain(p) \/ ReadLoopEnds(p) \/ OnExit(p)
             \/ \E c \in w[p].pending : Deliver(p, c)
      PROVE  WInv'
  BY <1>3, ExitKeeps, DrainKeeps, ReadLoopEndsKeeps, OnExitKeeps, DeliverKeeps DEF Procs
<1>4. CASE BackoffEnds \/ RecycleIdle \/ ReclaimCoreWorker \/ RecycleCoreWorker
  BY <1>4, BackoffEndsKeeps, RecycleIdleKeeps, ReclaimKeeps, RecycleCoreWorkerKeeps
<1>5. CASE UNCHANGED vars
  BY <1>5 DEF vars, WInv, WorkerTypeOK, SlotWhileRunning, RetiredUnused, RunsOnce, Sound, StartsAlone,
              ProcessSound, CallSound, PendingSound
<1> QED BY <1>1, <1>2, <1>3, <1>4, <1>5 DEF Next

\* The inductive invariant holds in every state of the supervisor (worker.go,
\* worker_governor.go), for every set of calls, configurations and child slots.
THEOREM WorkerInvariant == Spec => []WInv
BY InitWInv, NextWInv, PTL DEF Spec

\* Type correctness: in particular release never counts a process below no callers.
THEOREM WorkerTypes == Spec => []WorkerTypeOK
<1>1. WInv => WorkerTypeOK
  BY DEF WInv
<1> QED BY <1>1, WorkerInvariant, PTL

\* A child slot is taken exactly while its request is admitted or pending in a worker
\* (runViaWorker, deliver, abandon and the read loop's end).
THEOREM SlotsExact == Spec => []SlotWhileRunning
<1>1. WInv => SlotWhileRunning
  BY DEF WInv
<1> QED BY <1>1, WorkerInvariant, PTL

\* No process is ended under a caller, and one that is on its way out takes no more
\* calls (retireProc, release, recycleIdle, reclaimCoreWorker).
THEOREM NeverRetiredInUse == Spec => []RetiredUnused
<1>1. WInv => RetiredUnused
  BY DEF WInv
<1> QED BY <1>1, WorkerInvariant, PTL

\* At most one process that is not on its way out runs (acquire's single start).
THEOREM SingleWorker == Spec => []OneWorker
<1>1. WInv => OneWorker
  BY DEF WInv, Sound, StartsAlone, ProcessSound, OneWorker, Procs
<1> QED BY <1>1, WorkerInvariant, PTL

\* What the caller runs again on the one-shot path never reached a worker
\* (errWorkerUnsent).
THEOREM FallbackNeverRan == Spec => []RunsOnce
<1>1. WInv => RunsOnce
  BY DEF WInv
<1> QED BY <1>1, WorkerInvariant, PTL
=============================================================================
