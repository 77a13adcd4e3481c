-------------------------- MODULE WorkerSupervisor --------------------------
(***************************************************************************)
(* The resident Rust worker (api-go/internal/rustcore/worker.go and        *)
(* worker_governor.go): calls share one child process, which is started on *)
(* demand, retired for its memory, its configuration or a wedged request,  *)
(* and may crash at any moment with calls in flight.                       *)
(*                                                                         *)
(* The supervisor's fields change under its mutex and a process's under    *)
(* the process's, so an action is what happens under one of them.  A call  *)
(* starts at most one process, so a process is named after the call that   *)
(* started it.  A context may end at any time (a call has a timeout), so   *)
(* every look at one may go either way.  A write to a worker's stdin looks *)
(* at none: it holds the process's writeMu until the worker reads or dies. *)
(* What a request computes is left out; whether the worker got it is not.  *)
(***************************************************************************)
EXTENDS Naturals, FiniteSets

CONSTANTS
    Calls,          \* the calls of runViaWorker
    KeyOf,          \* call -> the worker configuration it sees
    ResidentOnly,   \* the calls that never start a worker (WithResidentOnly)
    ChildCap,       \* budget.Children.Cap()
    Mixes,          \* bound: the sets of calls that may be made together
    None

ASSUME WorkerAssumption ==
    /\ IsFiniteSet(Calls)
    /\ ResidentOnly \subseteq Calls
    /\ Mixes \subseteq SUBSET Calls
    /\ ChildCap \in Nat \ {0}
    /\ None \notin Calls

Keys == {KeyOf[c] : c \in Calls}
Lives == {"none", "up", "exited", "reaped", "done"}
InUse == {"using", "admitted", "writing", "waiting", "releasing"}
Closing == {"closing", "replacing"}
Stages == {"acquiring", "starting", "failing", "started", "over"} \cup InUse \cup Closing
Outcomes == {"none", "answered", "failed", "fallback"}

VARIABLES
    proc,       \* s.proc: the process new calls use
    starting,   \* the call that is starting one
    retryKey,   \* the key whose restart is backing off
    crashed,    \* a crash since the last completed call
    w,          \* the processes
    pc,         \* call -> where it is
    at,         \* call -> the process it uses
    outcome,    \* call -> what the call in progress came to
    slots,      \* the calls whose child slot is taken
    abandoned,  \* the requests whose caller is gone
    ran         \* the calls a worker may have run

supervisor == <<proc, starting, retryKey, crashed>>
vars == <<proc, starting, retryKey, crashed, w, pc, at, outcome, slots, abandoned, ran>>

Process ==
    [life : Lives, started : BOOLEAN, dead : BOOLEAN, retiring : BOOLEAN, retired : BOOLEAN,
     recycle : BOOLEAN, blocked : BOOLEAN, active : Nat, pending : SUBSET Calls]
NotStarted ==
    [life |-> "none", started |-> FALSE, dead |-> FALSE, retiring |-> FALSE, retired |-> FALSE,
     recycle |-> FALSE, blocked |-> FALSE, active |-> 0, pending |-> {}]

Init ==
    /\ proc = None /\ starting = None /\ retryKey = None /\ crashed = FALSE
    /\ w = [p \in Calls |-> NotStarted]
    /\ \E made \in Mixes : pc = [c \in Calls |-> IF c \in made THEN "acquiring" ELSE "over"]
    /\ at = [c \in Calls |-> None]
    /\ outcome = [c \in Calls |-> "none"]
    /\ slots = {} /\ abandoned = {} /\ ran = {}

Going == {c \in Calls : pc[c] # "over"}
Procs == {p \in Calls : w[p].life \notin {"none", "done"}}
Goto(c, from, to) == pc[c] = from /\ pc' = [pc EXCEPT ![c] = to]
Told(c, o) == outcome' = [outcome EXCEPT ![c] = o]

-----------------------------------------------------------------------------
(***************************************************************************)
(* Processes                                                               *)
(***************************************************************************)

\* retire: a process is ended by closing its stdin, and killed if that is not enough.
\* Both wait for writeMu while a cancel frame is stuck in a full pipe (blocked).
Retire(x) == [x EXCEPT !.retiring = TRUE, !.retired = TRUE]
\* Nobody looks at the rest of a process that is gone and has no callers.
Forgotten(x) ==
    IF x.life = "done" /\ x.active = 0 THEN [NotStarted EXCEPT !.life = "done", !.dead = TRUE] ELSE x
\* A write to a dead process fails, so none is stuck in its pipe.
Kill(x) == IF x.life = "up" THEN [x EXCEPT !.life = "exited", !.blocked = FALSE] ELSE x

\* Mutant: the process is ended under its callers.
RetireProcNow(p) ==
    /\ proc' = IF proc = p THEN None ELSE proc
    /\ w' = [w EXCEPT ![p] = Retire(@)]
\* retireProc: no new calls; ended now if it has no callers, else by the last release.
RetireProc(p) ==
    /\ proc' = IF proc = p THEN None ELSE proc
    /\ w' = [w EXCEPT ![p] = IF @.active = 0 THEN Retire(@) ELSE [@ EXCEPT !.retiring = TRUE]]

\* It crashes, breaks the protocol and is killed, or exits because its stdin was closed.
Exit(p) ==
    /\ w[p].life = "up"
    /\ w' = [w EXCEPT ![p] = Kill(@)]
    /\ UNCHANGED <<supervisor, pc, at, outcome, slots, abandoned, ran>>
ExitRetired(p) == w[p].retired /\ ~w[p].blocked /\ Exit(p)

\* It reads its stdin again.
Drain(p) ==
    /\ w[p].life = "up" /\ w[p].blocked
    /\ w' = [w EXCEPT ![p].blocked = FALSE]
    /\ UNCHANGED <<supervisor, pc, at, outcome, slots, abandoned, ran>>

\* Mutant: what was pending keeps its slots.
ReapKeepsSlots(p) ==
    /\ w[p].life = "exited"
    /\ w' = [w EXCEPT ![p] = [@ EXCEPT !.life = "reaped", !.dead = TRUE, !.pending = {}]]
    /\ UNCHANGED <<supervisor, pc, at, outcome, slots, abandoned, ran>>
\* The read loop sees the end, reaps the process and fails what is pending.
ReadLoopEnds(p) ==
    /\ w[p].life = "exited"
    /\ w' = [w EXCEPT ![p] = [@ EXCEPT !.life = "reaped", !.dead = TRUE, !.pending = {}]]
    /\ slots' = slots \ w[p].pending
    /\ outcome' = [c \in Calls |-> IF c \in w[p].pending \ abandoned THEN "failed" ELSE outcome[c]]
    /\ abandoned' = abandoned \ w[p].pending
    /\ UNCHANGED <<supervisor, pc, at, ran>>

\* An unexpected exit is a crash; a second one in a row backs off.
OnExit(p) ==
    LET crash == w[p].started /\ ~w[p].retiring
    IN  /\ w[p].life = "reaped"
        /\ w' = [w EXCEPT ![p] = Forgotten([@ EXCEPT !.life = "done"])]
        /\ proc' = IF proc = p THEN None ELSE proc
        /\ crashed' = (crashed \/ crash)
        /\ retryKey' = IF ~crash THEN retryKey ELSE IF crashed THEN KeyOf[p] ELSE None
        /\ UNCHANGED <<starting, pc, at, outcome, slots, abandoned, ran>>

BackoffEnds ==
    /\ retryKey # None
    /\ retryKey' = None
    /\ UNCHANGED <<proc, starting, crashed, w, pc, at, outcome, slots, abandoned, ran>>

\* The worker answers a request: delivered (with a result, one its caller has no room
\* for, or word that it runs no such method), discarded unread when its caller is gone.
Deliver(p, c) ==
    /\ w[p].life = "up" /\ pc[c] # "writing"
    /\ w' = [w EXCEPT ![p].pending = @ \ {c}]
    /\ slots' = slots \ {c}
    /\ \/ /\ c \notin abandoned
          /\ \E o \in {"answered", "failed", "fallback"} :
                /\ Told(c, o)
                /\ ran' = IF o = "fallback" THEN ran \ {c} ELSE ran
       \/ c \in abandoned /\ UNCHANGED <<outcome, ran>>
    /\ abandoned' = abandoned \ {c}
    /\ UNCHANGED <<supervisor, pc, at>>

-----------------------------------------------------------------------------
(***************************************************************************)
(* Finding a worker                                                        *)
(***************************************************************************)

Live(c) == proc # None /\ ~w[proc].dead /\ KeyOf[proc] = KeyOf[c]

\* acquire and acquireLive: counted on the running worker.
UseRunning(c) ==
    /\ Live(c)
    /\ Goto(c, "acquiring", "using")
    /\ at' = [at EXCEPT ![c] = proc]
    /\ w' = [w EXCEPT ![proc].active = @ + 1]
    /\ UNCHANGED <<supervisor, outcome, slots, abandoned, ran>>

NoLiveWorker(c) ==
    /\ c \in ResidentOnly
    /\ ~Live(c)
    /\ Goto(c, "acquiring", "over")
    /\ UNCHANGED <<supervisor, w, at, outcome, slots, abandoned, ran>>

\* Its exit is accounted before the next start is decided.
ForgetDead(c) ==
    /\ pc[c] = "acquiring" /\ c \notin ResidentOnly
    /\ proc # None /\ w[proc].dead /\ w[proc].life = "done"
    /\ proc' = None
    /\ UNCHANGED <<starting, retryKey, crashed, w, pc, at, outcome, slots, abandoned, ran>>

\* Who closes the stdin of a process waits for writeMu.
ReplaceOther(c) ==
    LET waits == w[proc].active = 0 /\ w[proc].blocked
    IN  /\ pc[c] = "acquiring" /\ c \notin ResidentOnly
        /\ proc # None /\ ~w[proc].dead /\ KeyOf[proc] # KeyOf[c]
        /\ RetireProc(proc)
        /\ pc' = IF waits THEN [pc EXCEPT ![c] = "replacing"] ELSE pc
        /\ at' = IF waits THEN [at EXCEPT ![c] = proc] ELSE at
        /\ UNCHANGED <<starting, retryKey, crashed, outcome, slots, abandoned, ran>>

\* Waiting for an exit or for another call's start ends with the context.
GiveUpAcquiring(c) ==
    /\ c \notin ResidentOnly
    /\ \/ proc # None /\ w[proc].dead
       \/ proc = None /\ starting # None
    /\ Goto(c, "acquiring", "over")
    /\ UNCHANGED <<supervisor, w, at, outcome, slots, abandoned, ran>>

BackingOff(c) ==
    /\ c \notin ResidentOnly
    /\ proc = None /\ starting = None /\ retryKey = KeyOf[c]
    /\ Goto(c, "acquiring", "over")
    /\ UNCHANGED <<supervisor, w, at, outcome, slots, abandoned, ran>>

\* Mutant: a start in progress is not waited for.
StartAnyway(c) ==
    /\ c \notin ResidentOnly
    /\ proc = None /\ retryKey # KeyOf[c]
    /\ Goto(c, "acquiring", "starting")
    /\ starting' = c
    /\ w' = [w EXCEPT ![c].life = "up"]
    /\ UNCHANGED <<proc, retryKey, crashed, at, outcome, slots, abandoned, ran>>
StartWorker(c) ==
    /\ c \notin ResidentOnly
    /\ proc = None /\ starting = None /\ retryKey # KeyOf[c]
    /\ Goto(c, "acquiring", "starting")
    /\ starting' = c
    /\ w' = [w EXCEPT ![c].life = "up"]
    /\ UNCHANGED <<proc, retryKey, crashed, at, outcome, slots, abandoned, ran>>

Initialized(c) ==
    /\ w[c].life = "up"
    /\ Goto(c, "starting", "started")
    /\ w' = [w EXCEPT ![c].started = TRUE]
    /\ UNCHANGED <<supervisor, at, outcome, slots, abandoned, ran>>

\* The handshake failed or timed out: kill it and wait for it to be gone.
InitializeFails(c) ==
    /\ Goto(c, "starting", "failing")
    /\ w' = [w EXCEPT ![c] = Kill(@)]
    /\ UNCHANGED <<supervisor, at, outcome, slots, abandoned, ran>>

StartFailed(c) ==
    /\ w[c].life = "done"
    /\ Goto(c, "failing", "over")
    /\ starting' = None
    /\ retryKey' \in {retryKey, KeyOf[c]}
    /\ UNCHANGED <<proc, crashed, w, at, outcome, slots, abandoned, ran>>

\* The new worker may already have exited; whoever finds it dead waits for its end.
Install(c) ==
    /\ Goto(c, "started", "using")
    /\ starting' = None
    /\ proc' = c
    /\ at' = [at EXCEPT ![c] = c]
    /\ w' = [w EXCEPT ![c].active = @ + 1]
    /\ UNCHANGED <<retryKey, crashed, outcome, slots, abandoned, ran>>

-----------------------------------------------------------------------------
(***************************************************************************)
(* Calling it                                                              *)
(***************************************************************************)

\* The worker does not run this subcommand, or no child slot came free in time.
NotResident(c) ==
    /\ Goto(c, "using", "releasing")
    /\ Told(c, "fallback")
    /\ UNCHANGED <<supervisor, w, at, slots, abandoned, ran>>

ChildLimitReached(c) ==
    /\ Cardinality(slots) = ChildCap
    /\ Goto(c, "using", "releasing")
    /\ Told(c, "failed")
    /\ UNCHANGED <<supervisor, w, at, slots, abandoned, ran>>

TakeChildSlot(c) ==
    /\ Cardinality(slots) < ChildCap
    /\ Goto(c, "using", "admitted")
    /\ slots' = slots \cup {c}
    /\ UNCHANGED <<supervisor, w, at, outcome, abandoned, ran>>

\* call: a dead process takes no request, and the slot goes back.
Register(c) ==
    LET p == at[c]
    IN  /\ pc[c] = "admitted"
        /\ \/ /\ w[p].dead
              /\ Goto(c, "admitted", "releasing")
              /\ Told(c, "fallback")
              /\ slots' = slots \ {c}
              /\ UNCHANGED w
           \/ /\ ~w[p].dead
              /\ Goto(c, "admitted", "writing")
              /\ w' = [w EXCEPT ![p].pending = @ \cup {c}]
              /\ UNCHANGED <<slots, outcome>>
        /\ UNCHANGED <<supervisor, at, abandoned, ran>>

\* The whole request is in the pipe.  Until then the call waits, whatever its context.
Write(c) ==
    /\ Goto(c, "writing", "waiting")
    /\ w[at[c]].life = "up" /\ ~w[at[c]].retired /\ ~w[at[c]].blocked
    /\ ran' = ran \cup {c}
    /\ UNCHANGED <<supervisor, w, at, outcome, slots, abandoned>>

\* Its stdin is gone: the request is withdrawn and the process is given up.
WriteFails(c) ==
    LET p == at[c]
    IN  /\ Goto(c, "writing", "releasing")
        /\ w[p].life # "up" \/ w[p].retired
        /\ w' = [w EXCEPT ![p] = Kill([w[p] EXCEPT !.pending = @ \ {c}, !.dead = TRUE])]
        /\ slots' = slots \ {c}
        /\ Told(c, "fallback")
        /\ UNCHANGED <<supervisor, at, abandoned, ran>>

\* Mutant: an unsent and an unanswered request are told apart no more.
AnsweredOrRetried(c) ==
    /\ outcome[c] # "none"
    /\ Goto(c, "waiting", "releasing")
    /\ Told(c, IF outcome[c] = "failed" THEN "fallback" ELSE outcome[c])
    /\ UNCHANGED <<supervisor, w, at, slots, abandoned, ran>>
Answered(c) ==
    /\ outcome[c] # "none"
    /\ Goto(c, "waiting", "releasing")
    /\ UNCHANGED <<supervisor, w, at, outcome, slots, abandoned, ran>>

\* abandon: the request runs on, and keeps its slot.  The cancel frame, which a goroutine
\* writes, may find the pipe full.
Abandon(c) ==
    LET p == at[c]
    IN  /\ Goto(c, "waiting", "releasing")
        /\ Told(c, "failed")
        /\ \/ /\ c \in w[p].pending
              /\ abandoned' = abandoned \cup {c}
              /\ \E full \in BOOLEAN :
                    w' = [w EXCEPT ![p].blocked = @ \/ (full /\ w[p].life = "up")]
           \/ c \notin w[p].pending /\ UNCHANGED <<w, abandoned>>
        /\ UNCHANGED <<supervisor, at, slots, ran>>

\* Mutant: a wedged process is left alone.
NeverTooLong(c) == FALSE /\ UNCHANGED vars
\* A request that outlives its caller by workerKillGrace has its worker replaced.
AbandonedTooLong(c) ==
    /\ \E p \in Procs :
          /\ c \in w[p].pending /\ ~w[p].dead /\ ~w[p].retiring
          /\ RetireProc(p)
    /\ UNCHANGED <<starting, retryKey, crashed, pc, at, outcome, slots, abandoned, ran>>

\* Mutant: a call is counted off twice.
ReleaseTwice(c) ==
    LET p == at[c]
    IN  /\ Goto(c, "releasing", "over")
        /\ w' = [w EXCEPT ![p].active = @ - 2]
        /\ at' = [at EXCEPT ![c] = None]
        /\ UNCHANGED <<supervisor, outcome, slots, abandoned, ran>>
\* release: the last caller of a retiring or marked process ends it.
Release(c) ==
    LET p == at[c]
        left == [w[p] EXCEPT !.active = @ - 1]
        recycle == left.active = 0 /\ proc = p /\ left.recycle
        ends == left.active = 0 /\ (left.retiring \/ recycle)
        waits == ends /\ left.blocked
    IN  /\ Goto(c, "releasing", IF waits THEN "closing" ELSE "over")
        /\ w' = [w EXCEPT ![p] = Forgotten(IF ends THEN Retire(left) ELSE left)]
        /\ proc' = IF recycle THEN None ELSE proc
        /\ crashed' = (crashed /\ outcome[c] # "answered")
        /\ outcome' = [outcome EXCEPT ![c] = "none"]
        /\ at' = IF waits THEN at ELSE [at EXCEPT ![c] = None]
        /\ ran' = ran \ {c}
        /\ UNCHANGED <<starting, retryKey, slots, abandoned>>

\* retire has the mutex and is done.
Closed(c) ==
    /\ pc[c] \in Closing /\ ~w[at[c]].blocked
    /\ pc' = [pc EXCEPT ![c] = IF @ = "closing" THEN "over" ELSE "acquiring"]
    /\ at' = [at EXCEPT ![c] = None]
    /\ UNCHANGED <<supervisor, w, outcome, slots, abandoned, ran>>

-----------------------------------------------------------------------------
(***************************************************************************)
(* Giving memory back                                                      *)
(***************************************************************************)

\* idleCheck and recycleIdle: the timers and checks armed when the worker went idle.
RecycleIdle ==
    /\ proc # None
    /\ w[proc].active = 0 /\ ~w[proc].retiring
    /\ w' = [w EXCEPT ![proc] = Retire(@)]
    /\ proc' = None
    /\ UNCHANGED <<starting, retryKey, crashed, pc, at, outcome, slots, abandoned, ran>>

\* The governor asks: an idle worker goes now, a busy one when it is idle.
ReclaimCoreWorker ==
    /\ proc # None
    /\ \/ /\ w[proc].active > 0 /\ ~w[proc].recycle
          /\ w' = [w EXCEPT ![proc].recycle = TRUE]
          /\ UNCHANGED proc
       \/ /\ w[proc].active = 0
          /\ w' = [w EXCEPT ![proc] = Retire(@)]
          /\ proc' = None
    /\ UNCHANGED <<starting, retryKey, crashed, pc, at, outcome, slots, abandoned, ran>>

RecycleCoreWorker ==
    /\ proc # None
    /\ RetireProc(proc)
    /\ UNCHANGED <<starting, retryKey, crashed, pc, at, outcome, slots, abandoned, ran>>

-----------------------------------------------------------------------------
Acquire(c) ==
    \/ UseRunning(c) \/ NoLiveWorker(c) \/ ForgetDead(c) \/ ReplaceOther(c)
    \/ GiveUpAcquiring(c) \/ BackingOff(c) \/ StartWorker(c)
Start(c) == Initialized(c) \/ InitializeFails(c) \/ StartFailed(c) \/ Install(c)
Call(c) ==
    \/ NotResident(c) \/ ChildLimitReached(c) \/ TakeChildSlot(c)
    \/ Register(c) \/ WriteFails(c) \/ Answered(c) \/ Abandon(c)
    \/ Release(c)
Proceed(c) ==
    \/ pc[c] = "acquiring" /\ Acquire(c)
    \/ pc[c] \in {"starting", "failing", "started"} /\ Start(c)
    \/ pc[c] \in InUse /\ Call(c)
    \/ Closed(c)
Next ==
    \/ \E c \in Going : Proceed(c) \/ Write(c)
    \/ \E c \in abandoned : AbandonedTooLong(c)
    \/ \E p \in Procs :
          \/ Exit(p) \/ Drain(p) \/ ReadLoopEnds(p) \/ OnExit(p)
          \/ \E c \in w[p].pending : Deliver(p, c)
    \/ BackoffEnds \/ RecycleIdle \/ ReclaimCoreWorker \/ RecycleCoreWorker

Spec == Init /\ [][Next]_vars

\* Goroutines and timers run, and a call that waits for anything but a write ends that
\* wait with its context (coreCallTimeout).  A process whose stdin is closed exits or is
\* killed after workerKillGrace, and the operating system reports the end of a process.
\* Nothing makes the worker answer or read: a write has no deadline, and who waits for
\* writeMu behind one, to write or to retire, waits as long.
FairStep ==
    \/ \E c \in Going : Proceed(c)
    \/ \E c \in abandoned : AbandonedTooLong(c)
    \/ \E p \in Procs : ExitRetired(p) \/ ReadLoopEnds(p) \/ OnExit(p)
FairSpec == Spec /\ WF_vars(FairStep)

-----------------------------------------------------------------------------
(***************************************************************************)
(* Properties                                                              *)
(***************************************************************************)

\* The supervisor, the processes and the calls have their types; a process never has
\* fewer than no callers (the count release takes from).
WorkerTypeOK ==
    /\ proc \in Calls \cup {None} /\ starting \in Calls \cup {None}
    /\ retryKey \in Keys \cup {None} /\ crashed \in BOOLEAN
    /\ w \in [Calls -> Process]
    /\ pc \in [Calls -> Stages]
    /\ at \in [Calls -> Calls \cup {None}]
    /\ outcome \in [Calls -> Outcomes]
    /\ slots \subseteq Calls /\ abandoned \subseteq Calls /\ ran \subseteq Calls

\* "admission counts all Rust work in flight" (runViaWorker): a child slot is taken
\* exactly from its admission to the end of the request in the worker, so an abandoned
\* request that runs on still counts, and an answer, an exit and a failed write that
\* race one another give it back once.
SlotWhileRunning ==
    slots = {c \in Calls : pc[c] = "admitted" \/ \E p \in Calls : c \in w[p].pending}

\* A worker is ended under nobody: its stdin is closed only when no call uses it, and
\* a worker on its way out takes no new calls (retireProc, release, reclaimCoreWorker,
\* with a crash or a start at any point between them).
RetiredUnused ==
    /\ \A p \in Calls : w[p].retired => w[p].active = 0
    /\ \A p \in Calls : w[p].active = Cardinality({c \in Calls : pc[c] \in InUse /\ at[c] = p})
    /\ proc # None => ~w[proc].retiring

\* However many calls find no worker, a crashed one or one of another configuration at
\* once, at most one process that is not on its way out runs.
OneWorker ==
    \A p, q \in Procs :
        (/\ w[p].life = "up" /\ ~w[p].retiring
         /\ w[q].life = "up" /\ ~w[q].retiring) => p = q

\* errWorkerUnsent: "nothing ran and the one-shot path may take the call".  A call the
\* caller runs again elsewhere never reached a worker.
RunsOnce == \A c \in Calls : outcome[c] = "fallback" => c \notin ran

\* Somebody writes to the process, which neither reads nor dies.
Stuck(p) ==
    /\ w[p].life = "up"
    /\ w[p].blocked \/ \E c \in Calls : pc[c] = "writing" /\ at[c] = p

\* A worker that stops reading takes down no more than its own: every other call ends
\* whatever happens to the workers it meets, and every child slot comes back, also from a
\* request that never ends (its worker is retired, loses its other callers and exits).
\* Only a call that writes to a stuck worker or waits to retire it, and the slots of
\* the requests in it, may stay; call and retire have no bound there.
Settles ==
    <>[](/\ \A c \in Calls : pc[c] # "over" => pc[c] \in Closing \cup {"writing"} /\ Stuck(at[c])
         /\ \A c \in slots : \E p \in Calls : c \in w[p].pending /\ Stuck(p))
=============================================================================
