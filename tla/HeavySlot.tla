----------------------------- MODULE HeavySlot -----------------------------
(***************************************************************************)
(* The budget governor's heavy slot (api-go/internal/budget/governor.go):  *)
(* a channel of capacity one that heavy work fills and empties, a record   *)
(* of the holder and a queue of waiters for the health view, and a sampler *)
(* that runs while the work does.  The channel is not touched under the    *)
(* mutex that guards the holder and the queue, so every access to either   *)
(* is an action of its own.                                                *)
(*                                                                         *)
(* Memory is measured, never modelled: a sample fits or it does not.       *)
(***************************************************************************)
EXTENDS Naturals

CONSTANTS
    Callers,    \* the goroutines that ask for the slot
    HotPath,    \* those on a hook or capture path (WithoutHeavyWait)
    TooLarge,   \* those whose declaration can never be admitted
    None

ASSUME SlotAssumption ==
    /\ HotPath \subseteq Callers
    /\ TooLarge \subseteq Callers
    /\ None \notin Callers

VARIABLES
    slot,       \* how many tokens are in the channel
    holder,     \* g.holder
    queue,      \* g.queue, whose order nothing reads
    watching,   \* g.watching
    done,       \* the callers whose context has ended
    pc          \* caller -> where it is in AcquireHeavy or in its release

vars == <<slot, holder, queue, watching, done, pc>>

\* The caller's token is in the channel: on the way in, at work, on the way out.
Entering == {"won", "admitting", "reclaiming", "remeasuring", "refusing", "recording"}
Working == {"starting", "holding", "stopping"}
Leaving == {"trimming", "clearing", "emptying"}
InSlot == Entering \cup Working \cup Leaving
\* The caller is recorded as the holder.
Recorded == Working \cup {"trimming", "clearing"}
Outside == {"idle", "asked", "queueing", "waiting", "lost", "refused", "released"}

Step(c, from, to) == pc[c] = from /\ pc' = [pc EXCEPT ![c] = to]

Init ==
    /\ slot = 0
    /\ holder = None
    /\ queue = {}
    /\ watching = FALSE
    /\ done = {}
    /\ pc = [c \in Callers |-> "idle"]

-----------------------------------------------------------------------------
(***************************************************************************)
(* Taking the slot                                                         *)
(***************************************************************************)

Call(c) ==
    /\ Step(c, "idle", "asked")
    /\ UNCHANGED <<slot, holder, queue, watching, done>>

ContextEnds(c) ==
    /\ pc[c] # "idle"
    /\ c \notin done
    /\ done' = done \cup {c}
    /\ UNCHANGED <<slot, holder, queue, watching, pc>>

\* Mutant: the channel has room for two.
FillTwo == slot < 2 /\ slot' = slot + 1
Fill == slot = 0 /\ slot' = 1
Empty == slot = 1 /\ slot' = 0

\* AcquireHeavy: refused at once, taken at once, or queued for.
AcquireHeavy(c) ==
    /\ \/ /\ c \in done \cup TooLarge
          /\ Step(c, "asked", "refused")
          /\ UNCHANGED slot
       \/ /\ c \notin done \cup TooLarge
          /\ Step(c, "asked", "admitting")
          /\ Fill
       \/ /\ c \notin done \cup TooLarge
          /\ slot = 1
          /\ Step(c, "asked", IF c \in HotPath THEN "refused" ELSE "queueing")
          /\ UNCHANGED slot
    /\ UNCHANGED <<holder, queue, watching, done>>

JoinQueue(c) ==
    /\ Step(c, "queueing", "waiting")
    /\ queue' = queue \cup {c}
    /\ UNCHANGED <<slot, holder, watching, done>>

\* The select of waitForSlot: the slot, or the end of the context or of the wait.
WaitForSlot(c) ==
    /\ \/ Step(c, "waiting", "won") /\ Fill
       \/ Step(c, "waiting", "lost") /\ UNCHANGED slot
    /\ UNCHANGED <<holder, queue, watching, done>>

Dequeue(c) ==
    /\ Step(c, "won", "admitting") \/ Step(c, "lost", "refused")
    /\ queue' = queue \ {c}
    /\ UNCHANGED <<slot, holder, watching, done>>

AdmitMemory(c) ==
    /\ \E fits \in BOOLEAN :
          Step(c, "admitting", IF fits THEN "recording"
                               ELSE IF c \in HotPath THEN "refusing" ELSE "reclaiming")
    /\ UNCHANGED <<slot, holder, queue, watching, done>>

\* reclaimForHeavy: nobody had memory to give, or the bounded wait for it is over.
ReclaimForHeavy(c) ==
    /\ \E gave \in BOOLEAN : Step(c, "reclaiming", IF gave THEN "remeasuring" ELSE "refusing")
    /\ UNCHANGED <<slot, holder, queue, watching, done>>

AdmitAfterReclaim(c) ==
    /\ \E fits \in BOOLEAN :
          Step(c, "remeasuring", IF fits /\ c \notin done THEN "recording" ELSE "refusing")
    /\ UNCHANGED <<slot, holder, queue, watching, done>>

RefuseForMemory(c) ==
    /\ Step(c, "refusing", "refused")
    /\ Empty
    /\ UNCHANGED <<holder, queue, watching, done>>

RecordHolder(c) ==
    /\ Step(c, "recording", "starting")
    /\ holder' = c
    /\ UNCHANGED <<slot, queue, watching, done>>

WatchWhileHeld(c) ==
    /\ Step(c, "starting", "holding")
    /\ watching' = TRUE
    /\ UNCHANGED <<slot, holder, queue, done>>

Return(c) ==
    /\ Step(c, "refused", "idle")
    /\ done' = done \ {c}
    /\ UNCHANGED <<slot, holder, queue, watching>>

-----------------------------------------------------------------------------
(***************************************************************************)
(* Giving it back                                                          *)
(***************************************************************************)

ReleaseHeavy(c) ==
    /\ Step(c, "holding", "stopping")
    /\ UNCHANGED <<slot, holder, queue, watching, done>>

\* Mutant: the sampler is left running and never marked off.
StopWatchKeepsFlag(c) ==
    /\ Step(c, "stopping", "trimming")
    /\ UNCHANGED <<slot, holder, queue, watching, done>>
\* stopWatch: the sampler has exited before the flag is cleared.
StopWatch(c) ==
    /\ Step(c, "stopping", "trimming")
    /\ watching' = FALSE
    /\ UNCHANGED <<slot, holder, queue, done>>

\* The hooks and FreeOSMemory; a panic in one of them does not get past the defer.
Trim(c) ==
    /\ Step(c, "trimming", "clearing")
    /\ UNCHANGED <<slot, holder, queue, watching, done>>

\* Mutant: the record is left for the next holder to overwrite.
ClearNothing(c) ==
    /\ Step(c, "clearing", "emptying")
    /\ UNCHANGED <<slot, holder, queue, watching, done>>
ClearHolder(c) ==
    /\ Step(c, "clearing", "emptying")
    /\ holder' = None
    /\ UNCHANGED <<slot, queue, watching, done>>

EmptySlot(c) ==
    /\ Step(c, "emptying", "released")
    /\ Empty
    /\ UNCHANGED <<holder, queue, watching, done>>

\* Mutant: the release runs as often as it is called.
ReleaseTwice(c) ==
    /\ Step(c, "released", "idle") \/ Step(c, "released", "stopping")
    /\ done' = done \ {c}
    /\ UNCHANGED <<slot, holder, queue, watching>>
\* The release is a sync.Once: calling it again does nothing.
ReleaseAgain(c) ==
    /\ Step(c, "released", "idle")
    /\ done' = done \ {c}
    /\ UNCHANGED <<slot, holder, queue, watching>>

-----------------------------------------------------------------------------
Acquire(c) ==
    \/ AcquireHeavy(c) \/ JoinQueue(c) \/ WaitForSlot(c) \/ Dequeue(c)
    \/ AdmitMemory(c) \/ ReclaimForHeavy(c) \/ AdmitAfterReclaim(c) \/ RefuseForMemory(c)
    \/ RecordHolder(c) \/ WatchWhileHeld(c)
Release(c) ==
    \/ ReleaseHeavy(c) \/ StopWatch(c) \/ Trim(c) \/ ClearHolder(c) \/ EmptySlot(c)
    \/ ReleaseAgain(c)

Next == \E c \in Callers : Call(c) \/ ContextEnds(c) \/ Acquire(c) \/ Return(c) \/ Release(c)

Spec == Init /\ [][Next]_vars

\* Goroutines run, waits are bounded by timers, and whoever got the slot ends its work
\* and calls the release (every caller defers it).
FairSpec == Spec /\ \A c \in Callers : WF_vars(Acquire(c)) /\ WF_vars(Release(c))

-----------------------------------------------------------------------------
(***************************************************************************)
(* Properties                                                              *)
(***************************************************************************)

\* The channel never holds more than its capacity of one, and a caller is always at a
\* point of AcquireHeavy or of its release.
SlotTypeOK ==
    /\ slot \in {0, 1}
    /\ holder \in Callers \cup {None}
    /\ queue \subseteq Callers
    /\ watching \in BOOLEAN
    /\ done \subseteq Callers
    /\ pc \in [Callers -> InSlot \cup Outside]

\* The channel is full exactly when one caller is between taking and giving back: no
\* refusal, cancelled wait, panicking hook or second release loses a token or takes
\* somebody else's, so heavy work never overlaps and the slot never leaks.
SlotAccounted ==
    /\ \A c, d \in Callers : (pc[c] \in InSlot /\ pc[d] \in InSlot) => c = d
    /\ slot = 1 <=> \E c \in Callers : pc[c] \in InSlot

\* The record names whoever has the work: a release never wipes its successor's record
\* (holder and channel are not changed together), and none is left behind.
HolderIsOwner ==
    /\ \A c \in Callers : holder = c <=> pc[c] \in Recorded
    /\ queue = {c \in Callers : pc[c] \in {"waiting", "won", "lost"}}

\* The sampler is marked running from the start of the work to its release and not
\* after: the stop of one holder never marks the next one's sampler off.
WatchedWhileHeld == watching <=> \E c \in Callers : pc[c] \in {"holding", "stopping"}


Lock == INSTANCE HeavyLock WITH
    status <- [c \in Callers |->
        IF pc[c] \in Recorded THEN "granted"
        ELSE IF pc[c] = "refused" THEN "refused"
        ELSE IF pc[c] \in {"idle", "emptying", "released"} THEN "idle"
        ELSE "asked"]
=============================================================================
