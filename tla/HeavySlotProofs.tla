-------------------------- MODULE HeavySlotProofs --------------------------
(***************************************************************************)
(* The heavy slot never overlaps, never leaks, and implements the lock it  *)
(* promises, for any number of callers.                                    *)
(***************************************************************************)
EXTENDS HeavySlot, TLAPS

\* The inductive invariant: the accounting of the token, of the record and of the
\* sampler only hold together, since each is changed at a step of its own.
SlotInv == SlotTypeOK /\ SlotAccounted /\ HolderIsOwner /\ WatchedWhileHeld

USE DEF InSlot, Entering, Working, Leaving, Recorded, Outside

\* The invariant holds before anyone asks.
LEMMA InitSlotInv == Init => SlotInv
<1> SUFFICES ASSUME Init PROVE SlotInv
  OBVIOUS
<1>0. watching \in BOOLEAN
  BY Zenon DEF Init
<1>1. SlotTypeOK /\ SlotAccounted
  BY <1>0, SlotAssumption DEF Init, SlotTypeOK, SlotAccounted
<1>2. HolderIsOwner
  BY SlotAssumption DEF Init, HolderIsOwner
<1>3. WatchedWhileHeld
  <2>1. \A c \in Callers : pc[c] = "idle"
    BY DEF Init
  <2>2. ~\E c \in Callers : pc[c] \in {"holding", "stopping"}
    BY <2>1
  <2>3. ~watching
    BY Zenon DEF Init
  <2> QED
    BY <2>2, <2>3, Zenon DEF WatchedWhileHeld
<1> QED
  BY <1>1, <1>2, <1>3 DEF SlotInv

\* Every step of AcquireHeavy, of the release and of the callers keeps it.
LEMMA NextSlotInv == SlotInv /\ [Next]_vars => SlotInv'
<1> SUFFICES ASSUME SlotInv, [Next]_vars PROVE SlotInv'
  OBVIOUS
<1> USE SlotAssumption DEF SlotInv, SlotTypeOK, SlotAccounted, HolderIsOwner, WatchedWhileHeld, Step
<1>1. CASE UNCHANGED vars
  BY <1>1 DEF vars
<1>2. ASSUME NEW c \in Callers, Call(c) \/ ContextEnds(c) \/ Return(c) PROVE SlotInv'
  BY <1>2 DEF Call, ContextEnds, Return
<1>3. ASSUME NEW c \in Callers, AcquireHeavy(c) PROVE SlotInv'
  BY <1>3 DEF AcquireHeavy, Fill
<1>4. ASSUME NEW c \in Callers, JoinQueue(c) \/ Dequeue(c) PROVE SlotInv'
  BY <1>4 DEF JoinQueue, Dequeue
<1>5. ASSUME NEW c \in Callers, WaitForSlot(c) PROVE SlotInv'
  BY <1>5 DEF WaitForSlot, Fill
<1>6. ASSUME NEW c \in Callers, AdmitMemory(c) \/ ReclaimForHeavy(c) \/ AdmitAfterReclaim(c)
      PROVE SlotInv'
  BY <1>6 DEF AdmitMemory, ReclaimForHeavy, AdmitAfterReclaim
<1>7. ASSUME NEW c \in Callers, RefuseForMemory(c) \/ EmptySlot(c) PROVE SlotInv'
  BY <1>7 DEF RefuseForMemory, EmptySlot, Empty
<1>8. ASSUME NEW c \in Callers, RecordHolder(c) PROVE SlotInv'
  BY <1>8 DEF RecordHolder
<1>9. ASSUME NEW c \in Callers, WatchWhileHeld(c) PROVE SlotInv'
  <2>1. (SlotTypeOK /\ SlotAccounted /\ HolderIsOwner)'
    BY <1>9 DEF WatchWhileHeld
  <2>2. watching'
    BY <1>9, Zenon DEF WatchWhileHeld
  <2>3. \E d \in Callers : pc'[d] \in {"holding", "stopping"}
    BY <1>9 DEF WatchWhileHeld
  <2> QED
    BY <2>1, <2>2, <2>3, Zenon
<1>11. ASSUME NEW c \in Callers, StopWatch(c) PROVE SlotInv'
  <2>0. watching' \in BOOLEAN
    BY <1>11, Zenon DEF StopWatch
  <2>1. (SlotTypeOK /\ SlotAccounted /\ HolderIsOwner)'
    BY <1>11, <2>0 DEF StopWatch
  <2>2. ~watching'
    BY <1>11, Zenon DEF StopWatch
  <2>3. ~\E d \in Callers : pc'[d] \in {"holding", "stopping"}
    BY <1>11 DEF StopWatch
  <2> QED
    BY <2>1, <2>2, <2>3, Zenon
<1>12. ASSUME NEW c \in Callers, ReleaseHeavy(c) \/ Trim(c) \/ ClearHolder(c) PROVE SlotInv'
  BY <1>12 DEF ReleaseHeavy, Trim, ClearHolder
<1>10. ASSUME NEW c \in Callers, ReleaseAgain(c) PROVE SlotInv'
  BY <1>10 DEF ReleaseAgain
<1> QED
  BY <1>1, <1>2, <1>3, <1>4, <1>5, <1>6, <1>7, <1>8, <1>9, <1>10, <1>11, <1>12
  DEF Next, Acquire, Release

\* At every moment at most one caller is between taking the slot and giving it back,
\* the record names it and the sampler runs for it.
THEOREM SlotInvariant == Spec => []SlotInv
  BY InitSlotInv, NextSlotInv, PTL DEF Spec

\* The governor's fields keep their types.
THEOREM SlotTypes == Spec => []SlotTypeOK
  BY SlotInvariant, PTL DEF SlotInv

\* Heavy work never overlaps and a token is never lost or taken twice, however many
\* callers are refused, cancelled or release twice.
THEOREM SlotExclusion == Spec => []SlotAccounted
  BY SlotInvariant, PTL DEF SlotInv

\* A release never wipes the record of its successor, and leaves none behind.
THEOREM HolderTheorem == Spec => []HolderIsOwner
  BY SlotInvariant, PTL DEF SlotInv

\* The stop of one holder's sampler never marks the next one's off.
THEOREM WatchTheorem == Spec => []WatchedWhileHeld
  BY SlotInvariant, PTL DEF SlotInv

-----------------------------------------------------------------------------
\* The abstract status of every caller at a concrete state.
Seen == [c \in Callers |->
        IF pc[c] \in Recorded THEN "granted"
        ELSE IF pc[c] = "refused" THEN "refused"
        ELSE IF pc[c] \in {"idle", "emptying", "released"} THEN "idle"
        ELSE "asked"]

\* Every step of the governor is a step of the lock or changes nothing of it.
LEMMA StepSimulation == SlotInv /\ [Next]_vars => [Lock!Next]_Seen
<1> SUFFICES ASSUME SlotInv, [Next]_vars PROVE [Lock!Next]_Seen
  OBVIOUS
<1> USE DEF SlotInv, SlotTypeOK, SlotAccounted, Step, Seen
<1>1. CASE UNCHANGED vars
  BY <1>1 DEF vars
<1>2. ASSUME NEW c \in Callers, Call(c) PROVE Lock!Ask(c)
  BY <1>2 DEF Call, Lock!Ask
<1>3. ASSUME NEW c \in Callers, AcquireHeavy(c) PROVE UNCHANGED Seen \/ Lock!Refuse(c)
  BY <1>3 DEF AcquireHeavy, Lock!Refuse
<1>4. ASSUME NEW c \in Callers, JoinQueue(c) \/ WaitForSlot(c) PROVE UNCHANGED Seen
  BY <1>4 DEF JoinQueue, WaitForSlot
<1>5. ASSUME NEW c \in Callers, Dequeue(c) \/ RefuseForMemory(c)
      PROVE UNCHANGED Seen \/ Lock!Refuse(c)
  BY <1>5 DEF Dequeue, RefuseForMemory, Lock!Refuse
<1>6. ASSUME NEW c \in Callers, AdmitMemory(c) \/ ReclaimForHeavy(c) \/ AdmitAfterReclaim(c)
      PROVE UNCHANGED Seen
  BY <1>6 DEF AdmitMemory, ReclaimForHeavy, AdmitAfterReclaim
<1>7. ASSUME NEW c \in Callers, RecordHolder(c) PROVE Lock!Grant(c)
  BY <1>7 DEF RecordHolder, Lock!Grant
<1>8. ASSUME NEW c \in Callers, WatchWhileHeld(c) \/ ReleaseHeavy(c) \/ StopWatch(c) \/ Trim(c)
      PROVE UNCHANGED Seen
  BY <1>8 DEF WatchWhileHeld, ReleaseHeavy, StopWatch, Trim
<1>9. ASSUME NEW c \in Callers, ClearHolder(c) \/ Return(c) PROVE Lock!Leave(c)
  BY <1>9 DEF ClearHolder, Return, Lock!Leave
<1>10. ASSUME NEW c \in Callers, EmptySlot(c) \/ ReleaseAgain(c) \/ ContextEnds(c)
       PROVE UNCHANGED Seen
  BY <1>10 DEF EmptySlot, ReleaseAgain, ContextEnds
<1> QED
  BY <1>1, <1>2, <1>3, <1>4, <1>5, <1>6, <1>7, <1>8, <1>9, <1>10
  DEF Next, Acquire, Release, Lock!Next

\* The slot implements the safety of the lock: a grant is given only when no other
\* stands, for any callers, refusals and cancellations.
THEOREM LockRefinement == Spec => Lock!Safety
<1>1. Init => Lock!Init
  BY DEF Init, Lock!Init
<1> QED
  BY <1>1, SlotInvariant, StepSimulation, PTL DEF Spec, Lock!Safety, Seen
=============================================================================
