---------------------------- MODULE StoreAccess ----------------------------
(***************************************************************************)
(* How a memory call reaches the governance store                          *)
(* (workspaceops/memory_store.go and memory_store_health.go): processes    *)
(* share a store file per data directory, each keeps its open stores in a  *)
(* counted cache whose idle ones are closed, and the first call on a       *)
(* workspace imports its legacy JSON file and puts the file aside.         *)
(*                                                                         *)
(* A data directory stands for its store and the one workspace in it, a    *)
(* workspace's memories for one entry.  memoryStores' mutex is held for    *)
(* whole operations, so each is one action; a file operation and a store   *)
(* transaction are one action each, and a process may stop between any two *)
(* of them.                                                                *)
(***************************************************************************)
EXTENDS Naturals, FiniteSets, SequencesExt

CONSTANTS
    Processes, Dirs, Requests,
    ProcessOf,   \* request -> the process that serves it
    DirOf,       \* request -> the data directory it is about
    Checks,      \* the requests that are startup checks (CheckMemoryStore)
    Legacy,      \* the directories with a context_entries.json to begin with
    MaxIdle,     \* maxIdleMemoryStores
    Nobody

ASSUME AccessAssumption ==
    /\ ProcessOf \in [Requests -> Processes]
    /\ DirOf \in [Requests -> Dirs]
    /\ Checks \subseteq Requests
    /\ Legacy \subseteq Dirs
    /\ MaxIdle \in Nat
    /\ Nobody \notin Requests
    /\ IsFiniteSet(Requests)

VARIABLES
    opened,   \* process -> the stores it has open (memoryStores.open)
    refs,     \* process -> store -> its callers
    idle,     \* process -> the open stores without callers, least recently used first
    faults,   \* process -> the stores it refuses (memoryStores.faults)
    importer, \* process -> the request that holds legacyImportMu
    pc,       \* request -> where it is
    file,     \* directory -> its legacy file is "there" or was put "aside"
    entry     \* directory -> 0: no entry, 1: as imported, 2: changed since

cache == <<opened, refs, idle>>
vars == <<opened, refs, idle, faults, importer, pc, file, entry>>

Importing == {"locked", "open", "imported"}
Holding == {"stat", "locking", "serving", "releasing"} \cup Importing

Init ==
    /\ opened = [p \in Processes |-> {}]
    /\ refs = [p \in Processes |-> [d \in Dirs |-> 0]]
    /\ idle = [p \in Processes |-> <<>>]
    /\ faults = [p \in Processes |-> {}]
    /\ importer = [p \in Processes |-> Nobody]
    /\ pc = [r \in Requests |-> "away"]
    /\ file = [d \in Dirs |-> IF d \in Legacy THEN "there" ELSE "aside"]
    /\ entry = [d \in Dirs |-> IF d \in Legacy THEN 0 ELSE 1]

Goto(r, from, to) == pc[r] = from /\ pc' = [pc EXCEPT ![r] = to]

-----------------------------------------------------------------------------
(***************************************************************************)
(* The cache of open stores                                                *)
(***************************************************************************)

\* Mutant: one idle store too many.
ExcessLate(s, keep) == IF Len(s) > keep + 1 THEN Len(s) - keep ELSE 0
Excess(s, keep) == IF Len(s) > keep THEN Len(s) - keep ELSE 0
\* closeIdleMemoryStoresLocked: the least recently used idle stores are closed.
CloseIdle(p, s, keep) ==
    LET n == Excess(s, keep)
    IN  /\ idle' = [idle EXCEPT ![p] = SubSeq(s, n + 1, Len(s))]
        /\ opened' = [opened EXCEPT ![p] = @ \ ToSet(SubSeq(s, 1, n))]

\* h.refs++: a store that is used again is idle no more.
Reused(s, d) == IF d \in ToSet(s) THEN RemoveAt(s, CHOOSE i \in DOMAIN s : s[i] = d) ELSE s

\* acquireGovStore: a store that failed its check is refused; a check needs no import.
Acquire(r) ==
    LET p == ProcessOf[r] d == DirOf[r]
    IN  /\ d \notin faults[p]
        /\ Goto(r, "away", IF r \in Checks THEN "serving" ELSE "stat")
        /\ opened' = [opened EXCEPT ![p] = @ \cup {d}]
        /\ refs' = [refs EXCEPT ![p][d] = @ + 1]
        /\ idle' = [idle EXCEPT ![p] = Reused(@, d)]
        /\ UNCHANGED <<faults, importer, file, entry>>

\* The check finds the file corrupt: the call ends and the store is refused from now on,
\* to new calls; those that use it go on.
NoteStoreFault(r) ==
    LET p == ProcessOf[r] d == DirOf[r]
    IN  /\ pc[r] = "away" /\ r \in Checks
        /\ d \notin faults[p]
        /\ faults' = [faults EXCEPT ![p] = @ \cup {d}]
        /\ UNCHANGED <<cache, importer, pc, file, entry>>

\* Mutant: a store counts as idle when one of its callers leaves.
ReleaseWhileUsed(r) ==
    LET p == ProcessOf[r] d == DirOf[r]
    IN  /\ Goto(r, "releasing", "away")
        /\ refs' = [refs EXCEPT ![p][d] = @ - 1]
        /\ CloseIdle(p, Append(idle[p], d), MaxIdle)
        /\ UNCHANGED <<faults, importer, file, entry>>
Release(r) ==
    LET p == ProcessOf[r] d == DirOf[r]
        s == IF refs[p][d] = 1 THEN Append(idle[p], d) ELSE idle[p]
    IN  /\ Goto(r, "releasing", "away")
        /\ refs' = [refs EXCEPT ![p][d] = @ - 1]
        /\ CloseIdle(p, s, MaxIdle)
        /\ UNCHANGED <<faults, importer, file, entry>>

\* At shutdown; a store still in use is left open.
CloseMemoryStores(p) ==
    /\ idle[p] # <<>>
    /\ CloseIdle(p, idle[p], 0)
    /\ UNCHANGED <<refs, faults, importer, pc, file, entry>>

-----------------------------------------------------------------------------
(***************************************************************************)
(* importLegacyContextEntries                                              *)
(***************************************************************************)

\* Mutant: a call does not wait for an import in progress.
StatUnlessBusy(r) ==
    /\ Goto(r, "stat", IF file[DirOf[r]] = "there" /\ importer[ProcessOf[r]] = Nobody
                       THEN "locking" ELSE "serving")
    /\ UNCHANGED <<cache, faults, importer, file, entry>>
\* The file is there, or it is not, or nobody can tell and the call fails.
Stat(r) ==
    /\ \/ Goto(r, "stat", IF file[DirOf[r]] = "there" THEN "locking" ELSE "serving")
       \/ Goto(r, "stat", "releasing")
    /\ UNCHANGED <<cache, faults, importer, file, entry>>

Lock(r) ==
    /\ importer[ProcessOf[r]] = Nobody
    /\ Goto(r, "locking", "locked")
    /\ importer' = [importer EXCEPT ![ProcessOf[r]] = r]
    /\ UNCHANGED <<cache, faults, file, entry>>
Unlock(r) == importer' = [importer EXCEPT ![ProcessOf[r]] = Nobody]

\* The file may have been put aside while the call waited.
OpenFile(r) ==
    /\ \/ /\ file[DirOf[r]] = "there"
          /\ Goto(r, "locked", "open")
          /\ UNCHANGED importer
       \/ /\ file[DirOf[r]] = "aside"
          /\ Goto(r, "locked", "serving")
          /\ Unlock(r)
    /\ UNCHANGED <<cache, faults, file, entry>>

\* Mutant: what the store holds is replaced.
ImportReplaces(r) ==
    /\ Goto(r, "open", "imported")
    /\ entry' = [entry EXCEPT ![DirOf[r]] = 1]
    /\ UNCHANGED <<cache, faults, importer, file>>
\* ImportContextEntriesJSON, one transaction: an entry the store holds is left untouched.
Import(r) ==
    /\ Goto(r, "open", "imported")
    /\ entry' = [entry EXCEPT ![DirOf[r]] = IF @ = 0 THEN 1 ELSE @]
    /\ UNCHANGED <<cache, faults, importer, file>>

\* Mutant: the lock is not given back on an error.
ImportFailsLocked(r) ==
    /\ pc[r] \in Importing
    /\ Goto(r, pc[r], "releasing")
    /\ UNCHANGED <<cache, faults, importer, file, entry>>
\* An unreadable file, a refused heavy slot, a busy store, a failed rename: the call
\* fails and the file stays.
ImportFails(r) ==
    /\ pc[r] \in Importing
    /\ Goto(r, pc[r], "releasing")
    /\ Unlock(r)
    /\ UNCHANGED <<cache, faults, file, entry>>

\* Another process may have put the file aside first.
PutAside(r) ==
    /\ Goto(r, "imported", "serving")
    /\ file' = [file EXCEPT ![DirOf[r]] = "aside"]
    /\ Unlock(r)
    /\ UNCHANGED <<cache, faults, entry>>

-----------------------------------------------------------------------------
\* withMemoryStore's fn: a read, or a transaction that changes what was imported.
Serve(r) ==
    /\ Goto(r, "serving", "releasing")
    /\ \/ UNCHANGED entry
       \/ /\ r \notin Checks
          /\ entry' = [entry EXCEPT ![DirOf[r]] = 2]
    /\ UNCHANGED <<cache, faults, importer, file>>

\* The process stops and is started again: its calls, its cache and its faults are gone.
Crash(p) ==
    /\ \E r \in Requests : ProcessOf[r] = p /\ pc[r] # "away"
    /\ opened' = [opened EXCEPT ![p] = {}]
    /\ refs' = [refs EXCEPT ![p] = [d \in Dirs |-> 0]]
    /\ idle' = [idle EXCEPT ![p] = <<>>]
    /\ faults' = [faults EXCEPT ![p] = {}]
    /\ importer' = [importer EXCEPT ![p] = Nobody]
    /\ pc' = [r \in Requests |-> IF ProcessOf[r] = p THEN "away" ELSE pc[r]]
    /\ UNCHANGED <<file, entry>>

Proceed(r) ==
    \/ Stat(r) \/ OpenFile(r) \/ Import(r) \/ ImportFails(r) \/ PutAside(r)
    \/ Serve(r) \/ Release(r)

Next ==
    \/ \E r \in Requests : Acquire(r) \/ NoteStoreFault(r) \/ Lock(r) \/ Proceed(r)
    \/ \E p \in Processes : CloseMemoryStores(p) \/ Crash(p)

Spec == Init /\ [][Next]_vars

\* A request that runs goes on; sync.Mutex hands itself to whoever waits long enough.
FairSpec ==
    /\ Spec
    /\ \A r \in Requests : WF_vars(Proceed(r)) /\ SF_vars(Lock(r))

-----------------------------------------------------------------------------
(***************************************************************************)
(* Properties                                                              *)
(***************************************************************************)

\* "A store in use is never closed" (closeIdleMemoryStoresLocked), whichever calls come
\* and go on other stores, however often the sweep runs and also while the store is
\* refused to new calls: a call that was handed a store finds it open.
StoreInUseOpen ==
    \A r \in Requests : pc[r] \in Holding => DirOf[r] \in opened[ProcessOf[r]]

\* No order of calls, checks, errors and releases leaks a store: of the stores a process
\* has open, at most MaxIdle are in nobody's hands.
IdleBounded ==
    \A p \in Processes :
        Cardinality({d \in opened[p] :
            ~\E r \in Requests : ProcessOf[r] = p /\ DirOf[r] = d /\ pc[r] \in Holding}) <= MaxIdle

\* "the store never serves a half-imported workspace": a call is served only when the
\* legacy memories are in the store, and the file is put aside only after they are,
\* although calls and processes race for the file and stop between any two steps.
ServedImported ==
    /\ \A r \in Requests \ Checks : pc[r] = "serving" => entry[DirOf[r]] # 0
    /\ \A d \in Dirs : file[d] = "aside" => entry[d] # 0

\* An import that comes late, in a process that opened the file before another one
\* imported it and put it aside, takes back nothing that was changed since (importEntry).
EntryStep == \A d \in Dirs : entry'[d] >= entry[d]
NeverReverted == [][EntryStep]_vars

\* Every call ends and hands its store back: no error path keeps legacyImportMu.
RequestsEnd == \A r \in Requests : pc[r] # "away" ~> pc[r] = "away"
=============================================================================
