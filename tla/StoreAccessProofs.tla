------------------------- MODULE StoreAccessProofs -------------------------
(***************************************************************************)
(* The cache of open stores and the legacy import are safe for any number  *)
(* of processes, stores and calls, whenever a process stops.               *)
(***************************************************************************)
EXTENDS StoreAccess, FiniteSetTheorems, TLAPS

Holders(p, d) == {r \in Requests : ProcessOf[r] = p /\ DirOf[r] = d /\ pc[r] \in Holding}
Distinct(s) == \A i, j \in 1..Len(s) : s[i] = s[j] => i = j

\* The stores, the calls and the files have their types.
AccessTypes ==
    /\ opened \in [Processes -> SUBSET Dirs]
    /\ refs \in [Processes -> [Dirs -> Nat]]
    /\ idle \in [Processes -> Seq(Dirs)]
    /\ pc \in [Requests -> Holding \cup {"away"}]
    /\ file \in [Dirs -> {"there", "aside"}]
    /\ entry \in [Dirs -> 0..2]

\* A store's references are its callers; it is open while it has one.
Counted ==
    \A p \in Processes, d \in Dirs :
        /\ refs[p][d] = Cardinality(Holders(p, d))
        /\ refs[p][d] > 0 => d \in opened[p]

\* The idle stores are the open ones without callers, each listed once.
IdleSound(p) ==
    /\ Distinct(idle[p])
    /\ ToSet(idle[p]) = {d \in opened[p] : refs[p][d] = 0}
    /\ Len(idle[p]) <= MaxIdle
CacheSound == Counted /\ \A p \in Processes : IdleSound(p)

\* What was imported is there before the file is put aside and before a call is served.
ImportSound ==
    /\ \A d \in Dirs : file[d] = "aside" => entry[d] # 0
    /\ \A r \in Requests : pc[r] = "imported" => entry[DirOf[r]] # 0
    /\ \A r \in Requests \ Checks : pc[r] = "serving" => entry[DirOf[r]] # 0

\* The inductive invariant.
AInv == AccessTypes /\ CacheSound /\ ImportSound

USE AccessAssumption

-----------------------------------------------------------------------------
\* A store that is used again leaves the idle list; the others stay, in order.
LEMMA ReusedList ==
  ASSUME NEW s \in Seq(Dirs), Distinct(s), NEW d \in Dirs
  PROVE  LET t == Reused(s, d)
         IN  t \in Seq(Dirs) /\ Distinct(t) /\ ToSet(t) = ToSet(s) \ {d} /\ Len(t) <= Len(s)
<1>1. CASE d \notin ToSet(s)
  BY <1>1 DEF Reused
<1>2. CASE d \in ToSet(s)
  <2> DEFINE i == CHOOSE j \in DOMAIN s : s[j] = d
             t == RemoveAt(s, i)
             u == SubSeq(s, 1, i - 1)
             v == SubSeq(s, i + 1, Len(s))
  <2>1. i \in 1..Len(s) /\ s[i] = d
    BY <1>2 DEF ToSet
  <2> HIDE DEF i
  <2>a. u \in Seq(Dirs) /\ Len(u) = i - 1 /\ \A k \in 1..i - 1 : u[k] = s[k]
    BY <2>1
  <2>b. v \in Seq(Dirs) /\ Len(v) = Len(s) - i /\ \A k \in 1..Len(s) - i : v[k] = s[k + i]
    BY <2>1
  <2>c. t = u \o v
    BY DEF RemoveAt
  <2> HIDE DEF u, v, t
  <2>2. t \in Seq(Dirs) /\ Len(t) = Len(s) - 1 /\ DOMAIN t = 1..Len(s) - 1
    BY <2>1, <2>a, <2>b, <2>c
  <2>3. ASSUME NEW k \in 1..Len(s) - 1 PROVE t[k] = IF k < i THEN s[k] ELSE s[k + 1]
    <3>1. CASE k < i
      BY <3>1, <2>1, <2>a, <2>b, <2>c
    <3>2. CASE k >= i
      <4>1. k - Len(u) \in 1..Len(s) - i /\ k = (k - Len(u)) + Len(u)
        BY <3>2, <2>1, <2>a
      <4>2. t[k] = v[k - Len(u)]
        BY <3>2, <4>1, <2>1, <2>a, <2>b, <2>c
      <4> QED BY <3>2, <4>1, <4>2, <2>1, <2>a, <2>b
    <3> QED BY <3>1, <3>2, <2>1
  <2>4. Distinct(t)
    BY <2>1, <2>2, <2>3 DEF Distinct
  <2>5. ToSet(t) \subseteq ToSet(s) \ {d}
    BY <2>1, <2>2, <2>3 DEF Distinct, ToSet
  <2>6. ASSUME NEW e \in ToSet(s) \ {d} PROVE e \in ToSet(t)
    <3>1. PICK k \in 1..Len(s) : s[k] = e /\ k # i
      BY <2>1 DEF ToSet
    <3>2. CASE k < i
      <4>1. k \in 1..Len(s) - 1 /\ t[k] = e
        BY <3>1, <3>2, <2>1, <2>3
      <4> QED BY <4>1, <2>2 DEF ToSet
    <3>3. CASE k > i
      <4>1. k - 1 \in 1..Len(s) - 1 /\ t[k - 1] = e
        BY <3>1, <3>3, <2>1, <2>3
      <4> QED BY <4>1, <2>2 DEF ToSet
    <3> QED BY <3>1, <3>2, <3>3, <2>1
  <2>7. Reused(s, d) = t
    BY <1>2 DEF Reused, t, i
  <2> QED BY <2>2, <2>4, <2>5, <2>6, <2>7
<1> QED BY <1>1, <1>2

\* Closing the oldest idle stores leaves the others, at most as many as are kept.
LEMMA ClosedList ==
  ASSUME NEW s \in Seq(Dirs), Distinct(s), NEW keep \in Nat
  PROVE  LET n == Excess(s, keep)
             t == SubSeq(s, n + 1, Len(s))
         IN  /\ t \in Seq(Dirs) /\ Distinct(t) /\ Len(t) <= keep
             /\ ToSet(t) = ToSet(s) \ ToSet(SubSeq(s, 1, n))
<1> DEFINE n == Excess(s, keep)
           t == SubSeq(s, n + 1, Len(s))
           u == SubSeq(s, 1, n)
<1>1. n \in Nat /\ n <= Len(s) /\ Len(s) - n <= keep
  BY DEF Excess
<1> HIDE DEF n
<1>2. t \in Seq(Dirs) /\ Len(t) = Len(s) - n /\ DOMAIN t = 1..Len(s) - n /\ DOMAIN u = 1..n
  BY <1>1
<1>3. /\ \A k \in 1..Len(s) - n : t[k] = s[k + n]
      /\ \A k \in 1..n : u[k] = s[k]
  BY <1>1
<1> HIDE DEF t, u
<1>a. \A k \in 1..Len(s) - n : k + n \in 1..Len(s) /\ k + n > n
  BY <1>1
<1>4. Distinct(t)
  <2> SUFFICES ASSUME NEW k \in 1..Len(t), NEW j \in 1..Len(t), t[k] = t[j] PROVE k = j
    BY DEF Distinct
  <2>1. s[k + n] = s[j + n]
    BY <1>2, <1>3
  <2>2. k + n = j + n
    BY <2>1, <1>2, <1>a DEF Distinct
  <2> QED BY <2>2, <1>1
<1>5. ASSUME NEW e \in ToSet(t) PROVE e \in ToSet(s) \ ToSet(u)
  <2>1. PICK k \in 1..Len(s) - n : e = s[k + n]
    BY <1>2, <1>3 DEF ToSet
  <2>2. e \in ToSet(s)
    BY <2>1, <1>a DEF ToSet
  <2>3. ASSUME NEW j \in 1..n, u[j] = e PROVE FALSE
    <3>1. j \in 1..Len(s) /\ s[j] = s[k + n]
      BY <2>1, <2>3, <1>1, <1>3
    <3>2. j = k + n
      BY <3>1, <1>a DEF Distinct
    <3> QED BY <3>2, <1>1
  <2> QED BY <2>2, <2>3, <1>2 DEF ToSet
<1>6. ASSUME NEW e \in ToSet(s) \ ToSet(u) PROVE e \in ToSet(t)
  <2>1. PICK k \in 1..Len(s) : s[k] = e
    BY DEF ToSet
  <2>2. k > n
    BY <2>1, <1>1, <1>2, <1>3 DEF ToSet
  <2>3. k - n \in 1..Len(s) - n /\ t[k - n] = e
    BY <2>1, <2>2, <1>1, <1>3
  <2> QED BY <2>3, <1>2 DEF ToSet
<1> QED BY <1>1, <1>2, <1>4, <1>5, <1>6 DEF n, t, u

\* A list has no more members than entries.
LEMMA ListBound ==
  ASSUME NEW s \in Seq(Dirs)
  PROVE  IsFiniteSet(ToSet(s)) /\ Cardinality(ToSet(s)) <= Len(s)
<1>1. s \in Surjection(1..Len(s), ToSet(s))
  BY DEF Surjection, ToSet
<1>2. IsFiniteSet(1..Len(s)) /\ Len(s) \in Nat
  BY FS_Interval
<1>3. IsFiniteSet(ToSet(s))
  BY <1>1, <1>2, FS_Surjection
<1> QED BY <1>1, <1>2, <1>3, FS_SurjCardinalityBound DEF ExistsSurjection

-----------------------------------------------------------------------------
\* What the steps below look up in the invariant.
LEMMA AFacts ==
  ASSUME AInv
  PROVE  /\ AccessTypes /\ CacheSound /\ ImportSound
         /\ \A p \in Processes, d \in Dirs :
               /\ IsFiniteSet(Holders(p, d))
               /\ refs[p][d] \in Nat
               /\ refs[p][d] = 0 <=> Holders(p, d) = {}
<1>1. AccessTypes /\ CacheSound /\ ImportSound
  BY DEF AInv
<1>2. ASSUME NEW p \in Processes, NEW d \in Dirs
      PROVE  /\ IsFiniteSet(Holders(p, d)) /\ refs[p][d] \in Nat
             /\ refs[p][d] = 0 <=> Holders(p, d) = {}
  <2>1. IsFiniteSet(Holders(p, d))
    BY FS_Subset DEF Holders
  <2> QED BY <1>1, <2>1, FS_EmptySet DEF AccessTypes, CacheSound, Counted
<1> QED BY <1>1, <1>2

\* A step that neither opens nor closes a store and lets no call come or go.
LEMMA CacheUntouched ==
  ASSUME AInv, AccessTypes', UNCHANGED cache,
         \A r \in Requests : pc'[r] \in Holding <=> pc[r] \in Holding
  PROVE  CacheSound'
<1>1. \A p \in Processes, d \in Dirs : Holders(p, d)' = Holders(p, d)
  BY DEF Holders
<1> QED BY <1>1, AFacts DEF cache, CacheSound, Counted, IdleSound, Distinct, ToSet

\* A call that gets a store is counted on it, and the store is idle no more.
LEMMA AcquireKeeps ==
  ASSUME AInv, NEW r \in Requests, Acquire(r)
  PROVE  AInv'
<1> DEFINE p == ProcessOf[r]
           d == DirOf[r]
<1>0. p \in Processes /\ d \in Dirs /\ AccessTypes /\ idle[p] \in Seq(Dirs) /\ Distinct(idle[p])
  BY AFacts DEF AccessTypes, CacheSound, IdleSound
<1>1. /\ pc[r] = "away" /\ pc' = [pc EXCEPT ![r] = IF r \in Checks THEN "serving" ELSE "stat"]
      /\ opened' = [opened EXCEPT ![p] = opened[p] \cup {d}]
      /\ refs' = [refs EXCEPT ![p] = [refs[p] EXCEPT ![d] = refs[p][d] + 1]]
      /\ idle' = [idle EXCEPT ![p] = Reused(idle[p], d)]
      /\ file' = file /\ entry' = entry
  BY <1>0 DEF Acquire, Goto, AccessTypes
<1>2. LET t == Reused(idle[p], d)
      IN  t \in Seq(Dirs) /\ Distinct(t) /\ ToSet(t) = ToSet(idle[p]) \ {d} /\ Len(t) <= Len(idle[p])
  BY <1>0, ReusedList
<1>3. AccessTypes'
  BY <1>0, <1>1, <1>2 DEF AccessTypes, Holding, Importing
<1>4. \A q \in Processes, e \in Dirs :
         Holders(q, e)' = IF q = p /\ e = d THEN Holders(q, e) \cup {r} ELSE Holders(q, e)
  BY <1>0, <1>1 DEF Holders, Holding, Importing, AccessTypes
<1>5. r \notin Holders(p, d)
  BY <1>1 DEF Holders, Holding, Importing
<1>6. \A q \in Processes, e \in Dirs :
         refs'[q][e] = IF q = p /\ e = d THEN refs[q][e] + 1 ELSE refs[q][e]
  BY <1>0, <1>1 DEF AccessTypes
<1>7. Counted'
  <2>1. Cardinality(Holders(p, d) \cup {r}) = Cardinality(Holders(p, d)) + 1
    BY <1>0, <1>5, AFacts, FS_AddElement
  <2>2. ASSUME NEW q \in Processes, NEW e \in Dirs PROVE refs'[q][e] = Cardinality(Holders(q, e)')
    <3>1. refs[q][e] = Cardinality(Holders(q, e))
      BY AFacts DEF CacheSound, Counted
    <3>2. CASE q = p /\ e = d
      BY <1>4, <1>6, <2>1, <3>1, <3>2
    <3>3. CASE ~(q = p /\ e = d)
      BY <1>4, <1>6, <3>1, <3>3
    <3> QED BY <3>2, <3>3
  <2>3. \A q \in Processes, e \in Dirs : refs'[q][e] > 0 => e \in opened'[q]
    BY <1>0, <1>1, <1>6, AFacts DEF CacheSound, Counted, AccessTypes
  <2> QED BY <2>2, <2>3 DEF Counted
<1>8. ASSUME NEW q \in Processes PROVE IdleSound(q)'
  <2>1. CASE q = p
    <3>1. idle'[q] = Reused(idle[p], d) /\ opened'[q] = opened[p] \cup {d}
      BY <1>0, <1>1, <2>1 DEF AccessTypes
    <3>2. {e \in opened'[q] : refs'[q][e] = 0} = {e \in opened[p] : refs[p][e] = 0} \ {d}
      BY <1>0, <1>6, <2>1, <3>1, AFacts DEF AccessTypes
    <3>3. Len(idle'[q]) <= MaxIdle
      BY <1>0, <1>2, <3>1, AFacts DEF CacheSound, IdleSound
    <3> QED BY <1>0, <1>2, <3>1, <3>2, <3>3, AFacts DEF CacheSound, IdleSound
  <2>2. CASE q # p
    <3>1. idle'[q] = idle[q] /\ opened'[q] = opened[q] /\ \A e \in Dirs : refs'[q][e] = refs[q][e]
      BY <1>0, <1>1, <1>6, <2>2 DEF AccessTypes
    <3> QED BY <3>1, AFacts DEF CacheSound, IdleSound, AccessTypes
  <2> QED BY <2>1, <2>2
<1>9. ImportSound'
  BY <1>1, AFacts DEF ImportSound, AccessTypes
<1> QED BY <1>3, <1>7, <1>8, <1>9 DEF AInv, CacheSound

\* What closing idle stores leaves is sound, if the list it starts from is.
LEMMA CloseIdleSound ==
  ASSUME NEW p \in Processes, NEW s \in Seq(Dirs), NEW keep \in Nat, keep <= MaxIdle,
         AccessTypes, Distinct(s), CloseIdle(p, s, keep),
         refs' \in [Processes -> [Dirs -> Nat]],
         ToSet(s) = {d \in opened[p] : refs'[p][d] = 0}
  PROVE  /\ idle' \in [Processes -> Seq(Dirs)] /\ opened' \in [Processes -> SUBSET Dirs]
         /\ \A q \in Processes \ {p} : idle'[q] = idle[q] /\ opened'[q] = opened[q]
         /\ \A d \in opened[p] : refs'[p][d] > 0 => d \in opened'[p]
         /\ IdleSound(p)'
<1> DEFINE n == Excess(s, keep)
           t == SubSeq(s, n + 1, Len(s))
           u == SubSeq(s, 1, n)
<1>1. /\ t \in Seq(Dirs) /\ Distinct(t) /\ Len(t) <= keep
      /\ ToSet(t) = ToSet(s) \ ToSet(u)
  BY ClosedList
<1>2. idle' = [idle EXCEPT ![p] = t] /\ opened' = [opened EXCEPT ![p] = opened[p] \ ToSet(u)]
  BY DEF CloseIdle
<1>a. n \in Nat /\ n <= Len(s)
  BY DEF Excess
<1>b. ToSet(u) \subseteq ToSet(s)
  BY <1>a DEF ToSet
<1> HIDE DEF n, t, u
<1>3. idle'[p] = t /\ opened'[p] = opened[p] \ ToSet(u)
  BY <1>2 DEF AccessTypes
<1>4. IdleSound(p)'
  <2>1. ToSet(t) = {d \in opened'[p] : refs'[p][d] = 0}
    BY <1>1, <1>3
  <2>2. Len(t) <= MaxIdle
    BY <1>1
  <2> QED BY <1>1, <1>3, <2>1, <2>2 DEF IdleSound
<1>5. \A d \in opened[p] : refs'[p][d] > 0 => d \in opened'[p]
  BY <1>3, <1>b
<1> QED BY <1>1, <1>2, <1>4, <1>5 DEF AccessTypes

\* A call that hands its store back is counted off; the store is idle after the last.
LEMMA ReleaseKeeps ==
  ASSUME AInv, NEW r \in Requests, Release(r)
  PROVE  AInv'
<1> DEFINE p == ProcessOf[r]
           d == DirOf[r]
           s == IF refs[p][d] = 1 THEN Append(idle[p], d) ELSE idle[p]
<1>0. /\ p \in Processes /\ d \in Dirs /\ AccessTypes /\ idle[p] \in Seq(Dirs) /\ Distinct(idle[p])
      /\ refs[p][d] \in Nat /\ MaxIdle \in Nat
      /\ ToSet(idle[p]) = {e \in opened[p] : refs[p][e] = 0}
  BY AFacts DEF AccessTypes, CacheSound, IdleSound
<1>1. /\ pc[r] = "releasing" /\ pc' = [pc EXCEPT ![r] = "away"]
      /\ refs' = [refs EXCEPT ![p] = [refs[p] EXCEPT ![d] = refs[p][d] - 1]]
      /\ CloseIdle(p, s, MaxIdle)
      /\ file' = file /\ entry' = entry
  BY <1>0 DEF Release, Goto, AccessTypes
<1>2. r \in Holders(p, d)
  BY <1>1 DEF Holders, Holding
<1>3. refs[p][d] > 0 /\ d \in opened[p]
  BY <1>0, <1>2, AFacts DEF CacheSound, Counted
<1>4. refs[p][d] - 1 \in Nat
  BY <1>0, <1>3
<1>5. refs' \in [Processes -> [Dirs -> Nat]]
  BY <1>0, <1>1, <1>4 DEF AccessTypes
<1>6. \A q \in Processes, e \in Dirs :
         refs'[q][e] = IF q = p /\ e = d THEN refs[q][e] - 1 ELSE refs[q][e]
  BY <1>0, <1>1 DEF AccessTypes
<1>7. s \in Seq(Dirs) /\ Distinct(s) /\ ToSet(s) = {e \in opened[p] : refs'[p][e] = 0}
  <2>1. CASE refs[p][d] = 1
    <3>1. /\ s \in Seq(Dirs) /\ Len(s) = Len(idle[p]) + 1 /\ s[Len(s)] = d
          /\ \A i \in 1..Len(idle[p]) : s[i] = idle[p][i]
          /\ DOMAIN s = 1..Len(s) /\ DOMAIN idle[p] = 1..Len(idle[p])
      BY <1>0, <2>1
    <3>2. ToSet(s) = ToSet(idle[p]) \cup {d}
      <4> HIDE DEF s
      <4>1. d \in ToSet(s)
        BY <3>1 DEF ToSet
      <4>2. ToSet(idle[p]) \subseteq ToSet(s)
        BY <3>1 DEF ToSet
      <4>3. ToSet(s) \subseteq ToSet(idle[p]) \cup {d}
        BY <3>1 DEF ToSet
      <4> QED BY <4>1, <4>2, <4>3
    <3>3. d \notin ToSet(idle[p])
      BY <1>0, <1>3
    <3>4. Distinct(s)
      <4> HIDE DEF s
      <4>1. \A i \in 1..Len(idle[p]) : idle[p][i] # d
        BY <3>1, <3>3 DEF ToSet
      <4> QED BY <1>0, <3>1, <4>1 DEF Distinct
    <3>5. {e \in opened[p] : refs'[p][e] = 0} = {e \in opened[p] : refs[p][e] = 0} \cup {d}
      BY <1>0, <1>3, <1>6, <2>1 DEF AccessTypes
    <3> QED BY <1>0, <3>1, <3>2, <3>4, <3>5
  <2>2. CASE refs[p][d] # 1
    <3>1. {e \in opened[p] : refs'[p][e] = 0} = {e \in opened[p] : refs[p][e] = 0}
      <4>1. opened[p] \subseteq Dirs
        BY <1>0 DEF AccessTypes
      <4>2. refs[p][d] - 1 # 0 /\ refs[p][d] # 0
        BY <1>0, <1>3, <2>2
      <4>3. \A e \in Dirs : refs'[p][e] = 0 <=> refs[p][e] = 0
        BY <1>0, <1>6, <4>2
      <4> QED BY <4>1, <4>3
    <3> QED BY <1>0, <2>2, <3>1
  <2> QED BY <2>1, <2>2
<1> HIDE DEF s
<1>8. /\ idle' \in [Processes -> Seq(Dirs)] /\ opened' \in [Processes -> SUBSET Dirs]
      /\ \A q \in Processes \ {p} : idle'[q] = idle[q] /\ opened'[q] = opened[q]
      /\ \A e \in opened[p] : refs'[p][e] > 0 => e \in opened'[p]
      /\ IdleSound(p)'
  <2>1. MaxIdle <= MaxIdle
    BY <1>0
  <2> QED BY <1>0, <1>1, <1>5, <1>7, <2>1, CloseIdleSound
<1>9. AccessTypes'
  BY <1>0, <1>1, <1>5, <1>8 DEF AccessTypes
<1>10. Counted'
  <2>1. \A q \in Processes, e \in Dirs :
           Holders(q, e)' = IF q = p /\ e = d THEN Holders(q, e) \ {r} ELSE Holders(q, e)
    BY <1>0, <1>1 DEF Holders, Holding, Importing, AccessTypes
  <2>2. Cardinality(Holders(p, d) \ {r}) = Cardinality(Holders(p, d)) - 1
    BY <1>0, <1>2, AFacts, FS_RemoveElement
  <2>3. ASSUME NEW q \in Processes, NEW e \in Dirs
        PROVE  refs'[q][e] = Cardinality(Holders(q, e)') /\ (refs'[q][e] > 0 => e \in opened'[q])
    <3>1. refs[q][e] = Cardinality(Holders(q, e)) /\ (refs[q][e] > 0 => e \in opened[q])
      BY AFacts DEF CacheSound, Counted
    <3>2. CASE q = p /\ e = d
      BY <1>3, <1>6, <1>8, <2>1, <2>2, <3>1, <3>2
    <3>3. CASE ~(q = p /\ e = d)
      BY <1>6, <1>8, <2>1, <3>1, <3>3
    <3> QED BY <3>2, <3>3
  <2> QED BY <2>3 DEF Counted
<1>11. ASSUME NEW q \in Processes PROVE IdleSound(q)'
  <2>1. CASE q # p
    <3>1. idle'[q] = idle[q] /\ opened'[q] = opened[q] /\ \A e \in Dirs : refs'[q][e] = refs[q][e]
      BY <1>0, <1>6, <1>8, <2>1
    <3> QED BY <3>1, AFacts DEF CacheSound, IdleSound, AccessTypes
  <2> QED BY <1>8, <2>1
<1>12. ImportSound'
  BY <1>1, AFacts DEF ImportSound, AccessTypes
<1> QED BY <1>9, <1>10, <1>11, <1>12 DEF AInv, CacheSound

\* At shutdown only stores without callers are closed.
LEMMA CloseMemoryStoresKeeps ==
  ASSUME AInv, NEW p \in Processes, CloseMemoryStores(p)
  PROVE  AInv'
<1>1. /\ CloseIdle(p, idle[p], 0) /\ refs' = refs /\ pc' = pc /\ file' = file /\ entry' = entry
      /\ AccessTypes /\ idle[p] \in Seq(Dirs) /\ Distinct(idle[p])
      /\ ToSet(idle[p]) = {d \in opened[p] : refs'[p][d] = 0}
      /\ refs' \in [Processes -> [Dirs -> Nat]]
  BY AFacts DEF CloseMemoryStores, AccessTypes, CacheSound, IdleSound
<1>2. 0 \in Nat /\ 0 <= MaxIdle
  OBVIOUS
<1>3. /\ idle' \in [Processes -> Seq(Dirs)] /\ opened' \in [Processes -> SUBSET Dirs]
      /\ \A q \in Processes \ {p} : idle'[q] = idle[q] /\ opened'[q] = opened[q]
      /\ \A d \in opened[p] : refs'[p][d] > 0 => d \in opened'[p]
      /\ IdleSound(p)'
  BY <1>1, <1>2, CloseIdleSound
<1>4. AccessTypes'
  BY <1>1, <1>3 DEF AccessTypes
<1>5. Counted'
  <2>1. \A q \in Processes, d \in Dirs : Holders(q, d)' = Holders(q, d)
    BY <1>1 DEF Holders
  <2>2. \A q \in Processes, d \in Dirs : refs[q][d] = Cardinality(Holders(q, d)) /\ (refs[q][d] > 0 => d \in opened[q])
    BY AFacts DEF CacheSound, Counted
  <2>3. \A q \in Processes, d \in Dirs : refs'[q][d] > 0 => d \in opened'[q]
    BY <1>1, <1>3, <2>2
  <2> QED BY <1>1, <2>1, <2>2, <2>3 DEF Counted
<1>6. ASSUME NEW q \in Processes PROVE IdleSound(q)'
  <2>1. CASE q # p
    <3>1. idle'[q] = idle[q] /\ opened'[q] = opened[q] /\ refs'[q] = refs[q]
      BY <1>1, <1>3, <2>1
    <3> QED BY <3>1, AFacts DEF CacheSound, IdleSound
  <2> QED BY <1>3, <2>1
<1>7. ImportSound'
  BY <1>1, AFacts DEF ImportSound
<1> QED BY <1>4, <1>5, <1>6, <1>7 DEF AInv, CacheSound

\* A process that stops forgets its stores together with the calls that had them.
LEMMA CrashKeeps ==
  ASSUME AInv, NEW p \in Processes, Crash(p)
  PROVE  AInv'
<1>0. AccessTypes
  BY AFacts
<1>1. /\ opened' = [opened EXCEPT ![p] = {}]
      /\ refs' = [refs EXCEPT ![p] = [d \in Dirs |-> 0]]
      /\ idle' = [idle EXCEPT ![p] = <<>>]
      /\ pc' = [r \in Requests |-> IF ProcessOf[r] = p THEN "away" ELSE pc[r]]
      /\ file' = file /\ entry' = entry
  BY DEF Crash
<1>2. AccessTypes'
  BY <1>0, <1>1 DEF AccessTypes
<1>3. /\ \A d \in Dirs : Holders(p, d)' = {} /\ refs'[p][d] = 0
      /\ idle'[p] = <<>> /\ opened'[p] = {}
  BY <1>0, <1>1 DEF Holders, Holding, Importing, AccessTypes
<1>4. \A q \in Processes \ {p} :
         /\ \A d \in Dirs : Holders(q, d)' = Holders(q, d) /\ refs'[q][d] = refs[q][d]
         /\ idle'[q] = idle[q] /\ opened'[q] = opened[q]
  BY <1>0, <1>1 DEF Holders, AccessTypes
<1>5. ASSUME NEW q \in Processes, NEW d \in Dirs
      PROVE  refs'[q][d] = Cardinality(Holders(q, d)') /\ (refs'[q][d] > 0 => d \in opened'[q])
  <2>0. Cardinality({}) = 0
    BY FS_EmptySet
  <2>1. CASE q = p
    <3>1. refs'[q][d] = 0 /\ Holders(q, d)' = {}
      BY <1>3, <2>1
    <3>2. Cardinality(Holders(q, d)') = 0
      BY <2>0, <3>1, Zenon
    <3> QED BY <3>1, <3>2
  <2>2. CASE q # p
    BY <1>4, <2>2, AFacts DEF CacheSound, Counted
  <2> QED BY <2>1, <2>2
<1>6. ASSUME NEW q \in Processes PROVE IdleSound(q)'
  <2>1. CASE q = p
    <3>1. Distinct(<<>>) /\ ToSet(<<>>) = {} /\ Len(<<>>) <= MaxIdle
      BY DEF Distinct, ToSet
    <3> QED BY <1>3, <2>1, <3>1 DEF IdleSound
  <2>2. CASE q # p
    BY <1>0, <1>4, <2>2, AFacts DEF CacheSound, IdleSound, AccessTypes
  <2> QED BY <2>1, <2>2
<1>7. ImportSound'
  BY <1>1, AFacts DEF ImportSound
<1> QED BY <1>2, <1>5, <1>6, <1>7 DEF AInv, CacheSound, Counted

\* The steps of a call between getting its store and handing it back.
LEMMA ImportKeeps ==
  ASSUME AInv, NEW r \in Requests,
         Stat(r) \/ Lock(r) \/ OpenFile(r) \/ Import(r) \/ ImportFails(r) \/ PutAside(r) \/ Serve(r)
  PROVE  AInv'
<1> USE DEF Goto, Unlock
<1>0. AccessTypes /\ ImportSound /\ DirOf[r] \in Dirs
  BY AFacts
<1>1. CASE Stat(r)
  <2>1. AccessTypes' /\ UNCHANGED cache /\ \A q \in Requests : pc'[q] \in Holding <=> pc[q] \in Holding
    BY <1>0, <1>1 DEF Stat, cache, AccessTypes, Holding, Importing
  <2>2. ImportSound'
    BY <1>0, <1>1 DEF Stat, ImportSound, AccessTypes
  <2> QED BY <2>1, <2>2, CacheUntouched DEF AInv
<1>2. CASE Lock(r)
  <2>1. AccessTypes' /\ UNCHANGED cache /\ \A q \in Requests : pc'[q] \in Holding <=> pc[q] \in Holding
    BY <1>0, <1>2 DEF Lock, cache, AccessTypes, Holding, Importing
  <2>2. ImportSound'
    BY <1>0, <1>2 DEF Lock, ImportSound, AccessTypes
  <2> QED BY <2>1, <2>2, CacheUntouched DEF AInv
<1>3. CASE OpenFile(r)
  <2>1. AccessTypes' /\ UNCHANGED cache /\ \A q \in Requests : pc'[q] \in Holding <=> pc[q] \in Holding
    BY <1>0, <1>3 DEF OpenFile, cache, AccessTypes, Holding, Importing
  <2>2. ImportSound'
    BY <1>0, <1>3 DEF OpenFile, ImportSound, AccessTypes
  <2> QED BY <2>1, <2>2, CacheUntouched DEF AInv
<1>4. CASE Import(r)
  <2>0. (IF entry[DirOf[r]] = 0 THEN 1 ELSE entry[DirOf[r]]) \in (0..2) \ {0}
    BY <1>0 DEF AccessTypes
  <2>1. AccessTypes' /\ UNCHANGED cache /\ \A q \in Requests : pc'[q] \in Holding <=> pc[q] \in Holding
    BY <1>0, <1>4, <2>0 DEF Import, cache, AccessTypes, Holding, Importing
  <2>2. ImportSound'
    BY <1>0, <1>4, <2>0 DEF Import, ImportSound, AccessTypes
  <2> QED BY <2>1, <2>2, CacheUntouched DEF AInv
<1>5. CASE ImportFails(r)
  <2>1. AccessTypes' /\ UNCHANGED cache /\ \A q \in Requests : pc'[q] \in Holding <=> pc[q] \in Holding
    BY <1>0, <1>5 DEF ImportFails, cache, AccessTypes, Holding, Importing
  <2>2. ImportSound'
    BY <1>0, <1>5 DEF ImportFails, ImportSound, AccessTypes
  <2> QED BY <2>1, <2>2, CacheUntouched DEF AInv
<1>6. CASE PutAside(r)
  <2>1. AccessTypes' /\ UNCHANGED cache /\ \A q \in Requests : pc'[q] \in Holding <=> pc[q] \in Holding
    BY <1>0, <1>6 DEF PutAside, cache, AccessTypes, Holding, Importing
  <2>2. ImportSound'
    BY <1>0, <1>6 DEF PutAside, ImportSound, AccessTypes
  <2> QED BY <2>1, <2>2, CacheUntouched DEF AInv
<1>7. CASE Serve(r)
  <2>0. entry' \in [Dirs -> 0..2]
    <3>1. 2 \in 0..2 /\ entry \in [Dirs -> 0..2]
      BY <1>0 DEF AccessTypes
    <3>2. entry' = entry \/ entry' = [entry EXCEPT ![DirOf[r]] = 2]
      BY <1>7 DEF Serve
    <3> HIDE <1>7
    <3> QED BY <1>0, <3>1, <3>2
  <2>1. AccessTypes' /\ UNCHANGED cache /\ \A q \in Requests : pc'[q] \in Holding <=> pc[q] \in Holding
    BY <1>0, <1>7, <2>0 DEF Serve, cache, AccessTypes, Holding, Importing
  <2>2. ImportSound'
    BY <1>0, <1>7 DEF Serve, ImportSound, AccessTypes
  <2> QED BY <2>1, <2>2, CacheUntouched DEF AInv
<1> QED BY <1>1, <1>2, <1>3, <1>4, <1>5, <1>6, <1>7

\* Nothing is open and nobody calls to begin with; a legacy file waits to be imported.
LEMMA InitAInv == Init => AInv
<1> SUFFICES ASSUME Init PROVE AInv
  OBVIOUS
<1>1. AccessTypes
  BY DEF Init, AccessTypes
<1>2. \A p \in Processes, d \in Dirs : Holders(p, d) = {} /\ refs[p][d] = 0
  BY DEF Init, Holders, Holding, Importing
<1>3. Counted
  <2>1. Cardinality({}) = 0
    BY FS_EmptySet
  <2>2. \A p \in Processes, d \in Dirs : Cardinality(Holders(p, d)) = 0
    BY <1>2, <2>1, Zenon
  <2>3. \A p \in Processes, d \in Dirs : ~(refs[p][d] > 0)
    BY <1>2
  <2> QED BY <1>2, <2>2, <2>3 DEF Counted
<1>4. ASSUME NEW p \in Processes PROVE IdleSound(p)
  <2>1. Distinct(<<>>) /\ ToSet(<<>>) = {} /\ Len(<<>>) <= MaxIdle
    BY DEF Distinct, ToSet
  <2> QED BY <2>1 DEF Init, IdleSound
<1>5. ImportSound
  BY DEF Init, ImportSound
<1> QED BY <1>1, <1>3, <1>4, <1>5 DEF AInv, CacheSound

\* Every step of every process keeps the invariant.
LEMMA NextAInv == AInv /\ [Next]_vars => AInv'
<1> SUFFICES ASSUME AInv, [Next]_vars PROVE AInv'
  OBVIOUS
<1>1. ASSUME NEW r \in Requests, Acquire(r) \/ NoteStoreFault(r) \/ Lock(r) \/ Proceed(r) PROVE AInv'
  <2>1. CASE NoteStoreFault(r)
    BY <2>1, CacheUntouched, AFacts DEF NoteStoreFault, AInv, AccessTypes, ImportSound, cache
  <2> QED BY <1>1, <2>1, AcquireKeeps, ImportKeeps, ReleaseKeeps DEF Proceed
<1>2. ASSUME NEW p \in Processes, CloseMemoryStores(p) \/ Crash(p) PROVE AInv'
  BY <1>2, CloseMemoryStoresKeeps, CrashKeeps
<1>3. CASE UNCHANGED vars
  BY <1>3, CacheUntouched, AFacts DEF vars, AInv, AccessTypes, ImportSound, cache
<1> QED BY <1>1, <1>2, <1>3 DEF Next

-----------------------------------------------------------------------------
\* The inductive invariant holds in every state, for every number of processes, stores
\* and calls and every bound on the idle stores (memory_store.go).
THEOREM AccessInvariant == Spec => []AInv
BY InitAInv, NextAInv, PTL DEF Spec

\* A store in use is never closed (closeIdleMemoryStoresLocked).
THEOREM NeverClosedInUse == Spec => []StoreInUseOpen
<1>1. AInv => StoreInUseOpen
  <2> SUFFICES ASSUME AInv, NEW r \in Requests, pc[r] \in Holding
               PROVE  DirOf[r] \in opened[ProcessOf[r]]
    BY DEF StoreInUseOpen
  <2>1. Holders(ProcessOf[r], DirOf[r]) # {}
    BY DEF Holders
  <2>2. ProcessOf[r] \in Processes /\ DirOf[r] \in Dirs
    OBVIOUS
  <2>3. refs[ProcessOf[r]][DirOf[r]] > 0
    BY <2>1, <2>2, AFacts
  <2> QED BY <2>2, <2>3, AFacts DEF CacheSound, Counted
<1> QED BY <1>1, AccessInvariant, PTL

\* At most maxIdleMemoryStores of a process's open stores are in nobody's hands.
THEOREM NoStoreLeaks == Spec => []IdleBounded
<1>1. AInv => IdleBounded
  <2> SUFFICES ASSUME AInv, NEW p \in Processes
               PROVE  Cardinality({d \in opened[p] :
                         ~\E r \in Requests : ProcessOf[r] = p /\ DirOf[r] = d /\ pc[r] \in Holding}) <= MaxIdle
    BY DEF IdleBounded
  <2>1. {d \in opened[p] : ~\E r \in Requests : ProcessOf[r] = p /\ DirOf[r] = d /\ pc[r] \in Holding}
           = {d \in opened[p] : Holders(p, d) = {}}
    BY DEF Holders
  <2>2. opened[p] \subseteq Dirs /\ idle[p] \in Seq(Dirs)
    BY AFacts DEF AccessTypes
  <2>3. {d \in opened[p] : Holders(p, d) = {}} = {d \in opened[p] : refs[p][d] = 0}
    BY <2>2, AFacts
  <2>4. ToSet(idle[p]) = {d \in opened[p] : refs[p][d] = 0} /\ Len(idle[p]) <= MaxIdle
    BY AFacts DEF CacheSound, IdleSound
  <2>5. IsFiniteSet(ToSet(idle[p])) /\ Cardinality(ToSet(idle[p])) <= Len(idle[p])
    BY <2>2, ListBound
  <2>6. Cardinality(ToSet(idle[p])) \in Nat /\ Len(idle[p]) \in Nat
    BY <2>2, <2>5, FS_CardinalityType
  <2>7. Cardinality(ToSet(idle[p])) <= MaxIdle
    BY <2>4, <2>5, <2>6
  <2> QED BY <2>1, <2>3, <2>4, <2>7
<1> QED BY <1>1, AccessInvariant, PTL

\* No call is served, and no file put aside, before the legacy memories are in the
\* store (importLegacyContextEntries).
THEOREM ImportedBeforeServed == Spec => []ServedImported
<1>1. AInv => ServedImported
  BY DEF AInv, ImportSound, ServedImported
<1> QED BY <1>1, AccessInvariant, PTL

\* No import, however late, takes back what was changed since (importEntry).
THEOREM ImportNeverReverts == Spec => NeverReverted
<1>1. AInv /\ [Next]_vars => [EntryStep]_vars
  <2> SUFFICES ASSUME AInv, Next PROVE EntryStep
    BY DEF vars
  <2>0. entry \in [Dirs -> 0..2]
    BY AFacts DEF AccessTypes
  <2>1. \/ UNCHANGED entry
        \/ \E r \in Requests : Import(r) \/ Serve(r)
    BY DEF Next, Proceed, Acquire, NoteStoreFault, Lock, Stat, OpenFile, ImportFails, PutAside, Release,
           CloseMemoryStores, Crash
  <2>2. CASE UNCHANGED entry
    BY <2>0, <2>2 DEF EntryStep
  <2>3. ASSUME NEW r \in Requests, Import(r) \/ Serve(r) PROVE EntryStep
    BY <2>0, <2>3 DEF Import, Serve, EntryStep
  <2> QED BY <2>1, <2>2, <2>3
<1> QED BY <1>1, AccessInvariant, PTL DEF Spec, NeverReverted
=============================================================================
