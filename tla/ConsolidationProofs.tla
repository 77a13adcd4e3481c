------------------------ MODULE ConsolidationProofs ------------------------
(***************************************************************************)
(* The watermark's compare-and-set, for any table and any number of passes *)
(* that overlap and fail, and the types of the pass, given those of the    *)
(* walk over the table.                                                    *)
(***************************************************************************)
EXTENDS Consolidation, TLAPS

PassIn(A, M, F, C, B, G) == [at : A, from : M, found : F, cursor : C, complete : B, free : G]

\* A pass has its six fields, whatever they hold.
PassShaped(x) == x \in PassIn({x.at}, {x.from}, {x.found}, {x.cursor}, {x.complete}, {x.free})
PassesShaped ==
    /\ pass = [p \in Passes |-> pass[p]]
    /\ \A p \in Passes : PassShaped(pass[p])

\* The inductive invariant of the compare-and-set.
CInv == current \subseteq Passes /\ PassesShaped /\ NoLostAdvance

-----------------------------------------------------------------------------
\* A pass with types has its shape.
LEMMA TypedShaped ==
  ASSUME NEW A, NEW M, NEW F, NEW C, NEW B, NEW G, NEW x \in PassIn(A, M, F, C, B, G)
  PROVE  PassShaped(x)
BY DEF PassIn, PassShaped

\* A pass that goes on keeps its shape and where it started.
LEMMA MoveShape ==
  ASSUME NEW x, PassShaped(x), NEW a
  PROVE  LET y == [x EXCEPT !.at = a]
         IN  PassShaped(y) /\ y.at = a /\ y.from = x.from
<1> DEFINE y == [x EXCEPT !.at = a]
           R == PassIn({x.at, a}, {x.from}, {x.found}, {x.cursor}, {x.complete}, {x.free})
<1>1. x \in R
  BY DEF PassIn, PassShaped
<1>2. y \in R /\ y.at = a /\ y.from = x.from
  BY <1>1 DEF PassIn
<1> HIDE DEF y
<1> QED BY <1>2, TypedShaped DEF y

\* So does one that has looked at the queue.
LEMMA FreeShape ==
  ASSUME NEW x, PassShaped(x), NEW g
  PROVE  LET y == [x EXCEPT !.free = g]
         IN  PassShaped(y) /\ y.at = x.at /\ y.from = x.from
<1> DEFINE y == [x EXCEPT !.free = g]
           R == PassIn({x.at}, {x.from}, {x.found}, {x.cursor}, {x.complete}, {x.free, g})
<1>1. x \in R
  BY DEF PassIn, PassShaped
<1>2. y \in R /\ y.at = x.at /\ y.from = x.from
  BY <1>1 DEF PassIn
<1> HIDE DEF y
<1> QED BY <1>2, TypedShaped DEF y

\* A pass that does nothing has the shape of one.
LEMMA IdleShape == PassShaped(Idle) /\ Idle.at = "idle"
<1>1. Idle \in PassIn({"idle"}, {0}, {{}}, {0}, {FALSE}, {FALSE}) /\ Idle.at = "idle"
  BY DEF PassIn, Idle
<1> QED BY <1>1, TypedShaped

\* So has one that starts.
LEMMA StartShape ==
  ASSUME NEW m
  PROVE  LET y == [Idle EXCEPT !.at = "reading", !.from = m]
         IN  PassShaped(y) /\ y.at = "reading" /\ y.from = m
<1> DEFINE y == [Idle EXCEPT !.at = "reading", !.from = m]
           R == PassIn({"idle", "reading"}, {0, m}, {{}}, {0}, {FALSE}, {FALSE})
<1>1. y \in R /\ y.at = "reading" /\ y.from = m
  BY DEF PassIn, Idle
<1> HIDE DEF y
<1> QED BY <1>1, TypedShaped DEF y

\* So has one that has queued its questions.
LEMMA QueuedShape ==
  ASSUME NEW m, NEW c
  PROVE  LET y == [Idle EXCEPT !.at = "queued", !.from = m, !.cursor = c]
         IN  PassShaped(y) /\ y.at = "queued" /\ y.from = m
<1> DEFINE y == [Idle EXCEPT !.at = "queued", !.from = m, !.cursor = c]
           R == PassIn({"idle", "queued"}, {0, m}, {{}}, {0, c}, {FALSE}, {FALSE})
<1>1. y \in R /\ y.at = "queued" /\ y.from = m
  BY DEF PassIn, Idle
<1> HIDE DEF y
<1> QED BY <1>1, TypedShaped DEF y

-----------------------------------------------------------------------------
\* A step of one pass keeps the invariant if nobody is current after it, or if it leaves
\* the watermark where it is and the pass, when current, goes on from there.
LEMMA OnePass ==
  ASSUME CInv, NEW p \in Passes, NEW y, PassShaped(y), pass' = [pass EXCEPT ![p] = y],
         \/ current' = {}
         \/ /\ watermark' = watermark /\ current' \subseteq current \cup {p}
            /\ p \in current' => y.at # "idle" /\ y.from = watermark
  PROVE  CInv'
<1>1. \A q \in Passes : pass'[q] = IF q = p THEN y ELSE pass[q]
  BY DEF CInv, PassesShaped
<1>2. pass' = [q \in Passes |-> pass'[q]]
  BY DEF CInv, PassesShaped
<1>3. PassesShaped'
  BY <1>1, <1>2 DEF CInv, PassesShaped
<1>4. NoLostAdvance'
  BY <1>1 DEF CInv, NoLostAdvance
<1> QED BY <1>3, <1>4 DEF CInv

\* A step that touches no pass and no watermark keeps it.
LEMMA NoPass ==
  ASSUME CInv, UNCHANGED <<watermark, current, pass>>
  PROVE  CInv'
BY DEF CInv, PassesShaped, NoLostAdvance

\* Every step of a pass keeps the invariant.
LEMMA PassKeeps ==
  ASSUME CInv, NEW p \in Passes, Proceed(p) \/ Fail(p)
  PROVE  CInv'
<1>0. /\ PassShaped(pass[p])
      /\ p \in current => pass[p].from = watermark
  BY DEF CInv, PassesShaped, NoLostAdvance
<1>1. PassShaped(Idle)
  BY IdleShape
<1>2. CASE StartPass(p)
  <2> DEFINE y == [Idle EXCEPT !.at = "reading", !.from = watermark]
  <2>1. pass' = [pass EXCEPT ![p] = y] /\ watermark' = watermark /\ current' = current \cup {p}
    BY <1>2 DEF StartPass
  <2>2. PassShaped(y) /\ y.at = "reading" /\ y.from = watermark
    BY StartShape
  <2> HIDE DEF y
  <2> QED BY <2>1, <2>2, OnePass
<1>3. ASSUME NEW s, NEW to, to # "idle", Found(p, s, to), UNCHANGED <<watermark, current>>
      PROVE  CInv'
  <2> DEFINE x == pass[p]
             f == Questions(s)
             c == s.cursor
             b == s.complete
             y == [x EXCEPT !.at = to, !.found = f, !.cursor = c, !.complete = b]
  <2>0. PassShaped(x) /\ x.from = pass[p].from
    BY <1>0
  <2>1. pass' = [pass EXCEPT ![p] = y]
    BY <1>3 DEF Found
  <2> HIDE DEF x, f, c, b
  <2> DEFINE R == PassIn({x.at, to}, {x.from}, {x.found, f}, {x.cursor, c}, {x.complete, b}, {x.free})
  <2>3. x \in R
    BY <2>0 DEF PassIn, PassShaped
  <2>4. y \in R /\ y.at = to /\ y.from = x.from
    BY <2>3 DEF PassIn
  <2> HIDE DEF y
  <2>5. PassShaped(y)
    BY <2>4, TypedShaped
  <2> QED BY <1>0, <1>3, <2>0, <2>1, <2>4, <2>5, OnePass
<1>4. CASE ReadOnward(p)
  BY <1>3, <1>4 DEF ReadOnward
<1>5. CASE Reread(p)
  BY <1>3, <1>5 DEF Reread
<1>6. CASE CheckQueue(p)
  <2> DEFINE x == [pass[p] EXCEPT !.free = pass[p].found \ queued # {}]
             to == IF x.from > 0 THEN "back" ELSE AfterReading(x)
             y == [x EXCEPT !.at = to]
  <2>1. pass' = [pass EXCEPT ![p] = y] /\ UNCHANGED <<watermark, current>>
    BY <1>6 DEF CheckQueue
  <2>2. PassShaped(x) /\ x.from = pass[p].from
    BY <1>0, FreeShape
  <2>3. to # "idle"
    BY DEF AfterReading
  <2> HIDE DEF x, to
  <2>4. PassShaped(y) /\ y.at = to /\ y.from = x.from
    BY <2>2, MoveShape
  <2> HIDE DEF y
  <2> QED BY <1>0, <2>1, <2>2, <2>3, <2>4, OnePass
<1>7. CASE ReadBack(p)
  <2> DEFINE x == pass[p]
             found == x.found \cup Questions(Walk(IF x.from > Window THEN x.from - Window ELSE 0))
             to == AfterReading(x)
             y == [x EXCEPT !.at = to, !.found = found]
  <2>0. PassShaped(x) /\ x.from = pass[p].from
    BY <1>0
  <2>1. pass' = [pass EXCEPT ![p] = y] /\ UNCHANGED <<watermark, current>>
    BY <1>7 DEF ReadBack
  <2>2. to # "idle"
    BY DEF AfterReading
  <2> HIDE DEF x, found, to
  <2> DEFINE R == PassIn({x.at, to}, {x.from}, {x.found, found}, {x.cursor}, {x.complete}, {x.free})
  <2>4. x \in R
    BY <2>0 DEF PassIn, PassShaped
  <2>5. y \in R /\ y.at = to /\ y.from = x.from
    BY <2>4 DEF PassIn
  <2> HIDE DEF y
  <2>6. PassShaped(y)
    BY <2>5, TypedShaped
  <2> QED BY <1>0, <2>0, <2>1, <2>2, <2>5, <2>6, OnePass
<1>8. CASE Restart(p)
  <2>1. CASE Found(p, Walk(0), "prepared")
    BY <1>3, <1>8, <2>1 DEF Restart
  <2>2. CASE pass' = [pass EXCEPT ![p].at = "prepared"]
    <3> DEFINE y == [pass[p] EXCEPT !.at = "prepared"]
    <3>1. pass' = [pass EXCEPT ![p] = y] /\ UNCHANGED <<watermark, current>>
      BY <1>8, <2>2 DEF Restart
    <3>2. PassShaped(y) /\ y.at = "prepared" /\ y.from = pass[p].from
      BY <1>0, MoveShape
    <3> HIDE DEF y
    <3> QED BY <1>0, <3>1, <3>2, OnePass
  <2> QED BY <1>8, <2>1, <2>2 DEF Restart
<1>9. CASE Enqueue(p)
  <2> DEFINE m == pass[p].from
             c == pass[p].cursor
             y == [Idle EXCEPT !.at = "queued", !.from = m, !.cursor = c]
  <2>1. pass' = [pass EXCEPT ![p] = y] /\ UNCHANGED <<watermark, current>> /\ m = pass[p].from
    BY <1>9 DEF Enqueue, Queued
  <2> HIDE DEF m, c
  <2>2. PassShaped(y) /\ y.at = "queued" /\ y.from = m
    BY QueuedShape
  <2> HIDE DEF y
  <2> QED BY <1>0, <2>1, <2>2, OnePass
<1>10. CASE Advance(p)
  <2>1. pass' = [pass EXCEPT ![p] = Idle]
    BY <1>10 DEF Advance
  <2>2. \/ current' = {}
        \/ watermark' = watermark /\ current' = current /\ p \notin current
    BY <1>10 DEF Advance
  <2> QED BY <1>1, <2>1, <2>2, OnePass
<1>11. CASE Fail(p)
  <2>1. pass' = [pass EXCEPT ![p] = Idle] /\ watermark' = watermark /\ current' = current \ {p}
    BY <1>11 DEF Fail
  <2> QED BY <1>1, <2>1, OnePass
<1> QED BY <1>2, <1>4, <1>5, <1>6, <1>7, <1>8, <1>9, <1>10, <1>11 DEF Proceed

\* No pass runs to begin with.
LEMMA InitCInv == Init => CInv
<1>1. PassShaped(Idle)
  BY IdleShape
<1> QED BY <1>1 DEF Init, CInv, PassesShaped, NoLostAdvance

\* Every step keeps the invariant.
LEMMA NextCInv == CInv /\ [Next]_vars => CInv'
<1> SUFFICES ASSUME CInv, [Next]_vars PROVE CInv'
  OBVIOUS
<1>1. ASSUME NEW p \in Passes, Proceed(p) \/ Fail(p) PROVE CInv'
  BY <1>1, PassKeeps
<1>2. CASE AddEntry \/ (\E e \in Retirable : RetireEntry(e)) \/ (\E q \in queued : CancelJob(q)) \/ UNCHANGED vars
  BY <1>2, NoPass DEF AddEntry, RetireEntry, CancelJob, vars
<1> QED BY <1>1, <1>2 DEF Next

\* A pass that another one overtook is refused: whoever may still move the watermark
\* started from where it is (StartWatermark, AdvanceWatermark), for any table and any
\* number of passes.
THEOREM WatermarkComparedAndSet == Spec => []NoLostAdvance
<1>1. CInv => NoLostAdvance
  BY DEF CInv
<1> QED BY <1>1, InitCInv, NextCInv, PTL DEF Spec

-----------------------------------------------------------------------------
(***************************************************************************)
(* The types of the pass.  What the walk over the table computes is a fold *)
(* in a recursive function, so that a walk stays in the table (WalksTyped) *)
(* is a hypothesis here; TLC evaluates it on every instance it checks.     *)
(***************************************************************************)

PassType == PassIn(Stages, Nat, SUBSET AnyQuestion, Nat, BOOLEAN, BOOLEAN)

\* The inductive invariant of the types.
TInv == ConsolidationTypeOK /\ pass \in [Passes -> PassType]

\* The questions about entries of the table are questions.
LEMMA QuestionsTyped ==
  ASSUME NEW s, s.kept \subseteq Entries
  PROVE  Questions(s) \subseteq AnyQuestion
<1> DEFINE live == s.kept \ retired
           on(a) == {e \in live : <<e, a>> \in s.anchors}
<1>1. ASSUME NEW members \in SUBSET Entries, NEW kind \in Kinds, NEW refs \in SUBSET Anchors
      PROVE  Question(kind, members, refs) \in AnyQuestion
  BY DEF Question, AnyQuestion
<1>2. live \subseteq Entries /\ \A a : on(a) \in SUBSET Entries
  OBVIOUS
<1>3. {"cluster", "anchor", "ageing"} \subseteq Kinds /\ {} \in SUBSET Anchors
  BY DEF Kinds
<1>4. \A e \in live : {e} \in SUBSET Entries /\ AnchorsRead(s, e) \cap Stale \in SUBSET Anchors
  BY <1>2 DEF AnchorsRead, Anchors
<1> HIDE DEF live, on
<1>5. \A a : Question("cluster", on(a), {}) \in AnyQuestion
  BY <1>1, <1>2, <1>3
<1>6. \A e \in live : AnchorQuestion(e, AnchorsRead(s, e)) \in AnyQuestion
  BY <1>1, <1>3, <1>4 DEF AnchorQuestion
<1>7. \A e \in live : Question("ageing", {e}, {}) \in AnyQuestion
  BY <1>1, <1>3, <1>4
<1>8. Questions(s) = {Question("cluster", on(x[2]), {}) : x \in {y \in s.anchors : Cardinality(on(y[2])) >= 2}}
         \cup {AnchorQuestion(e, AnchorsRead(s, e)) : e \in {f \in live : AnchorsRead(s, f) \cap Stale # {}}}
         \cup {Question("ageing", {e}, {}) : e \in live \cap Aged}
  BY DEF Questions, live, on
<1> QED BY <1>5, <1>6, <1>7, <1>8

\* A walk that starts in the table gives entries and a position of it.
LEMMA WalkTyped ==
  ASSUME WalksTyped, TInv, NEW from \in 0 .. rows
  PROVE  /\ Walk(from).kept \subseteq Entries
         /\ Walk(from).cursor \in 0 .. rows
         /\ Walk(from).complete \in BOOLEAN
         /\ Questions(Walk(from)) \subseteq AnyQuestion
<1>1. rows \in 0 .. MaxEntries /\ from \in 0 .. MaxEntries /\ from <= rows
  BY ConsolidationAssumption DEF TInv, ConsolidationTypeOK
<1>2. /\ Walk(from).kept \subseteq 1 .. rows
      /\ Walk(from).cursor \in 0 .. rows
      /\ Walk(from).complete \in BOOLEAN
  BY <1>1 DEF WalksTyped, Walk
<1>3. 1 .. rows \subseteq Entries
  BY <1>1, ConsolidationAssumption DEF Entries
<1> QED BY <1>2, <1>3, QuestionsTyped

\* A step of one pass keeps the types if what it makes of the pass has them.
LEMMA OnePassTyped ==
  ASSUME TInv, NEW p \in Passes, NEW y \in PassType, y.from \in 0 .. rows, y.cursor \in 0 .. rows,
         pass' = [pass EXCEPT ![p] = y], UNCHANGED <<rows, retired>>,
         current' \subseteq Passes, watermark' \in 0 .. rows, queued' \cup cancelled' \subseteq AnyQuestion
  PROVE  TInv'
<1>1. pass' \in [Passes -> PassType] /\ \A q \in Passes : pass'[q] = IF q = p THEN y ELSE pass[q]
  BY DEF TInv
<1>2. \A q \in Passes : pass'[q].from \in 0 .. rows /\ pass'[q].cursor \in 0 .. rows
  BY <1>1 DEF TInv, ConsolidationTypeOK
<1>3. \A q \in Passes : /\ pass'[q].at \in Stages /\ pass'[q].found \subseteq AnyQuestion
                        /\ pass'[q].complete \in BOOLEAN /\ pass'[q].free \in BOOLEAN
  BY <1>1 DEF PassType, PassIn
<1> QED BY <1>1, <1>2, <1>3 DEF TInv, ConsolidationTypeOK

\* Every step of a pass keeps the types.
LEMMA PassKeepsTypes ==
  ASSUME WalksTyped, TInv, NEW p \in Passes, Proceed(p) \/ Fail(p)
  PROVE  TInv'
<1>0. /\ pass[p] \in PassType /\ pass[p].from \in 0 .. rows /\ pass[p].cursor \in 0 .. rows
      /\ rows \in Nat /\ watermark \in 0 .. rows /\ watermark \in Nat /\ current \subseteq Passes
      /\ queued \cup cancelled \subseteq AnyQuestion
  BY ConsolidationAssumption DEF TInv, ConsolidationTypeOK
<1>1. Idle \in PassType /\ Idle.from \in 0 .. rows /\ Idle.cursor \in 0 .. rows
  BY <1>0 DEF Idle, PassType, PassIn, Stages
<1>2. CASE StartPass(p)
  <2> DEFINE y == [Idle EXCEPT !.at = "reading", !.from = watermark]
  <2>1. y \in PassType /\ y.from = watermark /\ y.cursor = 0
    BY <1>0 DEF Idle, PassType, PassIn, Stages
  <2>2. /\ pass' = [pass EXCEPT ![p] = y] /\ UNCHANGED <<rows, retired, watermark, queued, cancelled>>
        /\ current' = current \cup {p}
    BY <1>2 DEF StartPass
  <2> HIDE DEF y
  <2>3. y.from \in 0 .. rows /\ y.cursor \in 0 .. rows
    BY <1>0, <1>1, <2>1 DEF Idle
  <2> QED BY <1>0, <2>1, <2>2, <2>3, OnePassTyped
<1>3. ASSUME NEW from \in 0 .. rows, NEW to \in Stages, Found(p, Walk(from), to),
             UNCHANGED <<rows, retired, queued, cancelled, watermark, current>>
      PROVE  TInv'
  <2> DEFINE x == pass[p]
             s == Walk(from)
             f == Questions(s)
             c == s.cursor
             b == s.complete
             y == [x EXCEPT !.at = to, !.found = f, !.cursor = c, !.complete = b]
  <2>1. f \subseteq AnyQuestion /\ c \in 0 .. rows /\ b \in BOOLEAN
    BY WalkTyped
  <2>2. pass' = [pass EXCEPT ![p] = y]
    BY <1>3 DEF Found
  <2>3. x \in PassType /\ x.from \in 0 .. rows
    BY <1>0
  <2> HIDE DEF x, s, f, c, b
  <2>4. c \in Nat
    BY <1>0, <2>1
  <2>5. y \in PassType /\ y.from = x.from /\ y.cursor = c
    BY <2>1, <2>3, <2>4 DEF PassType, PassIn
  <2> HIDE DEF y
  <2> QED BY <1>0, <1>3, <2>1, <2>2, <2>3, <2>5, OnePassTyped
<1>4. 0 \in 0 .. rows /\ {"rereading", "checking", "prepared", "back", "restarting"} \subseteq Stages
  BY <1>0 DEF Stages
<1>5. CASE ReadOnward(p)
  BY <1>0, <1>3, <1>4, <1>5 DEF ReadOnward
<1>6. CASE Reread(p)
  BY <1>3, <1>4, <1>6 DEF Reread
<1>7. CASE CheckQueue(p)
  <2> DEFINE x == [pass[p] EXCEPT !.free = pass[p].found \ queued # {}]
             to == IF x.from > 0 THEN "back" ELSE AfterReading(x)
             y == [x EXCEPT !.at = to]
  <2>1. /\ pass' = [pass EXCEPT ![p] = y]
        /\ UNCHANGED <<rows, retired, queued, cancelled, watermark, current>>
    BY <1>7 DEF CheckQueue
  <2>2. x \in PassType /\ x.from = pass[p].from /\ x.cursor = pass[p].cursor
    BY <1>0 DEF PassType, PassIn
  <2>3. to \in Stages
    BY DEF AfterReading, Stages
  <2> HIDE DEF x, to
  <2>4. y \in PassType /\ y.from = x.from /\ y.cursor = x.cursor
    BY <2>2, <2>3 DEF PassType, PassIn
  <2> HIDE DEF y
  <2> QED BY <1>0, <2>1, <2>2, <2>4, OnePassTyped
<1>8. CASE ReadBack(p)
  <2> DEFINE x == pass[p]
             from == IF x.from > Window THEN x.from - Window ELSE 0
             f == x.found \cup Questions(Walk(from))
             to == AfterReading(x)
             y == [x EXCEPT !.at = to, !.found = f]
  <2>1. /\ pass' = [pass EXCEPT ![p] = y]
        /\ UNCHANGED <<rows, retired, queued, cancelled, watermark, current>>
    BY <1>8 DEF ReadBack
  <2>2. to \in Stages
    BY DEF AfterReading, Stages
  <2>3. x \in PassType /\ x.from \in 0 .. rows /\ x.cursor \in 0 .. rows
    BY <1>0
  <2>4. Window \in Nat
    BY ConsolidationAssumption DEF Window
  <2>5. from \in 0 .. rows
    BY <1>0, <2>3, <2>4
  <2> HIDE DEF x, from
  <2>6. f \subseteq AnyQuestion
    BY <2>3, <2>5, WalkTyped DEF PassType, PassIn
  <2> HIDE DEF f, to
  <2>7. y \in PassType /\ y.from = x.from /\ y.cursor = x.cursor
    BY <2>2, <2>3, <2>6 DEF PassType, PassIn
  <2> HIDE DEF y
  <2> QED BY <1>0, <2>1, <2>3, <2>7, OnePassTyped
<1>9. CASE Restart(p)
  <2>1. CASE Found(p, Walk(0), "prepared")
    BY <1>3, <1>4, <1>9, <2>1 DEF Restart
  <2>2. CASE pass' = [pass EXCEPT ![p].at = "prepared"]
    <3> DEFINE y == [pass[p] EXCEPT !.at = "prepared"]
    <3>1. /\ pass' = [pass EXCEPT ![p] = y]
          /\ UNCHANGED <<rows, retired, queued, cancelled, watermark, current>>
      BY <1>9, <2>2 DEF Restart
    <3>2. y \in PassType /\ y.from = pass[p].from /\ y.cursor = pass[p].cursor
      BY <1>0, <1>4 DEF PassType, PassIn
    <3> HIDE DEF y
    <3> QED BY <1>0, <3>1, <3>2, OnePassTyped
  <2> QED BY <1>9, <2>1, <2>2 DEF Restart
<1>10. CASE Enqueue(p)
  <2> DEFINE m == pass[p].from
             c == pass[p].cursor
             y == [Idle EXCEPT !.at = "queued", !.from = m, !.cursor = c]
  <2>1. /\ pass' = [pass EXCEPT ![p] = y]
        /\ UNCHANGED <<rows, retired, cancelled, watermark, current>>
        /\ \E S \in SUBSET (pass[p].found \ queued) : queued' = queued \cup S
    BY <1>10 DEF Enqueue, Queued
  <2>2. pass[p].found \subseteq AnyQuestion
    BY <1>0 DEF PassType, PassIn
  <2>3. queued' \cup cancelled' \subseteq AnyQuestion
    BY <1>0, <2>1, <2>2
  <2>4. m \in 0 .. rows /\ c \in 0 .. rows /\ m \in Nat /\ c \in Nat
    BY <1>0
  <2> HIDE DEF m, c
  <2>5. y \in PassType /\ y.from = m /\ y.cursor = c
    BY <2>4 DEF Idle, PassType, PassIn, Stages
  <2> HIDE DEF y
  <2> QED BY <1>0, <2>1, <2>3, <2>4, <2>5, OnePassTyped
<1>11. CASE Advance(p)
  <2>1. /\ pass' = [pass EXCEPT ![p] = Idle] /\ UNCHANGED <<rows, retired, queued, cancelled>>
        /\ watermark' \in {watermark, pass[p].cursor} /\ current' \in {current, {}}
    BY <1>11 DEF Advance
  <2> QED BY <1>0, <1>1, <2>1, OnePassTyped
<1>12. CASE Fail(p)
  <2>1. /\ pass' = [pass EXCEPT ![p] = Idle] /\ UNCHANGED <<rows, retired, queued, cancelled, watermark>>
        /\ current' = current \ {p}
    BY <1>12 DEF Fail
  <2> QED BY <1>0, <1>1, <2>1, OnePassTyped
<1> QED BY <1>2, <1>5, <1>6, <1>7, <1>8, <1>9, <1>10, <1>11, <1>12 DEF Proceed

\* Every step keeps the types: the table only grows.
LEMMA NextTInv ==
  ASSUME WalksTyped, TInv, [Next]_vars
  PROVE  TInv'
<1>1. ASSUME NEW p \in Passes, Proceed(p) \/ Fail(p) PROVE TInv'
  BY <1>1, PassKeepsTypes
<1>2. CASE AddEntry
  <2>1. rows \in 0 .. MaxEntries /\ rows < MaxEntries /\ rows' = rows + 1
    BY <1>2 DEF AddEntry, TInv, ConsolidationTypeOK
  <2>2. rows' \in 0 .. MaxEntries /\ \A i \in 0 .. rows : i \in 0 .. rows'
    BY <2>1, ConsolidationAssumption
  <2> QED BY <1>2, <2>2 DEF AddEntry, TInv, ConsolidationTypeOK
<1>3. ASSUME NEW e \in Retirable, RetireEntry(e) PROVE TInv'
  BY <1>3, ConsolidationAssumption DEF RetireEntry, TInv, ConsolidationTypeOK
<1>4. ASSUME NEW q \in queued, CancelJob(q) PROVE TInv'
  BY <1>4 DEF CancelJob, TInv, ConsolidationTypeOK
<1>5. CASE UNCHANGED vars
  BY <1>5 DEF vars, TInv, ConsolidationTypeOK
<1> QED BY <1>1, <1>2, <1>3, <1>4, <1>5 DEF Next

\* The types hold to begin with.
LEMMA InitTInv == Init => TInv
<1> SUFFICES ASSUME Init PROVE TInv
  OBVIOUS
<1>1. Idle \in PassType /\ Idle.from = 0 /\ Idle.cursor = 0 /\ 0 \in 0 .. rows
  BY ConsolidationAssumption DEF Init, Idle, PassType, PassIn, Stages
<1>2. pass = [p \in Passes |-> Idle]
  BY DEF Init
<1> HIDE DEF Idle
<1>3. pass \in [Passes -> PassType] /\ \A p \in Passes : pass[p] = Idle
  BY <1>1, <1>2
<1>4. \A p \in Passes : /\ pass[p].at \in Stages /\ pass[p].found \subseteq AnyQuestion
                        /\ pass[p].complete \in BOOLEAN /\ pass[p].free \in BOOLEAN
  BY <1>3 DEF PassType, PassIn
<1> QED BY <1>1, <1>3, <1>4, ConsolidationAssumption DEF Init, TInv, ConsolidationTypeOK

\* Provided a walk stays in the table, the watermark and every pass stay in it, and
\* every queued job asks a question about its entries and anchors (RunConsolidationPass).
THEOREM PassTypes ==
  ASSUME WalksTyped
  PROVE  Spec => []ConsolidationTypeOK
<1>1. TInv /\ [Next]_vars => TInv'
  BY NextTInv
<1>2. TInv => ConsolidationTypeOK
  BY DEF TInv
<1> QED BY <1>1, <1>2, InitTInv, PTL DEF Spec
=============================================================================
