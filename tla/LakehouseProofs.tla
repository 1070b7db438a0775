--------------------------- MODULE LakehouseProofs ---------------------------
(***************************************************************************)
(* Proofs about Lakehouse for every set of events and refreshes and every   *)
(* bound: no event falls behind the watermark as long as the overlap is     *)
(* longer than the longest delay, Silver and Rejected never meet, an        *)
(* undisturbed refresh reports all of Bronze, duplicates stay bounded, and  *)
(* the lakehouse implements EventLedger.                                    *)
(***************************************************************************)
EXTENDS Lakehouse, FiniteSetTheorems, TLAPS

USE LakehouseAssumption

-----------------------------------------------------------------------------
(* Types.                                                                  *)

LEMMA RowsTyped == \A S : Rows(S) \in Bag
  BY DEF Rows, Bag

LEMMA NoneTyped == None \in Bag
  BY DEF None, Bag

LEMMA PlusTyped == \A t, u \in Bag : Plus(t, u) \in Bag
  BY DEF Plus, Bag

LEMMA WithTyped == \A t \in Bag : \A s : With(t, s) \in Bag
  BY DEF With, Bag

LEMMA IdleTyped == \A f \in SUBSET Event : Idle(f) \in Job
  BY NoneTyped DEF Idle, Job, Steps, Tables

\* A job stays one when its fields get values of their types.
LEMMA FieldsTyped ==
    ASSUME NEW j \in Job
    PROVE  /\ \A a \in BOOLEAN : [j EXCEPT !.alone = a] \in Job
           /\ \A k \in Tables : [j EXCEPT !.table = k] \in Job
           /\ \A s \in Steps : [j EXCEPT !.step = s] \in Job
           /\ \A s \in Steps, a \in BOOLEAN : [j EXCEPT !.step = s, !.full = a] \in Job
           /\ \A s \in Steps, n \in Int : [j EXCEPT !.step = s, !.since = n] \in Job
           /\ \A s \in Steps, a \in BOOLEAN : [j EXCEPT !.alone = a, !.step = s] \in Job
           /\ \A s \in Steps, k \in Tables : [j EXCEPT !.step = s, !.table = k] \in Job
           /\ \A s \in Steps, b \in Bag : [j EXCEPT !.step = s, !.rows = b] \in Job
           /\ \A s \in Steps, t \in 0..MaxTime, S \in SUBSET Event : [j EXCEPT !.step = s, !.opened = t, !.seen = S] \in Job
           /\ \A s \in Steps, b \in Bag, k \in Tables : [j EXCEPT !.step = s, !.rows = b, !.table = k] \in Job
<1>1. \A a \in BOOLEAN : [j EXCEPT !.alone = a] \in Job
  BY Zenon DEF Job
<1>2. \A k \in Tables : [j EXCEPT !.table = k] \in Job
  BY Zenon DEF Job
<1>3. \A s \in Steps : [j EXCEPT !.step = s] \in Job
  BY Zenon DEF Job
<1>4. \A s \in Steps, a \in BOOLEAN : [j EXCEPT !.step = s, !.full = a] \in Job
  BY Zenon DEF Job
<1>5. \A s \in Steps, n \in Int : [j EXCEPT !.step = s, !.since = n] \in Job
  BY Zenon DEF Job
<1>6. \A s \in Steps, a \in BOOLEAN : [j EXCEPT !.alone = a, !.step = s] \in Job
  BY Zenon DEF Job
<1>7. \A s \in Steps, k \in Tables : [j EXCEPT !.step = s, !.table = k] \in Job
  BY Zenon DEF Job
<1>8. \A s \in Steps, b \in Bag : [j EXCEPT !.step = s, !.rows = b] \in Job
  BY Zenon DEF Job
<1>9. \A s \in Steps, t \in 0..MaxTime, S \in SUBSET Event : [j EXCEPT !.step = s, !.opened = t, !.seen = S] \in Job
  BY Zenon DEF Job
<1>10. \A s \in Steps, b \in Bag, k \in Tables : [j EXCEPT !.step = s, !.rows = b, !.table = k] \in Job
  BY Zenon DEF Job
<1> QED
  BY <1>1, <1>2, <1>3, <1>4, <1>5, <1>6, <1>7, <1>8, <1>9, <1>10

\* A refresh changes its own job to a job of the right type; in Begin the others
\* change too.
LEMMA JobTyped ==
    ASSUME TypeOK, NEW r \in Run, NEW j \in Job, job' = [job EXCEPT ![r] = j]
    PROVE  job' \in [Run -> Job]
  BY DEF TypeOK

LEMMA BeginTyped ==
    ASSUME TypeOK, NEW r \in Run, NEW j \in Job, Begin(r, j)
    PROVE  TypeOK'
<1>1. \A q \in Run, b \in BOOLEAN : [job[q] EXCEPT !.alone = b] \in Job /\ [j EXCEPT !.alone = b] \in Job
  BY DEF TypeOK, Job
<1>2. job' \in [Run -> Job]
  BY <1>1 DEF Begin
<1> QED
  BY <1>2 DEF Begin, TypeOK, mongo, tables

LEMMA TypeStep == TypeOK /\ [Next]_vars => TypeOK'
<1> SUFFICES ASSUME TypeOK, [Next]_vars PROVE TypeOK'
  OBVIOUS
<1>1. ASSUME NEW e \in Event, Stamp(e) \/ Store(e) PROVE TypeOK'
  BY <1>1 DEF Stamp, Store, TypeOK, tables
<1>2. CASE Tick
  BY <1>2 DEF Tick, TypeOK, tables
<1>3. ASSUME NEW r \in Run, StartBootstrap(r) PROVE TypeOK'
  <2>0. Idle(job[r].file) \in Job
    BY IdleTyped DEF TypeOK, Job
  <2>1. [Idle(job[r].file) EXCEPT !.step = "export", !.full = TRUE] \in Job
    BY <2>0, FieldsTyped DEF Steps
  <2> QED
    BY <1>3, <2>1, BeginTyped DEF StartBootstrap
<1>4. ASSUME NEW r \in Run, ReadWatermark(r) PROVE TypeOK'
  <2>0. Idle(job[r].file) \in Job
    BY IdleTyped DEF TypeOK, Job
  <2>1. PICK b \in In(bronze) :
           Begin(r, [Idle(job[r].file) EXCEPT !.step = "export",
                                             !.since = ingested_at[b] - Overlap])
    BY <1>4 DEF ReadWatermark
  <2>2. ingested_at[b] - Overlap \in Int
    BY DEF In, TypeOK
  <2>3. [Idle(job[r].file) EXCEPT !.step = "export", !.since = ingested_at[b] - Overlap] \in Job
    BY <2>0, <2>2, FieldsTyped DEF Steps
  <2> QED
    BY <2>1, <2>3, BeginTyped
<1>5. ASSUME NEW r \in Run, Reapply(r) PROVE TypeOK'
  <2>0. Idle(job[r].file) \in Job
    BY IdleTyped DEF TypeOK, Job
  <2>1. [Idle(job[r].file) EXCEPT !.step = "bronze"] \in Job
    BY <2>0, FieldsTyped DEF Steps
  <2> QED
    BY <1>5, <2>1, BeginTyped DEF Reapply
<1>6. ASSUME NEW r \in Run, OpenExport(r) PROVE TypeOK'
  <2>1. job' \in [Run -> Job]
    <3>1. job[r] \in Job /\ "exporting" \in Steps /\ clock \in 0..MaxTime /\ raw \in SUBSET Event
      BY DEF TypeOK, Steps
    <3>2. [job[r] EXCEPT !.step = "exporting", !.opened = clock, !.seen = raw] \in Job
      BY <3>1, FieldsTyped
    <3>3. job' = [job EXCEPT ![r] = [job[r] EXCEPT !.step = "exporting", !.opened = clock, !.seen = raw]]
      BY <1>6 DEF OpenExport, TypeOK
    <3> QED
      BY <3>2, <3>3, JobTyped
  <2> QED
    BY <1>6, <2>1 DEF OpenExport, TypeOK, mongo, tables
<1>7. ASSUME NEW r \in Run, CloseExport(r) PROVE TypeOK'
  <2>1. PICK late \in SUBSET (raw \ job[r].seen) :
           LET file == {e \in job[r].seen \union late :
                          job[r].full \/ ingested_at[e] > job[r].since}
           IN job' = [job EXCEPT ![r] =
                        IF file = {} THEN Idle(job[r].file)
                        ELSE [Idle(file) EXCEPT !.alone = job[r].alone,
                                !.step = IF job[r].full THEN "boot" ELSE "bronze"]]
    BY <1>7 DEF CloseExport
  <2> DEFINE file == {e \in job[r].seen \union late :
                        job[r].full \/ ingested_at[e] > job[r].since}
  <2>2. file \in SUBSET Event /\ job[r] \in Job
    BY DEF TypeOK, Job
  <2>3. Idle(file) \in Job /\ Idle(job[r].file) \in Job
    BY <2>2, IdleTyped DEF Job
  <2> HIDE DEF file
  <2>4. [Idle(file) EXCEPT !.alone = job[r].alone,
                           !.step = IF job[r].full THEN "boot" ELSE "bronze"] \in Job
    <3>1. (IF job[r].full THEN "boot" ELSE "bronze") \in Steps /\ job[r].alone \in BOOLEAN
      BY <2>2 DEF Steps, Job
    <3> QED
      BY <2>3, <3>1, FieldsTyped
  <2>5. job' \in [Run -> Job]
    BY <2>1, <2>3, <2>4, JobTyped DEF file
  <2> QED
    BY <1>7, <2>5 DEF CloseExport, TypeOK, mongo, tables
<1>8. ASSUME NEW r \in Run, BootBronze(r) PROVE TypeOK'
  <2>1. job' \in [Run -> Job]
    <3>1. job[r] \in Job /\ "create" \in Steps /\ 2 \in Tables
      BY DEF TypeOK, Steps, Tables
    <3>2. [job[r] EXCEPT !.step = "create", !.table = 2] \in Job
      BY <3>1, FieldsTyped
    <3>3. job' = [job EXCEPT ![r] = [job[r] EXCEPT !.step = "create", !.table = 2]]
      BY <1>8 DEF BootBronze, TypeOK
    <3> QED
      BY <3>2, <3>3, JobTyped
  <2> QED
    BY <1>8, <2>1, RowsTyped DEF BootBronze, TypeOK, mongo
<1>9. ASSUME NEW r \in Run, BootTable(r) PROVE TypeOK'
  <2>1. job[r] \in Job /\ job[r].table \in Tables
    BY DEF TypeOK, Job
  <2>2. job[r].table # 6 => [job[r] EXCEPT !.table = job[r].table + 1] \in Job
    <3>1. job[r].table # 6 => job[r].table + 1 \in Tables
      BY <2>1 DEF Tables
    <3> QED
      BY <2>1, <3>1, FieldsTyped
  <2>3. Idle(job[r].file) \in Job
    BY <2>1, IdleTyped DEF Job
  <2>4. job' \in [Run -> Job]
    BY <1>9, <2>2, <2>3, JobTyped DEF BootTable
  <2>5. silver' \in Bag /\ rejected' \in Bag
    BY <1>9, RowsTyped, WithTyped DEF BootTable, TypeOK
  <2>6. gold' \in [GoldTables -> SUBSET Event]
    BY <1>9, <2>1 DEF BootTable, TypeOK, Job
  <2>7. created' \in 0..6
    BY <1>9, <2>1 DEF BootTable, Tables
  <2> QED
    BY <1>9, <2>4, <2>5, <2>6, <2>7 DEF BootTable, TypeOK, mongo
<1>10. ASSUME NEW r \in Run, PlanBronze(r) PROVE TypeOK'
  <2>1. job' \in [Run -> Job]
    <3> DEFINE unseen == {e \in job[r].file : bronze[e] = 0}
               to == IF unseen = {} THEN "silver" ELSE "append"
    <3>1. job[r] \in Job /\ Rows(unseen) \in Bag
      BY RowsTyped DEF TypeOK
    <3>2. to \in Steps
      BY DEF Steps
    <3>3. job' = [job EXCEPT ![r] = [job[r] EXCEPT !.step = to, !.rows = Rows(unseen)]]
      BY <1>10 DEF PlanBronze, TypeOK
    <3> HIDE DEF unseen, to
    <3>4. [job[r] EXCEPT !.step = to, !.rows = Rows(unseen)] \in Job
      BY <3>1, <3>2, FieldsTyped
    <3> QED
      BY <3>3, <3>4, JobTyped
  <2> QED
    BY <1>10, <2>1 DEF PlanBronze, TypeOK, mongo, tables
<1>11. ASSUME NEW r \in Run, AppendBronze(r) PROVE TypeOK'
  <2>1. job' \in [Run -> Job]
    <3>1. job[r] \in Job
      BY DEF TypeOK
    <3>2. [job[r] EXCEPT !.step = "silver", !.rows = None] \in Job
      BY <3>1, NoneTyped, FieldsTyped DEF Steps
    <3>3. job' = [job EXCEPT ![r] = [job[r] EXCEPT !.step = "silver", !.rows = None]]
      BY <1>11 DEF AppendBronze, TypeOK
    <3> QED
      BY <3>2, <3>3, JobTyped
  <2>2. bronze' \in Bag
    BY <1>11, PlusTyped DEF AppendBronze, TypeOK, Job
  <2> QED
    BY <1>11, <2>1, <2>2 DEF AppendBronze, TypeOK, mongo
<1>12. ASSUME NEW r \in Run, Classify(r) PROVE TypeOK'
  <2>1. [e \in Event |-> IF e \in In(silver) \union In(rejected) THEN 0 ELSE bronze[e]] \in Bag
    BY DEF TypeOK, Bag
  <2>2. job' \in [Run -> Job]
    <3>1. job[r] \in Job
      BY DEF TypeOK
    <3>2. [job[r] EXCEPT !.step = "accepted", !.rows = [e \in Event |-> IF e \in In(silver) \union In(rejected) THEN 0 ELSE bronze[e]]] \in Job
      BY <2>1, <3>1, FieldsTyped DEF Steps
    <3>3. job' = [job EXCEPT ![r] = [job[r] EXCEPT !.step = "accepted", !.rows = [e \in Event |-> IF e \in In(silver) \union In(rejected) THEN 0 ELSE bronze[e]]]]
      BY <1>12 DEF Classify, TypeOK
    <3> QED
      BY <3>2, <3>3, JobTyped
  <2> QED
    BY <1>12, <2>2 DEF Classify, TypeOK, mongo, tables
<1>13. ASSUME NEW r \in Run, AppendSilver(r) PROVE TypeOK'
  <2>1. job' \in [Run -> Job]
    <3>1. job[r] \in Job
      BY DEF TypeOK
    <3>2. [job[r] EXCEPT !.step = "rejected"] \in Job
      BY <3>1, FieldsTyped DEF Steps
    <3>3. job' = [job EXCEPT ![r] = [job[r] EXCEPT !.step = "rejected"]]
      BY <1>13 DEF AppendSilver, To, TypeOK
    <3> QED
      BY <3>2, <3>3, JobTyped
  <2>2. silver' \in Bag
    BY <1>13, PlusTyped, WithTyped DEF AppendSilver, TypeOK, Job
  <2> QED
    BY <1>13, <2>1, <2>2 DEF AppendSilver, TypeOK, mongo
<1>14. ASSUME NEW r \in Run, AppendRejected(r) PROVE TypeOK'
  <2>1. job' \in [Run -> Job]
    <3>1. job[r] \in Job /\ "gold" \in Steps /\ None \in Bag /\ 4 \in Tables
      BY NoneTyped DEF TypeOK, Steps, Tables
    <3>2. [job[r] EXCEPT !.step = "gold", !.rows = None, !.table = 4] \in Job
      BY <3>1, FieldsTyped
    <3>3. job' = [job EXCEPT ![r] = [job[r] EXCEPT !.step = "gold", !.rows = None, !.table = 4]]
      BY <1>14 DEF AppendRejected, TypeOK
    <3> QED
      BY <3>2, <3>3, JobTyped
  <2>2. rejected' \in Bag
    BY <1>14, PlusTyped, WithTyped DEF AppendRejected, TypeOK, Job
  <2> QED
    BY <1>14, <2>1, <2>2 DEF AppendRejected, TypeOK, mongo
<1>15. ASSUME NEW r \in Run, ReadForGold(r) PROVE TypeOK'
  <2>1. job' \in [Run -> Job]
    <3> DEFINE rows == Rows(IF job[r].table = 6 THEN In(silver) \union In(rejected)
                                                ELSE In(silver))
    <3>1. job[r] \in Job /\ rows \in Bag
      BY RowsTyped DEF TypeOK
    <3>2. job' = [job EXCEPT ![r] = [job[r] EXCEPT !.step = "overwrite", !.rows = rows]]
      BY <1>15 DEF ReadForGold, TypeOK
    <3> HIDE DEF rows
    <3>3. [job[r] EXCEPT !.step = "overwrite", !.rows = rows] \in Job
      BY <3>1, FieldsTyped DEF Steps
    <3> QED
      BY <3>2, <3>3, JobTyped
  <2> QED
    BY <1>15, <2>1 DEF ReadForGold, TypeOK, mongo, tables
<1>16. ASSUME NEW r \in Run, OverwriteOrCreate(r) PROVE TypeOK'
  <2>1. job[r].table \in Tables
    BY DEF TypeOK, Job
  <2>2. job' \in [Run -> Job]
    <3> DEFINE k == job[r].table
               to == IF k = 6 THEN "report" ELSE "gold"
               then == IF k = 6 THEN 6 ELSE k + 1
    <3>1. job[r] \in Job /\ None \in Bag
      BY NoneTyped DEF TypeOK
    <3>2. to \in Steps /\ then \in Tables
      BY <2>1 DEF Steps, Tables
    <3>3. job' = [job EXCEPT ![r] = [job[r] EXCEPT !.step = to, !.rows = None, !.table = then]]
      BY <1>16 DEF OverwriteOrCreate, TypeOK
    <3> HIDE DEF k, to, then
    <3>4. [job[r] EXCEPT !.step = to, !.rows = None, !.table = then] \in Job
      BY <3>1, <3>2, FieldsTyped
    <3> QED
      BY <3>3, <3>4, JobTyped
  <2>3. created' \in 0..6
    BY <1>16, <2>1 DEF OverwriteOrCreate, TypeOK, Tables
  <2>4. gold' \in [GoldTables -> SUBSET Event]
    BY <1>16 DEF OverwriteOrCreate, TypeOK, In
  <2> QED
    BY <1>16, <2>2, <2>3, <2>4 DEF OverwriteOrCreate, TypeOK, mongo
<1>17. ASSUME NEW r \in Run, Report(r) \/ Fail(r) PROVE TypeOK'
  <2>1. Idle(job[r].file) \in Job
    BY IdleTyped DEF TypeOK, Job
  <2>2. job' \in [Run -> Job]
    BY <1>17, <2>1, JobTyped DEF Report, Fail
  <2> QED
    BY <1>17, <2>2 DEF Report, Fail, TypeOK, mongo, tables
<1>18. CASE UNCHANGED vars
  BY <1>18 DEF vars, TypeOK
<1> QED
  BY <1>1, <1>2, <1>3, <1>4, <1>5, <1>6, <1>7, <1>8, <1>9, <1>10, <1>11, <1>12, <1>13,
     <1>14, <1>15, <1>16, <1>17, <1>18 DEF Next, Refresh

LEMMA TypeInit == Init => TypeOK
<1> SUFFICES ASSUME Init PROVE TypeOK
  OBVIOUS
<1>1. job \in [Run -> Job]
  BY IdleTyped DEF Init
<1> QED
  BY <1>1, NoneTyped DEF Init, TypeOK

\* Every variable keeps its type, whatever fails and however refreshes overlap.
THEOREM TypeCorrect == Spec => []TypeOK
  BY TypeInit, TypeStep, PTL DEF Spec

-----------------------------------------------------------------------------
(* Bags.                                                                   *)

LEMMA InNone == In(None) = {}
  BY DEF In, None

LEMMA InRows == \A S \in SUBSET Event : In(Rows(S)) = S
  BY DEF In, Rows

LEMMA InPlus == \A t, u \in Bag : In(Plus(t, u)) = In(t) \union In(u)
  BY DEF In, Plus, Bag

LEMMA InWith == \A t \in Bag : /\ In(With(t, "accepted")) = In(t) \cap Sound
                               /\ In(With(t, "rejected")) = In(t) \ Sound
  BY DEF In, With, QualityStatus, Bag

-----------------------------------------------------------------------------
(* Silver and Rejected.                                                    *)

Sorted == In(silver) \subseteq Sound /\ In(rejected) \cap Sound = {}

\* Only three actions write to these tables, and each writes what belongs there.
LEMMA SortedStep == TypeOK /\ Sorted /\ [Next]_vars => Sorted'
<1> SUFFICES ASSUME TypeOK, Sorted, [Next]_vars PROVE Sorted'
  OBVIOUS
<1>1. CASE UNCHANGED <<silver, rejected>>
  BY <1>1 DEF Sorted, In
<1>2. ASSUME NEW r \in Run, BootTable(r) PROVE Sorted'
  <2>1. Rows(job[r].file) \in Bag
    BY RowsTyped
  <2> QED
    BY <1>1, <1>2, <2>1, InWith DEF BootTable, Sorted, In
<1>3. ASSUME NEW r \in Run, AppendSilver(r) PROVE Sorted'
  <2>1. job[r].rows \in Bag /\ With(job[r].rows, "accepted") \in Bag
    BY WithTyped DEF TypeOK, Job
  <2>2. In(silver') = In(silver) \union (In(job[r].rows) \cap Sound)
    BY <1>3, <2>1, InPlus, InWith DEF AppendSilver, TypeOK
  <2> QED
    BY <1>3, <2>2 DEF AppendSilver, Sorted, In
<1>4. ASSUME NEW r \in Run, AppendRejected(r) PROVE Sorted'
  <2>1. job[r].rows \in Bag /\ With(job[r].rows, "rejected") \in Bag
    BY WithTyped DEF TypeOK, Job
  <2>2. In(rejected') = In(rejected) \union (In(job[r].rows) \ Sound)
    BY <1>4, <2>1, InPlus, InWith DEF AppendRejected, TypeOK
  <2> QED
    BY <1>4, <2>2 DEF AppendRejected, Sorted, In
<1>5. \/ UNCHANGED <<silver, rejected>>
      \/ \E r \in Run : BootTable(r) \/ AppendSilver(r) \/ AppendRejected(r)
  BY ZenonT(30) DEF Next, Refresh, vars, Stamp, Store, Tick, StartBootstrap, ReadWatermark,
     Reapply, Begin, OpenExport, CloseExport, BootBronze, PlanBronze, AppendBronze, Classify, ReadForGold,
     OverwriteOrCreate, Report, Fail, tables
<1> QED
  BY <1>1, <1>2, <1>3, <1>4, <1>5

\* Silver and Rejected never share an event, however refreshes overlap and fail, so
\* iceberg_silver_refresh never refuses to go on.
THEOREM AlwaysApart == Spec => []ClassifiedApart
<1>1. Init => Sorted
  BY InNone DEF Init, Sorted
<1>2. Sorted => ClassifiedApart
  BY DEF Sorted, ClassifiedApart
<1> QED
  BY <1>1, <1>2, TypeCorrect, SortedStep, PTL DEF Spec

-----------------------------------------------------------------------------
(* The watermark.                                                          *)

\* e was stamped at least an overlap before b.
Behind(e, b) == ingested_at[e] + Overlap <= ingested_at[b]

\* An event waits for MongoDB no longer than MaxLag.
Clocks ==
    \A e \in Event : /\ ingested_at[e] <= clock
                     /\ e \in raw => ingested_at[e] > 0
                     /\ e \notin raw /\ ingested_at[e] > 0 => clock <= ingested_at[e] + MaxLag

\* Bronze has no gap that is wider than the overlap.
BronzeOK ==
    /\ In(bronze) \subseteq raw
    /\ created = 0 => In(bronze) = {}
    /\ \A e \in raw, b \in In(bronze) : Behind(e, b) => e \in In(bronze)

\* What refresh r may rely on: its export file has no such gap either, given what
\* Bronze already holds.
RunOK(r) ==
    /\ job[r].file \subseteq raw
    /\ \A e \in raw, b \in job[r].file : Behind(e, b) => e \in job[r].file \union In(bronze)
    /\ job[r].step = "exporting" =>
          /\ job[r].opened <= clock /\ clock <= job[r].opened + MaxExport
          /\ job[r].seen \subseteq raw
          /\ \A e \in raw \ job[r].seen : job[r].opened <= ingested_at[e] + MaxLag
    /\ job[r].step \in {"export", "exporting"} /\ ~job[r].full =>
          /\ created >= 1
          /\ job[r].since + Overlap <= clock
          /\ \A e \in raw : ingested_at[e] <= job[r].since => e \in In(bronze)
    /\ job[r].step \in {"bronze", "append"} => created >= 1
    /\ job[r].step = "append" =>
          /\ In(job[r].rows) \subseteq job[r].file
          /\ job[r].file \subseteq In(job[r].rows) \union In(bronze)

DelayInv == Clocks /\ BronzeOK /\ \A r \in Run : RunOK(r)

\* A refresh that does not move keeps its guarantees while Bronze only grows.
Still(q) ==
    /\ job'[q].step = job[q].step /\ job'[q].full = job[q].full
    /\ job'[q].since = job[q].since /\ job'[q].opened = job[q].opened
    /\ job'[q].seen = job[q].seen /\ job'[q].file = job[q].file /\ job'[q].rows = job[q].rows

LEMMA StillOK ==
    ASSUME TypeOK, NEW q \in Run, RunOK(q), Still(q), UNCHANGED mongo,
           In(bronze) \subseteq In(bronze'), created <= created', created' \in Nat
    PROVE  RunOK(q)'
  BY DEF RunOK, Still, mongo, Behind, TypeOK, In, Job

\* A refresh that only moves on, without touching Bronze.
LEMMA MovesOn ==
    ASSUME TypeOK, DelayInv, NEW r \in Run, UNCHANGED <<mongo, bronze>>,
           created <= created', created' \in Nat,
           \A q \in Run \ {r} : job'[q] = job[q], RunOK(r)'
    PROVE  DelayInv'
<1>1. Clocks'
  BY DEF DelayInv, Clocks, mongo
<1>2. BronzeOK'
  BY DEF DelayInv, BronzeOK, Behind, In, mongo, TypeOK
<1>3. ASSUME NEW q \in Run, q # r PROVE RunOK(q)'
  BY <1>3, StillOK DEF DelayInv, Still
<1> QED
  BY <1>1, <1>2, <1>3 DEF DelayInv

\* Other refreshes do not notice that r begins.
LEMMA BeginsOK ==
    ASSUME TypeOK, DelayInv, NEW r \in Run, NEW j, Begin(r, j), RunOK(r)'
    PROVE  DelayInv'
<1>1. UNCHANGED <<mongo, bronze, created>>
  BY DEF Begin, tables
<1>2. ASSUME NEW q \in Run, q # r PROVE Still(q)
  <2>1. job'[q] = [job[q] EXCEPT !.alone = FALSE]
    BY <1>2 DEF Begin
  <2>2. job[q] \in Job
    BY DEF TypeOK
  <2> QED
    BY <2>1, <2>2 DEF Still, Job
<1>3. ASSUME NEW q \in Run, q # r PROVE RunOK(q)'
  BY <1>1, <1>2, <1>3, StillOK DEF DelayInv, TypeOK
<1>4. Clocks'
  BY <1>1 DEF DelayInv, Clocks, mongo
<1>5. BronzeOK'
  BY <1>1 DEF DelayInv, BronzeOK, Behind, In, mongo, TypeOK
<1> QED
  BY <1>3, <1>4, <1>5 DEF DelayInv

\* A refresh that is idle, or as good as idle for RunOK, needs only its file.
LEMMA RestsOK ==
    ASSUME TypeOK, DelayInv, NEW r \in Run, UNCHANGED mongo, In(bronze) \subseteq In(bronze'),
           job'[r].file = job[r].file,
           job'[r].step \notin {"export", "exporting", "bronze", "append"}
    PROVE  RunOK(r)'
  BY DEF DelayInv, RunOK, mongo, Behind, TypeOK, In

LEMMA EnvironmentStep ==
    ASSUME MaxLag + MaxExport < Overlap, TypeOK, DelayInv,
           Tick \/ \E e \in Event : Stamp(e) \/ Store(e)
    PROVE  DelayInv'
<1>1. ASSUME NEW e \in Event, Stamp(e) PROVE DelayInv'
  <2>1. e \notin raw /\ ingested_at' = [ingested_at EXCEPT ![e] = clock]
    BY <1>1 DEF Stamp, DelayInv, Clocks
  <2>2. UNCHANGED <<clock, raw, bronze, created, job>>
    BY <1>1 DEF Stamp, tables
  <2>3. \A d \in raw : ingested_at'[d] = ingested_at[d]
    BY <2>1 DEF TypeOK
  <2>4. Clocks'
    BY <2>1, <2>2, <2>3 DEF DelayInv, Clocks, TypeOK
  <2>5. BronzeOK'
    BY <2>2, <2>3 DEF DelayInv, BronzeOK, Behind, In
  <2>6. ASSUME NEW q \in Run PROVE RunOK(q)'
    BY <2>2, <2>3 DEF DelayInv, RunOK, Behind, In
  <2> QED
    BY <2>4, <2>5, <2>6 DEF DelayInv
<1>2. ASSUME NEW e \in Event, Store(e) PROVE DelayInv'
  <2>1. /\ e \notin raw /\ raw' = raw \union {e}
        /\ UNCHANGED <<clock, ingested_at, bronze, created, job>>
    BY <1>2 DEF Store, tables
  <2>2. ingested_at[e] > 0 /\ clock <= ingested_at[e] + MaxLag
    BY <1>2, <2>1 DEF Store, DelayInv, Clocks
  \* The new event is too young to be behind anything.
  <2>3. \A b \in Event : ~Behind(e, b)
    <3>1. ASSUME NEW b \in Event PROVE ingested_at[b] < ingested_at[e] + Overlap
      BY <2>2 DEF DelayInv, Clocks, TypeOK
    <3> QED
      BY <3>1 DEF Behind, TypeOK
  <2>4. Clocks'
    BY <2>1, <2>2 DEF DelayInv, Clocks
  <2>5. BronzeOK'
    BY <2>1, <2>3 DEF DelayInv, BronzeOK, Behind, In, TypeOK
  <2>6. ASSUME NEW q \in Run PROVE RunOK(q)'
    <3>1. job[q] \in Job
      BY DEF TypeOK
    <3>2. job[q].step = "exporting" => job[q].opened <= ingested_at[e] + MaxLag
      BY <2>2, <3>1 DEF DelayInv, RunOK, TypeOK, Job
    <3>3. job[q].step \in {"export", "exporting"} /\ ~job[q].full =>
             ingested_at[e] > job[q].since
      BY <2>2, <3>1 DEF DelayInv, RunOK, TypeOK, Job
    <3> QED
      BY <2>1, <2>3, <3>1, <3>2, <3>3 DEF DelayInv, RunOK, Behind, In, TypeOK, Job
  <2> QED
    BY <2>4, <2>5, <2>6 DEF DelayInv
<1>3. CASE Tick
  <2>1. clock' = clock + 1 /\ UNCHANGED <<ingested_at, raw, bronze, created, job>>
    BY <1>3 DEF Tick, tables
  <2>2. Clocks'
    BY <1>3, <2>1 DEF Tick, DelayInv, Clocks, TypeOK
  <2>3. BronzeOK'
    BY <2>1 DEF DelayInv, BronzeOK, Behind, In
  <2>4. ASSUME NEW q \in Run PROVE RunOK(q)'
    <3>1. job[q] \in Job
      BY DEF TypeOK
    <3>2. job[q].step = "exporting" => clock < job[q].opened + MaxExport
      BY <1>3 DEF Tick
    <3> QED
      BY <2>1, <3>1, <3>2 DEF DelayInv, RunOK, Behind, In, TypeOK, Job
  <2> QED
    BY <2>2, <2>3, <2>4 DEF DelayInv
<1> QED
  BY <1>1, <1>2, <1>3

\* What an export returns has no gap: an event it misses was asked for neither, or is
\* too young to be behind one it returns.
LEMMA CloseStep ==
    ASSUME MaxLag + MaxExport < Overlap, TypeOK, DelayInv, NEW r \in Run, CloseExport(r)
    PROVE  DelayInv'
<1> DEFINE j == job[r]
           File(late) == {e \in j.seen \union late : j.full \/ ingested_at[e] > j.since}
<1>1. PICK late \in SUBSET (raw \ j.seen) :
         job' = [job EXCEPT ![r] =
                   IF File(late) = {} THEN Idle(j.file)
                   ELSE [Idle(File(late)) EXCEPT !.alone = j.alone,
                           !.step = IF j.full THEN "boot" ELSE "bronze"]]
  BY DEF CloseExport
<1>2. UNCHANGED <<mongo, bronze, created>> /\ j.step = "exporting" /\ j \in Job
  BY DEF CloseExport, tables, TypeOK
<1>3. \A q \in Run \ {r} : job'[q] = job[q]
  BY <1>1 DEF TypeOK
<1>4. CASE File(late) = {}
  <2>1. job'[r] = Idle(j.file)
    BY <1>1, <1>4 DEF TypeOK
  <2>2. job'[r].file = job[r].file /\ job'[r].step = "idle"
    BY <2>1 DEF Idle
  <2>3. RunOK(r)'
    BY <1>2, <2>2, RestsOK
  <2> QED
    BY <1>2, <1>3, <2>3, MovesOn DEF TypeOK
<1>5. CASE File(late) # {}
  <2>1. /\ job'[r].file = File(late)
        /\ job'[r].step = IF j.full THEN "boot" ELSE "bronze"
    BY <1>1, <1>5 DEF TypeOK, Idle
  <2>2. File(late) \subseteq raw
    BY <1>2 DEF DelayInv, RunOK
  <2>3. ~j.full => created >= 1
    BY <1>2 DEF DelayInv, RunOK
  <2>4. ASSUME NEW e \in raw, NEW b \in File(late), Behind(e, b)
        PROVE  e \in File(late) \union In(bronze)
    <3>1. ingested_at[b] <= clock
      BY <2>2 DEF DelayInv, Clocks, TypeOK
    <3>2. e \in j.seen
      BY <1>2, <2>4, <3>1 DEF DelayInv, RunOK, Behind, TypeOK, Job
    <3>3. ~j.full /\ ~(ingested_at[e] > j.since) => e \in In(bronze)
      BY <1>2 DEF DelayInv, RunOK, TypeOK, Job
    <3> QED
      BY <3>2, <3>3
  <2> HIDE DEF File
  <2>5. RunOK(r)'
    BY <1>2, <2>1, <2>2, <2>3, <2>4 DEF RunOK, Behind, mongo, In
  <2> QED
    BY <1>2, <1>3, <2>5, MovesOn DEF TypeOK
<1> QED
  BY <1>4, <1>5

LEMMA DelayStep ==
    ASSUME MaxLag + MaxExport < Overlap
    PROVE  TypeOK /\ DelayInv /\ [Next]_vars => DelayInv'
<1> SUFFICES ASSUME TypeOK, DelayInv, [Next]_vars PROVE DelayInv'
  OBVIOUS
<1>1. CASE Tick \/ \E e \in Event : Stamp(e) \/ Store(e)
  BY <1>1, EnvironmentStep
<1>2. ASSUME NEW r \in Run, StartBootstrap(r) PROVE DelayInv'
  <2> DEFINE new == [Idle(job[r].file) EXCEPT !.step = "export", !.full = TRUE]
  <2>1. Begin(r, new)
    BY <1>2 DEF StartBootstrap
  <2>2. UNCHANGED <<mongo, bronze, created>>
    BY <2>1 DEF Begin, tables
  <2>3. job'[r].step = "export" /\ job'[r].full /\ job'[r].file = job[r].file
    BY <2>1 DEF Begin, TypeOK, Idle
  <2>4. RunOK(r)'
    BY <2>2, <2>3 DEF DelayInv, RunOK, mongo, Behind, In
  <2> QED
    BY <2>1, <2>4, BeginsOK
<1>3. ASSUME NEW r \in Run, ReadWatermark(r) PROVE DelayInv'
  <2>1. PICK b \in In(bronze) :
           Begin(r, [Idle(job[r].file) EXCEPT !.step = "export",
                                             !.since = ingested_at[b] - Overlap])
    BY <1>3 DEF ReadWatermark
  <2>2. UNCHANGED <<mongo, bronze, created>>
    BY <2>1 DEF Begin, tables
  <2>3. /\ job'[r].step = "export" /\ ~job'[r].full /\ job'[r].file = job[r].file
        /\ job'[r].since = ingested_at[b] - Overlap
    BY <2>1 DEF Begin, TypeOK, Idle
  <2>4. b \in Event /\ ingested_at[b] <= clock /\ created >= 1
    BY DEF DelayInv, BronzeOK, Clocks, In, TypeOK
  <2>5. ASSUME NEW e \in raw, ingested_at[e] <= ingested_at[b] - Overlap
        PROVE  e \in In(bronze)
    <3>1. Behind(e, b)
      BY <2>4, <2>5 DEF Behind, TypeOK
    <3> QED
      BY <3>1 DEF DelayInv, BronzeOK
  <2>6. RunOK(r)'
    BY <2>2, <2>3, <2>4, <2>5 DEF DelayInv, RunOK, mongo, Behind, In, TypeOK
  <2> QED
    BY <2>1, <2>6, BeginsOK
<1>4. ASSUME NEW r \in Run, Reapply(r) PROVE DelayInv'
  <2>1. Begin(r, [Idle(job[r].file) EXCEPT !.step = "bronze"]) /\ created >= 1
    BY <1>4 DEF Reapply
  <2>2. UNCHANGED <<mongo, bronze, created>>
    BY <2>1 DEF Begin, tables
  <2>3. job'[r].step = "bronze" /\ job'[r].file = job[r].file
    BY <2>1 DEF Begin, TypeOK, Idle
  <2>4. RunOK(r)'
    BY <2>1, <2>2, <2>3 DEF DelayInv, RunOK, mongo, Behind, In
  <2> QED
    BY <2>1, <2>4, BeginsOK
<1>5. ASSUME NEW r \in Run, OpenExport(r) PROVE DelayInv'
  <2>1. UNCHANGED <<mongo, bronze, created>> /\ job[r].step = "export" /\ job[r] \in Job
    BY <1>5 DEF OpenExport, tables, TypeOK
  <2>2. \A q \in Run \ {r} : job'[q] = job[q]
    BY <1>5 DEF OpenExport, TypeOK
  <2>3. /\ job'[r].step = "exporting" /\ job'[r].opened = clock /\ job'[r].seen = raw
        /\ job'[r].full = job[r].full /\ job'[r].since = job[r].since
        /\ job'[r].file = job[r].file
    BY <1>5, <2>1 DEF OpenExport, TypeOK, Job
  <2>4. RunOK(r)'
    BY <2>1, <2>3 DEF DelayInv, RunOK, mongo, Behind, In, TypeOK
  <2> QED
    BY <2>1, <2>2, <2>4, MovesOn DEF TypeOK
<1>6. ASSUME NEW r \in Run, CloseExport(r) PROVE DelayInv'
  BY <1>6, CloseStep
<1>7. ASSUME NEW r \in Run, BootBronze(r) PROVE DelayInv'
  <2>1. /\ UNCHANGED mongo /\ created = 0 /\ created' = 1 /\ bronze' = Rows(job[r].file)
        /\ job' = [job EXCEPT ![r].step = "create", ![r].table = 2]
    BY <1>7 DEF BootBronze
  <2>2. In(bronze) = {} /\ In(bronze') = job[r].file /\ job[r] \in Job
    <3>1. job[r].file \in SUBSET Event /\ job[r] \in Job
      BY DEF TypeOK, Job
    <3>2. In(Rows(job[r].file)) = job[r].file
      BY <3>1, InRows
    <3> QED
      BY <2>1, <3>1, <3>2 DEF DelayInv, BronzeOK
  <2>3. \A q \in Run \ {r} : job'[q] = job[q]
    BY <2>1 DEF TypeOK
  <2>4. Clocks'
    BY <2>1 DEF DelayInv, Clocks, mongo
  <2>5. BronzeOK'
    BY <2>1, <2>2 DEF DelayInv, BronzeOK, RunOK, mongo, Behind
  <2>6. job'[r].step = "create" /\ job'[r].file = job[r].file
    BY <2>1, <2>2 DEF TypeOK, Job
  <2>7. RunOK(r)'
    BY <2>1, <2>2, <2>6, RestsOK
  <2>8. ASSUME NEW q \in Run, q # r PROVE RunOK(q)'
    <3>1. RunOK(q) /\ Still(q)
      BY <2>3, <2>8 DEF DelayInv, Still
    <3>2. In(bronze) \subseteq In(bronze') /\ created <= created' /\ created' \in Nat
      BY <2>1, <2>2
    <3> QED
      BY <2>1, <3>1, <3>2, StillOK
  <2> QED
    BY <2>4, <2>5, <2>7, <2>8 DEF DelayInv
<1>8. ASSUME NEW r \in Run, PlanBronze(r) PROVE DelayInv'
  <2> DEFINE unseen == {e \in job[r].file : bronze[e] = 0}
  <2>1. UNCHANGED <<mongo, bronze, created>> /\ job[r].step = "bronze" /\ job[r] \in Job
    BY <1>8 DEF PlanBronze, tables, TypeOK
  <2>2. \A q \in Run \ {r} : job'[q] = job[q]
    BY <1>8 DEF PlanBronze, TypeOK
  <2>3. /\ job'[r].step \in {"silver", "append"} /\ job'[r].file = job[r].file
        /\ job'[r].rows = Rows(unseen)
    BY <1>8, <2>1 DEF PlanBronze, TypeOK, Job
  <2>4. In(job'[r].rows) = unseen
    <3>1. unseen \in SUBSET Event
      BY <2>1 DEF Job
    <3> QED
      BY <2>3, <3>1, InRows
  <2>5. job[r].file \subseteq unseen \union In(bronze)
    BY <2>1 DEF In, TypeOK, Bag, Job
  <2>6. RunOK(r)'
    BY <2>1, <2>3, <2>4, <2>5 DEF DelayInv, RunOK, mongo, Behind, In
  <2> QED
    BY <2>1, <2>2, <2>6, MovesOn DEF TypeOK
<1>9. ASSUME NEW r \in Run, AppendBronze(r) PROVE DelayInv'
  <2>1. /\ UNCHANGED <<mongo, created>> /\ bronze' = Plus(bronze, job[r].rows)
        /\ job[r].step = "append" /\ job[r] \in Job
    BY <1>9 DEF AppendBronze, TypeOK
  <2>2. In(bronze') = In(bronze) \union In(job[r].rows)
    BY <2>1, InPlus DEF TypeOK, Job
  <2>3. /\ In(job[r].rows) \subseteq job[r].file /\ job[r].file \subseteq In(bronze')
        /\ created >= 1
    BY <2>1, <2>2 DEF DelayInv, RunOK
  <2>4. Clocks'
    BY <2>1 DEF DelayInv, Clocks, mongo
  <2>5. BronzeOK'
    BY <2>1, <2>2, <2>3 DEF DelayInv, BronzeOK, RunOK, mongo, Behind, TypeOK
  <2>6. job'[r].step = "silver" /\ job'[r].file = job[r].file
    BY <1>9, <2>1 DEF AppendBronze, TypeOK, Job
  <2>7. RunOK(r)'
    BY <2>1, <2>2, <2>6, RestsOK
  <2>8. \A q \in Run \ {r} : job'[q] = job[q]
    BY <1>9 DEF AppendBronze, TypeOK
  <2>9. ASSUME NEW q \in Run, q # r PROVE RunOK(q)'
    BY <2>1, <2>2, <2>8, <2>9, StillOK DEF DelayInv, Still, TypeOK
  <2> QED
    BY <2>4, <2>5, <2>7, <2>9 DEF DelayInv
\* The steps after Bronze, and every end of a refresh.
<1>10. ASSUME NEW r \in Run, UNCHANGED <<mongo, bronze>>, created <= created', created' \in Nat,
              \A q \in Run \ {r} : job'[q] = job[q], job'[r].file = job[r].file,
              job'[r].step \notin {"export", "exporting", "bronze", "append"}
       PROVE  DelayInv'
  <2>1. RunOK(r)'
    BY <1>10, RestsOK
  <2> QED
    BY <1>10, <2>1, MovesOn
<1>11. ASSUME NEW r \in Run, BootTable(r) PROVE DelayInv'
  <2>1. created' = created + 1 /\ UNCHANGED <<mongo, bronze>>
    BY <1>11 DEF BootTable, TypeOK, Job, Tables
  <2>2. job' = [job EXCEPT ![r] = IF job[r].table = 6 THEN Idle(job[r].file)
                                  ELSE [job[r] EXCEPT !.table = job[r].table + 1]]
    BY <1>11 DEF BootTable
  <2>3. job'[r].file = job[r].file /\ job'[r].step \in {"idle", "create"}
    BY <1>11, <2>2 DEF BootTable, TypeOK, Job, Idle
  <2> QED
    BY <1>10, <2>1, <2>2, <2>3 DEF TypeOK
<1>12. ASSUME NEW r \in Run,
              Classify(r) \/ AppendSilver(r) \/ AppendRejected(r) \/ ReadForGold(r)
                \/ Report(r) \/ Fail(r)
       PROVE  DelayInv'
  <2>1. UNCHANGED <<mongo, bronze, created>>
    BY <1>12 DEF Classify, AppendSilver, AppendRejected, ReadForGold, Report, Fail, tables
  <2>2. job[r] \in Job
    BY DEF TypeOK
  <2>3. job'[r].file = job[r].file /\ \A q \in Run \ {r} : job'[q] = job[q]
    BY <1>12, <2>2 DEF Classify, AppendSilver, AppendRejected, ReadForGold, Report, Fail, To,
       Idle, TypeOK, Job
  <2>4. job'[r].step \in {"accepted", "rejected", "gold", "overwrite", "idle"}
    BY <1>12, <2>2 DEF Classify, AppendSilver, AppendRejected, ReadForGold, Report, Fail, To,
       Idle, TypeOK, Job
  <2> QED
    BY <1>10, <2>1, <2>3, <2>4 DEF TypeOK
<1>13. ASSUME NEW r \in Run, OverwriteOrCreate(r) PROVE DelayInv'
  <2>1. job[r] \in Job /\ job[r].table \in Tables
    BY DEF TypeOK, Job
  <2>2. UNCHANGED <<mongo, bronze>> /\ created <= created' /\ created' \in Nat
    BY <1>13, <2>1 DEF OverwriteOrCreate, TypeOK, Tables
  <2>3. /\ job'[r].file = job[r].file /\ job'[r].step \in {"report", "gold"}
        /\ \A q \in Run \ {r} : job'[q] = job[q]
    BY <1>13, <2>1 DEF OverwriteOrCreate, TypeOK, Job
  <2> QED
    BY <1>10, <2>2, <2>3
<1>14. CASE UNCHANGED vars
  <2>1. UNCHANGED <<mongo, bronze, created, job>>
    BY <1>14 DEF vars, mongo
  <2>2. ASSUME NEW q \in Run PROVE RunOK(q)'
    BY <2>1, StillOK DEF DelayInv, Still, TypeOK
  <2>3. Clocks' /\ BronzeOK'
    BY <2>1 DEF DelayInv, Clocks, BronzeOK, Behind, In, mongo
  <2> QED
    BY <2>2, <2>3 DEF DelayInv
<1> QED
  BY <1>1, <1>2, <1>3, <1>4, <1>5, <1>6, <1>7, <1>8, <1>9, <1>11, <1>12, <1>13, <1>14
     DEF Next, Refresh

\* As long as the overlap is longer than the producer-to-MongoDB delay and the longest
\* export together, an incremental refresh asks for every event that Bronze lacks.
THEOREM NothingIsHidden ==
    MaxLag + MaxExport < Overlap => (Spec => []NothingBehindWatermark)
<1> SUFFICES ASSUME MaxLag + MaxExport < Overlap PROVE Spec => []NothingBehindWatermark
  OBVIOUS
<1>1. Init => DelayInv
  <2> SUFFICES ASSUME Init PROVE DelayInv
    OBVIOUS
  <2>1. \A r \in Run : job[r].file = {} /\ job[r].step = "idle"
    BY DEF Init, Idle
  <2> QED
    BY <2>1, InNone DEF Init, DelayInv, Clocks, BronzeOK, RunOK
<1>2. DelayInv => NothingBehindWatermark
  BY DEF DelayInv, RunOK, NothingBehindWatermark
<1>3. TypeOK /\ DelayInv /\ [Next]_vars => DelayInv'
  BY DelayStep
<1> QED
  BY <1>1, <1>2, <1>3, TypeCorrect, PTL DEF Spec

-----------------------------------------------------------------------------
(* Bronze is there before anything is appended to it.                      *)

NeedsBronze(r) ==
    \/ job[r].step \in {"export", "exporting"} /\ ~job[r].full
    \/ job[r].step \in {"bronze", "append"}

CreatedInv ==
    /\ created = 0 => In(bronze) = {}
    /\ \A r \in Run : NeedsBronze(r) => created >= 1

LEMMA CreatedStep == TypeOK /\ CreatedInv /\ [Next]_vars => CreatedInv'
<1> SUFFICES ASSUME TypeOK, CreatedInv, [Next]_vars PROVE CreatedInv'
  OBVIOUS
<1>1. CASE UNCHANGED <<bronze, created, job>>
  BY <1>1 DEF CreatedInv, NeedsBronze, In
\* A refresh that begins, and one that acts.
<1>2. ASSUME NEW r \in Run, UNCHANGED <<bronze, created>>, NeedsBronze(r)' => created >= 1,
             \A q \in Run \ {r} : job'[q] = [job[q] EXCEPT !.alone = FALSE]
      PROVE  CreatedInv'
  <2>1. ASSUME NEW q \in Run, q # r PROVE NeedsBronze(q)' <=> NeedsBronze(q)
    <3>1. job[q] \in Job /\ job'[q] = [job[q] EXCEPT !.alone = FALSE]
      BY <1>2, <2>1 DEF TypeOK
    <3>2. job'[q].step = job[q].step /\ job'[q].full = job[q].full
      BY <3>1 DEF Job
    <3> QED
      BY <3>2 DEF NeedsBronze
  <2> QED
    BY <1>2, <2>1 DEF CreatedInv, In
<1>3. ASSUME NEW r \in Run, created <= created', created' \in Nat,
             In(bronze') = In(bronze) \/ created' >= 1,
             NeedsBronze(r)' => created' >= 1, \A q \in Run \ {r} : job'[q] = job[q]
      PROVE  CreatedInv'
  <2>1. ASSUME NEW q \in Run, q # r, NeedsBronze(q)' PROVE created' >= 1
    <3>1. NeedsBronze(q)
      BY <1>3, <2>1 DEF NeedsBronze
    <3> QED
      BY <1>3, <3>1 DEF CreatedInv, TypeOK
  <2>2. created' = 0 => In(bronze') = {}
    BY <1>3 DEF CreatedInv, TypeOK
  <2> QED
    BY <1>3, <2>1, <2>2 DEF CreatedInv
<1>4. ASSUME NEW r \in Run, StartBootstrap(r) \/ ReadWatermark(r) \/ Reapply(r)
      PROVE  CreatedInv'
  <2>1. /\ UNCHANGED <<bronze, created>>
        /\ \A q \in Run \ {r} : job'[q] = [job[q] EXCEPT !.alone = FALSE]
    BY <1>4 DEF StartBootstrap, ReadWatermark, Reapply, Begin, TypeOK, tables
  <2>2. CASE StartBootstrap(r)
    <3>1. job'[r].step = "export" /\ job'[r].full
      BY <2>2 DEF StartBootstrap, Begin, Idle, TypeOK
    <3> QED
      BY <1>2, <2>1, <3>1 DEF NeedsBronze
  <2>3. CASE ReadWatermark(r)
    <3>1. In(bronze) # {}
      BY <2>3 DEF ReadWatermark
    <3> QED
      BY <1>2, <2>1, <3>1 DEF CreatedInv, TypeOK
  <2>4. CASE Reapply(r)
    BY <1>2, <2>1, <2>4 DEF Reapply
  <2> QED
    BY <1>4, <2>2, <2>3, <2>4
<1>5. ASSUME NEW r \in Run,
             OpenExport(r) \/ CloseExport(r) \/ PlanBronze(r) \/ AppendBronze(r)
      PROVE  CreatedInv'
  <2>1. /\ created' = created /\ created \in Nat /\ job[r] \in Job
        /\ job' = [job EXCEPT ![r] = job'[r]]
    <3>1. CASE OpenExport(r) \/ PlanBronze(r) \/ AppendBronze(r)
      BY <3>1 DEF OpenExport, PlanBronze, AppendBronze, tables, TypeOK
    <3>2. CASE CloseExport(r)
      BY <3>2 DEF CloseExport, tables, TypeOK
    <3> QED
      BY <1>5, <3>1, <3>2
  <2>2. bronze' = bronze \/ created >= 1
    BY <1>5 DEF OpenExport, CloseExport, PlanBronze, AppendBronze, tables, CreatedInv, NeedsBronze
  <2>3. CASE OpenExport(r)
    <3>1. NeedsBronze(r)' <=> NeedsBronze(r)
      BY <2>1, <2>3 DEF OpenExport, NeedsBronze, TypeOK, Job
    <3> QED
      BY <1>3, <2>1, <2>2, <3>1 DEF CreatedInv, In, TypeOK
  <2>4. CASE CloseExport(r)
    <3>1. job'[r].step \in {"idle", "boot"} \/ (job'[r].step = "bronze" /\ ~job[r].full)
      <4>1. PICK file : job' = [job EXCEPT ![r] =
                          IF file = {} THEN Idle(job[r].file)
                          ELSE [Idle(file) EXCEPT !.alone = job[r].alone,
                                  !.step = IF job[r].full THEN "boot" ELSE "bronze"]]
        BY <2>4 DEF CloseExport
      <4>2. \/ job'[r] = Idle(job[r].file)
            \/ job'[r] = [Idle(file) EXCEPT !.alone = job[r].alone,
                             !.step = IF job[r].full THEN "boot" ELSE "bronze"]
        BY <4>1 DEF TypeOK
      <4>3. CASE job'[r] = Idle(job[r].file)
        BY <4>3 DEF Idle
      <4>4. CASE job'[r] = [Idle(file) EXCEPT !.alone = job[r].alone,
                             !.step = IF job[r].full THEN "boot" ELSE "bronze"]
        <5>1. job'[r].step = IF job[r].full THEN "boot" ELSE "bronze"
          BY <4>4 DEF Idle
        <5> QED
          BY <5>1
      <4> QED
        BY <4>2, <4>3, <4>4
    <3>2. NeedsBronze(r)' => NeedsBronze(r)
      BY <2>4, <3>1 DEF CloseExport, NeedsBronze
    <3> QED
      BY <1>3, <2>1, <2>2, <3>2 DEF CreatedInv, In, TypeOK
  <2>5. CASE PlanBronze(r) \/ AppendBronze(r)
    <3>1. NeedsBronze(r)
      BY <2>5 DEF PlanBronze, AppendBronze, NeedsBronze
    <3> QED
      BY <1>3, <2>1, <2>2, <3>1 DEF CreatedInv, In, TypeOK
  <2> QED
    BY <1>5, <2>3, <2>4, <2>5
<1>6. ASSUME NEW r \in Run, BootBronze(r) PROVE CreatedInv'
  <2>1. created' = 1 /\ created = 0 /\ \A q \in Run \ {r} : job'[q] = job[q]
    BY <1>6 DEF BootBronze, TypeOK
  <2> QED
    BY <1>3, <2>1
<1>7. ASSUME NEW r \in Run,
             BootTable(r) \/ Classify(r) \/ AppendSilver(r) \/ AppendRejected(r)
               \/ ReadForGold(r) \/ OverwriteOrCreate(r) \/ Report(r) \/ Fail(r)
      PROVE  CreatedInv'
  <2>1. job[r] \in Job /\ job[r].table \in Tables
    BY DEF TypeOK, Job
  <2>2. created <= created' /\ created' \in Nat
    BY <1>7, <2>1 DEF BootTable, Classify, AppendSilver, AppendRejected, ReadForGold,
       OverwriteOrCreate, Report, Fail, tables, TypeOK, Tables
  <2>3. /\ bronze' = bronze
        /\ job' = [job EXCEPT ![r] = job'[r]]
    <3>1. CASE BootTable(r) \/ Report(r) \/ Fail(r)
      BY <3>1 DEF BootTable, Report, Fail, tables, TypeOK
    <3>2. CASE Classify(r) \/ AppendSilver(r) \/ AppendRejected(r)
      BY <3>2 DEF Classify, AppendSilver, AppendRejected, To, tables, TypeOK
    <3>3. CASE ReadForGold(r) \/ OverwriteOrCreate(r)
      BY <3>3 DEF ReadForGold, OverwriteOrCreate, tables, TypeOK
    <3> QED
      BY <1>7, <3>1, <3>2, <3>3
  <2>4. job'[r].step \in {"idle", "create", "accepted", "rejected", "gold", "overwrite", "report"}
    <3>1. CASE BootTable(r)
      BY <2>1, <3>1 DEF BootTable, Idle, TypeOK, Job
    <3>2. CASE Classify(r) \/ AppendSilver(r) \/ AppendRejected(r)
      BY <2>1, <3>2 DEF Classify, AppendSilver, AppendRejected, To, TypeOK, Job
    <3>3. CASE ReadForGold(r) \/ OverwriteOrCreate(r)
      BY <2>1, <3>3 DEF ReadForGold, OverwriteOrCreate, TypeOK, Job
    <3>4. CASE Report(r) \/ Fail(r)
      BY <3>4 DEF Report, Fail, Idle, TypeOK
    <3> QED
      BY <1>7, <3>1, <3>2, <3>3, <3>4
  <2> QED
    BY <1>3, <2>2, <2>3, <2>4 DEF NeedsBronze, In, TypeOK
<1>8. UNCHANGED <<bronze, created, job>> \/ \E r \in Run : Refresh(r)
  BY DEF Next, vars, Stamp, Store, Tick, tables
<1> QED
  BY <1>1, <1>4, <1>5, <1>6, <1>7, <1>8 DEF Refresh

-----------------------------------------------------------------------------
(* The report.                                                             *)

Classified == In(silver) \union In(rejected)

\* What Gold table k has to summarise.
Want(k) == IF k = 6 THEN In(bronze) ELSE In(bronze) \cap Sound

\* What holds of each refresh, however many run.
StepOK(r) ==
    /\ job[r].step = "create" => job[r].file \subseteq In(bronze)
    /\ job[r].step \in {"accepted", "rejected"} => In(job[r].rows) \subseteq In(bronze)
    /\ job[r].step \in {"gold", "overwrite"} => job[r].table \in GoldTables

\* What a refresh without company has achieved so far.
AloneOK(r) ==
    job[r].alone =>
        /\ \A q \in Run \ {r} : job[q].step = "idle"
        /\ job[r].step \in {"accepted", "rejected"} =>
              In(bronze) = Classified \union In(job[r].rows)
        /\ job[r].step = "rejected" => In(bronze) \cap Sound \subseteq In(silver)
        /\ job[r].step \in {"gold", "overwrite", "report"} => In(bronze) = Classified
        /\ job[r].step \in {"gold", "overwrite"} =>
              \A k \in GoldTables : k < job[r].table => gold[k] = Want(k)
        /\ job[r].step = "overwrite" => In(job[r].rows) = Want(job[r].table)
        /\ job[r].step = "report" => \A k \in GoldTables : gold[k] = Want(k)

ReportInv == Sorted /\ Classified \subseteq In(bronze) /\ \A r \in Run : StepOK(r) /\ AloneOK(r)

\* A refresh under way deprives every other one of its solitude.
LEMMA OthersOK ==
    ASSUME TypeOK, ReportInv, NEW r \in Run, job[r].step # "idle",
           \A q \in Run \ {r} : job'[q] = job[q], In(bronze) \subseteq In(bronze'),
           NEW q \in Run, q # r
    PROVE  StepOK(q)' /\ AloneOK(q)'
<1>1. ~job[q].alone
  BY DEF ReportInv, AloneOK
<1>2. ~job'[q].alone
  BY <1>1
<1>3. StepOK(q)'
  BY DEF ReportInv, StepOK, In
<1> QED
  BY <1>2, <1>3 DEF AloneOK

\* A step that writes no table and leaves the refresh where nothing is asked of it.
LEMMA QuietStep ==
    ASSUME TypeOK, ReportInv, NEW r \in Run, job[r].step # "idle", UNCHANGED tables, Sorted',
           job' = [job EXCEPT ![r] = job'[r]],
           job'[r].alone => job[r].alone,
           job'[r].step \in {"idle", "export", "exporting", "boot", "bronze", "append", "silver"}
    PROVE  ReportInv'
<1>1. \A q \in Run \ {r} : job'[q] = job[q]
  BY DEF TypeOK
<1>2. In(bronze') = In(bronze) /\ Classified' = Classified
  BY DEF tables, In, Classified
<1>3. StepOK(r)' /\ AloneOK(r)'
  BY <1>1 DEF ReportInv, StepOK, AloneOK
<1> QED
  BY <1>1, <1>2, <1>3, OthersOK DEF ReportInv

LEMMA BeginsReport ==
    ASSUME TypeOK, ReportInv, Sorted', NEW r \in Run, NEW j \in Job, Begin(r, j),
           j.step \in {"export", "bronze"}
    PROVE  ReportInv'
<1>1. UNCHANGED tables /\ job[r].step = "idle"
  BY DEF Begin
<1>2. In(bronze') = In(bronze) /\ Classified' = Classified
  BY <1>1 DEF tables, In, Classified
<1>3. /\ job'[r].step = j.step
      /\ job'[r].alone => \A q \in Run \ {r} : job[q].step = "idle"
  BY DEF Begin, TypeOK, Job
<1>4. ASSUME NEW q \in Run, q # r
      PROVE  /\ job'[q].step = job[q].step /\ job'[q].file = job[q].file /\ ~job'[q].alone
             /\ job'[q].rows = job[q].rows /\ job'[q].table = job[q].table
  <2>1. job'[q] = [job[q] EXCEPT !.alone = FALSE]
    BY <1>4 DEF Begin
  <2>2. job[q] \in Job
    BY DEF TypeOK
  <2> QED
    BY <2>1, <2>2 DEF Job
<1>5. ASSUME NEW q \in Run, q # r PROVE StepOK(q)' /\ AloneOK(q)'
  BY <1>2, <1>4, <1>5 DEF ReportInv, StepOK, AloneOK, In
<1>6. StepOK(r)' /\ AloneOK(r)'
  BY <1>3, <1>4 DEF StepOK, AloneOK
<1> QED
  BY <1>2, <1>5, <1>6 DEF ReportInv

LEMMA ReportStep == TypeOK /\ CreatedInv /\ ReportInv /\ [Next]_vars => ReportInv'
<1> SUFFICES ASSUME TypeOK, CreatedInv, ReportInv, [Next]_vars PROVE ReportInv'
  OBVIOUS
<1>0. Sorted'
  BY SortedStep DEF ReportInv
<1>1. CASE UNCHANGED <<tables, job>>
  <2>1. /\ In(bronze') = In(bronze) /\ In(silver') = In(silver) /\ Classified' = Classified
        /\ gold' = gold /\ job' = job /\ \A k : Want(k)' = Want(k)
    BY <1>1 DEF tables, In, Classified, Want
  <2>2. ASSUME NEW q \in Run PROVE StepOK(q)' /\ AloneOK(q)'
    BY <2>1 DEF ReportInv, StepOK, AloneOK
  <2> QED
    BY <1>0, <2>1, <2>2 DEF ReportInv
<1>2. ASSUME NEW r \in Run, StartBootstrap(r) \/ ReadWatermark(r) \/ Reapply(r)
      PROVE  ReportInv'
  <2>1. Idle(job[r].file) \in Job
    BY IdleTyped DEF TypeOK, Job
  <2>2. CASE StartBootstrap(r)
    <3> DEFINE new == [Idle(job[r].file) EXCEPT !.step = "export", !.full = TRUE]
    <3>1. new \in Job /\ new.step = "export"
      BY <2>1, FieldsTyped DEF Steps, Idle
    <3> QED
      BY <1>0, <2>2, <3>1, BeginsReport DEF StartBootstrap
  <2>3. CASE ReadWatermark(r)
    <3>1. PICK b \in In(bronze) :
             Begin(r, [Idle(job[r].file) EXCEPT !.step = "export",
                                               !.since = ingested_at[b] - Overlap])
      BY <2>3 DEF ReadWatermark
    <3> DEFINE new == [Idle(job[r].file) EXCEPT !.step = "export",
                                               !.since = ingested_at[b] - Overlap]
    <3>2. ingested_at[b] - Overlap \in Int
      BY DEF In, TypeOK
    <3>3. new \in Job /\ new.step = "export"
      BY <2>1, <3>2, FieldsTyped DEF Steps, Idle
    <3> QED
      BY <1>0, <3>1, <3>3, BeginsReport
  <2>4. CASE Reapply(r)
    <3> DEFINE new == [Idle(job[r].file) EXCEPT !.step = "bronze"]
    <3>1. new \in Job /\ new.step = "bronze"
      BY <2>1, FieldsTyped DEF Steps, Idle
    <3> QED
      BY <1>0, <2>4, <3>1, BeginsReport DEF Reapply
  <2> QED
    BY <1>2, <2>2, <2>3, <2>4
<1>3. ASSUME NEW r \in Run,
             OpenExport(r) \/ CloseExport(r) \/ PlanBronze(r) \/ Report(r) \/ Fail(r)
      PROVE  ReportInv'
  <2>1. UNCHANGED tables /\ job[r].step # "idle" /\ job[r] \in Job
    BY <1>3 DEF OpenExport, CloseExport, PlanBronze, Report, Fail, TypeOK
  <2>2. job' = [job EXCEPT ![r] = job'[r]]
    BY <1>3 DEF OpenExport, CloseExport, PlanBronze, Report, Fail, TypeOK
  <2>3. /\ job'[r].alone => job[r].alone
        /\ job'[r].step \in {"idle", "exporting", "boot", "bronze", "append", "silver"}
    <3>1. CASE OpenExport(r) \/ PlanBronze(r)
      BY <3>1, <2>1 DEF OpenExport, PlanBronze, TypeOK, Job
    <3>2. CASE CloseExport(r)
      BY <3>2, <2>1 DEF CloseExport, Idle, TypeOK
    <3>3. CASE Report(r) \/ Fail(r)
      BY <3>3, <2>1 DEF Report, Fail, Idle, TypeOK
    <3> QED
      BY <1>3, <3>1, <3>2, <3>3
  <2> QED
    BY <1>0, <2>1, <2>2, <2>3, QuietStep
\* A step of r that writes a table: what is left to show of it.
<1>4. ASSUME NEW r \in Run, job[r].step # "idle", job' = [job EXCEPT ![r] = job'[r]],
             In(bronze) \subseteq In(bronze'), Classified' \subseteq In(bronze'), StepOK(r)',
             job[r].alone /\ (\A q \in Run \ {r} : job'[q].step = "idle") => AloneOK(r)',
             job'[r].alone => job[r].alone
      PROVE  ReportInv'
  <2>1. \A q \in Run \ {r} : job'[q] = job[q]
    BY <1>4 DEF TypeOK
  <2>2. AloneOK(r)'
    <3>1. CASE job[r].alone
      BY <1>4, <2>1, <3>1 DEF ReportInv, AloneOK
    <3>2. CASE ~job[r].alone
      BY <1>4, <3>2 DEF AloneOK
    <3> QED
      BY <3>1, <3>2
  <2>3. ASSUME NEW q \in Run, q # r PROVE StepOK(q)' /\ AloneOK(q)'
    BY <1>4, <2>1, <2>3, OthersOK
  <2> QED
    BY <1>0, <1>4, <2>2, <2>3 DEF ReportInv
<1>5. ASSUME NEW r \in Run, BootBronze(r) PROVE ReportInv'
  <2>1. /\ bronze' = Rows(job[r].file) /\ job[r].step = "boot" /\ job[r] \in Job
        /\ job' = [job EXCEPT ![r] = job'[r]]
        /\ UNCHANGED <<silver, rejected>>
    BY <1>5 DEF BootBronze, TypeOK
  <2>2. In(bronze) = {} /\ Classified' = {}
    BY <1>5, <2>1 DEF BootBronze, CreatedInv, ReportInv, Classified, In
  <2>3. In(bronze') = job[r].file
    BY <2>1, InRows DEF Job
  <2>4. /\ job'[r].step = "create" /\ job'[r].file = job[r].file
        /\ job'[r].alone = job[r].alone
    BY <1>5, <2>1 DEF BootBronze, TypeOK, Job
  <2>5. StepOK(r)'
    BY <2>3, <2>4 DEF StepOK
  <2>6. (\A q \in Run \ {r} : job'[q].step = "idle") => AloneOK(r)'
    BY <2>4 DEF AloneOK
  <2> QED
    BY <1>4, <2>1, <2>2, <2>4, <2>5, <2>6
<1>6. ASSUME NEW r \in Run, BootTable(r) PROVE ReportInv'
  <2>1. /\ job[r].step = "create" /\ job[r] \in Job /\ bronze' = bronze
        /\ job' = [job EXCEPT ![r] = job'[r]]
    BY <1>6 DEF BootTable, TypeOK
  <2>2. job'[r] = IF job[r].table = 6 THEN Idle(job[r].file)
                  ELSE [job[r] EXCEPT !.table = job[r].table + 1]
    BY <1>6 DEF BootTable, TypeOK
  <2>3. /\ job'[r].step \in {"idle", "create"} /\ job'[r].file = job[r].file
        /\ job'[r].alone => job[r].alone
    BY <2>1, <2>2 DEF Idle, Job
  <2>4. job[r].file \subseteq In(bronze) /\ In(bronze') = In(bronze)
    BY <2>1 DEF ReportInv, StepOK, In
  <2>5. In(silver') \subseteq In(silver) \union job[r].file
    <3>1. Rows(job[r].file) \in Bag /\ In(Rows(job[r].file)) = job[r].file
      BY <2>1, RowsTyped, InRows DEF Job
    <3>2. silver' = silver \/ silver' = With(Rows(job[r].file), "accepted")
      BY <1>6 DEF BootTable
    <3> QED
      BY <3>1, <3>2, InWith
  <2>6. In(rejected') \subseteq In(rejected) \union job[r].file
    <3>1. Rows(job[r].file) \in Bag /\ In(Rows(job[r].file)) = job[r].file
      BY <2>1, RowsTyped, InRows DEF Job
    <3>2. rejected' = rejected \/ rejected' = With(Rows(job[r].file), "rejected")
      BY <1>6 DEF BootTable
    <3> QED
      BY <3>1, <3>2, InWith
  <2>7. Classified' \subseteq In(bronze')
    BY <2>4, <2>5, <2>6 DEF ReportInv, Classified
  <2>8. StepOK(r)'
    BY <2>3, <2>4 DEF StepOK
  <2>9. (\A q \in Run \ {r} : job'[q].step = "idle") => AloneOK(r)'
    BY <2>3 DEF AloneOK
  <2> QED
    BY <1>4, <2>1, <2>3, <2>4, <2>7, <2>8, <2>9
<1>7. ASSUME NEW r \in Run, AppendBronze(r) PROVE ReportInv'
  <2>1. /\ job[r].step = "append" /\ job[r] \in Job /\ bronze' = Plus(bronze, job[r].rows)
        /\ job' = [job EXCEPT ![r] = job'[r]] /\ UNCHANGED <<silver, rejected>>
    BY <1>7 DEF AppendBronze, TypeOK
  <2>2. job'[r].step = "silver" /\ job'[r].alone = job[r].alone
    BY <1>7, <2>1 DEF AppendBronze, TypeOK, Job
  <2>3. In(bronze) \subseteq In(bronze') /\ Classified' = Classified
    BY <2>1, InPlus DEF TypeOK, Job, Classified, In
  <2>4. StepOK(r)'
    BY <2>2 DEF StepOK
  <2>5. (\A q \in Run \ {r} : job'[q].step = "idle") => AloneOK(r)'
    BY <2>2 DEF AloneOK
  <2>6. Classified' \subseteq In(bronze')
    BY <2>3 DEF ReportInv
  <2> QED
    BY <1>4, <2>1, <2>2, <2>3, <2>4, <2>5, <2>6
<1>8. ASSUME NEW r \in Run, Classify(r) PROVE ReportInv'
  <2> DEFINE rows == [e \in Event |-> IF e \in In(silver) \union In(rejected)
                                      THEN 0 ELSE bronze[e]]
  <2>1. /\ job[r].step = "silver" /\ job[r] \in Job /\ UNCHANGED tables
        /\ job' = [job EXCEPT ![r] = [job[r] EXCEPT !.step = "accepted", !.rows = rows]]
    BY <1>8 DEF Classify, TypeOK
  <2>2. In(rows) = In(bronze) \ Classified
    BY DEF In, Classified
  <2> HIDE DEF rows
  <2>3. /\ job'[r].step = "accepted" /\ job'[r].rows = rows /\ job'[r].alone = job[r].alone
        /\ job' = [job EXCEPT ![r] = job'[r]]
    BY <2>1 DEF TypeOK, Job
  <2>4. In(bronze') = In(bronze) /\ Classified' = Classified /\ Classified \subseteq In(bronze)
    BY <2>1 DEF tables, In, Classified, ReportInv
  <2>5. StepOK(r)'
    BY <2>2, <2>3, <2>4 DEF StepOK, In
  <2>6. In(job'[r].rows) = In(bronze) \ Classified
    BY <2>2, <2>3
  <2>7. (\A q \in Run \ {r} : job'[q].step = "idle") => AloneOK(r)'
    <3>1. In(bronze)' = Classified' \union In(job[r].rows)'
      BY <2>4, <2>6 DEF In
    <3> QED
      BY <2>3, <3>1 DEF AloneOK
  <2> QED
    BY <1>4, <2>1, <2>3, <2>4, <2>5, <2>7
<1>9. ASSUME NEW r \in Run, AppendSilver(r) PROVE ReportInv'
  <2>1. /\ job[r].step = "accepted" /\ job[r] \in Job /\ UNCHANGED <<bronze, rejected>>
        /\ job' = [job EXCEPT ![r] = [job[r] EXCEPT !.step = "rejected"]]
    BY <1>9 DEF AppendSilver, To, TypeOK
  <2>2. In(silver') = In(silver) \union (In(job[r].rows) \cap Sound)
    <3>1. job[r].rows \in Bag /\ With(job[r].rows, "accepted") \in Bag
      BY <2>1, WithTyped DEF Job
    <3> QED
      BY <1>9, <3>1, InPlus, InWith DEF AppendSilver, TypeOK
  <2>3. /\ job'[r].step = "rejected" /\ job'[r].rows = job[r].rows
        /\ job'[r].alone = job[r].alone /\ job' = [job EXCEPT ![r] = job'[r]]
    BY <2>1 DEF TypeOK, Job
  <2>4. /\ In(bronze') = In(bronze) /\ In(rejected') = In(rejected)
        /\ In(job'[r].rows) = In(job[r].rows) /\ In(job[r].rows) \subseteq In(bronze)
    BY <2>1, <2>3 DEF In, ReportInv, StepOK
  <2>5. Classified' \subseteq In(bronze')
    BY <2>2, <2>4 DEF Classified, ReportInv
  <2>6. StepOK(r)'
    BY <2>3, <2>4 DEF StepOK
  <2>7. ASSUME job[r].alone, \A q \in Run \ {r} : job'[q].step = "idle" PROVE AloneOK(r)'
    <3>1. In(bronze) = Classified \union In(job[r].rows)
      BY <2>1, <2>7 DEF ReportInv, AloneOK
    <3>2. In(bronze') = Classified' \union In(job'[r].rows)
      BY <2>2, <2>4, <3>1 DEF Classified
    <3>3. In(bronze') \cap Sound \subseteq In(silver')
      BY <2>2, <2>4, <3>1 DEF Classified, ReportInv, Sorted
    <3> QED
      BY <2>3, <2>7, <3>2, <3>3 DEF AloneOK
  <2> QED
    BY <1>4, <2>1, <2>3, <2>4, <2>5, <2>6, <2>7
<1>10. ASSUME NEW r \in Run, AppendRejected(r) PROVE ReportInv'
  <2>1. /\ job[r].step = "rejected" /\ job[r] \in Job /\ UNCHANGED <<bronze, silver, gold>>
        /\ job' = [job EXCEPT ![r] = [job[r] EXCEPT !.step = "gold", !.rows = None, !.table = 4]]
    BY <1>10 DEF AppendRejected, TypeOK
  <2>2. In(rejected') = In(rejected) \union (In(job[r].rows) \ Sound)
    <3>1. job[r].rows \in Bag /\ With(job[r].rows, "rejected") \in Bag
      BY <2>1, WithTyped DEF Job
    <3> QED
      BY <1>10, <3>1, InPlus, InWith DEF AppendRejected, TypeOK
  <2>3. /\ job'[r].step = "gold" /\ job'[r].table = 4
        /\ job'[r].alone = job[r].alone /\ job' = [job EXCEPT ![r] = job'[r]]
    BY <2>1 DEF TypeOK, Job
  <2>4. /\ In(bronze') = In(bronze) /\ In(silver') = In(silver)
        /\ In(job[r].rows) \subseteq In(bronze)
    BY <2>1 DEF In, ReportInv, StepOK
  <2>5. Classified' \subseteq In(bronze')
    BY <2>2, <2>4 DEF Classified, ReportInv
  <2>6. StepOK(r)'
    BY <2>3 DEF StepOK, GoldTables
  <2>7. ASSUME job[r].alone, \A q \in Run \ {r} : job'[q].step = "idle" PROVE AloneOK(r)'
    <3>1. /\ In(bronze) = Classified \union In(job[r].rows)
          /\ In(bronze) \cap Sound \subseteq In(silver)
      BY <2>1, <2>7 DEF ReportInv, AloneOK
    <3>2. In(bronze') = Classified'
      BY <2>2, <2>4, <2>5, <3>1 DEF Classified
    <3>3. \A k \in GoldTables : ~(k < job'[r].table)
      BY <2>3 DEF GoldTables
    <3> QED
      BY <2>3, <2>7, <3>2, <3>3 DEF AloneOK
  <2> QED
    BY <1>4, <2>1, <2>3, <2>4, <2>5, <2>6, <2>7
<1>11. ASSUME NEW r \in Run, ReadForGold(r) PROVE ReportInv'
  <2> DEFINE from == IF job[r].table = 6 THEN In(silver) \union In(rejected) ELSE In(silver)
  <2>1. /\ job[r].step = "gold" /\ job[r] \in Job /\ UNCHANGED tables
        /\ job' = [job EXCEPT ![r] = [job[r] EXCEPT !.step = "overwrite", !.rows = Rows(from)]]
    BY <1>11 DEF ReadForGold, TypeOK
  <2>2. /\ job'[r].step = "overwrite" /\ job'[r].table = job[r].table /\ job'[r].rows = Rows(from)
        /\ job'[r].alone = job[r].alone /\ job' = [job EXCEPT ![r] = job'[r]]
    BY <2>1 DEF TypeOK, Job
  <2>3. In(job'[r].rows) = from
    <3>1. from \in SUBSET Event
      BY DEF In
    <3> QED
      BY <2>2, <3>1, InRows
  <2>4. /\ In(bronze') = In(bronze) /\ Classified' = Classified /\ gold' = gold
        /\ \A k : Want(k)' = Want(k)
    BY <2>1 DEF tables, In, Classified, Want
  <2>5. Classified' \subseteq In(bronze')
    BY <2>4 DEF ReportInv
  <2>6. StepOK(r)'
    BY <2>1, <2>2 DEF ReportInv, StepOK
  <2>7. ASSUME job[r].alone, \A q \in Run \ {r} : job'[q].step = "idle" PROVE AloneOK(r)'
    <3>1. /\ In(bronze) = Classified
          /\ \A k \in GoldTables : k < job[r].table => gold[k] = Want(k)
      BY <2>1, <2>7 DEF ReportInv, AloneOK
    <3>2. from = Want(job[r].table)
      BY <3>1 DEF Classified, Want, ReportInv, Sorted
    <3> QED
      BY <2>2, <2>3, <2>4, <2>7, <3>1, <3>2 DEF AloneOK
  <2> QED
    BY <1>4, <2>1, <2>2, <2>4, <2>5, <2>6, <2>7
<1>12. ASSUME NEW r \in Run, OverwriteOrCreate(r) PROVE ReportInv'
  <2> DEFINE k == job[r].table
  <2>1. /\ job[r].step = "overwrite" /\ job[r] \in Job /\ UNCHANGED <<bronze, silver, rejected>>
        /\ gold' = [gold EXCEPT ![k] = In(job[r].rows)]
        /\ job' = [job EXCEPT ![r] = job'[r]]
    BY <1>12 DEF OverwriteOrCreate, TypeOK
  <2>2. /\ job'[r].step = IF k = 6 THEN "report" ELSE "gold"
        /\ job'[r].table = IF k = 6 THEN 6 ELSE k + 1
        /\ job'[r].alone = job[r].alone
    BY <1>12, <2>1 DEF OverwriteOrCreate, TypeOK, Job
  <2>3. k \in GoldTables
    BY <2>1 DEF ReportInv, StepOK
  <2>4. In(bronze') = In(bronze) /\ Classified' = Classified /\ \A g : Want(g)' = Want(g)
    BY <2>1 DEF In, Classified, Want
  <2>5. Classified' \subseteq In(bronze')
    BY <2>4 DEF ReportInv
  <2>6. StepOK(r)'
    <3>1. k # 6 => k + 1 \in GoldTables
      BY <2>3 DEF GoldTables
    <3> QED
      BY <2>2, <3>1 DEF StepOK
  <2>7. ASSUME job[r].alone, \A q \in Run \ {r} : job'[q].step = "idle" PROVE AloneOK(r)'
    <3>1. /\ In(bronze) = Classified /\ In(job[r].rows) = Want(k)
          /\ \A g \in GoldTables : g < k => gold[g] = Want(g)
      BY <2>1, <2>7 DEF ReportInv, AloneOK
    <3>2. \A g \in GoldTables : g <= k => gold'[g] = Want(g)
      BY <2>1, <2>3, <3>1 DEF TypeOK, GoldTables
    <3>3. \A g \in GoldTables : /\ k = 6 => g <= k
                                /\ k # 6 /\ g < k + 1 => g <= k
      BY <2>3 DEF GoldTables
    <3>4. CASE k = 6
      <4>1. job'[r].step = "report" /\ \A g \in GoldTables : gold'[g] = Want(g)
        BY <2>2, <3>2, <3>3, <3>4
      <4> QED
        BY <2>4, <2>7, <3>1, <4>1 DEF AloneOK
    <3>5. CASE k # 6
      <4>1. /\ job'[r].step = "gold"
            /\ \A g \in GoldTables : g < job'[r].table => gold'[g] = Want(g)
        BY <2>2, <3>2, <3>3, <3>5
      <4> QED
        BY <2>4, <2>7, <3>1, <4>1 DEF AloneOK
    <3> QED
      BY <3>4, <3>5
  <2> QED
    BY <1>4, <2>1, <2>2, <2>4, <2>5, <2>6, <2>7
<1>13. UNCHANGED <<tables, job>> \/ \E r \in Run : Refresh(r)
  BY DEF Next, vars, Stamp, Store, Tick, tables
<1> QED
  BY <1>1, <1>2, <1>3, <1>5, <1>6, <1>7, <1>8, <1>9, <1>10, <1>11, <1>12, <1>13 DEF Refresh

\* Whatever failed half-way before, a refresh that reaches its report without another
\* beside it has brought everything Bronze holds into the three Gold tables.
THEOREM ReportsComplete == Spec => []ReportComplete
<1>1. Init => CreatedInv
  BY InNone DEF Init, CreatedInv, NeedsBronze, Idle
<1>2. Init => ReportInv
  <2> SUFFICES ASSUME Init PROVE ReportInv
    OBVIOUS
  <2>1. \A r \in Run : job[r].step = "idle" /\ ~job[r].alone
    BY DEF Init, Idle
  <2>2. Sorted /\ Classified \subseteq In(bronze)
    BY InNone DEF Init, Sorted, Classified
  <2> QED
    BY <2>1, <2>2 DEF ReportInv, StepOK, AloneOK
<1>3. ReportInv => ReportComplete
  <2> SUFFICES ASSUME ReportInv, NEW r \in Run, job[r].step = "report", job[r].alone
               PROVE  /\ gold[4] = In(bronze) \cap Sound
                      /\ gold[5] = gold[4]
                      /\ gold[6] = In(bronze)
    BY DEF ReportComplete
  <2>1. \A k \in GoldTables : gold[k] = Want(k)
    BY DEF ReportInv, AloneOK
  <2> QED
    BY SMTT(30), <2>1 DEF GoldTables, Want
<1> QED
  BY <1>1, <1>2, <1>3, TypeCorrect, CreatedStep, ReportStep, PTL DEF Spec

-----------------------------------------------------------------------------
(* How often an event may be in a table.                                   *)

N == Cardinality(Run)

\* The refreshes whose next commits will add rows of e to Bronze, and to Silver or
\* Rejected: each of them holds a decision that others may have taken as well.
Appending(e) == {r \in Run : job[r].step = "append" /\ job[r].rows[e] > 0}
Sorting(e) == {r \in Run : /\ job[r].rows[e] > 0
                           /\ \/ job[r].step = "accepted"
                              \/ job[r].step = "rejected" /\ e \notin Sound}

\* Each of them still has its share of the bound.
BronzeInv ==
    /\ \A r \in Run, e \in Event : job[r].step = "append" => job[r].rows[e] <= 1
    /\ \A e \in Event : bronze[e] + Cardinality(Appending(e)) <= N

SortedInv ==
    /\ \A r \in Run, e \in Event :
           job[r].step \in {"accepted", "rejected"} => job[r].rows[e] <= N
    /\ \A e \in Event : silver[e] + rejected[e] + Cardinality(Sorting(e)) * N <= N * N

\* Nobody classifies before a bootstrap has created Silver and Rejected, so they are
\* empty when it does.
FreshInv ==
    /\ created < 2 => In(silver) = {}
    /\ created < 3 => /\ In(rejected) = {}
                      /\ \A r \in Run : job[r].step \notin {"accepted", "rejected"}

CopiesInv == TypeOK /\ CreatedInv /\ Sorted /\ BronzeInv /\ SortedInv /\ FreshInv

LEMMA RunFinite == N \in Nat /\ \A S \in SUBSET Run : IsFiniteSet(S) /\ Cardinality(S) \in 0..N
<1>1. IsFiniteSet(Run) /\ N \in Nat
  BY FS_CardinalityType DEF N
<1>2. ASSUME NEW S \in SUBSET Run PROVE IsFiniteSet(S) /\ Cardinality(S) \in 0..N
  <2>1. IsFiniteSet(S) /\ Cardinality(S) <= N
    BY <1>1, FS_Subset DEF N
  <2> QED
    BY <1>1, <2>1, FS_CardinalityType
<1> QED
  BY <1>1, <1>2

\* A set of refreshes that loses members, or just one, or all of them.
LEMMA Fewer ==
    ASSUME NEW S \in SUBSET Run, NEW T \in SUBSET S
    PROVE  /\ Cardinality(T) <= Cardinality(S)
           /\ \A r \in S : T = S \ {r} => Cardinality(T) = Cardinality(S) - 1
<1>1. IsFiniteSet(S)
  BY RunFinite
<1>2. Cardinality(T) <= Cardinality(S)
  BY <1>1, FS_Subset
<1>3. ASSUME NEW r \in S, T = S \ {r} PROVE Cardinality(T) = Cardinality(S) - 1
  BY <1>1, <1>3, FS_RemoveElement
<1> QED
  BY <1>2, <1>3

Busy == {"append", "accepted", "rejected"}

\* A refresh holds rows for Bronze, Silver or Rejected because it did before, or because
\* it has just looked what is missing there.
LEMMA BusyOK ==
    ASSUME TypeOK, [Next]_vars, NEW q \in Run, job'[q].step \in Busy
    PROVE  \/ job'[q].step = job[q].step /\ job'[q].rows = job[q].rows
           \/ PlanBronze(q) \/ Classify(q) \/ AppendSilver(q)
<1> USE DEF Busy
<1>0. job[q] \in Job /\ job \in [Run -> Job]
  BY DEF TypeOK
<1>1. CASE UNCHANGED job
  BY <1>1
<1>2. ASSUME NEW r \in Run, NEW j, j.step \notin Busy, Begin(r, j), j \in Job
      PROVE  job'[q].step = job[q].step /\ job'[q].rows = job[q].rows
  <2>1. CASE q = r
    <3> DEFINE b == \A o \in Run \ {r} : job[o].step = "idle"
    <3>1. job'[q] = [j EXCEPT !.alone = b]
      BY <1>2, <2>1 DEF Begin
    <3> HIDE DEF b
    <3>2. job'[q].step = j.step
      BY <1>2, <3>1 DEF Job
    <3> QED
      BY <1>2, <3>2
  <2>2. CASE q # r
    <3>1. job'[q] = [job[q] EXCEPT !.alone = FALSE]
      BY <1>2, <2>2 DEF Begin
    <3> QED
      BY <1>0, <3>1 DEF Job
  <2> QED
    BY <2>1, <2>2
<1>3. ASSUME NEW r \in Run, StartBootstrap(r) \/ ReadWatermark(r) \/ Reapply(r)
      PROVE  job'[q].step = job[q].step /\ job'[q].rows = job[q].rows
  <2>0. Idle(job[r].file) \in Job
    BY IdleTyped DEF TypeOK, Job
  <2>1. CASE StartBootstrap(r)
    <3>1. [Idle(job[r].file) EXCEPT !.step = "export", !.full = TRUE] \in Job
      BY <2>0, FieldsTyped DEF Steps
    <3>2. [Idle(job[r].file) EXCEPT !.step = "export", !.full = TRUE].step = "export"
      BY DEF Idle
    <3> QED
      BY <1>2, <2>1, <3>1, <3>2 DEF StartBootstrap
  <2>2. CASE ReadWatermark(r)
    <3>1. PICK b \in In(bronze) :
             Begin(r, [Idle(job[r].file) EXCEPT !.step = "export",
                                               !.since = ingested_at[b] - Overlap])
      BY <2>2 DEF ReadWatermark
    <3>2. ingested_at[b] - Overlap \in Int
      BY DEF In, TypeOK
    <3>3. [Idle(job[r].file) EXCEPT !.step = "export", !.since = ingested_at[b] - Overlap] \in Job
      BY <2>0, <3>2, FieldsTyped DEF Steps
    <3>4. [Idle(job[r].file) EXCEPT !.step = "export",
                                    !.since = ingested_at[b] - Overlap].step = "export"
      BY DEF Idle
    <3> QED
      BY <1>2, <3>1, <3>3, <3>4
  <2>3. CASE Reapply(r)
    <3>1. [Idle(job[r].file) EXCEPT !.step = "bronze"] \in Job
      BY <2>0, FieldsTyped DEF Steps
    <3>2. [Idle(job[r].file) EXCEPT !.step = "bronze"].step = "bronze"
      BY DEF Idle
    <3> QED
      BY <1>2, <2>3, <3>1, <3>2 DEF Reapply
  <2> QED
    BY <1>3, <2>1, <2>2, <2>3
\* The others change one job only.
<1>4. ASSUME NEW r \in Run, q # r \/ job'[r].step \notin Busy, job' = [job EXCEPT ![r] = job'[r]]
      PROVE  job'[q].step = job[q].step /\ job'[q].rows = job[q].rows
  BY <1>0, <1>4
<1>5. ASSUME NEW r \in Run, OpenExport(r) \/ CloseExport(r) \/ Report(r) \/ Fail(r)
      PROVE  job'[q].step = job[q].step /\ job'[q].rows = job[q].rows
  <2>1. job' = [job EXCEPT ![r] = job'[r]]
    <3>1. CASE OpenExport(r) \/ Report(r) \/ Fail(r)
      BY <1>0, <3>1 DEF OpenExport, Report, Fail
    <3>2. CASE CloseExport(r)
      BY <1>0, <3>2 DEF CloseExport
    <3> QED
      BY <1>5, <3>1, <3>2
  <2>2. job'[r].step \notin Busy
    <3>1. CASE OpenExport(r)
      BY <1>0, <3>1 DEF OpenExport, Job
    <3>2. CASE CloseExport(r)
      BY <1>0, <3>2 DEF CloseExport, Idle
    <3>3. CASE Report(r) \/ Fail(r)
      BY <1>0, <3>3 DEF Report, Fail, Idle
    <3> QED
      BY <1>5, <3>1, <3>2, <3>3
  <2> QED
    BY <1>4, <2>1, <2>2
<1>6. ASSUME NEW r \in Run, BootBronze(r) \/ BootTable(r) \/ AppendBronze(r) \/ AppendRejected(r)
                           \/ ReadForGold(r) \/ OverwriteOrCreate(r)
      PROVE  job'[q].step = job[q].step /\ job'[q].rows = job[q].rows
  <2>0. job[r] \in Job
    BY DEF TypeOK
  <2>1. CASE BootTable(r)
    <3>1. job'[r] = IF job[r].table = 6 THEN Idle(job[r].file)
                    ELSE [job[r] EXCEPT !.table = job[r].table + 1]
      BY <1>0, <2>1 DEF BootTable
    <3>2. job'[r].step \in {"idle", "create"}
      BY <2>0, <2>1, <3>1 DEF BootTable, Idle, Job
    <3>3. job' = [job EXCEPT ![r] = job'[r]]
      BY <1>0, <2>1 DEF BootTable
    <3> QED
      BY <1>4, <3>2, <3>3
  <2>2. CASE BootBronze(r) \/ AppendBronze(r) \/ AppendRejected(r)
    <3>1. job' = [job EXCEPT ![r] = job'[r]] /\ job'[r].step \in {"create", "silver", "gold"}
      BY <1>0, <2>0, <2>2 DEF BootBronze, AppendBronze, AppendRejected, Job
    <3> QED
      BY <1>4, <3>1
  <2>3. CASE ReadForGold(r) \/ OverwriteOrCreate(r)
    <3>1. job' = [job EXCEPT ![r] = job'[r]] /\ job'[r].step \in {"overwrite", "report", "gold"}
      BY <1>0, <2>0, <2>3 DEF ReadForGold, OverwriteOrCreate, Job
    <3> QED
      BY <1>4, <3>1
  <2> QED
    BY <1>6, <2>1, <2>2, <2>3
<1>7. ASSUME NEW r \in Run, PlanBronze(r) \/ Classify(r) \/ AppendSilver(r)
      PROVE  \/ job'[q].step = job[q].step /\ job'[q].rows = job[q].rows
             \/ PlanBronze(q) \/ Classify(q) \/ AppendSilver(q)
  <2>1. CASE q = r
    BY <1>7, <2>1
  <2>2. CASE q # r
    <3>1. job' = [job EXCEPT ![r] = job'[r]]
      BY <1>0, <1>7 DEF PlanBronze, Classify, AppendSilver, To
    <3> QED
      BY <1>4, <2>2, <3>1
  <2> QED
    BY <2>1, <2>2
<1>8. UNCHANGED job \/ \E r \in Run : Refresh(r)
  BY DEF Next, vars, Stamp, Store, Tick
<1> QED
  BY <1>1, <1>3, <1>5, <1>6, <1>7, <1>8 DEF Refresh

\* Bronze grows in two actions, and PlanBronze promises it to.
LEMMA BronzeStep == TypeOK /\ CreatedInv /\ BronzeInv /\ [Next]_vars => BronzeInv'
<1> SUFFICES ASSUME TypeOK, CreatedInv, BronzeInv, [Next]_vars PROVE BronzeInv'
  OBVIOUS
<1>0. /\ \A q \in Run : job[q] \in Job /\ \A e \in Event : job[q].rows[e] \in Nat
      /\ \A e \in Event : bronze[e] \in Nat
  BY DEF TypeOK, Job, Bag
<1>1. /\ \A e \in Event : /\ Appending(e) \in SUBSET Run /\ Appending(e)' \in SUBSET Run
                          /\ Cardinality(Appending(e)) \in 0..N /\ Cardinality(Appending(e)') \in 0..N
      /\ N \in Nat
  <2>1. \A e \in Event : Appending(e) \in SUBSET Run /\ Appending(e)' \in SUBSET Run
    BY DEF Appending
  <2> QED
    BY <2>1, RunFinite
\* Nobody begins to append, and Bronze stays as it is.
<1>2. ASSUME \A q \in Run : job'[q].step = "append" => /\ job[q].step = "append"
                                                       /\ job'[q].rows = job[q].rows,
             bronze' = bronze
      PROVE  BronzeInv'
  <2>1. ASSUME NEW e \in Event PROVE bronze'[e] + Cardinality(Appending(e)') <= N
    <3>1. Appending(e)' \in SUBSET Appending(e)
      BY <1>2 DEF Appending
    <3>2. Cardinality(Appending(e)') <= Cardinality(Appending(e))
      BY <1>1, <3>1, Fewer
    <3>3. bronze[e] + Cardinality(Appending(e)) <= N
      BY DEF BronzeInv
    <3> QED
      BY <1>0, <1>1, <1>2, <3>2, <3>3
  <2>2. \A r \in Run, e \in Event : job'[r].step = "append" => job'[r].rows[e] <= 1
    BY <1>2 DEF BronzeInv
  <2> QED
    BY <2>1, <2>2 DEF BronzeInv
<1>3. ASSUME NEW r \in Run, PlanBronze(r) PROVE BronzeInv'
  <2> DEFINE unseen == {e \in job[r].file : bronze[e] = 0}
             to == IF unseen = {} THEN "silver" ELSE "append"
  <2>1. /\ job' = [job EXCEPT ![r] = [job[r] EXCEPT !.step = to, !.rows = Rows(unseen)]]
        /\ job[r].step = "bronze" /\ bronze' = bronze
    BY <1>3 DEF PlanBronze, TypeOK, tables
  <2>2. \A e \in Event : Rows(unseen)[e] \in {0, 1} /\ (bronze[e] # 0 => Rows(unseen)[e] = 0)
    BY DEF Rows
  <2> HIDE DEF unseen, to
  <2>3. /\ \A q \in Run \ {r} : job'[q] = job[q]
        /\ job'[r].rows = Rows(unseen)
    BY <1>0, <2>1 DEF TypeOK, Job
  <2>4. ASSUME NEW e \in Event PROVE bronze'[e] + Cardinality(Appending(e)') <= N
    <3>1. CASE bronze[e] = 0
      BY <1>1, <2>1, <3>1
    <3>2. CASE bronze[e] # 0
      <4>1. Appending(e)' \in SUBSET Appending(e)
        BY <2>2, <2>3, <3>2 DEF Appending
      <4>2. Cardinality(Appending(e)') <= Cardinality(Appending(e))
        BY <1>1, <4>1, Fewer
      <4>3. bronze[e] + Cardinality(Appending(e)) <= N
        BY DEF BronzeInv
      <4> QED
        BY <1>0, <1>1, <2>1, <4>2, <4>3
    <3> QED
      BY <3>1, <3>2
  <2>5. ASSUME NEW q \in Run, NEW e \in Event, job'[q].step = "append"
        PROVE  job'[q].rows[e] <= 1
    <3>1. CASE q = r
      BY <2>2, <2>3, <3>1
    <3>2. CASE q # r
      BY <2>3, <2>5, <3>2 DEF BronzeInv
    <3> QED
      BY <3>1, <3>2
  <2> QED
    BY <2>4, <2>5 DEF BronzeInv
<1>4. ASSUME NEW r \in Run, AppendBronze(r) PROVE BronzeInv'
  <2>1. /\ job' = [job EXCEPT ![r] = [job[r] EXCEPT !.step = "silver", !.rows = None]]
        /\ job[r].step = "append" /\ bronze' = Plus(bronze, job[r].rows)
    BY <1>4 DEF AppendBronze, TypeOK
  <2>2. (\A q \in Run \ {r} : job'[q] = job[q]) /\ job'[r].step = "silver"
    BY <1>0, <2>1 DEF TypeOK, Job
  <2>3. ASSUME NEW e \in Event PROVE bronze'[e] + Cardinality(Appending(e)') <= N
    <3>1. /\ bronze'[e] = bronze[e] + job[r].rows[e] /\ job[r].rows[e] \in {0, 1}
          /\ bronze[e] + Cardinality(Appending(e)) <= N
      <4>1. bronze'[e] = bronze[e] + job[r].rows[e]
        BY <2>1 DEF Plus
      <4>2. job[r].rows[e] <= 1 /\ job[r].rows[e] \in Nat
        BY <1>0, <2>1 DEF BronzeInv
      <4>3. bronze[e] + Cardinality(Appending(e)) <= N
        BY DEF BronzeInv
      <4> QED
        BY <4>1, <4>2, <4>3
    <3>2. CASE job[r].rows[e] = 0
      <4>1. Appending(e)' \in SUBSET Appending(e)
        BY <2>2 DEF Appending
      <4>2. Cardinality(Appending(e)') <= Cardinality(Appending(e))
        BY <1>1, <4>1, Fewer
      <4> QED
        BY <1>0, <1>1, <3>1, <3>2, <4>2
    <3>3. CASE job[r].rows[e] = 1
      <4>1. r \in Appending(e) /\ Appending(e)' = Appending(e) \ {r}
        BY <2>1, <2>2, <3>3 DEF Appending
      <4>2. Cardinality(Appending(e)') = Cardinality(Appending(e)) - 1
        BY <1>1, <4>1, Fewer
      <4> QED
        BY <1>0, <1>1, <3>1, <3>3, <4>2
    <3> QED
      BY <3>1, <3>2, <3>3
  <2>4. \A q \in Run, e \in Event : job'[q].step = "append" => job'[q].rows[e] <= 1
    BY <2>2 DEF BronzeInv
  <2> QED
    BY <2>3, <2>4 DEF BronzeInv
<1>5. ASSUME NEW r \in Run, BootBronze(r) PROVE BronzeInv'
  <2>1. /\ job' = [job EXCEPT ![r] = [job[r] EXCEPT !.step = "create", !.table = 2]]
        /\ created = 0 /\ bronze' = Rows(job[r].file)
    BY <1>5 DEF BootBronze, TypeOK
  <2>2. (\A q \in Run \ {r} : job'[q] = job[q]) /\ job'[r].step = "create"
    BY <1>0, <2>1 DEF TypeOK, Job
  <2>3. \A q \in Run : job'[q].step # "append"
    BY <2>1, <2>2 DEF CreatedInv, NeedsBronze
  <2>4. ASSUME NEW e \in Event PROVE bronze'[e] + Cardinality(Appending(e)') <= N
    <3>1. Appending(e)' = {}
      BY <2>3 DEF Appending
    <3>2. Cardinality(Appending(e)') = 0
      BY <3>1, FS_EmptySet
    <3>3. 1 <= N
      <4>1. {r} \in SUBSET Run /\ Cardinality({r}) = 1
        BY FS_Singleton
      <4> QED
        BY <4>1, RunFinite
    <3>4. bronze'[e] \in {0, 1}
      BY <2>1 DEF Rows
    <3> QED
      BY <1>1, <3>2, <3>3, <3>4
  <2> QED
    BY <2>3, <2>4 DEF BronzeInv
<1>6. ASSUME bronze' = bronze, ~(\E r \in Run : PlanBronze(r)) PROVE BronzeInv'
  <2>1. ASSUME NEW q \in Run, job'[q].step = "append"
        PROVE  job[q].step = "append" /\ job'[q].rows = job[q].rows
    <3>1. \/ job'[q].step = job[q].step /\ job'[q].rows = job[q].rows
          \/ Classify(q) \/ AppendSilver(q)
      BY <1>6, <2>1, BusyOK DEF Busy
    <3>2. ~Classify(q) /\ ~AppendSilver(q)
      BY <1>0, <2>1 DEF Classify, AppendSilver, To, TypeOK, Job
    <3> QED
      BY <2>1, <3>1, <3>2
  <2> QED
    BY <1>2, <1>6, <2>1
<1>7. bronze' = bronze \/ \E r \in Run : AppendBronze(r) \/ BootBronze(r)
  BY DEF Next, Refresh, vars, Stamp, Store, Tick, StartBootstrap, ReadWatermark, Reapply, Begin,
     OpenExport, CloseExport, BootTable, PlanBronze, Classify, AppendSilver, AppendRejected,
     ReadForGold, OverwriteOrCreate, Report, Fail, tables
<1> QED
  BY <1>3, <1>4, <1>5, <1>6, <1>7

\* No table of Silver or Rejected is filled before both are there, but by its creation.
LEMMA FreshStep == TypeOK /\ FreshInv /\ [Next]_vars => FreshInv'
<1> SUFFICES ASSUME TypeOK, FreshInv, [Next]_vars PROVE FreshInv'
  OBVIOUS
<1>0. (\A q \in Run : job[q] \in Job) /\ created \in 0..6 /\ job \in [Run -> Job]
  BY DEF TypeOK
<1>1. created' \in Nat /\ created <= created'
  <2>1. CASE UNCHANGED created
    BY <1>0, <2>1 DEF TypeOK
  <2>2. ASSUME NEW r \in Run, BootBronze(r) \/ BootTable(r) \/ OverwriteOrCreate(r)
        PROVE  created' \in Nat /\ created <= created'
    BY <2>2 DEF BootBronze, BootTable, OverwriteOrCreate, TypeOK, Job, Tables
  <2>3. \/ UNCHANGED created
        \/ \E r \in Run : BootBronze(r) \/ BootTable(r) \/ OverwriteOrCreate(r)
    BY DEF Next, Refresh, vars, Stamp, Store, Tick, StartBootstrap, ReadWatermark, Reapply,
       Begin, OpenExport, CloseExport, PlanBronze, AppendBronze, Classify, AppendSilver,
       AppendRejected, ReadForGold, Report, Fail, tables
  <2> QED
    BY <2>1, <2>2, <2>3
<1>2. ASSUME created' < 3, NEW q \in Run PROVE job'[q].step \notin {"accepted", "rejected"}
  <2> SUFFICES ASSUME job'[q].step \in {"accepted", "rejected"} PROVE FALSE
    OBVIOUS
  <2>1. \A p \in Run : job[p].step \notin {"accepted", "rejected"}
    BY <1>0, <1>1, <1>2 DEF FreshInv
  <2>2. PlanBronze(q) \/ Classify(q) \/ AppendSilver(q)
    BY <2>1, BusyOK DEF Busy
  <2>3. CASE PlanBronze(q)
    BY <1>0, <2>3 DEF PlanBronze, Job
  <2>4. CASE Classify(q)
    BY <1>0, <1>1, <1>2, <2>4 DEF Classify
  <2>5. CASE AppendSilver(q)
    BY <2>1, <2>5 DEF AppendSilver
  <2> QED
    BY <2>2, <2>3, <2>4, <2>5
<1>3. CASE UNCHANGED <<silver, rejected>>
  <2>1. In(silver') = In(silver) /\ In(rejected') = In(rejected)
    BY <1>3
  <2>2. (created' < 2 => created < 2) /\ (created' < 3 => created < 3)
    BY <1>0, <1>1
  <2>3. (created' < 2 => In(silver') = {}) /\ (created' < 3 => In(rejected') = {})
    BY <2>1, <2>2 DEF FreshInv
  <2> QED
    BY <1>2, <2>3 DEF FreshInv, In
<1>4. ASSUME NEW r \in Run, BootTable(r) PROVE FreshInv'
  <2>1. /\ created' = created + 1 /\ job[r].table = created + 1
        /\ silver' = IF job[r].table = 2 THEN With(Rows(job[r].file), "accepted") ELSE silver
        /\ rejected' = IF job[r].table = 3 THEN With(Rows(job[r].file), "rejected") ELSE rejected
    BY <1>0, <1>4 DEF BootTable, Job, Tables
  <2>2. created' < 2 => In(silver') = {}
    BY <1>0, <2>1 DEF FreshInv, In
  <2>3. created' < 3 => In(rejected') = {}
    BY <1>0, <2>1 DEF FreshInv, In
  <2> QED
    BY <1>2, <2>2, <2>3 DEF FreshInv, In
<1>5. ASSUME NEW r \in Run, AppendSilver(r) \/ AppendRejected(r) PROVE FreshInv'
  BY <1>0, <1>1, <1>5 DEF AppendSilver, AppendRejected, FreshInv
<1>6. \/ UNCHANGED <<silver, rejected>>
      \/ \E r \in Run : BootTable(r) \/ AppendSilver(r) \/ AppendRejected(r)
  BY ZenonT(30) DEF Next, Refresh, vars, Stamp, Store, Tick, StartBootstrap, ReadWatermark,
     Reapply, Begin, OpenExport, CloseExport, BootBronze, PlanBronze, AppendBronze, Classify, ReadForGold,
     OverwriteOrCreate, Report, Fail, tables
<1> QED
  BY <1>3, <1>4, <1>5, <1>6

\* The share of one refresh, when k of them hold rows of an event.
LEMMA Share ==
    ASSUME NEW k \in Nat, NEW t \in Nat, NEW u \in 0..N, t + k * N <= N * N
    PROVE  /\ \A i \in 0..k : t + i * N <= N * N
           /\ k >= 1 => t + u + (k - 1) * N <= N * N
<1>1. N \in Nat
  BY RunFinite
<1>2. ASSUME NEW i \in 0..k PROVE t + i * N <= N * N
  <2>1. i * N <= k * N /\ i * N \in Nat /\ k * N \in Nat /\ N * N \in Nat
    BY <1>1
  <2> QED
    BY <2>1
<1>3. ASSUME k >= 1 PROVE t + u + (k - 1) * N <= N * N
  <2>1. (k - 1) * N = k * N - N /\ k * N \in Nat /\ N * N \in Nat
    BY <1>1
  <2> QED
    BY <1>1, <2>1
<1> QED
  BY <1>2, <1>3

\* Silver and Rejected grow in three actions, and Classify promises it to.
LEMMA SortingStep ==
    TypeOK /\ Sorted /\ BronzeInv /\ FreshInv /\ SortedInv /\ [Next]_vars => SortedInv'
<1> SUFFICES ASSUME TypeOK, Sorted, BronzeInv, FreshInv, SortedInv, [Next]_vars
             PROVE  SortedInv'
  OBVIOUS
<1>0. /\ \A q \in Run : job[q] \in Job
      /\ \A q \in Run, e \in Event : job[q].rows[e] \in Nat
      /\ \A e \in Event : bronze[e] \in Nat /\ silver[e] \in Nat /\ rejected[e] \in Nat
  BY DEF TypeOK, Job, Bag
<1>1. /\ \A e \in Event : /\ Sorting(e) \in SUBSET Run /\ Sorting(e)' \in SUBSET Run
                          /\ Cardinality(Sorting(e)) \in 0..N /\ Cardinality(Sorting(e)') \in 0..N
      /\ N \in Nat
  <2>1. \A e \in Event : Sorting(e) \in SUBSET Run /\ Sorting(e)' \in SUBSET Run
    BY DEF Sorting
  <2> QED
    BY <2>1, RunFinite
<1>2. \A e \in Event : silver[e] + rejected[e] + Cardinality(Sorting(e)) * N <= N * N
  BY DEF SortedInv
\* An event that no table gets, and for which nobody new holds rows.
<1>3. ASSUME NEW e \in Event, silver'[e] = silver[e], rejected'[e] = rejected[e],
             Sorting(e)' \in SUBSET Sorting(e)
      PROVE  silver'[e] + rejected'[e] + Cardinality(Sorting(e)') * N <= N * N
  <2>1. Cardinality(Sorting(e)') \in 0..Cardinality(Sorting(e))
    BY <1>1, <1>3, Fewer
  <2>2. Cardinality(Sorting(e)) \in Nat /\ 0 \in 0..N /\ silver[e] + rejected[e] \in Nat
    BY <1>0, <1>1
  <2> QED
    BY <1>2, <1>3, <2>1, <2>2, Share
\* One that a refresh has just added to a table, or had nothing to add to.
<1>4. ASSUME NEW e \in Event, NEW r \in Run,
             job[r].step \in {"accepted", "rejected"},
             Sorting(e)' = Sorting(e) \ {r},
             \/ silver'[e] + rejected'[e] = silver[e] + rejected[e]
             \/ /\ r \in Sorting(e)
                /\ silver'[e] + rejected'[e] = silver[e] + rejected[e] + job[r].rows[e]
      PROVE  silver'[e] + rejected'[e] + Cardinality(Sorting(e)') * N <= N * N
  <2> DEFINE t == silver[e] + rejected[e]
             k == Cardinality(Sorting(e))
             i == Cardinality(Sorting(e)')
  <2>1. t \in Nat /\ k \in Nat /\ i \in 0..k /\ job[r].rows[e] \in 0..N /\ t + k * N <= N * N
    <3>1. i \in 0..k
      <4>1. Sorting(e)' \in SUBSET Sorting(e)
        BY <1>4
      <4>2. Cardinality(Sorting(e)') <= Cardinality(Sorting(e))
        BY <1>1, <4>1, Fewer
      <4> QED
        BY <1>1, <4>2
    <3>2. job[r].rows[e] \in 0..N
      BY <1>0, <1>1, <1>4 DEF SortedInv
    <3> QED
      BY <1>0, <1>1, <1>2, <3>1, <3>2
  <2>2. r \in Sorting(e) => i = k - 1 /\ k >= 1
    <3>1. r \in Sorting(e) => i = k - 1
      BY <1>1, <1>4, Fewer
    <3> QED
      BY <1>1, <2>1, <3>1
  <2>3. CASE silver'[e] + rejected'[e] = t
    <3> HIDE DEF k, i, t
    <3>1. t + i * N <= N * N
      BY <2>1, Share
    <3> QED
      BY <2>3, <3>1 DEF i, t
  <2>4. CASE r \in Sorting(e) /\ silver'[e] + rejected'[e] = t + job[r].rows[e]
    <3> HIDE DEF k, i, t
    <3>1. t + job[r].rows[e] + (k - 1) * N <= N * N
      BY <2>1, <2>2, <2>4, Share
    <3> QED
      BY <2>2, <2>4, <3>1 DEF i, t
  <2> QED
    BY <1>4, <2>3, <2>4
\* The rows that a refresh took away are of its first look.
<1>5. ASSUME NEW q \in Run, job'[q].step \in {"accepted", "rejected"}, NEW e \in Event
      PROVE  job'[q].rows[e] <= N
  <2>1. CASE job'[q].step = job[q].step /\ job'[q].rows = job[q].rows
    BY <1>5, <2>1 DEF SortedInv
  <2>2. CASE PlanBronze(q)
    <3>1. job'[q].step \in {"silver", "append"}
      BY <1>0, <2>2 DEF PlanBronze, TypeOK, Job
    <3> QED
      BY <1>5, <3>1
  <2>3. CASE Classify(q)
    <3>1. job'[q].rows[e] \in {0, bronze[e]}
      BY <1>0, <2>3 DEF Classify, TypeOK, Job
    <3>2. bronze[e] + Cardinality(Appending(e)) <= N /\ Cardinality(Appending(e)) \in Nat
      <4>1. Appending(e) \in SUBSET Run
        BY DEF Appending
      <4> QED
        BY <4>1, RunFinite DEF BronzeInv
    <3> QED
      BY <1>0, <1>1, <3>1, <3>2
  <2>4. CASE AppendSilver(q)
    <3>1. job'[q].rows = job[q].rows /\ job[q].step = "accepted"
      BY <1>0, <2>4 DEF AppendSilver, To, TypeOK, Job
    <3> QED
      BY <3>1 DEF SortedInv
  <2> QED
    BY <1>5, <2>1, <2>2, <2>3, <2>4, BusyOK DEF Busy
<1>6. ASSUME UNCHANGED <<silver, rejected>>, ~(\E r \in Run : Classify(r)) PROVE SortedInv'
  <2>1. ASSUME NEW e \in Event PROVE Sorting(e)' \in SUBSET Sorting(e)
    <3> SUFFICES ASSUME NEW q \in Run, job'[q].rows[e] > 0,
                        job'[q].step = "accepted" \/ (job'[q].step = "rejected" /\ e \notin Sound)
                 PROVE  q \in Sorting(e)
      BY DEF Sorting
    <3>1. CASE job'[q].step = job[q].step /\ job'[q].rows = job[q].rows
      BY <3>1 DEF Sorting
    <3>2. CASE PlanBronze(q)
      <4>1. job'[q].step \in {"silver", "append"}
        BY <1>0, <3>2 DEF PlanBronze, TypeOK, Job
      <4> QED
        BY <4>1
    <3>3. CASE AppendSilver(q)
      <4>1. job[q].step = "accepted" /\ job'[q].rows = job[q].rows
        BY <1>0, <3>3 DEF AppendSilver, To, TypeOK, Job
      <4> QED
        BY <4>1 DEF Sorting
    <3> QED
      BY <1>6, <3>1, <3>2, <3>3, BusyOK DEF Busy
  <2>2. \A e \in Event :
          silver'[e] + rejected'[e] + Cardinality(Sorting(e)') * N <= N * N
    BY <1>3, <1>6, <2>1
  <2> QED
    BY <1>5, <2>2 DEF SortedInv
<1>7. ASSUME NEW r \in Run, Classify(r) PROVE SortedInv'
  <2> DEFINE rows == [e \in Event |-> IF e \in In(silver) \union In(rejected)
                                      THEN 0 ELSE bronze[e]]
  <2>1. /\ job' = [job EXCEPT ![r] = [job[r] EXCEPT !.step = "accepted", !.rows = rows]]
        /\ job[r].step = "silver" /\ UNCHANGED <<silver, rejected>>
    BY <1>7 DEF Classify, TypeOK, tables
  <2>2. ASSUME NEW e \in Event
        PROVE  silver'[e] + rejected'[e] + Cardinality(Sorting(e)') * N <= N * N
    <3>1. CASE e \in In(silver) \union In(rejected)
      <4>1. rows[e] = 0
        BY <3>1
      <4> HIDE DEF rows
      <4>2. (\A q \in Run \ {r} : job'[q] = job[q]) /\ job'[r].rows = rows
        BY <1>0, <2>1 DEF TypeOK, Job
      <4>3. Sorting(e)' \in SUBSET Sorting(e)
        BY <4>1, <4>2 DEF Sorting
      <4> QED
        BY <1>3, <2>1, <4>3
    <3>2. CASE e \notin In(silver) \union In(rejected)
      <4>1. silver'[e] = 0 /\ rejected'[e] = 0
        BY <1>0, <2>1, <3>2 DEF In
      <4>2. N \in Nat /\ N * N \in Nat /\ 0 + N * N <= N * N /\ 0 \in 0..N
        BY <1>1
      <4>3. 0 + Cardinality(Sorting(e)') * N <= N * N
        BY <1>1, <4>2, Share
      <4>4. Cardinality(Sorting(e)') * N \in Nat
        BY <1>1
      <4> QED
        BY <4>1, <4>3, <4>4
    <3> QED
      BY <3>1, <3>2
  <2> QED
    BY <1>5, <2>2 DEF SortedInv
<1>8. ASSUME NEW r \in Run, AppendSilver(r) PROVE SortedInv'
  <2>1. /\ job' = [job EXCEPT ![r] = [job[r] EXCEPT !.step = "rejected"]]
        /\ job[r].step = "accepted" /\ rejected' = rejected
        /\ silver' = Plus(silver, With(job[r].rows, "accepted"))
    BY <1>8 DEF AppendSilver, To, TypeOK
  <2>2. /\ \A q \in Run \ {r} : job'[q] = job[q]
        /\ job'[r].rows = job[r].rows /\ job'[r].step = "rejected"
    BY <1>0, <2>1 DEF TypeOK, Job
  <2>3. ASSUME NEW e \in Event
        PROVE  silver'[e] + rejected'[e] + Cardinality(Sorting(e)') * N <= N * N
    <3>1. silver'[e] = silver[e] + (IF e \in Sound THEN job[r].rows[e] ELSE 0)
      BY <2>1 DEF Plus, With, QualityStatus
    <3>2. CASE e \in Sound
      <4>1. Sorting(e)' = Sorting(e) \ {r}
        BY <2>2, <3>2 DEF Sorting
      <4>2. job[r].rows[e] > 0 => r \in Sorting(e)
        BY <2>1 DEF Sorting
      <4>3. silver'[e] + rejected'[e] = silver[e] + rejected[e] + job[r].rows[e]
        BY <1>0, <2>1, <3>1, <3>2
      <4>4. job[r].rows[e] = 0 => silver'[e] + rejected'[e] = silver[e] + rejected[e]
        BY <1>0, <4>3
      <4>5. job[r].rows[e] = 0 \/ job[r].rows[e] > 0
        BY <1>0
      <4> QED
        BY <1>4, <2>1, <4>1, <4>2, <4>3, <4>4, <4>5
    <3>3. CASE e \notin Sound
      <4>1. Sorting(e)' \in SUBSET Sorting(e)
        BY <2>1, <2>2, <3>3 DEF Sorting
      <4>2. silver'[e] = silver[e]
        BY <1>0, <3>1, <3>3
      <4> QED
        BY <1>3, <2>1, <4>1, <4>2
    <3> QED
      BY <3>2, <3>3
  <2> QED
    BY <1>5, <2>3 DEF SortedInv
<1>9. ASSUME NEW r \in Run, AppendRejected(r) PROVE SortedInv'
  <2>1. /\ job' = [job EXCEPT ![r] = [job[r] EXCEPT !.step = "gold", !.rows = None, !.table = 4]]
        /\ job[r].step = "rejected" /\ silver' = silver
        /\ rejected' = Plus(rejected, With(job[r].rows, "rejected"))
    BY <1>9 DEF AppendRejected, TypeOK
  <2>2. (\A q \in Run \ {r} : job'[q] = job[q]) /\ job'[r].step = "gold"
    BY <1>0, <2>1 DEF TypeOK, Job
  <2>3. ASSUME NEW e \in Event
        PROVE  silver'[e] + rejected'[e] + Cardinality(Sorting(e)') * N <= N * N
    <3>1. rejected'[e] = rejected[e] + (IF e \in Sound THEN 0 ELSE job[r].rows[e])
      BY <2>1 DEF Plus, With, QualityStatus
    <3>2. Sorting(e)' = Sorting(e) \ {r}
      BY <2>2 DEF Sorting
    <3>3. CASE e \in Sound
      <4>1. silver'[e] + rejected'[e] = silver[e] + rejected[e]
        BY <1>0, <2>1, <3>1, <3>3
      <4> QED
        BY <1>4, <2>1, <3>2, <4>1
    <3>4. CASE e \notin Sound
      <4>1. silver'[e] + rejected'[e] = silver[e] + rejected[e] + job[r].rows[e]
        BY <1>0, <2>1, <3>1, <3>4
      <4>2. job[r].rows[e] > 0 => r \in Sorting(e)
        BY <2>1, <3>4 DEF Sorting
      <4>3. job[r].rows[e] = 0 => silver'[e] + rejected'[e] = silver[e] + rejected[e]
        BY <1>0, <4>1
      <4>4. job[r].rows[e] = 0 \/ job[r].rows[e] > 0
        BY <1>0
      <4> QED
        BY <1>4, <2>1, <3>2, <4>1, <4>2, <4>3, <4>4
    <3> QED
      BY <3>3, <3>4
  <2> QED
    BY <1>5, <2>3 DEF SortedInv
\* Both tables are created empty or with one row of an event, before anybody classifies.
<1>10. ASSUME NEW r \in Run, BootTable(r) PROVE SortedInv'
  <2>1. /\ created = job[r].table - 1 /\ job[r].table \in Tables
        /\ silver' = IF job[r].table = 2 THEN With(Rows(job[r].file), "accepted") ELSE silver
        /\ rejected' = IF job[r].table = 3 THEN With(Rows(job[r].file), "rejected") ELSE rejected
    BY <1>0, <1>10 DEF BootTable, Job
  <2>2. CASE job[r].table \notin {2, 3}
    <3>1. UNCHANGED <<silver, rejected>> /\ ~(\E q \in Run : Classify(q))
      <4>1. ASSUME NEW q \in Run, Classify(q) PROVE FALSE
        <5>1. job'[q].step = "accepted" /\ job[q].step = "silver"
          BY <1>0, <4>1 DEF Classify, TypeOK, Job
        <5>2. job[r].step = "create" /\ job' = [job EXCEPT ![r] = job'[r]]
          BY <1>0, <1>10 DEF BootTable, TypeOK
        <5>3. q # r
          BY <5>1, <5>2
        <5>4. job'[q] = job[q]
          BY <5>2, <5>3 DEF TypeOK
        <5> QED
          BY <5>1, <5>4
      <4> QED
        BY <2>1, <2>2, <4>1
    <3> QED
      BY <1>6, <3>1
  <2>3. CASE job[r].table \in {2, 3}
    <3>1. created < 3 /\ created' < 4 /\ (job[r].table = 2 => created < 2)
      BY <1>10, <2>1, <2>3 DEF BootTable
    <3>2. /\ In(rejected) = {} /\ \A q \in Run : job[q].step \notin {"accepted", "rejected"}
          /\ job[r].table = 2 => In(silver) = {}
      BY <3>1 DEF FreshInv
    <3>3. ASSUME NEW q \in Run PROVE job'[q].step \notin {"accepted", "rejected"}
      <4>1. job[r].step = "create" /\ job' = [job EXCEPT ![r] = job'[r]]
        BY <1>0, <1>10 DEF BootTable, TypeOK
      <4>2. job'[r].step \in {"idle", "create"}
        <5>1. job'[r] = IF job[r].table = 6 THEN Idle(job[r].file)
                        ELSE [job[r] EXCEPT !.table = job[r].table + 1]
          BY <1>0, <1>10 DEF BootTable, TypeOK
        <5> QED
          BY <1>0, <4>1, <5>1 DEF Idle, Job
      <4> QED
        BY <3>2, <4>1, <4>2 DEF TypeOK
    <3>4. ASSUME NEW e \in Event
          PROVE  silver'[e] + rejected'[e] + Cardinality(Sorting(e)') * N <= N * N
      <4>1. Sorting(e)' = {}
        BY <3>3 DEF Sorting
      <4>2. Cardinality(Sorting(e)') * N = 0
        BY <1>1, <4>1, FS_EmptySet
      <4>3. 1 <= N * N
        <5>1. {r} \in SUBSET Run /\ Cardinality({r}) = 1
          BY FS_Singleton
        <5>2. 1 <= N
          BY <5>1, RunFinite
        <5> QED
          BY <1>1, <5>2
      <4>4. /\ silver[e] + rejected[e] <= N * N /\ rejected[e] = 0
            /\ job[r].table = 2 => silver[e] = 0
            /\ e \notin Sound => silver[e] = 0
        <5>1. rejected[e] = 0 /\ (job[r].table = 2 => silver[e] = 0)
              /\ (e \notin Sound => silver[e] = 0)
          BY <1>0, <3>2 DEF In, Sorted
        <5>2. silver[e] + rejected[e] + Cardinality(Sorting(e)) * N <= N * N
          BY <1>2
        <5>3. Cardinality(Sorting(e)) * N \in Nat /\ N * N \in Nat
          BY <1>1
        <5> QED
          BY <1>0, <5>1, <5>2, <5>3
      <4>5. CASE job[r].table = 2
        <5>1. silver'[e] \in {0, 1} /\ rejected'[e] = 0
          BY <2>1, <4>4, <4>5 DEF With, Rows
        <5> QED
          BY <1>1, <4>2, <4>3, <5>1
      <4>6. CASE job[r].table = 3
        <5>1. /\ silver'[e] = silver[e] /\ rejected'[e] \in {0, 1}
              /\ e \in Sound => rejected'[e] = 0
          BY <2>1, <4>6 DEF With, Rows, QualityStatus
        <5>2. CASE e \in Sound
          BY <1>0, <4>2, <4>4, <5>1, <5>2
        <5>3. CASE e \notin Sound
          BY <1>1, <4>2, <4>3, <4>4, <5>1, <5>3
        <5> QED
          BY <5>2, <5>3
      <4> QED
        BY <2>3, <4>5, <4>6
    <3> QED
      BY <1>5, <3>4 DEF SortedInv
  <2> QED
    BY <2>2, <2>3
<1>11. \/ UNCHANGED <<silver, rejected>>
       \/ \E r \in Run : BootTable(r) \/ AppendSilver(r) \/ AppendRejected(r)
  BY ZenonT(30) DEF Next, Refresh, vars, Stamp, Store, Tick, StartBootstrap, ReadWatermark,
     Reapply, Begin, OpenExport, CloseExport, BootBronze, PlanBronze, AppendBronze, Classify, ReadForGold,
     OverwriteOrCreate, Report, Fail, tables
<1> QED
  BY <1>6, <1>7, <1>8, <1>9, <1>10, <1>11

\* CopiesBounded (iceberg_bronze_refresh.py, iceberg_silver_refresh.py): n refreshes at a
\* time copy an event at most n times into Bronze and n * n times into Silver or Rejected,
\* however often they fail and apply a file again; one at a time copies it once.
THEOREM BoundedCopies == Spec => []CopiesBounded
<1>1. Init => BronzeInv /\ SortedInv /\ FreshInv
  <2> SUFFICES ASSUME Init PROVE BronzeInv /\ SortedInv /\ FreshInv
    OBVIOUS
  <2>1. \A r \in Run : job[r].step = "idle"
    BY DEF Init, Idle
  <2>2. \A e \in Event : /\ Appending(e) = {} /\ Sorting(e) = {}
                         /\ bronze[e] = 0 /\ silver[e] = 0 /\ rejected[e] = 0
    BY <2>1 DEF Appending, Sorting, Init, None
  <2>3. N \in Nat /\ N * N \in Nat /\ 0 * N = 0
    BY RunFinite
  <2>4. Cardinality({}) = 0
    BY FS_EmptySet
  <2>5. BronzeInv
    BY <2>1, <2>2, <2>3, <2>4 DEF BronzeInv
  <2>6. SortedInv
    BY <2>1, <2>2, <2>3, <2>4 DEF SortedInv
  <2>7. FreshInv
    BY <2>1, InNone DEF Init, FreshInv
  <2> QED
    BY <2>5, <2>6, <2>7
<1>2. Init => CreatedInv /\ Sorted
  BY InNone DEF Init, CreatedInv, NeedsBronze, Idle, Sorted
<1>3. TypeOK /\ BronzeInv /\ SortedInv => CopiesBounded
  <2> SUFFICES ASSUME TypeOK, BronzeInv, SortedInv, NEW e \in Event
               PROVE  /\ bronze[e] <= Cardinality(Run)
                      /\ silver[e] + rejected[e] <= Cardinality(Run) * Cardinality(Run)
    BY DEF CopiesBounded
  <2>1. /\ Cardinality(Appending(e)) \in Nat /\ Cardinality(Sorting(e)) \in Nat /\ N \in Nat
        /\ bronze[e] \in Nat /\ silver[e] \in Nat /\ rejected[e] \in Nat
    <3>1. Appending(e) \in SUBSET Run /\ Sorting(e) \in SUBSET Run
      BY DEF Appending, Sorting
    <3> QED
      BY <3>1, RunFinite DEF TypeOK, Bag
  <2>2. /\ bronze[e] + Cardinality(Appending(e)) <= N
        /\ silver[e] + rejected[e] + Cardinality(Sorting(e)) * N <= N * N
    BY DEF BronzeInv, SortedInv
  <2>3. Cardinality(Sorting(e)) * N \in Nat /\ N * N \in Nat
    BY <2>1
  <2>4. bronze[e] <= N /\ silver[e] + rejected[e] <= N * N
    BY <2>1, <2>2, <2>3
  <2> QED
    BY <2>4 DEF N
<1>4. CopiesInv /\ [Next]_vars => CopiesInv'
  BY TypeStep, CreatedStep, SortedStep, BronzeStep, SortingStep, FreshStep DEF CopiesInv
<1>5. Init => CopiesInv
  BY <1>1, <1>2, TypeInit DEF CopiesInv
<1>6. CopiesInv => CopiesBounded
  BY <1>3 DEF CopiesInv
<1> QED
  BY <1>4, <1>5, <1>6, PTL DEF Spec

-----------------------------------------------------------------------------
(* The refinement of the ledger.                                           *)

\* What the rows for Gold table k are taken from.
Shows(k) == IF k = 6 THEN Classified ELSE In(silver)

\* What a refresh holds is of the source, and what it will show has its verdict.
LedgerOK(r) ==
    /\ job[r].file \subseteq raw /\ job[r].seen \subseteq raw
    /\ job[r].step = "append" => In(job[r].rows) \subseteq raw
    /\ job[r].step = "create" =>
          /\ job[r].table > 1
          /\ job[r].table > 2 => job[r].file \cap Sound \subseteq In(silver)
          /\ job[r].table > 3 => job[r].file \ Sound \subseteq In(rejected)
    /\ job[r].step = "overwrite" => In(job[r].rows) \subseteq Shows(job[r].table)

LedgerInv == \A r \in Run : LedgerOK(r)

\* Nothing that was committed is taken back: a bootstrap finds the tables it writes empty.
Grows ==
    /\ raw \subseteq raw' /\ In(bronze) \subseteq In(bronze')
    /\ In(silver) \subseteq In(silver') /\ In(rejected) \subseteq In(rejected')

LEMMA GrowsStep == TypeOK /\ CreatedInv /\ FreshInv /\ [Next]_vars => Grows
<1> SUFFICES ASSUME TypeOK, CreatedInv, FreshInv, [Next]_vars PROVE Grows
  OBVIOUS
<1>0. \A r \in Run : job[r] \in Job
  BY DEF TypeOK
<1>1. CASE UNCHANGED <<bronze, silver, rejected>>
  <2>1. raw \subseteq raw'
    BY ZenonT(30) DEF Next, Refresh, vars, mongo, Stamp, Store, Tick, StartBootstrap,
       ReadWatermark, Reapply, Begin, OpenExport, CloseExport, BootBronze, BootTable, PlanBronze, AppendBronze, Classify,
       AppendSilver, AppendRejected, ReadForGold, OverwriteOrCreate, Report, Fail
  <2> QED
    BY <1>1, <2>1 DEF Grows, In
<1>2. ASSUME NEW r \in Run, BootBronze(r) PROVE Grows
  <2>1. In(bronze) = {}
    BY <1>2 DEF BootBronze, CreatedInv
  <2>2. raw' = raw /\ silver' = silver /\ rejected' = rejected
    BY <1>2 DEF BootBronze, mongo
  <2> QED
    BY <2>1, <2>2 DEF Grows, In
<1>3. ASSUME NEW r \in Run, BootTable(r) PROVE Grows
  <2>1. raw' = raw /\ bronze' = bronze /\ created = job[r].table - 1 /\ job[r].table \in 1..6
    BY <1>0, <1>3 DEF BootTable, mongo, Job, Tables
  <2>2. job[r].table # 2 => silver' = silver
    BY <1>3 DEF BootTable
  <2>3. job[r].table # 3 => rejected' = rejected
    BY <1>3 DEF BootTable
  <2>4. job[r].table = 2 => In(silver) = {}
    BY <2>1 DEF FreshInv
  <2>5. job[r].table = 3 => In(rejected) = {}
    BY <2>1 DEF FreshInv
  <2>6. In(silver) \subseteq In(silver') /\ In(rejected) \subseteq In(rejected')
    BY <2>2, <2>3, <2>4, <2>5
  <2> QED
    BY <2>1, <2>6 DEF Grows, In
<1>4. ASSUME NEW r \in Run, AppendBronze(r) PROVE Grows
  <2>1. bronze' = Plus(bronze, job[r].rows) /\ raw' = raw /\ silver' = silver /\ rejected' = rejected
    BY <1>4 DEF AppendBronze, mongo
  <2>2. In(Plus(bronze, job[r].rows)) = In(bronze) \union In(job[r].rows)
    BY <1>0, InPlus DEF TypeOK, Job
  <2> QED
    BY <2>1, <2>2 DEF Grows, In
<1>5. ASSUME NEW r \in Run, AppendSilver(r) PROVE Grows
  <2>1. /\ silver' = Plus(silver, With(job[r].rows, "accepted"))
        /\ raw' = raw /\ bronze' = bronze /\ rejected' = rejected
    BY <1>5 DEF AppendSilver, mongo
  <2>2. In(silver) \subseteq In(Plus(silver, With(job[r].rows, "accepted")))
    BY <1>0, InPlus, WithTyped DEF TypeOK, Job
  <2> QED
    BY <2>1, <2>2 DEF Grows, In
<1>6. ASSUME NEW r \in Run, AppendRejected(r) PROVE Grows
  <2>1. /\ rejected' = Plus(rejected, With(job[r].rows, "rejected"))
        /\ raw' = raw /\ bronze' = bronze /\ silver' = silver
    BY <1>6 DEF AppendRejected, mongo
  <2>2. In(rejected) \subseteq In(Plus(rejected, With(job[r].rows, "rejected")))
    BY <1>0, InPlus, WithTyped DEF TypeOK, Job
  <2> QED
    BY <2>1, <2>2 DEF Grows, In
<1>7. \/ UNCHANGED <<bronze, silver, rejected>>
      \/ \E r \in Run : \/ BootBronze(r) \/ BootTable(r) \/ AppendBronze(r)
                        \/ AppendSilver(r) \/ AppendRejected(r)
  BY ZenonT(30) DEF Next, Refresh, vars, Stamp, Store, Tick, StartBootstrap, ReadWatermark,
     Reapply, Begin, OpenExport, CloseExport, PlanBronze, Classify, ReadForGold, OverwriteOrCreate, Report, Fail,
     tables
<1> QED
  BY <1>1, <1>2, <1>3, <1>4, <1>5, <1>6, <1>7

\* A refresh that keeps its step and what it holds.
LEMMA HoldsOn ==
    ASSUME TypeOK, NEW q \in Run, LedgerOK(q), Grows, job'[q].step = job[q].step,
           job'[q].file = job[q].file, job'[q].seen = job[q].seen,
           job'[q].rows = job[q].rows, job'[q].table = job[q].table
    PROVE  LedgerOK(q)'
<1>1. In(job'[q].rows) = In(job[q].rows) /\ Shows(job[q].table) \subseteq Shows(job[q].table)'
  BY DEF In, Shows, Classified, Grows
<1>2. /\ job'[q].file \subseteq raw' /\ job'[q].seen \subseteq raw'
      /\ job'[q].step = "append" => In(job'[q].rows) \subseteq raw'
  BY <1>1 DEF LedgerOK, Grows
<1>3. job'[q].step = "create" =>
          /\ job'[q].table > 1
          /\ job'[q].table > 2 => job'[q].file \cap Sound \subseteq In(silver')
          /\ job'[q].table > 3 => job'[q].file \ Sound \subseteq In(rejected')
  BY DEF LedgerOK, Grows
<1>4. job'[q].step = "overwrite" => In(job'[q].rows) \subseteq Shows(job[q].table)'
  BY <1>1 DEF LedgerOK
<1> QED
  BY <1>2, <1>3, <1>4 DEF LedgerOK, Shows, In, Classified

\* A refresh that goes to a step where nothing but its file matters.
LEMMA HoldsFile ==
    ASSUME NEW q \in Run, LedgerOK(q), Grows, job'[q].file \subseteq raw, job'[q].seen \subseteq raw,
           job'[q].step \notin {"append", "create", "overwrite"}
    PROVE  LedgerOK(q)'
BY DEF LedgerOK, Grows

LEMMA LedgerStep ==
    ASSUME TypeOK, LedgerInv, Grows, [Next]_vars
    PROVE  LedgerInv'
<1>0. (\A q \in Run : job[q] \in Job /\ LedgerOK(q)) /\ job \in [Run -> Job]
  BY DEF TypeOK, LedgerInv
<1>1. CASE UNCHANGED job
  BY <1>0, <1>1, HoldsOn DEF LedgerInv
<1>2. ASSUME NEW r \in Run, NEW j \in Job, Begin(r, j), j.step \in {"export", "bronze"},
             j.file = job[r].file, j.seen = {}
      PROVE  LedgerInv'
  <2>1. /\ job'[r].step = j.step /\ job'[r].file = j.file /\ job'[r].seen = j.seen
    BY <1>2 DEF Begin, Job
  <2>2. LedgerOK(r)'
    BY <1>0, <1>2, <2>1, HoldsFile DEF LedgerOK
  <2>3. ASSUME NEW q \in Run, q # r PROVE LedgerOK(q)'
    <3>1. job'[q] = [job[q] EXCEPT !.alone = FALSE]
      BY <1>2, <2>3 DEF Begin
    <3>2. /\ job'[q].step = job[q].step /\ job'[q].file = job[q].file
          /\ job'[q].seen = job[q].seen /\ job'[q].rows = job[q].rows
          /\ job'[q].table = job[q].table
      BY <1>0, <3>1 DEF Job
    <3> QED
      BY <1>0, <3>2, HoldsOn
  <2> QED
    BY <2>2, <2>3 DEF LedgerInv
<1>3. ASSUME NEW r \in Run, StartBootstrap(r) \/ ReadWatermark(r) \/ Reapply(r)
      PROVE  LedgerInv'
  <2>1. Idle(job[r].file) \in Job
    BY <1>0, IdleTyped DEF Job
  <2>2. CASE StartBootstrap(r)
    <3> DEFINE new == [Idle(job[r].file) EXCEPT !.step = "export", !.full = TRUE]
    <3>1. new \in Job /\ new.step = "export" /\ new.file = job[r].file /\ new.seen = {}
      BY <2>1, FieldsTyped DEF Steps, Idle
    <3> QED
      BY <1>2, <2>2, <3>1 DEF StartBootstrap
  <2>3. CASE ReadWatermark(r)
    <3>1. PICK b \in In(bronze) :
             Begin(r, [Idle(job[r].file) EXCEPT !.step = "export",
                                               !.since = ingested_at[b] - Overlap])
      BY <2>3 DEF ReadWatermark
    <3> DEFINE new == [Idle(job[r].file) EXCEPT !.step = "export",
                                               !.since = ingested_at[b] - Overlap]
    <3>2. ingested_at[b] - Overlap \in Int
      BY DEF In, TypeOK
    <3>3. new \in Job /\ new.step = "export" /\ new.file = job[r].file /\ new.seen = {}
      BY ZenonT(30), <2>1, <3>2, FieldsTyped DEF Steps, Idle
    <3> QED
      BY <1>2, <3>1, <3>3
  <2>4. CASE Reapply(r)
    <3> DEFINE new == [Idle(job[r].file) EXCEPT !.step = "bronze"]
    <3>1. new \in Job /\ new.step = "bronze" /\ new.file = job[r].file /\ new.seen = {}
      BY <2>1, FieldsTyped DEF Steps, Idle
    <3> QED
      BY <1>2, <2>4, <3>1 DEF Reapply
  <2> QED
    BY <1>3, <2>2, <2>3, <2>4
<1>4. ASSUME NEW r \in Run, \A q \in Run \ {r} : job'[q] = job[q], LedgerOK(r)'
      PROVE  LedgerInv'
  <2>1. ASSUME NEW q \in Run, q # r PROVE LedgerOK(q)'
    BY <1>0, <1>4, <2>1, HoldsOn
  <2> QED
    BY <1>4, <2>1 DEF LedgerInv
<1>5. ASSUME NEW r \in Run, \/ OpenExport(r) \/ CloseExport(r) \/ BootBronze(r) \/ BootTable(r)
                            \/ PlanBronze(r) \/ AppendBronze(r) \/ Classify(r)
                            \/ AppendSilver(r) \/ AppendRejected(r)
                            \/ ReadForGold(r) \/ OverwriteOrCreate(r) \/ Report(r) \/ Fail(r)
      PROVE  LedgerInv'
  <2>0. \A q \in Run \ {r} : job'[q] = job[q]
    BY <1>0, <1>5 DEF OpenExport, CloseExport, BootBronze, BootTable, PlanBronze, AppendBronze,
       Classify, AppendSilver, AppendRejected, ReadForGold, OverwriteOrCreate, Report, Fail, To
  <2>1. job[r].file \subseteq raw /\ job[r].seen \subseteq raw
    BY <1>0 DEF LedgerOK
  <2>2. CASE OpenExport(r)
    <3>1. job'[r].file = job[r].file /\ job'[r].seen = raw /\ job'[r].step = "exporting"
      BY <1>0, <2>2 DEF OpenExport, Job
    <3> QED
      BY <1>0, <1>4, <2>0, <2>1, <3>1, HoldsFile
  <2>3. CASE CloseExport(r)
    <3>1. /\ job'[r].file \subseteq raw /\ job'[r].seen = {}
          /\ job'[r].step \in {"idle", "boot", "bronze"}
      <4>1. PICK late \in SUBSET (raw \ job[r].seen) :
               LET file == {e \in job[r].seen \union late :
                              job[r].full \/ ingested_at[e] > job[r].since}
               IN job' = [job EXCEPT ![r] =
                            IF file = {} THEN Idle(job[r].file)
                            ELSE [Idle(file) EXCEPT !.alone = job[r].alone,
                                    !.step = IF job[r].full THEN "boot" ELSE "bronze"]]
        BY <2>3 DEF CloseExport
      <4> DEFINE file == {e \in job[r].seen \union late :
                            job[r].full \/ ingested_at[e] > job[r].since}
      <4>2. file \subseteq raw
        BY <2>1
      <4>3. job'[r] = IF file = {} THEN Idle(job[r].file)
                      ELSE [Idle(file) EXCEPT !.alone = job[r].alone,
                              !.step = IF job[r].full THEN "boot" ELSE "bronze"]
        BY <1>0, <4>1
      <4> HIDE DEF file
      <4> QED
        BY <2>1, <4>2, <4>3 DEF Idle
    <3> QED
      BY <1>0, <1>4, <2>0, <3>1, HoldsFile
  <2>4. CASE BootBronze(r)
    <3>1. /\ job'[r].file = job[r].file /\ job'[r].seen = job[r].seen
          /\ job'[r].step = "create" /\ job'[r].table = 2
      BY <1>0, <2>4 DEF BootBronze, Job
    <3>2. LedgerOK(r)'
      BY <2>1, <3>1 DEF LedgerOK, Grows
    <3> QED
      BY <1>4, <2>0, <3>2
  <2>5. CASE BootTable(r)
    <3> DEFINE k == job[r].table
    <3>0. k \in 1..6 /\ job[r].file \in SUBSET Event
      BY <1>0 DEF Job, Tables
    <3>1. CASE k = 6
      <4>1. job'[r] = Idle(job[r].file)
        BY <1>0, <2>5, <3>1 DEF BootTable
      <4> QED
        BY <1>0, <1>4, <2>0, <2>1, <4>1, HoldsFile DEF Idle
    <3>2. CASE k # 6
      <4>1. /\ job'[r].file = job[r].file /\ job'[r].seen = job[r].seen
            /\ job'[r].step = "create" /\ job'[r].table = k + 1 /\ job[r].step = "create"
        BY <1>0, <2>5, <3>2 DEF BootTable, Job
      <4>2. k > 1 /\ (k > 2 => job[r].file \cap Sound \subseteq In(silver))
            /\ (k > 3 => job[r].file \ Sound \subseteq In(rejected))
        BY <1>0, <4>1 DEF LedgerOK
      <4>3. k = 2 => In(silver') = job[r].file \cap Sound
        <5>1. k = 2 => silver' = With(Rows(job[r].file), "accepted")
          BY <2>5 DEF BootTable
        <5>2. In(With(Rows(job[r].file), "accepted")) = job[r].file \cap Sound
          BY <3>0, RowsTyped, InWith, InRows
        <5> QED
          BY <5>1, <5>2
      <4>4. k = 3 => In(rejected') = job[r].file \ Sound
        <5>1. k = 3 => rejected' = With(Rows(job[r].file), "rejected")
          BY <2>5 DEF BootTable
        <5>2. In(With(Rows(job[r].file), "rejected")) = job[r].file \ Sound
          BY <3>0, RowsTyped, InWith, InRows
        <5> QED
          BY <5>1, <5>2
      <4>5. /\ job[r].file \cap Sound \subseteq In(silver')
            /\ k > 2 => job[r].file \ Sound \subseteq In(rejected')
        BY <3>0, <4>2, <4>3, <4>4 DEF Grows
      <4>6. LedgerOK(r)'
        BY <2>1, <3>0, <4>1, <4>2, <4>5 DEF LedgerOK, Grows
      <4> QED
        BY <1>4, <2>0, <4>6
    <3> QED
      BY <3>1, <3>2
  <2>6. CASE PlanBronze(r)
    <3> DEFINE unseen == {e \in job[r].file : bronze[e] = 0}
    <3>1. /\ job'[r].file = job[r].file /\ job'[r].seen = job[r].seen
          /\ job'[r].step \in {"silver", "append"} /\ job'[r].rows = Rows(unseen)
      BY <1>0, <2>6 DEF PlanBronze, Job
    <3>2. In(Rows(unseen)) = unseen
      BY <1>0, InRows DEF Job
    <3>3. In(job'[r].rows) \subseteq raw
      BY <2>1, <3>1, <3>2
    <3>4. LedgerOK(r)'
      BY <2>1, <3>1, <3>3 DEF LedgerOK, Grows
    <3> QED
      BY <1>4, <2>0, <3>4
  <2>7. CASE \/ AppendBronze(r) \/ Classify(r) \/ AppendSilver(r) \/ AppendRejected(r)
             \/ OverwriteOrCreate(r)
    <3>1. /\ job'[r].file = job[r].file /\ job'[r].seen = job[r].seen
          /\ job'[r].step \in {"silver", "accepted", "rejected", "gold", "report"}
      BY <1>0, <2>7 DEF AppendBronze, Classify, AppendSilver, AppendRejected, OverwriteOrCreate,
                        To, Job
    <3> QED
      BY <1>0, <1>4, <2>0, <2>1, <3>1, HoldsFile
  <2>8. CASE ReadForGold(r)
    <3>1. /\ job'[r].file = job[r].file /\ job'[r].seen = job[r].seen
          /\ job'[r].step = "overwrite" /\ job'[r].table = job[r].table
          /\ job'[r].rows = Rows(Shows(job[r].table))
      BY <1>0, <2>8 DEF ReadForGold, Job, Shows, Classified
    <3>2. In(Rows(Shows(job[r].table))) = Shows(job[r].table)
      BY InRows DEF Shows, Classified, In
    <3>3. Shows(job[r].table) \subseteq Shows(job[r].table)'
      BY <3>1 DEF Shows, Classified, Grows
    <3>4. LedgerOK(r)'
      BY <2>1, <3>1, <3>2, <3>3 DEF LedgerOK, Grows
    <3> QED
      BY <1>4, <2>0, <3>4
  <2>9. CASE Report(r) \/ Fail(r)
    <3>1. job'[r] = Idle(job[r].file)
      BY <1>0, <2>9 DEF Report, Fail
    <3> QED
      BY <1>0, <1>4, <2>0, <2>1, <3>1, HoldsFile DEF Idle
  <2> QED
    BY <1>5, <2>2, <2>3, <2>4, <2>5, <2>6, <2>7, <2>8, <2>9
<1>6. UNCHANGED job \/ \E r \in Run : Refresh(r)
  BY DEF Next, vars, Stamp, Store, Tick
<1> QED
  BY <1>1, <1>3, <1>5, <1>6 DEF Refresh

\* What the tables say of each other and of the source.
TablesInv ==
    /\ In(bronze) \subseteq raw
    /\ gold[4] \union gold[5] \subseteq In(silver)
    /\ gold[6] \subseteq Classified

LEMMA TablesStep ==
    ASSUME TypeOK, LedgerInv, TablesInv, Grows, [Next]_vars
    PROVE  TablesInv'
<1>0. \A q \in Run : job[q] \in Job /\ LedgerOK(q)
  BY DEF TypeOK, LedgerInv
<1>1. In(bronze') \subseteq raw'
  <2>1. CASE bronze' = bronze
    BY <2>1 DEF TablesInv, Grows, In
  <2>2. ASSUME NEW r \in Run, BootBronze(r) PROVE In(bronze') \subseteq raw'
    <3>1. bronze' = Rows(job[r].file) /\ job[r].file \in SUBSET Event /\ job[r].file \subseteq raw
      BY <1>0, <2>2 DEF BootBronze, Job, LedgerOK
    <3> QED
      BY <3>1, InRows DEF Grows
  <2>3. ASSUME NEW r \in Run, AppendBronze(r) PROVE In(bronze') \subseteq raw'
    <3>1. bronze' = Plus(bronze, job[r].rows) /\ In(job[r].rows) \subseteq raw
      BY <1>0, <2>3 DEF AppendBronze, LedgerOK
    <3>2. In(Plus(bronze, job[r].rows)) = In(bronze) \union In(job[r].rows)
      BY <1>0, InPlus DEF TypeOK, Job
    <3> QED
      BY <3>1, <3>2 DEF TablesInv, Grows
  <2>4. bronze' = bronze \/ \E r \in Run : BootBronze(r) \/ AppendBronze(r)
    BY DEF Next, Refresh, vars, Stamp, Store, Tick, StartBootstrap, ReadWatermark, Reapply, Begin,
       OpenExport, CloseExport, BootTable, PlanBronze, Classify, AppendSilver, AppendRejected,
       ReadForGold, OverwriteOrCreate, Report, Fail, tables
  <2> QED
    BY <2>1, <2>2, <2>3, <2>4
<1>2. ASSUME NEW k \in GoldTables, NEW S \in SUBSET Event, gold' = [gold EXCEPT ![k] = S],
             k = 6 => S \subseteq Classified', k # 6 => S \subseteq In(silver')
      PROVE  gold'[4] \union gold'[5] \subseteq In(silver') /\ gold'[6] \subseteq Classified'
  <2>1. In(silver) \subseteq In(silver') /\ Classified \subseteq Classified'
    BY DEF Grows, Classified
  <2>2. \A j \in GoldTables : gold'[j] = IF j = k THEN S ELSE gold[j]
    BY <1>2 DEF TypeOK
  <2>3. 4 \in GoldTables /\ 5 \in GoldTables /\ 6 \in GoldTables
    BY DEF GoldTables
  <2> QED
    BY <1>2, <2>1, <2>2, <2>3 DEF TablesInv
<1>3. gold'[4] \union gold'[5] \subseteq In(silver') /\ gold'[6] \subseteq Classified'
  <2>1. CASE gold' = gold
    BY <2>1 DEF TablesInv, Grows, Classified
  <2>2. ASSUME NEW r \in Run, BootTable(r), gold' # gold
        PROVE  gold'[4] \union gold'[5] \subseteq In(silver') /\ gold'[6] \subseteq Classified'
    <3> DEFINE k == job[r].table
               f == job[r].file
               S == IF k = 6 THEN f ELSE f \cap Sound
    <3>1. k \in GoldTables /\ gold' = [gold EXCEPT ![k] = S] /\ job[r].step = "create"
      BY <2>2 DEF BootTable
    <3>2. f \in SUBSET Event /\ f \cap Sound \subseteq In(silver) /\ f \ Sound \subseteq In(rejected)
      BY <1>0, <3>1 DEF LedgerOK, Job, GoldTables
    <3>3. f \subseteq Classified' /\ f \cap Sound \subseteq In(silver')
      BY <3>2 DEF Classified, Grows
    <3> QED
      BY ZenonT(30), <1>2, <3>1, <3>2, <3>3
  <2>3. ASSUME NEW r \in Run, OverwriteOrCreate(r)
        PROVE  gold'[4] \union gold'[5] \subseteq In(silver') /\ gold'[6] \subseteq Classified'
    <3> DEFINE k == job[r].table
               S == In(job[r].rows)
    <3>1. gold' = [gold EXCEPT ![k] = S] /\ job[r].step = "overwrite" /\ S \in SUBSET Event
      BY <2>3 DEF OverwriteOrCreate, In
    <3>2. S \subseteq IF k = 6 THEN Classified ELSE In(silver)
      BY <1>0, <3>1 DEF LedgerOK, Shows
    <3>3. (k = 6 => S \subseteq Classified') /\ (k # 6 => S \subseteq In(silver'))
      BY <3>2 DEF Classified, Grows
    <3>4. CASE k \in GoldTables
      BY <1>2, <3>1, <3>3, <3>4
    <3>5. CASE k \notin GoldTables
      BY <2>1, <3>1, <3>5 DEF TypeOK
    <3> QED
      BY <3>4, <3>5
  <2>4. gold' = gold \/ \E r \in Run : BootTable(r) \/ OverwriteOrCreate(r)
    BY DEF Next, Refresh, vars, Stamp, Store, Tick, StartBootstrap, ReadWatermark, Reapply, Begin,
       OpenExport, CloseExport, BootBronze, PlanBronze, AppendBronze, Classify, AppendSilver,
       AppendRejected, ReadForGold, Report, Fail, tables
  <2> QED
    BY <2>1, <2>2, <2>3, <2>4
<1> QED
  BY <1>1, <1>3 DEF TablesInv, In, Classified

\* Each step touches one of the four: the source, Bronze, the verdicts, the summaries.
LEMMA OneAtATime ==
    ASSUME TypeOK, [Next]_vars
    PROVE  \/ UNCHANGED tables
           \/ UNCHANGED <<raw, silver, rejected, gold>>
           \/ UNCHANGED <<raw, bronze, gold>>
           \/ UNCHANGED <<raw, bronze, silver, rejected>>
<1>1. \A r \in Run : BootTable(r) => \/ UNCHANGED <<raw, bronze, gold>>
                                     \/ UNCHANGED <<raw, bronze, silver, rejected>>
  BY DEF BootTable, mongo, GoldTables
<1>2. \A r \in Run : OverwriteOrCreate(r) => UNCHANGED <<raw, bronze, silver, rejected>>
  BY DEF OverwriteOrCreate, mongo
<1>3. \A r \in Run : AppendSilver(r) \/ AppendRejected(r) => UNCHANGED <<raw, bronze, gold>>
  BY DEF AppendSilver, AppendRejected, mongo
<1>4. \A r \in Run : BootBronze(r) \/ AppendBronze(r) => UNCHANGED <<raw, silver, rejected, gold>>
  BY DEF BootBronze, AppendBronze, mongo
<1>5. \/ UNCHANGED tables
      \/ \E r \in Run : \/ BootBronze(r) \/ BootTable(r) \/ AppendBronze(r) \/ AppendSilver(r)
                        \/ AppendRejected(r) \/ OverwriteOrCreate(r)
  BY ZenonT(30) DEF Next, Refresh, vars, Stamp, Store, Tick, StartBootstrap, ReadWatermark,
     Reapply, Begin, OpenExport, CloseExport, PlanBronze, Classify, ReadForGold, Report, Fail, tables
<1> QED
  BY <1>1, <1>2, <1>3, <1>4, <1>5

BooksInv ==
    /\ TypeOK /\ CreatedInv /\ FreshInv /\ ReportInv /\ LedgerInv /\ TablesInv

\* ImplementsLedger (create_table, the anti-joins, refresh-iceberg-dashboard.sh): however
\* refreshes and bootstraps overlap, fail and are repeated, the tables are books kept in
\* order: events come from MongoDB into Bronze and get one verdict, nothing is taken back,
\* and Gold summarises nothing else.
THEOREM Implements == Spec => ImplementsLedger
<1>1. Init => BooksInv
  <2> SUFFICES ASSUME Init PROVE BooksInv
    OBVIOUS
  <2>1. \A r \in Run : /\ job[r].step = "idle" /\ job[r].file = {} /\ job[r].seen = {}
                       /\ ~job[r].alone
    BY DEF Init, Idle
  <2>2. In(bronze) = {} /\ In(silver) = {} /\ In(rejected) = {}
    BY InNone DEF Init
  <2>3. gold[4] = {} /\ gold[5] = {} /\ gold[6] = {}
    BY DEF Init, GoldTables
  <2>4. CreatedInv /\ FreshInv /\ LedgerInv /\ TablesInv
    BY <2>1, <2>2, <2>3 DEF CreatedInv, NeedsBronze, FreshInv, LedgerInv, LedgerOK, TablesInv
  <2>5. ReportInv
    BY <2>1, <2>2 DEF ReportInv, Sorted, Classified, StepOK, AloneOK
  <2> QED
    BY <2>4, <2>5, TypeInit DEF BooksInv
<1>2. BooksInv /\ [Next]_vars => BooksInv' /\ Grows
  BY TypeStep, CreatedStep, FreshStep, ReportStep, GrowsStep, LedgerStep, TablesStep DEF BooksInv
<1>3. Init => Ledger!Init
  BY InNone DEF Init, GoldTables, Ledger!Init
<1>4. BooksInv /\ BooksInv' /\ Grows /\ [Next]_vars => [Ledger!Next]_(Ledger!vars)
  <2> SUFFICES ASSUME BooksInv, BooksInv', Grows, [Next]_vars
               PROVE  Ledger!Next \/ UNCHANGED Ledger!vars
    OBVIOUS
  <2>1. CASE UNCHANGED tables
    <3>1. /\ In(bronze') = In(bronze) /\ In(silver') = In(silver) /\ In(rejected') = In(rejected)
          /\ gold' = gold /\ raw \subseteq raw' /\ raw' \subseteq Event
      BY <2>1 DEF tables, Grows, BooksInv, TypeOK
    <3>2. Ledger!Arrive
      BY <3>1 DEF Ledger!Arrive, In
    <3> QED
      BY <3>2 DEF Ledger!Next
  <2>2. CASE UNCHANGED <<raw, silver, rejected, gold>>
    <3>1. Ledger!Load
      BY <2>2 DEF Ledger!Load, Grows, BooksInv, TablesInv, In
    <3> QED
      BY <3>1 DEF Ledger!Next
  <2>3. CASE UNCHANGED <<raw, bronze, gold>>
    <3>1. In(silver') \union In(rejected') \subseteq In(bronze)
      BY <2>3 DEF BooksInv, ReportInv, Classified, In
    <3>2. In(silver') \cap In(rejected') = {}
      BY DEF BooksInv, ReportInv, Sorted, In
    <3>3. Ledger!Judge
      BY <2>3, <3>1, <3>2 DEF Ledger!Judge, Grows, In
    <3> QED
      BY <3>3 DEF Ledger!Next
  <2>4. CASE UNCHANGED <<raw, bronze, silver, rejected>>
    <3>1. gold'[4] \union gold'[5] \subseteq In(silver) /\ gold'[6] \subseteq Classified
      BY <2>4 DEF BooksInv, TablesInv, Classified, In
    <3>2. Ledger!Summarise
      BY <2>4, <3>1 DEF Ledger!Summarise, Ledger!ledger, Classified, In
    <3> QED
      BY <3>2 DEF Ledger!Next
  <2> QED
    BY <2>1, <2>2, <2>3, <2>4, OneAtATime DEF BooksInv
<1> QED
  BY <1>1, <1>2, <1>3, <1>4, PTL DEF Spec, ImplementsLedger, Ledger!Spec
=============================================================================
