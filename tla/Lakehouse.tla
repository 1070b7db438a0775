------------------------------ MODULE Lakehouse ------------------------------
(***************************************************************************)
(* The Iceberg lakehouse beside the live system: spark/jobs/iceberg_*.py    *)
(* chained by scripts/refresh-iceberg-dashboard.sh.  A refresh reads the    *)
(* watermark of Bronze, exports raw_positions from MongoDB behind it,       *)
(* appends the unseen events to Bronze, classifies into Silver/Rejected,    *)
(* overwrites the three Gold tables and writes a report.  Refreshes take no *)
(* lock, may fail after any step, are started again by hand, and run while  *)
(* the consumer goes on writing to MongoDB.                                 *)
(*                                                                         *)
(* A table is a bag: the number of rows it holds of each event.  Of a Gold  *)
(* table only which events it summarises is kept.                          *)
(***************************************************************************)
EXTENDS Integers, FiniteSets

CONSTANTS
    Event,      \* events by event_id
    Sound,      \* the events that pass every rule of add_quality_columns
    Run,        \* refreshes that may be under way at the same time
    Overlap,    \* --overlap-minutes
    MaxLag,     \* longest time between the producer's stamp and the MongoDB write
    MaxExport,  \* longest time an export's cursor is open
    MaxTime     \* bound on clock

ASSUME LakehouseAssumption ==
    /\ Sound \subseteq Event
    /\ IsFiniteSet(Run)
    /\ Overlap \in Nat /\ MaxLag \in Nat /\ MaxExport \in Nat /\ MaxTime \in Nat \ {0}

VARIABLES
    clock,        \* minutes, say
    ingested_at,  \* the producer's stamp of each event, 0 before it is produced
    raw,          \* MongoDB raw_positions
    bronze, silver, rejected,
    gold,         \* gold[k]: the events that table k of Tables summarises
    created,      \* how many of the six tables exist, in the order of Tables
    job           \* job[r]: where refresh r is and what it holds

vars == <<clock, ingested_at, raw, bronze, silver, rejected, gold, created, job>>
tables == <<bronze, silver, rejected, gold, created>>
mongo == <<clock, ingested_at, raw>>

\* bronze_positions, silver_positions, silver_rejected_positions,
\* gold_hourly_traffic, gold_hourly_activity, gold_data_quality
Tables == 1..6
GoldTables == 4..6

QualityStatus(e) == IF e \in Sound THEN "accepted" ELSE "rejected"

Bag == [Event -> Nat]
None == [e \in Event |-> 0]
Rows(S) == [e \in Event |-> IF e \in S THEN 1 ELSE 0]
Plus(t, u) == [e \in Event |-> t[e] + u[e]]
In(t) == {e \in Event : t[e] > 0}
With(t, status) == [e \in Event |-> IF QualityStatus(e) = status THEN t[e] ELSE 0]

Steps == {"idle", "export", "exporting", "boot", "create", "bronze", "append",
          "silver", "accepted", "rejected", "gold", "overwrite", "report"}
Job == [step : Steps,
        full : BOOLEAN,         \* a bootstrap: export everything, create the tables
        since : Int,            \* EXPORT_SINCE
        opened : 0..MaxTime,    \* when the export's cursor was opened ...
        seen : SUBSET Event,    \* ... and what the collection held then
        file : SUBSET Event,    \* the last complete export file
        rows : Bag,             \* what the next commit writes
        table : Tables,         \* the next table to create or overwrite
        alone : BOOLEAN]        \* history: no other refresh ran beside this one

Idle(file) == [step |-> "idle", full |-> FALSE, since |-> 0, opened |-> 0, seen |-> {},
               file |-> file, rows |-> None, table |-> 1, alone |-> FALSE]

Init ==
    /\ clock = 1 /\ ingested_at = [e \in Event |-> 0] /\ raw = {}
    /\ bronze = None /\ silver = None /\ rejected = None
    /\ gold = [k \in GoldTables |-> {}] /\ created = 0
    /\ job = [r \in Run |-> Idle({})]

-----------------------------------------------------------------------------
(* The live system, and time.                                              *)

\* create_event and normalize_state stamp ingested_at at the poll.
Stamp(e) ==
    /\ ingested_at[e] = 0
    /\ ingested_at' = [ingested_at EXCEPT ![e] = clock]
    /\ UNCHANGED <<clock, raw, tables, job>>

\* The consumer writes the event with that stamp, at most MaxLag later (Tick).
Store(e) ==
    /\ ingested_at[e] > 0 /\ e \notin raw
    /\ raw' = raw \union {e}
    /\ UNCHANGED <<clock, ingested_at, tables, job>>

Tick ==
    /\ clock < MaxTime
    /\ \A e \in Event \ raw : ingested_at[e] > 0 => clock < ingested_at[e] + MaxLag
    /\ \A r \in Run : job[r].step = "exporting" => clock < job[r].opened + MaxExport
    /\ clock' = clock + 1
    /\ UNCHANGED <<ingested_at, raw, tables, job>>

-----------------------------------------------------------------------------
(* One refresh.                                                            *)

\* r starts with the given job; every refresh already under way has company now.
Begin(r, new) ==
    /\ job[r].step = "idle"
    /\ job' = [q \in Run |->
                 IF q = r
                 THEN [new EXCEPT !.alone = \A o \in Run \ {r} : job[o].step = "idle"]
                 ELSE [job[q] EXCEPT !.alone = FALSE]]
    /\ UNCHANGED <<mongo, tables>>

To(r, step) == job' = [job EXCEPT ![r].step = step]

\* Any step may fail, or the operator stop after the dry run: the script ends.
Fail(r) ==
    /\ job[r].step # "idle"
    /\ job' = [job EXCEPT ![r] = Idle(job[r].file)]
    /\ UNCHANGED <<mongo, tables>>

\* iceberg_positions on a full export.
StartBootstrap(r) ==
    Begin(r, [Idle(job[r].file) EXCEPT !.step = "export", !.full = TRUE])

\* Bug: the export starts at the watermark itself, without the overlap.
BugNoOverlap(r) ==
    \E b \in In(bronze) :
        /\ \A c \in In(bronze) : ingested_at[c] <= ingested_at[b]
        /\ Begin(r, [Idle(job[r].file) EXCEPT !.step = "export", !.since = ingested_at[b]])

\* The watermark is the largest ingested_at of Bronze; an empty Bronze raises.
ReadWatermark(r) ==
    \E b \in In(bronze) :
        /\ \A c \in In(bronze) : ingested_at[c] <= ingested_at[b]
        /\ Begin(r, [Idle(job[r].file) EXCEPT !.step = "export",
                                             !.since = ingested_at[b] - Overlap])

\* The operator applies the last complete export file once more.
Reapply(r) ==
    /\ job[r].file # {} /\ created >= 1
    /\ Begin(r, [Idle(job[r].file) EXCEPT !.step = "bronze"])

OpenExport(r) ==
    /\ job[r].step = "export"
    /\ job' = [job EXCEPT ![r].step = "exporting", ![r].opened = clock, ![r].seen = raw]
    /\ UNCHANGED <<mongo, tables>>

\* The cursor is no snapshot: it may return what is written while it is open.
\* An empty export fails; only a complete one is moved to its name.
CloseExport(r) ==
    /\ job[r].step = "exporting"
    /\ \E late \in SUBSET (raw \ job[r].seen) :
         LET file == {e \in job[r].seen \union late :
                        job[r].full \/ ingested_at[e] > job[r].since}
         IN job' = [job EXCEPT ![r] =
                      IF file = {} THEN Idle(job[r].file)
                      ELSE [Idle(file) EXCEPT !.alone = job[r].alone,
                              !.step = IF job[r].full THEN "boot" ELSE "bronze"]]
    /\ UNCHANGED <<mongo, tables>>

\* Bug: an existing Bronze is replaced.
BugCreateOrReplace(r) ==
    /\ job[r].step = "boot"
    /\ bronze' = Rows(job[r].file) /\ created' = IF created = 0 THEN 1 ELSE created
    /\ job' = [job EXCEPT ![r].step = "create", ![r].table = 2]
    /\ UNCHANGED <<mongo, silver, rejected, gold>>

\* The first create() of a bootstrap: an existing Bronze makes it raise.
BootBronze(r) ==
    /\ job[r].step = "boot" /\ created = 0
    /\ bronze' = Rows(job[r].file) /\ created' = 1
    /\ job' = [job EXCEPT ![r].step = "create", ![r].table = 2]
    /\ UNCHANGED <<mongo, silver, rejected, gold>>

\* The other five, one commit each, all computed from the export file.  A table
\* that a Gold refresh has created in between makes create() raise.
BootTable(r) ==
    LET k == job[r].table
        rows == Rows(job[r].file)
    IN /\ job[r].step = "create" /\ created = k - 1
       /\ created' = k
       /\ silver' = IF k = 2 THEN With(rows, "accepted") ELSE silver
       /\ rejected' = IF k = 3 THEN With(rows, "rejected") ELSE rejected
       /\ gold' = IF k \in GoldTables
                  THEN [gold EXCEPT ![k] = IF k = 6 THEN job[r].file ELSE job[r].file \cap Sound]
                  ELSE gold
       /\ job' = [job EXCEPT ![r] = IF k = 6 THEN Idle(job[r].file)
                                    ELSE [job[r] EXCEPT !.table = k + 1]]
       /\ UNCHANGED <<mongo, bronze>>

\* Bug: the export is appended whole, without the anti-join.
BugNoAntiJoin(r) ==
    /\ job[r].step = "bronze"
    /\ job' = [job EXCEPT ![r].step = "append", ![r].rows = Rows(job[r].file)]
    /\ UNCHANGED <<mongo, tables>>

\* Anti-join of the export with Bronze; nothing unseen: Bronze stays as it is.
PlanBronze(r) ==
    LET unseen == {e \in job[r].file : bronze[e] = 0}
    IN /\ job[r].step = "bronze"
       /\ job' = [job EXCEPT ![r].step = IF unseen = {} THEN "silver" ELSE "append",
                             ![r].rows = Rows(unseen)]
       /\ UNCHANGED <<mongo, tables>>

AppendBronze(r) ==
    /\ job[r].step = "append"
    /\ bronze' = Plus(bronze, job[r].rows)
    /\ job' = [job EXCEPT ![r].step = "silver", ![r].rows = None]
    /\ UNCHANGED <<mongo, silver, rejected, gold, created>>

\* Bug: only the events of the last export are classified.
BugClassifyBatch(r) ==
    /\ job[r].step = "silver" /\ created >= 3
    /\ In(silver) \cap In(rejected) = {}
    /\ job' = [job EXCEPT ![r].step = "accepted",
                 ![r].rows = Rows(job[r].file \ (In(silver) \union In(rejected)))]
    /\ UNCHANGED <<mongo, tables>>

\* Bug: as many rows are classified as Silver and Rejected are short of Bronze, which
\* two refreshes that overlap make less than none.
BugCountDifference(r) ==
    /\ job[r].step = "silver" /\ created >= 3
    /\ In(silver) \cap In(rejected) = {}
    /\ job' = [job EXCEPT ![r].step = "accepted",
                 ![r].rows = [e \in Event |-> bronze[e] - silver[e] - rejected[e]]]
    /\ UNCHANGED <<mongo, tables>>

\* Every Bronze row not classified yet, whichever batch brought it; an event
\* found in both Silver and Rejected makes the job raise.
Classify(r) ==
    /\ job[r].step = "silver" /\ created >= 3
    /\ In(silver) \cap In(rejected) = {}
    /\ job' = [job EXCEPT ![r].step = "accepted",
                 ![r].rows = [e \in Event |->
                                IF e \in In(silver) \union In(rejected) THEN 0 ELSE bronze[e]]]
    /\ UNCHANGED <<mongo, tables>>

AppendSilver(r) ==
    /\ job[r].step = "accepted"
    /\ silver' = Plus(silver, With(job[r].rows, "accepted"))
    /\ To(r, "rejected")
    /\ UNCHANGED <<mongo, bronze, rejected, gold, created>>

AppendRejected(r) ==
    /\ job[r].step = "rejected"
    /\ rejected' = Plus(rejected, With(job[r].rows, "rejected"))
    /\ job' = [job EXCEPT ![r].step = "gold", ![r].rows = None, ![r].table = 4]
    /\ UNCHANGED <<mongo, bronze, silver, gold, created>>

\* A Gold table is computed from what Silver and Rejected hold when it is read ...
ReadForGold(r) ==
    /\ job[r].step = "gold"
    /\ job' = [job EXCEPT ![r].step = "overwrite",
                 ![r].rows = Rows(IF job[r].table = 6 THEN In(silver) \union In(rejected)
                                    ELSE In(silver))]
    /\ UNCHANGED <<mongo, tables>>

\* ... and replaces the whole table, or creates it, in a commit of its own.
OverwriteOrCreate(r) ==
    LET k == job[r].table
    IN /\ job[r].step = "overwrite"
       /\ gold' = [gold EXCEPT ![k] = In(job[r].rows)]
       /\ created' = IF created < k THEN k ELSE created
       /\ job' = [job EXCEPT ![r].step = IF k = 6 THEN "report" ELSE "gold",
                             ![r].rows = None,
                             ![r].table = IF k = 6 THEN 6 ELSE k + 1]
       /\ UNCHANGED <<mongo, bronze, silver, rejected>>

\* The report only reads; with no Silver row max() raises: the script ends too.
Report(r) ==
    /\ job[r].step = "report"
    /\ job' = [job EXCEPT ![r] = Idle(job[r].file)]
    /\ UNCHANGED <<mongo, tables>>

Refresh(r) ==
    \/ StartBootstrap(r) \/ ReadWatermark(r) \/ Reapply(r)
    \/ OpenExport(r) \/ CloseExport(r) \/ BootBronze(r) \/ BootTable(r)
    \/ PlanBronze(r) \/ AppendBronze(r) \/ Classify(r)
    \/ AppendSilver(r) \/ AppendRejected(r)
    \/ ReadForGold(r) \/ OverwriteOrCreate(r) \/ Report(r) \/ Fail(r)

Next ==
    \/ \E e \in Event : Stamp(e) \/ Store(e)
    \/ Tick
    \/ \E r \in Run : Refresh(r)

Spec == Init /\ [][Next]_vars

-----------------------------------------------------------------------------
(* Properties.                                                             *)

\* Every variable keeps its type.
TypeOK ==
    /\ clock \in 1..MaxTime
    /\ ingested_at \in [Event -> 0..MaxTime]
    /\ raw \subseteq Event
    /\ bronze \in Bag /\ silver \in Bag /\ rejected \in Bag
    /\ gold \in [GoldTables -> SUBSET Event]
    /\ created \in 0..6
    /\ job \in [Run -> Job]

\* An event has at most one Bronze row per refresh that may run at a time, and one
\* Silver or Rejected row per Bronze row and refresh: exactly one when refreshes do
\* not overlap, however often a batch is applied again.  Overlapping refreshes do
\* duplicate it, because the jobs append what their anti-join computed before.
CopiesBounded ==
    \A e \in Event :
        /\ bronze[e] <= Cardinality(Run)
        /\ silver[e] + rejected[e] <= Cardinality(Run) * Cardinality(Run)

\* An event of MongoDB that an incremental export does not ask for is in Bronze
\* already: the filter on ingested_at hides nothing for good.
NothingBehindWatermark ==
    \A r \in Run, e \in raw :
        /\ job[r].step \in {"export", "exporting"} /\ ~job[r].full
        /\ ingested_at[e] <= job[r].since
        => e \in In(bronze)

\* Silver and Rejected never share an event: else iceberg_silver_refresh would
\* raise from then on and no later batch would reach Gold.
ClassifiedApart == In(silver) \cap In(rejected) = {}

\* A refresh that reaches its report with no other beside it shows all of Bronze,
\* whatever failed half-way before: traffic and activity exactly the accepted
\* events, quality every event.
ReportComplete ==
    \A r \in Run :
        job[r].step = "report" /\ job[r].alone =>
            /\ gold[4] = In(bronze) \cap Sound
            /\ gold[5] = gold[4]
            /\ gold[6] = In(bronze)

\* The ledger: no refresh, bootstrap, failure or repetition takes back what another one
\* has committed (create() never overwrites a table), loads what MongoDB never held,
\* judges what is not in Bronze, gives an event a second verdict, or summarises an
\* event without one.
Ledger == INSTANCE EventLedger
          WITH source <- raw, loaded <- In(bronze), accepted <- In(silver),
               rejected <- In(rejected), shown <- gold[4] \union gold[5], counted <- gold[6]

ImplementsLedger == Ledger!Spec
=============================================================================
