-------------------------- MODULE MongoMaintenance --------------------------
(***************************************************************************)
(* What keeps the two collections of MongoDB in order beside the writer's   *)
(* own loop: prepare_indexes of consumer/mongodb_consumer.py, which moves    *)
(* documents and TTL indexes of an earlier version from observed_at to       *)
(* ingested_at at every start; the TTL monitor of MongoDB; and the backup    *)
(* and restore of consumer/mongodb_transfer.py with the two scripts around   *)
(* them.  None of them takes a lock.                                        *)
(*                                                                         *)
(* The log holds the events of one aircraft, a newer one each time.  A raw   *)
(* document is its event, the live document the event it shows.             *)
(***************************************************************************)
EXTENDS Integers, FiniteSets

CONSTANTS
    MaxEvent,   \* the log is 1..MaxEvent
    Legacy,     \* the events 1..Legacy were stored by the earlier version, without ingested_at
    Writer,     \* consumer processes (two of them during a rolling update)
    BatchSize,  \* BATCH_SIZE
    MaxUpsets   \* bound on kills and failing calls

ASSUME MaintenanceAssumption ==
    /\ MaxEvent \in Nat /\ BatchSize \in Nat \ {0} /\ MaxUpsets \in Nat
    /\ Legacy \in 0..MaxEvent

Event == 1..MaxEvent
Coll == {"raw", "live"}
Nothing == [c \in Coll |-> {}]
Docs == [Coll -> SUBSET Event]
Archive == [docs : Docs, bare : Docs]
Empty == [docs |-> Nothing, bare |-> Nothing]

VARIABLES
    platform,  \* compose: one consumer, and the scripts; kubernetes: a rolling update
               \* runs two consumers
    dateless,  \* the events of the earlier version without a date in observed_at
    docs,      \* docs[c]: the documents of collection c
    bare,      \* bare[c]: those of them without ingested_at
    index,     \* index[c]: its TTL indexes
    aged,      \* how many events are older than a retention
    next,      \* the next event of the log that is not committed
    writer,    \* writer[w]: where process w is, and the old indexes it will drop
    backup,    \* where backup-mongodb.sh is and what it has read
    archive,   \* the latest archive (at first one of an empty database)
    restore,   \* where restore-mongodb.sh is and what it holds
    upsets

data == <<docs, bare, index>>
mmVars == <<platform, dateless, data, aged, next, writer, backup, archive, restore, upsets>>

\* old: idx_..._observed_at_ttl exists; ttl: the index idx_..._ingested_at_ttl is missing,
\* is on another key, has another retention, or is as configured.
Index == [old : BOOLEAN, ttl : {"none", "foreign", "other", "right"}]
WriterStep == {"down", "stamp_raw", "stamp_live", "ttl_raw", "verify_raw", "ttl_live",
               "verify_live", "check", "drop_raw", "drop_live", "poll", "half"}
RestoreStep == {"idle", "count", "import", "drop_raw", "drop_live", "read", "rest_raw",
                "rest_live"}

\* The step that serves collection c.
StampStep(c) == IF c = "raw" THEN "stamp_raw" ELSE "stamp_live"
TtlStep(c) == IF c = "raw" THEN "ttl_raw" ELSE "ttl_live"
VerifyStep(c) == IF c = "raw" THEN "verify_raw" ELSE "verify_live"
DropStep(c) == IF c = "raw" THEN "drop_raw" ELSE "drop_live"
RestStep(c) == IF c = "raw" THEN "rest_raw" ELSE "rest_live"

NoRestore == [step |-> "idle", replace |-> FALSE, source |-> Empty, todo |-> Nothing,
              batch |-> Nothing, done |-> FALSE, alone |-> TRUE, follow |-> FALSE]

Off == [step |-> "down", drop |-> {}, late |-> FALSE]

\* Either a new database or one of the earlier version, whose collections may already
\* have the index on ingested_at with the retention of an earlier configuration, or an
\* index of its name on another key.
MmInit ==
    /\ \/ /\ docs = Nothing /\ dateless = {}
          /\ index = [c \in Coll |-> [old |-> FALSE, ttl |-> "none"]]
       \/ /\ docs = [c \in Coll |-> IF c = "raw" THEN 1..Legacy ELSE {Legacy} \cap Event]
          /\ dateless \in SUBSET (1..Legacy)
          /\ index \in [Coll -> {[old |-> TRUE, ttl |-> t] : t \in {"none", "foreign", "other"}}]
    /\ bare = docs
    /\ platform \in {"compose", "kubernetes"}
    /\ aged = 0 /\ next = Legacy + 1
    /\ writer = [w \in Writer |-> Off]
    /\ backup = [step |-> "idle", read |-> Empty]
    /\ archive = Empty
    /\ restore = NoRestore
    /\ upsets = 0

Upset == upsets < MaxUpsets /\ upsets' = upsets + 1

-----------------------------------------------------------------------------
(* The writer's start: prepare_indexes.                                    *)

Goes(w, step) == writer' = [writer EXCEPT ![w] = IF step = "down" THEN Off
                                                 ELSE [@ EXCEPT !.step = step]]
Calm == UNCHANGED <<aged, next, backup, archive, restore, upsets>>

\* History: restore learns that a writer ran beside it, the writer that a restore did.
Run(w) ==
    /\ writer[w].step = "down"
    /\ platform = "compose" => w = CHOOSE v \in Writer : TRUE
    /\ writer' = [writer EXCEPT ![w].step = "stamp_raw", ![w].late = restore.step # "idle"]
    /\ restore' = [restore EXCEPT !.alone = FALSE]
    /\ UNCHANGED <<data, aged, next, backup, archive, upsets>>

\* Killed, or a call failed: the process ends.  A failing
\* update_many may have reached some of the documents.
Down(w) ==
    /\ writer[w].step # "down" /\ Upset
    /\ Goes(w, "down")
    /\ \/ UNCHANGED bare
       \/ \E c \in Coll, S \in SUBSET Event :
            writer[w].step = StampStep(c) /\ bare' = [bare EXCEPT ![c] = @ \ S]
    /\ UNCHANGED <<docs, index, aged, next, backup, archive, restore>>

\* The operator stops the consumer, or SIGTERM ends a pod, between two messages.
Stop(w) ==
    /\ writer[w].step = "poll"
    /\ Goes(w, "down")
    /\ UNCHANGED data /\ Calm

\* Bug: the old index of a collection goes as soon as its documents are stamped.
BugDropEarly(w, c) ==
    /\ writer[w].step = StampStep(c)
    /\ bare' = [bare EXCEPT ![c] = {}]
    /\ index' = [index EXCEPT ![c].old = FALSE]
    /\ Goes(w, IF c = "raw" THEN "stamp_live" ELSE "ttl_raw")
    /\ UNCHANGED docs /\ Calm

\* Bug: only documents with a date in observed_at get their ingested_at.
BugDatedOnly(w, c) ==
    /\ writer[w].step = StampStep(c)
    /\ bare' = [bare EXCEPT ![c] = @ \cap dateless]
    /\ Goes(w, IF c = "raw" THEN "stamp_live" ELSE "ttl_raw")
    /\ UNCHANGED <<docs, index>> /\ Calm

\* Both update_many calls of one collection: afterwards each document there has
\* an ingested_at.
Stamp(w, c) ==
    /\ writer[w].step = StampStep(c)
    /\ bare' = [bare EXCEPT ![c] = {}]
    /\ Goes(w, IF c = "raw" THEN "stamp_live" ELSE "ttl_raw")
    /\ UNCHANGED <<docs, index>> /\ Calm

\* Bug: without collMod an existing index keeps its retention.
BugNoCollMod(w, c) ==
    /\ writer[w].step = TtlStep(c)
    /\ index' = [index EXCEPT ![c].ttl = IF @ = "none" THEN "right" ELSE @]
    /\ Goes(w, IF index[c].ttl = "foreign" THEN "down" ELSE VerifyStep(c))
    /\ UNCHANGED <<docs, bare>> /\ Calm

\* ensure_ttl_index up to its verification: create_index, or collMod.  An index of that
\* name on another key is an error: the process ends and leaves it as it is.
EnsureTtl(w, c) ==
    /\ writer[w].step = TtlStep(c)
    /\ IF index[c].ttl = "foreign"
       THEN Goes(w, "down") /\ UNCHANGED index
       ELSE Goes(w, VerifyStep(c)) /\ index' = [index EXCEPT ![c].ttl = "right"]
    /\ UNCHANGED <<docs, bare>> /\ Calm

\* The index is read again; if it is not what it should be the process ends.
VerifyTtl(w, c) ==
    /\ writer[w].step = VerifyStep(c)
    /\ Goes(w, IF index[c].ttl # "right" THEN "down"
               ELSE IF c = "raw" THEN "ttl_live" ELSE "check")
    /\ UNCHANGED data /\ Calm

\* The index names and the count of documents without ingested_at: the old indexes
\* go only when neither collection has such a document.
CheckMissing(w) ==
    /\ writer[w].step = "check"
    /\ writer' = [writer EXCEPT
         ![w].step = "drop_raw",
         ![w].drop = IF bare = Nothing THEN {c \in Coll : index[c].old} ELSE {}]
    /\ UNCHANGED data /\ Calm

\* drop_index; somebody else may have dropped it meanwhile, which is an error.  After
\* the last one the process subscribes.  History: a start that no restore overlapped
\* is the preparation that the last restore needed.
DropOld(w, c) ==
    /\ writer[w].step = DropStep(c)
    /\ IF c \notin writer[w].drop \/ index[c].old
       THEN /\ Goes(w, IF c = "raw" THEN "drop_live" ELSE "poll")
            /\ restore' = [restore EXCEPT !.follow = @ /\ (c = "raw" \/ writer[w].late)]
       ELSE Goes(w, "down") /\ UNCHANGED restore
    /\ index' = IF c \in writer[w].drop THEN [index EXCEPT ![c].old = FALSE] ELSE index
    /\ UNCHANGED <<docs, bare, aged, next, backup, archive, upsets>>

-----------------------------------------------------------------------------
(* The writer's loop, reduced: one owner of the partition at a time.        *)

WriteRaw(w) ==
    /\ writer[w].step = "poll" /\ next \in Event
    /\ \A v \in Writer : writer[v].step # "half"
    /\ docs' = [docs EXCEPT !["raw"] = @ \union {next}]
    /\ Goes(w, "half")
    /\ UNCHANGED <<bare, index>> /\ Calm

\* Bug: the live document is inserted beside the old one.
BugInsertLive(w) ==
    /\ writer[w].step = "half"
    /\ docs' = [docs EXCEPT !["live"] = @ \union {next}]
    /\ next' = next + 1
    /\ Goes(w, "poll")
    /\ UNCHANGED <<bare, index, aged, backup, archive, restore, upsets>>

\* Newer than the live document, or there is none: $replaceWith, else nothing.
WriteLive(w) ==
    /\ writer[w].step = "half"
    /\ IF \A e \in docs["live"] : e < next
       THEN /\ docs' = [docs EXCEPT !["live"] = {next}]
            /\ bare' = [bare EXCEPT !["live"] = {}]
       ELSE UNCHANGED <<docs, bare>>
    /\ next' = next + 1
    /\ Goes(w, "poll")
    /\ UNCHANGED <<index, aged, backup, archive, restore, upsets>>

\* Time passes; documents grow old in the order of the log.
GrowOld ==
    /\ aged + 1 < next
    /\ aged' = aged + 1
    /\ UNCHANGED <<data, next, writer, backup, archive, restore, upsets>>

\* Does a TTL index of c cover the document of e?  Such an index ignores a document
\* that has no date in its field.
Covered(c, e) ==
    \/ index[c].old /\ e \notin dateless
    \/ index[c].ttl \in {"other", "right"} /\ e \notin bare[c]

\* The TTL monitor deletes an old document that an index covers, sooner or later (the
\* longer retention of the live collection is a later moment).
Expire(c) ==
    /\ \E e \in docs[c] \cap 1..aged :
         /\ Covered(c, e)
         /\ docs' = [docs EXCEPT ![c] = @ \ {e}] /\ bare' = [bare EXCEPT ![c] = @ \ {e}]
    /\ UNCHANGED <<index, aged, next, writer, backup, archive, restore, upsets>>

-----------------------------------------------------------------------------
(* backup-mongodb.sh: one collection after the other, whoever writes.       *)

\* The cursor of raw_positions is opened.
BackupRaw ==
    /\ platform = "compose" /\ backup.step = "idle" /\ archive = Empty
    /\ backup' = [step |-> "live", read |-> [docs |-> [Nothing EXCEPT !["raw"] = docs["raw"]],
                                             bare |-> [Nothing EXCEPT !["raw"] = bare["raw"]]]]
    /\ UNCHANGED <<data, aged, next, writer, archive, restore, upsets>>

\* What a cursor without a snapshot may find, batch by batch: who came or went since it
\* was opened may be among it or not.
Meanwhile(before, now, found) ==
    before \cap now \subseteq found /\ found \subseteq before \union now

\* The cursor has reached its end; the one live document is read.  The archive gets its
\* name only when it is complete.
BackupLive ==
    /\ backup.step = "live"
    /\ \E found \in SUBSET Event, old \in SUBSET Event :
         /\ Meanwhile(backup.read.docs["raw"], docs["raw"], found)
         /\ Meanwhile(backup.read.bare["raw"], bare["raw"], old)
         /\ archive' = [docs |-> [docs EXCEPT !["raw"] = found],
                        bare |-> [bare EXCEPT !["raw"] = found \cap old]]
    /\ backup' = [step |-> "idle", read |-> Empty]
    /\ UNCHANGED <<data, aged, next, writer, restore, upsets>>

\* An unfinished archive is deleted.
BackupFails ==
    /\ backup.step = "live" /\ Upset
    /\ backup' = [step |-> "idle", read |-> Empty]
    /\ UNCHANGED <<data, aged, next, writer, archive, restore>>

-----------------------------------------------------------------------------
(* restore-mongodb.sh and import_database.                                 *)

RestoreOnly == UNCHANGED <<aged, next, writer, backup, archive>>
Proceeds(step) == restore' = [restore EXCEPT !.step = step]
Fails == restore' = [NoRestore EXCEPT !.follow = restore.follow]

\* No consumer is running: the script goes on.  It looks only once.
CheckStopped ==
    /\ platform = "compose" /\ restore.step = "idle"
    /\ \A w \in Writer : writer[w].step = "down"
    /\ restore' = [NoRestore EXCEPT !.step = "count", !.source = archive,
                                    !.todo = archive.docs, !.follow = TRUE]
    /\ RestoreOnly /\ UNCHANGED <<data, upsets>>

\* A filled database needs both flags, which the operator gave or not.
CountDocuments ==
    /\ restore.step = "count"
    /\ IF docs = Nothing THEN Proceeds("import")
       ELSE \/ restore' = [restore EXCEPT !.step = "import", !.replace = TRUE]
            \/ Fails
    /\ RestoreOnly /\ UNCHANGED <<data, upsets>>

\* The header has been read; the documents are counted once more.
BeginImport ==
    /\ restore.step = "import"
    /\ IF restore.replace THEN Proceeds("drop_raw")
       ELSE IF docs = Nothing THEN Proceeds("read") ELSE Fails
    /\ RestoreOnly /\ UNCHANGED <<data, upsets>>

\* drop() takes the indexes along.
DropCollection(c) ==
    /\ restore.step = DropStep(c)
    /\ docs' = [docs EXCEPT ![c] = {}] /\ bare' = [bare EXCEPT ![c] = {}]
    /\ index' = [index EXCEPT ![c] = [old |-> FALSE, ttl |-> "none"]]
    /\ restore' = [restore EXCEPT !.step = IF c = "raw" THEN "drop_live" ELSE "read"]
    /\ RestoreOnly /\ UNCHANGED upsets

\* insert_many, ordered, of the batch of c, then on to the given step.  A document
\* whose _id is there already ends the import after those before it.
InsertBatch(c, batch, then) ==
    LET clash == IF c = "raw" THEN batch \cap docs[c] ELSE IF docs[c] = {} THEN {} ELSE batch
    IN \E S \in SUBSET (batch \ clash) :
         /\ clash = {} => S = batch
         /\ docs' = [docs EXCEPT ![c] = @ \union S]
         /\ bare' = [bare EXCEPT ![c] = @ \union (S \cap restore.source.bare[c])]
         /\ IF clash = {} THEN restore' = then ELSE Fails

\* The next record; raw documents come first.  A full batch is inserted at once.
ReadRecord ==
    LET c == IF restore.todo["raw"] # {} THEN "raw" ELSE "live"
    IN /\ restore.step = "read"
       /\ \E e \in restore.todo[c] :
            LET batch == restore.batch[c] \union {e}
                rest == [restore EXCEPT !.todo[c] = @ \ {e}]
            IN IF Cardinality(batch) >= BatchSize
               THEN InsertBatch(c, batch, [rest EXCEPT !.batch[c] = {}])
               ELSE restore' = [rest EXCEPT !.batch[c] = batch] /\ UNCHANGED <<docs, bare>>
       /\ RestoreOnly /\ UNCHANGED <<index, upsets>>

\* Bug: the batches that did not get full are forgotten.
BugRestForgotten ==
    /\ restore.step = "read" /\ restore.todo = Nothing
    /\ restore' = [restore EXCEPT !.step = "idle", !.done = TRUE]
    /\ RestoreOnly /\ UNCHANGED <<data, upsets>>

EndOfArchive ==
    /\ restore.step = "read" /\ restore.todo = Nothing
    /\ Proceeds("rest_raw")
    /\ RestoreOnly /\ UNCHANGED <<data, upsets>>

\* The batches that did not get full.
InsertRest(c) ==
    /\ restore.step = RestStep(c)
    /\ InsertBatch(c, restore.batch[c],
         IF c = "raw"
         THEN [restore EXCEPT !.step = "rest_live", !.batch[c] = {}]
         ELSE [restore EXCEPT !.step = "idle", !.batch[c] = {}, !.done = TRUE])
    /\ RestoreOnly /\ UNCHANGED <<index, upsets>>

\* A corrupt header or record, an error of MongoDB, a kill.
ImportFails ==
    /\ restore.step \notin {"idle", "count"} /\ Upset
    /\ Fails
    /\ RestoreOnly /\ UNCHANGED data

-----------------------------------------------------------------------------
Consumer(w) ==
    \/ Run(w) \/ CheckMissing(w) \/ WriteRaw(w) \/ WriteLive(w)
    \/ \E c \in Coll : Stamp(w, c) \/ EnsureTtl(w, c) \/ VerifyTtl(w, c) \/ DropOld(w, c)

Transfer ==
    \/ BackupRaw \/ BackupLive \/ BackupFails
    \/ CheckStopped \/ CountDocuments \/ BeginImport \/ ReadRecord \/ EndOfArchive \/ ImportFails
    \/ \E c \in Coll : DropCollection(c) \/ InsertRest(c)

MmNext ==
    /\ \/ \E w \in Writer : Consumer(w) \/ Down(w) \/ Stop(w)
       \/ Transfer \/ GrowOld \/ \E c \in Coll : Expire(c)
    /\ UNCHANGED <<platform, dateless>>

SomeConsumer == UNCHANGED <<platform, dateless>> /\ \E w \in Writer : Consumer(w)

MmSpec == MmInit /\ [][MmNext]_mmVars

\* A container or pod is started again after it ended, and each call ends.
MmFairness == WF_mmVars(SomeConsumer)

-----------------------------------------------------------------------------
\* Types; the live collection has one document per aircraft, and each document without
\* ingested_at is a document of its collection.
MmTypeOK ==
    /\ docs \in Docs /\ bare \in Docs /\ index \in [Coll -> Index]
    /\ dateless \subseteq 1..Legacy
    /\ \A c \in Coll : bare[c] \subseteq docs[c]
    /\ Cardinality(docs["live"]) <= 1
    /\ aged \in 0..MaxEvent /\ next \in 1..(MaxEvent + 1) /\ upsets \in 0..MaxUpsets
    /\ writer \in [Writer -> [step : WriterStep, drop : SUBSET Coll, late : BOOLEAN]]
    /\ backup \in [step : {"idle", "live"}, read : Archive] /\ archive \in Archive
    /\ restore \in [step : RestoreStep, replace : BOOLEAN, source : Archive, todo : Docs,
                    batch : Docs, done : BOOLEAN, alone : BOOLEAN, follow : BOOLEAN]

\* No start, also one that was cut short and repeated, takes a document out of the reach
\* of the TTL monitor: one with a date is covered at each moment, one of the earlier
\* version without a date, which the old index ignored, from the moment the old index
\* of its collection is gone.  A restore, also a failed one, may leave documents
\* uncovered until the next start; of that time this says nothing.
EveryDocExpires ==
    ~restore.follow => \A c \in Coll : \A e \in docs[c] :
        /\ e \notin dateless => Covered(c, e)
        /\ ~index[c].old => Covered(c, e)

\* A writer that polls has brought the database in order, unless it was started
\* beside a restore: both TTL indexes are as configured, every document has its
\* ingested_at, and the indexes of the earlier version are gone.
PollingPrepared ==
    \A w \in Writer : (writer[w].step \in {"poll", "half"} /\ ~writer[w].late) =>
        /\ bare = Nothing
        /\ \A c \in Coll : index[c] = [old |-> FALSE, ttl |-> "right"]

\* An index of the configured name on another key ends every start, and safely: the old
\* index of its collection is still there.  Past that, no step of a start that overlaps
\* no restore raises by itself: the verification finds the index as configured, the
\* count finds no document without ingested_at (so the old indexes do go), and under
\* compose the index to drop is there.
StartsGoOn ==
    /\ \A c \in Coll : index[c].ttl = "foreign" => index[c].old
    /\ \A w \in Writer : ~writer[w].late =>
        /\ \A c \in Coll : writer[w].step = VerifyStep(c) => index[c].ttl = "right"
        /\ writer[w].step = "check" => bare = Nothing
        /\ platform = "compose" =>
               \A c \in writer[w].drop : writer[w].step = DropStep(c) => index[c].old

\* A restore that reported success put back every archived document; later only age
\* removes it and only a newer event replaces the live one.  And if no writer was
\* started after the script looked, nothing of the former contents is left.
RestoreComplete ==
    restore.done =>
        /\ \A e \in restore.source.docs["raw"] : e \in docs["raw"] \/ e <= aged
        /\ \A e \in restore.source.docs["live"] :
               e <= aged \/ \E f \in docs["live"] : f >= e
        /\ restore.alone => \A c \in Coll : docs[c] \subseteq restore.source.docs[c]

\* Unless restores go on for ever, or somebody made an index of the configured name on
\* another key, a writer always gets to polling again: no start that was cut short, no
\* second writer and no restore leaves a state in which the preparation fails each time.
ConsumerReturns ==
    []<>(restore.step # "idle")
    \/ []<>(\E c \in Coll : index[c].ttl = "foreign")
    \/ []<>(\E w \in Writer : writer[w].step \in {"poll", "half"})

=============================================================================
