# TLA+ model of the flight data pipeline

This directory holds a formal model of the pipeline in `src/`: TLA+ modules for
its parts, TLC configurations that check them on small instances, and theorems
about them that TLAPS checks for every size. Paths below are relative to `src/`.

## 1. The system

    OpenSky -> producer -> Kafka topic aircraft.positions.raw.v1 (one partition)
                              |-> MongoDB writer -> raw_positions, live_positions
                              |        '-> dead-letter topic
                              '-> realtime gateway -> WebSocket sockets -.
            live_positions -> REST snapshot ------------------------------+-> browser
            raw_positions  -> export -> Iceberg Bronze -> Silver -> Gold -> report

| Component | Source | State it keeps | Operations |
|---|---|---|---|
| OpenSky producer | `producer/opensky_producer.py` | OAuth token and its expiry, local Kafka queue, delivery counters | poll OpenSky, retry once after 401, wait after 429, normalize, produce, flush |
| MongoDB writer | `consumer/mongodb_consumer.py` | the group's committed offset (in Kafka), `raw_positions`, `live_positions`, the dead-letter topic; per process: the message in hand, its attempt, the stop event | poll, decode, two upserts, retry with backoff, dead-letter, commit, stop, exit |
| Index preparation | same file, `prepare_indexes` | TTL and query indexes, `ingested_at` of old documents | fill the field, create or change and verify the new TTL index, drop the old one |
| Realtime gateway | `backend/app/kafka_gateway.py` | committed offset of its own group, pending batch, stop event | session, poll, queue, flush (broadcast, then commit), wait and retry |
| WebSocket manager | `backend/app/websocket_manager.py`, endpoint in `backend/app/main.py` | the set of registered sockets | connect, disconnect, broadcast with a time limit |
| Backend server | `backend/app/main.py`, `database.py` | the gateway task | lifespan; REST reads of both collections; health and metrics |
| Browser feed | `frontend/src/hooks/useAircraftFeed.ts` | shown map, pending updates, animation frame, syncing flag, socket and reconnect timer | snapshot refresh, socket events, frame |
| Browser application | `frontend/src/App.tsx`, components | selection, route history request | retry button, history request with abort, rendering |
| Topic administration | `kafka/admin.py` | topics and their configuration | create, configure, verify, retry |
| Backup and restore | `consumer/mongodb_transfer.py`, `scripts/*-mongodb.sh` | archive file, both collections | export, import with or without replacing |
| Iceberg jobs | `spark/jobs/`, `scripts/refresh-iceberg-dashboard.sh` | Bronze, Silver, Rejected, Gold tables, watermark | export since the watermark, anti-join append, dependent refreshes |

How they interact: the writer and the gateway are two consumer groups of the
same one-partition topic and never wait for each other. Both do their effect
first and commit by hand afterwards. The browser sees the one through REST and
the other through its socket, and merges the two by `observed_at` and
`kafka_offset`. `/health`, the metrics and the reports only read.

What makes it hard: every call to Kafka or MongoDB may fail after it was
applied; processes are killed, restarted and evicted from their group while they
go on working; the gateway's broadcast awaits many sockets while others join and
leave; the browser has a request in flight while messages arrive and frames
fire. What must hold regardless:

- writer: nothing below the committed offset is lost; a replay changes nothing,
  and both collections show the same prefix of the log;
  only what can never be stored is given up; the backlog is worked off;
- gateway: no commit ahead of its broadcast; no event skipped; a stop always ends it;
- sockets: a registered socket that is open missed nothing since it joined;
- browser: no received update is forgotten or hidden by an older snapshot;
- producer: a delivery that was not confirmed is reported as such, no expired or
  refused token is used, a rate limit is kept;
- Iceberg: no event hides behind the watermark, none is both accepted and
  rejected, and a report shows all of Bronze;
- databases: no start takes a document out of the reach of its TTL index, a writer polls only on a prepared
  database and its preparation does not defeat itself, a restore that reports
  success is complete;
- topics: what a command that reports success has found is still so, unless somebody
  changed it by hand since it looked.

`PROJECT.json` lists the hazards one by one, at their lines, with the properties
that watch them.

## 2. Modules

| Module | Models |
|---|---|
| `AtLeastOnce` | the abstract promise of a consumer group that commits by hand |
| `MongoWriter` | the MongoDB writer, all processes of the group |
| `WebSocketManager` | registered sockets and the broadcast |
| `RealtimeGateway` | extends it with the gateway task and the life of the backend |
| `AircraftFeed` | the browser's feed over a reduced pipeline |
| `OpenSkyProducer` | the producer, the OpenSky servers, librdkafka's queue |
| `TopicAdmin` | topic creation and verification beside manual changes |
| `MongoMaintenance` | index preparation, expiry, backup and restore |
| `Lakehouse` | the Iceberg jobs and the script that chains them |
| `EventLedger` | the abstract promise of the lakehouse: loaded, judged once, never taken back |
| `MongoWriterProofs`, `RealtimeGatewayProofs`, `AircraftFeedProofs`, `OpenSkyProducerProofs`, `TopicAdminProofs`, `LakehouseProofs`, `MongoMaintenanceProofs` | theorems about the module of that name |
| `MCMongoWriter`, `MCRealtimeGateway`, `MCAircraftFeed`, `MCOpenSkyProducer`, `MCLakehouse` | values of the constants for TLC |
| `MCSetup` | the sum of `TopicAdmin` and `MongoMaintenance` for TLC |

The operators named `Bug...` are not part of the model. Each is a plausible
mistake in the definition below it (a dropped guard, a swapped order, a missing
reset). Substituted for that definition it makes a property fail, which shows
that the property depends on that line of the code.

### AtLeastOnce

State: the log, the committed offset, the set of offsets whose effect is durable.
A step appends, delivers, or commits; a commit covers only what has had its
effect. The committed offset may move back: `consumer.commit` stores whatever
offset it is given. Both consumers are shown to implement this.

### EventLedger

State: what the source has stored, what is loaded, accepted and rejected, and what
the summaries were made of. Events arrive, are loaded and judged; a judgement needs
the loaded event and is given once; none of these sets ever shrinks. Summaries are
replaced as a whole and may lag, but show only what has its verdict. `Lakehouse` is
shown to implement it (`ImplementsLedger`), with Bronze, Silver and Rejected as sets
of events: how often an event is in them is the subject of `CopiesBounded`.

### MongoWriter

One action per call that changes state outside the process or decides what the
process does next; the order of `handle_message` is the order of the program
counter.

    down --Start--> poll --Poll--> write_raw --WriteRaw--> write_live --WriteLive--> commit --Commit--> poll
                     |  '(malformed)-> dlq      |  |            |                      ^
                     '--Shutdown--> down        |  '(transient)-'-> backoff --Retry--> write_raw
                                                |               |                      |
                                                '-(unstorable)--'-> dlq --PublishDlq---'
                                                                     '(oversize)-> down

| In the model | In the code |
|---|---|
| `log`, `committed`, `owner`, `position` | the partition, the group's committed offset, the coordinator's view, the client's next offset |
| `cur`, `attempt`, `stopping` | `message`, `attempt`, `stop_event` of one process |
| `raw`: documents `[_id, kafka_offset]` | `raw_positions`: `update_one({_id}, $setOnInsert, upsert)` (345-349) |
| `live[a]`: `[observed_at, kafka_offset]` | `live_positions`: the pipeline with `$type missing` or `$lt` (351-381) |
| `Key(o)` | `event_id`, else `topic:partition:offset` (335-337) |
| `WriteTransient`, `Retry`, `RetryInterrupted` | the retry loop of `process_with_retry` (467-488) |
| `WriteRefused`; `PublishDlq`, `PublishDlqFails`, `DlqRefused` | `PERMANENT_MONGO_ERRORS`; `DlqPublisher.publish`: confirmed, failed this time, an envelope `produce` refuses every time |
| `Exit` | `return 1` or an exception, then the `finally` of `run` (648-652) |
| `Crash`, `RequestStop`, `Assign`, `Revoked` | kill, SIGTERM, the group coordinator |

Payloads are reduced to what the program tells apart: what `decode_event` and
MongoDB will say of them (`kind`), their id, aircraft and time. Of the kinds, a
`poison` message fails at the insert into the history with an error on neither
list; a `halfway` one is inserted there and fails so at the live update (a string
that begins with `$` is data to `$setOnInsert` and a field path to the pipeline);
an `oversize` one is malformed and its base64 envelope is larger than a message to
the dead-letter topic may be. These three are `Stuck`: the process exits, is
started again and meets them again. Every failing
call may or may not have been applied. A process that lost the partition works
on until its client learns of it (`Revoked`), so zombies are included; a commit
of a non-owner is refused. Index preparation and expiry are in
`MongoMaintenance`. Not modelled: a second Kafka cluster, the `attempts` field of
the envelope (always 1 in the code).

### WebSocketManager and RealtimeGateway

| In the model | In the code |
|---|---|
| `open`, `joining`, `conns` | open in the browser; between `accept` and the lock in `connect`; `_connections` |
| `BeginBroadcast`, `SendOk`, `SendFails`, `EndBroadcast` | the snapshot under the lock, the `wait_for(send_json)` of each socket, `gather` and the discards |
| `pending` | `pending_batch` |
| `pc`: connecting, polling, flush, broadcasting, committing, waiting, ended | `list_topics`, the poll loop, `_flush_due_batch` up to and after its two awaits, the five-second wait of `run`, the task is over |
| `Assign`, `StartPosition`, `base` | start at the committed offset or at the end of the log (`auto.offset.reset: latest`); `base` remembers how far such starts jumped |
| `PollNull` | a message without a value: `AttributeError` leaves `run` |
| `published`, `since`, `received`, `refused` | history: what was broadcast, what a socket joined after, what reached it, what a failed commit left behind |

Time is left out: a batch may be due at any poll and must be flushed when full.
A send to a socket that has just closed may raise or return normally; in the second
case nothing is delivered and the socket stays registered until its endpoint's
`finally`. The group has one member: a rolling update, in which two backends share
the group for a moment, is not modelled.
The socket's own receive loop and the broadcast run in one event loop, so steps
between two awaits are atomic.

### AircraftFeed

The handlers of the hook are atomic, since JavaScript has one thread; the `await`
points of `refreshSnapshot` split it into request (`sent`), the server's answer
(`answered`), application (`applied`) and its end (`idle`). The server side is
reduced to how far it is: `stored` messages are in MongoDB, `sent` have ever been
broadcast and `next` is the one broadcast next (it falls back when a commit
failed). `Live(n)` is what MongoDB answers after n messages, with the writer's
tie rule; `Newer` is the browser's. The backend accepts a socket and registers it in
two steps (`Accept`, `Register`), and the browser may see it open between them;
`joined` says that broadcasts go to it. `lagged`, `during` and `held` (what MongoDB
held when the socket opened) are history.

### OpenSkyProducer

    loop -> token -> [post ->] get -> send -> flush -> wait -> loop
              ^------- 401 once --'     '-> full -'

| In the model | In the code |
|---|---|
| `token`: `left`, `valid`, `life`, `refused` | `access_token` with `token_expires_at` (`left`); what the servers think of it (`valid`); its `expires_in`; history: it was refused with a 401 |
| `GetAccessToken`, `TokenArrives`, `Unauthorized` | the cache of `get_access_token`, `max(expires_in - 60, 60)`, the loop of `fetch_states` |
| `RateLimited`, `RetrySeconds`, `embargo`, `told` | 429 and `get_retry_seconds`; how long OpenSky really goes on refusing, and whether this process was told |
| `MaxPolls` | `--max-polls`; 0 stands for the default, to poll for ever |
| `queue`, `reports`, `Serve` | librdkafka's queue, reports waiting for `poll` or `flush`, and their callbacks; `mine` and `old` tell the current poll from earlier ones |
| `ProduceRecord`, `QueueFull` | `produce` and the `BufferError` loop |
| `FlushDone`, `FlushTimesOut`, `Raises`, `Close` | the end of `send_states_to_kafka` and of `run` |
| `sent`, `acked`, `spoilt` | history for `DeliveredHonest` |

Time is a set of counters that `Tick` brings down; a request ends within its
timeout. A suspended machine, where the monotonic clock and the servers' clocks
part, is `TokenDies`. A restart forgets everything and OpenSky nothing: `embargo`
goes on, and the promise (`RateLimitRespected`) is about what this process was told. A poll that fails after it began to queue
leaves records behind that are delivered, if at all, as `old` ones and are never
counted: the metric may be too low and is never too high.

### TopicAdmin

The broker is three sets: the topics it has (`made`), those with the wanted
configuration (`configured`) and those with more than one partition (`wide`). Each
call to it is a step: metadata (`ListTopics`), `CreateTopics`, `ConfigureTopics`,
then, as in `verify_topics`, one call that describes all configurations
(`DescribeTopics`) and one that counts the partitions of each topic
(`VerifyTopic`). `NextAttempt` is the retry of `reconcile_topics_with_retry`. A call
that fails may have been applied to any of its topics (`CallFails`). Between any two
steps a topic may be created, reset or widened by hand. The command sees a reset
only if it comes before its one description of all topics, and a widening only if it
comes before the count of that topic: `reset` and `widened` remember what came
later, and `ReadyIsReal` promises no more than that. The `topics` command only
verifies; the `group` command only prints.

### MongoMaintenance

| In the model | In the code |
|---|---|
| `Stamp`, `EnsureTtl`, `VerifyTtl`, `CheckMissing`, `DropOld` | the steps of `prepare_indexes`, in its order, per process |
| `bare`, `dateless` | documents without `ingested_at`; events of the earlier version whose `observed_at` is no date (the second `update_many`, 291-294, is for them) |
| `index[c]`: `old`, `ttl` | the TTL index of the earlier version exists; the one of this version is missing, on another key (`foreign`), has another retention, or is right |
| `Covered` | a TTL index deletes only documents with a date in its field |
| `aged`, `Expire` | documents grow old in the order of the log; the TTL monitor deletes covered ones, sooner or later. One counter stands for both retentions (48 hours of raw, 168 of live) |
| `BackupRaw`, `BackupLive` | the two cursors of `export_database`, which have no snapshot: a document that came or went while the first was open may be in the archive or not (`Meanwhile`) |
| `CheckStopped` ... `InsertRest` | `restore-mongodb.sh` and `import_database`: the checks, the drops, the batches, the rest |
| `alone`, `follow`, `late`, `done` | history: whether a writer ran beside a restore, and whether one has prepared the database since |

A start that meets a foreign index ends there (`ensure_ttl_index`, 241-246), and so
does every later one, until somebody removes it: the code does not change an index
it did not make, and the old index, which is dropped last, is still there.

`docs` is reduced to one aircraft whose events get newer, so that the live
collection is the newest event; a document without a date grows old in the same order, although its
`ingested_at` is the time of the start that stamped it. A writer started after the script has looked runs
beside the import: it may poll on collections whose TTL indexes the import has
just dropped, until its next start (`late`). A failed import leaves the database
as far as it came; that is reported and not called success.

### Lakehouse

A table is a bag of events. Each Spark job is a reading step and one commit per
table (`PlanBronze`/`AppendBronze`, `Classify`/`AppendSilver`/`AppendRejected`,
`ReadForGold`/`OverwriteOrCreate`), since Iceberg makes one commit atomic and the
job as a whole is not. `Fail` ends a refresh after any step. `MaxLag` bounds how
late the consumer writes an event after the producer stamped it, `MaxExport` how
long the export's cursor is open. Consequences of the code that the model shows
and that contradict nothing: refreshes that overlap may append the same rows twice
(`CopiesBounded` says how often; that no event is in Silver and in Rejected,
`ClassifiedApart`, is part of the ledger), a bootstrap that fails before its third table
blocks both the refresh and a second bootstrap until the tables are removed by
hand, and events that expire from MongoDB before the next refresh never arrive.

## 3. What is checked

Each passing run explores all states of its instance; each property has a mutant.

| Run | Instance | Checks |
|---|---|---|
| `mongo_writer` | 2 processes, 3 messages of 6 payloads (an event, a tie under another id, a newer one without id, a malformed, an unstorable and a halfway one), 2 attempts, 2 failures | types, `CommittedSettled`, `StoreIsPrefix`, `DlqOnlyPermanent`, `ImplementsPromise`, `StoreAdvances` |
| `mongo_writer_live` | 2 processes, 2 messages (valid, malformed, poison, halfway, oversize), 2 failures, fairness | `BacklogDrains`, `StopEnds` |
| `gateway` | 2 sockets, 2 messages, batches of at most 2, 3 failures | types, `CommitCoversPublished`, `RegisteredMissNothing` |
| `gateway_live` | 1 socket, 3 messages, batches of at most 2, 2 failures, fairness | `StartSkipsNothing`, `ImplementsPromise`, `EventsPublished`, `StopEnds` |
| `feed` | 1 aircraft, 2 times, 2 messages, 2 failures, fairness | types, `PendingHasFlush`, `SnapshotKeepsReceived`, `ShownNeverRegresses`, `ReceivedIsShown` |
| `producer` | lifetimes 1 and 3, margin 2, floor 2, requests up to 1, 2 polls of up to 2 records, a queue of 2, 1 failure, fairness | types, `NoExpiredToken`, `RetryUsesNewToken`, `RateLimitRespected`, `DeliveredHonest`, `StopEnds` |
| `lakehouse` | 2 events (1 sound), 2 refreshes, overlap 3, lag 1, export 1, 4 moments | types, `CopiesBounded`, `NothingBehindWatermark`, `ReportComplete`, `ImplementsLedger` |
| `setup` | 2 topics, 2 commands (1 init), 2 attempts, 2 failures; 2 events (1 of the earlier version, with or without a date; its TTL index missing, on another key or with another retention), 2 writers, batches of 2, 1 failure; fairness | types, `ReadyIsReal`, `TopicsConverge`, `EveryDocExpires`, `PollingPrepared`, `StartsGoOn`, `RestoreComplete`, `PreparationConverges` |
| `gateway_reread` | 1 socket | finding 1, a violation |
| `gateway_open` | 1 socket | finding 2, a violation |
| `feed_gap` | 1 message, no failure, fairness | finding 3, a violation |
| `lakehouse_late` | 1 refresh, lag 4, overlap 3 | finding 4, a violation |

Why the bounds are enough. Two processes are the smallest group with a zombie
and its successor; a third would repeat the roles. Three messages let an event, a
tie and a newer one of the same aircraft stand in every order, and let a commit
be late by more than one. Two failures allow a failure during the recovery from
another (an uncertain write, then a kill; an eviction, then a late commit). Two
attempts have a first and a last. Batches of two out of three messages include
the full batch, the partial one and the one that spans a broken message. Updates
of different aircraft never touch each other in the feed: one is enough. In the
producer one lifetime lies below the floor and one above it, two polls let the
reports of the first arrive in the second, and a queue of two is full after two
records. The lakehouse has one event that ends in Silver and one in Rejected, and
two refreshes are the smallest overlap; four moments let the watermark pass the
overlap. `TopicAdmin` and `MongoMaintenance` share no state, so `MCSetup` lets one or
the other move (`scene`) and explores the sum of their states; of the databases of the
earlier version it takes those whose indexes differ in kind, and under compose those
whose documents have no date (`Chosen`): a start goes through the same steps under
Kubernetes, and the restores compose adds never look at a date. The proofs below
need no bound.

Symmetry is used in safety runs only, over processes, sockets and refreshes.
Deadlock is checked for the producer, which is started again for ever, and for the
lakehouse, where a refresh can always be tried again. The other systems really
come to rest: messages and failures are finite, and then the processes wait for
messages that do not come.

Bounds are named constants: `MaxLog` and `MaxEvent` (messages), `MaxFaults`,
`MaxAdminFaults` and `MaxUpsets` (failures of any kind, one budget for all of them),
`MaxTime` (moments of the lakehouse), `MaxRecords` (states of one answer).

### Fairness

- Writer: a process that can take its next step takes it; the restart policy of
  compose or Kubernetes starts it again (`Start`); the coordinator hands out an
  abandoned partition and a member learns that it was evicted. Each is weak
  fairness. Failures are never fair.
- Gateway: the event loop runs the task, each send ends within its two seconds
  (either way), a stopped backend goes down and is started again.
- Feed: requests are answered, events, timers and animation frames fire
  (browsers suspend frames of hidden tabs: the property is about a visible one),
  the writer and the gateway go on. `fetch` has no time limit in the code: if a
  request never ends nothing is ever shown again, which this fairness leaves out.

- Producer: the process runs, the container is started again, time passes, and
  every queued record is confirmed or given up by the client
  (`delivery.timeout.ms`).
- Topics: the Job goes on and is started again while it fails. Its `backoffLimit`
  of 3 is enough for the failures of the instance.
- Database: some writer goes on (`SomeConsumer`). `ConsumerReturns` holds unless
  restores go on for ever or there is a foreign index, which the code leaves to the
  operator.

### What the liveness properties do not promise

`BacklogDrains` stops at the first `Stuck` message (poison, halfway or oversize):
the code exits, is restarted and meets it again, for ever. `EventsPublished` excludes logs with a message without value, which ends
the gateway task until the backend is restarted.

## 4. Findings

1. `gateway_reread`: `backend/app/kafka_gateway.py:271-272` says that after a
   failed commit the messages are read again in the new session. Until the group
   has committed once this is not so: the new session starts at the end of the
   log. Once anything is committed the sentence holds (`StartSkipsNothing`).
2. `gateway_open`: `backend/app/websocket_manager.py:29` says that a broadcast
   goes to all connected frontends. A socket whose send timed out once is dropped
   from the set without being closed; the browser keeps it open, shows "live" and
   never reconnects.
3. `feed_gap`: `frontend/src/hooks/useAircraftFeed.ts:271-272` says that the
   snapshot taken after the socket opened closes the gap. If the snapshot of the
   mount effect is still on its way, that refresh returns at once. An update
   broadcast before the socket was registered, and in MongoDB before it opened, is
   then not shown: the mount's snapshot was read before it was stored. It stays out
   until the aircraft's next update. No failure is needed, and no lag: `GapIsClosed`
   asks only for what MongoDB held (`held`) when the socket opened.
4. `lakehouse_late`: `spark/iceberg-README.md:290` says that `ingested_at` is the
   time of the write to MongoDB. The producer stamps it
   (`producer/opensky_producer.py:287`). An event whose write is more than the
   overlap late (a consumer that was down) lies behind the watermark, and no
   later export asks for it.

## 5. What is proved

Every theorem holds for all values of the constants under the named assumptions
of its module (`PayloadAssumption`, `BoundsAssumption` and `WorkerAssumption` of
the writer, `GatewayBounds`, `FeedBounds`, `ProducerAssumption`,
`TopicAdminAssumption`, `LakehouseAssumption`, `MaintenanceAssumption`). They say
that bounds are numbers of the right sign, that times are numbers, that the
refreshes are finitely many and some topic exists, and of the producer what its own
numbers fulfil: a request ends within the refresh margin and within the shortest
wait, and the default wait is no shorter than that one. In the modules of the writer, the gateway, the feed and
the producer `Inductive` is `Spec => []IInv` (`Invariance` in
`MongoMaintenanceProofs`) and the others follow from it; `LakehouseProofs` has one
inductive invariant per theorem. The theorems about topics are about `TaSpec` and
the ones about the database about `MmSpec`, which is what `MCSetup` runs where the
one or the other is what moves.

| Module | Theorems |
|---|---|
| `MongoWriterProofs` | `TypeCorrect` (`TypeOK`), `NothingLost` (`CommittedSettled`), `OnePrefix` (`StoreIsPrefix`), `NeverBack` (`StoreAdvances`), `GivenUpRightly` (`DlqOnlyPermanent`), `StoredOnce` (`RawOncePerKey`), `Implements` (`ImplementsPromise`) |
| `RealtimeGatewayProofs` | `TypeCorrect`, `NoCommitAhead` (`CommitCoversPublished`), `NothingMissed` (`RegisteredMissNothing`), `SkipsNothing` (`StartSkipsNothing`), `Implements` |
| `AircraftFeedProofs` | `TypeCorrect`, `NothingForgotten` (`PendingHasFlush`), `SnapshotHidesNothing` (`SnapshotKeepsReceived`), `NeverBack` (`ShownNeverRegresses`) |
| `OpenSkyProducerProofs` | `TypeCorrect`, `TokenIsValid` (`NoExpiredToken`), `RetryIsFresh` (`RetryUsesNewToken`), `EmbargoKept` (`RateLimitRespected`), `CountedHonestly` (`DeliveredHonest`) |
| `TopicAdminProofs` | `TypeCorrect` (`TaTypeOK`), `SuccessIsTrue` (`ReadyIsReal`) |
| `LakehouseProofs` | `TypeCorrect`, `AlwaysApart` (`ClassifiedApart`), `NothingIsHidden` (`NothingBehindWatermark`), `ReportsComplete` (`ReportComplete`), `BoundedCopies` (`CopiesBounded`), `Implements` (`ImplementsLedger`) |
| `MongoMaintenanceProofs` | `TypeCorrect` (`MmTypeOK`), `Expiry` (`EveryDocExpires`), `Preparation` (`PollingPrepared`), `StartsSucceed` (`StartsGoOn`), `RestoreIsComplete` (`RestoreComplete`) |

**Writer.** `CommittedSettled` is not inductive: it says nothing about a process
that is about to commit. `IInv` adds what each process may rely on (`WInv`): all
offsets below the one in hand, and below the next one its client will hand out,
are *done* (settled, and the live document is the first newest one as far as that
offset is concerned), with the message in hand itself the only exception. That is
why even a zombie or a late commit does no harm: whatever it commits lies below
its own position. `LiveInv` (a live document is strictly newer than every
earlier message of its aircraft) is what makes a tie go to the first offset in
spite of replays. `Keeps` says that no step takes back what is done; hence what a
process relied on stays true under every step of another one (`OthersKeep`);
`LiveDone` shows that after both upserts the message in hand is done;
`WorkersStep` and `LiveStep` go through the actions.

`StoreIsPrefix` relates the two collections to each other: there is one n such that
both are what the first n messages leave there. Two more invariants give it.
`OwnInv`: every document is that of a message its collection takes (the history
takes halfway ones too, `Insertable`). `ReachInv`: there is
an n from which on nothing live comes and below which everything is done, and the
history ends there or one insertable message further. The n of a state is not that of any
process: a write by a zombie far behind changes nothing, a write at the front moves n
to it, and a commit beyond n (of malformed messages, which no collection shows)
moves it along. `PrefixReached` shows that these invariants determine every document.
`NeverBack` adds that the prefix only grows: a write that changes a collection comes
from the front of the log (`RawReaches`, `LiveReaches`), and none of the messages the
collections already show can be that one (`NewToRaw`, `NewToLive`). Together they
justify how `AircraftFeed` reduces MongoDB: a snapshot is answered from a prefix of the
log (`Live(n)`), and a later one never from a shorter prefix (`stored` only grows).
`StoredOnce` (`RawOncePerKey`, an event is in the history once, under its first
offset) is a part of that invariant and has no run of its own.

**Gateway.** `Below(n)` says that every event below n was published or jumped over
by a start at the end of the log. It holds of the client's position up to what is
still pending (`PendingInv`: the batch lies below the position and is published
before it leaves), so what a commit stores is covered whenever it happens, and a
session that starts at a committed offset skips nothing. `SocketInv` says of each
registered open socket that what it lacks is still being sent to it.

**Feed.** `RefreshInv` carries `SnapshotKeepsReceived` through the phases of a
refresh: while it runs, what arrived since its start is pending. `Origins` says that
everything shown, pending or answered is an update of a message the pipeline had
got to, from which a snapshot that is not behind is at least as new as what it
replaces. Both need the existence of the newest message among the first n,
which would be an induction over n; `BestInv` (among an aircraft's messages one is
the first newest) states it for the log as it is, and appending a message keeps it.

**Producer.** `TokenInv`: while the client goes on using a token (`left`), the
servers accept it for at least one request longer, because the margin is at least
the length of a request; in flight what is lost of it is covered by the time the
request has taken. `RetryInv`: a refused token is used again in a later poll at the
earliest, since the second attempt starts without any. `EmbargoInv`: while OpenSky
refuses and has told this process, the process waits at least that long or is about
to end. `DeliveryInv` keeps the books: unless a poll has failed, every record
is queued, reported, counted or in the metric, and between two polls all of them
are in the metric.

**Topics.** `VerifiedInv`: what a command has described as configured is still so
unless it was reset since, and what it has verified has one partition unless it was
widened since. No command takes either away: creation touches only topics that are
missing, and configuration never partitions, whether applied or cut short.

**Lakehouse.** `ClassifiedApart` follows from the quality status being a function of
the event (`Sorted`). `NothingBehindWatermark` needs `MaxLag + MaxExport < Overlap`,
which is a hypothesis of the theorem: `DelayInv` follows an event from its stamp
through the cursor that may have missed it to the watermark. `ReportComplete` rests
on `ReportInv`, what a refresh that is alone knows after each of its commits, and on
`CreatedInv`, which tables exist.

`CopiesBounded` is not inductive, since it ignores the refreshes that are about to
append. `BronzeInv` counts them: the rows of an event plus the refreshes that hold it
for their next append never exceed the number of refreshes. A refresh takes up an
event only when its anti-join finds none of it, which is when all shares but those of
the others are free. `SortedInv` is the same for Silver and Rejected with a share of
as many rows as Bronze may hold, and `FreshInv` says why a bootstrap does not spoil it.

For the ledger, `LedgerStep` takes each action to a step of `EventLedger` or to a
stutter. `Grows` is the heart of it: no step makes Bronze, Silver or Rejected lose an
event. For appends that is plain; a bootstrap *writes* its tables, and does no harm
only because a table it creates cannot exist yet, hence is empty (`TablesInv`), and
because nobody can hold Silver or Rejected rows before there is a table to read.
`LedgerInv` carries what a refresh read until it uses it.

**Database.** `Prepared(w)` says what a start has brought about when it reaches each
of its steps. It survives the other process of a rolling update because a start
changes `bare` and `index` in one direction only, and every other disturbance is a
restore, which runs under compose and while the only writer is down (`FollowInv`) or
marks the writer started beside it as `late`. From it follow `PollingPrepared` and
`EveryDocExpires`: the covering index changes hands at `DropOld`, and a document
without a date, which the old index ignored, is covered from its stamp and the new
index on. `Kept` is the
restore's account: each archived document is in the database, still to be read, in
the batch that is being filled, too old or (a live one) replaced by a newer one.
`LiveInv` keeps the live collection at one document per aircraft through the writer,
the archive and the import. `StartsGoOn` needs two facts more. `KeyInv`: a foreign index stands only beside its
old one, and nobody who is past `ensure_ttl_index` has one. `DropInv`: under compose
the old index a start has seen is still there when it drops it. It is the safety half
of `ConsumerReturns`: a start that nothing disturbs has no reason to fail.

Only model-checked, because liveness under fairness is beyond the prover:
`BacklogDrains`, `EventsPublished`, `StopEnds` of the writer, the gateway and the
producer, `ReceivedIsShown`, `TopicsConverge` and `PreparationConverges`. Every
invariant and every refinement that a passing run checks is also a theorem.

## 6. Plan

Every component that keeps state is modelled. Left, in the order of their worth:

1. Proofs: the safety halves of the other liveness properties (a process that is
   asked to stop holds nothing that keeps it from stopping; a backlog that is not
   drained leaves some process a step to take), in the manner of `StartsGoOn`.
2. `Pipeline`: writer, gateway and feed over one log, the feed's `stored` and `sent`
   refined by the real consumers, with messages the gateway accepts and the
   writer refuses.
3. The route history request of `App.tsx` with its abort controller, and the
   statistics timer of the feed.

Runs take between seconds and about three and a half minutes; related safety properties share
a run.

## 7. What is not modelled

- Reading code without state of its own: health and metrics endpoints, statistics
  aggregation, route history, map and table rendering, the hourly report, the
  snapshot demonstration.
- Environment parsing, JSON logging, wording and fields of events beyond the ones
  the properties tell apart.
- The producer's anonymous mode (the same loop without a token) and the mock
  producer (random events, a development aid).
- Release, packaging and presentation scripts, compose and Kubernetes files. Of
  the latter only what the models assume is used: restart policies, one consumer
  under compose and a rolling update under Kubernetes (`platform`), the Job of
  `topic-init`.
- In the feed: the statistics timer, the live window and unmounting.
- A second backend beside the first during a rolling update, and a pod of the
  earlier version that goes on writing documents without `ingested_at` beside the
  new one.
- Replays of the writer after MongoDB expired what they wrote (`MongoWriter` has no
  expiry, `MongoMaintenance` a writer that commits each message once), and a Kafka
  cluster that is recreated with offsets from zero.

## 8. Running it

    tlc -workers 2 -config MCMongoWriter.cfg MCMongoWriter
    tlapm MongoWriterProofs.tla

Any other run is `tlc -config <cfg> <module>` with the pair of `PROJECT.json`; any
other `...Proofs.tla` is checked the same way.
