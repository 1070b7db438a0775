----------------------------- MODULE MongoWriter -----------------------------
(***************************************************************************)
(* The MongoDB writer (consumer/mongodb_consumer.py): the members of one   *)
(* Kafka consumer group read the single partition of the positions topic   *)
(* and, for each message, insert it into raw_positions, then update        *)
(* live_positions, then commit its offset; a message that can never be     *)
(* stored goes to the dead-letter topic before its offset is committed.    *)
(*                                                                         *)
(* Between any two of those calls the process may be killed, asked to      *)
(* stop, or evicted from the group while it keeps working (a zombie), and  *)
(* every call to MongoDB or Kafka may fail with or without having been     *)
(* applied.  All of these draw on the budget MaxFaults.                    *)
(***************************************************************************)
EXTENDS Integers, Sequences, FiniteSets

CONSTANTS Worker,       \* processes that may run the consumer
          NoWorker,     \* "no member owns the partition"
          Aircraft,     \* icao24 addresses
          EventId,      \* UUIDs a producer may have stamped
          NoId,         \* the message has no event_id field
          Payload,      \* the messages a producer may send
          MaxAttempts,  \* CONSUMER_MAX_ATTEMPTS
          MaxLog,       \* bound: messages produced
          MaxFaults     \* bound: failures of any kind

\* "valid"      decode_event accepts it and MongoDB stores it
\* "malformed"  decode_event raises PermanentMessageError
\* "oversize"   so does it, and no dead-letter envelope of it fits into a message
\* "unstorable" MongoDB answers InvalidDocument or DocumentTooLarge
\* "poison"     the raw insert raises an error on neither list, every time
\* "halfway"    the raw insert stores it and the live update raises such an error (a
\*              text the pipeline takes for a field path)
Kind == {"valid", "malformed", "oversize", "unstorable", "poison", "halfway"}

PayloadType == [kind : Kind, event_id : EventId \cup {NoId},
                icao24 : Aircraft, observed_at : Nat \ {0}]

ASSUME PayloadAssumption == Payload \subseteq PayloadType
ASSUME BoundsAssumption == /\ MaxAttempts \in Nat \ {0}
                           /\ MaxLog \in Nat
                           /\ MaxFaults \in Nat
ASSUME WorkerAssumption == NoWorker \notin Worker

VARIABLES log,        \* the partition: log[o + 1] is the message at offset o
          committed,  \* the group's committed offset (next one to read)
          owner,      \* the member the coordinator assigned the partition to
          position,   \* the next offset a member's client will hand out
          pc,         \* where each process is
          cur,        \* the offset it is handling
          attempt,    \* its current write attempt
          stopping,   \* SIGTERM was received (stop_event)
          raw,        \* raw_positions: documents [_id, kafka_offset]
          live,       \* live_positions: icao24 -> document or NoDoc
          dlq,        \* offsets whose envelope is in the dead-letter topic
          faults      \* failures so far

worker == <<position, pc, cur, attempt, stopping>>
store  == <<raw, live, dlq>>
vars   == <<log, committed, owner, worker, store, faults>>

NoPosition == -1
NoDoc == [observed_at |-> 0, kafka_offset |-> -1]

Msg(o) == log[o + 1]

\* event_id if the event has one, else "topic:partition:offset".
Key(o) == IF Msg(o).event_id = NoId THEN o ELSE Msg(o).event_id

\* raw_positions takes the message.
Insertable(o) == Msg(o).kind \in {"valid", "halfway"}

InRaw(k) == \E d \in raw : d._id = k

Covered(m) == live[m.icao24].observed_at >= m.observed_at

\* The message at o has had its effect: stored in both collections, or in the
\* dead-letter topic if it can never be stored.
Settled(o) ==
    IF Msg(o).kind = "valid" THEN InRaw(Key(o)) /\ Covered(Msg(o))
                             ELSE o \in dlq

Fault   == faults < MaxFaults /\ faults' = faults + 1
NoFault == faults' = faults

Working(w) == pc[w] \in {"write_raw", "write_live", "backoff", "dlq", "commit"}

-----------------------------------------------------------------------------
Init ==
    /\ log = << >>
    /\ committed = 0
    /\ owner = NoWorker
    /\ position = [w \in Worker |-> NoPosition]
    /\ pc = [w \in Worker |-> "down"]
    /\ cur = [w \in Worker |-> 0]
    /\ attempt = [w \in Worker |-> 0]
    /\ stopping = [w \in Worker |-> FALSE]
    /\ raw = {}
    /\ live = [a \in Aircraft |-> NoDoc]
    /\ dlq = {}
    /\ faults = 0

-----------------------------------------------------------------------------
(* Kafka: producers and the group coordinator.                             *)

Produce ==
    /\ Len(log) < MaxLog
    /\ \E m \in Payload : log' = Append(log, m)
    /\ UNCHANGED <<committed, owner, worker, store, faults>>

\* Bug: reading starts at the end of the log instead of the committed offset.
BugAssignAtEnd(w) ==
    /\ pc[w] # "down"
    /\ NoFault
    /\ owner' = w
    /\ position' = [position EXCEPT ![w] = Len(log)]
    /\ UNCHANGED <<log, committed, pc, cur, attempt, stopping, store>>

\* The coordinator assigns the partition to w, whose client starts at the
\* committed offset (auto.offset.reset earliest: at 0 when there is none).
\* Taking it from a member that is alive needs a fault: a session or poll
\* timeout, or a second replica joining.
Assign(w) ==
    /\ pc[w] # "down"
    /\ IF owner \in Worker /\ pc[owner] # "down" /\ position[owner] # NoPosition
         THEN Fault
         ELSE NoFault
    /\ owner' = w
    /\ position' = [position EXCEPT ![w] = committed]
    /\ UNCHANGED <<log, committed, pc, cur, attempt, stopping, store>>

\* The client of an evicted member learns of it.  Until then it goes on
\* handing out the messages it has prefetched.
Revoked(w) ==
    /\ owner # w
    /\ position[w] # NoPosition
    /\ position' = [position EXCEPT ![w] = NoPosition]
    /\ UNCHANGED <<log, committed, owner, pc, cur, attempt, stopping, store,
                   faults>>

-----------------------------------------------------------------------------
(* The process.                                                            *)

\* main, run: clients created, MongoDB pinged, indexes prepared, subscribed.
\* A failure on the way there exits and leaves the state as it was.
Start(w) ==
    /\ pc[w] = "down"
    /\ pc' = [pc EXCEPT ![w] = "poll"]
    /\ stopping' = [stopping EXCEPT ![w] = FALSE]
    /\ UNCHANGED <<log, committed, owner, position, cur, attempt, store, faults>>

\* run's finally: consumer.close() leaves the group.
Exit(w) ==
    /\ pc' = [pc EXCEPT ![w] = "down"]
    /\ position' = [position EXCEPT ![w] = NoPosition]
    /\ owner' = IF owner = w THEN NoWorker ELSE owner

\* Killed: nothing runs, and the coordinator goes on believing in the member.
Crash(w) ==
    /\ pc[w] # "down"
    /\ Fault
    /\ pc' = [pc EXCEPT ![w] = "down"]
    /\ position' = [position EXCEPT ![w] = NoPosition]
    /\ UNCHANGED <<log, committed, owner, cur, attempt, stopping, store>>

\* SIGTERM or SIGINT.
RequestStop(w) ==
    /\ pc[w] # "down"
    /\ ~stopping[w]
    /\ Fault
    /\ stopping' = [stopping EXCEPT ![w] = TRUE]
    /\ UNCHANGED <<log, committed, owner, position, pc, cur, attempt, store>>

\* Bug: a stopping process first works off what is left.
BugShutdownDrains(w) ==
    /\ pc[w] = "poll"
    /\ stopping[w]
    /\ position[w] = Len(log)
    /\ Exit(w)
    /\ UNCHANGED <<log, committed, cur, attempt, stopping, store, faults>>

\* `while not stopping.is_set()` is false: run returns 0.
Shutdown(w) ==
    /\ pc[w] = "poll"
    /\ stopping[w]
    /\ Exit(w)
    /\ UNCHANGED <<log, committed, cur, attempt, stopping, store, faults>>

\* poll hands out a message; decode_event accepts or refuses it.
Poll(w) ==
    /\ pc[w] = "poll"
    /\ ~stopping[w]
    /\ position[w] # NoPosition
    /\ position[w] < Len(log)
    /\ cur' = [cur EXCEPT ![w] = position[w]]
    /\ position' = [position EXCEPT ![w] = @ + 1]
    /\ pc' = [pc EXCEPT ![w] =
                 IF Msg(position[w]).kind \in {"malformed", "oversize"}
                   THEN "dlq"
                   ELSE "write_raw"]
    /\ attempt' = [attempt EXCEPT ![w] = 1]
    /\ UNCHANGED <<log, committed, owner, stopping, store, faults>>

\* An error that ends run: an error event from poll, an unlisted error from
\* MongoDB, or a poison message.
ExitOnError(w) ==
    /\ pc[w] \in {"poll", "write_raw", "write_live"}
    /\ IF \/ pc[w] = "write_raw" /\ Msg(cur[w]).kind = "poison"
          \/ pc[w] = "write_live" /\ Msg(cur[w]).kind = "halfway"
         THEN NoFault
         ELSE Fault
    /\ Exit(w)
    /\ UNCHANGED <<log, committed, cur, attempt, stopping, store>>

-----------------------------------------------------------------------------
(* write_event.                                                            *)

Storable(w) == Msg(cur[w]).kind = "valid"

\* update_one({_id}, {$setOnInsert: document}, upsert=True)
RawUpsert(o) ==
    raw' = IF InRaw(Key(o)) THEN raw
                            ELSE raw \cup {[_id |-> Key(o), kafka_offset |-> o]}

\* Bug: the live document is replaced without the comparison.
BugLivePlain(o) ==
    live' = [live EXCEPT ![Msg(o).icao24] =
                [observed_at |-> Msg(o).observed_at, kafka_offset |-> o]]

\* The live pipeline: replace when there is no document or an older one.
LiveUpsert(o) ==
    LET m == Msg(o)
        old == live[m.icao24]
    IN  live' = IF old = NoDoc \/ old.observed_at < m.observed_at
                  THEN [live EXCEPT ![m.icao24] =
                           [observed_at |-> m.observed_at, kafka_offset |-> o]]
                  ELSE live

WriteRaw(w) ==
    /\ pc[w] = "write_raw"
    /\ Insertable(cur[w])
    /\ RawUpsert(cur[w])
    /\ pc' = [pc EXCEPT ![w] = "write_live"]
    /\ UNCHANGED <<log, committed, owner, position, cur, attempt, stopping,
                   live, dlq, faults>>

WriteLive(w) ==
    /\ pc[w] = "write_live"
    /\ Storable(w)
    /\ LiveUpsert(cur[w])
    /\ pc' = [pc EXCEPT ![w] = "commit"]
    /\ UNCHANGED <<log, committed, owner, position, cur, attempt, stopping,
                   raw, dlq, faults>>

\* InvalidDocument, DocumentTooLarge: PermanentMessageError, whatever the
\* attempt.
WriteRefused(w) ==
    /\ pc[w] = "write_raw"
    /\ Msg(cur[w]).kind = "unstorable"
    /\ pc' = [pc EXCEPT ![w] = "dlq"]
    /\ UNCHANGED <<log, committed, owner, position, cur, attempt, stopping,
                   store, faults>>

\* Bug: a message whose attempts are used up goes to the dead-letter topic.
BugExhaustedToDlq(w) ==
    /\ pc[w] \in {"write_raw", "write_live"}
    /\ Fault
    /\ pc' = [pc EXCEPT ![w] = IF attempt[w] = MaxAttempts THEN "dlq" ELSE "backoff"]
    /\ UNCHANGED <<log, committed, owner, position, cur, attempt, stopping, store>>

\* Bug: the retry loop forgets its limit.
BugRetryForever(w) ==
    /\ pc[w] \in {"write_raw", "write_live"}
    /\ Fault
    /\ pc' = [pc EXCEPT ![w] = "backoff"]
    /\ UNCHANGED <<log, committed, owner, position, cur, attempt, stopping, store>>

\* Network, primary or timeout error: the write may have been applied.  The
\* last attempt gives up (TransientProcessingError, run returns 1), an earlier
\* one backs off.
WriteTransient(w) ==
    /\ pc[w] \in {"write_raw", "write_live"}
    /\ Fault
    /\ \/ UNCHANGED <<raw, live>>
       \/ pc[w] = "write_raw" /\ Insertable(cur[w]) /\ RawUpsert(cur[w]) /\ UNCHANGED live
       \/ pc[w] = "write_live" /\ Storable(w) /\ LiveUpsert(cur[w]) /\ UNCHANGED raw
    /\ IF attempt[w] = MaxAttempts
         THEN Exit(w)
         ELSE /\ pc' = [pc EXCEPT ![w] = "backoff"]
              /\ UNCHANGED <<position, owner>>
    /\ UNCHANGED <<log, committed, cur, attempt, stopping, dlq>>

\* Bug: the retry resumes with the live write, trusting that raw was written.
BugRetryLiveOnly(w) ==
    /\ pc[w] = "backoff"
    /\ pc' = [pc EXCEPT ![w] = "write_live"]
    /\ attempt' = [attempt EXCEPT ![w] = @ + 1]
    /\ UNCHANGED <<log, committed, owner, position, cur, stopping, store, faults>>

\* stop_event.wait(delay): the delay passes, and write_event starts over ...
Retry(w) ==
    /\ pc[w] = "backoff"
    /\ pc' = [pc EXCEPT ![w] = "write_raw"]
    /\ attempt' = [attempt EXCEPT ![w] = @ + 1]
    /\ UNCHANGED <<log, committed, owner, position, cur, stopping, store, faults>>

\* ... or the stop event interrupts it: TransientProcessingError.
RetryInterrupted(w) ==
    /\ pc[w] = "backoff"
    /\ stopping[w]
    /\ Exit(w)
    /\ UNCHANGED <<log, committed, cur, attempt, stopping, store, faults>>

-----------------------------------------------------------------------------
(* Settling the message: dead-letter topic, then commit.                   *)

\* Bug: after the dead-letter topic the loop continues without a commit.
BugDlqNoCommit(w) ==
    /\ pc[w] = "dlq"
    /\ Msg(cur[w]).kind # "oversize"
    /\ dlq' = dlq \cup {cur[w]}
    /\ pc' = [pc EXCEPT ![w] = "poll"]
    /\ UNCHANGED <<log, committed, owner, position, cur, attempt, stopping,
                   raw, live, faults>>

PublishDlq(w) ==
    /\ pc[w] = "dlq"
    /\ Msg(cur[w]).kind # "oversize"
    /\ dlq' = dlq \cup {cur[w]}
    /\ pc' = [pc EXCEPT ![w] = "commit"]
    /\ UNCHANGED <<log, committed, owner, position, cur, attempt, stopping,
                   raw, live, faults>>

\* Bug: the delivery report is not looked at.
BugDlqUnconfirmed(w) ==
    /\ pc[w] = "dlq"
    /\ Msg(cur[w]).kind # "oversize"
    /\ Fault
    /\ pc' = [pc EXCEPT ![w] = "commit"]
    /\ UNCHANGED <<log, committed, owner, position, cur, attempt, stopping, store>>

\* The envelope is not confirmed within 30 s, or refused: KafkaException.  It
\* may still have reached the topic, or reach it in the final flush.
PublishDlqFails(w) ==
    /\ pc[w] = "dlq"
    /\ Msg(cur[w]).kind # "oversize"
    /\ Fault
    /\ dlq' \in {dlq, dlq \cup {cur[w]}}
    /\ Exit(w)
    /\ UNCHANGED <<log, committed, cur, attempt, stopping, raw, live>>

\* produce refuses an envelope larger than message.max.bytes: KafkaException,
\* every time.
DlqRefused(w) ==
    /\ pc[w] = "dlq"
    /\ Msg(cur[w]).kind = "oversize"
    /\ Exit(w)
    /\ UNCHANGED <<log, committed, cur, attempt, stopping, store, faults>>

\* The coordinator takes a commit from the member it believes in, and stores
\* the offset it is given.
Commit(w) ==
    /\ pc[w] = "commit"
    /\ owner = w
    /\ committed' = cur[w] + 1
    /\ pc' = [pc EXCEPT ![w] = "poll"]
    /\ UNCHANGED <<log, owner, position, cur, attempt, stopping, store, faults>>

\* The commit is refused (not the owner) or times out, perhaps after the
\* coordinator stored it: KafkaException, run returns 1.
CommitFails(w) ==
    /\ pc[w] = "commit"
    /\ IF owner = w THEN Fault /\ committed' \in {committed, cur[w] + 1}
                    ELSE NoFault /\ UNCHANGED committed
    /\ Exit(w)
    /\ UNCHANGED <<log, cur, attempt, stopping, store>>

-----------------------------------------------------------------------------
WorkerStep(w) ==
    \/ Shutdown(w) \/ Poll(w)
    \/ WriteRaw(w) \/ WriteLive(w) \/ WriteRefused(w)
    \/ Retry(w) \/ RetryInterrupted(w)
    \/ PublishDlq(w) \/ DlqRefused(w) \/ Commit(w)
    \/ CommitFails(w) \/ ExitOnError(w)

Next ==
    \/ Produce
    \/ \E w \in Worker :
          \/ Assign(w) \/ Revoked(w)
          \/ Start(w) \/ Crash(w) \/ RequestStop(w)
          \/ WriteTransient(w) \/ PublishDlqFails(w)
          \/ WorkerStep(w)

Spec == Init /\ [][Next]_vars

\* The process runs, the restart policy starts it again, and the coordinator
\* gives an abandoned partition to a member.
Fairness ==
    \A w \in Worker : /\ WF_vars(WorkerStep(w))
                      /\ WF_vars(Start(w))
                      /\ WF_vars(owner \notin Worker /\ Assign(w))
                      /\ WF_vars(position[w] = NoPosition /\ owner = w /\ Assign(w))
                      /\ WF_vars(Revoked(w))

FairSpec == Spec /\ Fairness

-----------------------------------------------------------------------------
TypeOK ==
    /\ log \in Seq(Payload) /\ Len(log) <= MaxLog
    /\ committed \in 0 .. Len(log)
    /\ owner \in Worker \cup {NoWorker}
    /\ position \in [Worker -> Nat \cup {NoPosition}]
    /\ pc \in [Worker -> {"down", "poll", "write_raw", "write_live", "backoff",
                          "dlq", "commit"}]
    /\ cur \in [Worker -> Nat]
    /\ attempt \in [Worker -> 0 .. MaxAttempts]
    /\ stopping \in [Worker -> BOOLEAN]
    /\ \A d \in raw : d._id \in EventId \cup Nat /\ d.kafka_offset \in 0 .. Len(log) - 1
    /\ live \in [Aircraft -> [observed_at : Nat, kafka_offset : Nat \cup {-1}]]
    /\ dlq \subseteq 0 .. Len(log) - 1
    /\ faults \in 0 .. MaxFaults

\* No message is lost: whatever crashed, was retried or was evicted, a message
\* whose offset lies below the committed one is in both collections, or in the
\* dead-letter topic if it can never be stored (handle_message).
CommittedSettled == \A o \in 0 .. committed - 1 : Settled(o)

\* What the messages below n, each handled once and in order, leave in raw_positions:
\* a document per key, of the first message that has it ...
FirstOfKey(o) ==
    /\ Insertable(o)
    /\ \A p \in 0 .. o - 1 : Insertable(p) => Key(p) # Key(o)

History(n) == {[_id |-> Key(o), kafka_offset |-> o] : o \in {p \in 0 .. n - 1 : FirstOfKey(p)}}

\* ... and in live_positions: of each aircraft the first of its newest messages.
Reports(a, n) == {o \in 0 .. n - 1 : Msg(o).kind = "valid" /\ Msg(o).icao24 = a}

FirstNewestOf(S) ==
    {o \in S : \A p \in S : \/ Msg(p).observed_at < Msg(o).observed_at
                            \/ Msg(p).observed_at = Msg(o).observed_at /\ o <= p}

LiveAfter(n) ==
    \A a \in Aircraft :
        IF Reports(a, n) = {} THEN live[a] = NoDoc
        ELSE \E o \in FirstNewestOf(Reports(a, n)) :
                 live[a] = [observed_at |-> Msg(o).observed_at, kafka_offset |-> o]

Shows(n) ==
    /\ LiveAfter(n)
    /\ \E m \in n .. n + 1 : m <= Len(log) /\ raw = History(m)

\* The two collections always are those of one prefix of the log, no shorter than
\* what is committed, with at most one event more in the history: no replay, zombie,
\* crash between the two upserts or uncertain retry can be seen in MongoDB, although no
\* transaction spans the collections and no lock the processes (write_event).
StoreIsPrefix == \E n \in committed .. Len(log) : Shows(n)

\* And that prefix only grows: no write of any process, however late, leaves the two
\* collections as they were after fewer messages.  Who reads them twice (a browser its
\* snapshots) never goes back in the log.
StoreAdvances ==
    [][\A n \in 0 .. Len(log) : Shows(n) => \E m \in n .. Len(log)' : Shows(m)']_<<raw, live>>

\* An event is in the history once, under the first offset that brought it.
RawOncePerKey ==
    /\ \A d, e \in raw : d._id = e._id => d = e
    /\ \A d \in raw : \A o \in 0 .. d.kafka_offset - 1 :
          Insertable(o) => Key(o) # d._id

\* Only a message that can never be stored is given up: exhausted retries and
\* interrupted backoffs leave it in the topic (docs/operations.md:25).
DlqOnlyPermanent == \A o \in dlq : Msg(o).kind \in {"malformed", "unstorable"}

\* Once failures end, the backlog is worked off: every message with none at or before
\* it that the program can neither store nor give up is settled, and its offset committed at least once.
\* (A member that lost and regained the partition may commit an older offset
\* over a newer one, so the committed offset need not stay above it.)
Stuck == {"poison", "halfway", "oversize"}

BacklogDrains ==
    \A o \in 0 .. MaxLog - 1 :
        LET Due == o < Len(log) /\ \A p \in 0 .. o : Msg(p).kind \notin Stuck
        IN  /\ Due ~> (Due /\ Settled(o))
            /\ <>Due => <>(committed > o)

\* A process asked to stop ends, whatever it was doing.
StopEnds == \A w \in Worker : stopping[w] ~> pc[w] = "down"

\* The promise of the consumer group that this program must keep.
Promise == INSTANCE AtLeastOnce
               WITH Record <- Payload,
                    effects <- {o \in 0 .. Len(log) - 1 : Settled(o)}

ImplementsPromise == Promise!Spec
=============================================================================
