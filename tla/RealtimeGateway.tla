---------------------------- MODULE RealtimeGateway ----------------------------
(***************************************************************************)
(* The realtime gateway of the backend (backend/app/kafka_gateway.py): one *)
(* task of the web server reads the positions topic in its own consumer    *)
(* group, collects messages into batches, broadcasts each batch to the     *)
(* sockets of WebSocketManager, and commits the highest offset of the      *)
(* batch afterwards.                                                       *)
(*                                                                         *)
(* A session ends with any Kafka error; a new one starts at the committed  *)
(* offset or, if nothing was ever committed, at the end of the log         *)
(* (auto.offset.reset latest).  `base` records how far such starts at the  *)
(* end have jumped.                                                        *)
(***************************************************************************)
EXTENDS WebSocketManager, Integers, Sequences, SequencesExt

CONSTANTS BatchMax,   \* WEBSOCKET_BATCH_MAX_SIZE
          MaxLog      \* bound: messages produced

\* "event"   a JSON object with an icao24
\* "broken"  not one: skipped
\* "null"    no value: AttributeError, which _process_message does not catch
Kind == {"event", "broken", "null"}

ASSUME GatewayBounds == BatchMax \in Nat \ {0} /\ MaxLog \in Nat /\ MaxFaults \in Nat

VARIABLES log,       \* the partition: log[o + 1] is the message at offset o
          committed, \* the group's committed offset, or NoOffset
          pc,        \* where the gateway task is
          stopping,  \* kafka_stop_event
          position,  \* next offset to poll, NoOffset before the assignment
          pending,   \* pending_batch: offsets in polling order
          refused,   \* offsets of batches whose commit failed, not committed yet
          base       \* offsets below were jumped over by a start at the end

gwVars == <<log, committed, pc, stopping, position, pending, refused, base>>
vars   == <<wsVars, gwVars, faults>>

NoOffset == -1
Offset(n) == 0 .. n - 1
Msg(o) == log[o + 1]

\* What _flush_due_batch broadcasts: the items with a public event.
PublicEvents == {o \in ToSet(pending) : Msg(o) = "event"}
Highest == CHOOSE o \in ToSet(pending) : \A p \in ToSet(pending) : p <= o

Init ==
    /\ WsInit
    /\ log = << >>
    /\ committed = NoOffset
    /\ pc = "down" /\ stopping = FALSE
    /\ position = NoOffset
    /\ pending = << >>
    /\ refused = {}
    /\ base = 0

Produce ==
    /\ Len(log) < MaxLog
    /\ \E k \in Kind : log' = Append(log, k)
    /\ UNCHANGED <<wsVars, faults, committed, pc, stopping, position, pending,
                   refused, base>>

-----------------------------------------------------------------------------
(* Sessions.                                                               *)

\* lifespan: MongoDB answered, the task is created.
StartBackend ==
    /\ pc = "down"
    /\ pc' = "connecting" /\ stopping' = FALSE
    /\ UNCHANGED <<wsVars, faults, log, committed, position, pending, refused,
                   base>>

\* list_topics answers, the topic is subscribed.
OpenSession ==
    /\ pc = "connecting"
    /\ pc' = "polling"
    /\ UNCHANGED <<wsVars, faults, log, committed, stopping, position, pending,
                   refused, base>>

\* Bug: a session always starts at the end of the log.
BugStartAtEnd ==
    /\ position' = Len(log)
    /\ base' = IF committed = NoOffset THEN Len(log) ELSE base

\* Where a member of the group starts reading.
StartPosition ==
    IF committed = NoOffset
      THEN position' = Len(log) /\ base' = Len(log)
      ELSE position' = committed /\ base' = base

Assign ==
    /\ pc = "polling"
    /\ position = NoOffset
    /\ StartPosition
    /\ UNCHANGED <<wsVars, faults, log, committed, pc, stopping, pending, refused>>

\* A session or poll timeout, noticed within poll: the group gives the partition
\* back to its only member, and the pending batch lives on.
Reassign ==
    /\ pc = "polling"
    /\ position # NoOffset
    /\ Fault
    /\ StartPosition
    /\ UNCHANGED <<wsVars, log, committed, pc, stopping, pending, refused>>

\* The finally of _consume_session: the consumer is closed, and the session's
\* pending batch is gone with its frame.
EndSession ==
    /\ position' = NoOffset
    /\ pending' = << >>

\* Bug: the exception ends the task.
BugNoRetry ==
    /\ pc \in {"connecting", "polling"}
    /\ Fault
    /\ EndSession
    /\ pc' = "ended"
    /\ UNCHANGED <<wsVars, log, committed, stopping, refused, base>>

\* KafkaException from list_topics or an error message from poll: five seconds
\* later, or at once when stopping, run looks at the stop event again.
SessionFails ==
    /\ pc \in {"connecting", "polling"}
    /\ Fault
    /\ EndSession
    /\ pc' = "waiting"
    /\ UNCHANGED <<wsVars, log, committed, stopping, refused, base>>

WaitOver ==
    /\ pc = "waiting"
    /\ pc' = IF stopping THEN "ended" ELSE "connecting"
    /\ UNCHANGED <<wsVars, faults, log, committed, stopping, position, pending,
                   refused, base>>

-----------------------------------------------------------------------------
(* Polling and flushing.                                                   *)

\* Bug: the batch is flushed when due only, not when full.
BugNeverFull ==
    /\ pc = "polling" /\ ~stopping
    /\ position \in Offset(Len(log))
    /\ Msg(position) # "null"
    /\ position' = position + 1
    /\ pending' = Append(pending, position)
    /\ pc' \in {"flush", "polling"}
    /\ UNCHANGED <<wsVars, faults, log, committed, stopping, refused, base>>

\* Bug: the offset of a broken message is committed at once.
BugCommitBroken ==
    /\ pc = "polling" /\ ~stopping
    /\ position \in Offset(Len(log))
    /\ Msg(position) # "null"
    /\ position' = position + 1
    /\ IF Msg(position) = "broken"
         THEN /\ committed' = position + 1
              /\ UNCHANGED <<pending, pc>>
         ELSE /\ pending' = Append(pending, position)
              /\ pc' \in IF Len(pending') >= BatchMax THEN {"flush"}
                                                     ELSE {"flush", "polling"}
              /\ UNCHANGED committed
    /\ UNCHANGED <<wsVars, faults, log, stopping, refused, base>>

\* _process_message queues an event or a broken message, and then
\* _flush_due_batch flushes if the batch is full, or due.
PollMessage ==
    /\ pc = "polling" /\ ~stopping
    /\ position \in Offset(Len(log))
    /\ Msg(position) # "null"
    /\ position' = position + 1
    /\ pending' = Append(pending, position)
    /\ pc' \in IF Len(pending') >= BatchMax THEN {"flush"} ELSE {"flush", "polling"}
    /\ UNCHANGED <<wsVars, faults, log, committed, stopping, refused, base>>

\* A message without a value ends the task with an AttributeError.
PollNull ==
    /\ pc = "polling" /\ ~stopping
    /\ position \in Offset(Len(log))
    /\ Msg(position) = "null"
    /\ pc' = "ended"
    /\ EndSession
    /\ UNCHANGED <<wsVars, faults, log, committed, stopping, refused, base>>

\* poll times out: what is pending is flushed whatever its size.
PollNothing ==
    /\ pc = "polling" /\ ~stopping
    /\ pending # << >>
    /\ pc' = "flush"
    /\ UNCHANGED <<wsVars, faults, log, committed, stopping, position, pending,
                   refused, base>>

\* Bug: the loop ends only when nothing is pending.
BugStopOnlyIdle ==
    /\ pc = "polling" /\ stopping
    /\ pending = << >>
    /\ pc' = "ended" /\ EndSession
    /\ UNCHANGED <<wsVars, faults, log, committed, stopping, refused, base>>

\* The stop event ends the loop: what is pending is flushed, then the task ends.
StopLoop ==
    /\ pc = "polling" /\ stopping
    /\ IF pending = << >>
         THEN pc' = "ended" /\ EndSession
         ELSE pc' = "flush" /\ UNCHANGED <<position, pending>>
    /\ UNCHANGED <<wsVars, faults, log, committed, stopping, refused, base>>

\* Bug: the commit comes before the broadcast.
BugCommitFirst ==
    /\ pc = "flush"
    /\ committed' = Highest + 1
    /\ IF PublicEvents = {}
         THEN pc' = "committing" /\ UNCHANGED wsVars
         ELSE pc' = "broadcasting" /\ BeginBroadcast(PublicEvents)
    /\ UNCHANGED <<faults, log, stopping, position, pending, refused, base>>

\* Only a batch with a public event is broadcast.
Flush ==
    /\ pc = "flush"
    /\ IF PublicEvents = {}
         THEN pc' = "committing" /\ UNCHANGED wsVars
         ELSE pc' = "broadcasting" /\ BeginBroadcast(PublicEvents)
    /\ UNCHANGED <<faults, log, committed, stopping, position, pending,
                   refused, base>>

BroadcastDone ==
    /\ pc = "broadcasting"
    /\ EndBroadcast
    /\ pc' = "committing"
    /\ UNCHANGED <<faults, log, committed, stopping, position, pending,
                   refused, base>>

\* The broker stores the highest offset of the batch + 1.
CommitHighest ==
    /\ committed' = Highest + 1
    /\ refused' = {o \in refused : o > Highest}

\* ... and the batch is dropped.
Commit ==
    /\ pc = "committing"
    /\ CommitHighest
    /\ pending' = << >>
    /\ pc' = "polling"
    /\ UNCHANGED <<wsVars, faults, log, stopping, position, base>>

\* The commit raises a KafkaException, perhaps after the broker stored it.
CommitFails ==
    /\ pc = "committing"
    /\ Fault
    /\ \/ /\ UNCHANGED committed
          /\ refused' = refused \cup {o \in ToSet(pending) : o >= committed}
       \/ CommitHighest
    /\ EndSession
    /\ pc' = "waiting"
    /\ UNCHANGED <<wsVars, log, stopping, base>>

-----------------------------------------------------------------------------
(* The end of the backend process.                                         *)

\* lifespan's finally sets the stop event.
RequestStop ==
    /\ pc # "down" /\ ~stopping
    /\ Fault
    /\ stopping' = TRUE
    /\ UNCHANGED <<wsVars, log, committed, pc, position, pending, refused, base>>

\* The task has ended and the stop was requested, or its five seconds are over
\* and it is cancelled, or the process is killed: every socket goes with it.  A
\* commit under way may still reach the broker.
BackendDown ==
    /\ pc # "down"
    /\ IF pc = "ended" /\ stopping THEN NoFault ELSE Fault
    /\ \/ UNCHANGED <<committed, refused>>
       \/ pc = "committing" /\ CommitHighest
    /\ pc' = "down"
    /\ open' = {} /\ joining' = {} /\ conns' = {}
    /\ DropBroadcast
    /\ EndSession
    /\ UNCHANGED <<log, stopping, base>>

-----------------------------------------------------------------------------
SocketStep(s) ==
    /\ pc # "down"
    /\ Accept(s) \/ Register(s) \/ Close(s) \/ Disconnect(s) \/ SendOk(s) \/ SendFails(s)
    /\ UNCHANGED gwVars

GatewayStep ==
    \/ OpenSession \/ Assign \/ WaitOver
    \/ PollMessage \/ PollNull \/ PollNothing \/ StopLoop
    \/ Flush \/ BroadcastDone \/ Commit

Next ==
    \/ Produce \/ StartBackend \/ GatewayStep
    \/ Reassign \/ SessionFails \/ CommitFails \/ RequestStop \/ BackendDown
    \/ \E s \in Socket : SocketStep(s)

Spec == Init /\ [][Next]_vars

\* The event loop runs the task, each send ends within its time limit, a stopped
\* backend is brought down and started again.
Fairness ==
    /\ WF_vars(GatewayStep)
    /\ WF_vars(StartBackend)
    /\ WF_vars(pc = "ended" /\ stopping /\ BackendDown)
    /\ \A s \in Socket : WF_vars(pc # "down" /\ (SendOk(s) \/ SendFails(s)) /\ UNCHANGED gwVars)

FairSpec == Spec /\ Fairness

-----------------------------------------------------------------------------
TypeOK ==
    /\ log \in Seq(Kind) /\ Len(log) <= MaxLog
    /\ committed \in 0 .. Len(log) \cup {NoOffset}
    /\ pc \in {"down", "connecting", "polling", "flush", "broadcasting",
               "committing", "waiting", "ended"}
    /\ stopping \in BOOLEAN
    /\ position \in 0 .. Len(log) \cup {NoOffset}
    /\ pending \in Seq(Offset(Len(log))) /\ Len(pending) <= BatchMax
    /\ pc \in {"flush", "broadcasting", "committing"} => pending # << >>
    /\ refused \subseteq Offset(Len(log))
    /\ base \in 0 .. Len(log)
    /\ sending \subseteq Socket /\ failed \subseteq Socket
    /\ conns \subseteq Socket /\ open \subseteq Socket /\ joining \subseteq Socket
    /\ batch \cup published \subseteq Offset(Len(log))
    /\ faults \in 0 .. MaxFaults

\* The commit never runs ahead of the broadcast: an event below the committed
\* offset was broadcast, or jumped over by a start at the end of the log (the
\* comment in _process_message on broken messages between valid ones).
CommitCoversPublished ==
    \A o \in Offset(committed) :
        o < base \/ Msg(o) = "broken" \/ (Msg(o) = "event" /\ o \in published)

\* Once anything was committed, a session never starts beyond an event that is
\* not published: what an earlier session polled and lost with its batch is read
\* again (_consume_session, _flush_due_batch).
StartSkipsNothing ==
    [][position' # NoOffset /\ position = NoOffset /\ committed # NoOffset
          => \A o \in Offset(Len(log)) :
                Msg(o) = "event" /\ o \notin published => o < base \/ position' <= o]_vars

\* "If the commit fails ... the messages are read again from Kafka in the new
\* consumer session" (the comment at the end of _flush_due_batch).
RereadAfterFailure ==
    [][position' # NoOffset /\ position = NoOffset
          => \A o \in refused : position' <= o]_vars

\* Every event that no start at the end jumped over is published in the end,
\* unless a message without a value appears: that one ends the task, with the
\* batch it was collecting.
EventsPublished ==
    \A o \in 0 .. MaxLog - 1 :
        o < Len(log) /\ Msg(o) = "event"
            ~> o < base \/ o \in published \/ "null" \in ToSet(log)

\* A requested stop brings the backend down, whatever the gateway was doing.
StopEnds == stopping ~> pc = "down"

Promise == INSTANCE AtLeastOnce
               WITH Record <- Kind,
                    committed <- IF committed = NoOffset THEN 0 ELSE committed,
                    effects <- {o \in Offset(Len(log)) :
                                   o < base \/ Msg(o) = "broken" \/ o \in published}

ImplementsPromise == Promise!Spec
=============================================================================
