--------------------------- MODULE OpenSkyProducer ---------------------------
(***************************************************************************)
(* producer/opensky_producer.py: a loop that asks OpenSky for the states    *)
(* with a cached token, queues one record per aircraft, flushes the queue   *)
(* and waits.  Around it: the authorisation and data servers, the broker,   *)
(* the topic it writes to, SIGTERM, kills, restarts and a machine that      *)
(* sleeps.                                                                  *)
(*                                                                         *)
(* Time is relative: counters that Tick brings down to 0.                   *)
(***************************************************************************)
EXTENDS Integers

CONSTANTS
    Lifetimes,      \* the expires_in the authorisation server may answer
    Margin,         \* TOKEN_REFRESH_MARGIN_SECONDS
    Floor,          \* the 60 seconds of get_access_token and get_retry_seconds
    RequestTime,    \* the timeout of both requests
    Interval,       \* effective_poll_interval
    DefaultRetry,   \* the 3600 seconds of get_retry_seconds
    MaxPolls,       \* max_polls; 0: poll for ever
    MaxRecords,     \* most states in one answer
    QueueSize,      \* queue.buffering.max.messages of librdkafka
    MaxFaults       \* bound on failures, suspensions, kills and stop signals

ASSUME ProducerAssumption ==
    /\ Lifetimes \subseteq Nat \ {0}
    /\ RequestTime \in Nat /\ Margin \in Nat /\ Floor \in Nat
    /\ RequestTime <= Margin /\ RequestTime < Floor
    /\ Interval \in Nat \ {0} /\ DefaultRetry \in Nat /\ Floor <= DefaultRetry
    /\ MaxPolls \in Nat /\ MaxRecords \in Nat
    /\ QueueSize \in Nat \ {0} /\ MaxFaults \in Nat

VARIABLES
    pc,        \* where run is
    poll,      \* poll_number, not counted when there is no limit to it
    attempt,   \* the loop variable of fetch_states
    token,     \* access_token and what is known of it
    flight,    \* age of the request under way
    embargo,   \* for how long OpenSky goes on refusing requests ...
    told,      \* ... and whether it has told this process
    wait,      \* what is left of stopping.wait
    records,   \* states not queued yet
    queue,     \* librdkafka: records neither confirmed nor given up ...
    reports,   \* ... and delivery reports no poll or flush has handed over yet
    tracker,   \* the DeliveryTracker of the current poll
    metric,    \* KAFKA_RECORDS_DELIVERED
    sent,      \* history: records queued by this process ...
    acked,     \* ... those of them in the topic ...
    spoilt,    \* ... and whether one of its polls failed after it began to queue
    topicUp,   \* the topic exists
    stopping, faults

request == <<poll, attempt, token, flight, embargo, told>>
kafka == <<queue, reports, sent, acked>>
delivery == <<records, tracker, metric, spoilt, kafka>>
outside == <<topicUp, stopping, faults>>
vars == <<pc, wait, request, delivery, outside>>

Larger(a, b) == IF a > b THEN a ELSE b
Less(n) == Larger(n - 1, 0)

\* left: how long the client goes on using it; valid: how long the servers accept
\* it; life: its expires_in, 0 once the two clocks differ; refused: with a 401.
NoToken == [left |-> 0, valid |-> 0, life |-> 0, refused |-> FALSE]
Token == [left : Nat, valid : Nat, life : Nat, refused : BOOLEAN]

\* Records and reports of the current poll and of earlier ones: the reports of
\* those go to trackers nobody reads any more.
Queue == [mine : Nat, old : Nat]
Reports == [ok : Nat, bad : Nat, old : Nat]
Tracker == [delivered : Nat, failed : Nat]
NoQueue == [mine |-> 0, old |-> 0]
NoReports == [ok |-> 0, bad |-> 0, old |-> 0]
NoneYet == [delivered |-> 0, failed |-> 0]
Queued == queue.mine + queue.old
Room == Queued + reports.ok + reports.bad + reports.old < QueueSize

Init ==
    /\ pc = "down" /\ topicUp \in BOOLEAN /\ stopping = FALSE /\ faults = 0
    /\ poll = 0 /\ attempt = 0 /\ token = NoToken /\ flight = 0 /\ embargo = 0
    /\ told = FALSE /\ wait = 0 /\ records = 0 /\ queue = NoQueue /\ reports = NoReports
    /\ tracker = NoneYet /\ metric = 0 /\ sent = 0 /\ acked = 0 /\ spoilt = FALSE

Fault == faults < MaxFaults /\ faults' = faults + 1 /\ UNCHANGED <<topicUp, stopping>>

-----------------------------------------------------------------------------
(* The process: run, and fetch_states.                                     *)

\* The container starts (again).
Start ==
    /\ pc = "down"
    /\ pc' = "loop"
    /\ UNCHANGED <<wait, request, delivery, outside>>

\* The process is gone and with it everything it knew; OpenSky goes on refusing.
Gone ==
    /\ pc' = "down" /\ stopping' = FALSE
    /\ poll' = 0 /\ attempt' = 0 /\ token' = NoToken /\ flight' = 0 /\ told' = FALSE
    /\ wait' = 0 /\ records' = 0 /\ queue' = NoQueue /\ reports' = NoReports
    /\ tracker' = NoneYet /\ metric' = 0 /\ sent' = 0 /\ acked' = 0 /\ spoilt' = FALSE
    /\ UNCHANGED <<topicUp, embargo>>

\* Bug: one poll too many.
BugExtraPoll ==
    /\ pc = "loop"
    /\ IF stopping \/ (MaxPolls > 0 /\ poll > MaxPolls)
       THEN pc' = "closing" /\ UNCHANGED <<poll, attempt>>
       ELSE /\ pc' = "token" /\ attempt' = 0
            /\ poll' = IF MaxPolls = 0 THEN 0 ELSE poll + 1
    /\ UNCHANGED <<wait, token, flight, embargo, told, delivery, outside>>

BeginPoll ==
    /\ pc = "loop"
    /\ IF stopping \/ (MaxPolls > 0 /\ poll = MaxPolls)
       THEN pc' = "closing" /\ UNCHANGED <<poll, attempt>>
       ELSE /\ pc' = "token" /\ attempt' = 0
            /\ poll' = IF MaxPolls = 0 THEN 0 ELSE poll + 1
    /\ UNCHANGED <<wait, token, flight, embargo, told, delivery, outside>>

\* get_access_token: the cached token, or a request for a new one.
GetAccessToken ==
    /\ pc = "token"
    /\ pc' = IF token.left > 0 THEN "get" ELSE "post"
    /\ flight' = 0
    /\ UNCHANGED <<wait, poll, attempt, token, embargo, told, delivery, outside>>

\* Bug: the token is used up to its very end.
BugNoMargin ==
    /\ pc = "post"
    /\ \E life \in Lifetimes, age \in 0..flight :
         token' = [left |-> Larger(Larger(life, Floor) - flight, 0),
                   valid |-> Larger(life - age, 0), life |-> life, refused |-> FALSE]
    /\ pc' = "get" /\ flight' = 0
    /\ UNCHANGED <<wait, poll, attempt, embargo, told, delivery, outside>>

\* The clock was read before the request; the server counts from some moment of it.
TokenArrives ==
    /\ pc = "post"
    /\ \E life \in Lifetimes, age \in 0..flight :
         token' = [left |-> Larger(Larger(life - Margin, Floor) - flight, 0),
                   valid |-> Larger(life - age, 0), life |-> life, refused |-> FALSE]
    /\ pc' = "get" /\ flight' = 0
    /\ UNCHANGED <<wait, poll, attempt, embargo, told, delivery, outside>>

\* Bug: the refused token stays in the cache.
BugTokenKept == [token EXCEPT !.refused = TRUE]

\* invalidate_access_token
Invalidated == NoToken

\* The end of one turn of the loop of run.
EndPoll ==
    /\ pc' = "wait"
    /\ wait' = IF MaxPolls = 0 \/ poll < MaxPolls THEN Interval ELSE 0

\* 401: once per poll the token is replaced and the request repeated; a token that
\* is refused the second time stays in the cache.
Unauthorized ==
    /\ pc = "get" /\ token.valid = 0
    /\ IF attempt = 0
       THEN pc' = "token" /\ attempt' = 1 /\ token' = Invalidated /\ UNCHANGED wait
       ELSE EndPoll /\ token' = [token EXCEPT !.refused = TRUE] /\ UNCHANGED attempt
    /\ UNCHANGED <<poll, flight, embargo, told, delivery, outside>>

\* Any other HTTP error, a timeout, an unusable answer: caught, the poll is over.
RequestFails ==
    /\ pc \in {"post", "get"}
    /\ EndPoll
    /\ UNCHANGED <<request, delivery, outside>>

\* Bug: what the header says is ignored.
BugRetryFloor(header) == Floor

\* get_retry_seconds: without a readable header an hour, else at least a minute.
RetrySeconds(header) == IF header = -1 THEN DefaultRetry ELSE Larger(header, Floor)

\* 429 of either server; only the data server's embargo matters later.
RateLimited ==
    /\ pc \in {"post", "get"}
    /\ \E header \in -1..DefaultRetry, refused \in 0..DefaultRetry :
         /\ header >= 0 => refused = header
         /\ embargo' = IF pc = "get" THEN refused ELSE embargo
         /\ told' = (pc = "get" \/ told)
         /\ wait' = RetrySeconds(header)
    /\ pc' = "wait"
    /\ UNCHANGED <<poll, attempt, token, flight, delivery, outside>>

\* Records and reports of the poll before become old ones.
StatesArrive ==
    /\ pc = "get" /\ token.valid > 0 /\ embargo = 0
    /\ records' \in 0..MaxRecords
    /\ tracker' = NoneYet
    /\ queue' = [mine |-> 0, old |-> Queued]
    /\ reports' = [ok |-> 0, bad |-> 0, old |-> reports.ok + reports.bad + reports.old]
    /\ pc' = "send"
    /\ UNCHANGED <<wait, request, metric, sent, acked, spoilt, outside>>

-----------------------------------------------------------------------------
(* send_states_to_kafka.                                                   *)

\* producer.poll or flush: the waiting reports reach their callbacks.
Served == [delivered |-> tracker.delivered + reports.ok,
           failed |-> tracker.failed + reports.bad]
Serve == tracker' = Served /\ reports' = NoReports

\* normalize_state returns None.
Skip ==
    /\ pc = "send" /\ records > 0
    /\ records' = records - 1
    /\ UNCHANGED <<pc, wait, request, tracker, metric, spoilt, kafka, outside>>

\* produce and poll(0)
ProduceRecord ==
    /\ pc \in {"send", "full"} /\ records > 0 /\ Room
    /\ pc' = "send"
    /\ records' = records - 1
    /\ queue' = [queue EXCEPT !.mine = @ + 1] /\ sent' = sent + 1
    /\ Serve
    /\ UNCHANGED <<wait, request, metric, acked, spoilt, outside>>

\* Bug: produce is tried again without handing the reports over.
BugBusyWait ==
    /\ pc \in {"send", "full"} /\ records > 0 /\ ~Room
    /\ pc' = "full"
    /\ UNCHANGED <<wait, request, delivery, outside>>

\* BufferError: poll(0.1) and the same record again, for as long as it takes; the
\* stop event is not looked at.
QueueFull ==
    /\ pc \in {"send", "full"} /\ records > 0 /\ ~Room
    /\ pc' = "full"
    /\ Serve
    /\ UNCHANGED <<wait, request, records, queue, metric, sent, acked, spoilt, outside>>

\* A state that cannot be encoded ends the poll; what is queued stays queued.
EncodingFails ==
    /\ pc = "send" /\ records > 0
    /\ EndPoll /\ spoilt' = TRUE /\ records' = 0
    /\ UNCHANGED <<request, tracker, metric, kafka, outside>>

BeginFlush ==
    /\ pc = "send" /\ records = 0
    /\ pc' = "flush"
    /\ UNCHANGED <<wait, request, delivery, outside>>

\* Bug: only what is left in the queue counts as a failure.
BugFailedIgnored ==
    /\ pc = "flush" /\ Queued = 0
    /\ Serve
    /\ metric' = metric + Served.delivered
    /\ EndPoll
    /\ UNCHANGED <<request, records, queue, sent, acked, spoilt, outside>>

\* flush returns 0, and the poll is delivered unless a record of it failed.
FlushDone ==
    /\ pc = "flush" /\ Queued = 0
    /\ Serve
    /\ IF Served.failed > 0
       THEN spoilt' = TRUE /\ UNCHANGED metric
       ELSE metric' = metric + Served.delivered /\ UNCHANGED spoilt
    /\ EndPoll
    /\ UNCHANGED <<request, records, queue, sent, acked, outside>>

\* 30 seconds are over and something is left, of this poll or of an earlier one.
FlushTimesOut ==
    /\ pc = "flush" /\ Queued > 0
    /\ Serve /\ spoilt' = TRUE
    /\ EndPoll
    /\ UNCHANGED <<request, records, queue, metric, sent, acked, outside>>

\* stopping.wait ends early when the stop event is set.
WaitOver ==
    /\ pc = "wait" /\ (wait = 0 \/ stopping)
    /\ pc' = "loop" /\ wait' = 0
    /\ UNCHANGED <<request, delivery, outside>>

\* An exception run does not catch (KafkaException of produce, OverflowError of a
\* timestamp, AttributeError or TypeError of an odd answer): only the finally clause
\* runs.
Raises ==
    /\ pc \in {"post", "get", "send", "full"} /\ Fault
    /\ pc' = "closing"
    /\ UNCHANGED <<wait, request, delivery>>

\* The last flush has ended; what it left behind is lost.
Close ==
    /\ pc = "closing"
    /\ Gone
    /\ UNCHANGED faults

-----------------------------------------------------------------------------
(* Around the process.                                                     *)

\* The broker stores a record of the queue; its report waits for a poll or flush.
Acknowledge ==
    /\ topicUp /\ pc # "down"
    /\ \/ /\ queue.mine > 0
          /\ queue' = [queue EXCEPT !.mine = @ - 1] /\ reports' = [reports EXCEPT !.ok = @ + 1]
       \/ /\ queue.old > 0
          /\ queue' = [queue EXCEPT !.old = @ - 1] /\ reports' = [reports EXCEPT !.old = @ + 1]
    /\ acked' = acked + 1
    /\ UNCHANGED <<pc, wait, request, records, tracker, metric, sent, spoilt, outside>>

\* The client gives a record up: the topic is unknown or the broker does not answer
\* in time, perhaps after it has stored the record.
GiveUp ==
    /\ pc # "down"
    /\ \/ ~topicUp /\ UNCHANGED <<acked, outside>>
       \/ topicUp /\ Fault /\ acked' \in {acked, acked + 1}
    /\ \/ /\ queue.mine > 0
          /\ queue' = [queue EXCEPT !.mine = @ - 1] /\ reports' = [reports EXCEPT !.bad = @ + 1]
       \/ /\ queue.old > 0
          /\ queue' = [queue EXCEPT !.old = @ - 1] /\ reports' = [reports EXCEPT !.old = @ + 1]
    /\ UNCHANGED <<pc, wait, request, records, tracker, metric, sent, spoilt>>

Tick ==
    /\ pc \in {"post", "get"} => flight < RequestTime
    /\ pc # "down"
    /\ flight' = IF pc \in {"post", "get"} THEN flight + 1 ELSE flight
    /\ token' = [token EXCEPT !.left = Less(@), !.valid = Less(@)]
    /\ embargo' = Less(embargo) /\ wait' = Less(wait)
    /\ UNCHANGED <<pc, poll, attempt, told, delivery, outside>>

\* The machine sleeps, which time.monotonic may not count, or OpenSky revokes the
\* token early: it is refused though the client believes in it.
TokenDies ==
    /\ token.valid > 0 /\ Fault
    /\ token' = [token EXCEPT !.valid = 0, !.life = 0]
    /\ embargo' \in {embargo, 0}
    /\ UNCHANGED <<pc, wait, poll, attempt, flight, told, delivery>>

\* topic-init has done its work.
TopicCreated ==
    /\ ~topicUp
    /\ topicUp' = TRUE
    /\ UNCHANGED <<pc, wait, request, delivery, stopping, faults>>

RequestStop ==
    /\ pc # "down" /\ ~stopping /\ faults < MaxFaults
    /\ stopping' = TRUE /\ faults' = faults + 1
    /\ UNCHANGED <<pc, wait, request, delivery, topicUp>>

Crash ==
    /\ pc # "down" /\ faults < MaxFaults
    /\ faults' = faults + 1
    /\ Gone

Process ==
    \/ BeginPoll \/ GetAccessToken \/ TokenArrives \/ Unauthorized \/ RequestFails
    \/ RateLimited \/ StatesArrive \/ Skip \/ ProduceRecord \/ QueueFull
    \/ EncodingFails \/ BeginFlush \/ FlushDone \/ FlushTimesOut \/ WaitOver \/ Close

Next ==
    \/ Process \/ Start \/ Raises \/ Acknowledge \/ GiveUp \/ Tick
    \/ TokenDies \/ TopicCreated \/ RequestStop \/ Crash

Spec == Init /\ [][Next]_vars

\* The process runs, the container is started again, requests and deliveries end in
\* one way or the other (their timeouts), time passes.
Fairness ==
    /\ WF_vars(Process) /\ WF_vars(Start) /\ WF_vars(Tick)
    /\ WF_vars(Acknowledge \/ GiveUp)

FairSpec == Spec /\ Fairness

-----------------------------------------------------------------------------
(* Properties.                                                             *)

\* Every variable keeps its type; the client's queue never exceeds its size.
TypeOK ==
    /\ pc \in {"down", "loop", "token", "post", "get", "send", "full", "flush",
              "wait", "closing"}
    /\ poll \in 0..MaxPolls /\ attempt \in 0..1
    /\ token \in Token /\ flight \in 0..RequestTime
    /\ embargo \in 0..DefaultRetry /\ told \in BOOLEAN
    /\ wait \in 0..Larger(DefaultRetry, Interval)
    /\ records \in 0..MaxRecords
    /\ queue \in Queue /\ reports \in Reports /\ tracker \in Tracker
    /\ Queued + reports.ok + reports.bad + reports.old <= QueueSize
    /\ metric \in Nat /\ sent \in Nat /\ acked \in Nat /\ spoilt \in BOOLEAN
    /\ topicUp \in BOOLEAN /\ stopping \in BOOLEAN /\ faults \in 0..MaxFaults

\* Unless the clocks differ, a token that outlives the floor and one request is
\* still valid when the request that carries it is judged, however long either
\* request took.  A shorter one may be refused: the floor keeps it too long.
NoExpiredToken ==
    pc = "get" /\ token.life >= Floor + RequestTime => token.valid > 0

\* The repeated request of a poll never carries the token that was just refused.
RetryUsesNewToken == pc = "get" /\ attempt = 1 => ~token.refused

\* No data request while OpenSky refuses them, as far as this process was told.
RateLimitRespected == pc = "get" /\ told => embargo = 0

\* The metric never counts a record that is not in the topic.  As long as no poll
\* was reported as failed, every record queued so far is there and is counted:
\* nothing is lost in silence.
DeliveredHonest ==
    /\ metric <= acked
    /\ ~spoilt /\ pc \in {"loop", "token", "post", "get", "wait"}
         => metric = sent /\ acked = sent

\* A stop ends the process, also from the loop over a full queue.
StopEnds == stopping ~> pc = "down"
=============================================================================
