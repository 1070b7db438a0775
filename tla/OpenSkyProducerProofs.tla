------------------------- MODULE OpenSkyProducerProofs -------------------------
(***************************************************************************)
(* Proofs about OpenSkyProducer for every lifetime of a token, every       *)
(* margin, queue and answer size and every bound: a request never carries  *)
(* an expired or a refused token, no request is sent under an embargo, and  *)
(* what is counted as delivered is in the topic.                           *)
(***************************************************************************)
EXTENDS OpenSkyProducer, TLAPS

USE ProducerAssumption DEF Larger, Less

LongLived == token.life >= Floor + RequestTime

\* A token in use is valid for at least one request longer than the client will use
\* it, and while a request carries it, for what is left of that request.
TokenInv ==
    LongLived => /\ token.left > 0 => token.valid >= token.left + RequestTime
                 /\ pc = "get" => token.valid + flight > RequestTime

\* The second attempt of a poll starts without a token and carries a fresh one.
RetryInv ==
    attempt = 1 => /\ pc = "token" => token.left = 0
                   /\ pc = "get" => ~token.refused

\* While OpenSky refuses requests, the process waits that long or is about to end.
EmbargoInv ==
    embargo > 0 /\ told => \/ pc = "wait" /\ (embargo <= wait \/ stopping)
                           \/ pc = "loop" /\ stopping
                           \/ pc = "closing"

Sending == pc \in {"send", "full", "flush"}
Between == pc \in {"down", "loop", "token", "post", "get", "wait"}

\* Where each record of this process is: unless a poll failed, the queue is empty
\* between two polls, and during one each record is queued, reported or counted.
DeliveryInv ==
    /\ metric <= acked
    /\ Sending => metric + tracker.delivered + reports.ok <= acked
    /\ ~spoilt /\ Between =>
         /\ metric = sent /\ acked = sent
         /\ Queued = 0 /\ reports.ok = 0 /\ reports.bad = 0 /\ reports.old = 0
    /\ ~spoilt /\ Sending =>
         /\ queue.old = 0 /\ reports.old = 0
         /\ sent = metric + tracker.delivered + tracker.failed
                   + reports.ok + reports.bad + queue.mine
         /\ tracker.failed + reports.bad = 0
               => acked = metric + tracker.delivered + reports.ok

IInv == TypeOK /\ TokenInv /\ RetryInv /\ EmbargoInv /\ DeliveryInv

-----------------------------------------------------------------------------
(* Types.                                                                  *)

\* The fields of the records.
LEMMA Fields ==
    ASSUME TypeOK
    PROVE  /\ token.left \in Nat /\ token.valid \in Nat /\ token.life \in Nat
           /\ token.refused \in BOOLEAN
           /\ queue.mine \in Nat /\ queue.old \in Nat
           /\ reports.ok \in Nat /\ reports.bad \in Nat /\ reports.old \in Nat
           /\ tracker.delivered \in Nat /\ tracker.failed \in Nat
BY DEF TypeOK, Token, Queue, Reports, Tracker

\* The part of the types the request side changes.
RequestType ==
    /\ pc \in {"down", "loop", "token", "post", "get", "send", "full", "flush",
              "wait", "closing"}
    /\ poll \in 0..MaxPolls /\ attempt \in 0..1
    /\ token \in Token /\ flight \in 0..RequestTime
    /\ embargo \in 0..DefaultRetry /\ told \in BOOLEAN
    /\ wait \in 0..Larger(DefaultRetry, Interval)

\* The part the delivery side changes.
DeliveryType ==
    /\ records \in 0..MaxRecords
    /\ queue \in Queue /\ reports \in Reports /\ tracker \in Tracker
    /\ Queued + reports.ok + reports.bad + reports.old <= QueueSize
    /\ metric \in Nat /\ sent \in Nat /\ acked \in Nat /\ spoilt \in BOOLEAN

OutsideType == topicUp \in BOOLEAN /\ stopping \in BOOLEAN /\ faults \in 0..MaxFaults

LEMMA RequestTypeStep == ASSUME TypeOK, [Next]_vars PROVE RequestType'
<1> USE DEF TypeOK, RequestType
<1>e. EndPoll => pc' = "wait" /\ wait' \in 0..Larger(DefaultRetry, Interval)
  BY DEF EndPoll
<1>n. NoToken \in Token /\ 0 \in 0..DefaultRetry /\ 0 \in 0..Larger(DefaultRetry, Interval)
  BY DEF NoToken, Token
<1>1. CASE UNCHANGED <<wait, request>> /\ pc' \in {pc, "loop", "send", "full", "flush", "closing"}
  BY <1>1 DEF request
<1>2. CASE BeginPoll
  <2>2. token' \in Token
    BY <1>2 DEF BeginPoll
  <2>3. poll' \in 0..MaxPolls
    BY <1>2 DEF BeginPoll
  <2>4. QED
    BY <1>2, <2>2, <2>3 DEF BeginPoll
<1>3. CASE GetAccessToken
  BY <1>3 DEF GetAccessToken
<1>4. CASE TokenArrives
  <2>1. PICK life \in Lifetimes, age \in 0..flight :
          token' = [left |-> Larger(Larger(life - Margin, Floor) - flight, 0),
                    valid |-> Larger(life - age, 0), life |-> life, refused |-> FALSE]
    BY <1>4 DEF TokenArrives
  <2>2. life \in Nat /\ age \in Nat /\ flight \in Nat
    OBVIOUS
  <2>3. token' \in Token
    BY <2>1, <2>2 DEF Token
  <2>4. QED
    BY <1>4, <2>3 DEF TokenArrives
<1>5. CASE Unauthorized
  <2>1. Invalidated \in Token /\ [token EXCEPT !.refused = TRUE] \in Token
    BY <1>n DEF Invalidated, Token
  <2>2. token' \in Token /\ wait' \in 0..Larger(DefaultRetry, Interval) /\ pc' \in {"token", "wait"}
    BY <1>5, <1>e, <2>1 DEF Unauthorized
  <2>3. QED
    BY <1>5, <2>2 DEF Unauthorized, EndPoll
<1>6. CASE RequestFails \/ EncodingFails \/ FlushDone \/ FlushTimesOut
  <2>1. EndPoll /\ UNCHANGED request
    BY <1>6 DEF RequestFails, EncodingFails, FlushDone, FlushTimesOut
  <2>2. QED
    BY <1>e, <2>1 DEF request
<1>7. CASE RateLimited
  <2>1. PICK header \in -1..DefaultRetry, refused \in 0..DefaultRetry :
          /\ embargo' = IF pc = "get" THEN refused ELSE embargo
          /\ wait' = RetrySeconds(header)
    BY <1>7 DEF RateLimited
  <2>2. RetrySeconds(header) \in 0..Larger(DefaultRetry, Interval)
    BY DEF RetrySeconds
  <2>3. QED
    BY <1>7, <2>1, <2>2 DEF RateLimited
<1>8. CASE WaitOver
  BY <1>8, <1>n DEF WaitOver, request
<1>9. CASE Gone
  <2>1. told' = FALSE /\ embargo' = embargo
    BY <1>9 DEF Gone
  <2>2. told' \in BOOLEAN
    BY <2>1
  <2>3. /\ pc' = "down" /\ poll' = 0 /\ attempt' = 0 /\ token' \in Token /\ flight' = 0
        /\ wait' = 0
    BY <1>9, <1>n DEF Gone
  <2>4. embargo' \in 0..DefaultRetry
    BY <2>1
  <2>5. QED
    BY <1>n, <2>2, <2>3, <2>4
<1>10. CASE Tick
  <2>1. [token EXCEPT !.left = Less(@), !.valid = Less(@)] \in Token
    <3>1. \A x, y \in Nat : [token EXCEPT !.left = x, !.valid = y] \in Token
      BY DEF Token
    <3>2. Less(token.left) \in Nat /\ Less(token.valid) \in Nat
      BY Fields
    <3>3. QED
      BY <3>1, <3>2
  <2>2. token' \in Token
    BY <1>10, <2>1 DEF Tick
  <2>3. flight' \in 0..RequestTime
    BY <1>10 DEF Tick
  <2>4. embargo' \in 0..DefaultRetry /\ wait' \in 0..Larger(DefaultRetry, Interval)
    BY <1>10 DEF Tick
  <2>5. QED
    BY <1>10, <2>2, <2>3, <2>4 DEF Tick
<1>11. CASE TokenDies
  <2>1. [token EXCEPT !.valid = 0, !.life = 0] \in Token
    BY DEF Token
  <2>2. QED
    BY <1>11, <1>n, <2>1 DEF TokenDies
<1>12. QED
  BY <1>1, <1>2, <1>3, <1>4, <1>5, <1>6, <1>7, <1>8, <1>9, <1>10, <1>11
     DEF Next, Process, vars, StatesArrive, Skip, ProduceRecord, QueueFull, BeginFlush,
         Close, Start, Raises, Acknowledge, GiveUp, TopicCreated, RequestStop, Crash

LEMMA OutsideTypeStep == ASSUME TypeOK, [Next]_vars PROVE OutsideType'
<1> USE DEF TypeOK, OutsideType
<1>1. Fault => faults' \in 0..MaxFaults /\ UNCHANGED <<topicUp, stopping>>
  BY DEF Fault
<1>2. CASE UNCHANGED outside
  BY <1>2 DEF outside
<1>3. CASE Raises \/ TokenDies \/ GiveUp
  BY <1>1, <1>2, <1>3 DEF Raises, TokenDies, GiveUp
<1>4. CASE TopicCreated
  BY <1>4 DEF TopicCreated
<1>5. CASE RequestStop \/ Close \/ Crash
  <2>1. faults' \in 0..MaxFaults
    BY <1>5 DEF RequestStop, Close, Crash
  <2>2. topicUp' = topicUp /\ stopping' \in BOOLEAN
    BY <1>5 DEF RequestStop, Close, Crash, Gone
  <2>3. QED
    BY <2>1, <2>2
<1>6. QED
  BY <1>2, <1>3, <1>4, <1>5
     DEF Next, Process, vars, BeginPoll, GetAccessToken, TokenArrives, Unauthorized,
         RequestFails, RateLimited, StatesArrive, Skip, ProduceRecord, QueueFull,
         EncodingFails, BeginFlush, FlushDone, FlushTimesOut, WaitOver, Start,
         Acknowledge, Tick

\* What handing the reports over does.
LEMMA ServeFacts ==
    ASSUME TypeOK, Serve
    PROVE  /\ tracker' \in Tracker /\ reports' \in Reports
           /\ reports'.ok = 0 /\ reports'.bad = 0 /\ reports'.old = 0
           /\ tracker'.delivered = tracker.delivered + reports.ok
           /\ tracker'.failed = tracker.failed + reports.bad
BY Fields DEF Serve, Served, NoReports, Tracker, Reports

\* What a confirmed record, or one given up, does to the queue and the reports.
LEMMA ReportFacts ==
    ASSUME TypeOK, Acknowledge \/ GiveUp
    PROVE  /\ queue' \in Queue /\ reports' \in Reports
           /\ \/ /\ queue.mine > 0
                 /\ queue'.mine = queue.mine - 1 /\ queue'.old = queue.old
                 /\ reports'.old = reports.old
                 /\ Acknowledge => reports'.ok = reports.ok + 1 /\ reports'.bad = reports.bad
                 /\ GiveUp => reports'.ok = reports.ok /\ reports'.bad = reports.bad + 1
              \/ /\ queue.old > 0
                 /\ queue'.mine = queue.mine /\ queue'.old = queue.old - 1
                 /\ reports'.ok = reports.ok /\ reports'.bad = reports.bad
                 /\ reports'.old = reports.old + 1
<1>1. queue \in Queue /\ reports \in Reports
  BY DEF TypeOK
<1>2. \A x \in Nat : /\ [queue EXCEPT !.mine = x] \in Queue
                     /\ [queue EXCEPT !.old = x] \in Queue
                     /\ [reports EXCEPT !.ok = x] \in Reports
                     /\ [reports EXCEPT !.bad = x] \in Reports
                     /\ [reports EXCEPT !.old = x] \in Reports
  BY <1>1 DEF Queue, Reports
<1>f. /\ queue.mine > 0 => queue.mine - 1 \in Nat
      /\ queue.old > 0 => queue.old - 1 \in Nat
      /\ reports.ok + 1 \in Nat /\ reports.bad + 1 \in Nat /\ reports.old + 1 \in Nat
  BY Fields
<1>3. CASE /\ queue.mine > 0
           /\ queue' = [queue EXCEPT !.mine = queue.mine - 1]
           /\ reports' \in {[reports EXCEPT !.ok = reports.ok + 1],
                            [reports EXCEPT !.bad = reports.bad + 1]}
           /\ Acknowledge => reports' = [reports EXCEPT !.ok = reports.ok + 1]
           /\ GiveUp => reports' = [reports EXCEPT !.bad = reports.bad + 1]
  <2>1. queue' \in Queue /\ reports' \in Reports
    BY <1>2, <1>3, <1>f
  <2>2. queue'.mine = queue.mine - 1 /\ queue'.old = queue.old /\ reports'.old = reports.old
    BY <1>1, <1>3 DEF Queue, Reports
  <2>3. Acknowledge => reports'.ok = reports.ok + 1 /\ reports'.bad = reports.bad
    BY <1>1, <1>3 DEF Reports
  <2>4. GiveUp => reports'.ok = reports.ok /\ reports'.bad = reports.bad + 1
    BY <1>1, <1>3 DEF Reports
  <2>5. QED
    BY <1>3, <2>1, <2>2, <2>3, <2>4
<1>4. CASE /\ queue.old > 0
           /\ queue' = [queue EXCEPT !.old = queue.old - 1]
           /\ reports' = [reports EXCEPT !.old = reports.old + 1]
  <2>1. queue' \in Queue /\ reports' \in Reports
    BY <1>2, <1>4, <1>f
  <2>2. queue'.mine = queue.mine /\ queue'.old = queue.old - 1
    BY <1>1, <1>4 DEF Queue
  <2>3. reports'.ok = reports.ok /\ reports'.bad = reports.bad /\ reports'.old = reports.old + 1
    BY <1>1, <1>4 DEF Reports
  <2>4. QED
    BY <1>4, <2>1, <2>2, <2>3
<1>5. QED
  BY <1>3, <1>4 DEF Acknowledge, GiveUp

\* The records and counters after the answer, and after one more record.
LEMMA AnswerFacts ==
    ASSUME TypeOK, StatesArrive
    PROVE  /\ queue' \in Queue /\ reports' \in Reports /\ tracker' \in Tracker
           /\ queue'.mine = 0 /\ queue'.old = queue.mine + queue.old
           /\ reports'.ok = 0 /\ reports'.bad = 0
           /\ reports'.old = reports.ok + reports.bad + reports.old
           /\ tracker'.delivered = 0 /\ tracker'.failed = 0
<1>1. /\ queue' = [mine |-> 0, old |-> queue.mine + queue.old]
      /\ reports' = [ok |-> 0, bad |-> 0, old |-> reports.ok + reports.bad + reports.old]
      /\ tracker' = [delivered |-> 0, failed |-> 0]
  BY DEF StatesArrive, NoneYet, Queued
<1>2. queue.mine + queue.old \in Nat /\ reports.ok + reports.bad + reports.old \in Nat
  BY Fields
<1>3. QED
  BY <1>1, <1>2 DEF Queue, Reports, Tracker

LEMMA RecordFacts ==
    ASSUME TypeOK, ProduceRecord
    PROVE  /\ queue' \in Queue
           /\ queue'.mine = queue.mine + 1 /\ queue'.old = queue.old
<1>1. queue \in Queue /\ queue' = [queue EXCEPT !.mine = queue.mine + 1]
  BY DEF TypeOK, ProduceRecord
<1>2. queue.mine + 1 \in Nat
  BY Fields
<1>3. QED
  BY <1>1, <1>2 DEF Queue

\* A process that is gone has nothing queued.
LEMMA GoneFacts ==
    ASSUME Gone
    PROVE  /\ queue' \in Queue /\ reports' \in Reports /\ tracker' \in Tracker
           /\ queue'.mine = 0 /\ queue'.old = 0
           /\ reports'.ok = 0 /\ reports'.bad = 0 /\ reports'.old = 0
           /\ token'.life = 0
BY DEF Gone, NoQueue, NoReports, NoneYet, NoToken, Queue, Reports, Tracker

LEMMA CountersGone ==
    ASSUME Gone
    PROVE  /\ records' \in 0..MaxRecords
           /\ metric' = 0 /\ sent' = 0 /\ acked' = 0
           /\ metric' \in Nat /\ sent' \in Nat /\ acked' \in Nat /\ spoilt' \in BOOLEAN
           /\ pc' = "down"
<1>1. records' = 0 /\ metric' = 0 /\ sent' = 0 /\ acked' = 0 /\ pc' = "down"
  BY DEF Gone
<1>2. spoilt' = FALSE
  BY DEF Gone
<1>3. spoilt' \in BOOLEAN
  BY <1>2
<1>4. 0 \in 0..MaxRecords /\ 0 \in Nat
  OBVIOUS
<1>5. QED
  BY <1>1, <1>3, <1>4

LEMMA DeliveryTypeStep == ASSUME TypeOK, [Next]_vars PROVE DeliveryType'
<1> USE DEF TypeOK, DeliveryType, Queued
<1>1. CASE UNCHANGED delivery
  BY <1>1 DEF delivery, kafka
<1>2. CASE StatesArrive
  <2>1. UNCHANGED <<metric, sent, acked, spoilt>> /\ records' \in 0..MaxRecords
    BY <1>2 DEF StatesArrive
  <2>2. Queued' + reports'.ok + reports'.bad + reports'.old <= QueueSize
    BY <1>2, AnswerFacts, Fields
  <2>3. QED
    BY <1>2, <2>1, <2>2, AnswerFacts
<1>3. CASE Skip
  <2>1. records' \in 0..MaxRecords /\ UNCHANGED <<tracker, metric, spoilt, kafka>>
    BY <1>3 DEF Skip
  <2>2. QED
    BY <2>1 DEF kafka
<1>4. CASE ProduceRecord
  <2>1. /\ records' \in 0..MaxRecords /\ sent' \in Nat
        /\ UNCHANGED <<metric, acked, spoilt>> /\ Serve
    BY <1>4 DEF ProduceRecord
  <2>2. queue.mine + queue.old < QueueSize
    BY <1>4, Fields DEF ProduceRecord, Room
  <2>3. Queued' + reports'.ok + reports'.bad + reports'.old <= QueueSize
    BY <1>4, <2>1, <2>2, ServeFacts, RecordFacts, Fields
  <2>4. QED
    BY <1>4, <2>1, <2>3, ServeFacts, RecordFacts
<1>5. CASE QueueFull \/ FlushTimesOut
  <2>1. /\ Serve /\ UNCHANGED <<records, queue, metric, sent, acked>>
        /\ spoilt' \in BOOLEAN
    BY <1>5 DEF QueueFull, FlushTimesOut
  <2>2. Queued' + reports'.ok + reports'.bad + reports'.old <= QueueSize
    BY <2>1, ServeFacts, Fields
  <2>3. QED
    BY <2>1, <2>2, ServeFacts
<1>6. CASE EncodingFails
  <2>1. UNCHANGED <<tracker, metric, kafka>> /\ records' = 0 /\ spoilt' = TRUE
    BY <1>6 DEF EncodingFails
  <2>2. QED
    BY <2>1 DEF kafka
<1>7. CASE FlushDone
  <2>1. Serve /\ UNCHANGED <<records, queue, sent, acked>> /\ spoilt' \in BOOLEAN
    BY <1>7 DEF FlushDone
  <2>2. metric' \in Nat
    <3>1. metric' = metric \/ metric' = metric + Served.delivered
      BY <1>7 DEF FlushDone
    <3>2. Served.delivered \in Nat
      BY Fields DEF Served
    <3>3. QED
      BY <3>1, <3>2
  <2>3. Queued' + reports'.ok + reports'.bad + reports'.old <= QueueSize
    BY <2>1, ServeFacts, Fields
  <2>4. QED
    BY <2>1, <2>2, <2>3, ServeFacts
<1>8. CASE Gone
  <2>1. /\ records' \in 0..MaxRecords
        /\ metric' \in Nat /\ sent' \in Nat /\ acked' \in Nat /\ spoilt' \in BOOLEAN
    BY <1>8, CountersGone
  <2>2. Queued' + reports'.ok + reports'.bad + reports'.old <= QueueSize
    BY <1>8, GoneFacts
  <2>3. QED
    BY <1>8, <2>1, <2>2, GoneFacts
<1>9. CASE Acknowledge \/ GiveUp
  <2>1. UNCHANGED <<records, tracker, metric, sent, spoilt>> /\ acked' \in Nat
    BY <1>9 DEF Acknowledge, GiveUp
  <2>2. Queued' + reports'.ok + reports'.bad + reports'.old <= QueueSize
    BY <1>9, ReportFacts, Fields
  <2>3. QED
    BY <1>9, <2>1, <2>2, ReportFacts
<1>10. QED
  BY <1>1, <1>2, <1>3, <1>4, <1>5, <1>6, <1>7, <1>8, <1>9
     DEF Next, Process, vars, BeginPoll, GetAccessToken, TokenArrives, Unauthorized,
         RequestFails, RateLimited, BeginFlush, WaitOver, Close, Start, Raises, Tick,
         TokenDies, TopicCreated, RequestStop, Crash

LEMMA TypeStep == ASSUME TypeOK, [Next]_vars PROVE TypeOK'
BY RequestTypeStep, DeliveryTypeStep, OutsideTypeStep
   DEF TypeOK, RequestType, DeliveryType, OutsideType

-----------------------------------------------------------------------------
(* The request side.                                                       *)

\* A token that lives long enough stays valid for as long as it is used.
LEMMA TokenStep ==
    ASSUME TypeOK, TokenInv, [Next]_vars PROVE TokenInv'
<1> USE DEF TokenInv, LongLived
<1>0. /\ token.left \in Nat /\ token.valid \in Nat /\ token.life \in Nat
      /\ flight \in 0..RequestTime /\ token \in Token
  BY Fields DEF TypeOK
<1>1. CASE UNCHANGED <<token, flight>> /\ (pc' = "get" => pc = "get")
  BY <1>1
<1>2. CASE BeginPoll
  <2>1. pc' # "get" /\ token'.left = token.left /\ token'.valid = token.valid
        /\ token'.life = token.life
    BY <1>0, <1>2 DEF BeginPoll, Token
  <2>2. QED
    BY <2>1
<1>3. CASE GetAccessToken
  <2>1. token' = token /\ flight' = 0 /\ (pc' = "get" => token.left > 0)
    BY <1>3 DEF GetAccessToken
  <2>2. QED
    BY <1>0, <2>1
<1>4. CASE TokenArrives
  <2>1. PICK life \in Lifetimes, age \in 0..flight :
          token' = [left |-> Larger(Larger(life - Margin, Floor) - flight, 0),
                    valid |-> Larger(life - age, 0), life |-> life, refused |-> FALSE]
    BY <1>4 DEF TokenArrives
  <2>2. life \in Nat /\ age \in Nat /\ age <= flight /\ flight <= RequestTime
    BY <1>0
  <2>3. /\ token'.left = Larger(Larger(life - Margin, Floor) - flight, 0)
        /\ token'.valid = Larger(life - age, 0) /\ token'.life = life
        /\ flight' = 0
    BY <1>4, <2>1 DEF TokenArrives
  <2>4. QED
    BY <1>0, <2>2, <2>3
<1>5. CASE Unauthorized
  <2>1. pc' # "get" /\ flight' = flight
    BY <1>5 DEF Unauthorized, EndPoll
  <2>2. token' \in {[token EXCEPT !.refused = TRUE], Invalidated}
    BY <1>5 DEF Unauthorized
  <2>3. /\ Invalidated.left = 0 /\ Invalidated.life = 0
        /\ [token EXCEPT !.refused = TRUE].left = token.left
        /\ [token EXCEPT !.refused = TRUE].valid = token.valid
        /\ [token EXCEPT !.refused = TRUE].life = token.life
    BY <1>0 DEF Invalidated, NoToken, Token
  <2>4. \/ token'.left = token.left /\ token'.valid = token.valid /\ token'.life = token.life
        \/ token'.left = 0 /\ token'.life = 0
    BY <2>2, <2>3
  <2>5. QED
    BY <1>0, <2>1, <2>4
<1>6. CASE Gone
  <2>1. token'.life = 0
    BY <1>6, GoneFacts
  <2>2. QED
    BY <2>1
<1>7. CASE Tick
  <2>1. /\ token'.left = Less(token.left) /\ token'.valid = Less(token.valid)
        /\ token'.life = token.life /\ pc' = pc
    BY <1>0, <1>7 DEF Tick, Token
  <2>2. pc = "get" => flight' = flight + 1 /\ flight < RequestTime
    BY <1>7 DEF Tick
  <2>3. QED
    BY <1>0, <2>1, <2>2
<1>8. CASE TokenDies
  <2>1. token'.life = 0
    BY <1>0, <1>8 DEF TokenDies, Token
  <2>2. QED
    BY <2>1
<1>9. QED
  BY <1>1, <1>2, <1>3, <1>4, <1>5, <1>6, <1>7, <1>8
     DEF Next, Process, vars, request, RequestFails, RateLimited, EndPoll, StatesArrive,
         Skip, ProduceRecord, QueueFull, EncodingFails, BeginFlush, FlushDone,
         FlushTimesOut, WaitOver, Close, Start, Raises, Acknowledge, GiveUp, TopicCreated,
         RequestStop, Crash

\* The second attempt of a poll asks for a new token.
LEMMA RetryStep ==
    ASSUME TypeOK, RetryInv, [Next]_vars PROVE RetryInv'
<1> USE DEF RetryInv
<1>0. token \in Token /\ token.left \in Nat
  BY Fields DEF TypeOK
<1>1. CASE UNCHANGED <<token, attempt>> /\ (pc' \in {"token", "get"} => pc' = pc)
  BY <1>1
<1>2. CASE BeginPoll
  <2>1. pc' # "get" /\ (pc' = "token" => attempt' = 0)
    BY <1>2 DEF BeginPoll
  <2>2. QED
    BY <2>1
<1>3. CASE GetAccessToken
  BY <1>3 DEF GetAccessToken
<1>4. CASE TokenArrives
  <2>1. pc' = "get" /\ token'.refused = FALSE
    BY <1>4 DEF TokenArrives
  <2>2. QED
    BY <2>1
<1>5. CASE Unauthorized
  <2>1. pc' # "get" /\ (pc' = "token" => token' = Invalidated)
    BY <1>5 DEF Unauthorized, EndPoll
  <2>2. Invalidated.left = 0
    BY DEF Invalidated, NoToken
  <2>3. QED
    BY <2>1, <2>2
<1>6. CASE Gone
  BY <1>6 DEF Gone
<1>7. CASE Tick
  <2>1. /\ token'.left = Less(token.left) /\ token'.refused = token.refused
        /\ UNCHANGED <<pc, attempt>>
    BY <1>0, <1>7 DEF Tick, Token
  <2>2. token.left = 0 => token'.left = 0
    BY <2>1
  <2>3. QED
    BY <2>1, <2>2
<1>8. CASE TokenDies
  <2>1. token'.left = token.left /\ token'.refused = token.refused /\ UNCHANGED <<pc, attempt>>
    BY <1>0, <1>8 DEF TokenDies, Token
  <2>2. QED
    BY <2>1
<1>9. QED
  BY <1>1, <1>2, <1>3, <1>4, <1>5, <1>6, <1>7, <1>8
     DEF Next, Process, vars, request, RequestFails, RateLimited, EndPoll, StatesArrive,
         Skip, ProduceRecord, QueueFull, EncodingFails, BeginFlush, FlushDone,
         FlushTimesOut, WaitOver, Close, Start, Raises, Acknowledge, GiveUp, TopicCreated,
         RequestStop, Crash

\* The wait is never shorter than the embargo the process was told of.
LEMMA EmbargoStep ==
    ASSUME TypeOK, EmbargoInv, [Next]_vars PROVE EmbargoInv'
<1> USE DEF EmbargoInv
<1>0. embargo \in Nat /\ wait \in Nat /\ told \in BOOLEAN
  BY DEF TypeOK
<1>1. CASE /\ UNCHANGED <<embargo, told, wait>> /\ (stopping => stopping')
           /\ pc' \in {pc, "closing"}
  BY <1>1
<1>2. CASE BeginPoll
  BY <1>2 DEF BeginPoll, outside
<1>3. CASE UNCHANGED <<embargo, told>> /\ pc \in {"token", "post", "get", "send", "full", "flush"}
  BY <1>0, <1>3
<1>4. CASE RateLimited
  <2>1. PICK header \in -1..DefaultRetry, refused \in 0..DefaultRetry :
          /\ header >= 0 => refused = header
          /\ embargo' = IF pc = "get" THEN refused ELSE embargo
          /\ wait' = RetrySeconds(header)
    BY <1>4 DEF RateLimited
  <2>t. pc = "post" => ~(embargo > 0 /\ told)
    OBVIOUS
  <2>u. told' = (pc = "get" \/ told)
    BY <1>4 DEF RateLimited
  <2>2. refused <= RetrySeconds(header)
    BY <2>1 DEF RetrySeconds
  <2>3. pc \in {"post", "get"} /\ pc' = "wait"
    BY <1>4 DEF RateLimited
  <2>4. QED
    BY <1>0, <2>1, <2>2, <2>3, <2>t, <2>u
<1>5. CASE WaitOver
  BY <1>0, <1>5 DEF WaitOver, request, outside
<1>6. CASE Gone
  BY <1>6 DEF Gone
<1>7. CASE Tick
  BY <1>0, <1>7 DEF Tick, outside
<1>8. CASE TokenDies
  BY <1>0, <1>8 DEF TokenDies, Fault
<1>9. CASE Start
  BY <1>0, <1>9 DEF Start, request
<1>10. QED
  BY <1>1, <1>2, <1>3, <1>4, <1>5, <1>6, <1>7, <1>8, <1>9
     DEF Next, Process, vars, request, outside, GetAccessToken, TokenArrives,
         Unauthorized, RequestFails, StatesArrive, Skip, ProduceRecord, QueueFull,
         EncodingFails, BeginFlush, FlushDone, FlushTimesOut, Close, Raises, Fault,
         Acknowledge, GiveUp, TopicCreated, RequestStop, Crash

-----------------------------------------------------------------------------
(* The delivery side.                                                      *)

\* No record leaves the accounts: what a step takes from the queue it reports, what
\* it takes from the reports it counts, and whatever fails spoils the poll.
LEMMA DeliveryStep ==
    ASSUME TypeOK, DeliveryInv, [Next]_vars PROVE DeliveryInv'
<1> USE DEF DeliveryInv, Sending, Between, Queued
<1>0. /\ metric \in Nat /\ sent \in Nat /\ acked \in Nat /\ spoilt \in BOOLEAN
      /\ queue.mine \in Nat /\ queue.old \in Nat
      /\ reports.ok \in Nat /\ reports.bad \in Nat /\ reports.old \in Nat
      /\ tracker.delivered \in Nat /\ tracker.failed \in Nat
  BY Fields DEF TypeOK
<1>1. CASE /\ UNCHANGED <<tracker, metric, spoilt, kafka>>
           /\ \/ pc' = pc
              \/ pc' = "closing"
              \/ Sending /\ Sending'
              \/ Between /\ Between'
  BY <1>1 DEF kafka
<1>2. CASE Start \/ Gone
  <2>1. CASE Gone
    <3>1. metric' = 0 /\ sent' = 0 /\ acked' = 0 /\ pc' = "down"
      BY <2>1, CountersGone
    <3>2. /\ queue'.mine = 0 /\ queue'.old = 0
          /\ reports'.ok = 0 /\ reports'.bad = 0 /\ reports'.old = 0
      BY <2>1, GoneFacts
    <3>3. ~Sending' /\ metric' <= acked'
      BY <3>1
    <3>4. QED
      BY <3>1, <3>2, <3>3
  <2>2. CASE Start /\ ~Gone
    <3>1. pc = "down" /\ pc' = "loop" /\ UNCHANGED <<tracker, metric, spoilt, kafka>>
      BY <2>2 DEF Start, delivery
    <3>2. QED
      BY <1>1, <3>1
  <2>3. QED
    BY <1>2, <2>1, <2>2
<1>3. CASE StatesArrive
  <2>1. /\ pc = "get" /\ pc' = "send" /\ UNCHANGED <<metric, sent, acked, spoilt>>
    BY <1>3 DEF StatesArrive
  <2>2. Between /\ ~Sending /\ Sending' /\ ~Between'
    BY <2>1
  <2>3. /\ queue'.mine = 0 /\ queue'.old = queue.mine + queue.old
        /\ reports'.ok = 0 /\ reports'.bad = 0
        /\ reports'.old = reports.ok + reports.bad + reports.old
        /\ tracker'.delivered = 0 /\ tracker'.failed = 0
    BY <1>3, AnswerFacts
  <2>4. metric' <= acked' /\ metric' + tracker'.delivered + reports'.ok <= acked'
    BY <1>0, <2>1, <2>3
  <2>5. ~spoilt => /\ metric = sent /\ acked = sent
                   /\ queue.mine = 0 /\ queue.old = 0
                   /\ reports.ok = 0 /\ reports.bad = 0 /\ reports.old = 0
    BY <1>0, <2>2
  <2>6. ~spoilt' =>
          /\ queue'.old = 0 /\ reports'.old = 0
          /\ sent' = metric' + tracker'.delivered + tracker'.failed
                     + reports'.ok + reports'.bad + queue'.mine
          /\ acked' = metric' + tracker'.delivered + reports'.ok
    BY <1>0, <2>1, <2>3, <2>5
  <2>7. QED
    BY <2>2, <2>4, <2>6
<1>4. CASE ProduceRecord
  <2>1. /\ Sending /\ pc' = "send" /\ sent' = sent + 1 /\ Serve
        /\ UNCHANGED <<metric, acked, spoilt>>
    BY <1>4 DEF ProduceRecord
  <2>2. /\ queue'.mine = queue.mine + 1 /\ queue'.old = queue.old
        /\ reports'.ok = 0 /\ reports'.bad = 0 /\ reports'.old = 0
        /\ tracker'.delivered = tracker.delivered + reports.ok
        /\ tracker'.failed = tracker.failed + reports.bad
    BY <1>4, <2>1, RecordFacts, ServeFacts
  <2>3. ~Between' /\ Sending'
    BY <2>1
  <2>4. metric' <= acked' /\ metric' + tracker'.delivered + reports'.ok <= acked'
    BY <1>0, <2>1, <2>2
  <2>5. ~spoilt' => /\ queue'.old = 0 /\ reports'.old = 0
                    /\ sent' = metric' + tracker'.delivered + tracker'.failed
                               + reports'.ok + reports'.bad + queue'.mine
    BY <1>0, <2>1, <2>2
  <2>6. ~spoilt' /\ tracker'.failed + reports'.bad = 0
          => acked' = metric' + tracker'.delivered + reports'.ok
    <3> SUFFICES ASSUME ~spoilt', tracker'.failed + reports'.bad = 0
                 PROVE  acked' = metric' + tracker'.delivered + reports'.ok
      OBVIOUS
    <3>1. ~spoilt /\ tracker.failed + reports.bad = 0
      BY <1>0, <2>1, <2>2
    <3>2. acked = metric + tracker.delivered + reports.ok
      BY <2>1, <3>1
    <3>3. QED
      BY <1>0, <2>1, <2>2, <3>2
  <2>7. QED
    BY <2>3, <2>4, <2>5, <2>6
<1>5. CASE QueueFull
  <2>1. /\ Sending /\ pc' = "full" /\ Serve
        /\ UNCHANGED <<queue, metric, sent, acked, spoilt>>
    BY <1>5 DEF QueueFull
  <2>2. /\ queue' = queue
        /\ reports'.ok = 0 /\ reports'.bad = 0 /\ reports'.old = 0
        /\ tracker'.delivered = tracker.delivered + reports.ok
        /\ tracker'.failed = tracker.failed + reports.bad
    BY <2>1, ServeFacts
  <2>3. ~Between' /\ Sending'
    BY <2>1
  <2>4. metric' <= acked' /\ metric' + tracker'.delivered + reports'.ok <= acked'
    BY <1>0, <2>1, <2>2
  <2>5. ~spoilt' => /\ queue'.old = 0 /\ reports'.old = 0
                    /\ sent' = metric' + tracker'.delivered + tracker'.failed
                               + reports'.ok + reports'.bad + queue'.mine
    BY <1>0, <2>1, <2>2
  <2>6. ~spoilt' /\ tracker'.failed + reports'.bad = 0
          => acked' = metric' + tracker'.delivered + reports'.ok
    <3> SUFFICES ASSUME ~spoilt', tracker'.failed + reports'.bad = 0
                 PROVE  acked' = metric' + tracker'.delivered + reports'.ok
      OBVIOUS
    <3>1. ~spoilt /\ tracker.failed + reports.bad = 0
      BY <1>0, <2>1, <2>2
    <3>2. acked = metric + tracker.delivered + reports.ok
      BY <2>1, <3>1
    <3>3. QED
      BY <1>0, <2>1, <2>2, <3>2
  <2>7. QED
    BY <2>3, <2>4, <2>5, <2>6
<1>6. CASE EncodingFails \/ FlushTimesOut
  <2>1. pc' = "wait" /\ spoilt' = TRUE /\ UNCHANGED <<metric, acked>>
    BY <1>6 DEF EncodingFails, FlushTimesOut, EndPoll, kafka
  <2>2. QED
    BY <1>0, <2>1
<1>7. CASE FlushDone
  <2>1. /\ pc = "flush" /\ pc' = "wait" /\ Serve /\ queue.mine + queue.old = 0
        /\ UNCHANGED <<queue, sent, acked>>
    BY <1>7 DEF FlushDone, EndPoll
  <2>2. /\ Served.delivered = tracker.delivered + reports.ok
        /\ Served.failed = tracker.failed + reports.bad
    BY DEF Served
  <2>3. queue.mine = 0 /\ queue.old = 0
    BY <1>0, <2>1
  <2>4. CASE Served.failed > 0
    <3>1. spoilt' = TRUE /\ metric' = metric
      BY <1>7, <2>4 DEF FlushDone
    <3>2. QED
      BY <1>0, <2>1, <3>1
  <2>5. CASE ~(Served.failed > 0)
    <3>1. spoilt' = spoilt /\ metric' = metric + Served.delivered
      BY <1>7, <2>5 DEF FlushDone
    <3>2. QED
      BY <1>0, <2>1, <2>2, <2>3, <2>5, <3>1, ServeFacts
  <2>6. QED
    BY <2>4, <2>5
<1>8. CASE Acknowledge
  <2>1. acked' = acked + 1 /\ UNCHANGED <<pc, tracker, metric, sent, spoilt>>
    BY <1>8 DEF Acknowledge
  <2>2. CASE queue.old > 0 /\ reports'.ok = reports.ok /\ queue'.mine = queue.mine
    <3>1. ~spoilt => ~Sending /\ ~Between
      BY <1>0, <2>2
    <3>2. ~spoilt' => ~Sending' /\ ~Between'
      BY <2>1, <3>1
    <3>3. metric' <= acked'
      BY <1>0, <2>1
    <3>4. Sending' => metric' + tracker'.delivered + reports'.ok <= acked'
      BY <1>0, <2>1, <2>2
    <3>5. QED
      BY <3>2, <3>3, <3>4
  <2>3. CASE /\ queue.mine > 0
             /\ queue'.mine = queue.mine - 1 /\ queue'.old = queue.old
             /\ reports'.old = reports.old /\ reports'.ok = reports.ok + 1
             /\ reports'.bad = reports.bad
    <3>1. ~spoilt => ~Between
      BY <1>0, <2>3
    <3>2. ~spoilt' => ~Between'
      BY <2>1, <3>1
    <3>3. metric' <= acked'
      BY <1>0, <2>1
    <3>4. Sending' => metric' + tracker'.delivered + reports'.ok <= acked'
      BY <1>0, <2>1, <2>3
    <3>5. ~spoilt' /\ Sending' =>
            /\ queue'.old = 0 /\ reports'.old = 0
            /\ sent' = metric' + tracker'.delivered + tracker'.failed
                       + reports'.ok + reports'.bad + queue'.mine
      BY <1>0, <2>1, <2>3
    <3>6. ~spoilt' /\ Sending' /\ tracker'.failed + reports'.bad = 0
            => acked' = metric' + tracker'.delivered + reports'.ok
      <4> SUFFICES ASSUME ~spoilt', Sending', tracker'.failed + reports'.bad = 0
                   PROVE  acked' = metric' + tracker'.delivered + reports'.ok
        OBVIOUS
      <4>1. ~spoilt /\ Sending /\ tracker.failed + reports.bad = 0
        BY <1>0, <2>1, <2>3
      <4>2. acked = metric + tracker.delivered + reports.ok
        BY <4>1
      <4>3. QED
        BY SMTT(30), <1>0, <2>1, <2>3, <4>2
    <3>7. QED
      BY <3>2, <3>3, <3>4, <3>5, <3>6
  <2>4. QED
    BY <1>8, <2>2, <2>3, ReportFacts
<1>9. CASE GiveUp
  <2>1. acked' \in {acked, acked + 1} /\ UNCHANGED <<pc, tracker, metric, sent, spoilt>>
    BY <1>9 DEF GiveUp
  <2>2. acked <= acked' /\ acked' \in Nat
    BY <1>0, <2>1
  <2>3. QED
    BY <1>0, <1>9, <2>1, <2>2, ReportFacts
<1>10. CASE \/ BeginPoll \/ GetAccessToken \/ TokenArrives \/ Unauthorized
             \/ RequestFails \/ RateLimited \/ WaitOver
  <2>1. UNCHANGED delivery
    BY <1>10 DEF BeginPoll, GetAccessToken, TokenArrives, Unauthorized, RequestFails,
         RateLimited, WaitOver
  <2>2. pc \in {"loop", "token", "post", "get", "wait"}
    BY <1>10 DEF BeginPoll, GetAccessToken, TokenArrives, Unauthorized, RequestFails,
         RateLimited, WaitOver
  <2>3. pc' \in {"loop", "token", "post", "get", "wait", "closing"}
    BY <1>10 DEF BeginPoll, GetAccessToken, TokenArrives, Unauthorized, RequestFails,
         RateLimited, WaitOver, EndPoll
  <2>4. QED
    BY <1>1, <2>1, <2>2, <2>3 DEF delivery
<1>11. CASE Skip \/ BeginFlush
  <2>1. UNCHANGED <<tracker, metric, spoilt, kafka>>
    BY <1>11 DEF Skip, BeginFlush, delivery
  <2>2. pc = "send" /\ pc' \in {"send", "flush"}
    BY <1>11 DEF Skip, BeginFlush
  <2>3. QED
    BY <1>1, <2>1, <2>2
<1>12. CASE Raises \/ Tick \/ TokenDies \/ TopicCreated \/ RequestStop \/ UNCHANGED vars
  <2>1. UNCHANGED delivery
    BY <1>12 DEF Raises, Tick, TokenDies, TopicCreated, RequestStop, vars
  <2>2. pc' \in {pc, "closing"}
    BY <1>12 DEF Raises, Tick, TokenDies, TopicCreated, RequestStop, vars
  <2>3. QED
    BY <1>1, <2>1, <2>2 DEF delivery
<1>13. CASE Close \/ Crash
  BY <1>2, <1>13 DEF Close, Crash
<1>14. QED
  BY <1>2, <1>3, <1>4, <1>5, <1>6, <1>7, <1>8, <1>9, <1>10, <1>11, <1>12, <1>13
     DEF Next, Process

-----------------------------------------------------------------------------
(* The theorems.                                                           *)

LEMMA Initially == Init => IInv
<1> SUFFICES ASSUME Init PROVE IInv
  OBVIOUS
<1> USE DEF Init
<1>1. /\ token = [left |-> 0, valid |-> 0, life |-> 0, refused |-> FALSE]
      /\ queue = [mine |-> 0, old |-> 0]
      /\ reports = [ok |-> 0, bad |-> 0, old |-> 0]
      /\ tracker = [delivered |-> 0, failed |-> 0]
  BY DEF NoToken, NoQueue, NoReports, NoneYet
<1>2. /\ token \in Token /\ queue \in Queue /\ reports \in Reports /\ tracker \in Tracker
  BY <1>1 DEF Token, Queue, Reports, Tracker
<1>3. Queued = 0 /\ reports.ok = 0 /\ reports.bad = 0 /\ reports.old = 0
  BY <1>1 DEF Queued
<1>4. /\ 0 \in 0..MaxPolls /\ 0 \in 0..RequestTime /\ 0 \in 0..DefaultRetry
      /\ 0 \in 0..Larger(DefaultRetry, Interval) /\ 0 \in 0..MaxRecords
      /\ 0 \in 0..MaxFaults /\ 0 <= QueueSize
  OBVIOUS
<1>5. TypeOK
  <2>1. /\ pc = "down" /\ topicUp \in BOOLEAN /\ stopping \in BOOLEAN
        /\ spoilt \in BOOLEAN
    OBVIOUS
  <2>2. /\ poll \in 0..MaxPolls /\ attempt \in 0..1 /\ flight \in 0..RequestTime
        /\ embargo \in 0..DefaultRetry /\ wait \in 0..Larger(DefaultRetry, Interval)
        /\ records \in 0..MaxRecords /\ faults \in 0..MaxFaults
    BY <1>4
  <2>3. /\ Queued + reports.ok + reports.bad + reports.old <= QueueSize
        /\ metric \in Nat /\ sent \in Nat /\ acked \in Nat
    BY <1>3
  <2>t. told = FALSE
    OBVIOUS
  <2>u. told \in BOOLEAN
    BY <2>t
  <2>4. QED
    BY <1>2, <2>1, <2>2, <2>3, <2>u DEF TypeOK
<1>6. TokenInv /\ RetryInv /\ EmbargoInv
  BY <1>1 DEF TokenInv, RetryInv, EmbargoInv, LongLived
<1>7. DeliveryInv
  BY <1>1 DEF Queued, DeliveryInv, Sending, Between
<1>8. QED
  BY <1>5, <1>6, <1>7 DEF IInv

\* The inductive invariant: how the token, the embargo and the records of the queue
\* relate at every step of a poll (run, fetch_states, send_states_to_kafka).
THEOREM Inductive == Spec => []IInv
<1>1. IInv /\ [Next]_vars => IInv'
  BY TypeStep, TokenStep, RetryStep, EmbargoStep, DeliveryStep DEF IInv
<1>2. QED
  BY Initially, <1>1, PTL DEF Spec

\* Every variable keeps its type, and the client's queue its size.
THEOREM TypeCorrect == Spec => []TypeOK
<1>1. IInv => TypeOK
  BY DEF IInv
<1>2. QED
  BY <1>1, Inductive, PTL

\* A token that outlives the floor and one request is never used when it is expired
\* (get_access_token).
THEOREM TokenIsValid == Spec => []NoExpiredToken
<1>1. IInv => NoExpiredToken
  <2> SUFFICES ASSUME IInv, pc = "get", token.life >= Floor + RequestTime
               PROVE  token.valid > 0
    BY DEF NoExpiredToken
  <2>1. token.valid \in Nat /\ flight \in 0..RequestTime
    BY Fields DEF IInv, TypeOK
  <2>2. token.valid + flight > RequestTime
    BY DEF IInv, TokenInv, LongLived
  <2>3. QED
    BY <2>1, <2>2
<1>2. QED
  BY <1>1, Inductive, PTL

\* The repetition after a 401 never carries the token just refused (fetch_states).
THEOREM RetryIsFresh == Spec => []RetryUsesNewToken
<1>1. IInv => RetryUsesNewToken
  BY DEF IInv, RetryInv, RetryUsesNewToken
<1>2. QED
  BY <1>1, Inductive, PTL

\* No data request is sent while OpenSky refuses them, as far as this process was
\* told (RateLimitError, get_retry_seconds).
THEOREM EmbargoKept == Spec => []RateLimitRespected
<1>1. IInv => RateLimitRespected
  <2> SUFFICES ASSUME IInv, pc = "get", told PROVE embargo = 0
    BY DEF RateLimitRespected
  <2>1. embargo \in Nat
    BY DEF IInv, TypeOK
  <2>2. QED
    BY <2>1 DEF IInv, EmbargoInv
<1>2. QED
  BY <1>1, Inductive, PTL

\* What is counted as delivered is in the topic, and nothing is lost without a poll
\* being reported as failed (DeliveryTracker, send_states_to_kafka).
THEOREM CountedHonestly == Spec => []DeliveredHonest
<1>1. IInv => DeliveredHonest
  BY DEF IInv, DeliveryInv, Between, DeliveredHonest
<1>2. QED
  BY <1>1, Inductive, PTL
=============================================================================
