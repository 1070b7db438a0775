-------------------------- MODULE MongoWriterProofs --------------------------
(***************************************************************************)
(* Proofs about MongoWriter for every set of workers, every payload set    *)
(* and every bound: no committed message is lost, MongoDB always holds     *)
(* what a prefix of the log leaves there, only unstorable messages are     *)
(* given up, and the writer implements AtLeastOnce.                        *)
(***************************************************************************)
EXTENDS MongoWriter, TLAPS

\* The live document of m's aircraft is newer than m (at offset o), or equally
\* new and from an offset no later than o.
FirstNewest(o) ==
    LET m == Msg(o)
        doc == live[m.icao24]
    IN  m.kind = "valid" => \/ doc.observed_at > m.observed_at
                            \/ /\ doc.observed_at = m.observed_at
                               /\ doc.kafka_offset <= o

Done(o) == Settled(o) /\ FirstNewest(o)

CommittedDone == \A o \in 0 .. committed - 1 : Done(o)

\* What each process may rely on: everything below the message it handles, and
\* below the next one its client hands out, is done.
WInv(w) ==
    /\ position[w] # NoPosition =>
          /\ position[w] <= Len(log)
          /\ \A o \in 0 .. position[w] - 1 : Done(o) \/ (Working(w) /\ o = cur[w])
    /\ Working(w) =>
          /\ cur[w] < Len(log)
          /\ \A o \in 0 .. cur[w] - 1 : Done(o)
    /\ pc[w] = "write_live" => InRaw(Key(cur[w]))
    /\ pc[w] = "dlq" => Msg(cur[w]).kind \in {"malformed", "oversize", "unstorable"}
    /\ pc[w] = "commit" => Done(cur[w])
    /\ pc[w] = "backoff" => attempt[w] < MaxAttempts

WorkersInv == \A w \in Worker : WInv(w)

\* A live document is strictly newer than every earlier message of its aircraft.
LiveInv ==
    \A a \in Aircraft : \A o \in 0 .. live[a].kafka_offset - 1 :
        /\ o < Len(log)
        /\ Msg(o).kind = "valid" /\ Msg(o).icao24 = a
              => Msg(o).observed_at < live[a].observed_at

IInv == TypeOK /\ CommittedDone /\ WorkersInv /\ LiveInv /\ DlqOnlyPermanent

USE PayloadAssumption, BoundsAssumption, WorkerAssumption

-----------------------------------------------------------------------------
\* A message of the log is one a producer may send.
LEMMA MsgType ==
    ASSUME TypeOK, NEW o \in 0 .. Len(log) - 1
    PROVE  /\ Msg(o) \in Payload
           /\ Msg(o).kind \in Kind
           /\ Msg(o).event_id \in EventId \cup {NoId}
           /\ Msg(o).icao24 \in Aircraft
           /\ Msg(o).observed_at \in Nat \ {0}
<1>1. log \in Seq(Payload) /\ o + 1 \in 1 .. Len(log)
  BY DEF TypeOK
<1>2. Msg(o) \in Payload
  BY <1>1 DEF Msg
<1>3. QED
  BY <1>2 DEF PayloadType

\* Every step of the writer and of Kafka keeps the types.
LEMMA TypeStep ==
    ASSUME TypeOK, WorkersInv, [Next]_vars PROVE TypeOK'
<1> USE DEF TypeOK, NoPosition
<1>0. CASE UNCHANGED vars
  BY <1>0 DEF vars, worker, store
<1>1. CASE Produce
  <2>1. PICK m \in Payload : log' = Append(log, m)
    BY <1>1 DEF Produce
  <2>2. log' \in Seq(Payload) /\ Len(log') = Len(log) + 1 /\ Len(log') <= MaxLog
    BY <2>1, <1>1 DEF Produce
  <2>3. QED
    BY <2>2, <1>1 DEF Produce, worker, store
<1>e. ASSUME NEW w \in Worker, Exit(w)
      PROVE  /\ position' \in [Worker -> Nat \cup {NoPosition}]
             /\ pc' \in [Worker -> {"down", "poll", "write_raw", "write_live",
                                    "backoff", "dlq", "commit"}]
             /\ owner' \in Worker \cup {NoWorker}
  BY <1>e DEF Exit
<1>2. ASSUME NEW w \in Worker, Assign(w) PROVE TypeOK'
  <2>1. faults' \in 0 .. MaxFaults
    BY SMTT(30), <1>2 DEF Assign, Fault, NoFault
  <2>2. position' \in [Worker -> Nat \cup {NoPosition}] /\ owner' \in Worker
    BY <1>2 DEF Assign
  <2>3. QED
    BY <2>1, <2>2, <1>2 DEF Assign, store
<1>3. ASSUME NEW w \in Worker, Revoked(w) PROVE TypeOK'
  BY <1>3 DEF Revoked, store
<1>4. ASSUME NEW w \in Worker, Start(w) PROVE TypeOK'
  BY <1>4 DEF Start, store
<1>5. ASSUME NEW w \in Worker, Crash(w) PROVE TypeOK'
  BY <1>5 DEF Crash, store, Fault
<1>6. ASSUME NEW w \in Worker, RequestStop(w) PROVE TypeOK'
  BY <1>6 DEF RequestStop, store, Fault
<1>7. ASSUME NEW w \in Worker, Shutdown(w) PROVE TypeOK'
  BY <1>7 DEF Shutdown, Exit, store
<1>8. ASSUME NEW w \in Worker, Poll(w) PROVE TypeOK'
  <2>1. position[w] \in Nat /\ position' = [position EXCEPT ![w] = position[w] + 1]
    BY <1>8 DEF Poll
  <2>2. position' \in [Worker -> Nat \cup {NoPosition}] /\ cur' \in [Worker -> Nat]
    BY <2>1, <1>8 DEF Poll
  <2>3. pc' \in [Worker -> {"down", "poll", "write_raw", "write_live", "backoff",
                           "dlq", "commit"}]
    BY <1>8 DEF Poll
  <2>4. attempt' \in [Worker -> 0 .. MaxAttempts]
    BY <1>8 DEF Poll
  <2>5. QED
    BY <2>2, <2>3, <2>4, <1>8 DEF Poll, store
<1>9. ASSUME NEW w \in Worker, ExitOnError(w) PROVE TypeOK'
  <2>1. faults' \in 0 .. MaxFaults
    BY <1>9 DEF ExitOnError, Fault, NoFault
  <2>2. Exit(w) /\ UNCHANGED <<log, committed, cur, attempt, stopping, raw, live, dlq>>
    BY <1>9 DEF ExitOnError, store
  <2>3. QED
    BY <2>1, <2>2, <1>e
<1>10. ASSUME NEW w \in Worker, Working(w) PROVE cur[w] \in 0 .. Len(log) - 1
  BY <1>10 DEF WorkersInv, WInv
<1>11. ASSUME NEW o \in 0 .. Len(log) - 1, RawUpsert(o)
       PROVE  \A d \in raw' : /\ d._id \in EventId \cup Nat
                              /\ d.kafka_offset \in 0 .. Len(log) - 1
  <2>1. Key(o) \in EventId \cup Nat
    BY MsgType DEF Key
  <2>2. QED
    BY <2>1, <1>11 DEF RawUpsert
<1>12. ASSUME NEW o \in 0 .. Len(log) - 1, LiveUpsert(o)
       PROVE  live' \in [Aircraft -> [observed_at : Nat, kafka_offset : Nat \cup {-1}]]
  <2>1. [observed_at |-> Msg(o).observed_at, kafka_offset |-> o]
           \in [observed_at : Nat, kafka_offset : Nat \cup {-1}]
    BY MsgType
  <2>2. QED
    BY <2>1, <1>12, MsgType DEF LiveUpsert
<1>13. ASSUME NEW w \in Worker, WriteRaw(w) PROVE TypeOK'
  <2>1. cur[w] \in 0 .. Len(log) - 1 /\ RawUpsert(cur[w])
    BY <1>13, <1>10 DEF WriteRaw, Working
  <2>2. QED
    BY <2>1, <1>11, <1>13 DEF WriteRaw
<1>14. ASSUME NEW w \in Worker, WriteLive(w) PROVE TypeOK'
  <2>1. cur[w] \in 0 .. Len(log) - 1 /\ LiveUpsert(cur[w])
    BY <1>14, <1>10 DEF WriteLive, Working
  <2>2. QED
    BY <2>1, <1>12, <1>14 DEF WriteLive
<1>15. ASSUME NEW w \in Worker, WriteRefused(w) PROVE TypeOK'
  BY <1>15 DEF WriteRefused, store
<1>16. ASSUME NEW w \in Worker, WriteTransient(w) PROVE TypeOK'
  <2>1. cur[w] \in 0 .. Len(log) - 1
    BY <1>16, <1>10 DEF WriteTransient, Working
  <2>2. /\ \A d \in raw' : /\ d._id \in EventId \cup Nat
                           /\ d.kafka_offset \in 0 .. Len(log) - 1
        /\ live' \in [Aircraft -> [observed_at : Nat, kafka_offset : Nat \cup {-1}]]
    BY <2>1, <1>11, <1>12, <1>16 DEF WriteTransient
  <2>3. /\ position' \in [Worker -> Nat \cup {NoPosition}]
        /\ pc' \in [Worker -> {"down", "poll", "write_raw", "write_live",
                               "backoff", "dlq", "commit"}]
        /\ owner' \in Worker \cup {NoWorker}
    BY <1>16, <1>e DEF WriteTransient
  <2>4. faults' \in 0 .. MaxFaults
    BY <1>16 DEF WriteTransient, Fault
  <2>5. UNCHANGED <<log, committed, cur, attempt, stopping, dlq>>
    BY <1>16 DEF WriteTransient
  <2>6. QED
    BY <2>2, <2>3, <2>5, <2>4
<1>17. ASSUME NEW w \in Worker, Retry(w) PROVE TypeOK'
  <2>1. attempt[w] + 1 \in 0 .. MaxAttempts
    BY <1>17 DEF Retry, WorkersInv, WInv
  <2>2. attempt' \in [Worker -> 0 .. MaxAttempts]
    BY <2>1, <1>17 DEF Retry
  <2>3. QED
    BY <2>2, <1>17 DEF Retry, store
<1>18. ASSUME NEW w \in Worker, RetryInterrupted(w) PROVE TypeOK'
  <2>1. Exit(w) /\ UNCHANGED <<log, committed, cur, attempt, stopping, raw, live,
                               dlq, faults>>
    BY <1>18 DEF RetryInterrupted, store
  <2>2. QED
    BY <2>1, <1>e
<1>19. ASSUME NEW w \in Worker, PublishDlq(w) PROVE TypeOK'
  BY <1>19, <1>10 DEF PublishDlq, Working
<1>20. ASSUME NEW w \in Worker, PublishDlqFails(w) PROVE TypeOK'
  <2>1. cur[w] \in 0 .. Len(log) - 1
    BY <1>20, <1>10 DEF PublishDlqFails, Working
  <2>2. dlq' \subseteq 0 .. Len(log) - 1 /\ faults' \in 0 .. MaxFaults
    BY <2>1, <1>20 DEF PublishDlqFails, Fault
  <2>3. Exit(w) /\ UNCHANGED <<log, committed, cur, attempt, stopping, raw, live>>
    BY <1>20 DEF PublishDlqFails
  <2>4. QED
    BY <2>2, <2>3, <1>e
<1>21. ASSUME NEW w \in Worker, Commit(w) PROVE TypeOK'
  BY SMTT(30), <1>21, <1>10 DEF Commit, Working, store
<1>22. ASSUME NEW w \in Worker, CommitFails(w) PROVE TypeOK'
  <2>1. Exit(w) /\ UNCHANGED <<log, cur, attempt, stopping, raw, live, dlq>>
    BY <1>22 DEF CommitFails, store
  <2>2. faults' \in 0 .. MaxFaults
    BY <1>22 DEF CommitFails, Fault, NoFault
  <2>3. committed' \in 0 .. Len(log)
    BY <1>22, <1>10 DEF CommitFails, Working
  <2>4. QED
    BY <2>1, <2>2, <2>3, <1>e
<1>23. ASSUME NEW w \in Worker, DlqRefused(w) PROVE TypeOK'
  <2>1. Exit(w) /\ UNCHANGED <<log, committed, cur, attempt, stopping, raw, live,
                               dlq, faults>>
    BY <1>23 DEF DlqRefused, store
  <2>2. QED
    BY <2>1, <1>e
<1>24. QED
  BY <1>0, <1>1, <1>2, <1>3, <1>4, <1>5, <1>6, <1>7, <1>8, <1>9, <1>13, <1>14,
     <1>15, <1>16, <1>17, <1>18, <1>19, <1>20, <1>21, <1>22, <1>23
     DEF Next, WorkerStep

-----------------------------------------------------------------------------
\* The state that decides which messages are done.
data == <<log, store>>

\* What no step takes back: a message stays where it is, an inserted key stays
\* inserted, and a message that is settled, or done, stays so.
Keeps ==
    /\ Len(log) <= Len(log')
    /\ \A o \in 0 .. Len(log) - 1 :
          /\ Msg(o)' = Msg(o)
          /\ InRaw(Key(o)) => InRaw(Key(o))'
          /\ Settled(o) => Settled(o)'
          /\ Done(o) => Done(o)'

\* A step that leaves the log and the stores alone keeps what is done.
LEMMA KeepsUnchanged ==
    ASSUME UNCHANGED data PROVE Keeps /\ \A o : Done(o)' = Done(o)
BY DEF data, store, Keeps, Done, Settled, FirstNewest, Covered, InRaw, Key, Msg

\* A new message changes nothing about the offsets before it.
LEMMA KeepsProduce ==
    ASSUME TypeOK, Produce PROVE Keeps
<1>1. PICK m \in Payload : log' = Append(log, m)
  BY DEF Produce
<1>2. \A o \in 0 .. Len(log) - 1 : Msg(o)' = Msg(o)
  BY <1>1 DEF TypeOK, Msg
<1>3. Len(log') = Len(log) + 1
  BY <1>1 DEF TypeOK
<1>4. raw' = raw /\ live' = live /\ dlq' = dlq
  BY DEF Produce, store
<1>5. QED
  BY <1>2, <1>3, <1>4
     DEF TypeOK, Keeps, Done, Settled, FirstNewest, Covered, InRaw, Key

\* The raw upsert inserts the key and disturbs no other.
LEMMA KeepsRaw ==
    ASSUME TypeOK, NEW p \in 0 .. Len(log) - 1, RawUpsert(p),
           UNCHANGED <<log, live, dlq>>
    PROVE  Keeps /\ InRaw(Key(p))'
<1>1. \A k : InRaw(k) => InRaw(k)'
  BY DEF RawUpsert, InRaw
<1>2. \A o : Msg(o)' = Msg(o) /\ Key(o)' = Key(o)
  BY DEF Msg, Key
<1>3. InRaw(Key(p))'
  <2>1. CASE InRaw(Key(p))
    BY <1>1, <1>2, <2>1 DEF InRaw
  <2>2. CASE ~InRaw(Key(p))
    <3>1. [_id |-> Key(p), kafka_offset |-> p] \in raw'
      BY <2>2 DEF RawUpsert
    <3>2. QED
      BY <1>2, <3>1 DEF InRaw
  <2>3. QED
    BY <2>1, <2>2
<1>4. \A o : InRaw(Key(o)) => InRaw(Key(o))'
  BY <1>1, <1>2 DEF InRaw
<1>5. QED
  BY <1>2, <1>3, <1>4 DEF TypeOK, Keeps, Done, Settled, FirstNewest, Covered

\* The live upsert leaves a newer document or the old one ...
LEMMA LiveGrows ==
    ASSUME TypeOK, NEW p \in 0 .. Len(log) - 1, LiveUpsert(p)
    PROVE  /\ \A a \in Aircraft :
                 \/ live'[a] = live[a]
                 \/ /\ a = Msg(p).icao24
                    /\ live'[a].observed_at = Msg(p).observed_at
                    /\ live'[a].kafka_offset = p
                    /\ live[a].observed_at < Msg(p).observed_at
           /\ live'[Msg(p).icao24].observed_at >= Msg(p).observed_at
           /\ live' # live => live'[Msg(p).icao24].kafka_offset = p
<1> USE MsgType DEF TypeOK
<1>1. CASE live[Msg(p).icao24] = NoDoc \/ live[Msg(p).icao24].observed_at < Msg(p).observed_at
  <2>1. live' = [live EXCEPT ![Msg(p).icao24] =
                   [observed_at |-> Msg(p).observed_at, kafka_offset |-> p]]
    BY <1>1 DEF LiveUpsert
  <2>2. live[Msg(p).icao24].observed_at < Msg(p).observed_at
    BY <1>1 DEF NoDoc
  <2>3. QED
    BY SMTT(30), <2>1, <2>2
<1>2. CASE ~(live[Msg(p).icao24] = NoDoc \/ live[Msg(p).icao24].observed_at < Msg(p).observed_at)
  BY <1>2 DEF LiveUpsert
<1>3. QED
  BY <1>1, <1>2

\* ... so what was done stays done.
LEMMA KeepsLive ==
    ASSUME TypeOK, NEW p \in 0 .. Len(log) - 1, LiveUpsert(p),
           UNCHANGED <<log, raw, dlq>>
    PROVE  Keeps
<1>1. \A o \in 0 .. Len(log) - 1 : Msg(o)' = Msg(o) /\ InRaw(Key(o))' = InRaw(Key(o))
  BY DEF Msg, Key, InRaw
<1>2. \A a \in Aircraft : /\ live[a].observed_at \in Nat /\ live'[a].observed_at \in Nat
                           /\ live'[a].observed_at >= live[a].observed_at
  <2>1. ASSUME NEW a \in Aircraft PROVE live[a].observed_at \in Nat
    BY <2>1 DEF TypeOK
  <2>2. Msg(p).observed_at \in Nat
    BY MsgType
  <2>3. QED
    BY <2>1, <2>2, LiveGrows
<1>3. ASSUME NEW o \in 0 .. Len(log) - 1, Settled(o) PROVE Settled(o)'
  <2>1. Msg(o).icao24 \in Aircraft /\ Msg(o).observed_at \in Nat
    BY MsgType
  <2>2. Covered(Msg(o)) => live'[Msg(o).icao24].observed_at >= Msg(o).observed_at
    BY <1>2, <2>1 DEF Covered
  <2>3. Covered(Msg(o)) => Covered(Msg(o))'
    BY <1>1, <2>2 DEF Covered
  <2>4. QED
    BY <1>1, <1>3, <2>3 DEF Settled
<1>4. ASSUME NEW o \in 0 .. Len(log) - 1, Done(o) PROVE Done(o)'
  <2>1. Msg(o).icao24 \in Aircraft /\ Msg(o).observed_at \in Nat
    BY MsgType
  <2>2. Settled(o)'
    BY <1>4, <1>3 DEF Done
  <2>3. FirstNewest(o)'
    <3>1. CASE live'[Msg(o).icao24] = live[Msg(o).icao24]
      BY <1>1, <1>4, <3>1 DEF Done, FirstNewest
    <3>2. CASE live'[Msg(o).icao24] # live[Msg(o).icao24]
      <4>1. live'[Msg(o).icao24].observed_at > live[Msg(o).icao24].observed_at
        BY <1>2, <2>1, <3>2, LiveGrows, MsgType
      <4>2. /\ Msg(o).kind = "valid" => live[Msg(o).icao24].observed_at >= Msg(o).observed_at
            /\ live[Msg(o).icao24].observed_at \in Nat /\ live'[Msg(o).icao24].observed_at \in Nat
        BY <1>2, <1>4, <2>1 DEF Done, FirstNewest
      <4>3. Msg(o).kind = "valid" => live'[Msg(o).icao24].observed_at > Msg(o).observed_at
        BY <2>1, <4>1, <4>2
      <4>4. QED
        BY <1>1, <4>3 DEF FirstNewest
    <3>3. QED
      BY <3>1, <3>2
  <2>4. QED
    BY <2>2, <2>3 DEF Done
<1>5. QED
  BY <1>1, <1>4, <1>3 DEF TypeOK, Keeps

\* The dead-letter topic only grows, which settles more.
LEMMA KeepsDlq ==
    ASSUME TypeOK, dlq \subseteq dlq', UNCHANGED <<log, raw, live>> PROVE Keeps
BY DEF TypeOK, Keeps, Done, Settled, FirstNewest, Covered, InRaw, Key, Msg

\* Every step keeps what is done.
LEMMA KeepsStep ==
    ASSUME TypeOK, WorkersInv, [Next]_vars PROVE Keeps
<1>1. CASE UNCHANGED data
  BY <1>1, KeepsUnchanged
<1>2. CASE Produce
  BY <1>2, KeepsProduce
<1>3. ASSUME NEW w \in Worker,
             WriteRaw(w) \/ WriteLive(w) \/ WriteTransient(w)
                \/ PublishDlq(w) \/ PublishDlqFails(w)
      PROVE  Keeps
  <2>1. cur[w] \in 0 .. Len(log) - 1
    BY <1>3 DEF WriteRaw, WriteLive, WriteTransient, PublishDlq, PublishDlqFails,
                WorkersInv, WInv, Working, TypeOK
  <2>2. CASE WriteRaw(w)
    BY <2>1, <2>2, KeepsRaw DEF WriteRaw
  <2>3. CASE WriteLive(w)
    BY <2>1, <2>3, KeepsLive DEF WriteLive
  <2>4. CASE WriteTransient(w)
    <3>1. UNCHANGED <<log, dlq>>
      BY <2>4 DEF WriteTransient
    <3>2. \/ UNCHANGED <<raw, live>>
          \/ RawUpsert(cur[w]) /\ UNCHANGED live
          \/ LiveUpsert(cur[w]) /\ UNCHANGED raw
      BY <2>4 DEF WriteTransient
    <3>3. QED
      BY <2>1, <3>1, <3>2, KeepsRaw, KeepsLive, KeepsUnchanged DEF data, store
  <2>5. CASE PublishDlq(w)
    BY <2>5, KeepsDlq DEF PublishDlq
  <2>6. CASE PublishDlqFails(w)
    BY <2>6, KeepsDlq DEF PublishDlqFails
  <2>7. QED
    BY <1>3, <2>2, <2>3, <2>4, <2>5, <2>6
<1>4. QED
  BY <1>1, <1>2, <1>3
     DEF Next, WorkerStep, vars, data, store, Assign, Revoked, Start, Crash,
         RequestStop, Shutdown, Poll, ExitOnError, WriteRefused, Retry, DlqRefused,
         RetryInterrupted, Commit, CommitFails

-----------------------------------------------------------------------------
\* A process the step does not touch can rely on what it relied on.
LEMMA Untouched ==
    ASSUME TypeOK, Keeps, NEW v \in Worker, WInv(v),
           position'[v] = position[v], pc'[v] = pc[v], cur'[v] = cur[v],
           attempt'[v] = attempt[v]
    PROVE  WInv(v)'
<1>1. position[v] \in Nat \cup {-1} /\ cur[v] \in Nat /\ Len(log) \in Nat
  BY DEF TypeOK, NoPosition
<1>2. Working(v)' <=> Working(v)
  BY DEF Working
<1>3. Len(log) <= Len(log')
  BY DEF Keeps
<1>4. (position[v] # NoPosition =>
          /\ position[v] <= Len(log)
          /\ \A o \in 0 .. position[v] - 1 : Done(o) \/ (Working(v) /\ o = cur[v]))'
  BY <1>1, <1>2, <1>3 DEF WInv, Keeps, NoPosition
<1>5. (Working(v) => cur[v] < Len(log) /\ \A o \in 0 .. cur[v] - 1 : Done(o))'
  BY <1>1, <1>2, <1>3 DEF WInv, Keeps
<1>6. (pc[v] = "write_live" => InRaw(Key(cur[v])))'
  <2>1. SUFFICES ASSUME pc[v] = "write_live" PROVE InRaw(Key(cur[v]))'
    OBVIOUS
  <2>2. cur[v] \in 0 .. Len(log) - 1 /\ InRaw(Key(cur[v]))
    BY <1>1, <2>1 DEF WInv, Working
  <2>3. \A o \in 0 .. Len(log) - 1 : InRaw(Key(o)) => InRaw(Key(o))'
    BY DEF Keeps
  <2>4. QED
    BY <2>2, <2>3 DEF InRaw, Key, Msg
<1>7. (pc[v] = "dlq" => Msg(cur[v]).kind \in {"malformed", "oversize", "unstorable"})'
  BY <1>1 DEF WInv, Keeps, Working, Msg
<1>8. (pc[v] = "commit" => Done(cur[v]))'
  <2>1. SUFFICES ASSUME pc[v] = "commit" PROVE Done(cur[v])'
    OBVIOUS
  <2>2. cur[v] \in 0 .. Len(log) - 1 /\ Done(cur[v])
    BY <1>1, <2>1 DEF WInv, Working
  <2>3. \A o \in 0 .. Len(log) - 1 : Done(o) => Done(o)'
    BY DEF Keeps
  <2>4. QED
    BY <2>2, <2>3 DEF Done, Settled, FirstNewest, Covered, InRaw, Key, Msg
<1>9. (pc[v] = "backoff" => attempt[v] < MaxAttempts)'
  BY DEF WInv
<1>10. QED
  BY <1>4, <1>5, <1>6, <1>7, <1>8, <1>9 DEF WInv

\* A process that is down relies on nothing.
LEMMA Ended ==
    ASSUME TypeOK, NEW v \in Worker, pc'[v] = "down", position'[v] = NoPosition
    PROVE  WInv(v)'
BY DEF WInv, Working

\* Leaving the group ends the process and touches no other.
LEMMA ExitWorkers ==
    ASSUME TypeOK, Keeps, WorkersInv, NEW w \in Worker,
           pc' = [pc EXCEPT ![w] = "down"],
           position' = [position EXCEPT ![w] = NoPosition],
           UNCHANGED <<cur, attempt>>
    PROVE  WorkersInv'
<1>1. ASSUME NEW v \in Worker PROVE WInv(v)'
  <2>1. CASE v = w
    BY <2>1, Ended DEF TypeOK
  <2>2. CASE v # w
    BY <2>2, Untouched DEF TypeOK, WorkersInv
  <2>3. QED
    BY <2>1, <2>2
<1>2. QED
  BY <1>1 DEF WorkersInv

\* What the other processes rely on survives a step of w that only changes w.
LEMMA OthersKeep ==
    ASSUME TypeOK, Keeps, WorkersInv, NEW w \in Worker,
           \A v \in Worker \ {w} : /\ position'[v] = position[v]
                                   /\ pc'[v] = pc[v]
                                   /\ cur'[v] = cur[v]
                                   /\ attempt'[v] = attempt[v],
           WInv(w)'
    PROVE  WorkersInv'
<1>1. ASSUME NEW v \in Worker PROVE WInv(v)'
  BY Untouched DEF WorkersInv
<1>2. QED
  BY <1>1 DEF WorkersInv

\* After the live upsert of p, with everything below p done and the raw document
\* in place, p is done: had the document an equally new observation from a later
\* offset, that later one would have found p's.
LEMMA LiveDone ==
    ASSUME TypeOK, LiveInv, NEW p \in 0 .. Len(log) - 1, Msg(p).kind = "valid",
           InRaw(Key(p)), LiveUpsert(p), UNCHANGED <<log, raw>>
    PROVE  Done(p)'
<1> DEFINE a == Msg(p).icao24
<1>1. /\ Msg(p)' = Msg(p) /\ InRaw(Key(p))'
      /\ a \in Aircraft /\ Msg(p).observed_at \in Nat
  BY MsgType DEF Msg, Key, InRaw
<1>2. live[a].observed_at \in Nat /\ live[a].kafka_offset \in Nat \cup {-1}
  BY <1>1 DEF TypeOK
<1>3. Settled(p)'
  BY <1>1, LiveGrows DEF Settled, Covered
<1>4. \/ live'[a].observed_at > Msg(p).observed_at
      \/ live'[a].observed_at = Msg(p).observed_at /\ live'[a].kafka_offset <= p
  <2>1. CASE live'[a] = live[a]
    <3>1. live[a].observed_at >= Msg(p).observed_at
      BY <2>1, LiveGrows
    <3>2. live[a].observed_at = Msg(p).observed_at => ~ (p \in 0 .. live[a].kafka_offset - 1)
      BY <1>1 DEF LiveInv
    <3>3. QED
      BY <1>1, <1>2, <2>1, <3>1, <3>2
  <2>2. CASE live'[a] # live[a]
    BY <1>1, <2>2, LiveGrows
  <2>3. QED
    BY <2>1, <2>2
<1>5. QED
  BY <1>1, <1>3, <1>4 DEF Done, FirstNewest

\* Every step leaves each process something true to rely on.
LEMMA WorkersStep ==
    ASSUME IInv, Keeps, [Next]_vars PROVE WorkersInv'
<1> USE DEF IInv
<1>1. CASE UNCHANGED <<position, pc, cur, attempt>>
  BY <1>1, Untouched DEF WorkersInv
<1>2. ASSUME NEW w \in Worker, Assign(w) PROVE WorkersInv'
  <2>1. committed \in 0 .. Len(log) /\ Len(log') = Len(log)
    BY <1>2 DEF Assign, TypeOK
  <2>2. \A o \in 0 .. committed - 1 : Done(o)'
    BY <2>1 DEF CommittedDone, Keeps
  <2>3. position'[w] = committed /\ UNCHANGED <<log, raw, live, dlq, pc, cur, attempt>>
    BY <1>2 DEF Assign, TypeOK, store
  <2>4. (position[w] # NoPosition =>
            /\ position[w] <= Len(log)
            /\ \A o \in 0 .. position[w] - 1 : Done(o) \/ (Working(w) /\ o = cur[w]))'
    BY <2>1, <2>2, <2>3
  <2>5. WInv(w)'
    <3>1. Done(cur[w])' = Done(cur[w]) /\ InRaw(Key(cur[w]))' = InRaw(Key(cur[w]))
            /\ Msg(cur[w])' = Msg(cur[w]) /\ Working(w)' = Working(w)
            /\ \A o : Done(o)' = Done(o)
      BY <2>3 DEF Done, Settled, FirstNewest, Covered, InRaw, Key, Msg, Working
    <3>2. WInv(w)
      BY DEF WorkersInv
    <3>3. QED
      BY <2>3, <2>4, <3>1, <3>2 DEF WInv
  <2>6. \A v \in Worker \ {w} : position'[v] = position[v]
    BY <1>2 DEF Assign, TypeOK
  <2>7. QED
    BY <2>3, <2>5, <2>6, OthersKeep
<1>3. ASSUME NEW w \in Worker, Revoked(w) PROVE WorkersInv'
  <2>1. /\ position'[w] = NoPosition
        /\ \A v \in Worker \ {w} : position'[v] = position[v]
        /\ UNCHANGED <<log, raw, live, dlq, pc, cur, attempt>>
    BY <1>3 DEF Revoked, TypeOK, store
  <2>2. WInv(w)'
    <3>1. Done(cur[w])' = Done(cur[w]) /\ InRaw(Key(cur[w]))' = InRaw(Key(cur[w]))
            /\ Msg(cur[w])' = Msg(cur[w]) /\ Working(w)' = Working(w)
            /\ \A o : Done(o)' = Done(o)
      BY <2>1 DEF Done, Settled, FirstNewest, Covered, InRaw, Key, Msg, Working
    <3>2. WInv(w)
      BY DEF WorkersInv
    <3>3. QED
      BY <2>1, <3>1, <3>2 DEF WInv
  <2>3. QED
    BY <2>1, <2>2, OthersKeep
<1>4. ASSUME NEW w \in Worker, Start(w) PROVE WorkersInv'
  <2>1. /\ pc[w] = "down" /\ pc'[w] = "poll"
        /\ \A v \in Worker \ {w} : pc'[v] = pc[v]
        /\ UNCHANGED <<log, raw, live, dlq, position, cur, attempt>>
    BY <1>4 DEF Start, TypeOK, store
  <2>2. WInv(w)'
    <3>1. \A o : Done(o)' = Done(o)
      BY <2>1 DEF Done, Settled, FirstNewest, Covered, InRaw, Key, Msg
    <3>2. WInv(w)
      BY DEF WorkersInv
    <3>3. QED
      BY <2>1, <3>1, <3>2 DEF WInv, Working
  <2>3. QED
    BY <2>1, <2>2, OthersKeep
<1>5. ASSUME NEW w \in Worker,
             \/ Crash(w) \/ Shutdown(w) \/ ExitOnError(w) \/ RetryInterrupted(w)
             \/ PublishDlqFails(w) \/ DlqRefused(w) \/ CommitFails(w)
      PROVE  WorkersInv'
  <2>1. /\ pc' = [pc EXCEPT ![w] = "down"]
        /\ position' = [position EXCEPT ![w] = NoPosition]
        /\ UNCHANGED <<cur, attempt>>
    BY <1>5 DEF Crash, Shutdown, ExitOnError, RetryInterrupted, PublishDlqFails,
                DlqRefused, CommitFails, Exit
  <2>2. QED
    BY <2>1, ExitWorkers
<1>6. ASSUME NEW w \in Worker, Poll(w) PROVE WorkersInv'
  <2>1. /\ position[w] \in 0 .. Len(log) - 1 /\ pc[w] = "poll"
        /\ cur'[w] = position[w] /\ position'[w] = position[w] + 1
        /\ pc'[w] = IF Msg(position[w]).kind \in {"malformed", "oversize"} THEN "dlq" ELSE "write_raw"
        /\ UNCHANGED <<log, raw, live, dlq>>
        /\ \A v \in Worker \ {w} : /\ position'[v] = position[v]
                                  /\ pc'[v] = pc[v]
                                  /\ cur'[v] = cur[v]
                                  /\ attempt'[v] = attempt[v]
    BY <1>6 DEF Poll, TypeOK, store, NoPosition
  <2>2. \A o : Done(o)' = Done(o) /\ Msg(o)' = Msg(o)
    BY <2>1 DEF Done, Settled, FirstNewest, Covered, InRaw, Key, Msg
  <2>3. \A o \in 0 .. position[w] - 1 : Done(o)
    BY <2>1 DEF WorkersInv, WInv, Working, NoPosition
  <2>4. WInv(w)'
    BY <2>1, <2>2, <2>3 DEF WInv, Working, Msg
  <2>5. QED
    BY <2>1, <2>4, OthersKeep
<1>7. ASSUME NEW w \in Worker, pc'[w] \in {"write_raw", "write_live", "backoff",
                                          "dlq", "commit", "poll"},
             Working(w),
             pc' = [pc EXCEPT ![w] = pc'[w]],
             UNCHANGED <<log, position, cur>>,
             attempt' = [attempt EXCEPT ![w] = attempt'[w]],
             pc'[w] = "write_live" => InRaw(Key(cur[w]))',
             pc'[w] = "dlq" => Msg(cur[w]).kind \in {"malformed", "oversize", "unstorable"},
             pc'[w] \in {"commit", "poll"} => Done(cur[w])',
             pc'[w] = "backoff" => attempt'[w] < MaxAttempts
      PROVE  WorkersInv'
  <2>1. cur[w] \in 0 .. Len(log) - 1 /\ position[w] \in Nat \cup {-1} /\ WInv(w)
    BY <1>7 DEF WorkersInv, WInv, TypeOK, NoPosition
  <2>2. \A o \in 0 .. Len(log) - 1 : Done(o) => Done(o)'
    BY DEF Keeps
  <2>3. (position[w] # NoPosition =>
            /\ position[w] <= Len(log)
            /\ \A o \in 0 .. position[w] - 1 : Done(o) \/ (Working(w) /\ o = cur[w]))'
    BY <1>7, <2>1, <2>2 DEF WInv, NoPosition, Working
  <2>4. (Working(w) => cur[w] < Len(log) /\ \A o \in 0 .. cur[w] - 1 : Done(o))'
    BY <1>7, <2>1, <2>2 DEF WInv
  <2>5. cur'[w] = cur[w] /\ Msg(cur[w])' = Msg(cur[w])
    BY <1>7 DEF Msg
  <2>6. WInv(w)'
    BY <1>7, <2>3, <2>4, <2>5 DEF WInv
  <2>7. QED
    BY <1>7, <2>6, OthersKeep DEF TypeOK
<1>8. ASSUME NEW w \in Worker, Working(w) PROVE cur[w] \in 0 .. Len(log) - 1
  BY <1>8 DEF WorkersInv, WInv, TypeOK
<1>9. ASSUME NEW w \in Worker, WriteRaw(w) PROVE WorkersInv'
  <2>1. Working(w) /\ pc' = [pc EXCEPT ![w] = "write_live"] /\ pc'[w] = "write_live"
    BY <1>9 DEF WriteRaw, Working, TypeOK
  <2>2. InRaw(Key(cur[w]))'
    <3>1. cur[w] \in 0 .. Len(log) - 1 /\ RawUpsert(cur[w]) /\ UNCHANGED <<log, live, dlq, cur>>
      BY <1>8, <1>9, <2>1 DEF WriteRaw
    <3>2. \A o \in 0 .. Len(log) - 1 : o = cur[w] => InRaw(Key(o))'
      BY <3>1, KeepsRaw
    <3>3. QED
      BY <3>1, <3>2 DEF InRaw, Key, Msg
  <2>3. attempt' = [attempt EXCEPT ![w] = attempt'[w]] /\ UNCHANGED <<log, position, cur>>
    BY <1>9 DEF WriteRaw, TypeOK
  <2>4. QED
    BY <2>1, <2>2, <2>3, <1>7
<1>10. ASSUME NEW w \in Worker, WriteLive(w) PROVE WorkersInv'
  <2>1. Working(w) /\ pc' = [pc EXCEPT ![w] = "commit"] /\ pc'[w] = "commit"
    BY <1>10 DEF WriteLive, Working, TypeOK
  <2>2. Done(cur[w])'
    <3>1. /\ cur[w] \in 0 .. Len(log) - 1 /\ LiveUpsert(cur[w])
          /\ Msg(cur[w]).kind = "valid" /\ InRaw(Key(cur[w]))
          /\ UNCHANGED <<log, raw, cur>>
      BY <1>8, <1>10, <2>1 DEF WriteLive, Storable, WorkersInv, WInv
    <3>2. \A o \in 0 .. Len(log) - 1 : o = cur[w] => Done(o)'
      BY <3>1, LiveDone
    <3>3. QED
      BY <3>1, <3>2 DEF Done, Settled, FirstNewest, Covered, InRaw, Key, Msg
  <2>3. attempt' = [attempt EXCEPT ![w] = attempt'[w]] /\ UNCHANGED <<log, position, cur>>
    BY <1>10 DEF WriteLive, TypeOK
  <2>4. QED
    BY <2>1, <2>2, <2>3, <1>7
<1>11. ASSUME NEW w \in Worker, WriteRefused(w) PROVE WorkersInv'
  <2>1. Working(w) /\ pc' = [pc EXCEPT ![w] = "dlq"] /\ pc'[w] = "dlq"
    BY <1>11 DEF WriteRefused, Working, TypeOK
  <2>2. Msg(cur[w]).kind = "unstorable"
    BY <1>11 DEF WriteRefused
  <2>3. attempt' = [attempt EXCEPT ![w] = attempt'[w]] /\ UNCHANGED <<log, position, cur>>
    BY <1>11 DEF WriteRefused, TypeOK
  <2>4. QED
    BY <2>1, <2>2, <2>3, <1>7
<1>12. ASSUME NEW w \in Worker, WriteTransient(w) PROVE WorkersInv'
  <2>1. CASE attempt[w] = MaxAttempts
    BY <2>1, <1>12, ExitWorkers DEF WriteTransient, Exit
  <2>2. CASE attempt[w] # MaxAttempts
    <3>1. Working(w) /\ pc' = [pc EXCEPT ![w] = "backoff"] /\ pc'[w] = "backoff"
      BY <1>12, <2>2 DEF WriteTransient, Working, TypeOK
    <3>2. /\ attempt' = [attempt EXCEPT ![w] = attempt'[w]]
          /\ attempt'[w] = attempt[w] /\ UNCHANGED <<log, position, cur>>
      BY <1>12, <2>2 DEF WriteTransient, TypeOK
    <3>3. attempt'[w] < MaxAttempts
      BY <2>2, <3>2 DEF TypeOK
    <3>4. QED
      BY <3>1, <3>2, <3>3, <1>7
  <2>3. QED
    BY <2>1, <2>2
<1>13. ASSUME NEW w \in Worker, Retry(w) PROVE WorkersInv'
  <2>1. Working(w) /\ pc' = [pc EXCEPT ![w] = "write_raw"] /\ pc'[w] = "write_raw"
    BY <1>13 DEF Retry, Working, TypeOK
  <2>2. attempt' = [attempt EXCEPT ![w] = attempt'[w]] /\ UNCHANGED <<log, position, cur>>
    BY <1>13 DEF Retry, TypeOK
  <2>3. QED
    BY <2>1, <2>2, <1>7
<1>14. ASSUME NEW w \in Worker, PublishDlq(w) PROVE WorkersInv'
  <2>1. Working(w) /\ pc' = [pc EXCEPT ![w] = "commit"] /\ pc'[w] = "commit"
    BY <1>14 DEF PublishDlq, Working, TypeOK
  <2>2. Done(cur[w])'
    BY <1>14 DEF PublishDlq, Done, Settled, FirstNewest, Msg, WorkersInv, WInv
  <2>3. attempt' = [attempt EXCEPT ![w] = attempt'[w]] /\ UNCHANGED <<log, position, cur>>
    BY <1>14 DEF PublishDlq, TypeOK
  <2>4. QED
    BY <2>1, <2>2, <2>3, <1>7
<1>15. ASSUME NEW w \in Worker, Commit(w) PROVE WorkersInv'
  <2>1. Working(w) /\ pc' = [pc EXCEPT ![w] = "poll"] /\ pc'[w] = "poll"
    BY <1>15 DEF Commit, Working, TypeOK
  <2>2. Done(cur[w])'
    BY <1>15 DEF Commit, store, WorkersInv, WInv, Done, Settled, FirstNewest,
                 Covered, InRaw, Key, Msg
  <2>3. attempt' = [attempt EXCEPT ![w] = attempt'[w]] /\ UNCHANGED <<log, position, cur>>
    BY <1>15 DEF Commit, TypeOK
  <2>4. QED
    BY <2>1, <2>2, <2>3, <1>7
<1>16. CASE UNCHANGED vars \/ Produce
  BY <1>16, <1>1 DEF vars, worker, Produce
<1>17. ASSUME NEW w \in Worker, RequestStop(w) PROVE WorkersInv'
  BY <1>17, <1>1 DEF RequestStop
<1>18. QED
  BY <1>2, <1>3, <1>4, <1>5, <1>6, <1>9, <1>10, <1>11, <1>12, <1>13, <1>14,
     <1>15, <1>16, <1>17 DEF Next, WorkerStep

-----------------------------------------------------------------------------
\* A live document replaced by p is newer than everything below p, for all of
\* that was done and covered by the document before.
LEMMA LiveStep ==
    ASSUME TypeOK, LiveInv, NEW p \in 0 .. Len(log) - 1, LiveUpsert(p),
           \A o \in 0 .. p - 1 : FirstNewest(o), UNCHANGED log
    PROVE  LiveInv'
<1> SUFFICES ASSUME NEW a \in Aircraft, NEW o \in 0 .. live'[a].kafka_offset - 1
             PROVE  /\ o < Len(log)
                    /\ Msg(o).kind = "valid" /\ Msg(o).icao24 = a
                          => Msg(o).observed_at < live'[a].observed_at
  BY DEF LiveInv, Msg
<1>1. CASE live'[a] = live[a]
  BY <1>1 DEF LiveInv
<1>2. CASE live'[a] # live[a]
  <2>1. /\ live'[a].observed_at = Msg(p).observed_at
        /\ live'[a].kafka_offset = p
        /\ live[a].observed_at < Msg(p).observed_at
    BY <1>2, LiveGrows
  <2>2. o \in 0 .. p - 1
    BY <2>1
  <2>3. o \in 0 .. Len(log) - 1 /\ FirstNewest(o)
    BY <2>2 DEF TypeOK
  <2>4. live[a].observed_at \in Nat /\ Msg(p).observed_at \in Nat
    BY MsgType DEF TypeOK
  <2>5. QED
    BY <2>1, <2>3, <2>4, MsgType DEF FirstNewest
<1>3. QED
  BY <1>1, <1>2

\* The invariant holds at first and is kept by every step.
THEOREM Inductive == Spec => []IInv
<1>1. Init => IInv
  <2> SUFFICES ASSUME Init PROVE IInv
    OBVIOUS
  <2>1. TypeOK
    BY DEF Init, TypeOK, NoPosition, NoDoc
  <2>2. CommittedDone /\ LiveInv /\ DlqOnlyPermanent
    BY DEF Init, CommittedDone, LiveInv, DlqOnlyPermanent, NoDoc
  <2>3. WorkersInv
    BY DEF Init, WorkersInv, WInv, Working, NoPosition
  <2>4. QED
    BY <2>1, <2>2, <2>3 DEF IInv
<1>2. IInv /\ [Next]_vars => IInv'
  <2> SUFFICES ASSUME IInv, [Next]_vars PROVE IInv'
    OBVIOUS
  <2>1. TypeOK' /\ Keeps
    BY TypeStep, KeepsStep DEF IInv
  <2>2. WorkersInv'
    BY <2>1, WorkersStep
  <2>3. ASSUME NEW w \in Worker, Working(w)
        PROVE  cur[w] \in 0 .. Len(log) - 1 /\ \A o \in 0 .. cur[w] - 1 : Done(o)
    BY <2>3 DEF IInv, TypeOK, WorkersInv, WInv
  <2>4. CommittedDone'
    <3>1. CASE committed' = committed
      BY <3>1, <2>1 DEF IInv, TypeOK, CommittedDone, Keeps
    <3>2. ASSUME NEW w \in Worker, Commit(w) \/ CommitFails(w), committed' = cur[w] + 1
          PROVE  CommittedDone'
      <4>1. pc[w] = "commit"
        BY <3>2 DEF Commit, CommitFails
      <4>2. cur[w] \in 0 .. Len(log) - 1 /\ \A o \in 0 .. cur[w] : Done(o)
        BY <4>1, <2>3 DEF Working, IInv, WorkersInv, WInv, TypeOK
      <4>3. QED
        BY SMTT(30), <3>2, <4>2, <2>1 DEF CommittedDone, Keeps, IInv, TypeOK
    <3>3. committed' = committed \/ \E w \in Worker :
              (Commit(w) \/ CommitFails(w)) /\ committed' = cur[w] + 1
      BY DEF Next, WorkerStep, vars, Produce, Assign, Revoked, Start, Crash,
             RequestStop, Shutdown, Poll, ExitOnError, WriteRaw, WriteLive,
             WriteRefused, WriteTransient, Retry, RetryInterrupted, PublishDlq,
             PublishDlqFails, DlqRefused, Commit, CommitFails
    <3>4. QED
      BY <3>1, <3>2, <3>3
  <2>5. Len(log') \in Nat /\ Len(log) \in Nat
    BY SMTT(30), <2>1 DEF IInv, TypeOK
  <2>6. LiveInv'
    <3>1. CASE live' = live
      <4> SUFFICES ASSUME NEW a \in Aircraft, NEW o \in 0 .. live[a].kafka_offset - 1
                   PROVE  /\ o < Len(log')
                          /\ Msg(o)'.kind = "valid" /\ Msg(o)'.icao24 = a
                                => Msg(o)'.observed_at < live[a].observed_at
        BY <3>1 DEF LiveInv
      <4>1. /\ o < Len(log)
            /\ Msg(o).kind = "valid" /\ Msg(o).icao24 = a
                  => Msg(o).observed_at < live[a].observed_at
        BY DEF IInv, LiveInv
      <4>2. o \in Nat
        OBVIOUS
      <4>3. Len(log) <= Len(log')
        BY <2>1 DEF Keeps
      <4>4. Msg(o)' = Msg(o)
        BY <4>1, <4>2, <2>5, <2>1 DEF Keeps
      <4>5. QED
        BY <4>1, <4>2, <4>4, <2>5, <4>3
    <3>2. ASSUME NEW w \in Worker, WriteLive(w) \/ WriteTransient(w), LiveUpsert(cur[w])
          PROVE  LiveInv'
      <4>1. Working(w) /\ UNCHANGED log
        BY <3>2 DEF WriteLive, WriteTransient, Working
      <4>2. cur[w] \in 0 .. Len(log) - 1 /\ \A o \in 0 .. cur[w] - 1 : FirstNewest(o)
        BY <4>1, <2>3 DEF Done
      <4>3. QED
        BY <3>2, <4>1, <4>2, LiveStep DEF IInv
    <3>3. live' = live \/ \E w \in Worker :
              (WriteLive(w) \/ WriteTransient(w)) /\ LiveUpsert(cur[w])
      BY DEF Next, WorkerStep, vars, store, Produce, Assign, Revoked, Start, Crash,
             RequestStop, Shutdown, Poll, ExitOnError, WriteRaw, WriteLive,
             WriteRefused, WriteTransient, Retry, RetryInterrupted, PublishDlq,
             PublishDlqFails, DlqRefused, Commit, CommitFails
    <3>4. QED
      BY <3>1, <3>2, <3>3
  <2>7. DlqOnlyPermanent'
    <3>1. CASE dlq' = dlq
      BY <3>1, <2>1 DEF IInv, TypeOK, DlqOnlyPermanent, Keeps
    <3>2. ASSUME NEW w \in Worker, PublishDlq(w) \/ PublishDlqFails(w)
          PROVE  DlqOnlyPermanent'
      <4>1. /\ pc[w] = "dlq" /\ Msg(cur[w]).kind # "oversize"
            /\ dlq' \in {dlq, dlq \cup {cur[w]}} /\ UNCHANGED log
        BY <3>2 DEF PublishDlq, PublishDlqFails
      <4>2. Msg(cur[w]).kind \in {"malformed", "unstorable"}
        BY <4>1 DEF IInv, WorkersInv, WInv
      <4>3. QED
        BY <4>1, <4>2 DEF IInv, DlqOnlyPermanent, Msg
    <3>3. dlq' = dlq \/ \E w \in Worker : PublishDlq(w) \/ PublishDlqFails(w)
      BY DEF Next, WorkerStep, vars, store, Produce, Assign, Revoked, Start, Crash,
             RequestStop, Shutdown, Poll, ExitOnError, WriteRaw, WriteLive,
             WriteRefused, WriteTransient, Retry, RetryInterrupted, DlqRefused,
             Commit, CommitFails
    <3>4. QED
      BY <3>1, <3>2, <3>3
  <2>8. QED
    BY <2>1, <2>2, <2>4, <2>6, <2>7 DEF IInv
<1>3. QED
  BY <1>1, <1>2, PTL DEF Spec

-----------------------------------------------------------------------------
\* Types, for every set of workers and every bound.
THEOREM TypeCorrect == Spec => []TypeOK
BY Inductive, PTL DEF IInv

\* No message below the committed offset is lost (handle_message's order of
\* write, dead-letter topic and commit, under every failure of the model).
THEOREM NothingLost == Spec => []CommittedSettled
<1>1. IInv => CommittedSettled
  BY DEF IInv, CommittedDone, Done, CommittedSettled
<1>2. QED
  BY <1>1, Inductive, PTL

\* Only messages that can never be stored are given up.
THEOREM GivenUpRightly == Spec => []DlqOnlyPermanent
BY Inductive, PTL DEF IInv

-----------------------------------------------------------------------------
\* A message p about to be stored: everything below it is done, and raw_positions
\* takes it, or both collections do.
Turn(p)    == \A o \in 0 .. p - 1 : Done(o)
DueRaw(p)  == Insertable(p) /\ Turn(p)
DueLive(p) == Msg(p).kind = "valid" /\ Turn(p)

LEMMA TurnOf ==
    ASSUME IInv, NEW w \in Worker, pc[w] \in {"write_raw", "write_live"}
    PROVE  cur[w] \in 0 .. Len(log) - 1 /\ Turn(cur[w])
<1>1. Working(w)
  BY DEF Working
<1>2. QED
  BY <1>1 DEF Turn, IInv, TypeOK, WorkersInv, WInv

\* What is done and was ever inserted is valid: of the others only what can never be
\* stored is given up.
LEMMA DoneInsertable ==
    ASSUME IInv, NEW o \in 0 .. Len(log) - 1, Done(o), Insertable(o)
    PROVE  Msg(o).kind = "valid" /\ InRaw(Key(o))
<1>1. Msg(o).kind # "valid" => o \in dlq
  BY DEF Done, Settled
<1>2. Msg(o).kind = "valid"
  BY <1>1 DEF Insertable, IInv, DlqOnlyPermanent
<1>3. QED
  BY <1>2 DEF Done, Settled

\* The raw collection changes only by the upsert of such a message ...
LEMMA RawChanges ==
    ASSUME IInv, [Next]_vars
    PROVE  \/ raw' = raw
           \/ \E p \in 0 .. Len(log) - 1 :
                 RawUpsert(p) /\ UNCHANGED <<log, live, committed>> /\ DueRaw(p)
<1>1. raw' = raw \/ \E w \in Worker :
          /\ pc[w] = "write_raw" /\ Insertable(cur[w])
          /\ RawUpsert(cur[w]) /\ UNCHANGED <<log, live, committed>>
  BY DEF Next, WorkerStep, vars, store, Produce, Assign, Revoked, Start, Crash,
         RequestStop, Shutdown, Poll, ExitOnError, WriteRaw, WriteLive,
         WriteRefused, WriteTransient, Retry, RetryInterrupted, PublishDlq,
         PublishDlqFails, DlqRefused, Commit, CommitFails
<1>2. QED
  BY <1>1, TurnOf DEF DueRaw

\* ... and the live collection only by that of one whose event is in the raw one.
LEMMA LiveChanges ==
    ASSUME IInv, [Next]_vars
    PROVE  \/ live' = live
           \/ \E p \in 0 .. Len(log) - 1 :
                 /\ LiveUpsert(p) /\ UNCHANGED <<log, raw, committed>>
                 /\ DueLive(p) /\ InRaw(Key(p))
<1>1. live' = live \/ \E w \in Worker :
          /\ pc[w] = "write_live" /\ Storable(w)
          /\ LiveUpsert(cur[w]) /\ UNCHANGED <<log, raw, committed>>
  BY DEF Next, WorkerStep, vars, store, Produce, Assign, Revoked, Start, Crash,
         RequestStop, Shutdown, Poll, ExitOnError, WriteRaw, WriteLive,
         WriteRefused, WriteTransient, Retry, RetryInterrupted, PublishDlq,
         PublishDlqFails, DlqRefused, Commit, CommitFails
<1>2. \A w \in Worker : pc[w] = "write_live" => InRaw(Key(cur[w]))
  BY DEF IInv, WorkersInv, WInv
<1>3. \A w \in Worker : pc[w] = "write_live" => cur[w] \in 0 .. Len(log) - 1 /\ Turn(cur[w])
  BY TurnOf
<1>4. QED
  BY <1>1, <1>2, <1>3 DEF DueLive, Storable

\* An event stays in the history once, under the first offset that brought it:
\* what is inserted at p was missing, and everything below p is there.
LEMMA OnceStep ==
    ASSUME IInv, Keeps, RawOncePerKey, [Next]_vars PROVE RawOncePerKey'
<1>1. Len(log) \in Nat /\ \A d \in raw : d.kafka_offset \in 0 .. Len(log) - 1
  BY DEF IInv, TypeOK
<1>2. \A o \in 0 .. Len(log) - 1 : Msg(o)' = Msg(o) /\ Key(o)' = Key(o)
  BY DEF Keeps, Key, Msg
<1>3. CASE raw' = raw
  BY <1>1, <1>2, <1>3 DEF RawOncePerKey, Insertable
<1>4. ASSUME NEW p \in 0 .. Len(log) - 1, RawUpsert(p), DueRaw(p), ~InRaw(Key(p))
      PROVE  RawOncePerKey'
  <2> DEFINE new == [_id |-> Key(p), kafka_offset |-> p]
  <2>1. raw' = raw \cup {new}
    BY <1>4 DEF RawUpsert
  <2>2. \A d \in raw : d._id # new._id
    BY <1>4 DEF InRaw
  <2>3. \A o \in 0 .. p - 1 : Insertable(o) => Key(o) # Key(p)
    BY <1>1, <1>4, DoneInsertable DEF DueRaw, Turn
  <2>4. \A d, e \in raw' : d._id = e._id => d = e
    BY <2>1, <2>2 DEF RawOncePerKey
  <2>5. ASSUME NEW d \in raw', NEW o \in 0 .. d.kafka_offset - 1, Insertable(o)'
        PROVE  Key(o)' # d._id
    <3>1. CASE d \in raw
      <4>1. o \in 0 .. Len(log) - 1
        BY <1>1, <3>1
      <4>2. QED
        BY <1>2, <2>5, <3>1, <4>1 DEF RawOncePerKey, Insertable
    <3>2. CASE d = new
      <4>1. o \in 0 .. p - 1 /\ o \in 0 .. Len(log) - 1 /\ d._id = Key(p)
        BY <1>1, <3>2
      <4>2. QED
        BY <1>2, <2>3, <2>5, <4>1 DEF Insertable
    <3>3. QED
      BY <2>1, <3>1, <3>2
  <2>6. QED
    BY <2>4, <2>5 DEF RawOncePerKey
<1>5. ASSUME NEW p \in 0 .. Len(log) - 1, RawUpsert(p), InRaw(Key(p)) PROVE raw' = raw
  BY <1>5 DEF RawUpsert
<1>6. QED
  BY <1>3, <1>4, <1>5, RawChanges

\* Each document is that of a message of the log which its collection takes.
RawOf(o) == [_id |-> Key(o), kafka_offset |-> o]
LiveOf(o) == [observed_at |-> Msg(o).observed_at, kafka_offset |-> o]
Valid(o) == o \in 0 .. Len(log) - 1 /\ Msg(o).kind = "valid"
Inserted(o) == o \in 0 .. Len(log) - 1 /\ Insertable(o)

OwnInv ==
    /\ \A d \in raw : Inserted(d.kafka_offset) /\ d = RawOf(d.kafka_offset)
    /\ \A a \in Aircraft :
          live[a] = NoDoc \/ \E o \in 0 .. Len(log) - 1 :
                                Valid(o) /\ Msg(o).icao24 = a /\ live[a] = LiveOf(o)

LEMMA OwnStep == ASSUME IInv, Keeps, OwnInv, [Next]_vars PROVE OwnInv'
<1>1. Len(log) \in Nat /\ Len(log') \in Nat /\ Len(log) <= Len(log')
  BY TypeStep DEF IInv, TypeOK, Keeps
<1>2. \A o \in 0 .. Len(log) - 1 : Msg(o)' = Msg(o) /\ Key(o)' = Key(o)
  BY DEF Keeps, Key, Msg
<1>3. \A o \in 0 .. Len(log) - 1 : /\ Valid(o) => Valid(o)'
                                   /\ Inserted(o) => Inserted(o)'
                                   /\ RawOf(o)' = RawOf(o) /\ LiveOf(o)' = LiveOf(o)
  BY <1>1, <1>2 DEF Valid, Inserted, Insertable, RawOf, LiveOf
<1>4. ASSUME NEW d \in raw' PROVE Inserted(d.kafka_offset)' /\ d = RawOf(d.kafka_offset)'
  <2>1. CASE d \in raw
    <3>1. d.kafka_offset \in 0 .. Len(log) - 1
      BY <2>1 DEF OwnInv, Inserted
    <3>2. QED
      BY <1>3, <2>1, <3>1 DEF OwnInv
  <2>2. CASE d \notin raw
    <3>1. PICK p \in 0 .. Len(log) - 1 : RawUpsert(p) /\ DueRaw(p)
      BY <2>2, RawChanges
    <3>2. d = RawOf(p) /\ Inserted(p) /\ d.kafka_offset = p
      BY <2>2, <3>1 DEF RawUpsert, RawOf, Inserted, DueRaw
    <3>3. QED
      BY <1>3, <3>2
  <2>3. QED
    BY <2>1, <2>2
<1>5. ASSUME NEW a \in Aircraft
      PROVE  live'[a] = NoDoc \/ \E o \in 0 .. Len(log') - 1 :
                 Valid(o)' /\ Msg(o)'.icao24 = a /\ live'[a] = LiveOf(o)'
  <2>1. ASSUME NEW o \in 0 .. Len(log) - 1, Valid(o), Msg(o).icao24 = a, live'[a] = LiveOf(o)
        PROVE  \E p \in 0 .. Len(log') - 1 :
                  Valid(p)' /\ Msg(p)'.icao24 = a /\ live'[a] = LiveOf(p)'
    BY <1>1, <1>2, <1>3, <2>1
  <2>2. CASE live'[a] = live[a]
    BY <2>1, <2>2 DEF OwnInv
  <2>3. CASE live'[a] # live[a]
    <3>1. PICK p \in 0 .. Len(log) - 1 : LiveUpsert(p) /\ DueLive(p)
      BY <2>3, LiveChanges
    <3>2. live' = [live EXCEPT ![Msg(p).icao24] = LiveOf(p)] /\ Valid(p)
      BY <2>3, <3>1 DEF LiveUpsert, LiveOf, Valid, DueLive
    <3>3. a = Msg(p).icao24 /\ live'[a] = LiveOf(p)
      BY <2>3, <3>2 DEF IInv, TypeOK
    <3>4. QED
      BY <2>1, <3>2, <3>3
  <2>4. QED
    BY <2>2, <2>3
<1>6. QED
  BY <1>4, <1>5 DEF OwnInv

\* How far the two collections are: all messages below n that raw_positions
\* takes are done, nothing live is from later, and the history ends at m, which is n or one further.
Reached(n, m) ==
    /\ \A o \in 0 .. n - 1 : Insertable(o) => Done(o)
    /\ \A a \in Aircraft : live[a].kafka_offset < n
    /\ \A d \in raw : d.kafka_offset < m
    /\ m \in {n, n + 1} /\ m <= Len(log)
    /\ m = n + 1 /\ Insertable(n) => InRaw(Key(n))

ReachInv == \E n \in committed .. Len(log) : \E m \in n .. n + 1 : Reached(n, m)

\* A write that changes a collection is of a message that is not done yet, hence at the
\* front: afterwards the collections are at its offset, before or after the live update.
LEMMA RawReaches ==
    ASSUME IInv, IInv', Keeps, ReachInv, NEW p \in 0 .. Len(log) - 1, RawUpsert(p),
           UNCHANGED <<log, live, committed>>, DueRaw(p), raw' # raw
    PROVE  committed <= p /\ Reached(p, p + 1)'
<1>1. Len(log) \in Nat /\ committed \in 0 .. Len(log)
  BY DEF IInv, TypeOK
<1>2. \A o \in 0 .. Len(log) - 1 : Msg(o)' = Msg(o) /\ (Done(o) => Done(o)')
  BY DEF Keeps
<1>3. \A a \in Aircraft : live[a].kafka_offset \in Nat \cup {-1}
  BY DEF IInv, TypeOK
<1>4. PICK n \in committed .. Len(log), m \in Nat : m \in n .. n + 1 /\ Reached(n, m)
  BY <1>1 DEF ReachInv
<1>5. \A d \in raw : d.kafka_offset \in Nat
  BY <1>1 DEF IInv, TypeOK
<1>6. raw' = raw \cup {RawOf(p)} /\ ~InRaw(Key(p))
  BY DEF RawUpsert, RawOf
<1>7. p >= n
  <2>1. p \in 0 .. n - 1 => InRaw(Key(p))
    BY <1>1, <1>4, DoneInsertable DEF Reached, DueRaw
  <2>2. QED
    BY <1>1, <1>6, <2>1
<1>8. \A d \in raw' : d.kafka_offset < p + 1
  BY <1>1, <1>4, <1>5, <1>6, <1>7 DEF Reached, RawOf
<1>9. \A a \in Aircraft : live'[a].kafka_offset < p
  BY <1>1, <1>3, <1>4, <1>7 DEF Reached
<1>10. \A o \in 0 .. p - 1 : Done(o)'
  BY <1>1, <1>2 DEF DueRaw, Turn
<1>11. InRaw(Key(p))'
  <2>1. Key(p)' = Key(p) /\ RawOf(p) \in raw' /\ RawOf(p)._id = Key(p)
    BY <1>6 DEF Key, Msg, RawOf
  <2>2. QED
    BY <2>1 DEF InRaw
<1>12. QED
  BY <1>1, <1>7, <1>8, <1>9, <1>10, <1>11 DEF Reached

LEMMA LiveReaches ==
    ASSUME IInv, IInv', Keeps, ReachInv, NEW p \in 0 .. Len(log) - 1, LiveUpsert(p),
           UNCHANGED <<log, raw, committed>>, DueLive(p), InRaw(Key(p)), live' # live
    PROVE  committed <= p /\ Reached(p + 1, p + 1)'
<1>1. Len(log) \in Nat /\ committed \in 0 .. Len(log)
  BY DEF IInv, TypeOK
<1>2. \A o \in 0 .. Len(log) - 1 : Msg(o)' = Msg(o) /\ (Done(o) => Done(o)')
  BY DEF Keeps
<1>3. \A a \in Aircraft : live[a].kafka_offset \in Nat \cup {-1}
  BY DEF IInv, TypeOK
<1>4. PICK n \in committed .. Len(log), m \in Nat : m \in n .. n + 1 /\ Reached(n, m)
  BY <1>1 DEF ReachInv
<1>5. \A d \in raw : d.kafka_offset \in Nat
  BY <1>1 DEF IInv, TypeOK
<1>6. p >= n
  <2>1. p \in 0 .. n - 1 => FirstNewest(p)
    BY <1>4 DEF Reached, DueLive, Insertable, Done
  <2>2. Msg(p).kind = "valid" /\ Msg(p).icao24 \in Aircraft /\ Msg(p).observed_at \in Nat \ {0}
    BY MsgType DEF DueLive, IInv
  <2>3. live[Msg(p).icao24].observed_at \in Nat
    BY <2>2 DEF IInv, TypeOK
  <2>4. live[Msg(p).icao24] = NoDoc \/ live[Msg(p).icao24].observed_at < Msg(p).observed_at
    BY DEF LiveUpsert
  <2>5. ~FirstNewest(p)
    BY <2>2, <2>3, <2>4 DEF FirstNewest, NoDoc
  <2>6. QED
    BY <1>1, <2>1, <2>5
<1>7. Done(p)'
  BY LiveDone DEF IInv, DueLive
<1>8. \A a \in Aircraft : live'[a].kafka_offset < p + 1
  <2>1. \A a \in Aircraft : live'[a].kafka_offset = live[a].kafka_offset
                            \/ live'[a].kafka_offset = p
    BY LiveGrows DEF IInv
  <2>2. QED
    BY <1>1, <1>3, <1>4, <1>6, <2>1 DEF Reached
<1>9. \A d \in raw' : d.kafka_offset < p + 1
  BY <1>1, <1>4, <1>5, <1>6 DEF Reached
<1>10. \A o \in 0 .. p : Done(o)'
  <2>1. \A o \in 0 .. p - 1 : Done(o)'
    BY <1>1, <1>2 DEF DueLive, Turn
  <2>2. QED
    BY <1>7, <2>1
<1>11. QED
  BY <1>1, <1>6, <1>8, <1>9, <1>10 DEF Reached

LEMMA ReachStep == ASSUME IInv, IInv', Keeps, ReachInv, [Next]_vars PROVE ReachInv'
<1>1. /\ Len(log) \in Nat /\ Len(log') \in Nat /\ Len(log) <= Len(log')
      /\ committed \in 0 .. Len(log) /\ committed' \in 0 .. Len(log')
  BY SMTT(30) DEF IInv, TypeOK, Keeps
<1>2. \A o \in 0 .. Len(log) - 1 : /\ Msg(o)' = Msg(o) /\ (Done(o) => Done(o)')
                                   /\ (InRaw(Key(o)) => InRaw(Key(o))')
  BY DEF Keeps
<1>3. \A o \in 0 .. committed' - 1 : Done(o)'
  BY DEF IInv, CommittedDone
<1>4. PICK n \in committed .. Len(log), m \in Nat : m \in n .. n + 1 /\ Reached(n, m)
  BY <1>1 DEF ReachInv
<1>5. n \in Nat /\ n <= Len(log) /\ m <= Len(log) /\ m \in {n, n + 1}
  BY <1>1, <1>4 DEF Reached
<1>6. (\A d \in raw : d.kafka_offset \in Nat) /\ (\A d \in raw' : d.kafka_offset \in Nat)
      /\ (\A a \in Aircraft : live[a].kafka_offset \in Int /\ live'[a].kafka_offset \in Int)
  <2>1. (\A d \in raw : d.kafka_offset \in Nat) /\ (\A d \in raw' : d.kafka_offset \in Nat)
    BY SMTT(30), <1>1 DEF IInv, TypeOK
  <2>2. \A a \in Aircraft : live[a].kafka_offset \in Nat \cup {-1}
    BY DEF IInv, TypeOK
  <2>3. \A a \in Aircraft : live'[a].kafka_offset \in Nat \cup {-1}
    BY DEF IInv, TypeOK
  <2>4. QED
    BY <2>1, <2>2, <2>3
<1>7. \A o \in 0 .. n - 1 : Insertable(o)' => Done(o)'
  <2>1. \A o \in 0 .. n - 1 : o \in 0 .. Len(log) - 1
    BY <1>1, <1>5
  <2>2. QED
    BY <1>2, <1>4, <2>1 DEF Reached, Insertable
<1>8. ASSUME NEW i \in Nat, NEW j \in Nat, i <= Len(log'), committed' <= i, Reached(i, j)'
      PROVE  ReachInv'
  <2>1. i \in committed' .. Len(log') /\ j \in i .. i + 1
    BY <1>1, <1>8 DEF Reached
  <2>2. QED
    BY <1>8, <2>1 DEF ReachInv
<1>9. CASE raw' = raw /\ live' = live /\ committed' <= n
  <2>1. m = n + 1 /\ Insertable(n)' => InRaw(Key(n))'
    <3>1. m = n + 1 => n \in 0 .. Len(log) - 1
      BY <1>1, <1>5
    <3>2. QED
      BY <1>2, <1>4, <3>1 DEF Reached, Insertable
  <2>2. Reached(n, m)'
    BY <1>1, <1>4, <1>5, <1>7, <1>9, <2>1 DEF Reached
  <2>3. QED
    BY <1>1, <1>5, <1>8, <1>9, <2>2
<1>10. CASE raw' = raw /\ live' = live /\ committed' > n
  <2>1. /\ \A a \in Aircraft : live'[a].kafka_offset < committed'
        /\ \A d \in raw' : d.kafka_offset < committed'
    BY <1>1, <1>4, <1>5, <1>6, <1>10 DEF Reached
  <2>2. Reached(committed, committed)'
    BY <1>1, <1>3, <2>1 DEF Reached
  <2>3. QED
    BY <1>1, <1>8, <2>2
<1>11. CASE raw' # raw
  <2>1. PICK p \in 0 .. Len(log) - 1 :
            RawUpsert(p) /\ UNCHANGED <<log, live, committed>> /\ DueRaw(p)
    BY <1>11, RawChanges
  <2>2. committed <= p /\ Reached(p, p + 1)'
    BY <1>11, <2>1, RawReaches
  <2>3. QED
    BY <1>1, <1>8, <2>1, <2>2
<1>12. CASE live' # live
  <2>1. PICK p \in 0 .. Len(log) - 1 :
            LiveUpsert(p) /\ UNCHANGED <<log, raw, committed>> /\ DueLive(p) /\ InRaw(Key(p))
    BY <1>12, LiveChanges
  <2>2. committed <= p /\ Reached(p + 1, p + 1)'
    BY <1>12, <2>1, LiveReaches
  <2>3. QED
    BY <1>1, <1>8, <2>1, <2>2
<1>13. QED
  BY <1>1, <1>5, <1>9, <1>10, <1>11, <1>12

\* Between them these invariants say what both collections are.
LEMMA PrefixReached ==
    ASSUME IInv, OwnInv, RawOncePerKey, NEW n \in Nat, NEW m \in Nat, Reached(n, m)
    PROVE  LiveAfter(n) /\ raw = History(m)
<1>1. Len(log) \in Nat /\ m <= Len(log) /\ n <= m
  BY DEF IInv, TypeOK, Reached
<1>2. ASSUME NEW a \in Aircraft, NEW o \in Reports(a, n)
      PROVE  \E q \in FirstNewestOf(Reports(a, n)) : live[a] = LiveOf(q)
  <2>1. \A p \in Reports(a, n) : /\ p \in 0 .. Len(log) - 1 /\ FirstNewest(p)
                                 /\ Msg(p).kind = "valid" /\ Msg(p).icao24 = a
                                 /\ Msg(p).observed_at \in Nat \ {0}
    BY <1>1, MsgType DEF Reports, Reached, Insertable, Done, IInv
  <2>2. \A p \in Reports(a, n) :
           \/ live[a].observed_at > Msg(p).observed_at
           \/ live[a].observed_at = Msg(p).observed_at /\ live[a].kafka_offset <= p
    BY <2>1 DEF FirstNewest
  <2>3. live[a].observed_at \in Nat
    BY DEF IInv, TypeOK
  <2>4. live[a] # NoDoc
    BY <1>2, <2>1, <2>2, <2>3 DEF NoDoc
  <2>5. PICK q \in 0 .. Len(log) - 1 : Valid(q) /\ Msg(q).icao24 = a /\ live[a] = LiveOf(q)
    BY <2>4 DEF OwnInv
  <2>6. live[a].kafka_offset = q /\ live[a].observed_at = Msg(q).observed_at /\ q < n
    BY <2>5 DEF LiveOf, Reached
  <2>7. q \in Reports(a, n)
    BY <2>5, <2>6 DEF Reports, Valid
  <2>8. \A p \in Reports(a, n) : \/ Msg(p).observed_at < Msg(q).observed_at
                                 \/ Msg(p).observed_at = Msg(q).observed_at /\ q <= p
    BY <2>1, <2>2, <2>3, <2>6
  <2>9. QED
    BY <2>5, <2>7, <2>8 DEF FirstNewestOf
<1>3. ASSUME NEW a \in Aircraft, Reports(a, n) = {} PROVE live[a] = NoDoc
  <2> SUFFICES ASSUME live[a] # NoDoc PROVE FALSE
    OBVIOUS
  <2>1. PICK q \in 0 .. Len(log) - 1 : Valid(q) /\ Msg(q).icao24 = a /\ live[a] = LiveOf(q)
    BY DEF OwnInv
  <2>2. live[a].kafka_offset = q /\ q < n
    BY <2>1 DEF LiveOf, Reached
  <2>3. q \in Reports(a, n)
    BY <2>1, <2>2 DEF Reports, Valid
  <2>4. QED
    BY <1>3, <2>3
<1>4. LiveAfter(n)
  BY <1>2, <1>3 DEF LiveAfter, LiveOf
<1>5. ASSUME NEW d \in raw PROVE d \in History(m)
  <2>1. d = RawOf(d.kafka_offset) /\ Inserted(d.kafka_offset) /\ d.kafka_offset < m
    BY DEF OwnInv, Reached
  <2>2. d._id = Key(d.kafka_offset)
    BY <2>1 DEF RawOf
  <2>3. FirstOfKey(d.kafka_offset)
    BY <2>1, <2>2 DEF FirstOfKey, RawOncePerKey, Inserted
  <2>4. d.kafka_offset \in {p \in 0 .. m - 1 : FirstOfKey(p)}
    BY <2>1, <2>3 DEF Inserted
  <2>5. QED
    BY <2>1, <2>4 DEF History, RawOf
<1>6. ASSUME NEW o \in 0 .. m - 1, FirstOfKey(o) PROVE RawOf(o) \in raw
  <2>1. InRaw(Key(o))
    <3>1. Insertable(o) /\ o \in 0 .. Len(log) - 1
      BY <1>1, <1>6 DEF FirstOfKey
    <3>2. CASE o \in 0 .. n - 1
      BY <3>1, <3>2, DoneInsertable DEF Reached
    <3>3. CASE o = n
      BY <1>1, <1>6, <3>1, <3>3 DEF Reached
    <3>4. o \in 0 .. n - 1 \/ o = n
      BY <1>1, <1>6 DEF Reached
    <3>5. QED
      BY <3>2, <3>3, <3>4
  <2>2. PICK d \in raw : d._id = Key(o)
    BY <2>1 DEF InRaw
  <2>3. Inserted(d.kafka_offset) /\ d = RawOf(d.kafka_offset)
    BY DEF OwnInv
  <2>4. Key(d.kafka_offset) = Key(o)
    BY <2>2, <2>3 DEF RawOf
  <2>5. ~(d.kafka_offset \in 0 .. o - 1)
    BY <1>6, <2>3, <2>4 DEF FirstOfKey, Inserted
  <2>6. ~(o \in 0 .. d.kafka_offset - 1)
    BY <1>6, <2>2 DEF FirstOfKey, RawOncePerKey
  <2>7. d.kafka_offset = o
    BY <2>3, <2>5, <2>6 DEF Inserted
  <2>8. QED
    BY <2>3, <2>7
<1>7. History(m) \subseteq raw
  BY <1>6 DEF History, RawOf
<1>8. QED
  BY <1>4, <1>5, <1>7

\* An event is in the history once, under its first offset, through every replay
\* and whichever processes write it (the upsert of write_event).
THEOREM StoredOnce == Spec => []RawOncePerKey
<1>1. Init => RawOncePerKey
  BY DEF Init, RawOncePerKey
<1>2. IInv /\ RawOncePerKey /\ [Next]_vars => RawOncePerKey'
  BY OnceStep, KeepsStep DEF IInv
<1>3. QED
  BY <1>1, <1>2, Inductive, PTL DEF Spec

LEMMA Shown == \A n, m \in Nat : IInv /\ OwnInv /\ RawOncePerKey /\ Reached(n, m) => Shows(n)
<1> SUFFICES ASSUME NEW n \in Nat, NEW m \in Nat, IInv, OwnInv, RawOncePerKey, Reached(n, m)
             PROVE  Shows(n)
  OBVIOUS
<1>1. LiveAfter(n) /\ raw = History(m)
  BY PrefixReached
<1>2. m \in n .. n + 1 /\ m <= Len(log)
  BY DEF Reached
<1>3. QED
  BY <1>1, <1>2 DEF Shows

StoreInv == RawOncePerKey /\ OwnInv /\ ReachInv

LEMMA Histories == Spec => []StoreInv
<1>1. Init => RawOncePerKey /\ OwnInv
  BY DEF Init, RawOncePerKey, OwnInv
<1>2. Init => ReachInv
  <2> SUFFICES ASSUME Init PROVE ReachInv
    OBVIOUS
  <2>1. Reached(0, 0)
    BY DEF Init, Reached, NoDoc
  <2>2. QED
    BY <2>1 DEF Init, ReachInv
<1>3. IInv /\ RawOncePerKey /\ OwnInv /\ [Next]_vars => RawOncePerKey' /\ OwnInv'
  BY OnceStep, OwnStep, KeepsStep DEF IInv
<1>4. IInv /\ IInv' /\ ReachInv /\ [Next]_vars => ReachInv'
  BY ReachStep, KeepsStep DEF IInv
<1>5. Init => StoreInv
  BY <1>1, <1>2 DEF StoreInv
<1>6. IInv /\ IInv' /\ StoreInv /\ [Next]_vars => StoreInv'
  BY <1>3, <1>4 DEF StoreInv
<1>7. QED
  BY <1>5, <1>6, Inductive, PTL DEF Spec

\* StoreIsPrefix (write_event): however many processes write, fail, repeat and race, the
\* two collections are those that one process would have left which handled a prefix of
\* the log once and in order, but for the event that is between its two upserts.
THEOREM OnePrefix == Spec => []StoreIsPrefix
<1>1. IInv /\ StoreInv => StoreIsPrefix
  <2> SUFFICES ASSUME IInv, StoreInv PROVE StoreIsPrefix
    OBVIOUS
  <2>1. committed \in Nat /\ Len(log) \in Nat
    BY DEF IInv, TypeOK
  <2>2. PICK n \in committed .. Len(log) : \E m \in n .. n + 1 : Reached(n, m)
    BY DEF StoreInv, ReachInv
  <2>3. PICK m \in n .. n + 1 : Reached(n, m)
    BY <2>2
  <2>4. n \in Nat /\ m \in Nat
    BY <2>1
  <2>5. Shows(n)
    BY <2>3, <2>4, Shown DEF StoreInv
  <2>6. QED
    BY <2>5 DEF StoreIsPrefix
<1>2. QED
  BY <1>1, Histories, Inductive, PTL

\* A write that changes a collection which shows n messages is not of one of them.
LEMMA NewToRaw ==
    ASSUME IInv, Keeps, RawOncePerKey', NEW n \in 0 .. Len(log), Shows(n),
           NEW p \in 0 .. Len(log) - 1, RawUpsert(p), DueRaw(p), raw' # raw
    PROVE  n <= p
<1> SUFFICES ASSUME p < n PROVE FALSE
  BY DEF IInv, TypeOK
<1>1. Len(log) \in Nat
  BY DEF IInv, TypeOK
<1>2. \A o \in 0 .. Len(log) - 1 : Msg(o)' = Msg(o) /\ Key(o)' = Key(o)
  BY DEF Keeps, Key, Msg
<1>3. raw' = raw \cup {RawOf(p)} /\ ~InRaw(Key(p))
  BY DEF RawUpsert, RawOf
<1>4. FirstOfKey(p)
  <2>1. ASSUME NEW o \in 0 .. p - 1, Insertable(o) PROVE Key(o) # Key(p)
    <3>1. o \in 0 .. Len(log) - 1
      BY <1>1
    <3>2. RawOf(p) \in raw' /\ RawOf(p).kafka_offset = p /\ RawOf(p)._id = Key(p)
      BY <1>3 DEF RawOf
    <3>3. Key(o)' # Key(p)
      BY <1>2, <2>1, <3>1, <3>2 DEF RawOncePerKey, Insertable
    <3>4. QED
      BY <1>2, <3>1, <3>3
  <2>2. QED
    BY <2>1 DEF FirstOfKey, DueRaw
<1>5. PICK k \in n .. n + 1 : raw = History(k)
  BY DEF Shows
<1>6. p \in {o \in 0 .. k - 1 : FirstOfKey(o)}
  BY <1>1, <1>4
<1>7. RawOf(p) \in raw
  BY <1>5, <1>6 DEF History, RawOf
<1>8. QED
  BY <1>3, <1>7 DEF InRaw, RawOf

LEMMA NewToLive ==
    ASSUME IInv, NEW n \in 0 .. Len(log), Shows(n),
           NEW p \in 0 .. Len(log) - 1, LiveUpsert(p), DueLive(p), live' # live
    PROVE  n <= p
<1> SUFFICES ASSUME p < n PROVE FALSE
  BY DEF IInv, TypeOK
<1> DEFINE a == Msg(p).icao24
<1>1. Len(log) \in Nat
  BY DEF IInv, TypeOK
<1>2. Msg(p).kind = "valid" /\ a \in Aircraft /\ Msg(p).observed_at \in Nat \ {0}
  BY MsgType DEF DueLive, IInv
<1>3. p \in Reports(a, n)
  BY <1>1, <1>2 DEF Reports
<1>4. PICK o \in FirstNewestOf(Reports(a, n)) :
          live[a] = [observed_at |-> Msg(o).observed_at, kafka_offset |-> o]
  BY <1>2, <1>3 DEF Shows, LiveAfter
<1>5. o \in 0 .. Len(log) - 1 /\ Msg(o).kind = "valid"
  BY <1>1, <1>4 DEF FirstNewestOf, Reports
<1>6. Msg(o).observed_at \in Nat \ {0}
  BY <1>5, MsgType DEF IInv
<1>7. Msg(p).observed_at <= Msg(o).observed_at
  BY <1>2, <1>3, <1>4, <1>6 DEF FirstNewestOf
<1>8. live[a].observed_at = Msg(o).observed_at
  BY <1>4
<1>9. live[a] = NoDoc \/ live[a].observed_at < Msg(p).observed_at
  BY DEF LiveUpsert
<1>10. QED
  BY <1>2, <1>6, <1>7, <1>8, <1>9 DEF NoDoc

\* StoreAdvances (write_event): what a reader of the collections sees never goes back to
\* an earlier point of the log.
THEOREM NeverBack == Spec => StoreAdvances
<1> DEFINE Forward == \A n \in 0 .. Len(log) : Shows(n) => \E m \in n .. Len(log)' : Shows(m)'
<1>1. IInv /\ IInv' /\ StoreInv /\ StoreInv' /\ [Next]_vars => [Forward]_<<raw, live>>
  <2> SUFFICES ASSUME IInv, IInv', StoreInv, StoreInv', [Next]_vars, <<raw, live>>' # <<raw, live>>,
                      NEW n \in 0 .. Len(log), Shows(n)
               PROVE  \E m \in n .. Len(log)' : Shows(m)'
    OBVIOUS
  <2>1. Keeps
    BY KeepsStep DEF IInv
  <2>2. Len(log) \in Nat
    BY DEF IInv, TypeOK
  <2>3. \A k, m \in Nat : Reached(k, m)' => Shows(k)'
    <3>1. (Shown)'
      BY Shown, PTL
    <3>2. QED
      BY <3>1 DEF StoreInv
  <2>4. CASE raw' # raw
    <3>1. PICK p \in 0 .. Len(log) - 1 :
              RawUpsert(p) /\ UNCHANGED <<log, live, committed>> /\ DueRaw(p)
      BY <2>4, RawChanges
    <3>2. Reached(p, p + 1)'
      BY <2>1, <2>4, <3>1, RawReaches DEF StoreInv
    <3>3. n <= p
      BY <2>1, <2>4, <3>1, NewToRaw DEF StoreInv
    <3>4. p \in Nat /\ p + 1 \in Nat /\ p \in n .. Len(log)'
      BY <2>2, <3>1, <3>3
    <3>5. QED
      BY <2>3, <3>2, <3>4
  <2>5. CASE live' # live
    <3>1. PICK p \in 0 .. Len(log) - 1 :
              LiveUpsert(p) /\ UNCHANGED <<log, raw, committed>> /\ DueLive(p) /\ InRaw(Key(p))
      BY <2>5, LiveChanges
    <3>2. Reached(p + 1, p + 1)'
      BY <2>1, <2>5, <3>1, LiveReaches DEF StoreInv
    <3>3. n <= p
      BY <2>5, <3>1, NewToLive
    <3>4. p + 1 \in Nat /\ p + 1 \in n .. Len(log)'
      BY <2>2, <3>1, <3>3
    <3>5. QED
      BY <2>3, <3>2, <3>4
  <2>6. QED
    BY <2>4, <2>5
<1>2. QED
  BY <1>1, Histories, Inductive, PTL DEF Spec, StoreAdvances

\* The writer keeps the promise of an at-least-once consumer group.
THEOREM Implements == Spec => ImplementsPromise
<1> DEFINE Effects == {o \in 0 .. Len(log) - 1 : Settled(o)}
<1>1. Init => Promise!Init
  BY DEF Init, Promise!Init
<1>2. IInv /\ IInv' /\ [Next]_vars => [Promise!Next]_(Promise!vars)
  <2> SUFFICES ASSUME IInv, IInv', [Next]_vars
               PROVE  [Promise!Next]_(Promise!vars)
    OBVIOUS
  <2>1. Keeps
    BY KeepsStep DEF IInv
  <2>2. Len(log) \in Nat /\ Len(log') \in Nat
    BY SMTT(30) DEF IInv, TypeOK
  <2>3. Effects \subseteq Effects'
    <3> SUFFICES ASSUME NEW o \in 0 .. Len(log) - 1, Settled(o) PROVE o \in Effects'
      OBVIOUS
    <3>1. Settled(o)'
      BY <2>1 DEF Keeps
    <3>2. o \in 0 .. Len(log') - 1
      BY <2>1, <2>2 DEF Keeps
    <3>3. QED
      BY <3>1, <3>2
  <2>4. Effects' \subseteq 0 .. Len(log') - 1
    OBVIOUS
  <2>5. CASE Produce
    <3>1. Promise!AppendRecord
      BY <2>3, <2>4, <2>5 DEF Produce, Promise!AppendRecord
    <3>2. QED
      BY <3>1 DEF Promise!Next
  <2>6. CASE UNCHANGED <<log, committed>>
    <3>1. Promise!Deliver
      BY <2>3, <2>4, <2>6 DEF Promise!Deliver
    <3>2. QED
      BY <3>1 DEF Promise!Next
  <2>7. CASE UNCHANGED data
    <3>1. Effects' = Effects /\ \A o : Settled(o)' = Settled(o)
      BY <2>7 DEF data, store, Settled, Covered, InRaw, Key, Msg
    <3>2. committed' \in 0 .. Len(log) /\ \A o \in 0 .. committed' - 1 : Settled(o)
      BY <2>7, <3>1 DEF data, IInv, TypeOK, CommittedDone, Done
    <3>3. committed' \in Nat /\ committed' <= Len(log)
      BY <2>2, <3>2
    <3>4. 0 .. committed' - 1 \subseteq Effects
      <4>1. ASSUME NEW n \in Nat, NEW m \in Nat, n <= m,
                   \A o \in 0 .. n - 1 : Settled(o)
            PROVE  0 .. n - 1 \subseteq {o \in 0 .. m - 1 : Settled(o)}
        BY <4>1
      <4>2. QED
        BY <2>2, <3>2, <3>3, <4>1
    <3>5. Promise!Commit
      BY <2>7, <3>1, <3>2, <3>4 DEF data, Promise!Commit
    <3>6. QED
      BY <3>5 DEF Promise!Next
  <2>8. QED
    BY <2>5, <2>6, <2>7
       DEF Next, WorkerStep, vars, data, store, Assign, Revoked, Start, Crash,
           RequestStop, Shutdown, Poll, ExitOnError, WriteRaw, WriteLive,
           WriteRefused, WriteTransient, Retry, RetryInterrupted, PublishDlq,
           PublishDlqFails, DlqRefused, Commit, CommitFails
<1>3. QED
  BY <1>1, <1>2, Inductive, PTL DEF Spec, ImplementsPromise, Promise!Spec
=============================================================================
