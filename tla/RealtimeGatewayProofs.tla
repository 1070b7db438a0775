------------------------ MODULE RealtimeGatewayProofs ------------------------
(***************************************************************************)
(* Proofs about RealtimeGateway for every set of sockets, every batch size *)
(* and every bound: the commit never runs ahead of the broadcast, a        *)
(* session skips nothing that is not published, a registered socket misses *)
(* nothing, and the gateway implements AtLeastOnce.                        *)
(***************************************************************************)
EXTENDS RealtimeGateway, TLAPS

\* The message at offset o needs no broadcast any more.
Covered(o) ==
    \/ o < base
    \/ Msg(o) = "broken"
    \/ Msg(o) = "event" /\ o \in published

\* Whatever lies below n is covered or waits in the pending batch.
Below(n) == \A o \in Offset(n) : Covered(o) \/ o \in ToSet(pending)

\* The pending batch: nothing below one of its offsets is missing, none of its
\* messages is without value, and one of its offsets is the highest.
PendingInv ==
    /\ \A p \in ToSet(pending) : Below(p) /\ Msg(p) \in {"event", "broken"}
    /\ pending # << >> =>
          \E h \in ToSet(pending) : \A p \in ToSet(pending) : p <= h

\* What the place of the gateway task says of its batch.
PcInv ==
    /\ pc \in {"down", "connecting", "waiting", "ended"} => pending = << >>
    /\ pc = "polling" => Len(pending) < BatchMax
    /\ pc = "broadcasting" => batch = PublicEvents
    /\ pc = "committing" => \A p \in ToSet(pending) : Covered(p)
    /\ pc # "broadcasting" => batch = {} /\ sending = {} /\ failed = {}

\* A registered open socket has all of what was published since it joined, and the
\* running batch too unless its send is under way or has failed.
SocketInv ==
    /\ since \in [Socket -> SUBSET Nat] /\ received \in [Socket -> SUBSET Nat]
    /\ \A s \in conns \cap open :
          /\ published \ since[s] \subseteq received[s]
          /\ s \notin sending \cup failed => batch \ since[s] \subseteq received[s]

IInv ==
    /\ TypeOK /\ PcInv /\ PendingInv /\ Below(position)
    /\ CommitCoversPublished /\ SocketInv

USE GatewayBounds

-----------------------------------------------------------------------------
(* The set of the elements of a sequence.                                  *)

\* Appending adds one element.
LEMMA SetOfAppend ==
    ASSUME NEW S, NEW s \in Seq(S), NEW x \in S
    PROVE  ToSet(Append(s, x)) = ToSet(s) \cup {x}
<1> DEFINE t == Append(s, x)
<1>1. t \in Seq(S) /\ Len(t) = Len(s) + 1 /\ Len(s) \in Nat
  OBVIOUS
<1>2. DOMAIN s = 1 .. Len(s) /\ DOMAIN t = 1 .. Len(s) + 1
  BY <1>1
<1>3. t[Len(s) + 1] = x /\ \A i \in 1 .. Len(s) : t[i] = s[i]
  BY <1>1
<1>4. \A i \in DOMAIN t : i \in DOMAIN s \/ i = Len(s) + 1
  BY <1>1, <1>2
<1>5. Len(s) + 1 \in DOMAIN t /\ \A i \in DOMAIN s : i \in DOMAIN t
  BY <1>1, <1>2
<1> HIDE DEF t
<1>6. \A y : y \in ToSet(t) <=> y \in ToSet(s) \cup {x}
  BY <1>2, <1>3, <1>4, <1>5 DEF ToSet
<1>7. QED
  BY <1>6 DEF t

\* The empty sequence has none.
LEMMA SetOfEmpty == ToSet(<< >>) = {}
BY DEF ToSet

\* Any other has some, of the sequence's type.
LEMMA SetOfOthers ==
    ASSUME NEW S, NEW s \in Seq(S)
    PROVE  /\ ToSet(s) \subseteq S
           /\ s # << >> => ToSet(s) # {}
<1>1. DOMAIN s = 1 .. Len(s) /\ \A i \in 1 .. Len(s) : s[i] \in S
  OBVIOUS
<1>2. s # << >> => 1 \in DOMAIN s
  BY <1>1
<1>3. QED
  BY <1>1, <1>2 DEF ToSet

\* A sequence over a set is one over each larger set.
LEMMA Wider ==
    ASSUME NEW S, NEW T, NEW s \in Seq(S), S \subseteq T
    PROVE  s \in Seq(T)
OBVIOUS

-----------------------------------------------------------------------------
(* Single steps.                                                           *)

\* The pending offsets are offsets of the log.
LEMMA PendingOffsets ==
    ASSUME TypeOK
    PROVE  /\ ToSet(pending) \subseteq Offset(Len(log))
           /\ Offset(Len(log)) \subseteq Nat
           /\ Len(log) \in Nat
           /\ \A o \in Offset(Len(log)) : Msg(o) \in Kind
<1>1. Len(log) \in Nat /\ \A i \in 1 .. Len(log) : log[i] \in Kind
  BY DEF TypeOK
<1>2. \A o \in Offset(Len(log)) : o + 1 \in 1 .. Len(log)
  BY <1>1 DEF Offset
<1>3. QED
  BY <1>1, <1>2, SetOfOthers DEF TypeOK, Offset, Msg

\* What is committed is the last offset of the batch + 1.
LEMMA HighestPending ==
    ASSUME TypeOK, PendingInv, pending # << >>
    PROVE  /\ Highest \in ToSet(pending)
           /\ \A p \in ToSet(pending) : p <= Highest
           /\ Highest \in Nat
           /\ Highest + 1 \in 0 .. Len(log)
<1>1. /\ Highest \in ToSet(pending)
      /\ \A p \in ToSet(pending) : p <= Highest
  BY DEF PendingInv, Highest
<1>2. Highest \in 0 .. Len(log) - 1 /\ Len(log) \in Nat
  BY <1>1, PendingOffsets DEF Offset
<1>3. QED
  BY <1>1, <1>2

\* Types of the log after one more message.
LEMMA ProduceType ==
    ASSUME TypeOK, Produce
    PROVE  /\ log' \in Seq(Kind)
           /\ Len(log') = Len(log) + 1
           /\ Len(log') <= MaxLog
           /\ \A o \in Offset(Len(log)) : Msg(o)' = Msg(o)
<1>1. PICK k \in Kind : log' = Append(log, k)
  BY DEF Produce
<1>2. /\ log' \in Seq(Kind) /\ Len(log') = Len(log) + 1 /\ Len(log) \in Nat
      /\ \A i \in 1 .. Len(log) : log'[i] = log[i]
  BY <1>1 DEF TypeOK
<1>3. \A o \in Offset(Len(log)) : o + 1 \in 1 .. Len(log)
  BY <1>2 DEF Offset
<1>4. QED
  BY <1>2, <1>3 DEF Produce, Msg, TypeOK

\* Every step of the gateway, of a socket and of Kafka keeps the types.
LEMMA TypeStep ==
    ASSUME TypeOK, PcInv, PendingInv, [Next]_vars PROVE TypeOK'
<1> USE DEF TypeOK, NoOffset
<1>0. CASE UNCHANGED vars
  BY <1>0 DEF vars, wsVars, gwVars
<1>1. CASE Produce
  <2>1. /\ log' \in Seq(Kind) /\ Len(log') = Len(log) + 1 /\ Len(log') <= MaxLog
        /\ Len(log) \in Nat
    BY <1>1, ProduceType
  <2>2. Offset(Len(log)) \subseteq Offset(Len(log'))
    BY <2>1 DEF Offset
  <2>3. pending' \in Seq(Offset(Len(log')))
    BY <2>2, <1>1, Wider DEF Produce
  <2>4. QED
    BY <2>1, <2>2, <2>3, <1>1 DEF Produce, wsVars
<1>e. << >> \in Seq(Offset(Len(log))) /\ Len(<< >>) = 0 /\ 0 \in 0 .. Len(log)
  OBVIOUS
<1>p. StartPosition =>
        position' \in 0 .. Len(log) \cup {NoOffset} /\ base' \in 0 .. Len(log)
  BY DEF StartPosition
<1>f. Fault \/ NoFault => faults' \in 0 .. MaxFaults
  BY DEF Fault, NoFault
<1>2. CASE StartBackend
  BY <1>2 DEF StartBackend, wsVars
<1>3. CASE OpenSession
  BY <1>3 DEF OpenSession, wsVars
<1>4. CASE Assign
  BY <1>4, <1>p DEF Assign, wsVars
<1>5. CASE Reassign
  BY <1>5, <1>p, <1>f DEF Reassign, wsVars
<1>6. CASE WaitOver
  BY <1>6 DEF WaitOver, wsVars
<1>7. CASE SessionFails
  BY <1>7, <1>e, <1>f DEF SessionFails, EndSession, wsVars
<1>8. CASE PollMessage
  <2>1. position \in Offset(Len(log)) /\ Len(pending) < BatchMax /\ Len(pending) \in Nat
    BY <1>8 DEF PollMessage, PcInv
  <2>2. /\ pending' \in Seq(Offset(Len(log))) /\ Len(pending') = Len(pending) + 1
        /\ pending' # << >>
    BY <2>1, <1>8 DEF PollMessage
  <2>3. position' \in 0 .. Len(log)
    BY <2>1, <1>8 DEF PollMessage, Offset
  <2>4. QED
    BY <2>1, <2>2, <2>3, <1>8 DEF PollMessage, wsVars
<1>9. CASE PollNull
  BY <1>9, <1>e DEF PollNull, EndSession, wsVars
<1>10. CASE PollNothing
  BY <1>10 DEF PollNothing, wsVars
<1>11. CASE StopLoop
  BY <1>11, <1>e DEF StopLoop, EndSession, wsVars
<1>12. CASE Flush
  <2>1. PublicEvents \subseteq Offset(Len(log))
    BY PendingOffsets DEF PublicEvents
  <2>2. QED
    BY <2>1, <1>12 DEF Flush, BeginBroadcast, wsVars
<1>13. CASE BroadcastDone
  BY <1>13 DEF BroadcastDone, EndBroadcast
<1>14. CASE Commit
  BY <1>14, <1>e, HighestPending DEF Commit, CommitHighest, wsVars
<1>15. CASE CommitFails
  <2>1. {o \in ToSet(pending) : o >= committed} \subseteq Offset(Len(log))
    BY PendingOffsets
  <2>2. pending # << >>
    BY <1>15 DEF CommitFails
  <2>3. Highest + 1 \in 0 .. Len(log)
    BY <2>2, HighestPending
  <2>4. committed' \in 0 .. Len(log) \cup {NoOffset} /\ refused' \subseteq Offset(Len(log))
    BY <2>1, <2>3, <1>15 DEF CommitFails, CommitHighest
  <2>5. QED
    BY <2>4, <1>15, <1>e, <1>f DEF CommitFails, EndSession, wsVars
<1>16. CASE RequestStop
  BY <1>16, <1>f DEF RequestStop, wsVars
<1>17. CASE BackendDown
  <2>1. committed' \in 0 .. Len(log) \cup {NoOffset} /\ refused' \subseteq Offset(Len(log))
    BY <1>17, HighestPending DEF BackendDown, CommitHighest
  <2>2. faults' \in 0 .. MaxFaults
    BY <1>17, <1>f DEF BackendDown
  <2>3. QED
    BY <2>1, <2>2, <1>17, <1>e DEF BackendDown, DropBroadcast, EndSession
<1>18. ASSUME NEW s \in Socket, SocketStep(s) PROVE TypeOK'
  <2>1. /\ open' \subseteq Socket /\ joining' \subseteq Socket /\ conns' \subseteq Socket
        /\ sending' \subseteq Socket /\ failed' \subseteq Socket
        /\ UNCHANGED <<batch, published>>
    BY <1>18 DEF SocketStep, Accept, Register, Close, Disconnect, SendOk, SendFails
  <2>2. faults' \in 0 .. MaxFaults
    BY <1>18, <1>f
       DEF SocketStep, Accept, Register, Close, Disconnect, SendOk, SendFails, NoFault
  <2>3. QED
    BY <2>1, <2>2, <1>18 DEF SocketStep, gwVars
<1>19. QED
  BY <1>0, <1>1, <1>2, <1>3, <1>4, <1>5, <1>6, <1>7, <1>8, <1>9, <1>10, <1>11,
     <1>12, <1>13, <1>14, <1>15, <1>16, <1>17, <1>18
     DEF Next, GatewayStep

\* No step takes back a message, a broadcast, or a jump to the end.
LEMMA Grows ==
    ASSUME TypeOK, [Next]_vars
    PROVE  /\ Len(log) <= Len(log')
           /\ base <= base'
           /\ published \subseteq published'
           /\ \A o \in Offset(Len(log)) : Msg(o)' = Msg(o)
<1>0. Len(log) \in Nat /\ base \in 0 .. Len(log)
  BY DEF TypeOK
<1>1. CASE Produce
  <2>1. UNCHANGED <<base, published>>
    BY <1>1 DEF Produce, wsVars
  <2>2. QED
    BY <2>1, <1>0, <1>1, ProduceType
<1>2. CASE log' = log
  <2>1. \A o : Msg(o)' = Msg(o)
    BY <1>2 DEF Msg
  <2>2. published \subseteq published'
    BY DEF Next, GatewayStep, vars, wsVars, Produce, StartBackend, OpenSession, Assign,
       WaitOver, PollMessage, PollNull, PollNothing, StopLoop, Flush, BeginBroadcast,
       BroadcastDone, EndBroadcast, Commit, Reassign, SessionFails, CommitFails,
       RequestStop, BackendDown, DropBroadcast, SocketStep, Accept, Register, Close,
       Disconnect, SendOk, SendFails
  <2>3. base' = base \/ base' = Len(log)
    BY DEF Next, GatewayStep, vars, gwVars, Produce, StartBackend, OpenSession, Assign,
       WaitOver, PollMessage, PollNull, PollNothing, StopLoop, Flush, BroadcastDone,
       Commit, Reassign, StartPosition, SessionFails, CommitFails, RequestStop,
       BackendDown, SocketStep
  <2>4. QED
    BY <1>0, <1>2, <2>1, <2>2, <2>3
<1>3. QED
  BY <1>1, <1>2
     DEF Next, GatewayStep, vars, gwVars, StartBackend, OpenSession, Assign, WaitOver,
         PollMessage, PollNull, PollNothing, StopLoop, Flush, BroadcastDone, Commit,
         Reassign, SessionFails, CommitFails, RequestStop, BackendDown, SocketStep

\* So what is covered stays covered.
LEMMA CoveredStays ==
    ASSUME TypeOK, TypeOK', [Next]_vars, NEW o \in Offset(Len(log)), Covered(o)
    PROVE  Covered(o)'
<1>1. Msg(o)' = Msg(o)
  BY Grows
<1>2. o < base => o < base'
  <2>1. base <= base'
    BY Grows
  <2>2. base \in Nat /\ base' \in Nat /\ o \in Nat
    BY DEF TypeOK, Offset
  <2>3. QED
    BY <2>1, <2>2
<1>3. o \in published => o \in published'
  BY Grows
<1>4. QED
  BY <1>1, <1>2, <1>3 DEF Covered

\* The three places that commit store the highest offset of a batch whose
\* broadcast is over: everything below it is covered.
LEMMA CommitIsCovered ==
    ASSUME TypeOK, PcInv, PendingInv, pc = "committing"
    PROVE  \A o \in Offset(Highest + 1) : o \in Offset(Len(log)) /\ Covered(o)
<1>1. pending # << >>
  BY DEF TypeOK
<1>2. Highest \in ToSet(pending) /\ Highest \in Nat /\ Highest + 1 \in 0 .. Len(log)
  BY <1>1, HighestPending
<1>3. \A p \in ToSet(pending) : Covered(p)
  BY DEF PcInv
<1>4. Below(Highest)
  BY <1>2 DEF PendingInv
<1> SUFFICES ASSUME NEW o \in Offset(Highest + 1)
             PROVE  o \in Offset(Len(log)) /\ Covered(o)
  OBVIOUS
<1>5. Len(log) \in Nat
  BY DEF TypeOK
<1>6. o \in Offset(Len(log))
  BY <1>2, <1>5 DEF Offset
<1>7. o = Highest \/ o \in Offset(Highest)
  BY <1>2 DEF Offset
<1>8. QED
  BY <1>2, <1>3, <1>4, <1>6, <1>7 DEF Below

LEMMA CommitStep ==
    ASSUME TypeOK, TypeOK', PcInv, PendingInv, CommitCoversPublished, [Next]_vars
    PROVE  CommitCoversPublished'
<1>1. Len(log) \in Nat /\ committed \in 0 .. Len(log) \cup {-1}
  BY DEF TypeOK, NoOffset
<1>2. CASE committed' = committed
  <2>1. \A o \in Offset(committed') : o \in Offset(Len(log)) /\ Covered(o)
    BY <1>1, <1>2 DEF CommitCoversPublished, Covered, Offset
  <2>2. \A o \in Offset(committed') : Covered(o)'
    BY <2>1, CoveredStays
  <2>3. QED
    BY <2>2 DEF CommitCoversPublished, Covered
<1>3. CASE pc = "committing" /\ committed' = Highest + 1
  <2>1. \A o \in Offset(committed') : o \in Offset(Len(log)) /\ Covered(o)
    BY <1>3, CommitIsCovered
  <2>2. \A o \in Offset(committed') : Covered(o)'
    BY <2>1, CoveredStays
  <2>3. QED
    BY <2>2 DEF CommitCoversPublished, Covered
<1>4. QED
  BY <1>2, <1>3
     DEF Next, GatewayStep, vars, gwVars, Produce, StartBackend, OpenSession, Assign,
         WaitOver, PollMessage, PollNull, PollNothing, StopLoop, Flush, BroadcastDone,
         Commit, CommitHighest, Reassign, SessionFails, CommitFails, RequestStop,
         BackendDown, SocketStep

\* An unchanged batch keeps what is known of it and of the offsets below n.
LEMMA SameBatch ==
    ASSUME TypeOK, TypeOK', PendingInv, [Next]_vars, pending' = pending
    PROVE  /\ PendingInv'
           /\ \A n \in 0 .. Len(log) : Below(n) => Below(n)'
<1>1. ToSet(pending)' = ToSet(pending)
  OBVIOUS
<1>2. ASSUME NEW n \in 0 .. Len(log), Below(n) PROVE Below(n)'
  <2>1. \A o \in Offset(n) : o \in Offset(Len(log))
    BY DEF TypeOK, Offset
  <2>2. \A o \in Offset(n) : Covered(o)' \/ o \in ToSet(pending)
    BY <1>2, <2>1, CoveredStays DEF Below
  <2>3. QED
    BY <1>1, <2>2 DEF Below
<1>3. \A p \in ToSet(pending) : p \in 0 .. Len(log) /\ Msg(p)' = Msg(p)
  BY PendingOffsets, Grows DEF Offset
<1>4. \A p \in ToSet(pending) : Below(p)' /\ Msg(p)' \in {"event", "broken"}
  BY <1>2, <1>3 DEF PendingInv
<1>5. QED
  BY <1>1, <1>2, <1>4 DEF PendingInv

\* So does an empty one.
LEMMA EmptyBatch ==
    ASSUME pending' = << >> PROVE PendingInv'
BY SetOfEmpty DEF PendingInv

\* Where a session starts, everything below is covered.
LEMMA StartCovers ==
    ASSUME TypeOK, TypeOK', CommitCoversPublished, [Next]_vars, StartPosition,
           committed' = committed, log' = log, published' = published
    PROVE  Below(position)'
<1>1. CASE committed = NoOffset
  <2>1. position' = Len(log) /\ base' = Len(log) /\ Len(log) \in Nat
    BY <1>1 DEF StartPosition, TypeOK
  <2>2. \A o \in Offset(Len(log)) : o < Len(log)
    BY <2>1 DEF Offset
  <2>3. QED
    BY <2>1, <2>2 DEF Below, Covered
<1>2. CASE committed # NoOffset
  <2>1. \A o \in Offset(position') : o \in Offset(committed) /\ o \in Offset(Len(log))
    BY <1>2 DEF StartPosition, TypeOK, Offset
  <2>2. \A o \in Offset(position') : Covered(o)'
    BY <2>1, CoveredStays DEF CommitCoversPublished, Covered
  <2>3. QED
    BY <2>2 DEF Below
<1>3. QED
  BY <1>1, <1>2

\* No step leaves a gap below the position or below a pending offset.
LEMMA QueueStep ==
    ASSUME TypeOK, TypeOK', PcInv, PendingInv, Below(position), CommitCoversPublished,
           [Next]_vars
    PROVE  PendingInv' /\ Below(position)'
<1>e. Offset(NoOffset) = {}
  BY DEF Offset, NoOffset
<1>0. /\ Len(log) \in Nat /\ position \in 0 .. Len(log) \cup {NoOffset}
      /\ position' = NoOffset => Below(position)'
  BY <1>e DEF TypeOK, Below
<1>1. CASE pending' = pending /\ position' = position
  BY <1>0, <1>1, SameBatch
<1>2. CASE EndSession
  BY <1>0, <1>2, EmptyBatch DEF EndSession
<1>3. CASE Assign \/ Reassign
  <2>1. StartPosition /\ UNCHANGED <<pending, committed, log, published>>
    BY <1>3 DEF Assign, Reassign, wsVars
  <2>2. QED
    BY <2>1, SameBatch, StartCovers
<1>4. CASE PollMessage
  <2>1. /\ position \in Offset(Len(log)) /\ Msg(position) # "null"
        /\ position' = position + 1 /\ pending' = Append(pending, position)
        /\ log' = log /\ base' = base /\ published' = published
    BY <1>4 DEF PollMessage, wsVars
  <2>2. ToSet(pending') = ToSet(pending) \cup {position}
    BY <2>1, SetOfAppend DEF TypeOK
  <2>3. \A o : Covered(o)' = Covered(o) /\ Msg(o)' = Msg(o)
    BY <2>1 DEF Covered, Msg
  <2>4. \A n : Below(n) => Below(n)'
    BY <2>2, <2>3 DEF Below
  <2>5. Below(position)'
    <3>1. \A o \in Offset(position + 1) : o \in Offset(position) \/ o = position
      BY <2>1 DEF Offset
    <3>2. QED
      BY <2>1, <2>2, <2>3, <3>1 DEF Below
  <2>6. Msg(position) \in {"event", "broken"}
    BY <2>1, PendingOffsets DEF Kind
  <2>7. \A p \in ToSet(pending') : Below(p)' /\ Msg(p)' \in {"event", "broken"}
    BY <2>2, <2>3, <2>4, <2>6 DEF PendingInv
  <2>8. \E h \in ToSet(pending') : \A p \in ToSet(pending') : p <= h
    <3>0. \A p \in ToSet(pending') : p \in Nat
      BY <2>1, <2>2, PendingOffsets
    <3>1. CASE pending = << >>
      <4>1. ToSet(pending') = {position}
        BY <2>2, <3>1, SetOfEmpty
      <4>2. QED
        BY <4>1, <3>0
    <3>2. CASE pending # << >>
      <4>1. PICK h \in ToSet(pending) : \A p \in ToSet(pending) : p <= h
        BY <3>2 DEF PendingInv
      <4>2. h \in Nat /\ position \in Nat
        BY <2>2, <3>0
      <4>3. CASE position <= h
        BY <2>2, <4>1, <4>3
      <4>4. CASE h < position
        <5>1. \A p \in ToSet(pending) : p <= position
          BY <2>2, <3>0, <4>1, <4>2, <4>4
        <5>2. \A p \in ToSet(pending') : p <= position
          BY <2>2, <4>2, <5>1
        <5>3. QED
          BY <2>2, <5>2
      <4>5. QED
        BY <4>2, <4>3, <4>4
    <3>3. QED
      BY <3>1, <3>2
  <2>9. QED
    BY <2>5, <2>7, <2>8 DEF PendingInv
<1>5. CASE Commit
  <2>1. pending' = << >> /\ position' = position
    BY <1>5 DEF Commit
  <2>2. \A o \in Offset(position) : Covered(o) /\ o \in Offset(Len(log))
    BY <1>0, <1>5 DEF Commit, PcInv, Below, Offset, NoOffset
  <2>3. \A o \in Offset(position) : Covered(o)'
    BY <2>2, CoveredStays
  <2>4. QED
    BY <2>1, <2>3, EmptyBatch DEF Below
<1>6. QED
  BY <1>1, <1>2, <1>3, <1>4, <1>5
     DEF Next, GatewayStep, vars, gwVars, Produce, StartBackend, OpenSession, WaitOver,
         PollNull, PollNothing, StopLoop, Flush, BroadcastDone, SessionFails,
         CommitFails, RequestStop, BackendDown, SocketStep

\* While the batch is the same, so are its public events.
LEMMA SameEvents ==
    ASSUME TypeOK, [Next]_vars, pending' = pending
    PROVE  PublicEvents' = PublicEvents
<1>1. \A p \in ToSet(pending) : Msg(p)' = Msg(p)
  BY PendingOffsets, Grows
<1>2. ToSet(pending)' = ToSet(pending)
  OBVIOUS
<1>3. QED
  BY <1>1, <1>2 DEF PublicEvents

\* The task is never anywhere with a batch it should not have there.
LEMMA PcStep ==
    ASSUME TypeOK, TypeOK', PcInv, PendingInv, [Next]_vars PROVE PcInv'
<1> USE DEF PcInv
<1>c. ASSUME pending' = pending, pc = "committing" PROVE \A p \in ToSet(pending') : Covered(p)'
  BY <1>c, PendingOffsets, CoveredStays
<1>e. ASSUME pending' = << >>, pc' # "broadcasting", batch' = {}, sending' = {}, failed' = {}
      PROVE  PcInv'
  <2>1. Len(pending') = 0 /\ ToSet(pending') = {}
    BY <1>e, SetOfEmpty
  <2>2. QED
    BY <1>e, <2>1
<1>k. ASSUME pc' = pc, pending' = pending, UNCHANGED <<batch, sending, failed>> PROVE PcInv'
  BY <1>k, <1>c, SameEvents
<1>1. CASE \/ UNCHANGED vars \/ Produce \/ Assign \/ Reassign \/ RequestStop
  BY <1>1, <1>k
     DEF vars, wsVars, gwVars, Produce, Assign, Reassign, RequestStop
<1>2. CASE StartBackend \/ OpenSession \/ WaitOver
  BY <1>2, <1>e DEF StartBackend, OpenSession, WaitOver, wsVars
<1>3. CASE PollMessage
  <2>1. pc' = "polling" => Len(pending') < BatchMax
    BY <1>3 DEF PollMessage, TypeOK
  <2>2. QED
    BY <1>3, <2>1 DEF PollMessage, wsVars
<1>4. CASE PollNothing
  BY <1>4 DEF PollNothing, wsVars
<1>5. CASE PollNull \/ SessionFails
  <2>1. pending' = << >> /\ UNCHANGED <<batch, sending, failed>>
    BY <1>5 DEF PollNull, SessionFails, EndSession, wsVars
  <2>2. QED
    BY <2>1, <1>5, <1>e DEF PollNull, SessionFails
<1>6. CASE StopLoop
  <2>1. CASE pending = << >>
    BY <2>1, <1>6, <1>e DEF StopLoop, EndSession, wsVars
  <2>2. CASE pending # << >>
    BY <2>2, <1>6 DEF StopLoop, wsVars
  <2>3. QED
    BY <2>1, <2>2
<1>7. CASE Flush
  <2>0. pending' = pending /\ log' = log /\ base' = base /\ published' = published
    BY <1>7 DEF Flush, BeginBroadcast, wsVars
  <2>1. CASE PublicEvents = {}
    <3>1. \A p \in ToSet(pending) : Msg(p) = "broken"
      BY <2>1 DEF PendingInv, PublicEvents
    <3>2. \A p \in ToSet(pending') : Covered(p)'
      BY <2>0, <3>1 DEF Covered, Msg
    <3>3. QED
      BY <3>2, <2>1, <1>7 DEF Flush, wsVars
  <2>2. CASE PublicEvents # {}
    <3>1. PublicEvents' = PublicEvents
      BY <2>0, SameEvents
    <3>2. pc' = "broadcasting" /\ batch' = PublicEvents
      BY <2>2, <1>7 DEF Flush, BeginBroadcast
    <3>3. QED
      BY <3>1, <3>2
  <2>3. QED
    BY <2>1, <2>2
<1>8. CASE BroadcastDone
  <2>1. /\ pending' = pending /\ log' = log /\ published' = published \cup PublicEvents
        /\ pc' = "committing" /\ batch' = {} /\ sending' = {} /\ failed' = {}
    BY <1>8 DEF BroadcastDone, EndBroadcast
  <2>2. \A p \in ToSet(pending') : Covered(p)'
    BY <2>1 DEF PendingInv, PublicEvents, Covered, Msg
  <2>3. QED
    BY <2>1, <2>2
<1>9. CASE Commit
  <2>1. Len(pending') = 0 /\ pending' = << >>
    BY <1>9 DEF Commit
  <2>2. QED
    BY <2>1, <1>9 DEF Commit, wsVars
<1>10. CASE CommitFails
  BY <1>10, <1>e DEF CommitFails, EndSession, wsVars
<1>11. CASE BackendDown
  BY <1>11, <1>e DEF BackendDown, EndSession, DropBroadcast
<1>12. ASSUME NEW s \in Socket, SocketStep(s) PROVE PcInv'
  <2>1. /\ pc' = pc /\ pending' = pending /\ batch' = batch
    BY <1>12
       DEF SocketStep, gwVars, Accept, Register, Close, Disconnect, SendOk, SendFails
  <2>2. PublicEvents' = PublicEvents
    BY <2>1, SameEvents
  <2>3. CASE UNCHANGED <<sending, failed>>
    BY <2>1, <2>3, <1>k
  <2>4. CASE SendOk(s) \/ SendFails(s)
    <3>1. s \in sending
      BY <2>4 DEF SendOk, SendFails
    <3>2. pc' = "broadcasting"
      BY <3>1, <2>1
    <3>3. QED
      BY <2>1, <2>2, <3>2
  <2>5. QED
    BY <2>3, <2>4, <1>12 DEF SocketStep, Accept, Register, Close, Disconnect
<1>13. QED
  BY <1>1, <1>2, <1>3, <1>4, <1>5, <1>6, <1>7, <1>8, <1>9, <1>10, <1>11, <1>12
     DEF Next, GatewayStep

\* No step lets a registered socket fall behind.
LEMMA SocketsStep ==
    ASSUME TypeOK, PcInv, SocketInv, [Next]_vars PROVE SocketInv'
<1> USE DEF SocketInv
<1>0. published \cup batch \subseteq Nat
  BY PendingOffsets DEF TypeOK
<1>k. CASE UNCHANGED <<conns, open, sending, failed, batch, published, since, received>>
  BY <1>k
<1>1. CASE Flush
  <2>1. batch = {} /\ sending = {} /\ failed = {}
    BY <1>1 DEF Flush, PcInv
  <2>2. QED
    BY <2>1, <1>1 DEF Flush, BeginBroadcast, wsVars
<1>2. CASE BroadcastDone
  BY <1>2 DEF BroadcastDone, EndBroadcast
<1>3. CASE BackendDown
  BY <1>3 DEF BackendDown, DropBroadcast
<1>4. ASSUME NEW s \in Socket, SocketStep(s) PROVE SocketInv'
  <2>1. CASE Accept(s) \/ Close(s)
    <3>1. /\ conns' \cap open' \subseteq conns \cap open
          /\ UNCHANGED <<sending, failed, batch, published, since, received>>
      BY <2>1 DEF Accept, Close
    <3>2. QED
      BY <3>1
  <2>2. CASE Disconnect(s)
    BY <2>2 DEF Disconnect
  <2>3. CASE Register(s)
    <3>1. /\ since' = [since EXCEPT ![s] = published \cup batch]
          /\ received' = [received EXCEPT ![s] = {}]
          /\ conns' = conns \cup {s}
          /\ UNCHANGED <<open, sending, failed, batch, published>>
      BY <2>3 DEF Register
    <3>2. since' \in [Socket -> SUBSET Nat] /\ received' \in [Socket -> SUBSET Nat]
      BY <3>1, <1>0
    <3>3. since'[s] = published \cup batch
      BY <3>1
    <3>4. \A t \in conns : t # s => since'[t] = since[t] /\ received'[t] = received[t]
      BY <3>1 DEF TypeOK
    <3>5. QED
      BY <3>1, <3>2, <3>3, <3>4
  <2>4. CASE SendOk(s)
    <3>1. /\ sending' = sending \ {s}
          /\ received' = IF s \in open
                            THEN [received EXCEPT ![s] = received[s] \cup batch]
                            ELSE received
          /\ UNCHANGED <<conns, open, failed, batch, published, since>>
      BY <2>4 DEF SendOk
    <3>2. /\ received' \in [Socket -> SUBSET Nat]
          /\ s \in open => received'[s] = received[s] \cup batch
      BY <3>1, <1>0
    <3>3. \A t \in conns : t # s => received'[t] = received[t]
      BY <3>1 DEF TypeOK
    <3>4. QED
      BY <3>1, <3>2, <3>3
  <2>5. CASE SendFails(s)
    <3>1. /\ sending' \cup failed' = sending \cup failed \cup {s}
          /\ received' \in {received, [received EXCEPT ![s] = received[s] \cup batch]}
          /\ UNCHANGED <<conns, open, batch, published, since>>
      BY <2>5 DEF SendFails
    <3>2. received' \in [Socket -> SUBSET Nat] /\ \A t \in Socket : received[t] \subseteq received'[t]
      BY <3>1, <1>0
    <3>3. \A t : t \notin sending' \cup failed' => t \notin sending \cup failed
      BY <3>1
    <3>4. \A t \in conns : t \in Socket
      BY DEF TypeOK
    <3>5. ASSUME NEW t \in conns' \cap open'
          PROVE  /\ published' \ since'[t] \subseteq received'[t]
                 /\ t \notin sending' \cup failed' => batch' \ since'[t] \subseteq received'[t]
      BY <3>1, <3>2, <3>3, <3>4, <3>5
    <3>6. QED
      BY <3>1, <3>2, <3>5
  <2>6. QED
    BY <2>1, <2>2, <2>3, <2>4, <2>5, <1>4 DEF SocketStep
<1>5. QED
  BY <1>k, <1>1, <1>2, <1>3, <1>4
     DEF Next, GatewayStep, vars, wsVars, Produce, StartBackend, OpenSession, Assign,
         WaitOver, PollMessage, PollNull, PollNothing, StopLoop, Commit, Reassign,
         SessionFails, CommitFails, RequestStop

-----------------------------------------------------------------------------
(* The theorems.                                                           *)

LEMMA Initially == Init => IInv
<1> SUFFICES ASSUME Init PROVE IInv
  OBVIOUS
<1> USE DEF Init, WsInit
<1>1. ToSet(pending) = {} /\ Len(pending) = 0 /\ Len(log) = 0
  BY SetOfEmpty
<1>2. Offset(position) = {} /\ Offset(committed) = {}
  BY DEF Offset, NoOffset
<1>3. TypeOK
  <2>1. log \in Seq(Kind) /\ pending \in Seq(Offset(Len(log)))
    OBVIOUS
  <2>2. 0 \in 0 .. Len(log) /\ 0 \in 0 .. MaxFaults /\ 0 <= MaxLog /\ 0 <= BatchMax
    BY <1>1
  <2>3. QED
    BY <1>1, <2>1, <2>2 DEF TypeOK, NoOffset
<1>4. PcInv /\ PendingInv /\ SocketInv
  BY <1>1 DEF PcInv, PendingInv, SocketInv
<1>5. Below(position) /\ CommitCoversPublished
  BY <1>2 DEF Below, CommitCoversPublished
<1>6. QED
  BY <1>3, <1>4, <1>5 DEF IInv

\* The inductive invariant: below the position and below every pending offset
\* everything is published or pending, and a commit comes when nothing is pending
\* that is not published (_flush_due_batch).
THEOREM Inductive == Spec => []IInv
<1>1. IInv /\ [Next]_vars => IInv'
  <2> SUFFICES ASSUME IInv, [Next]_vars PROVE IInv'
    OBVIOUS
  <2>1. TypeOK'
    BY TypeStep DEF IInv
  <2>2. PcInv' /\ PendingInv' /\ Below(position)' /\ CommitCoversPublished' /\ SocketInv'
    BY <2>1, PcStep, QueueStep, CommitStep, SocketsStep DEF IInv
  <2>3. QED
    BY <2>1, <2>2 DEF IInv
<1>2. QED
  BY Initially, <1>1, PTL DEF Spec

\* Every variable of the gateway task and of the sockets keeps its type, the batch
\* its limit (websocket_batch_max_size).
THEOREM TypeCorrect == Spec => []TypeOK
<1>1. IInv => TypeOK
  BY DEF IInv
<1>2. QED
  BY <1>1, Inductive, PTL

\* The commit never runs ahead of the broadcast, whatever fails in between
\* (_flush_due_batch).
THEOREM NoCommitAhead == Spec => []CommitCoversPublished
<1>1. IInv => CommitCoversPublished
  BY DEF IInv
<1>2. QED
  BY <1>1, Inductive, PTL

\* A registered socket missed nothing since it joined, whatever sockets join, leave
\* or fail during a broadcast (WebSocketManager.broadcast).
THEOREM NothingMissed == Spec => []RegisteredMissNothing
<1>1. IInv => RegisteredMissNothing
  BY DEF IInv, SocketInv, RegisteredMissNothing
<1>2. QED
  BY <1>1, Inductive, PTL

\* Once anything was committed, a new session starts at or before every event that
\* is not published (_consume_session).
THEOREM SkipsNothing == Spec => StartSkipsNothing
<1> DEFINE Skips == /\ position' # NoOffset /\ position = NoOffset
                    /\ committed # NoOffset
                    /\ ~ \A o \in Offset(Len(log)) :
                            Msg(o) = "event" /\ o \notin published
                               => o < base \/ position' <= o
<1>1. IInv /\ [Next]_vars => ~Skips
  <2> SUFFICES ASSUME IInv, [Next]_vars, position' # NoOffset, position = NoOffset,
                      committed # NoOffset, NEW o \in Offset(Len(log)),
                      Msg(o) = "event", o \notin published
               PROVE  o < base \/ position' <= o
    OBVIOUS
  <2>1. Assign
    <3>1. position \notin Offset(Len(log))
      BY DEF Offset, NoOffset, IInv, TypeOK
    <3>2. QED
      BY <3>1
         DEF Next, GatewayStep, vars, gwVars, Produce, StartBackend, OpenSession,
             WaitOver, PollMessage, PollNull, PollNothing, StopLoop, Flush,
             BroadcastDone, Commit, Reassign, SessionFails, EndSession, CommitFails,
             RequestStop, BackendDown, SocketStep
  <2>2. position' = committed
    BY <2>1 DEF Assign, StartPosition
  <2>3. o \in Offset(committed) => o < base
    BY DEF IInv, CommitCoversPublished
  <2>4. o \in Nat /\ committed \in Nat
    BY DEF IInv, TypeOK, Offset, NoOffset
  <2>5. o \in Offset(committed) \/ committed <= o
    BY <2>4 DEF Offset
  <2>6. QED
    BY <2>2, <2>3, <2>5
<1>2. IInv /\ [Next]_vars =>
        [position' # NoOffset /\ position = NoOffset /\ committed # NoOffset
            => \A o \in Offset(Len(log)) :
                  Msg(o) = "event" /\ o \notin published => o < base \/ position' <= o]_vars
  BY <1>1
<1>3. QED
  BY <1>2, Inductive, PTL DEF Spec, StartSkipsNothing

\* The gateway is a consumer group that commits by hand, as AtLeastOnce describes
\* it: what a broken message needs is nothing, what an event needs is the broadcast.
THEOREM Implements == Spec => ImplementsPromise
<1> DEFINE Effects == {o \in Offset(Len(log)) :
                          o < base \/ Msg(o) = "broken" \/ o \in published}
           Stored == IF committed = NoOffset THEN 0 ELSE committed
<1>1. Init => Promise!Init
  <2> SUFFICES ASSUME Init PROVE Promise!Init
    OBVIOUS
  <2>1. Offset(Len(log)) = {}
    BY DEF Init, Offset
  <2>2. QED
    BY <2>1 DEF Init, Promise!Init
<1>2. IInv /\ IInv' /\ [Next]_vars => [Promise!Next]_(Promise!vars)
  <2> SUFFICES ASSUME IInv, IInv', [Next]_vars PROVE [Promise!Next]_(Promise!vars)
    OBVIOUS
  <2>1. Len(log) \in Nat /\ Len(log') \in Nat /\ Len(log) <= Len(log')
    BY Grows DEF IInv, TypeOK
  <2>2. Effects \subseteq Effects'
    <3> SUFFICES ASSUME NEW o \in Offset(Len(log)),
                        o < base \/ Msg(o) = "broken" \/ o \in published
                 PROVE  o \in Effects'
      OBVIOUS
    <3>1. o \in Offset(Len(log'))
      BY <2>1 DEF Offset
    <3>2. base \in Nat /\ base' \in Nat /\ o \in Nat
      BY DEF IInv, TypeOK, Offset
    <3>3. o < base => o < base'
      BY <3>2, Grows DEF IInv
    <3>4. Msg(o)' = Msg(o) /\ published \subseteq published'
      BY Grows DEF IInv
    <3>5. QED
      BY <3>1, <3>3, <3>4
  <2>3. Effects' \subseteq 0 .. Len(log') - 1
    BY DEF Offset
  <2>4. CASE Produce
    <3>1. \E k \in Kind : log' = Append(log, k)
      BY <2>4 DEF Produce
    <3>2. Promise!AppendRecord
      BY <2>2, <2>3, <2>4, <3>1 DEF Produce, Promise!AppendRecord
    <3>3. QED
      BY <3>2 DEF Promise!Next
  <2>5. CASE UNCHANGED <<log, committed>>
    <3>1. Promise!Deliver
      BY <2>2, <2>3, <2>5 DEF Promise!Deliver
    <3>2. QED
      BY <3>1 DEF Promise!Next
  <2>6. CASE UNCHANGED <<log, base, published>>
    <3>1. Effects' = Effects
      BY <2>6 DEF Msg
    <3>2. committed' \in 0 .. Len(log) \cup {NoOffset} /\ Stored' \in 0 .. Len(log)
      BY <2>1, <2>6 DEF IInv, TypeOK
    <3>3. 0 .. Stored' - 1 \subseteq Effects
      <4> SUFFICES ASSUME NEW o \in 0 .. Stored' - 1 PROVE o \in Effects'
        BY <3>1
      <4>0. committed' # NoOffset
        <5>1. committed' = NoOffset => 0 .. Stored' - 1 = {}
          BY SMT
        <5>2. QED
          BY <5>1
      <4>1. o \in Offset(committed')
        BY <4>0 DEF Offset
      <4>2. o \in Offset(Len(log'))
        <5>1. Len(log') = Len(log) /\ committed' \in 0 .. Len(log)
          BY <2>6, <3>2, <4>0
        <5>2. ASSUME NEW n \in Nat, NEW m \in 0 .. n PROVE Offset(m) \subseteq Offset(n)
          BY DEF Offset
        <5>3. Offset(committed') \subseteq Offset(Len(log))
          BY <2>1, <5>1, <5>2
        <5>4. QED
          BY <4>1, <5>1, <5>3
      <4>3. o < base' \/ Msg(o)' = "broken" \/ o \in published'
        BY <4>1 DEF IInv, CommitCoversPublished
      <4>4. QED
        BY <4>2, <4>3
    <3>4. Promise!Commit
      BY <2>6, <3>1, <3>2, <3>3 DEF Promise!Commit
    <3>5. QED
      BY <3>4 DEF Promise!Next
  <2>7. QED
    BY <2>4, <2>5, <2>6
       DEF Next, GatewayStep, vars, wsVars, gwVars, StartBackend, OpenSession, Assign,
           WaitOver, PollMessage, PollNull, PollNothing, StopLoop, Flush, BroadcastDone,
           Commit, CommitHighest, Reassign, SessionFails, CommitFails, RequestStop,
           BackendDown, DropBroadcast, SocketStep
<1>3. QED
  BY <1>1, <1>2, Inductive, PTL DEF Spec, ImplementsPromise, Promise!Spec
=============================================================================
