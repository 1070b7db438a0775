----------------------------- MODULE AircraftFeed -----------------------------
(***************************************************************************)
(* The browser's copy of the live aircraft (useAircraftFeed.ts): a REST    *)
(* snapshot of live_positions, kept up to date by WebSocket messages.      *)
(*                                                                         *)
(* Around it runs the rest of the pipeline, reduced to how far it is: the  *)
(* first `stored` messages of the log are in MongoDB, the gateway has got  *)
(* as far as `sent` and may fall back, and neither waits for the other.    *)
(*                                                                         *)
(* The hook's handlers are atomic (one JavaScript thread); its await points *)
(* separate the phases of `fetch`.  The statistics timer, the live window, *)
(* the snapshot's size limit and the unmounting of the page are left out.   *)
(***************************************************************************)
EXTENDS Integers, Sequences

CONSTANTS Aircraft,   \* icao24 addresses
          Time,       \* values of observed_at
          MaxLog,     \* bound: messages produced
          MaxFaults   \* bound: failures of any kind

ASSUME FeedBounds == /\ Time \subseteq Nat \ {0}
                     /\ MaxLog \in Nat /\ MaxFaults \in Nat

VARIABLES log,      \* [icao24, observed_at] by offset + 1
          stored,   \* how many messages the MongoDB writer has handled
          sent,     \* how many the gateway has ever broadcast
          next,     \* the offset it broadcasts next
          sock,     \* the WebSocket: closed, connecting, accepted or open
          joined,   \* the backend has registered it: broadcasts go to it
          inbox,    \* offsets broadcast to it and not yet delivered
          held,     \* what MongoDB held when the socket opened
          fetch,    \* refreshSnapshot: idle, sent, answered, applied
          snap,     \* the snapshot the server answered with
          lagged,   \* MongoDB was behind the gateway when it was read
          pending,  \* pendingUpdatesRef
          shown,    \* aircraftByIdRef, and the state rendered from it
          during,   \* newest update per aircraft received since the refresh began
          frame,    \* an animation frame is requested (animationFrameRef)
          faults

pipeline == <<log, stored, sent, next>>
socket   == <<sock, joined, inbox, held>>
refresh  == <<fetch, snap, lagged, during>>
maps     == <<pending, shown, frame>>
vars     == <<pipeline, socket, refresh, maps, faults>>

None == [observed_at |-> 0, kafka_offset |-> -1]
Nothing == [a \in Aircraft |-> None]
Update(o) == [observed_at |-> log[o + 1].observed_at, kafka_offset |-> o]

Fault == faults < MaxFaults /\ faults' = faults + 1

\* syncingRef
Syncing == fetch # "idle"

\* isNewerAircraftUpdate: newer, or equally new and from the same or a later
\* offset.
Newer(current, update) ==
    \/ current = None
    \/ update.observed_at > current.observed_at
    \/ /\ update.observed_at = current.observed_at
       /\ update.kafka_offset >= current.kafka_offset

\* mergeAircraftUpdate, for one update and for a map of updates.
Merged(current, update) == IF Newer(current, update) THEN update ELSE current
MergedAll(target, updates) ==
    [a \in Aircraft |-> IF updates[a] = None THEN target[a]
                                             ELSE Merged(target[a], updates[a])]

\* What list_live_aircraft reads: the writer keeps the newest observation and,
\* of equally new ones, the first.
Live(n) ==
    [a \in Aircraft |->
        LET mine == {o \in 0 .. n - 1 : log[o + 1].icao24 = a}
            best == {o \in mine : \A p \in mine :
                        \/ log[o + 1].observed_at > log[p + 1].observed_at
                        \/ log[o + 1].observed_at = log[p + 1].observed_at /\ o <= p}
        IN  IF mine = {} THEN None ELSE Update(CHOOSE o \in best : TRUE)]

\* The mount effect has run: the first refresh is under way, and connect too.
Init ==
    /\ log = << >> /\ stored = 0 /\ sent = 0 /\ next = 0
    /\ sock = "connecting" /\ joined = FALSE /\ inbox = << >> /\ held = Nothing
    /\ fetch = "sent" /\ snap = Nothing /\ lagged = FALSE
    /\ pending = Nothing /\ shown = Nothing /\ during = Nothing
    /\ frame = FALSE
    /\ faults = 0

-----------------------------------------------------------------------------
(* The pipeline.                                                           *)

Produce ==
    /\ Len(log) < MaxLog
    /\ \E a \in Aircraft, t \in Time :
          log' = Append(log, [icao24 |-> a, observed_at |-> t])
    /\ UNCHANGED <<stored, sent, next, socket, refresh, maps, faults>>

Store ==
    /\ stored < Len(log)
    /\ stored' = stored + 1
    /\ UNCHANGED <<log, sent, next, socket, refresh, maps, faults>>

Publish ==
    /\ next < Len(log)
    /\ next' = next + 1
    /\ sent' = IF sent < next' THEN next' ELSE sent
    /\ inbox' = IF joined THEN Append(inbox, next) ELSE inbox
    /\ UNCHANGED <<log, stored, sock, joined, held, refresh, maps, faults>>

\* The gateway did not commit what it broadcast: it will broadcast it again.
Reread ==
    /\ Fault
    /\ next' \in 0 .. next - 1
    /\ UNCHANGED <<log, stored, sent, socket, refresh, maps>>

-----------------------------------------------------------------------------
(* refreshSnapshot.                                                        *)

\* Bug: a requested frame is not cancelled.
BugRefreshKeepsFrame ==
    IF Syncing
      THEN UNCHANGED <<fetch, during, frame>>
      ELSE fetch' = "sent" /\ during' = Nothing /\ UNCHANGED frame

\* A call while one is running returns at once; else a requested frame is
\* cancelled and the three requests go out.
RefreshSnapshot ==
    IF Syncing
      THEN UNCHANGED <<fetch, during, frame>>
      ELSE fetch' = "sent" /\ during' = Nothing /\ frame' = FALSE

\* The refresh button of App.tsx.
Click ==
    /\ ~Syncing
    /\ RefreshSnapshot
    /\ UNCHANGED <<pipeline, socket, snap, lagged, pending, shown, faults>>

\* The backend reads live_positions and answers.
Answer ==
    /\ fetch = "sent"
    /\ fetch' = "answered"
    /\ snap' = Live(stored)
    /\ lagged' = (stored < sent)
    /\ UNCHANGED <<pipeline, socket, during, maps, faults>>

\* Bug: the snapshot alone is shown.
BugApplyPlain ==
    /\ fetch = "answered"
    /\ fetch' = "applied"
    /\ shown' = snap
    /\ pending' = Nothing
    /\ UNCHANGED <<pipeline, socket, snap, lagged, during, frame, faults>>

\* The snapshot, with the updates received meanwhile merged in, replaces what
\* was shown.  The statistics and health bodies are still awaited.
Apply ==
    /\ fetch = "answered"
    /\ fetch' = "applied"
    /\ shown' = MergedAll(snap, pending)
    /\ pending' = Nothing
    /\ UNCHANGED <<pipeline, socket, snap, lagged, during, frame, faults>>

\* Bug: the finally forgets the updates that came while it was syncing.
BugEndNoSchedule == fetch' = "idle" /\ UNCHANGED frame

\* The finally: syncing ends, and updates that wait get their frame.
EndRefresh ==
    /\ fetch' = "idle"
    /\ frame' = (frame \/ pending # Nothing)

RefreshDone ==
    /\ fetch = "applied"
    /\ EndRefresh
    /\ UNCHANGED <<pipeline, socket, snap, lagged, pending, shown, during, faults>>

\* Bug: a failed request leaves syncingRef set.
BugFailKeepsSyncing ==
    /\ Syncing
    /\ Fault
    /\ fetch' = "failed"
    /\ UNCHANGED <<pipeline, socket, snap, lagged, during, maps>>

\* A request or a body fails, or the aircraft list is not ok.
RefreshFails ==
    /\ Syncing
    /\ Fault
    /\ EndRefresh
    /\ UNCHANGED <<pipeline, socket, snap, lagged, pending, shown, during>>

-----------------------------------------------------------------------------
(* The socket.                                                             *)

\* connect, at first and after the reconnect delay.
Connect ==
    /\ sock = "closed"
    /\ sock' = "connecting"
    /\ UNCHANGED <<pipeline, joined, inbox, held, refresh, maps, faults>>

\* WebSocketManager.connect accepts it: the browser may now see it open.
Accept ==
    /\ sock = "connecting"
    /\ sock' = "accepted"
    /\ UNCHANGED <<pipeline, joined, inbox, held, refresh, maps, faults>>

\* ... and then, under its lock, registers it.
Register ==
    /\ sock \in {"accepted", "open"} /\ ~joined
    /\ joined' = TRUE
    /\ UNCHANGED <<pipeline, sock, inbox, held, refresh, maps, faults>>

\* onopen: live, and a snapshot is taken to close the gap.
OnOpen ==
    /\ sock = "accepted"
    /\ sock' = "open"
    /\ held' = Live(stored)
    /\ RefreshSnapshot
    /\ UNCHANGED <<pipeline, joined, inbox, snap, lagged, pending, shown, faults>>

\* Bug: a frame is requested while a refresh is running.
BugScheduleAlways == frame' = TRUE

\* scheduleUpdateFlush: not while a refresh is running.
ScheduleUpdateFlush == frame' = (frame \/ ~Syncing)

\* onmessage: the update waits for the next frame.
OnMessage ==
    /\ sock = "open" /\ inbox # << >>
    /\ LET o == Head(inbox)
           a == log[o + 1].icao24
       IN  /\ pending' = [pending EXCEPT ![a] = Merged(@, Update(o))]
           /\ during' = IF Syncing
                          THEN [during EXCEPT ![a] = Merged(@, Update(o))]
                          ELSE during
    /\ inbox' = Tail(inbox)
    /\ ScheduleUpdateFlush
    /\ UNCHANGED <<pipeline, sock, joined, held, fetch, snap, lagged, shown, faults>>

\* flushPendingUpdates
Flush ==
    /\ frame
    /\ frame' = FALSE
    /\ shown' = MergedAll(shown, pending)
    /\ pending' = Nothing
    /\ UNCHANGED <<pipeline, socket, refresh, faults>>

\* onerror, onclose: what was not delivered is lost; the timer is set.
OnClose ==
    /\ sock # "closed"
    /\ Fault
    /\ sock' = "closed" /\ joined' = FALSE
    /\ inbox' = << >>
    /\ UNCHANGED <<pipeline, held, refresh, maps>>

-----------------------------------------------------------------------------
Browser ==
    \/ Answer \/ Apply \/ RefreshDone
    \/ Connect \/ Accept \/ Register \/ OnOpen \/ OnMessage \/ Flush

Next ==
    \/ Produce \/ Store \/ Publish \/ Reread
    \/ Click \/ RefreshFails \/ OnClose
    \/ Browser

Spec == Init /\ [][Next]_vars

\* Requests are answered, events and frames are dispatched, the reconnect timer
\* fires, the writer and the gateway work on.
Fairness ==
    /\ WF_vars(Store) /\ WF_vars(Publish)
    /\ WF_vars(Answer) /\ WF_vars(Apply) /\ WF_vars(RefreshDone)
    /\ WF_vars(Connect) /\ WF_vars(Accept) /\ WF_vars(Register)
    /\ WF_vars(OnOpen) /\ WF_vars(OnMessage) /\ WF_vars(Flush)

FairSpec == Spec /\ Fairness

-----------------------------------------------------------------------------
UpdateType == [observed_at : Time \cup {0}, kafka_offset : -1 .. MaxLog - 1]

TypeOK ==
    /\ log \in Seq([icao24 : Aircraft, observed_at : Time]) /\ Len(log) <= MaxLog
    /\ stored \in 0 .. Len(log) /\ sent \in 0 .. Len(log) /\ next \in 0 .. sent
    /\ sock \in {"closed", "connecting", "accepted", "open"}
    /\ joined \in BOOLEAN /\ (joined => sock \in {"accepted", "open"})
    /\ inbox \in Seq(0 .. Len(log) - 1)
    /\ held \in [Aircraft -> UpdateType]
    /\ fetch \in {"idle", "sent", "answered", "applied"}
    /\ snap \in [Aircraft -> UpdateType]
    /\ lagged \in BOOLEAN
    /\ pending \in [Aircraft -> UpdateType]
    /\ shown \in [Aircraft -> UpdateType]
    /\ during \in [Aircraft -> UpdateType]
    /\ frame \in BOOLEAN /\ (Syncing => ~frame)
    /\ faults \in 0 .. MaxFaults

\* A received update never waits with nothing to come that shows it: a refresh
\* is running, or a frame is requested (scheduleUpdateFlush does nothing while a
\* refresh runs, and a refresh cancels the frame).
PendingHasFlush == pending # Nothing => Syncing \/ frame

\* A snapshot that was answered before an update arrived does not hide it: what
\* came in while the refresh was running is shown when it is applied.
SnapshotKeepsReceived ==
    fetch = "applied" =>
        \A a \in Aircraft :
            during[a] # None => \/ Newer(during[a], shown[a])
                                \/ pending[a] # None

\* The browser never steps back to an older observation of an aircraft, except
\* to a snapshot read while MongoDB was behind the gateway.
ShownNeverRegresses ==
    [][\/ fetch = "answered" /\ fetch' = "applied" /\ lagged
       \/ \A a \in Aircraft : shown'[a].observed_at >= shown[a].observed_at]_vars

\* Every update the browser receives is shown in the end, or a newer one.
ReceivedIsShown ==
    \A a \in Aircraft : \A o \in 0 .. MaxLog - 1 :
        pending[a].kafka_offset = o
            ~> o < Len(log) /\ Newer(Update(o), shown[a])

\* "Taking the snapshot after the WebSocket has opened closes the gap"
\* (useAircraftFeed.ts:271): what MongoDB already held when the socket opened is
\* shown in the end, as long as the socket stays open.  Any snapshot requested
\* after the opening would show it, however far MongoDB is behind the gateway.
GapIsClosed ==
    \A a \in Aircraft : \A o \in 0 .. MaxLog - 1 :
        sock = "open" /\ held[a].kafka_offset = o
            ~> sock # "open" \/ (o < Len(log) /\ Newer(Update(o), shown[a]))
=============================================================================
