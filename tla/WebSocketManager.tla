--------------------------- MODULE WebSocketManager ---------------------------
(***************************************************************************)
(* The set of browser sockets the backend publishes to                     *)
(* (backend/app/websocket_manager.py, and the endpoint in main.py that     *)
(* registers a socket and forgets it when the browser goes away).          *)
(*                                                                         *)
(* A broadcast takes a snapshot of the registered sockets, sends to all of *)
(* them at once with a time limit, and afterwards forgets those whose send *)
(* failed; sockets come and go while it runs.  What is sent is a set of    *)
(* `Item`s; RealtimeGateway sends sets of Kafka offsets.                   *)
(***************************************************************************)
EXTENDS Naturals, FiniteSets

CONSTANTS Socket,     \* WebSocket connections
          MaxFaults   \* bound: failures of any kind

VARIABLES open,        \* sockets the browser holds open
          joining,     \* accepted, not registered yet
          conns,       \* manager._connections
          sending,     \* sockets the running broadcast still waits for
          failed,      \* sockets whose send failed in the running broadcast
          batch,       \* items of the running broadcast
          published,   \* items of all finished broadcasts
          since,       \* what was published before, or while, a socket joined
          received,    \* items each open socket received
          faults

wsVars == <<open, joining, conns, sending, failed, batch, published, since, received>>

Fault   == faults < MaxFaults /\ faults' = faults + 1
NoFault == faults' = faults

WsInit ==
    /\ open = {} /\ joining = {} /\ conns = {}
    /\ sending = {} /\ failed = {} /\ batch = {} /\ published = {}
    /\ since = [s \in Socket |-> {}]
    /\ received = [s \in Socket |-> {}]
    /\ faults = 0

\* connect accepts the handshake, ...  (A new connection takes a name that
\* nothing refers to any more.)
Accept(s) ==
    /\ s \notin open \cup joining \cup conns \cup sending \cup failed
    /\ open' = open \cup {s}
    /\ joining' = joining \cup {s}
    /\ UNCHANGED <<conns, sending, failed, batch, published, since, received,
                   faults>>

\* ... and once it has returned registers the socket under the lock, even if it
\* is gone by then.
Register(s) ==
    /\ s \in joining
    /\ joining' = joining \ {s}
    /\ conns' = conns \cup {s}
    /\ since' = [since EXCEPT ![s] = published \cup batch]
    /\ received' = [received EXCEPT ![s] = {}]
    /\ UNCHANGED <<open, sending, failed, batch, published, faults>>

\* The browser closes the socket, or the network does.
Close(s) ==
    /\ s \in open
    /\ open' = open \ {s}
    /\ UNCHANGED <<joining, conns, sending, failed, batch, published, since, received,
                   faults>>

\* The endpoint's receive loop ends with WebSocketDisconnect.
Disconnect(s) ==
    /\ s \in conns \ open
    /\ conns' = conns \ {s}
    /\ UNCHANGED <<open, joining, sending, failed, batch, published, since, received,
                   faults>>

\* broadcast: the snapshot is taken under the lock.
BeginBroadcast(items) ==
    /\ sending' = conns
    /\ failed' = {}
    /\ batch' = items
    /\ UNCHANGED <<open, joining, conns, published, since, received>>

\* send_json returns, for a socket that is just going away perhaps without effect.
SendOk(s) ==
    /\ s \in sending
    /\ sending' = sending \ {s}
    /\ received' = IF s \in open THEN [received EXCEPT ![s] = @ \cup batch] ELSE received
    /\ UNCHANGED <<open, joining, conns, failed, batch, published, since, faults>>

\* The socket is gone, or takes longer than send_timeout_seconds to accept the
\* message (which may reach it all the same).
SendFails(s) ==
    /\ s \in sending
    /\ IF s \in open THEN Fault ELSE NoFault
    /\ sending' = sending \ {s}
    /\ failed' = failed \cup {s}
    /\ received' \in {received, [received EXCEPT ![s] = @ \cup batch]}
    /\ UNCHANGED <<open, joining, conns, batch, published, since>>

\* Bug: the sockets whose send failed stay registered.
BugKeepFailed ==
    /\ sending = {}
    /\ published' = published \cup batch
    /\ batch' = {} /\ failed' = {}
    /\ UNCHANGED <<open, joining, conns, sending, since, received>>

\* All sends have ended: the failed sockets are forgotten, but not closed.
EndBroadcast ==
    /\ sending = {}
    /\ conns' = conns \ failed
    /\ published' = published \cup batch
    /\ batch' = {} /\ failed' = {}
    /\ UNCHANGED <<open, joining, sending, since, received>>

\* The process ends or the broadcast is cancelled.
DropBroadcast ==
    /\ sending' = {} /\ failed' = {} /\ batch' = {}
    /\ UNCHANGED <<published, since, received>>

-----------------------------------------------------------------------------
\* A registered socket that its browser holds open misses nothing that was published
\* after it joined: one that could not be served is no longer registered (broadcast).
RegisteredMissNothing ==
    \A s \in conns \cap open : published \ since[s] \subseteq received[s]

\* "Sends a Kafka event to all connected frontends" (broadcast's docstring): a
\* broadcast addresses every socket that connect has registered and that its
\* browser still holds open.
BroadcastAddressesAllOpen ==
    [][batch = {} /\ batch' # {} => open \ joining \subseteq sending']_wsVars
=============================================================================
