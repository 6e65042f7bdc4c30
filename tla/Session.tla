------------------------------- MODULE Session -------------------------------
(***************************************************************************)
(* The life of a DXLink session: the client that connects, disconnects and *)
(* is dropped, the two tasks each session owns (the protocol reader and    *)
(* the keepalive writer), the reconnect supervisor that rebuilds a session *)
(* which died, and the delivery worker whose end closes the event stream.  *)
(*                                                                         *)
(* Each action is the code between two await points of one task, or a part *)
(* of it where another thread could look in between, so the interleavings  *)
(* are those of a multi-threaded tokio runtime.  An abort takes effect at  *)
(* the next await point of the aborted task, and nobody waits for it: a    *)
(* poll that is under way completes first.  So an action that begins a     *)
(* poll needs a task that is not aborted, and one that continues it does   *)
(* not; what a poll does in the sight of the others is a step of its own.  *)
(*                                                                         *)
(* A session is a number, in the order the handshakes succeeded; it also   *)
(* stands for its socket and for the reason its reader reports.            *)
(***************************************************************************)
EXTENDS Naturals, Sequences

CONSTANTS
    MaxSessions,    \* bound: handshakes that succeed; later ones are refused
    MaxAttempts,    \* ReconnectPolicy::max_attempts (Some(limit))
    MayWedge,       \* bound: sessions whose peer may stop reading, so that a
                    \* send blocks
    Plans           \* what replay_session may have to do: "send" or "answer"

ASSUME SessionAssumption ==
    /\ MaxSessions \in Nat \ {0}
    /\ MaxAttempts \in Nat
    /\ MayWedge \subseteq Nat
    /\ Plans \subseteq Seq({"send", "answer"})

Sessions == 1 .. MaxSessions
None     == 0

VARIABLES
    client,             \* what the owner of DXLinkClient is doing
    held,               \* the keepalive disconnect took out of the slots
    connection,         \* SharedConnection: the session of the live socket
    sockets,            \* [Sessions -> state of the peer and its socket]
    readers,            \* [Sessions -> where spawn_reader's task is]
    aborted,            \* readers whose JoinHandle was aborted
    keepalives,         \* [Sessions -> where spawn_keepalive's task is]
    stop_requests,      \* [Sessions -> message in the keepalive's stop channel]
    tasks,              \* SessionTasks
    detached,           \* readers whose JoinHandle was dropped, not aborted
    session_lost,       \* the report in the session-lost channel (capacity 1)
    disconnect_reason,  \* the session whose failure was recorded
    supervisor,         \* where the reconnect supervisor is
    supervisor_aborted, \* its JoinHandle was aborted
    shutdown,           \* a message is in the supervisor's shutdown channel
    attempt,            \* attempts made for the current loss
    building,           \* the session reconnect_once is rebuilding
    todo,               \* what replay_session has left to do
    retryable,          \* worth_retrying(e) of the attempt that failed
    announced,          \* the last ConnectionState sent to the consumer
    reconnect,          \* with_reconnect installed a policy
    born, first,        \* sessions so far; first one of this connect()
    reporters,          \* sessions whose reader was given a session-lost sender
    delivery            \* the delivery worker

clientVars     == <<client, held>>
taskVars       == <<readers, aborted, keepalives, stop_requests>>
slotVars       == <<tasks, detached>>
rebuildVars    == <<building, todo, retryable>>
supervisorVars == <<supervisor, supervisor_aborted, shutdown, attempt>>
setupVars      == <<reconnect, born, first, reporters>>
vars == <<clientVars, connection, sockets, taskVars, slotVars, session_lost,
          disconnect_reason, supervisorVars, rebuildVars, announced, setupVars,
          delivery>>

(***************************************************************************)
(* Types.                                                                  *)
(***************************************************************************)
NoTasks == [reader |-> None, keepalive |-> None, keepalive_stop |-> None]

Disconnecting == {"joining_supervisor", "stopping_keepalive",
                  "joining_keepalive", "closing_channels"}
Dropping      == {"aborting_keepalive", "aborting_rest"}
ClientStates  == {"fresh", "connecting", "live", "off", "dropped"}
                     \cup Disconnecting \cup Dropping
SocketStates  == {"unborn", "open", "silent", "wedged", "closed"}
ReaderStates  == {"unborn", "reading", "failed", "stopping", "reporting",
                  "ended"}
KeepaliveStates == {"unborn", "idle", "blocked", "ended"}

\* The await points of the supervisor: the places an abort can land.
Awaiting   == {"waiting", "backoff", "handshaking", "replaying", "failed"}
Rebuilding == {"replaying", "failed", "rebuilt", "reader_in", "keepalive_in"}
SupervisorStates ==
    Awaiting \cup Rebuilding
        \cup {"none", "retrying", "connected", "installed", "returned", "aborted"}
Announcements == {"None", "Lost", "Reconnecting", "Reconnected", "GaveUp"}

TypeOK ==
    /\ client \in ClientStates
    /\ held \in Sessions \cup {None}
    /\ connection \in Sessions \cup {None}
    /\ sockets \in [Sessions -> SocketStates]
    /\ readers \in [Sessions -> ReaderStates]
    /\ aborted \subseteq Sessions
    /\ keepalives \in [Sessions -> KeepaliveStates]
    /\ stop_requests \in [Sessions -> BOOLEAN]
    /\ tasks \in [reader : Sessions \cup {None},
                  keepalive : Sessions \cup {None},
                  keepalive_stop : Sessions \cup {None}]
    /\ detached \subseteq Sessions
    /\ session_lost \in Sessions \cup {None}
    /\ disconnect_reason \in Sessions \cup {None}
    /\ supervisor \in SupervisorStates
    /\ supervisor_aborted \in BOOLEAN
    /\ shutdown \in BOOLEAN
    /\ attempt \in 0 .. MaxAttempts
    /\ building \in Sessions \cup {None}
    /\ todo \in Seq({"send", "answer"})
    /\ retryable \in BOOLEAN
    /\ announced \in Announcements
    /\ reconnect \in BOOLEAN
    /\ born \in 0 .. MaxSessions
    /\ first \in 0 .. MaxSessions
    /\ reporters \subseteq Sessions
    /\ delivery \in {"none", "running", "ended"}

\* DXLinkClient::new
Init ==
    /\ client = "fresh" /\ held = None
    /\ connection = None
    /\ sockets = [s \in Sessions |-> "unborn"]
    /\ readers = [s \in Sessions |-> "unborn"]
    /\ aborted = {}
    /\ keepalives = [s \in Sessions |-> "unborn"]
    /\ stop_requests = [s \in Sessions |-> FALSE]
    /\ tasks = NoTasks /\ detached = {}
    /\ session_lost = None
    /\ disconnect_reason = None
    /\ supervisor = "none" /\ supervisor_aborted = FALSE
    /\ shutdown = FALSE /\ attempt = 0
    /\ building = None /\ todo = << >> /\ retryable = FALSE
    /\ announced = "None"
    /\ reconnect = FALSE
    /\ born = 0 /\ first = 0 /\ reporters = {}
    /\ delivery = "none"

-----------------------------------------------------------------------------
(***************************************************************************)
(* Helpers.                                                                *)
(***************************************************************************)
SupervisorEnded   == supervisor \in {"none", "returned", "aborted"}
Supervised        == first \in reporters
ReaderLives(s)    == readers[s] \notin {"unborn", "ended"}
KeepaliveLives(s) == keepalives[s] \in {"idle", "blocked"}

\* handle.abort() on a reader and on a keepalive.  The keepalive shares no
\* state with the other tasks, so the moment it stops does not matter.
\* (Mutant: the reader's handle is dropped, not aborted.)
AbortReader_Detaches(s) == UNCHANGED aborted
AbortReader(s) ==
    aborted' = aborted \cup {r \in {s} \ {None} : ReaderLives(r)}
AbortedKeepalive(s) ==
    [k \in Sessions |-> IF k = s /\ KeepaliveLives(k) THEN "ended"
                                                      ELSE keepalives[k]]

\* Dropping a JoinHandle detaches its task.
Detach(handles) == detached \cup (handles \ {None})

\* A send on a keepalive's stop channel, capacity 1: it is ready when there
\* is room or nobody left to receive.
\* (Mutants: a send to a keepalive that ended waits; the request is lost.)
CanSendStop_Deaf(s) == KeepaliveLives(s) /\ ~stop_requests[s]
SendStop_Lost(s)    == UNCHANGED stop_requests
CanSendStop(s) == KeepaliveLives(s) => ~stop_requests[s]
SendStop(s)    == stop_requests' = [stop_requests EXCEPT ![s] = KeepaliveLives(s)]

\* rx.recv() also returns once every sender is gone.
StopSenders(s) == ReaderLives(s) \/ tasks.keepalive_stop = s \/ building = s
                     \/ (client = "stopping_keepalive" /\ held = s)

\* handle.abort() on the supervisor.  (Mutant: its handle is only dropped.)
AbortSupervisor_Detaches == UNCHANGED supervisor_aborted
AbortSupervisor ==
    supervisor_aborted' = (supervisor_aborted \/ ~SupervisorEnded)

\* record_reason keeps the first reason.  (Mutant: nothing is recorded.)
FirstReason_Forgotten(s) == disconnect_reason
FirstReason(s) == IF disconnect_reason = None THEN s ELSE disconnect_reason

\* Whether the reader of s has a supervisor to report to: its session-lost
\* channel belongs to one connect(), and the supervisor holds the receiver.
\* (Mutant: a rebuilt reader is not given the sender.)
HasListener_FirstOnly(s) == ~SupervisorEnded /\ s = first
HasListener(s) == ~SupervisorEnded /\ s >= first

\* Whether a sender of the delivery queue is left: with the readers of this
\* connect() or with the supervisor.  (Mutant: pending_delivery_tx is kept.)
DeliveryIsFed_Parked == client = "live"
DeliveryIsFed ==
    ~SupervisorEnded \/ \E s \in Sessions : s >= first /\ ReaderLives(s)

\* The tasks every new session starts with.
SpawnTasks(s) ==
    /\ sockets' = [sockets EXCEPT ![s] = "open"]
    /\ readers' = [readers EXCEPT ![s] = "reading"]
    /\ keepalives' = [keepalives EXCEPT ![s] = "idle"]
    /\ born' = s

-----------------------------------------------------------------------------
(***************************************************************************)
(* The peer.                                                               *)
(***************************************************************************)

\* The peer goes away: it stops answering (silent), stops reading as well so
\* that a send blocks (wedged), or the socket is closed.  What happens to a
\* socket nobody uses any more is left out.
PeerFails(s) ==
    /\ ReaderLives(s) \/ KeepaliveLives(s)
    /\ \E next \in {"silent", "wedged", "closed"} :
        /\ sockets[s] \in {"open", "silent", "wedged"}
        /\ next # "closed" => sockets[s] = "open"
        /\ next = "wedged" => s \in MayWedge
        /\ sockets' = [sockets EXCEPT ![s] = next]
        /\ UNCHANGED <<clientVars, connection, taskVars, slotVars, session_lost,
                       disconnect_reason, supervisorVars, rebuildVars,
                       announced, setupVars, delivery>>

-----------------------------------------------------------------------------
(***************************************************************************)
(* The protocol reader (spawn_reader).                                     *)
(***************************************************************************)

\* receive_with_timeout ends the session: a terminal error, or silence past
\* the deadline.
ReaderFails(s) ==
    /\ readers[s] = "reading" /\ s \notin aborted
    /\ sockets[s] # "open"
    /\ readers' = [readers EXCEPT ![s] = "failed"]
    /\ UNCHANGED <<clientVars, connection, sockets, aborted, keepalives,
                   stop_requests, slotVars, session_lost, disconnect_reason,
                   supervisorVars, rebuildVars, announced, setupVars, delivery>>

\* The cause is recorded before anything else can end.
ReaderRecords(s) ==
    /\ readers[s] = "failed"
    /\ readers' = [readers EXCEPT ![s] = "stopping"]
    /\ disconnect_reason' = FirstReason(s)
    /\ UNCHANGED <<clientVars, connection, sockets, aborted, keepalives,
                   stop_requests, slotVars, session_lost, supervisorVars,
                   rebuildVars, announced, setupVars, delivery>>

\* stop.send(()).await: ask the keepalive to stop, before the report.
ReaderStopsKeepalive(s) ==
    /\ readers[s] = "stopping"
    /\ CanSendStop(s)
    /\ SendStop(s)
    /\ readers' = [readers EXCEPT ![s] = IF s \in reporters
                                             THEN "reporting" ELSE "ended"]
    /\ UNCHANGED <<clientVars, connection, sockets, aborted, keepalives,
                   slotVars, session_lost, disconnect_reason, supervisorVars,
                   rebuildVars, announced, setupVars, delivery>>

\* tx.send(reason).await: into the channel, or an error nobody looks at when
\* the supervisor that held the receiver is gone.
ReaderReports(s) ==
    /\ readers[s] = "reporting"
    /\ HasListener(s) => session_lost = None
    /\ session_lost' = IF HasListener(s) THEN s ELSE session_lost
    /\ readers' = [readers EXCEPT ![s] = "ended"]
    /\ UNCHANGED <<clientVars, connection, sockets, aborted, keepalives,
                   stop_requests, slotVars, disconnect_reason, supervisorVars,
                   rebuildVars, announced, setupVars, delivery>>

\* The abort lands.
ReaderCancelled(s) ==
    /\ s \in aborted
    /\ readers[s] \in {"reading", "stopping", "reporting"}
    /\ readers' = [readers EXCEPT ![s] = "ended"]
    /\ aborted' = aborted \ {s}
    /\ UNCHANGED <<clientVars, connection, sockets, keepalives,
                   stop_requests, slotVars, session_lost, disconnect_reason,
                   supervisorVars, rebuildVars, announced, setupVars, delivery>>

-----------------------------------------------------------------------------
(***************************************************************************)
(* The maintenance writer (spawn_keepalive).                               *)
(***************************************************************************)
KeepaliveMoves(s, to) ==
    /\ keepalives' = [keepalives EXCEPT ![s] = to]
    /\ UNCHANGED <<clientVars, connection, sockets, readers, aborted, slotVars,
                   session_lost, disconnect_reason, supervisorVars,
                   rebuildVars, announced, setupVars, delivery>>

\* The interval ticks and connection.send, which has no deadline, waits for a
\* peer that does not read.  A tick that is skipped or whose message goes out
\* changes nothing here.
KeepaliveBlocks(s) ==
    /\ keepalives[s] = "idle" /\ sockets[s] = "wedged"
    /\ KeepaliveMoves(s, "blocked") /\ UNCHANGED stop_requests

\* The send fails: the keepalive ends, and its stop channel with it.
KeepaliveFails(s) ==
    /\ KeepaliveLives(s) /\ sockets[s] = "closed"
    /\ KeepaliveMoves(s, "ended")
    /\ stop_requests' = [stop_requests EXCEPT ![s] = FALSE]

\* rx.recv() completes: a stop request, or every sender is gone.
KeepaliveStops(s) ==
    /\ keepalives[s] = "idle"
    /\ stop_requests[s] \/ ~StopSenders(s)
    /\ KeepaliveMoves(s, "ended")
    /\ stop_requests' = [stop_requests EXCEPT ![s] = FALSE]

-----------------------------------------------------------------------------
(***************************************************************************)
(* The delivery worker.  It ends when every sender of its queue is gone.   *)
(***************************************************************************)
DeliveryEnds ==
    /\ delivery = "running"
    /\ ~DeliveryIsFed
    /\ delivery' = "ended"
    /\ UNCHANGED <<clientVars, connection, sockets, taskVars, slotVars,
                   session_lost, disconnect_reason, supervisorVars,
                   rebuildVars, announced, setupVars>>

-----------------------------------------------------------------------------
(***************************************************************************)
(* The reconnect supervisor (start_reconnect_supervisor, reconnect_once,   *)
(* replay_session).  An aborted task makes no step from an await point.    *)
(***************************************************************************)

\* A shutdown message is noticed in the idle wait and in the backoff.
SupervisorStops ==
    /\ supervisor \in {"waiting", "backoff"} /\ ~supervisor_aborted
    /\ shutdown
    /\ shutdown' = FALSE
    /\ supervisor' = "returned"
    /\ UNCHANGED <<clientVars, connection, sockets, taskVars, slotVars,
                   session_lost, disconnect_reason, supervisor_aborted, attempt,
                   rebuildVars, announced, setupVars, delivery>>

\* lost_rx.recv() yields a reason: announce the loss.  attempt is 0 here: it
\* starts anew whenever the attempt loop is entered.
SupervisorLearnsOfLoss ==
    /\ supervisor = "waiting" /\ ~supervisor_aborted
    /\ session_lost # None
    /\ session_lost' = None
    /\ announced' = "Lost"
    /\ supervisor' = "retrying"
    /\ UNCHANGED <<clientVars, connection, sockets, taskVars, slotVars,
                   disconnect_reason, supervisor_aborted, shutdown, attempt,
                   rebuildVars, setupVars, delivery>>

\* attempt += 1; attempt > limit.  (Mutant: one attempt too many.)
LimitReached_Late == attempt > MaxAttempts
LimitReached      == attempt = MaxAttempts

\* The head of the attempt loop: give up at the limit, or back off.
SupervisorRetries ==
    /\ supervisor = "retrying"
    /\ IF LimitReached
       THEN /\ announced' = "GaveUp" /\ supervisor' = "returned"
            /\ UNCHANGED attempt
       ELSE /\ announced' = "Reconnecting" /\ supervisor' = "backoff"
            /\ attempt' = attempt + 1
    /\ UNCHANGED <<clientVars, connection, sockets, taskVars, slotVars,
                   session_lost, disconnect_reason, supervisor_aborted, shutdown,
                   rebuildVars, setupVars, delivery>>

BackoffElapses ==
    /\ supervisor = "backoff" /\ ~supervisor_aborted
    /\ supervisor' = "handshaking"
    /\ UNCHANGED <<clientVars, connection, sockets, taskVars, slotVars,
                   session_lost, disconnect_reason, supervisor_aborted, shutdown,
                   attempt, rebuildVars, announced, setupVars, delivery>>

\* What follows a failed attempt: the next one, or giving up.
\* (Mutant: the supervisor returns without a word.)
AttemptFails_Silently(worthRetrying) ==
    /\ supervisor' = IF worthRetrying THEN "retrying" ELSE "returned"
    /\ UNCHANGED announced
AttemptFails(worthRetrying) ==
    /\ supervisor' = IF worthRetrying THEN "retrying" ELSE "returned"
    /\ announced' = IF worthRetrying THEN announced ELSE "GaveUp"

\* The handshake of reconnect_once fails: refused, timed out, or rejected for
\* good.  Nothing was installed yet.
HandshakeFails ==
    /\ supervisor = "handshaking" /\ ~supervisor_aborted
    /\ \E worthRetrying \in BOOLEAN : AttemptFails(worthRetrying)
    /\ UNCHANGED <<clientVars, connection, sockets, taskVars, slotVars,
                   session_lost, disconnect_reason, supervisor_aborted, shutdown,
                   attempt, rebuildVars, setupVars, delivery>>

\* The last message of the handshake is read.  From here to the first await of
\* replay_session one poll runs on, aborted meanwhile or not.
HandshakeSucceeds ==
    /\ supervisor = "handshaking" /\ ~supervisor_aborted
    /\ born < MaxSessions
    /\ supervisor' = "connected"
    /\ UNCHANGED <<clientVars, connection, sockets, taskVars, slotVars,
                   session_lost, disconnect_reason, supervisor_aborted, shutdown,
                   attempt, rebuildVars, announced, setupVars, delivery>>

\* The socket goes into the shared slot, both tasks are spawned and the replay
\* begins.  Their handles are local variables.
SessionComesUp ==
    /\ supervisor = "connected"
    /\ LET s == born + 1 IN
         /\ SpawnTasks(s)
         /\ connection' = s
         /\ building' = s
         /\ reporters' = reporters \cup {s}
    /\ \E plan \in Plans :
         /\ todo' = plan
         /\ supervisor' = IF plan = << >> THEN "rebuilt" ELSE "replaying"
    /\ UNCHANGED <<clientVars, aborted, stop_requests, slotVars, session_lost,
                   disconnect_reason, supervisor_aborted, shutdown, attempt,
                   retryable, announced, reconnect, first, delivery>>

\* One step of replay_session succeeds: a send goes out, or the reader routes
\* the awaited answer.
ReplayAdvances ==
    /\ supervisor = "replaying" /\ ~supervisor_aborted
    /\ \/ Head(todo) = "send" /\ sockets[building] \in {"open", "silent"}
       \/ /\ Head(todo) = "answer" /\ sockets[building] = "open"
          /\ readers[building] = "reading" /\ building \notin aborted
    /\ todo' = Tail(todo)
    /\ supervisor' = IF Tail(todo) = << >> THEN "rebuilt" ELSE "replaying"
    /\ UNCHANGED <<clientVars, connection, sockets, taskVars, slotVars,
                   session_lost, disconnect_reason, supervisor_aborted, shutdown,
                   attempt, building, retryable, announced, setupVars, delivery>>

\* One step of replay_session fails: the send on a closed socket, the wait
\* times out, or the server answers with something else.
ReplayFails ==
    /\ supervisor = "replaying" /\ ~supervisor_aborted
    /\ \/ Head(todo) = "send" /\ sockets[building] = "closed" /\ retryable' = TRUE
       \/ Head(todo) = "answer" /\ retryable' = TRUE
       \/ /\ Head(todo) = "answer" /\ sockets[building] = "open"
          /\ readers[building] = "reading" /\ building \notin aborted
          /\ retryable' = FALSE
    /\ supervisor' = "failed"
    /\ UNCHANGED <<clientVars, connection, sockets, taskVars, slotVars,
                   session_lost, disconnect_reason, supervisor_aborted, shutdown,
                   attempt, building, todo, announced, setupVars, delivery>>

\* The error path of reconnect_once: ask the keepalive to stop, abort both
\* tasks, empty the connection slot.
SupervisorTearsDown ==
    /\ supervisor = "failed"
    /\ CanSendStop(building)
    /\ SendStop(building)
    /\ AbortReader(building)
    /\ keepalives' = AbortedKeepalive(building)
    /\ connection' = None
    /\ AttemptFails(retryable)
    /\ building' = None /\ todo' = << >> /\ retryable' = FALSE
    /\ UNCHANGED <<clientVars, sockets, readers, slotVars, session_lost,
                   disconnect_reason, supervisor_aborted, shutdown, attempt,
                   setupVars, delivery>>

\* SessionTasks::install takes the lock of one slot after the other: the
\* reader's, whose previous handle is aborted, ...
SupervisorInstallsReader ==
    /\ supervisor = "rebuilt"
    /\ tasks' = [tasks EXCEPT !.reader = building]
    /\ AbortReader(tasks.reader)
    /\ supervisor' = "reader_in"
    /\ UNCHANGED <<clientVars, connection, sockets, readers, keepalives,
                   stop_requests, detached, session_lost, disconnect_reason,
                   supervisor_aborted, shutdown, attempt, rebuildVars, announced,
                   setupVars, delivery>>

\* ... the keepalive's, likewise, ...
SupervisorInstallsKeepalive ==
    /\ supervisor = "reader_in"
    /\ tasks' = [tasks EXCEPT !.keepalive = building]
    /\ keepalives' = AbortedKeepalive(tasks.keepalive)
    /\ supervisor' = "keepalive_in"
    /\ UNCHANGED <<clientVars, connection, sockets, readers, aborted,
                   stop_requests, detached, session_lost, disconnect_reason,
                   supervisor_aborted, shutdown, attempt, rebuildVars, announced,
                   setupVars, delivery>>

\* ... and the stop channel's.  (Mutant: a reconnect forgets to swap it.)
StopSlot_Kept(s) == tasks.keepalive_stop
StopSlot(s)      == s
SupervisorInstallsStop ==
    /\ supervisor = "keepalive_in"
    /\ tasks' = [tasks EXCEPT !.keepalive_stop = StopSlot(building)]
    /\ building' = None
    /\ supervisor' = "installed"
    /\ UNCHANGED <<clientVars, connection, sockets, taskVars, detached,
                   session_lost, disconnect_reason, supervisor_aborted, shutdown,
                   attempt, todo, retryable, announced, setupVars, delivery>>

\* The recorded reason is cleared and Reconnected announced.
SupervisorAnnounces ==
    /\ supervisor = "installed"
    /\ attempt' = 0
    /\ disconnect_reason' = None
    /\ announced' = "Reconnected"
    /\ supervisor' = "waiting"
    /\ UNCHANGED <<clientVars, connection, sockets, taskVars, slotVars,
                   session_lost, supervisor_aborted, shutdown, rebuildVars,
                   setupVars, delivery>>

\* The abort of the supervisor lands: its locals are dropped, and dropping the
\* JoinHandles of a session under construction detaches its tasks.  The slots
\* go with it if the client that shares them is gone.
SupervisorCancelled ==
    /\ supervisor_aborted /\ supervisor \in Awaiting
    /\ supervisor' = "aborted"
    /\ IF client = "dropped"
       THEN detached' = Detach({building, tasks.reader}) /\ tasks' = NoTasks
       ELSE detached' = Detach({building}) /\ UNCHANGED tasks
    /\ building' = None /\ todo' = << >>
    /\ UNCHANGED <<clientVars, connection, sockets, taskVars, session_lost,
                   disconnect_reason, supervisor_aborted, shutdown, attempt,
                   retryable, announced, setupVars, delivery>>

-----------------------------------------------------------------------------
(***************************************************************************)
(* The owner of the client: connect, disconnect and drop.                  *)
(***************************************************************************)

\* with_reconnect: it counts from the next connect on.
WithReconnect ==
    /\ client \in {"fresh", "live", "off"}
    /\ ~reconnect /\ reconnect' = TRUE
    /\ UNCHANGED <<clientVars, connection, sockets, taskVars, slotVars,
                   session_lost, disconnect_reason, supervisorVars, rebuildVars,
                   announced, born, first, reporters, delivery>>

\* connect clears the reason of the previous session, then shakes hands.
ConnectBegins ==
    /\ client \in {"fresh", "off"}
    /\ born < MaxSessions
    /\ client' = "connecting"
    /\ disconnect_reason' = None
    /\ UNCHANGED <<held, connection, sockets, taskVars, slotVars, session_lost,
                   supervisorVars, rebuildVars, announced, setupVars, delivery>>

ConnectFails ==
    /\ client = "connecting"
    /\ client' = "off"
    /\ UNCHANGED <<held, connection, sockets, taskVars, slotVars, session_lost,
                   disconnect_reason, supervisorVars, rebuildVars, announced,
                   setupVars, delivery>>

\* The rest of connect: slots, tasks, delivery worker, supervisor.  A handle
\* that was still in a slot is overwritten, not aborted.  The tasks aborted by
\* the previous disconnect have left their last poll by the time a whole
\* handshake has been exchanged.
ConnectSucceeds ==
    /\ client = "connecting"
    /\ born < MaxSessions
    /\ SupervisorEnded /\ \A r \in aborted : ~ReaderLives(r)
    /\ LET s == born + 1 IN
         /\ SpawnTasks(s)
         /\ connection' = s
         /\ tasks' = [reader |-> s, keepalive |-> s, keepalive_stop |-> s]
         /\ first' = s
         /\ reporters' = IF reconnect THEN reporters \cup {s} ELSE reporters
    /\ detached' = Detach({tasks.reader})
    /\ client' = "live"
    /\ session_lost' = None
    /\ supervisor' = IF reconnect THEN "waiting" ELSE "none"
    /\ supervisor_aborted' = FALSE /\ shutdown' = FALSE
    /\ announced' = "None"
    /\ attempt' = 0
    /\ delivery' = "running"
    /\ UNCHANGED <<held, aborted, stop_requests, disconnect_reason, rebuildVars,
                   reconnect>>

\* disconnect, step 0: ask the supervisor to stop.
DisconnectBegins ==
    /\ client = "live"
    /\ client' = "joining_supervisor"
    /\ shutdown' = ~SupervisorEnded
    /\ UNCHANGED <<held, connection, sockets, taskVars, slotVars, session_lost,
                   disconnect_reason, supervisor, supervisor_aborted, attempt,
                   rebuildVars, announced, setupVars, delivery>>

\* The supervisor ended, or SHUTDOWN_GRACE elapsed and it is aborted.  Then
\* step 1 takes the keepalive's stop channel out of its slot.
DisconnectJoinsSupervisor ==
    /\ client = "joining_supervisor"
    /\ client' = "stopping_keepalive"
    /\ AbortSupervisor
    /\ held' = tasks.keepalive_stop
    /\ tasks' = [tasks EXCEPT !.keepalive_stop = None]
    /\ UNCHANGED <<connection, sockets, taskVars, detached, session_lost,
                   disconnect_reason, supervisor, shutdown, attempt,
                   rebuildVars, announced, setupVars, delivery>>

\* sender.send(()).await, which has no deadline; then the handle is taken.
DisconnectStopsKeepalive ==
    /\ client = "stopping_keepalive"
    /\ IF held = None THEN UNCHANGED stop_requests
                      ELSE CanSendStop(held) /\ SendStop(held)
    /\ client' = "joining_keepalive"
    /\ held' = tasks.keepalive
    /\ tasks' = [tasks EXCEPT !.keepalive = None]
    /\ UNCHANGED <<connection, sockets, readers, aborted, keepalives, detached,
                   session_lost, disconnect_reason, supervisorVars, rebuildVars,
                   announced, setupVars, delivery>>

\* The keepalive ended, or SHUTDOWN_GRACE elapsed and it is aborted.
DisconnectJoinsKeepalive ==
    /\ client = "joining_keepalive"
    /\ client' = "closing_channels"
    /\ keepalives' = AbortedKeepalive(held)
    /\ held' = None
    /\ UNCHANGED <<connection, sockets, readers, aborted, stop_requests, slotVars,
                   session_lost, disconnect_reason, supervisorVars, rebuildVars,
                   announced, setupVars, delivery>>

\* Steps 3 and 4, after the channels were closed or SHUTDOWN_GRACE elapsed.
DisconnectFinishes ==
    /\ client = "closing_channels"
    /\ client' = "off"
    /\ AbortReader(tasks.reader)
    /\ tasks' = [tasks EXCEPT !.reader = None]
    /\ delivery' = "ended"
    /\ connection' = None
    /\ UNCHANGED <<held, sockets, readers, keepalives, stop_requests, detached,
                   session_lost, disconnect_reason, supervisorVars, rebuildVars,
                   announced, setupVars>>

\* Drop for DXLinkClient: abort the supervisor, and then, one lock after the
\* other, what is in the slots (SessionTasks::abort): the reader's, ...
DropClient ==
    /\ client \in {"fresh", "live", "off"}
    /\ client' = "aborting_keepalive"
    /\ AbortSupervisor
    /\ AbortReader(tasks.reader)
    /\ tasks' = [tasks EXCEPT !.reader = None]
    /\ UNCHANGED <<held, connection, sockets, readers, keepalives, stop_requests,
                   detached, session_lost, disconnect_reason, supervisor, shutdown,
                   attempt, rebuildVars, announced, setupVars, delivery>>

\* ... the keepalive's, ...
DropAbortsKeepalive ==
    /\ client = "aborting_keepalive"
    /\ client' = "aborting_rest"
    /\ keepalives' = AbortedKeepalive(tasks.keepalive)
    /\ tasks' = [tasks EXCEPT !.keepalive = None]
    /\ UNCHANGED <<held, connection, sockets, readers, aborted, stop_requests,
                   detached, session_lost, disconnect_reason, supervisorVars,
                   rebuildVars, announced, setupVars, delivery>>

\* ... the stop channel, the delivery worker, and the client's hold on the slots:
\* a handle put there meanwhile lives as long as the supervisor.
DropFinishes ==
    /\ client = "aborting_rest"
    /\ client' = "dropped"
    /\ IF SupervisorEnded
       THEN detached' = Detach({tasks.reader}) /\ tasks' = NoTasks
       ELSE /\ tasks' = [tasks EXCEPT !.keepalive_stop = None]
            /\ UNCHANGED detached
    /\ delivery' = "ended"
    /\ UNCHANGED <<held, connection, sockets, taskVars, session_lost,
                   disconnect_reason, supervisorVars, rebuildVars, announced,
                   setupVars>>

-----------------------------------------------------------------------------
ReaderStep(s) ==
    \/ ReaderFails(s) \/ ReaderRecords(s) \/ ReaderStopsKeepalive(s)
    \/ ReaderReports(s) \/ ReaderCancelled(s)

SupervisorStep ==
    \/ SupervisorStops \/ SupervisorLearnsOfLoss \/ SupervisorRetries
    \/ BackoffElapses \/ HandshakeFails \/ HandshakeSucceeds \/ SessionComesUp
    \/ ReplayAdvances \/ ReplayFails \/ SupervisorTearsDown
    \/ SupervisorInstallsReader \/ SupervisorInstallsKeepalive
    \/ SupervisorInstallsStop \/ SupervisorAnnounces \/ SupervisorCancelled

DisconnectStep ==
    \/ DisconnectJoinsSupervisor \/ DisconnectStopsKeepalive
    \/ DisconnectJoinsKeepalive \/ DisconnectFinishes

DropStep == DropAbortsKeepalive \/ DropFinishes

ClientStep ==
    \/ WithReconnect \/ ConnectBegins \/ ConnectFails \/ ConnectSucceeds
    \/ DisconnectBegins \/ DisconnectStep \/ DropClient \/ DropStep

Next ==
    \/ \E s \in Sessions :
          \/ PeerFails(s) \/ ReaderStep(s)
          \/ KeepaliveBlocks(s) \/ KeepaliveFails(s) \/ KeepaliveStops(s)
    \/ DeliveryEnds
    \/ SupervisorStep
    \/ ClientStep

Spec == Init /\ [][Next]_vars

\* The runtime polls every task that can make progress, a disconnect that began
\* is polled to its end, and a drop runs to its end.  The keepalive's select!
\* polls its branches in random order, and between two ticks there is only the
\* stop request: it is not passed over for ever.  Nothing makes the peer fail,
\* the owner call the client, or the interval tick.
Fairness ==
    /\ \A s \in Sessions :
          /\ WF_vars(ReaderStep(s))
          /\ WF_vars(KeepaliveFails(s) /\ keepalives[s] = "blocked")
          /\ WF_vars(KeepaliveStops(s))
    /\ WF_vars(DeliveryEnds)
    /\ WF_vars(SupervisorStep)
    /\ WF_vars(DisconnectStep)
    /\ WF_vars(DropStep)

FairSpec == Spec /\ Fairness
-----------------------------------------------------------------------------
(***************************************************************************)
(* Safety.                                                                 *)
(***************************************************************************)

\* A reader that runs and was not told to stop has an owner: its handle is in
\* the SessionTasks slots or in the supervisor's hands.  Only a detached one,
\* of a supervisor aborted mid-rebuild, escapes.
OwnedReaders ==
    \A s \in Sessions :
        ReaderLives(s) /\ s \notin aborted
            => s \in {tasks.reader, building} \cup detached

\* While the supervisor rests, the connection a caller gets and the tasks
\* disconnect would stop belong to one and the same session; a connection
\* whose replay failed is never left in the slot during a retry.
ConnectionIsOwned ==
    client \in {"live", "joining_supervisor"} =>
        /\ supervisor = "waiting" =>
              /\ connection = tasks.reader /\ connection = tasks.keepalive
              /\ connection = tasks.keepalive_stop /\ connection # None
        /\ supervisor \notin Rebuilding => connection \in {None, tasks.reader}

\* A loss reaches the supervisor only once the dead session's keepalive was
\* asked to stop, so a rebuild never races the old session's writer.
StopBeforeReport ==
    \A s \in Sessions :
        readers[s] = "reporting" \/ session_lost = s
            => stop_requests[s] \/ ~KeepaliveLives(s)

\* When the event stream of an unsupervised client has closed and the client
\* was not shut down, the reason was recorded first.
ClosedStreamHasReason ==
    client = "live" /\ ~Supervised /\ delivery = "ended"
        => disconnect_reason # None

\* Once disconnect returned or the client was dropped, nothing of this
\* connection is left running behind the owner's back, if the supervisor came
\* to an end by itself; of one that had to be aborted, and that nobody waits
\* for, at most one session: the one it was building.
LeftRunning == {s \in Sessions : s >= first /\ ReaderLives(s) /\ s \notin aborted}
StopLeavesNothing ==
    client \in {"off", "dropped"} =>
        /\ ~supervisor_aborted => LeftRunning = {}
        /\ \A r, s \in LeftRunning : r = s

\* The consumer is told of every outage in order: the loss, attempts numbered
\* from 1 to the limit, and how it ended (start_reconnect_supervisor, notify).
Told == INSTANCE Outages WITH
            attempt <- IF announced = "Reconnecting" THEN attempt ELSE 0
ImplementsOutages == Told!Spec

(***************************************************************************)
(* Liveness.  A send to a peer that stopped reading blocks, in the replay  *)
(* and in the keepalive, and nothing bounds it: what follows is said of    *)
(* sends that return.                                                      *)
(***************************************************************************)
SendBlocks == \E s \in Sessions : sockets[s] = "wedged"

\* A loss that was announced is resolved: the session is restored, the client
\* gives up, or the owner disconnects or drops it.
LossIsResolved ==
    announced \in {"Lost", "Reconnecting"}
        ~> announced \in {"Reconnected", "GaveUp"} \/ client # "live" \/ SendBlocks

\* With a policy, a live client never sits on a dead session.
DeathIsNoticed ==
    \A s \in Sessions :
        client = "live" /\ Supervised /\ tasks.reader = s /\ readers[s] = "ended"
            ~> \/ tasks.reader # s \/ announced = "GaveUp"
               \/ client # "live" \/ SendBlocks

\* Without a policy, the death of the session closes the event stream.
DeathClosesStream ==
    \A s \in Sessions :
        client = "live" /\ ~Supervised /\ tasks.reader = s /\ readers[s] = "failed"
            ~> delivery = "ended"

\* The maintenance writer does not outlive the reader, as long as the
\* supervisor is not aborted.
NoOrphanWriter ==
    \A s \in Sessions :
        readers[s] = "ended"
            ~> keepalives[s] = "ended" \/ supervisor_aborted \/ SendBlocks

\* A disconnect that was started returns.
DisconnectReturned == client \in {"off", "connecting", "dropped"}
DisconnectReturns ==
    client = "joining_supervisor" ~> DisconnectReturned \/ SendBlocks

(***************************************************************************)
(* What the documentation says and the code does not do.                   *)
(***************************************************************************)

\* "Lost: The session died."
LostMeansDead ==
    [][announced' = "Lost" /\ announced # "Lost" =>
           readers[tasks.reader] # "reading" \/ tasks.reader \in aborted]_vars

\* SHUTDOWN_GRACE: "How long shutdown waits for a cooperative step before
\* forcing it."
ShutdownIsBounded == client = "joining_supervisor" ~> DisconnectReturned

\* Drop: "Leaking two tasks per forgotten client is the failure this prevents".
DropStopsTheReaders ==
    \A s \in Sessions : client = "dropped" ~> ~ReaderLives(s)
=============================================================================
