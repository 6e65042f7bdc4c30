--------------------------- MODULE SessionPromises ---------------------------
(***************************************************************************)
(* Four more promises of the session, for every number of sessions, every  *)
(* limit of attempts and every plan: what the slots hold, why the stream   *)
(* of an unsupervised client closed, what a stopped client leaves running, *)
(* and that the supervisor announces what Outages says and nothing else.   *)
(* Each has an invariant of its own, which is inductive on top of the one  *)
(* of SessionProofs.                                                       *)
(***************************************************************************)
EXTENDS SessionProofs

\* The actions that move the supervisor, create a session or change what the
\* slots and the consumer see.  The others are listed in the lemma below.
Working == Rebuilding \cup {"backoff", "handshaking", "connected", "installed"}

(***************************************************************************)
(* What the consumer was told, against where the supervisor is.            *)
(***************************************************************************)
TellingInv ==
    /\ supervisor = "waiting" =>
          announced \in {"None", "Reconnected"} /\ attempt = 0
    /\ supervisor = "retrying" =>
          /\ announced \in {"Lost", "Reconnecting"}
          /\ announced = "Lost" => attempt = 0
    /\ supervisor \in Working => announced = "Reconnecting"

(***************************************************************************)
(* What the slots hold, against where the supervisor is.                   *)
(***************************************************************************)
Connected == client \in {"live", "joining_supervisor"}

SlotsInv ==
    Connected =>
        /\ ~supervisor_aborted
        /\ tasks.reader # None
        /\ supervisor # "reader_in" => tasks.keepalive = tasks.reader
        /\ supervisor \notin {"reader_in", "keepalive_in"} =>
              tasks.keepalive_stop = tasks.reader
        /\ supervisor \in {"reader_in", "keepalive_in"} =>
              tasks.reader = building
        /\ supervisor \in Rebuilding => connection = building
        /\ supervisor \notin Rebuilding => connection \in {None, tasks.reader}
        /\ supervisor \in {"waiting", "installed"} => connection = tasks.reader

(***************************************************************************)
(* A client without a supervisor: its one session, and why it ended.       *)
(***************************************************************************)
ReasonInv ==
    /\ supervisor = "none" <=> first \notin reporters
    /\ first <= born
    /\ supervisor = "none" => first = born
    /\ reporters \cup aborted \subseteq 1 .. born
    /\ client = "live" /\ supervisor = "none" =>
          /\ first \in Sessions /\ readers[first] # "unborn"
          /\ first \notin aborted
          /\ readers[first] \in {"stopping", "reporting", "ended"}
                => disconnect_reason # None
          /\ delivery = "ended" => readers[first] = "ended"

(***************************************************************************)
(* What is left of a connection: the readers that were detached, and what  *)
(* the slots hold once the client is done with them.                       *)
(***************************************************************************)
LetGo      == {s \in detached : s >= first}
Attempting == {"retrying", "backoff", "handshaking", "connected", "replaying",
               "failed", "rebuilt"}

LeftInv ==
    /\ ~SupervisorEnded \/ ~supervisor_aborted => LetGo = {}
    /\ \A r, s \in LetGo : r = s
    /\ client \in {"fresh", "connecting", "off", "dropped"} \cup Dropping =>
          /\ ~supervisor_aborted \/ supervisor \in Attempting
                => tasks.reader = None
          /\ supervisor \in {"reader_in", "keepalive_in"}
                => tasks.reader \in {None, building}
          /\ tasks.reader # None => LetGo = {}

-----------------------------------------------------------------------------
\* A step of the peer, the keepalive, the delivery worker or a stutter leaves
\* alone all that the three invariants speak of, but for the delivery worker.
LEMMA ElsewhereNothingChanges ==
    ASSUME \/ \E s \in Sessions : \/ PeerFails(s) \/ KeepaliveBlocks(s)
                                  \/ KeepaliveFails(s) \/ KeepaliveStops(s)
           \/ DeliveryEnds \/ UNCHANGED vars
    PROVE  /\ UNCHANGED <<client, connection, readers, aborted, tasks,
                          disconnect_reason, supervisor, supervisor_aborted,
                          attempt, building, announced, born, first, reporters>>
           /\ ~DeliveryEnds => UNCHANGED delivery
BY DEF PeerFails, KeepaliveBlocks, KeepaliveFails, KeepaliveStops, KeepaliveMoves,
       DeliveryEnds, vars, clientVars, taskVars, slotVars, supervisorVars,
       rebuildVars, setupVars

\* A step of the reader leaves the slots, the supervisor and its
\* announcements alone.
LEMMA ReaderChangesItself ==
    ASSUME NEW s \in Sessions, ReaderStep(s)
    PROVE  UNCHANGED <<client, connection, tasks, supervisor, supervisor_aborted,
                       attempt, building, announced, born, first, reporters,
                       delivery>>
BY DEF ReaderStep, ReaderFails, ReaderRecords, ReaderStopsKeepalive,
       ReaderReports, ReaderCancelled, clientVars, slotVars, supervisorVars,
       rebuildVars, setupVars

\* A step of the owner other than connecting leaves the announcements and the
\* supervisor alone; it may only mark it aborted.
LEMMA OwnerLeavesSupervisor ==
    ASSUME ClientStep, ~ConnectSucceeds
    PROVE  UNCHANGED <<supervisor, attempt, building, announced, born, first,
                       reporters, readers>>
BY DEF ClientStep, DisconnectStep, WithReconnect, ConnectBegins, ConnectFails,
       DisconnectBegins, DisconnectJoinsSupervisor, DisconnectStopsKeepalive,
       DisconnectJoinsKeepalive, DisconnectFinishes, DropClient, DropStep, DropAbortsKeepalive,
       DropFinishes, taskVars, supervisorVars, rebuildVars, setupVars

-----------------------------------------------------------------------------
\* Every step keeps TellingInv, and says to the consumer what Outages allows
\* or nothing.
LEMMA StepTells ==
    ASSUME IInv, TellingInv, [Next]_vars
    PROVE  TellingInv' /\ [Told!Next]_Told!outageVars
<1> USE DEF TellingInv, Working, Rebuilding, supervisorVars, rebuildVars
<1> DEFINE Quietly == UNCHANGED <<announced, attempt>>
<1>0. Quietly => [Told!Next]_Told!outageVars
  BY DEF Told!outageVars
<1>1. CASE /\ UNCHANGED <<supervisor, announced, attempt>>
  BY <1>0, <1>1
<1>2. CASE SupervisorStops
  BY <1>0, <1>2 DEF SupervisorStops
<1>3. CASE SupervisorLearnsOfLoss
  <2>1. /\ supervisor = "waiting" /\ supervisor' = "retrying"
        /\ announced' = "Lost" /\ attempt' = attempt
    BY <1>3 DEF SupervisorLearnsOfLoss
  <2>2. Told!Lose
    BY <2>1 DEF Told!Lose, Told!Quiet, Told!Announces
  <2>3. QED
    BY <2>1, <2>2 DEF Told!Next
<1>4. CASE SupervisorRetries
  <2>1. MaxAttempts \in Nat /\ attempt \in 0 .. MaxAttempts
    BY SessionAssumption DEF IInv, TypeOK
  <2>2. CASE LimitReached
    <3>1. /\ supervisor = "retrying" /\ supervisor' = "returned"
          /\ announced' = "GaveUp" /\ attempt' = attempt
      BY <1>4, <2>2 DEF SupervisorRetries
    <3>2. Told!GiveUp
      BY <3>1, <2>1, <2>2
      DEF Told!GiveUp, Told!InOutage, Told!Announces, LimitReached
    <3>3. QED
      BY <3>1, <3>2 DEF Told!Next
  <2>3. CASE ~LimitReached
    <3>1. /\ supervisor = "retrying" /\ supervisor' = "backoff"
          /\ announced' = "Reconnecting" /\ attempt' = attempt + 1
      BY <1>4, <2>3 DEF SupervisorRetries
    <3>2. Told!Try
      BY <3>1, <2>1, <2>3
      DEF Told!Try, Told!InOutage, Told!Announces, LimitReached
    <3>3. QED
      BY <3>1, <3>2 DEF Told!Next
  <2>4. QED
    BY <2>2, <2>3
<1>5. CASE BackoffElapses \/ HandshakeSucceeds \/ SessionComesUp
             \/ ReplayAdvances \/ ReplayFails \/ SupervisorInstallsReader
             \/ SupervisorInstallsKeepalive \/ SupervisorInstallsStop
             \/ SupervisorCancelled
  <2>1. Quietly
    BY <1>5 DEF BackoffElapses, HandshakeSucceeds, SessionComesUp,
       ReplayAdvances, ReplayFails, SupervisorInstallsReader,
       SupervisorInstallsKeepalive, SupervisorInstallsStop, SupervisorCancelled
  <2>2. /\ supervisor \in Working /\ supervisor' \in Working
        \/ supervisor' = "aborted"
    BY <1>5 DEF BackoffElapses, HandshakeSucceeds, SessionComesUp,
       ReplayAdvances, ReplayFails, SupervisorInstallsReader,
       SupervisorInstallsKeepalive, SupervisorInstallsStop, SupervisorCancelled
  <2>3. QED
    BY <1>0, <2>1, <2>2
<1>6. CASE HandshakeFails \/ SupervisorTearsDown
  <2>1. /\ supervisor \in Working /\ attempt' = attempt
        /\ \E worthRetrying \in BOOLEAN : AttemptFails(worthRetrying)
    BY <1>6, Zenon DEF HandshakeFails, SupervisorTearsDown, IInv, TypeOK
  <2>2. PICK worthRetrying \in BOOLEAN : AttemptFails(worthRetrying)
    BY <2>1
  <2>3. CASE worthRetrying
    BY <1>0, <2>1, <2>2, <2>3 DEF AttemptFails
  <2>4. CASE ~worthRetrying
    <3>1. /\ announced = "Reconnecting" /\ announced' = "GaveUp"
          /\ supervisor' = "returned"
      BY <2>1, <2>2, <2>4 DEF AttemptFails
    <3>2. Told!GiveUp
      BY <3>1 DEF Told!GiveUp, Told!InOutage, Told!Announces
    <3>3. QED
      BY <3>1, <3>2 DEF Told!Next
  <2>5. QED
    BY <2>3, <2>4
<1>7. CASE SupervisorAnnounces
  <2>1. /\ supervisor = "installed" /\ supervisor' = "waiting"
        /\ announced' = "Reconnected" /\ attempt' = 0
    BY <1>7 DEF SupervisorAnnounces
  <2>2. Told!Reconnect
    BY <2>1 DEF Told!Reconnect, Told!Announces
  <2>3. QED
    BY <2>1, <2>2 DEF Told!Next
<1>8. CASE ConnectSucceeds
  <2>1. /\ announced' = "None" /\ attempt' = 0
        /\ supervisor' \in {"waiting", "none"}
    BY <1>8 DEF ConnectSucceeds
  <2>2. Told!Restart
    BY <2>1 DEF Told!Restart, Told!Announces
  <2>3. QED
    BY <2>1, <2>2 DEF Told!Next
<1>9. QED
  BY <1>1, <1>2, <1>3, <1>4, <1>5, <1>6, <1>7, <1>8, ElsewhereNothingChanges,
     ReaderChangesItself, OwnerLeavesSupervisor
  DEF Next, SupervisorStep

\* For every limit of attempts, the client announces what Outages promises:
\* start_reconnect_supervisor and connect, step by step.
THEOREM AnnouncesOutages == Spec => ImplementsOutages
<1>1. Init => TellingInv /\ Told!Init
  BY DEF Init, TellingInv, Working, Rebuilding, Told!Init
<1>2. IInv /\ TellingInv /\ [Next]_vars => TellingInv' /\ [Told!Next]_Told!outageVars
  BY StepTells
<1>3. QED
  BY <1>1, <1>2, Invariance, PTL DEF Spec, ImplementsOutages, Told!Spec

-----------------------------------------------------------------------------
\* Every step keeps SlotsInv: install puts one session's tasks in the slots
\* (SessionTasks::install), and a failed rebuild empties the connection slot.
LEMMA StepKeepsSlots ==
    ASSUME IInv, SlotsInv, [Next]_vars
    PROVE  SlotsInv'
<1> USE DEF SlotsInv, Connected, Rebuilding, supervisorVars, slotVars,
            clientVars, rebuildVars
<1>1. CASE UNCHANGED <<client, connection, tasks, supervisor,
                       supervisor_aborted, building>>
  BY <1>1
<1>2. CASE SupervisorStops \/ SupervisorLearnsOfLoss \/ SupervisorRetries
             \/ BackoffElapses \/ HandshakeFails
  BY <1>2 DEF SupervisorStops, SupervisorLearnsOfLoss, SupervisorRetries,
              BackoffElapses, HandshakeFails, AttemptFails
<1>3. CASE HandshakeSucceeds \/ SessionComesUp
  BY <1>3 DEF HandshakeSucceeds, SessionComesUp
<1>4. CASE ReplayAdvances \/ ReplayFails
  BY <1>4 DEF ReplayAdvances, ReplayFails
<1>5. CASE SupervisorTearsDown
  BY <1>5 DEF SupervisorTearsDown, AttemptFails
<1>6. CASE SupervisorInstallsReader \/ SupervisorInstallsKeepalive
             \/ SupervisorInstallsStop
  BY <1>6 DEF SupervisorInstallsReader, SupervisorInstallsKeepalive,
     SupervisorInstallsStop, StopSlot, IInv, TypeOK, HandsFull
<1>7. CASE SupervisorAnnounces
  BY <1>7 DEF SupervisorAnnounces
<1>8. CASE SupervisorCancelled
  BY <1>8 DEF SupervisorCancelled
<1>9. CASE WithReconnect \/ ConnectBegins \/ ConnectFails \/ DisconnectStep
             \/ DropClient \/ DropStep
  BY <1>9 DEF WithReconnect, ConnectBegins, ConnectFails, DisconnectStep,
     DisconnectJoinsSupervisor, DisconnectStopsKeepalive,
     DisconnectJoinsKeepalive, DisconnectFinishes, DropClient, DropStep,
     DropAbortsKeepalive, DropFinishes
<1>10. CASE ConnectSucceeds
  <2>1. born + 1 \in Sessions
    BY <1>10, SessionsAreNumbers DEF IInv, TypeOK, ConnectSucceeds
  <2>2. QED
    BY <1>10, <2>1, NoneIsNoSession DEF ConnectSucceeds, SupervisorEnded
<1>11. CASE DisconnectBegins
  BY <1>11 DEF DisconnectBegins
<1>12. QED
  BY <1>1, <1>2, <1>3, <1>4, <1>5, <1>6, <1>7, <1>8, <1>9, <1>10, <1>11,
     ElsewhereNothingChanges, ReaderChangesItself
  DEF Next, SupervisorStep, ClientStep

\* While the supervisor rests, the connection a caller gets and the tasks
\* disconnect would stop are one session's, however often it was rebuilt.
THEOREM SlotsBelongTogether == Spec => []ConnectionIsOwned
<1>1. Init => SlotsInv
  BY DEF Init, SlotsInv, Connected
<1>2. IInv /\ SlotsInv /\ [Next]_vars => SlotsInv'
  BY StepKeepsSlots
<1>3. SlotsInv => ConnectionIsOwned
  BY DEF SlotsInv, Connected, ConnectionIsOwned, Rebuilding
<1>4. QED
  BY <1>1, <1>2, <1>3, Invariance, PTL DEF Spec

-----------------------------------------------------------------------------
\* Every step keeps ReasonInv: a reader that ends of itself has recorded why
\* (record_reason), and only a supervised or a closing client aborts one.
LEMMA StepKeepsReason ==
    ASSUME IInv, ReasonInv, [Next]_vars
    PROVE  ReasonInv'
<1>1. /\ born \in 0 .. MaxSessions /\ MaxSessions \in Nat /\ born \in Nat
      /\ first \in Nat
      /\ readers \in [Sessions -> ReaderStates]
  BY SessionAssumption, SessionsAreNumbers DEF IInv, TypeOK
<1> USE DEF ReasonInv, taskVars, setupVars, supervisorVars, clientVars, slotVars,
            rebuildVars
<1>2. CASE UNCHANGED <<client, readers, aborted, disconnect_reason, supervisor,
                       born, first, reporters, delivery>>
  BY <1>2
<1>3. CASE DeliveryEnds
  <2>1. UNCHANGED <<client, readers, aborted, disconnect_reason, supervisor,
                    born, first, reporters>>
    BY <1>3 DEF DeliveryEnds
  <2>2. client = "live" /\ supervisor = "none" => readers[first] = "ended"
    BY <1>1, <1>3
    DEF DeliveryEnds, DeliveryIsFed, SupervisorEnded, ReaderLives
  <2>3. QED
    BY <2>1, <2>2
<1>4. ASSUME NEW s \in Sessions, ReaderStep(s) PROVE ReasonInv'
  <2>1. UNCHANGED <<client, supervisor, born, first, reporters, delivery>>
    BY <1>4, ReaderChangesItself
  <2>2. aborted' \subseteq aborted
    BY <1>4 DEF ReaderStep, ReaderFails, ReaderRecords, ReaderStopsKeepalive,
                ReaderReports, ReaderCancelled
  <2>3. ASSUME client = "live", supervisor = "none"
        PROVE  /\ readers'[first] # "unborn"
               /\ readers'[first] \in {"stopping", "reporting", "ended"}
                      => disconnect_reason' # None
               /\ readers[first] = "ended" => readers'[first] = "ended"
    <3>1. CASE ReaderFails(s)
      BY <1>1, <2>3, <3>1 DEF ReaderFails
    <3>2. CASE ReaderRecords(s)
      BY <1>1, <2>3, <3>2, NoneIsNoSession DEF ReaderRecords, FirstReason
    <3>3. CASE ReaderStopsKeepalive(s)
      BY <1>1, <2>3, <3>3 DEF ReaderStopsKeepalive
    <3>4. CASE ReaderReports(s)
      BY <1>1, <2>3, <3>4 DEF ReaderReports
    <3>5. CASE ReaderCancelled(s)
      BY <1>1, <2>3, <3>5 DEF ReaderCancelled
    <3>6. QED
      BY <1>4, <3>1, <3>2, <3>3, <3>4, <3>5 DEF ReaderStep
  <2>4. QED
    BY <2>1, <2>2, <2>3
<1>5. CASE SupervisorStops \/ SupervisorLearnsOfLoss \/ SupervisorRetries
             \/ BackoffElapses \/ HandshakeFails \/ HandshakeSucceeds
             \/ ReplayAdvances \/ ReplayFails \/ SupervisorInstallsKeepalive
             \/ SupervisorInstallsStop \/ SupervisorAnnounces
             \/ SupervisorCancelled
  <2>1. /\ supervisor # "none" /\ supervisor' # "none"
        /\ UNCHANGED <<aborted, born, first, reporters>>
    BY <1>5 DEF SupervisorStops, SupervisorLearnsOfLoss, SupervisorRetries,
       BackoffElapses, HandshakeFails, HandshakeSucceeds, AttemptFails,
       ReplayAdvances, ReplayFails, SupervisorInstallsKeepalive,
       SupervisorInstallsStop, SupervisorAnnounces, SupervisorCancelled, Awaiting
  <2>2. QED
    BY <2>1
<1>6. CASE SessionComesUp
  <2>1. /\ supervisor # "none" /\ supervisor' # "none"
        /\ born' = born + 1 /\ reporters' = reporters \cup {born + 1}
        /\ UNCHANGED <<aborted, first>>
    BY <1>6 DEF SessionComesUp, SpawnTasks
  <2>2. QED
    BY <1>1, <2>1
<1>7. ASSUME NEW s, AbortReader(s), s \in Sessions \cup {None}
      PROVE  aborted \cup aborted' \subseteq 1 .. born
  BY <1>1, <1>7 DEF AbortReader, ReaderLives, IInv, BornFirst, Sessions
<1>8. CASE SupervisorTearsDown
  <2>1. /\ supervisor # "none" /\ supervisor' # "none"
        /\ AbortReader(building) /\ building \in Sessions \cup {None}
        /\ UNCHANGED <<born, first, reporters>>
    BY <1>8 DEF SupervisorTearsDown, AttemptFails, IInv, TypeOK
  <2>2. QED
    BY <1>7, <2>1
<1>9. CASE SupervisorInstallsReader
  <2>1. /\ supervisor # "none" /\ supervisor' # "none"
        /\ AbortReader(tasks.reader) /\ tasks.reader \in Sessions \cup {None}
        /\ UNCHANGED <<born, first, reporters>>
    BY <1>9 DEF SupervisorInstallsReader, IInv, TypeOK
  <2>2. QED
    BY <1>7, <2>1
<1>10. CASE ConnectSucceeds
  <2>1. /\ born + 1 \in Sessions
        /\ born' = born + 1 /\ first' = born + 1
        /\ readers' = [readers EXCEPT ![born + 1] = "reading"]
        /\ aborted' = aborted /\ delivery' = "running"
        /\ reporters' = IF reconnect THEN reporters \cup {born + 1}
                                     ELSE reporters
        /\ supervisor' = IF reconnect THEN "waiting" ELSE "none"
    BY <1>1, <1>10, SessionsAreNumbers DEF ConnectSucceeds, SpawnTasks
  <2>2. born + 1 \notin reporters /\ born + 1 \notin aborted
    BY <1>1
  <2>3. QED
    BY <1>1, <2>1, <2>2
<1>11. CASE WithReconnect \/ ConnectBegins \/ ConnectFails \/ DisconnectBegins
              \/ DisconnectJoinsSupervisor \/ DisconnectStopsKeepalive
              \/ DisconnectJoinsKeepalive \/ DropStep
  <2>1. /\ client' = "live" => client = "live" /\ UNCHANGED disconnect_reason
        /\ UNCHANGED aborted
        /\ client' = "live" => UNCHANGED delivery
    BY <1>11 DEF DropStep, DropAbortsKeepalive, DropFinishes, WithReconnect, ConnectBegins, ConnectFails, DisconnectBegins,
       DisconnectJoinsSupervisor, DisconnectStopsKeepalive,
       DisconnectJoinsKeepalive
  <2>2. UNCHANGED <<supervisor, born, first, reporters, readers>>
    BY <1>11 DEF DropStep, DropAbortsKeepalive, DropFinishes, WithReconnect, ConnectBegins, ConnectFails, DisconnectBegins,
       DisconnectJoinsSupervisor, DisconnectStopsKeepalive,
       DisconnectJoinsKeepalive
  <2>3. QED
    BY <2>1, <2>2
<1>12. CASE DisconnectFinishes \/ DropClient
  <2>1. /\ client' # "live"
        /\ AbortReader(tasks.reader) /\ tasks.reader \in Sessions \cup {None}
        /\ UNCHANGED <<supervisor, born, first, reporters>>
    BY <1>12 DEF DisconnectFinishes, DropClient, IInv, TypeOK
  <2>2. QED
    BY <1>7, <2>1
<1>13. QED
  BY <1>2, <1>3, <1>4, <1>5, <1>6, <1>8, <1>9, <1>10, <1>11, <1>12,
     ElsewhereNothingChanges
  DEF Next, SupervisorStep, ClientStep, DisconnectStep

\* The consumer of a client without a policy, whose stream has closed, finds
\* the reason recorded (record_reason, disconnect_reason).
THEOREM ClosedForAReason == Spec => []ClosedStreamHasReason
<1>1. Init => ReasonInv
  BY DEF Init, ReasonInv
<1>2. IInv /\ ReasonInv /\ [Next]_vars => ReasonInv'
  BY StepKeepsReason
<1>3. ReasonInv => ClosedStreamHasReason
  BY DEF ReasonInv, ClosedStreamHasReason, Supervised
<1>4. QED
  BY <1>1, <1>2, <1>3, Invariance, PTL DEF Spec

-----------------------------------------------------------------------------
\* Every step keeps LeftInv: only the supervisor's own end detaches a reader of
\* this connection, and a handle it puts into the slots after the client was
\* done with them is of the session it was building.
LEMMA StepKeepsLeft ==
    ASSUME IInv, LeftInv, [Next]_vars
    PROVE  LeftInv'
<1> USE DEF LeftInv, LetGo, SupervisorEnded, Attempting, Dropping, supervisorVars,
            slotVars, clientVars, rebuildVars, setupVars
<1>1. CASE UNCHANGED <<client, tasks, detached, supervisor, supervisor_aborted,
                       building, first>>
  BY <1>1
<1>2. ASSUME NEW s \in Sessions, ReaderStep(s) PROVE LeftInv'
  <2>1. UNCHANGED <<client, tasks, detached, supervisor, supervisor_aborted,
                    building, first>>
    BY <1>2 DEF ReaderStep, ReaderFails, ReaderRecords, ReaderStopsKeepalive,
                ReaderReports, ReaderCancelled
  <2>2. QED
    BY <1>1, <2>1
<1>3. CASE \/ \E s \in Sessions : \/ PeerFails(s) \/ KeepaliveBlocks(s)
                                  \/ KeepaliveFails(s) \/ KeepaliveStops(s)
           \/ DeliveryEnds
  <2>1. UNCHANGED <<client, tasks, detached, supervisor, supervisor_aborted,
                    building, first>>
    BY <1>3 DEF PeerFails, KeepaliveBlocks, KeepaliveFails, KeepaliveStops,
                KeepaliveMoves, DeliveryEnds
  <2>2. QED
    BY <1>1, <2>1
<1>4. CASE \/ SupervisorStops \/ SupervisorLearnsOfLoss \/ SupervisorRetries
           \/ BackoffElapses \/ HandshakeFails \/ HandshakeSucceeds
           \/ SessionComesUp \/ ReplayAdvances \/ ReplayFails
           \/ SupervisorTearsDown
  <2>1. /\ ~SupervisorEnded
        /\ \/ supervisor \in Attempting
           \/ supervisor = "waiting" /\ ~supervisor_aborted
        /\ supervisor' \in Attempting \cup {"returned"}
        /\ UNCHANGED <<client, tasks, detached, supervisor_aborted, first>>
    BY <1>4 DEF SupervisorStops, SupervisorLearnsOfLoss, SupervisorRetries,
       BackoffElapses, HandshakeFails, HandshakeSucceeds, SessionComesUp,
       AttemptFails, ReplayAdvances, ReplayFails, SupervisorTearsDown
  <2>2. QED
    BY <2>1
<1>5. CASE SupervisorInstallsReader
  <2>1. /\ supervisor = "rebuilt" /\ supervisor' = "reader_in"
        /\ tasks'.reader = building
        /\ UNCHANGED <<client, detached, supervisor_aborted, building, first>>
    BY <1>5 DEF SupervisorInstallsReader, IInv, TypeOK
  <2>2. client \in {"live", "joining_supervisor"} \/ supervisor_aborted
    BY <2>1 DEF IInv, Quiet
  <2>3. QED
    BY <2>1, <2>2
<1>6. CASE SupervisorInstallsKeepalive
  <2>1. /\ supervisor = "reader_in" /\ supervisor' = "keepalive_in"
        /\ tasks'.reader = tasks.reader
        /\ UNCHANGED <<client, detached, supervisor_aborted, building, first>>
    BY <1>6 DEF SupervisorInstallsKeepalive, IInv, TypeOK
  <2>2. QED
    BY <2>1
<1>7. CASE SupervisorInstallsStop \/ SupervisorAnnounces
  <2>1. /\ ~SupervisorEnded /\ supervisor' \in {"installed", "waiting"}
        /\ tasks'.reader = tasks.reader
        /\ UNCHANGED <<client, detached, supervisor_aborted, first>>
    BY <1>7 DEF SupervisorInstallsStop, SupervisorAnnounces, IInv, TypeOK
  <2>2. QED
    BY <2>1
<1>8. CASE SupervisorCancelled
  <2>1. /\ supervisor_aborted /\ supervisor \in Awaiting
        /\ supervisor' = "aborted" /\ LetGo = {}
        /\ UNCHANGED <<client, supervisor_aborted, first>>
    BY <1>8 DEF SupervisorCancelled, Awaiting
  <2>2. building # None => supervisor \in Attempting
    BY <2>1 DEF IInv, HandsFull, Rebuilding, Awaiting
  <2>3. CASE client = "dropped"
    <3>1. /\ tasks'.reader = None
          /\ detached' = detached \cup ({building, tasks.reader} \ {None})
      BY <1>8, <2>3 DEF SupervisorCancelled, Detach, NoTasks
    <3>2. building = None \/ tasks.reader = None
      BY <2>2, <2>3
    <3>3. QED
      BY <2>1, <3>1, <3>2
  <2>4. CASE client # "dropped"
    <3>1. /\ tasks' = tasks
          /\ detached' = detached \cup ({building} \ {None})
      BY <1>8, <2>4 DEF SupervisorCancelled, Detach
    <3>2. QED
      BY <2>1, <2>2, <3>1
  <2>5. QED
    BY <2>3, <2>4
<1>9. CASE WithReconnect \/ ConnectBegins \/ ConnectFails \/ DisconnectBegins
  BY <1>9 DEF WithReconnect, ConnectBegins, ConnectFails, DisconnectBegins
<1>10. CASE ConnectSucceeds
  <2>1. /\ detached' = detached \cup ({tasks.reader} \ {None})
        /\ first' = born + 1 /\ client' = "live"
    BY <1>10 DEF ConnectSucceeds, Detach
  <2>2. \A s \in detached' : s \in Nat /\ s <= born
    BY <2>1, HandlesAreNumbers DEF IInv, BornFirst
  <2>3. LetGo' = {}
    BY <2>1, <2>2, HandlesAreNumbers DEF IInv
  <2>4. QED
    BY <2>1, <2>3
<1>11. CASE DisconnectJoinsSupervisor \/ DisconnectStopsKeepalive
              \/ DisconnectJoinsKeepalive
  BY <1>11 DEF DisconnectJoinsSupervisor, DisconnectStopsKeepalive,
     DisconnectJoinsKeepalive, AbortSupervisor
<1>12. CASE DisconnectFinishes \/ DropClient
  <2>1. /\ tasks'.reader = None
        /\ UNCHANGED <<detached, supervisor, building, first>>
        /\ supervisor_aborted => supervisor_aborted'
    BY <1>12 DEF DisconnectFinishes, DropClient, AbortSupervisor, IInv, TypeOK
  <2>2. QED
    BY <2>1
<1>13. CASE DropAbortsKeepalive
  <2>1. /\ client \in Dropping /\ tasks'.reader = tasks.reader
        /\ UNCHANGED <<detached, supervisor, supervisor_aborted, building, first>>
    BY <1>13 DEF DropAbortsKeepalive, IInv, TypeOK
  <2>2. QED
    BY <2>1
<1>14. CASE DropFinishes
  <2>1. /\ client \in Dropping
        /\ UNCHANGED <<supervisor, supervisor_aborted, building, first>>
    BY <1>14 DEF DropFinishes
  <2>2. CASE SupervisorEnded
    <3>1. /\ tasks'.reader = None
          /\ detached' = detached \cup ({tasks.reader} \ {None})
      BY <1>14, <2>2 DEF DropFinishes, Detach, NoTasks
    <3>2. QED
      BY <2>1, <2>2, <3>1
  <2>3. CASE ~SupervisorEnded
    <3>1. tasks'.reader = tasks.reader /\ detached' = detached
      BY <1>14, <2>3 DEF DropFinishes, IInv, TypeOK
    <3>2. QED
      BY <2>1, <3>1
  <2>4. QED
    BY <2>2, <2>3
<1>15. CASE UNCHANGED vars
  BY <1>1, <1>15 DEF vars
<1>16. QED
  BY <1>2, <1>3, <1>4, <1>5, <1>6, <1>7, <1>8, <1>9, <1>10, <1>11, <1>12, <1>13,
     <1>14, <1>15
  DEF Next, SupervisorStep, ClientStep, DisconnectStep, DropStep

\* A disconnect that returned, or a drop, leaves no reader of the connection
\* running once the supervisor came to an end by itself (disconnect, Drop),
\* and at most one behind a supervisor that was aborted and not waited for.
THEOREM LittleIsLeft == Spec => []StopLeavesNothing
<1>1. Init => LeftInv
  BY DEF Init, LeftInv, LetGo, NoTasks, Attempting, Dropping
<1>2. IInv /\ LeftInv /\ [Next]_vars => LeftInv'
  BY StepKeepsLeft
<1>3. IInv /\ LeftInv => StopLeavesNothing
  <2> SUFFICES ASSUME IInv, LeftInv, client \in {"off", "dropped"}
               PROVE  /\ ~supervisor_aborted => LeftRunning = {}
                      /\ \A r, s \in LeftRunning : r = s
    BY DEF StopLeavesNothing
  <2>1. \A s \in LeftRunning : s # None /\ s \in {tasks.reader, building} \cup LetGo
    BY NoneIsNoSession DEF LeftRunning, IInv, OwnedReaders, LetGo
  <2>2. building # None => /\ ~SupervisorEnded
                           /\ tasks.reader \in {None, building}
    BY DEF IInv, HandsFull, Rebuilding, SupervisorEnded, LeftInv, Attempting
  <2>3. ~supervisor_aborted => LeftRunning = {}
    BY <2>1, <2>2 DEF IInv, Quiet, LeftInv
  <2>4. \A r, s \in LeftRunning : r = s
    BY <2>1, <2>2 DEF LeftInv
  <2>5. QED
    BY <2>3, <2>4
<1>4. QED
  BY <1>1, <1>2, <1>3, Invariance, PTL DEF Spec
=============================================================================
