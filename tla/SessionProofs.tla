---------------------------- MODULE SessionProofs ----------------------------
(***************************************************************************)
(* Proofs about the session lifecycle for every number of sessions, every  *)
(* limit of attempts and every replay plan.  The inductive invariant adds  *)
(* to the properties what they lean on: where the supervisor stands when   *)
(* it holds a session under construction, that only sessions that were     *)
(* born have tasks or report a loss, and that the supervisor is over or    *)
(* being aborted outside the part of disconnect that waits for it.         *)
(***************************************************************************)
EXTENDS Session, TLAPS

\* The supervisor holds the handles of a session exactly while it rebuilds
\* one, and has something left to replay exactly while it replays.
HandsFull ==
    /\ building # None <=> supervisor \in Rebuilding
    /\ supervisor = "replaying" => todo # << >>

\* Only sessions that were born have tasks or report their loss, and a
\* handshake that ends has a session left to create.
BornFirst ==
    /\ \A s \in Sessions : readers[s] # "unborn" => s <= born
    /\ session_lost <= born
    /\ tasks.reader <= born /\ building <= born
    /\ \A s \in detached : s <= born
    /\ supervisor = "connected" => born < MaxSessions

\* Outside the life of a connection the supervisor ended or is about to.
Quiet == client \in {"live", "joining_supervisor"} \/ SupervisorEnded
            \/ supervisor_aborted

\* Once install has been through the reader's slot, the new reader is there
\* or was taken from there and aborted.
HandInSlot ==
    supervisor \in {"reader_in", "keepalive_in"}
        /\ ReaderLives(building) /\ building \notin aborted
            => tasks.reader = building

IInv == TypeOK /\ HandsFull /\ BornFirst /\ Quiet /\ OwnedReaders
           /\ HandInSlot /\ StopBeforeReport

-----------------------------------------------------------------------------
\* The number that stands for no session is not one.
LEMMA NoneIsNoSession == None \notin Sessions
BY DEF None, Sessions

\* Below the bound there is a next session.
LEMMA SessionsAreNumbers ==
    /\ Sessions \subseteq Nat
    /\ \A n \in 0 .. MaxSessions :
          /\ n \in Nat
          /\ n < MaxSessions =>
                n + 1 \in Sessions /\ n + 1 \in 0 .. MaxSessions
BY SessionAssumption DEF Sessions

\* The sessions that stand for a task, a handle or a report are numbers.
LEMMA HandlesAreNumbers ==
    TypeOK => /\ born \in Nat /\ None \in Nat
              /\ tasks.reader \in Nat /\ building \in Nat /\ session_lost \in Nat
              /\ \A s \in detached : s \in Nat
<1> SUFFICES ASSUME TypeOK
             PROVE  /\ born \in Nat /\ None \in Nat
                    /\ tasks.reader \in Nat /\ building \in Nat
                    /\ session_lost \in Nat
                    /\ \A s \in detached : s \in Nat
  OBVIOUS
<1>1. None \in Nat
  BY DEF None
<1>2. /\ tasks.reader \in Sessions \cup {None} /\ building \in Sessions \cup {None}
      /\ session_lost \in Sessions \cup {None} /\ detached \subseteq Sessions
      /\ born \in 0 .. MaxSessions
  BY DEF TypeOK
<1>3. QED
  BY <1>1, <1>2, SessionsAreNumbers

\* A stop request leaves the channels well-typed.
LEMMA StopRequestsType ==
    ASSUME NEW s \in Sessions, SendStop(s),
           stop_requests \in [Sessions -> BOOLEAN]
    PROVE  stop_requests' \in [Sessions -> BOOLEAN]
BY DEF SendStop, KeepaliveLives

\* Nothing to replay is a plan, and so is what is left after one step.
LEMMA EmptyPlan == << >> \in Seq({"send", "answer"})
OBVIOUS

\* What is left of a plan after one step of replay_session is a plan.
LEMMA Tails ==
    \A p \in Seq({"send", "answer"}) :
        p # << >> => Tail(p) \in Seq({"send", "answer"})
OBVIOUS

\* DXLinkClient::new establishes the invariant.
LEMMA InitIInv == Init => IInv
<1> SUFFICES ASSUME Init PROVE IInv
  OBVIOUS
<1>1. TypeOK
  <2>1. /\ stop_requests \in [Sessions -> BOOLEAN]
        /\ supervisor_aborted \in BOOLEAN /\ shutdown \in BOOLEAN
        /\ retryable \in BOOLEAN /\ reconnect \in BOOLEAN
    BY Zenon DEF Init
  <2>2. /\ attempt \in 0 .. MaxAttempts
        /\ born \in 0 .. MaxSessions /\ first \in 0 .. MaxSessions
    BY SessionAssumption DEF Init
  <2>3. QED
    BY <2>1, <2>2, EmptyPlan
    DEF Init, TypeOK, ClientStates, SocketStates, ReaderStates,
        KeepaliveStates, SupervisorStates, Awaiting, Announcements, NoTasks
<1>2. HandsFull /\ Quiet
  BY DEF Init, HandsFull, Quiet, Rebuilding, SupervisorEnded, None
<1>3. BornFirst /\ OwnedReaders /\ HandInSlot
  BY DEF Init, BornFirst, OwnedReaders, HandInSlot, ReaderLives, NoTasks, None
<1>4. StopBeforeReport
  BY NoneIsNoSession DEF Init, StopBeforeReport
<1>5. QED
  BY <1>1, <1>2, <1>3, <1>4 DEF IInv

-----------------------------------------------------------------------------
(***************************************************************************)
(* One step per action, under it one per part of the invariant.            *)
(***************************************************************************)
\* A step of the protocol reader (spawn_reader) keeps the invariant.
LEMMA ReaderKeepsIInv ==
    ASSUME NEW s \in Sessions, IInv, ReaderStep(s)
    PROVE  IInv'
<1> USE DEF IInv, TypeOK, clientVars, taskVars, slotVars, rebuildVars,
            supervisorVars, setupVars, Rebuilding, Dropping
<1>1. CASE ReaderFails(s)
  <2>1. TypeOK'
    BY <1>1
    DEF ReaderFails, ClientStates, SocketStates, ReaderStates, KeepaliveStates,
        SupervisorStates, Announcements, Awaiting, Disconnecting
  <2>2. HandsFull' /\ BornFirst' /\ Quiet'
    BY <1>1
    DEF ReaderFails, HandsFull, BornFirst, Quiet, SupervisorEnded, Rebuilding
  <2>3. OwnedReaders' /\ HandInSlot'
    BY <1>1 DEF ReaderFails, OwnedReaders, HandInSlot, ReaderLives
  <2>4. StopBeforeReport'
    BY <1>1 DEF ReaderFails, StopBeforeReport, KeepaliveLives
  <2>5. QED
    BY <2>1, <2>2, <2>3, <2>4
<1>2. CASE ReaderRecords(s)
  <2>1. TypeOK'
    BY <1>2
    DEF ReaderRecords, ClientStates, SocketStates, ReaderStates,
        KeepaliveStates, SupervisorStates, Announcements, Awaiting,
        Disconnecting, FirstReason
  <2>2. HandsFull' /\ BornFirst' /\ Quiet'
    BY <1>2
    DEF ReaderRecords, HandsFull, BornFirst, Quiet, SupervisorEnded, Rebuilding
  <2>3. OwnedReaders' /\ HandInSlot'
    BY <1>2 DEF ReaderRecords, OwnedReaders, HandInSlot, ReaderLives
  <2>4. StopBeforeReport'
    BY <1>2 DEF ReaderRecords, StopBeforeReport, KeepaliveLives
  <2>5. QED
    BY <2>1, <2>2, <2>3, <2>4
<1>3. CASE ReaderStopsKeepalive(s)
  <2>1. TypeOK'
    BY <1>3
    DEF ReaderStopsKeepalive, ClientStates, SocketStates, ReaderStates,
        KeepaliveStates, SupervisorStates, Announcements, Awaiting,
        Disconnecting, SendStop, KeepaliveLives
  <2>2. HandsFull' /\ BornFirst' /\ Quiet'
    BY <1>3
    DEF ReaderStopsKeepalive, HandsFull, BornFirst, Quiet, SupervisorEnded,
        Rebuilding
  <2>3. OwnedReaders' /\ HandInSlot'
    BY <1>3 DEF ReaderStopsKeepalive, OwnedReaders, HandInSlot, ReaderLives
  <2>4. StopBeforeReport'
    BY <1>3
    DEF ReaderStopsKeepalive, StopBeforeReport, KeepaliveLives, SendStop
  <2>5. QED
    BY <2>1, <2>2, <2>3, <2>4
<1>4. CASE ReaderReports(s)
  <2>1. TypeOK'
    BY <1>4
    DEF ReaderReports, ClientStates, SocketStates, ReaderStates,
        KeepaliveStates, SupervisorStates, Announcements, Awaiting,
        Disconnecting
  <2>2. HandsFull' /\ BornFirst' /\ Quiet'
    BY <1>4
    DEF ReaderReports, HandsFull, BornFirst, Quiet, SupervisorEnded, Rebuilding
  <2>3. OwnedReaders' /\ HandInSlot'
    BY <1>4 DEF ReaderReports, OwnedReaders, HandInSlot, ReaderLives
  <2>4. StopBeforeReport'
    BY <1>4 DEF ReaderReports, StopBeforeReport, KeepaliveLives
  <2>5. QED
    BY <2>1, <2>2, <2>3, <2>4
<1>5. CASE ReaderCancelled(s)
  <2>1. TypeOK'
    BY <1>5
    DEF ReaderCancelled, ClientStates, SocketStates, ReaderStates,
        KeepaliveStates, SupervisorStates, Announcements, Awaiting,
        Disconnecting
  <2>2. HandsFull' /\ BornFirst' /\ Quiet'
    BY <1>5
    DEF ReaderCancelled, HandsFull, BornFirst, Quiet, SupervisorEnded,
        Rebuilding
  <2>3. OwnedReaders' /\ HandInSlot'
    BY <1>5 DEF ReaderCancelled, OwnedReaders, HandInSlot, ReaderLives
  <2>4. StopBeforeReport'
    BY <1>5 DEF ReaderCancelled, StopBeforeReport, KeepaliveLives
  <2>5. QED
    BY <2>1, <2>2, <2>3, <2>4
<1>6. QED
  BY <1>1, <1>2, <1>3, <1>4, <1>5 DEF ReaderStep

\* A step of the maintenance writer (spawn_keepalive) keeps the invariant.
LEMMA KeepaliveKeepsIInv ==
    ASSUME NEW s \in Sessions, IInv,
           KeepaliveBlocks(s) \/ KeepaliveFails(s) \/ KeepaliveStops(s)
    PROVE  IInv'
<1> USE DEF IInv, TypeOK, clientVars, taskVars, slotVars, rebuildVars,
            supervisorVars, setupVars, Rebuilding, Dropping
<1>1. CASE KeepaliveBlocks(s)
  <2>1. TypeOK'
    BY <1>1
    DEF KeepaliveBlocks, ClientStates, SocketStates, ReaderStates,
        KeepaliveStates, SupervisorStates, Announcements, Awaiting,
        Disconnecting, KeepaliveMoves
  <2>2. HandsFull' /\ BornFirst' /\ Quiet'
    BY <1>1
    DEF KeepaliveBlocks, HandsFull, BornFirst, Quiet, SupervisorEnded,
        Rebuilding, KeepaliveMoves
  <2>3. OwnedReaders' /\ HandInSlot'
    BY <1>1 DEF KeepaliveBlocks, OwnedReaders, HandInSlot, ReaderLives, KeepaliveMoves
  <2>4. StopBeforeReport'
    BY <1>1
    DEF KeepaliveBlocks, StopBeforeReport, KeepaliveLives, KeepaliveMoves
  <2>5. QED
    BY <2>1, <2>2, <2>3, <2>4
<1>2. CASE KeepaliveFails(s)
  <2>1. TypeOK'
    BY <1>2
    DEF KeepaliveFails, ClientStates, SocketStates, ReaderStates,
        KeepaliveStates, SupervisorStates, Announcements, Awaiting,
        Disconnecting, KeepaliveMoves
  <2>2. HandsFull' /\ BornFirst' /\ Quiet'
    BY <1>2
    DEF KeepaliveFails, HandsFull, BornFirst, Quiet, SupervisorEnded,
        Rebuilding, KeepaliveMoves
  <2>3. OwnedReaders' /\ HandInSlot'
    BY <1>2 DEF KeepaliveFails, OwnedReaders, HandInSlot, ReaderLives, KeepaliveMoves
  <2>4. StopBeforeReport'
    BY <1>2
    DEF KeepaliveFails, StopBeforeReport, KeepaliveLives, KeepaliveMoves
  <2>5. QED
    BY <2>1, <2>2, <2>3, <2>4
<1>3. CASE KeepaliveStops(s)
  <2>1. TypeOK'
    BY <1>3
    DEF KeepaliveStops, ClientStates, SocketStates, ReaderStates,
        KeepaliveStates, SupervisorStates, Announcements, Awaiting,
        Disconnecting, KeepaliveMoves
  <2>2. HandsFull' /\ BornFirst' /\ Quiet'
    BY <1>3
    DEF KeepaliveStops, HandsFull, BornFirst, Quiet, SupervisorEnded,
        Rebuilding, KeepaliveMoves
  <2>3. OwnedReaders' /\ HandInSlot'
    BY <1>3 DEF KeepaliveStops, OwnedReaders, HandInSlot, ReaderLives, KeepaliveMoves
  <2>4. StopBeforeReport'
    BY <1>3
    DEF KeepaliveStops, StopBeforeReport, KeepaliveLives, KeepaliveMoves
  <2>5. QED
    BY <2>1, <2>2, <2>3, <2>4
<1>4. QED
  BY <1>1, <1>2, <1>3

\* So does a failing peer, the end of the delivery worker and a stutter.
LEMMA OutsideKeepsIInv ==
    ASSUME IInv,
           \/ \E s \in Sessions : PeerFails(s)
           \/ DeliveryEnds
           \/ UNCHANGED vars
    PROVE  IInv'
<1> USE DEF IInv, TypeOK, clientVars, taskVars, slotVars, rebuildVars,
            supervisorVars, setupVars, Rebuilding, Dropping
<1>1. CASE \E s \in Sessions : PeerFails(s)
  <2>1. TypeOK'
    BY <1>1
    DEF PeerFails, ClientStates, SocketStates, ReaderStates, KeepaliveStates,
        SupervisorStates, Announcements, Awaiting, Disconnecting
  <2>2. HandsFull' /\ BornFirst' /\ Quiet'
    BY <1>1
    DEF PeerFails, HandsFull, BornFirst, Quiet, SupervisorEnded, Rebuilding
  <2>3. OwnedReaders' /\ HandInSlot'
    BY <1>1 DEF PeerFails, OwnedReaders, HandInSlot, ReaderLives
  <2>4. StopBeforeReport'
    BY <1>1 DEF PeerFails, StopBeforeReport, KeepaliveLives
  <2>5. QED
    BY <2>1, <2>2, <2>3, <2>4
<1>2. CASE DeliveryEnds
  <2>1. TypeOK'
    BY <1>2
    DEF DeliveryEnds, ClientStates, SocketStates, ReaderStates,
        KeepaliveStates, SupervisorStates, Announcements, Awaiting,
        Disconnecting
  <2>2. HandsFull' /\ BornFirst' /\ Quiet'
    BY <1>2
    DEF DeliveryEnds, HandsFull, BornFirst, Quiet, SupervisorEnded, Rebuilding
  <2>3. OwnedReaders' /\ HandInSlot'
    BY <1>2 DEF DeliveryEnds, OwnedReaders, HandInSlot, ReaderLives
  <2>4. StopBeforeReport'
    BY <1>2 DEF DeliveryEnds, StopBeforeReport, KeepaliveLives
  <2>5. QED
    BY <2>1, <2>2, <2>3, <2>4
<1>3. CASE UNCHANGED vars
  <2>1. TypeOK'
    BY <1>3
    DEF vars, ClientStates, SocketStates, ReaderStates, KeepaliveStates,
        SupervisorStates, Announcements, Awaiting, Disconnecting
  <2>2. HandsFull' /\ BornFirst' /\ Quiet'
    BY <1>3 DEF vars, HandsFull, BornFirst, Quiet, SupervisorEnded, Rebuilding
  <2>3. OwnedReaders' /\ HandInSlot'
    BY <1>3 DEF vars, OwnedReaders, HandInSlot, ReaderLives
  <2>4. StopBeforeReport'
    BY <1>3 DEF vars, StopBeforeReport, KeepaliveLives
  <2>5. QED
    BY <2>1, <2>2, <2>3, <2>4
<1>4. QED
  BY <1>1, <1>2, <1>3

\* A step of the reconnect supervisor keeps the invariant.
LEMMA SupervisorKeepsIInv ==
    ASSUME IInv, SupervisorStep
    PROVE  IInv'
<1> USE DEF IInv, TypeOK, clientVars, taskVars, slotVars, rebuildVars,
            supervisorVars, setupVars, Rebuilding, Dropping
<1>1. CASE SupervisorStops
  <2>1. TypeOK'
    <3>1. shutdown' \in BOOLEAN
      BY <1>1, Zenon DEF SupervisorStops
    <3>2. QED
      BY <1>1, <3>1 DEF SupervisorStops, SupervisorStates, Awaiting
  <2>2. HandsFull' /\ BornFirst' /\ Quiet'
    BY <1>1
    DEF SupervisorStops, HandsFull, BornFirst, Quiet, SupervisorEnded,
        Rebuilding
  <2>3. OwnedReaders' /\ HandInSlot'
    BY <1>1 DEF SupervisorStops, OwnedReaders, HandInSlot, ReaderLives
  <2>4. StopBeforeReport'
    BY <1>1 DEF SupervisorStops, StopBeforeReport, KeepaliveLives
  <2>5. QED
    BY <2>1, <2>2, <2>3, <2>4
<1>2. CASE SupervisorLearnsOfLoss
  <2>1. TypeOK'
    BY <1>2
    DEF SupervisorLearnsOfLoss, ClientStates, SocketStates, ReaderStates,
        KeepaliveStates, SupervisorStates, Announcements, Awaiting,
        Disconnecting
  <2>2. HandsFull' /\ BornFirst' /\ Quiet'
    BY <1>2, SessionsAreNumbers
    DEF SupervisorLearnsOfLoss, HandsFull, BornFirst, Quiet, SupervisorEnded,
        Rebuilding, None
  <2>3. OwnedReaders' /\ HandInSlot'
    BY <1>2 DEF SupervisorLearnsOfLoss, OwnedReaders, HandInSlot, ReaderLives
  <2>4. StopBeforeReport'
    BY <1>2, NoneIsNoSession
    DEF SupervisorLearnsOfLoss, StopBeforeReport, KeepaliveLives, None
  <2>5. QED
    BY <2>1, <2>2, <2>3, <2>4
<1>3. CASE SupervisorRetries
  <2>1. TypeOK'
    BY <1>3, SessionAssumption
    DEF SupervisorRetries, ClientStates, SocketStates, ReaderStates,
        KeepaliveStates, SupervisorStates, Announcements, Awaiting,
        Disconnecting, LimitReached
  <2>2. HandsFull' /\ BornFirst' /\ Quiet'
    BY <1>3
    DEF SupervisorRetries, HandsFull, BornFirst, Quiet, SupervisorEnded,
        Rebuilding
  <2>3. OwnedReaders' /\ HandInSlot'
    BY <1>3 DEF SupervisorRetries, OwnedReaders, HandInSlot, ReaderLives
  <2>4. StopBeforeReport'
    BY <1>3 DEF SupervisorRetries, StopBeforeReport, KeepaliveLives
  <2>5. QED
    BY <2>1, <2>2, <2>3, <2>4
<1>4. CASE BackoffElapses
  <2>1. TypeOK'
    BY <1>4
    DEF BackoffElapses, ClientStates, SocketStates, ReaderStates,
        KeepaliveStates, SupervisorStates, Announcements, Awaiting,
        Disconnecting
  <2>2. HandsFull' /\ BornFirst' /\ Quiet'
    BY <1>4
    DEF BackoffElapses, HandsFull, BornFirst, Quiet, SupervisorEnded,
        Rebuilding
  <2>3. OwnedReaders' /\ HandInSlot'
    BY <1>4 DEF BackoffElapses, OwnedReaders, HandInSlot, ReaderLives
  <2>4. StopBeforeReport'
    BY <1>4 DEF BackoffElapses, StopBeforeReport, KeepaliveLives
  <2>5. QED
    BY <2>1, <2>2, <2>3, <2>4
<1>5. CASE HandshakeFails
  <2>1. TypeOK'
    BY <1>5
    DEF HandshakeFails, ClientStates, SocketStates, ReaderStates,
        KeepaliveStates, SupervisorStates, Announcements, Awaiting,
        Disconnecting, AttemptFails
  <2>2. HandsFull' /\ BornFirst' /\ Quiet'
    BY <1>5
    DEF HandshakeFails, HandsFull, BornFirst, Quiet, SupervisorEnded,
        Rebuilding, AttemptFails
  <2>3. OwnedReaders' /\ HandInSlot'
    BY <1>5 DEF HandshakeFails, OwnedReaders, HandInSlot, ReaderLives, AttemptFails
  <2>4. StopBeforeReport'
    BY <1>5 DEF HandshakeFails, StopBeforeReport, KeepaliveLives, AttemptFails
  <2>5. QED
    BY <2>1, <2>2, <2>3, <2>4
<1>6. CASE HandshakeSucceeds
  <2>1. TypeOK'
    BY <1>6
    DEF HandshakeSucceeds, ClientStates, SocketStates, ReaderStates,
        KeepaliveStates, SupervisorStates, Announcements, Awaiting,
        Disconnecting
  <2>2. HandsFull' /\ BornFirst' /\ Quiet'
    BY <1>6
    DEF HandshakeSucceeds, HandsFull, BornFirst, Quiet, SupervisorEnded
  <2>3. OwnedReaders' /\ HandInSlot'
    BY <1>6 DEF HandshakeSucceeds, OwnedReaders, HandInSlot, ReaderLives
  <2>4. StopBeforeReport'
    BY <1>6 DEF HandshakeSucceeds, StopBeforeReport, KeepaliveLives
  <2>5. QED
    BY <2>1, <2>2, <2>3, <2>4
<1>7. CASE ReplayAdvances
  <2>1. TypeOK'
    BY <1>7, Tails
    DEF ReplayAdvances, ClientStates, SocketStates, ReaderStates,
        KeepaliveStates, SupervisorStates, Announcements, Awaiting,
        Disconnecting, HandsFull, Rebuilding
  <2>2. HandsFull' /\ BornFirst' /\ Quiet'
    BY <1>7
    DEF ReplayAdvances, HandsFull, BornFirst, Quiet, SupervisorEnded,
        Rebuilding
  <2>3. OwnedReaders' /\ HandInSlot'
    BY <1>7 DEF ReplayAdvances, OwnedReaders, HandInSlot, ReaderLives
  <2>4. StopBeforeReport'
    BY <1>7 DEF ReplayAdvances, StopBeforeReport, KeepaliveLives
  <2>5. QED
    BY <2>1, <2>2, <2>3, <2>4
<1>8. CASE ReplayFails
  <2>1. TypeOK'
    <3>1. retryable' \in BOOLEAN
      BY <1>8, Zenon DEF ReplayFails
    <3>2. supervisor' = "failed" /\ todo' = todo
      BY <1>8 DEF ReplayFails
    <3>3. QED
      BY <1>8, <3>1, <3>2 DEF ReplayFails, SupervisorStates, Awaiting
  <2>2. HandsFull' /\ BornFirst' /\ Quiet'
    BY <1>8
    DEF ReplayFails, HandsFull, BornFirst, Quiet, SupervisorEnded, Rebuilding
  <2>3. OwnedReaders' /\ HandInSlot'
    BY <1>8 DEF ReplayFails, OwnedReaders, HandInSlot, ReaderLives
  <2>4. StopBeforeReport'
    BY <1>8 DEF ReplayFails, StopBeforeReport, KeepaliveLives
  <2>5. QED
    BY <2>1, <2>2, <2>3, <2>4
<1>9. CASE SupervisorTearsDown
  <2>1. TypeOK'
    <3>1. building \in Sessions
      BY <1>9 DEF SupervisorTearsDown, HandsFull, Rebuilding
    <3>2. stop_requests' \in [Sessions -> BOOLEAN]
      BY <1>9, <3>1, StopRequestsType DEF SupervisorTearsDown
    <3>3. /\ aborted' \subseteq Sessions
          /\ keepalives' \in [Sessions -> KeepaliveStates]
      BY <1>9, <3>1
      DEF SupervisorTearsDown, AbortReader, AbortedKeepalive, KeepaliveStates
    <3>4. /\ supervisor' \in SupervisorStates /\ announced' \in Announcements
          /\ todo' = << >> /\ building' = None /\ connection' = None
      BY <1>9 DEF SupervisorTearsDown, AttemptFails, SupervisorStates,
                  Announcements
    <3>5. retryable' \in BOOLEAN
      BY <1>9, Zenon DEF SupervisorTearsDown
    <3>6. QED
      BY <1>9, <3>2, <3>3, <3>4, <3>5, EmptyPlan DEF SupervisorTearsDown
  <2>2. HandsFull' /\ BornFirst' /\ Quiet'
    BY <1>9
    DEF SupervisorTearsDown, HandsFull, BornFirst, Quiet, SupervisorEnded,
        Rebuilding, AttemptFails, None
  <2>3. OwnedReaders' /\ HandInSlot'
    BY <1>9
    DEF SupervisorTearsDown, OwnedReaders, HandInSlot, ReaderLives, AttemptFails,
        AbortReader, HandsFull, Rebuilding, None
  <2>4. StopBeforeReport'
    BY <1>9
    DEF SupervisorTearsDown, StopBeforeReport, KeepaliveLives, SendStop,
        AbortedKeepalive, AttemptFails
  <2>5. QED
    BY <2>1, <2>2, <2>3, <2>4
<1>10. CASE SupervisorInstallsReader
  <2>1. TypeOK'
    BY <1>10
    DEF SupervisorInstallsReader, SupervisorStates, AbortReader, None,
        HandsFull
  <2>2. HandsFull' /\ BornFirst' /\ Quiet'
    BY <1>10
    DEF SupervisorInstallsReader, HandsFull, BornFirst, Quiet, SupervisorEnded
  <2>3. OwnedReaders' /\ HandInSlot'
    <3>1. /\ tasks'.reader = building /\ UNCHANGED <<readers, detached, building>>
          /\ aborted' = aborted \cup {r \in {tasks.reader} \ {None} :
                                                            ReaderLives(r)}
      BY <1>10 DEF SupervisorInstallsReader, AbortReader
    <3>2. HandInSlot'
      BY <3>1 DEF HandInSlot
    <3>3. OwnedReaders'
      BY <3>1, NoneIsNoSession DEF OwnedReaders, ReaderLives
    <3>4. QED
      BY <3>2, <3>3
  <2>4. StopBeforeReport'
    BY <1>10 DEF SupervisorInstallsReader, StopBeforeReport, KeepaliveLives
  <2>5. QED
    BY <2>1, <2>2, <2>3, <2>4
<1>15. CASE SupervisorInstallsKeepalive
  <2>1. TypeOK'
    BY <1>15
    DEF SupervisorInstallsKeepalive, SupervisorStates, AbortedKeepalive, None,
        HandsFull, KeepaliveStates
  <2>2. HandsFull' /\ BornFirst' /\ Quiet'
    BY <1>15
    DEF SupervisorInstallsKeepalive, HandsFull, BornFirst, Quiet,
        SupervisorEnded
  <2>3. OwnedReaders' /\ HandInSlot'
    BY <1>15 DEF SupervisorInstallsKeepalive, OwnedReaders, HandInSlot, ReaderLives
  <2>4. StopBeforeReport'
    BY <1>15
    DEF SupervisorInstallsKeepalive, StopBeforeReport, KeepaliveLives,
        AbortedKeepalive
  <2>5. QED
    BY <2>1, <2>2, <2>3, <2>4
<1>16. CASE SupervisorInstallsStop
  <2>1. TypeOK'
    BY <1>16
    DEF SupervisorInstallsStop, SupervisorStates, StopSlot, None, HandsFull
  <2>2. HandsFull' /\ BornFirst' /\ Quiet'
    BY <1>16, SessionsAreNumbers
    DEF SupervisorInstallsStop, HandsFull, BornFirst, Quiet, SupervisorEnded,
        None
  <2>3. OwnedReaders' /\ HandInSlot'
    BY <1>16
    DEF SupervisorInstallsStop, OwnedReaders, HandInSlot, ReaderLives
  <2>4. StopBeforeReport'
    BY <1>16 DEF SupervisorInstallsStop, StopBeforeReport, KeepaliveLives
  <2>5. QED
    BY <2>1, <2>2, <2>3, <2>4
<1>11. CASE SupervisorAnnounces
  <2>1. TypeOK'
    BY <1>11, SessionAssumption
    DEF SupervisorAnnounces, ClientStates, SocketStates, ReaderStates,
        KeepaliveStates, SupervisorStates, Announcements, Awaiting,
        Disconnecting
  <2>2. HandsFull' /\ BornFirst' /\ Quiet'
    BY <1>11
    DEF SupervisorAnnounces, HandsFull, BornFirst, Quiet, SupervisorEnded,
        Rebuilding
  <2>3. OwnedReaders' /\ HandInSlot'
    BY <1>11 DEF SupervisorAnnounces, OwnedReaders, HandInSlot, ReaderLives
  <2>4. StopBeforeReport'
    BY <1>11 DEF SupervisorAnnounces, StopBeforeReport, KeepaliveLives
  <2>5. QED
    BY <2>1, <2>2, <2>3, <2>4
<1>12. CASE SupervisorCancelled
  <2>1. /\ supervisor' = "aborted" /\ building' = None /\ todo' = << >>
        /\ supervisor_aborted /\ supervisor \in Awaiting
        /\ UNCHANGED <<client, held, connection, sockets, readers, aborted,
                       keepalives, stop_requests, session_lost, disconnect_reason,
                       supervisor_aborted, shutdown, attempt, retryable,
                       announced, reconnect, born, first, reporters, delivery>>
    BY <1>12 DEF SupervisorCancelled
  <2>2. \/ /\ tasks' = NoTasks
           /\ detached' = detached \cup ({building, tasks.reader} \ {None})
        \/ tasks' = tasks /\ detached' = detached \cup ({building} \ {None})
    BY <1>12 DEF SupervisorCancelled, Detach
  <2>3. TypeOK'
    BY <2>1, <2>2, EmptyPlan DEF SupervisorStates, NoTasks
  <2>4. HandsFull' /\ BornFirst' /\ Quiet'
    <3>1. HandsFull' /\ Quiet'
      BY <2>1 DEF HandsFull, Quiet, SupervisorEnded
    <3>2. /\ tasks'.reader \in {None, tasks.reader}
          /\ detached' \subseteq detached \cup {building, tasks.reader}
      BY <2>2 DEF NoTasks
    <3>3. BornFirst'
      BY <2>1, <3>2, HandlesAreNumbers DEF BornFirst, None
    <3>4. QED
      BY <3>1, <3>3
  <2>5. OwnedReaders' /\ HandInSlot'
    BY <2>1, <2>2, NoneIsNoSession
    DEF OwnedReaders, HandInSlot, ReaderLives, NoTasks
  <2>6. StopBeforeReport'
    BY <2>1 DEF StopBeforeReport, KeepaliveLives
  <2>7. QED
    BY <2>3, <2>4, <2>5, <2>6
<1>14. CASE SessionComesUp
  <2>1. TypeOK'
    BY <1>14, SessionsAreNumbers, SessionAssumption
    DEF BornFirst, SessionComesUp, ClientStates, SocketStates, ReaderStates,
        KeepaliveStates, SupervisorStates, Announcements, Awaiting,
        Disconnecting, SpawnTasks
  <2>2. HandsFull' /\ BornFirst' /\ Quiet'
    <3>1. /\ born' = born + 1 /\ building' = born + 1 /\ born \in Nat
          /\ supervisor' \in {"rebuilt", "replaying"}
          /\ supervisor' = "replaying" => todo' # << >>
          /\ readers' = [readers EXCEPT ![born + 1] = "reading"]
          /\ UNCHANGED <<session_lost, tasks, detached, client,
                         supervisor_aborted>>
      BY <1>14, SessionsAreNumbers DEF SessionComesUp, SpawnTasks
    <3>2. HandsFull' /\ Quiet'
      BY <3>1, <1>14
      DEF SessionComesUp, HandsFull, Quiet, SupervisorEnded, None
    <3>3. BornFirst'
      BY <3>1, HandlesAreNumbers, SessionsAreNumbers DEF BornFirst, None
    <3>4. QED
      BY <3>2, <3>3
  <2>3. OwnedReaders' /\ HandInSlot'
    BY <1>14, SessionsAreNumbers, NoneIsNoSession
    DEF SessionComesUp, OwnedReaders, HandInSlot, ReaderLives, SpawnTasks, HandsFull,
        BornFirst
  <2>4. StopBeforeReport'
    BY <1>14, SessionsAreNumbers
    DEF SessionComesUp, StopBeforeReport, KeepaliveLives, SpawnTasks,
        BornFirst
  <2>5. QED
    BY <2>1, <2>2, <2>3, <2>4
<1>17. QED
  BY <1>1, <1>2, <1>3, <1>4, <1>5, <1>6, <1>7, <1>8, <1>9, <1>10, <1>11, <1>12,
     <1>14, <1>15, <1>16
  DEF SupervisorStep

\* A step of connect, disconnect or drop keeps the invariant.
LEMMA ClientKeepsIInv ==
    ASSUME IInv, ClientStep
    PROVE  IInv'
<1> USE DEF IInv, TypeOK, clientVars, taskVars, slotVars, rebuildVars,
            supervisorVars, setupVars, Rebuilding, Dropping
<1>1. CASE WithReconnect
  <2>1. TypeOK'
    BY <1>1
    DEF WithReconnect, ClientStates, SocketStates, ReaderStates,
        KeepaliveStates, SupervisorStates, Announcements, Awaiting,
        Disconnecting
  <2>2. HandsFull' /\ BornFirst' /\ Quiet'
    BY <1>1
    DEF WithReconnect, HandsFull, BornFirst, Quiet, SupervisorEnded, Rebuilding
  <2>3. OwnedReaders' /\ HandInSlot'
    BY <1>1 DEF WithReconnect, OwnedReaders, HandInSlot, ReaderLives
  <2>4. StopBeforeReport'
    BY <1>1 DEF WithReconnect, StopBeforeReport, KeepaliveLives
  <2>5. QED
    BY <2>1, <2>2, <2>3, <2>4
<1>2. CASE ConnectBegins
  <2>1. TypeOK'
    BY <1>2
    DEF ConnectBegins, ClientStates, SocketStates, ReaderStates,
        KeepaliveStates, SupervisorStates, Announcements, Awaiting,
        Disconnecting
  <2>2. HandsFull' /\ BornFirst' /\ Quiet'
    BY <1>2
    DEF ConnectBegins, HandsFull, BornFirst, Quiet, SupervisorEnded, Rebuilding
  <2>3. OwnedReaders' /\ HandInSlot'
    BY <1>2 DEF ConnectBegins, OwnedReaders, HandInSlot, ReaderLives
  <2>4. StopBeforeReport'
    BY <1>2 DEF ConnectBegins, StopBeforeReport, KeepaliveLives
  <2>5. QED
    BY <2>1, <2>2, <2>3, <2>4
<1>3. CASE ConnectFails
  <2>1. TypeOK'
    BY <1>3
    DEF ConnectFails, ClientStates, SocketStates, ReaderStates,
        KeepaliveStates, SupervisorStates, Announcements, Awaiting,
        Disconnecting
  <2>2. HandsFull' /\ BornFirst' /\ Quiet'
    BY <1>3
    DEF ConnectFails, HandsFull, BornFirst, Quiet, SupervisorEnded, Rebuilding
  <2>3. OwnedReaders' /\ HandInSlot'
    BY <1>3 DEF ConnectFails, OwnedReaders, HandInSlot, ReaderLives
  <2>4. StopBeforeReport'
    BY <1>3 DEF ConnectFails, StopBeforeReport, KeepaliveLives
  <2>5. QED
    BY <2>1, <2>2, <2>3, <2>4
<1>4. CASE ConnectSucceeds
  <2>1. TypeOK'
    <3>1. /\ born + 1 \in Sessions /\ born' = born + 1 /\ first' = born + 1
          /\ connection' = born + 1
      BY <1>4, SessionsAreNumbers DEF ConnectSucceeds, SpawnTasks
    <3>2. /\ sockets' \in [Sessions -> SocketStates]
          /\ readers' \in [Sessions -> ReaderStates]
          /\ keepalives' \in [Sessions -> KeepaliveStates]
      BY <1>4, <3>1
      DEF ConnectSucceeds, SpawnTasks, SocketStates, ReaderStates,
          KeepaliveStates
    <3>3. /\ tasks' \in [reader : Sessions \cup {None},
                       keepalive : Sessions \cup {None},
                       keepalive_stop : Sessions \cup {None}]
          /\ detached' \subseteq Sessions /\ reporters' \subseteq Sessions
      BY <1>4, <3>1 DEF ConnectSucceeds, None, Detach
    <3>4. /\ supervisor_aborted' \in BOOLEAN /\ shutdown' \in BOOLEAN
          /\ session_lost' = None /\ attempt' = 0
      BY <1>4, Zenon DEF ConnectSucceeds
    <3>5. /\ client' \in ClientStates /\ supervisor' \in SupervisorStates
          /\ announced' \in Announcements
          /\ delivery' \in {"none", "running", "ended"}
      BY <1>4 DEF ConnectSucceeds, ClientStates, SupervisorStates, Awaiting,
                  Announcements
    <3>6. UNCHANGED <<held, aborted, stop_requests, disconnect_reason, building,
                      todo, retryable, reconnect>>
      BY <1>4 DEF ConnectSucceeds
    <3>7. 0 \in 0 .. MaxAttempts /\ None \in Sessions \cup {None}
      BY SessionAssumption
    <3>8. /\ born' \in 0 .. MaxSessions /\ first' \in 0 .. MaxSessions
          /\ connection' \in Sessions \cup {None}
      BY <1>4, <3>1, SessionsAreNumbers DEF ConnectSucceeds
    <3>9. QED
      BY <3>2, <3>3, <3>4, <3>5, <3>6, <3>7, <3>8
  <2>2. HandsFull' /\ BornFirst' /\ Quiet'
    <3>1. /\ born' = born + 1 /\ born \in Nat /\ client' = "live"
          /\ UNCHANGED building /\ SupervisorEnded
          /\ supervisor' \in {"waiting", "none"}
          /\ tasks'.reader = born + 1 /\ session_lost' = None
          /\ readers' = [readers EXCEPT ![born + 1] = "reading"]
          /\ detached' = detached \cup ({tasks.reader} \ {None})
      BY <1>4, SessionsAreNumbers DEF ConnectSucceeds, SpawnTasks, Detach
    <3>2. HandsFull' /\ Quiet'
      BY <3>1 DEF HandsFull, Quiet, SupervisorEnded
    <3>3. BornFirst'
      BY <3>1, HandlesAreNumbers, SessionsAreNumbers DEF BornFirst, None
    <3>4. QED
      BY <3>2, <3>3
  <2>3. OwnedReaders' /\ HandInSlot'
    BY <1>4, SessionsAreNumbers
    DEF ConnectSucceeds, OwnedReaders, HandInSlot, ReaderLives, SpawnTasks,
        HandsFull, SupervisorEnded, Detach
  <2>4. StopBeforeReport'
    BY <1>4, SessionsAreNumbers, NoneIsNoSession
    DEF ConnectSucceeds, StopBeforeReport, KeepaliveLives, SpawnTasks,
        BornFirst
  <2>5. QED
    BY <2>1, <2>2, <2>3, <2>4
<1>5. CASE DisconnectBegins
  <2>1. TypeOK'
    BY <1>5
    DEF DisconnectBegins, ClientStates, SocketStates, ReaderStates,
        KeepaliveStates, SupervisorStates, Announcements, Awaiting,
        Disconnecting, SupervisorEnded
  <2>2. HandsFull' /\ BornFirst' /\ Quiet'
    BY <1>5
    DEF DisconnectBegins, HandsFull, BornFirst, Quiet, SupervisorEnded,
        Rebuilding
  <2>3. OwnedReaders' /\ HandInSlot'
    BY <1>5 DEF DisconnectBegins, OwnedReaders, HandInSlot, ReaderLives
  <2>4. StopBeforeReport'
    BY <1>5 DEF DisconnectBegins, StopBeforeReport, KeepaliveLives
  <2>5. QED
    BY <2>1, <2>2, <2>3, <2>4
<1>6. CASE DisconnectJoinsSupervisor
  <2>1. TypeOK'
    BY <1>6
    DEF DisconnectJoinsSupervisor, ClientStates, SocketStates, ReaderStates,
        KeepaliveStates, SupervisorStates, Announcements, Awaiting,
        Disconnecting, AbortSupervisor, SupervisorEnded
  <2>2. HandsFull' /\ BornFirst' /\ Quiet'
    BY <1>6
    DEF DisconnectJoinsSupervisor, HandsFull, BornFirst, Quiet,
        SupervisorEnded, Rebuilding, AbortSupervisor
  <2>3. OwnedReaders' /\ HandInSlot'
    BY <1>6
    DEF DisconnectJoinsSupervisor, OwnedReaders, HandInSlot, ReaderLives, AbortSupervisor
  <2>4. StopBeforeReport'
    BY <1>6
    DEF DisconnectJoinsSupervisor, StopBeforeReport, KeepaliveLives,
        AbortSupervisor
  <2>5. QED
    BY <2>1, <2>2, <2>3, <2>4
<1>7. CASE DisconnectStopsKeepalive
  <2>1. TypeOK'
    <3>1. stop_requests' \in [Sessions -> BOOLEAN]
      <4>1. CASE held = None
        <5>1. stop_requests' = stop_requests
          BY <1>7, <4>1 DEF DisconnectStopsKeepalive
        <5>2. QED
          BY <5>1
      <4>2. CASE held # None
        <5>1. SendStop(held)
          BY <1>7, <4>2 DEF DisconnectStopsKeepalive
        <5>2. held \in Sessions
          BY <4>2
        <5>3. QED
          BY <5>1, <5>2, StopRequestsType
      <4>3. QED
        BY <4>1, <4>2
    <3>2. QED
      BY <1>7, <3>1
      DEF DisconnectStopsKeepalive, ClientStates, Disconnecting
  <2>2. HandsFull' /\ BornFirst' /\ Quiet'
    BY <1>7
    DEF DisconnectStopsKeepalive, HandsFull, BornFirst, Quiet, SupervisorEnded,
        Rebuilding
  <2>3. OwnedReaders' /\ HandInSlot'
    BY <1>7 DEF DisconnectStopsKeepalive, OwnedReaders, HandInSlot, ReaderLives
  <2>4. StopBeforeReport'
    BY <1>7
    DEF DisconnectStopsKeepalive, StopBeforeReport, KeepaliveLives, SendStop
  <2>5. QED
    BY <2>1, <2>2, <2>3, <2>4
<1>8. CASE DisconnectJoinsKeepalive
  <2>1. TypeOK'
    BY <1>8
    DEF DisconnectJoinsKeepalive, ClientStates, SocketStates, ReaderStates,
        KeepaliveStates, SupervisorStates, Announcements, Awaiting,
        Disconnecting, AbortedKeepalive
  <2>2. HandsFull' /\ BornFirst' /\ Quiet'
    BY <1>8
    DEF DisconnectJoinsKeepalive, HandsFull, BornFirst, Quiet, SupervisorEnded,
        Rebuilding
  <2>3. OwnedReaders' /\ HandInSlot'
    BY <1>8 DEF DisconnectJoinsKeepalive, OwnedReaders, HandInSlot, ReaderLives
  <2>4. StopBeforeReport'
    BY <1>8
    DEF DisconnectJoinsKeepalive, StopBeforeReport, KeepaliveLives,
        AbortedKeepalive
  <2>5. QED
    BY <2>1, <2>2, <2>3, <2>4
<1>9. CASE DisconnectFinishes
  <2>1. TypeOK'
    BY <1>9
    DEF DisconnectFinishes, ClientStates, SocketStates, ReaderStates,
        KeepaliveStates, SupervisorStates, Announcements, Awaiting,
        Disconnecting, AbortReader, None
  <2>2. HandsFull' /\ BornFirst' /\ Quiet'
    BY <1>9, SessionsAreNumbers
    DEF DisconnectFinishes, HandsFull, BornFirst, Quiet, SupervisorEnded, None
  <2>3. OwnedReaders' /\ HandInSlot'
    BY <1>9
    DEF DisconnectFinishes, OwnedReaders, HandInSlot, ReaderLives, AbortReader, None
  <2>4. StopBeforeReport'
    BY <1>9 DEF DisconnectFinishes, StopBeforeReport, KeepaliveLives
  <2>5. QED
    BY <2>1, <2>2, <2>3, <2>4
<1>10. CASE DropClient
  <2>1. TypeOK'
    <3>1. supervisor_aborted' \in BOOLEAN
      BY <1>10, Zenon DEF DropClient, AbortSupervisor
    <3>2. client' \in ClientStates /\ aborted' \subseteq Sessions
      BY <1>10 DEF DropClient, ClientStates, AbortReader, None
    <3>3. tasks' = [tasks EXCEPT !.reader = None]
      BY <1>10 DEF DropClient
    <3>4. UNCHANGED <<held, connection, sockets, readers, keepalives,
                      stop_requests, detached, session_lost, disconnect_reason,
                      supervisor, shutdown, attempt, building, todo, retryable,
                      announced, reconnect, born, first, reporters, delivery>>
      BY <1>10 DEF DropClient
    <3>5. QED
      BY <3>1, <3>2, <3>3, <3>4
  <2>2. HandsFull' /\ BornFirst' /\ Quiet'
    <3>1. HandsFull' /\ Quiet'
      BY <1>10 DEF DropClient, HandsFull, Quiet, SupervisorEnded, AbortSupervisor
    <3>2. /\ tasks'.reader = None
          /\ UNCHANGED <<readers, detached, building, session_lost, supervisor,
                         born>>
      BY <1>10 DEF DropClient
    <3>3. BornFirst'
      BY <3>2, HandlesAreNumbers DEF BornFirst, None
    <3>4. QED
      BY <3>1, <3>3
  <2>3. OwnedReaders' /\ HandInSlot'
    BY <1>10
    DEF DropClient, OwnedReaders, HandInSlot, ReaderLives, AbortReader, None
  <2>4. StopBeforeReport'
    BY <1>10 DEF DropClient, StopBeforeReport, KeepaliveLives
  <2>5. QED
    BY <2>1, <2>2, <2>3, <2>4
<1>11. CASE DropAbortsKeepalive
  <2>1. TypeOK'
    BY <1>11
    DEF DropAbortsKeepalive, ClientStates, AbortedKeepalive, KeepaliveStates,
        None
  <2>2. HandsFull' /\ BornFirst' /\ Quiet'
    BY <1>11
    DEF DropAbortsKeepalive, HandsFull, BornFirst, Quiet, SupervisorEnded
  <2>3. OwnedReaders' /\ HandInSlot'
    BY <1>11 DEF DropAbortsKeepalive, OwnedReaders, HandInSlot, ReaderLives
  <2>4. StopBeforeReport'
    BY <1>11
    DEF DropAbortsKeepalive, StopBeforeReport, KeepaliveLives, AbortedKeepalive
  <2>5. QED
    BY <2>1, <2>2, <2>3, <2>4
<1>12. CASE DropFinishes
  <2>1. TypeOK'
    BY <1>12
    DEF DropFinishes, ClientStates, Detach, NoTasks, SupervisorEnded, None
  <2>2. HandsFull' /\ BornFirst' /\ Quiet'
    <3>1. /\ client' = "dropped" /\ client \notin {"live", "joining_supervisor"}
          /\ UNCHANGED <<readers, supervisor, supervisor_aborted, building, todo,
                         born, session_lost>>
          /\ tasks'.reader \in {None, tasks.reader}
          /\ detached' \subseteq detached \cup {tasks.reader}
      BY <1>12 DEF DropFinishes, Detach, NoTasks
    <3>2. HandsFull' /\ Quiet'
      BY <3>1 DEF HandsFull, Quiet, SupervisorEnded
    <3>3. BornFirst'
      BY <3>1, HandlesAreNumbers, SessionsAreNumbers DEF BornFirst, None
    <3>4. QED
      BY <3>2, <3>3
  <2>3. OwnedReaders' /\ HandInSlot'
    BY <1>12
    DEF DropFinishes, OwnedReaders, HandInSlot, ReaderLives, Detach, NoTasks,
        SupervisorEnded, HandsFull, None
  <2>4. StopBeforeReport'
    BY <1>12 DEF DropFinishes, StopBeforeReport, KeepaliveLives
  <2>5. QED
    BY <2>1, <2>2, <2>3, <2>4
<1>13. QED
  BY <1>1, <1>2, <1>3, <1>4, <1>5, <1>6, <1>7, <1>8, <1>9, <1>10, <1>11, <1>12
  DEF ClientStep, DisconnectStep, DropStep

-----------------------------------------------------------------------------
(***************************************************************************)
(* The theorems.                                                           *)
(***************************************************************************)
\* Every step of Next, and a stutter, keeps the invariant.
LEMMA NextKeepsIInv == IInv /\ [Next]_vars => IInv'
BY ReaderKeepsIInv, KeepaliveKeepsIInv, OutsideKeepsIInv,
   SupervisorKeepsIInv, ClientKeepsIInv
DEF Next

\* The inductive invariant holds in every reachable state.
THEOREM Invariance == Spec => []IInv
BY InitIInv, NextKeepsIInv, PTL DEF Spec

\* The state is well-typed; in particular attempt stays within the limit.
THEOREM TypeCorrect == Spec => []TypeOK
<1>1. IInv => TypeOK
  BY DEF IInv
<1>2. QED
  BY <1>1, Invariance, PTL

\* A reader that runs and was not told to stop is in the slots, in the
\* supervisor's hands, or was detached with an aborted supervisor.
THEOREM ReadersAreOwned == Spec => []OwnedReaders
<1>1. IInv => OwnedReaders
  BY DEF IInv
<1>2. QED
  BY <1>1, Invariance, PTL

\* A loss is only reported once the keepalive of its session was told to stop.
THEOREM StopComesFirst == Spec => []StopBeforeReport
<1>1. IInv => StopBeforeReport
  BY DEF IInv
<1>2. QED
  BY <1>1, Invariance, PTL
=============================================================================
