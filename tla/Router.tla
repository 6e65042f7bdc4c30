-------------------------------- MODULE Router --------------------------------
(***************************************************************************)
(* Requests and their answers: request_response registers a waiter, sends  *)
(* and waits with a deadline; the protocol reader of a session routes each *)
(* inbound message to the oldest waiter it fits; PendingGuard takes a      *)
(* registration back on every way out; the supervisor wakes everybody when *)
(* it reads of a loss.  The callers are the owner of the client (all its   *)
(* operations take &mut self, so it makes one call at a time) and the      *)
(* supervisor, whose replay makes calls of its own.  All sessions share    *)
(* one table, and a loss that nobody was told of leaves its waiters to     *)
(* their deadlines: the table is cleared where the supervisor watches, not *)
(* while it rebuilds.                                                      *)
(***************************************************************************)
EXTENDS Naturals, Sequences

CONSTANTS
    Callers,        \* who may be inside request_response
    Supervisor,     \* the caller that is the supervisor's replay
    Channels,       \* channel ids, positive
    Kinds,          \* the message types a caller may wait for
    MaxRequests,    \* bound: requests over the run
    MaxUnasked,     \* bound: messages the servers send unasked
    MaxSessions     \* bound: sessions over the run

ASSUME RouterAssumption ==
    /\ Supervisor \in Callers
    /\ Channels \subseteq Nat \ {0}
    /\ Kinds \cap {"ERROR", "empty", "closed"} = {}
    /\ MaxRequests \in Nat /\ MaxUnasked \in Nat /\ MaxSessions \in Nat \ {0}

NoChannel == 0
NoSession == 0
Ids       == 1 .. MaxRequests
Sessions  == 1 .. MaxSessions

\* An inbound message; the error text and the payload are left out.
Message == [type : Kinds \cup {"ERROR"}, channel : Channels \cup {NoChannel}]
\* What the receiving half of a caller's oneshot channel holds.
Empty  == [type |-> "empty", channel |-> NoChannel]
Closed == [type |-> "closed", channel |-> NoChannel]

\* ResponseRequest, with its place in the order of registration.
Request == [id : Ids, place : Nat, expected : Kinds, channel : Channels]

VARIABLES
    supervisor, \* where it stands: "none" (no policy, or it returned),
                \* "watching", "rebuilding" (between sessions), "replaying",
                \* "failing" (a call of the replay went wrong)
    next_id,    \* next_request_id
    requests,   \* response_requests
    pushed,     \* registrations so far
    calls,      \* [Callers -> the request of the call, the session it goes to
                \* and how far it got]
    mailbox,    \* [Callers -> content of the oneshot channel]
    wire,       \* [Sessions -> messages the reader has yet to read]
    asked,      \* [Sessions -> requests the server has yet to answer, if it does]
    unasked,    \* messages sent unasked so far
    born,       \* sessions so far
    alive,      \* sessions whose reader runs
    installed,  \* the session whose reader is in the slot
    slot,       \* the session of the connection new calls clone, or NoSession
    lost        \* sessions whose reader ended and whose report is unread

tableVars   == <<next_id, requests, pushed>>
serverVars  == <<wire, asked, unasked>>
sessionVars == <<born, alive, installed, slot, lost>>
vars == <<supervisor, tableVars, calls, mailbox, serverVars, sessionVars>>

Idle == [at |-> "idle", id |-> 0, over |-> NoSession]

TypeOK ==
    /\ supervisor \in {"none", "watching", "rebuilding", "replaying", "failing"}
    /\ next_id \in 0 .. MaxRequests
    /\ requests \subseteq Request
    /\ pushed \in Nat
    /\ calls \in [Callers -> [at : {"idle", "numbered", "sending", "waiting",
                                    "expired", "leaving"},
                              id : 0 .. MaxRequests,
                              over : Sessions \cup {NoSession}]]
    /\ mailbox \in [Callers -> Message \cup {Empty, Closed}]
    /\ wire \in [Sessions -> Seq(Message)]
    /\ asked \in [Sessions -> SUBSET Request]
    /\ unasked \in 0 .. MaxUnasked
    /\ born \in Sessions /\ installed \in Sessions
    /\ alive \subseteq Sessions /\ lost \subseteq Sessions
    /\ slot \in Sessions \cup {NoSession}

\* A connected client, with or without a supervisor.
Init ==
    /\ supervisor \in {"none", "watching"}
    /\ next_id = 0
    /\ requests = {} /\ pushed = 0
    /\ calls = [c \in Callers |-> Idle]
    /\ mailbox = [c \in Callers |-> Empty]
    /\ wire = [s \in Sessions |-> << >>]
    /\ asked = [s \in Sessions |-> {}]
    /\ unasked = 0
    /\ born = 1 /\ alive = {1} /\ installed = 1 /\ slot = 1 /\ lost = {}

-----------------------------------------------------------------------------
(***************************************************************************)
(* The caller (request_response).                                          *)
(***************************************************************************)

\* The receiving half exists from registration until the wait is over.
Receiving(c) == calls[c].at \in {"sending", "waiting", "expired"}
Moves(c, to) == calls' = [calls EXCEPT ![c].at = to]

\* A call of the replay that went wrong is the end of the replay.
WentWrong(c) ==
    supervisor' = IF c = Supervisor /\ supervisor = "replaying"
                  THEN "failing" ELSE supervisor

\* next_request_id counts up, under a lock of its own: another caller may
\* register before this one does.  The connection was cloned out of the slot,
\* and the supervisor only calls while it replays.
TakeId(c) ==
    /\ calls[c] = Idle /\ next_id < MaxRequests
    /\ slot # NoSession
    /\ c = Supervisor => supervisor = "replaying"
    /\ next_id' = next_id + 1
    /\ calls' = [calls EXCEPT ![c] = [at |-> "numbered", id |-> next_id',
                                     over |-> slot]]
    /\ UNCHANGED <<supervisor, requests, pushed, mailbox, serverVars, sessionVars>>

\* The registration goes to the end of the table, before anything is sent.
Register(c) ==
    /\ calls[c].at = "numbered"
    /\ Moves(c, "sending")
    /\ pushed' = pushed + 1
    /\ \E kind \in Kinds, ch \in Channels :
          requests' = requests \cup {[id |-> calls[c].id, place |-> pushed',
                                     expected |-> kind, channel |-> ch]}
    /\ UNCHANGED <<supervisor, next_id, mailbox, serverVars, sessionVars>>

\* connection.send: the server gets the request, or the socket of a lost
\* session swallows it.  The registration may be gone by then, answered by a
\* message that was on its way or cleared.
Send(c) ==
    /\ calls[c].at = "sending"
    /\ Moves(c, "waiting")
    /\ asked' = [s \in Sessions |->
          IF s = calls[c].over /\ s \in alive
          THEN asked[s] \cup {r \in requests : r.id = calls[c].id}
          ELSE asked[s]]
    /\ UNCHANGED <<supervisor, tableVars, mailbox, wire, unasked, sessionVars>>

\* The send fails, or the owner's future is dropped before the answer.
Abandon(c) ==
    /\ \/ calls[c].at = "sending"
       \/ calls[c].at = "waiting" /\ c # Supervisor
    /\ Moves(c, "leaving")
    /\ WentWrong(c)
    /\ UNCHANGED <<tableVars, mailbox, serverVars, sessionVars>>

\* The answer, or the news that nobody will send one, ends the wait.
Answered(c) ==
    /\ calls[c].at = "waiting" /\ mailbox[c] # Empty
    /\ Moves(c, "leaving")
    /\ IF mailbox[c].type \in Kinds THEN UNCHANGED supervisor ELSE WentWrong(c)
    /\ UNCHANGED <<tableVars, mailbox, serverVars, sessionVars>>

\* (Mutant: the deadline only runs while the session is up.)
Expire_WhileUp(c) ==
    /\ calls[c].at = "waiting" /\ mailbox[c] = Empty /\ calls[c].over \in alive
    /\ Moves(c, "expired")
    /\ WentWrong(c)
    /\ UNCHANGED <<tableVars, mailbox, serverVars, sessionVars>>

\* The deadline passes; the receiving half is dropped a moment later.
Expire(c) ==
    /\ calls[c].at = "waiting" /\ mailbox[c] = Empty
    /\ Moves(c, "expired")
    /\ WentWrong(c)
    /\ UNCHANGED <<tableVars, mailbox, serverVars, sessionVars>>

StopReceiving(c) ==
    /\ calls[c].at = "expired"
    /\ Moves(c, "leaving")
    /\ UNCHANGED <<supervisor, tableVars, mailbox, serverVars, sessionVars>>

\* Drop for PendingGuard: the registration with the call's own id goes.
\* (Mutant: it also takes older registrations.)
KeepAfter_Newer(r, c) == r.id > calls[c].id
KeepAfter(r, c) == r.id # calls[c].id
Guard(c) ==
    /\ calls[c].at = "leaving"
    /\ requests' = {r \in requests : KeepAfter(r, c)}
    /\ calls' = [calls EXCEPT ![c] = Idle]
    /\ mailbox' = [mailbox EXCEPT ![c] = Empty]
    /\ UNCHANGED <<supervisor, next_id, pushed, serverVars, sessionVars>>

-----------------------------------------------------------------------------
(***************************************************************************)
(* The server of a session.                                                *)
(***************************************************************************)

\* It answers a request, in its own time, with what was asked for or with an
\* error on the channel.
ServerAnswers(s) ==
    /\ s \in alive
    /\ \E r \in asked[s], type \in Kinds \cup {"ERROR"} :
          /\ type \in {r.expected, "ERROR"}
          /\ wire' = [wire EXCEPT ![s] =
                        Append(@, [type |-> type, channel |-> r.channel])]
          /\ asked' = [asked EXCEPT ![s] = @ \ {r}]
    /\ UNCHANGED <<supervisor, tableVars, calls, mailbox, unasked, sessionVars>>

\* A FEED_CONFIG of its own accord, an error about an earlier message, ...
ServerSpeaks(s) ==
    /\ s \in alive /\ unasked < MaxUnasked
    /\ unasked' = unasked + 1
    /\ \E m \in Message : wire' = [wire EXCEPT ![s] = Append(@, m)]
    /\ UNCHANGED <<supervisor, tableVars, calls, mailbox, asked, sessionVars>>

-----------------------------------------------------------------------------
(***************************************************************************)
(* The reader of a session (spawn_reader).  Two may run at once: after a   *)
(* stale report the reader in the slot goes on until the rebuilt one       *)
(* replaces it.                                                            *)
(***************************************************************************)
Fits(r, m) ==
    /\ r.channel = m.channel
    /\ r.expected = m.type \/ m.type = "ERROR"

CallerOf(r) == {c \in Callers : Receiving(c) /\ calls[c].id = r.id}

Fitting(m)      == {r \in requests : Fits(r, m)}
FirstOf(waiters) == {r \in waiters : \A q \in waiters : r.place <= q.place}

\* The waiter that gets m: the first it fits that still receives.
\* (Mutant: the first, whether it receives or not.)
Served_Blind(m) == FirstOf(Fitting(m))
Served(m)       == FirstOf({r \in Fitting(m) : CallerOf(r) # {}})

\* The registrations that leave the table: those it fits, up to the one served.
\* (Mutant: the one served stays.)
TakenOut_Keeping(m) ==
    {r \in Fitting(m) : \A q \in Served(m) : r.place < q.place}
TakenOut(m) ==
    {r \in Fitting(m) : \A q \in Served(m) : r.place <= q.place}

\* Under the lock: waiters the message fits are taken out in order until one
\* still receives.  That one gets the message; the others had walked away.
Route(s) ==
    /\ s \in alive /\ wire[s] # << >>
    /\ wire' = [wire EXCEPT ![s] = Tail(@)]
    /\ LET m     == Head(wire[s])
           lucky == UNION {CallerOf(r) : r \in Served(m)}
       IN  /\ requests' = requests \ TakenOut(m)
           /\ mailbox' = [c \in Callers |->
                              IF c \in lucky THEN m ELSE mailbox[c]]
    /\ UNCHANGED <<supervisor, next_id, pushed, calls, asked, unasked, sessionVars>>

-----------------------------------------------------------------------------
(***************************************************************************)
(* Sessions and the supervisor.                                            *)
(***************************************************************************)

\* What was on the wire of an ended reader is gone.
EndReaders(ended) ==
    /\ alive' = alive \ ended
    /\ wire'  = [s \in Sessions |-> IF s \in ended THEN << >> ELSE wire[s]]
    /\ asked' = [s \in Sessions |-> IF s \in ended THEN {} ELSE asked[s]]

\* The reader of a session ends; a supervisor will find its report.
LoseSession(s) ==
    /\ s \in alive
    /\ EndReaders({s})
    /\ lost' = IF supervisor = "none" THEN lost ELSE lost \cup {s}
    /\ UNCHANGED <<supervisor, tableVars, calls, mailbox, unasked, born,
                   installed, slot>>

\* Dropping a sender tells the receiving half.  (Mutant: it does not.)
Woken_None == mailbox
Woken == [c \in Callers |->
    IF Receiving(c) /\ mailbox[c] = Empty THEN Closed ELSE mailbox[c]]

\* The watching supervisor reads a report, of whatever session: it drops every
\* registration, and with it every sender.  The one place where it does.
ClearRequests ==
    /\ supervisor = "watching"
    /\ \E s \in lost : lost' = lost \ {s}
    /\ supervisor' = "rebuilding"
    /\ requests' = {}
    /\ mailbox' = Woken
    /\ UNCHANGED <<next_id, pushed, calls, serverVars, born, alive, installed,
                   slot>>

\* reconnect_once got through the handshake: the connection goes into the slot
\* and a reader starts, on the table as it is.
SessionComesUp ==
    /\ supervisor = "rebuilding" /\ born < MaxSessions
    /\ supervisor' = "replaying"
    /\ born' = born + 1 /\ slot' = born' /\ alive' = alive \cup {born'}
    /\ UNCHANGED <<tableVars, calls, mailbox, serverVars, installed, lost>>

\* The replay went through: the reader it replaces is aborted, which costs
\* that one's report if it still waits for room in the channel.
RebuildSucceeds ==
    /\ supervisor = "replaying" /\ calls[Supervisor] = Idle
    /\ supervisor' = "watching"
    /\ installed' = born
    /\ EndReaders({installed})
    /\ lost' \in {lost, lost \ {installed}}
    /\ UNCHANGED <<tableVars, calls, mailbox, unasked, born, slot>>

\* It did not: the new reader is aborted, its report may be in the channel by
\* now, and the next attempt starts without anybody being woken.
RebuildFails ==
    /\ supervisor = "failing" /\ calls[Supervisor] = Idle
    /\ supervisor' = "rebuilding"
    /\ EndReaders({born})
    /\ slot' = NoSession
    /\ lost' \in {lost, lost \ {born}}
    /\ UNCHANGED <<tableVars, calls, mailbox, unasked, born, installed>>

\* It gives up, or the client is disconnected or dropped, which takes an owner
\* with no call under way and ends the supervisor where it awaits something.
SupervisorStops ==
    /\ \/ supervisor = "rebuilding"
       \/ /\ supervisor # "none"
          /\ \A c \in Callers \ {Supervisor} : calls[c] = Idle
          /\ calls[Supervisor].at \in {"idle", "sending", "waiting"}
    /\ supervisor' = "none" /\ lost' = {}
    /\ IF calls[Supervisor].at = "idle" THEN UNCHANGED calls
                                        ELSE Moves(Supervisor, "leaving")
    /\ UNCHANGED <<tableVars, mailbox, serverVars, born, alive, installed, slot>>

CallerStep(c) ==
    \/ TakeId(c) \/ Register(c) \/ Send(c) \/ Abandon(c) \/ Answered(c)
    \/ Expire(c) \/ StopReceiving(c) \/ Guard(c)

Next ==
    \/ \E c \in Callers : CallerStep(c)
    \/ \E s \in Sessions :
          ServerAnswers(s) \/ ServerSpeaks(s) \/ Route(s) \/ LoseSession(s)
    \/ ClearRequests \/ SessionComesUp \/ RebuildSucceeds \/ RebuildFails
    \/ SupervisorStops

Spec == Init /\ [][Next]_vars

\* Tasks that can move are polled.  The deadline is left out on purpose: what
\* is live here is live without it.  Sends, which have no deadline, the server
\* and the attempts to reconnect are under no obligation.
Fairness ==
    /\ \A c \in Callers :
          WF_vars(Answered(c)) /\ WF_vars(StopReceiving(c)) /\ WF_vars(Guard(c))
    /\ WF_vars(ClearRequests)
FairSpec == Spec /\ Fairness
-----------------------------------------------------------------------------
(***************************************************************************)
(* Properties.                                                             *)
(***************************************************************************)

\* A registration never outlives its call: a stale entry would consume the
\* answer a live waiter is owed (PendingGuard).
NoStaleRegistration ==
    \A r \in requests :
        \E c \in Callers :
            calls[c].at \notin {"idle", "numbered"} /\ calls[c].id = r.id

\* A caller that was told nothing yet still has its registration: no route and
\* no guard of another call takes it away.
WaiterIsRegistered ==
    \A c \in Callers :
        Receiving(c) /\ mailbox[c] = Empty
            => \E r \in requests : r.id = calls[c].id

\* Registrations and calls go together, whatever order routing, timeouts, losses
\* and dropped futures come in.
RegistrationsMatchCalls == NoStaleRegistration /\ WaiterIsRegistered

\* A message that fits somebody who still receives is not swallowed, whichever
\* session it came over: one of them, the longest registered, gets it.
NothingIsSwallowed ==
    [][ \A s \in Sessions, r \in requests, c \in Callers :
          (/\ wire[s] # << >> /\ wire'[s] = Tail(wire[s]) /\ s \in alive'
           /\ Fits(r, Head(wire[s]))
           /\ Receiving(c) /\ calls[c].id = r.id)
            => \E q \in requests, d \in Callers :
                  /\ q.place <= r.place /\ calls[d].id = q.id
                  /\ mailbox[d] = Empty /\ mailbox'[d] = Head(wire[s]) ]_vars

\* An answer in a mailbox stays until its caller has looked at it: nobody is
\* answered twice.
AnsweredOnce ==
    [][ \A c \in Callers :
          mailbox[c] # Empty => mailbox'[c] = mailbox[c] \/ calls'[c] = Idle ]_vars

\* When the session the client runs on dies and the supervisor watches, whoever
\* waits is told and does not sit out its deadline: also the owner whose call
\* began during a rebuild, and also when the session died before the replay was
\* through.  (Under a supervisor that rebuilds nobody is told: those callers
\* have CallsReturn.)
LossWakesWaiters ==
    \A c \in Callers :
        supervisor = "watching" /\ slot \notin alive /\ calls[c].at = "waiting"
            ~> calls[c].at # "waiting"

\* With the deadlines, every call returns, whatever the server and the session
\* do.
Deadlines   == \A c \in Callers : WF_vars(Expire(c))
CallsReturn ==
    Deadlines => \A c \in Callers : calls[c].at = "waiting" ~> calls[c] = Idle
=============================================================================
