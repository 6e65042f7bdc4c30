----------------------------- MODULE StateStream -----------------------------
(***************************************************************************)
(* How the consumers hear of an outage: the broadcast channel behind       *)
(* connection_states(), who holds its senders, and how long the client     *)
(* waits before each attempt (ReconnectPolicy::delay_for).                 *)
(*                                                                         *)
(* What is announced, and in which order, is module Outages, which Session *)
(* implements.  Here it goes through `notify` into a bounded channel that  *)
(* evicts its oldest state, so that the supervisor never waits.            *)
(*                                                                         *)
(* The channel has two senders: the client's (state_sender) and the clone  *)
(* the supervisor works with.  It closes when both are gone.               *)
(***************************************************************************)
EXTENDS Naturals, Sequences

CONSTANTS
    Receivers,      \* what the consumers got from connection_states()
    Capacity,       \* CONNECTION_STATE_CAPACITY
    Policies,       \* [initial, max, jitter]: initial_delay, max_delay, jitter
    MaxAttempts,    \* max_attempts of every policy (Some(limit))
    MinDelay,       \* MIN_RECONNECT_DELAY
    Doublings,      \* the exponent stops growing: 31
    DurationMax,    \* Duration::MAX
    Word,           \* 2^64: as_nanos() as u64
    MaxStreams,     \* bound: channels opened
    MaxOutages      \* bound: losses

ASSUME StateStreamAssumption ==
    /\ Capacity \in Nat \ {0} /\ MaxAttempts \in Nat /\ Doublings \in Nat
    /\ MinDelay \in Nat /\ DurationMax \in Nat /\ MinDelay <= DurationMax
    /\ Word \in Nat \ {0}
    /\ MaxStreams \in Nat /\ MaxOutages \in Nat
    /\ Policies \subseteq [initial : 0 .. DurationMax, max : 0 .. DurationMax,
                           jitter : BOOLEAN]

None    == 0
Streams == 1 .. MaxStreams
Off     == [policy |-> "none"]
States  == {"Lost", "Reconnecting", "Reconnected", "GaveUp"}

VARIABLES
    client,         \* "off", "live", or "dropped"
    reconnect,      \* the policy installed, or Off
    state_sender,   \* the client's sender: its stream, or None
    opened,         \* streams opened so far
    states,         \* the supervisor's clone of the sender: its stream, or None
    pacing,         \* the supervisor's clone of the policy
    announced,      \* the last state announced      (see Outages)
    attempt,        \* attempts of the outage so far (see Outages)
    delay,          \* the delay a Reconnecting carries, else 0
    ring,           \* [Streams -> the states still to be had, oldest first]
    sent,           \* [Streams -> how many were sent in all]
    receivers,      \* [Receivers -> where each one is]
    outages         \* bound

clientVars     == <<client, reconnect, state_sender, opened>>
supervisorVars == <<states, pacing, announced, attempt, delay, outages>>
streamVars     == <<ring, sent>>
vars == <<clientVars, supervisorVars, streamVars, receivers>>

Supervisor == INSTANCE Outages

\* A receiver: the stream it listens to, the position it reads next, what it
\* heard last, and whether the client has disconnected since it was handed out
\* (history).
Receiver == [stream : Streams \cup {None}, next : Nat,
             heard : States \cup {"None", "Closed"}, stale : BOOLEAN]
Unused == [stream |-> None, next |-> 1, heard |-> "None", stale |-> FALSE]

TypeOK ==
    /\ client \in {"off", "live", "dropped"}
    /\ reconnect \in Policies \cup {Off} /\ pacing \in Policies \cup {Off}
    /\ state_sender \in Streams \cup {None} /\ states \in Streams \cup {None}
    /\ opened \in 0 .. MaxStreams
    /\ announced \in States \cup {"None"} /\ attempt \in 0 .. MaxAttempts
    /\ delay \in 0 .. DurationMax
    /\ ring \in [Streams -> Seq(States)] /\ sent \in [Streams -> Nat]
    /\ \A s \in Streams : Len(ring[s]) <= Capacity /\ Len(ring[s]) <= sent[s]
    /\ receivers \in [Receivers -> Receiver]
    /\ outages \in 0 .. MaxOutages

Init ==
    /\ client = "off" /\ reconnect = Off /\ state_sender = None /\ opened = 0
    /\ states = None /\ pacing = Off /\ Supervisor!Init /\ delay = 0
    /\ ring = [s \in Streams |-> << >>] /\ sent = [s \in Streams |-> 0]
    /\ receivers = [r \in Receivers |-> Unused]
    /\ outages = 0

-----------------------------------------------------------------------------
(***************************************************************************)
(* delay_for.  Time is counted in nanoseconds, in units of a size that the *)
(* constants choose.                                                       *)
(***************************************************************************)
Least(a, b)    == IF a <= b THEN a ELSE b
Greatest(a, b) == IF a <= b THEN b ELSE a

Power[n \in 0 .. Doublings] == IF n = 0 THEN 1 ELSE 2 * Power[n - 1]

\* Duration::saturating_mul by a saturated power of two.
\* (Mutant: the multiplication wraps.)
Scaled_Wrapping(policy, number) ==
    (policy.initial * Power[Least(number - 1, Doublings)]) % (DurationMax + 1)
Scaled(policy, number) ==
    LET product == policy.initial * Power[Least(number - 1, Doublings)]
    IN  IF product \in 0 .. DurationMax THEN product ELSE DurationMax

Ceiling(policy) == Greatest(policy.max, MinDelay)

Unspread(policy, number) ==
    Greatest(Least(Scaled(policy, number), Ceiling(policy)), MinDelay)

\* With jitter, anything up to the delay, but not below the floor.
DelayFor(policy, number) ==
    LET nanos == Unspread(policy, number) % Word
    IN  IF ~policy.jitter \/ nanos = 0 THEN {Unspread(policy, number)}
        ELSE {Greatest(d, MinDelay) : d \in 0 .. nanos}

-----------------------------------------------------------------------------
(***************************************************************************)
(* The channel (tokio::sync::broadcast).                                   *)
(***************************************************************************)
Listens(r, s) == receivers[r].stream = s /\ receivers[r].heard # "Closed"
IsClosed(s)   == s \notin {state_sender, states}
Oldest(s)     == sent[s] - Len(ring[s]) + 1

\* A full channel evicts the oldest state.
\* (Mutant: it turns the newest away, as an mpsc queue would.)
Kept_First(s, state) == IF Len(ring[s]) = Capacity THEN ring[s]
                                                   ELSE Append(ring[s], state)
Kept(s, state) ==
    Append(IF Len(ring[s]) = Capacity THEN Tail(ring[s]) ELSE ring[s], state)

\* notify.  A send nobody listens to is dropped.
Notify(s, state) ==
    IF \E r \in Receivers : Listens(r, s)
    THEN /\ ring' = [ring EXCEPT ![s] = Kept(s, state)]
         /\ sent' = [sent EXCEPT ![s] = @ + 1]
    ELSE UNCHANGED streamVars

\* connection_states()
Subscribe(r) ==
    /\ client # "dropped" /\ state_sender # None
    /\ receivers[r] = Unused
    /\ receivers' = [receivers EXCEPT ![r].stream = state_sender,
                                      ![r].next = sent[state_sender] + 1]
    /\ UNCHANGED <<clientVars, supervisorVars, streamVars>>

\* recv(): the next state, Lagged, or Closed once the rest was read.
Receive(r) ==
    LET s    == receivers[r].stream
        next == receivers[r].next
    IN  /\ s # None /\ receivers[r].heard # "Closed"
        /\ receivers' = [receivers EXCEPT ![r] =
              IF next > sent[s] THEN [@ EXCEPT !.heard = "Closed"]
              ELSE IF next < Oldest(s)
              THEN [@ EXCEPT !.next = Oldest(s)]
              ELSE [@ EXCEPT !.heard = ring[s][next - Oldest(s) + 1],
                             !.next = next + 1]]
        /\ next > sent[s] => IsClosed(s)
        /\ UNCHANGED <<clientVars, supervisorVars, streamVars>>

-----------------------------------------------------------------------------
(***************************************************************************)
(* The supervisor.  It announces what Outages allows, and returns after    *)
(* giving up or when it is told to stop; its clone goes with it.           *)
(***************************************************************************)
Announces(action) ==
    /\ states # None /\ action
    /\ Notify(states, announced')
    /\ UNCHANGED <<clientVars, pacing, receivers>>

Loses ==
    /\ outages < MaxOutages /\ outages' = outages + 1
    /\ client = "live"
    /\ Announces(Supervisor!Lose)
    /\ delay' = 0 /\ UNCHANGED states

Retries ==
    /\ Announces(Supervisor!Try)
    /\ delay' \in DelayFor(pacing, attempt')
    /\ UNCHANGED <<states, outages>>

Reconnects ==
    /\ Announces(Supervisor!Reconnect)
    /\ delay' = 0 /\ UNCHANGED <<states, outages>>

GivesUp ==
    /\ Announces(Supervisor!GiveUp)
    /\ states' = None
    /\ delay' = 0 /\ UNCHANGED outages

\* The shutdown message or the abort lands.
Stops ==
    /\ client # "live" /\ states # None
    /\ states' = None
    /\ UNCHANGED <<clientVars, pacing, announced, attempt, delay, outages,
                   streamVars, receivers>>

-----------------------------------------------------------------------------
(***************************************************************************)
(* The owner of the client.                                                *)
(***************************************************************************)

\* A stream is opened only if there is none: receivers may have been handed
\* out already.  (Mutant: connect opens a stream of its own.)
OpensForConnect_Always == TRUE
OpensForConnect == state_sender = None

Opens(condition) ==
    IF condition
    THEN /\ opened < MaxStreams /\ opened' = opened + 1
         /\ state_sender' = opened'
    ELSE UNCHANGED <<state_sender, opened>>

WithReconnect ==
    /\ client # "dropped"
    /\ \E policy \in Policies : reconnect' = policy
    /\ Opens(state_sender = None)
    /\ UNCHANGED <<client, supervisorVars, streamVars, receivers>>

\* connect, once its handshake is done.
Connect ==
    /\ client = "off" /\ states = None
    /\ client' = "live"
    /\ IF reconnect = Off
       THEN UNCHANGED <<state_sender, opened, states, pacing, announced,
                        attempt, delay>>
       ELSE /\ Opens(OpensForConnect)
            /\ states' = state_sender' /\ pacing' = reconnect
            /\ Supervisor!Restart /\ delay' = 0
    /\ UNCHANGED <<reconnect, outages, streamVars, receivers>>

\* disconnect and drop: the client's sender goes.
\* (Mutant: disconnect keeps it.)
SenderAfter_Kept == state_sender
SenderAfter == None

Disconnect ==
    /\ client = "live"
    /\ client' = "off"
    /\ state_sender' = SenderAfter
    /\ receivers' = [r \in Receivers |->
          [receivers[r] EXCEPT !.stale = receivers[r] # Unused]]
    /\ UNCHANGED <<reconnect, opened, supervisorVars, streamVars>>

DropClient ==
    /\ client # "dropped"
    /\ client' = "dropped"
    /\ state_sender' = None
    /\ receivers' = [r \in Receivers |->
          [receivers[r] EXCEPT !.stale = receivers[r] # Unused]]
    /\ UNCHANGED <<reconnect, opened, supervisorVars, streamVars>>

-----------------------------------------------------------------------------
Next ==
    \/ WithReconnect \/ Connect \/ Disconnect \/ DropClient
    \/ Loses \/ Retries \/ Reconnects \/ GivesUp \/ Stops
    \/ \E r \in Receivers : Subscribe(r) \/ Receive(r)

Spec == Init /\ [][Next]_vars

\* A consumer keeps reading, at its own pace, and a supervisor that was
\* stopped ends.
Fairness == WF_vars(Stops) /\ \A r \in Receivers : WF_vars(Receive(r))

FairSpec == Spec /\ Fairness
-----------------------------------------------------------------------------
(***************************************************************************)
(* Properties.                                                             *)
(***************************************************************************)

\* A receiver handed out since the last disconnect listens to the stream the
\* client holds and the supervisor sends to, in whatever order with_reconnect,
\* connection_states and connect were called.
ReceiversListen ==
    \A r \in Receivers :
        receivers[r].stream # None /\ ~receivers[r].stale =>
            /\ receivers[r].stream = state_sender
            /\ client = "live" => states \in {None, state_sender}

\* The wait before an attempt is never below the floor nor above the ceiling
\* of the policy the supervisor was started with.
DelayInBounds ==
    announced = "Reconnecting" => delay \in MinDelay .. Ceiling(pacing)

\* ... and without jitter it never shrinks from one attempt to the next: a
\* long outage does not fold the backoff back to the start.
BackoffIsSteady ==
    [][ attempt' > attempt =>
          /\ delay' \in MinDelay .. Ceiling(pacing)
          /\ ~pacing.jitter /\ attempt > 0 => delay' >= delay ]_vars

\* A consumer may lose the middle of an outage but not its end: one that has
\* not read everything yet hears of the end, or of the next loss.
End == {"Reconnected", "GaveUp"}
Behind(r) ==
    \E s \in Streams :
        s = state_sender /\ Listens(r, s) /\ receivers[r].next <= sent[s]
EndIsHeard ==
    \A r \in Receivers :
        announced \in End /\ Behind(r)
            ~> receivers[r].heard = announced \/ announced \notin End

\* The stream closes when the session does: every receiver is told.
StreamEnds ==
    \A r \in Receivers :
        client # "live" /\ receivers[r].stale ~> receivers[r].heard = "Closed"
=============================================================================
