--------------------------------- MODULE Link ---------------------------------
(***************************************************************************)
(* One connection to the server and its deadlines: the SETUP / AUTH        *)
(* handshake, in which every read is bounded; the keepalive, which must    *)
(* keep the server from timing the client out and skips a beat when the    *)
(* socket was just used; the reader, which takes silence for death; and    *)
(* the lock on the write half that all of them share.                      *)
(*                                                                         *)
(* Time is counted in units, Second of them to a second.  Clocks count     *)
(* from the event they are about, and a timer that is due fires before     *)
(* time passes.                                                            *)
(***************************************************************************)
EXTENDS Naturals

CONSTANTS
    Second,             \* units of time in a second
    ConnectTimeout,     \* DEFAULT_CONNECT_TIMEOUT, in units
    HandshakeTimeout,   \* HANDSHAKE_TIMEOUT, in units
    Advertisable,       \* with_keepalive_timeout, in seconds
    Negotiable          \* keepaliveTimeout of the server's SETUP, in seconds

ASSUME LinkAssumption ==
    /\ Second \in Nat \ {0}
    /\ ConnectTimeout \in Nat /\ HandshakeTimeout \in Nat
    /\ Advertisable \subseteq Nat \ {0}
    /\ Negotiable \subseteq Nat

None == 0       \* no deadline negotiated

VARIABLES
    phase,          \* how far the connection got
    outcome,        \* the error it ended with
    advertised,     \* keepalive_timeout
    negotiated,     \* server_keepalive_timeout
    interval,       \* keepalive_interval, once the session is up
    keepalive,      \* where spawn_keepalive's task is
    next_tick,      \* time until its interval ticks
    unsent,         \* time since last_sent, or since the session is up
    writer,         \* who holds the lock on the write half
    reader,         \* where the read of the moment is
    waited,         \* time since that read began
    elapsed,        \* history: time since connect() began, until it returns
    unheard,        \* history: time since a message arrived
    heard,          \* history: the last frame of this read that was no ping
    said            \* history: what the server said of the credentials

writeVars  == <<keepalive, next_tick, unsent, writer>>
readVars   == <<reader, waited, unheard>>
serverVars == <<heard, said>>
vars == <<phase, outcome, advertised, negotiated, interval, writeVars,
          readVars, elapsed, serverVars>>

Handshaking == {"setup", "auth_state", "auth"}

\* DXLinkError, as far as a connection meets it; "Connection" is WebSocket too.
Errors == {"Connection", "Timeout", "Authentication", "Protocol",
           "Serialization", "UnexpectedMessage"}

\* What can arrive.  "UNEXPECTED" is a message of another type or on another
\* channel, or malformed; "UNREADABLE" has the right type and not its fields.
AuthStates == {"AUTHORIZED", "UNAUTHORIZED", "OTHER_STATE"}
Frames == {"SETUP", "ERROR", "ERROR_UNAUTHORIZED", "UNEXPECTED", "UNREADABLE",
           "ping", "binary", "close", "eof"} \cup AuthStates

ReceiveDeadline == Second * advertised

TypeOK ==
    /\ phase \in {"opening", "up", "over"} \cup Handshaking
    /\ outcome \in Errors \cup {"none"}
    /\ advertised \in Nat \ {0} /\ negotiated \in Nat
    /\ interval \in Nat /\ (phase = "up" => interval >= Second)
    /\ keepalive \in {"unborn", "waiting", "sending", "ended"}
    /\ next_tick \in 0 .. interval
    /\ unsent \in Nat /\ waited \in Nat /\ elapsed \in Nat /\ unheard \in Nat
    /\ writer \in {"free", "keepalive", "owner"}
    /\ reader \in {"reading", "closing"}
    /\ heard \in Frames \cup {"nothing"}
    /\ said \in AuthStates \cup {"nothing"}

Init ==
    /\ phase = "opening" /\ outcome = "none"
    /\ advertised \in Advertisable /\ negotiated = None /\ interval = 0
    /\ keepalive = "unborn" /\ next_tick = 0 /\ unsent = 0
    /\ writer = "free" /\ reader = "reading" /\ waited = 0
    /\ elapsed = 0 /\ unheard = 0
    /\ heard = "nothing" /\ said = "nothing"

-----------------------------------------------------------------------------
(***************************************************************************)
(* Reading (connection.rs).                                                *)
(***************************************************************************)
Fails(error) ==
    /\ phase' = "over" /\ outcome' = error
    /\ UNCHANGED <<advertised, negotiated, interval, writeVars, elapsed>>

\* A new receive_with_timeout begins.
ReadsAgain == waited' = 0 /\ reader' = "reading"

\* receive skips a ping or pong within the same deadline.  (Mutant: it makes
\* the caller read again.)
Skips_Restarting == ReadsAgain
Skips == UNCHANGED <<waited, reader>>

PingArrives ==
    /\ phase \in Handshaking \cup {"up"} /\ reader = "reading"
    /\ Skips
    /\ UNCHANGED <<phase, outcome, advertised, negotiated, interval, writeVars,
                   elapsed, unheard, serverVars>>

\* What the error of a read is called; "eof" is an error of the socket too.
ReadError(frame) ==
    CASE frame = "binary" -> "UnexpectedMessage"
      [] frame \in {"close", "eof"} -> "Connection"

\* is_terminal: the socket can no longer be used.
IsTerminal(error) == error \in {"Connection", "Authentication"}

-----------------------------------------------------------------------------
(***************************************************************************)
(* connect, up to the session (WebSocketConnection::connect, handshake).   *)
(***************************************************************************)
Opens ==
    /\ phase = "opening"
    /\ \/ /\ phase' = "setup" /\ waited' = 0
          /\ UNCHANGED <<outcome, advertised, negotiated, interval, writeVars,
                         elapsed>>
       \/ Fails("Connection") /\ UNCHANGED waited
    /\ UNCHANGED <<reader, unheard, serverVars>>

\* How a handshake read rejects a frame it was not waiting for.
Rejection(frame) ==
    CASE frame = "ERROR_UNAUTHORIZED" -> "Authentication"
      [] frame = "UNREADABLE" -> "Serialization"
      [] frame \in {"binary", "close", "eof"} -> ReadError(frame)
      [] frame \in AuthStates /\ phase = "auth" -> "Authentication"
      [] OTHER -> "Protocol"

\* (Mutant: it is passed over and the read repeated.)
Rejects_Patiently(frame) ==
    /\ ReadsAgain /\ heard' = frame
    /\ UNCHANGED <<phase, outcome, advertised, negotiated, interval, writeVars,
                   elapsed>>
Rejects(frame) ==
    /\ Fails(Rejection(frame)) /\ heard' = frame
    /\ UNCHANGED <<waited, reader>>

\* keepalive_interval_for.
KeepaliveIntervalFor(adv, neg) ==
    LET deadline == IF neg = None THEN adv ELSE neg
        seconds  == (deadline + 2) \div 3
    IN  Second * (IF seconds > 1 THEN seconds ELSE 1)

\* The session is up: the keepalive starts one interval out, the reader reads.
GoesUp ==
    /\ phase' = "up"
    /\ interval' = KeepaliveIntervalFor(advertised, negotiated)
    /\ keepalive' = "waiting" /\ next_tick' = interval' /\ unsent' = 0
    /\ ReadsAgain /\ elapsed' = 0 /\ unheard' = 0 /\ heard' = "nothing"
    /\ UNCHANGED <<outcome, advertised, negotiated, writer>>

GoesOnTo(next) ==
    /\ phase' = next /\ ReadsAgain /\ heard' = "nothing"
    /\ UNCHANGED <<outcome, advertised, interval, writeVars, elapsed>>

\* After AUTH only AUTHORIZED will do.  (Mutant: any state will.)
Accepted_AfterAuth(frame) ==
    frame = "AUTHORIZED" \/ (phase = "auth" /\ frame \in AuthStates)
Accepted(frame) == frame = "AUTHORIZED"

HandshakeReads(frame) ==
    /\ phase \in Handshaking
    /\ said' = IF frame \in AuthStates THEN frame ELSE said
    /\ CASE phase = "setup" /\ frame = "SETUP" ->
              /\ GoesOnTo("auth_state") /\ UNCHANGED unheard
              /\ negotiated' \in Negotiable \cup {None}
         [] phase = "auth_state" /\ frame = "UNAUTHORIZED" ->
              GoesOnTo("auth") /\ UNCHANGED <<negotiated, unheard>>
         [] phase # "setup" /\ Accepted(frame) -> GoesUp
         [] OTHER -> Rejects(frame) /\ UNCHANGED unheard

TimesOut(limit) ==
    /\ waited = limit
    /\ Fails("Timeout")
    /\ UNCHANGED <<readVars, serverVars>>

-----------------------------------------------------------------------------
(***************************************************************************)
(* The session: keepalive, reader, and the owner's sends.                  *)
(***************************************************************************)
Up == phase = "up"
RestUnchanged ==
    UNCHANGED <<phase, outcome, advertised, negotiated, interval, elapsed,
                serverVars>>

\* A beat is skipped when the socket was used recently.  (Mutant: also when
\* the last message is a whole interval old.)
UsedRecently_Inclusive == unsent <= interval
UsedRecently == unsent < interval

KeepaliveTicks ==
    /\ Up /\ keepalive = "waiting" /\ next_tick = 0
    /\ next_tick' = interval
    /\ keepalive' = IF UsedRecently THEN "waiting" ELSE "sending"
    /\ UNCHANGED <<unsent, writer, readVars>> /\ RestUnchanged

Locks(who) ==
    /\ Up /\ writer = "free"
    /\ who = "keepalive" => keepalive = "sending"
    /\ writer' = who
    /\ UNCHANGED <<keepalive, next_tick, unsent, readVars>> /\ RestUnchanged

\* send returns: mark_sent, or an error, of which the keepalive ends.
SendReturns(who) ==
    /\ Up /\ writer = who /\ writer' = "free"
    /\ \/ /\ unsent' = 0
          /\ keepalive' = IF who = "keepalive" THEN "waiting" ELSE keepalive
       \/ /\ UNCHANGED unsent
          /\ keepalive' = IF who = "keepalive" THEN "ended" ELSE keepalive
    /\ UNCHANGED <<next_tick, readVars>> /\ RestUnchanged

\* The reader goes on to the next read.
ReadsOn == ReadsAgain

MessageArrives ==
    /\ Up /\ reader = "reading"
    /\ ReadsOn /\ unheard' = 0
    /\ UNCHANGED writeVars /\ RestUnchanged

\* An error ends the reader if it is terminal, or it reads on.  (The pause of
\* 100 ms before it does is less than a unit of time.)
ReadFails(frame) ==
    /\ Up /\ reader = "reading"
    /\ \/ /\ IsTerminal(ReadError(frame))
          /\ Fails(ReadError(frame))
          /\ UNCHANGED <<readVars, serverVars>>
       \/ /\ ~IsTerminal(ReadError(frame))
          /\ ReadsOn /\ unheard' = 0
          /\ UNCHANGED writeVars /\ RestUnchanged

\* The server closes: the reader answers the close, for which it needs the
\* write half, still within its deadline.
CloseArrives ==
    /\ Up /\ reader = "reading"
    /\ reader' = "closing"
    /\ UNCHANGED <<waited, unheard, writeVars>> /\ RestUnchanged

CloseAnswered ==
    /\ Up /\ reader = "closing" /\ writer = "free"
    /\ Fails(ReadError("close"))
    /\ UNCHANGED <<readVars, serverVars>>

-----------------------------------------------------------------------------
(***************************************************************************)
(* Time.                                                                   *)
(***************************************************************************)
Limit == IF phase = "opening" THEN ConnectTimeout
         ELSE IF phase \in Handshaking THEN HandshakeTimeout
         ELSE ReceiveDeadline

Due == \/ waited >= Limit
       \/ Up /\ keepalive = "waiting" /\ next_tick = 0
       \/ Up /\ keepalive = "sending" /\ writer = "free"

Deadline == IF negotiated = None THEN advertised ELSE negotiated

\* The interval ticks on while the keepalive sends; a tick it missed fires
\* right after the send, and is skipped.  (Bound: unsent stops at the server's
\* deadline, as nothing tells longer times apart.)
TimePasses ==
    /\ phase # "over" /\ ~Due
    /\ waited' = waited + 1
    /\ IF Up
       THEN /\ next_tick' = (IF next_tick = 0 THEN interval ELSE next_tick) - 1
            /\ unsent' = unsent +
                         IF unsent < Second * Deadline THEN 1 ELSE 0
            /\ unheard' = unheard + 1
            /\ UNCHANGED elapsed
       ELSE elapsed' = elapsed + 1 /\ UNCHANGED <<next_tick, unsent, unheard>>
    /\ UNCHANGED <<phase, outcome, advertised, negotiated, interval, keepalive,
                   writer, reader, serverVars>>

Next ==
    \/ Opens \/ PingArrives
    \/ \E frame \in Frames \ {"ping"} : HandshakeReads(frame)
    \/ phase # "over" /\ TimesOut(Limit)
    \/ KeepaliveTicks
    \/ \E who \in {"keepalive", "owner"} : Locks(who) \/ SendReturns(who)
    \/ MessageArrives \/ CloseArrives \/ CloseAnswered
    \/ \E frame \in {"binary", "eof"} : ReadFails(frame)
    \/ TimePasses

Spec == Init /\ [][Next]_vars
-----------------------------------------------------------------------------
(***************************************************************************)
(* Safety.                                                                 *)
(***************************************************************************)

\* "The specification only requires some outbound message before the server's
\* keepaliveTimeout": although beats are skipped, a keepalive that is not busy
\* sending never lets a deadline of two seconds or more pass.
HeardInTime ==
    Up /\ keepalive = "waiting" /\ Deadline >= 2 => unsent < Second * Deadline

\* "Silence past the advertised deadline means the peer is gone": it is
\* noticed when the deadline passes, also when pings arrive, and when a close
\* cannot be answered because a send holds the write half.
SilenceIsNoticed == Up => unheard <= ReceiveDeadline

\* ... and a session is only given up for it when it was silent that long.
SilenceIsReal ==
    outcome = "Timeout" /\ keepalive # "unborn" => unheard >= ReceiveDeadline

\* The two together: the deadline is exact.
SilenceIsTimed == SilenceIsNoticed /\ SilenceIsReal

\* connect() returns: "a server that accepts the socket and then says nothing
\* must not hold a caller open forever", nor one that keeps talking.
HandshakeIsBounded == elapsed <= ConnectTimeout + 3 * HandshakeTimeout

\* Whatever order the server speaks in, a session is only up when its last
\* word on the credentials was AUTHORIZED.
UpMeansAuthorized == Up => said = "AUTHORIZED"

\* worth_retrying.  (Mutant: is_terminal in its place.)
WorthRetrying_Terminal(error) == IsTerminal(error)
WorthRetrying(error) == error \in {"Connection", "Timeout"}

\* A handshake is retried when the server said nothing or the transport
\* failed, and not when the server gave an answer, which it would give again.
AnswersAreFinal ==
    outcome # "none" /\ keepalive = "unborn" =>
        (WorthRetrying(outcome) <=> heard \in {"nothing", "close", "eof"})
=============================================================================
