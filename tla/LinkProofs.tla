------------------------------ MODULE LinkProofs ------------------------------
(***************************************************************************)
(* Proofs about Link, for every deadline and every resolution of time.     *)
(***************************************************************************)
EXTENDS Link, TLAPS

Before == phase \in {"opening", "setup", "auth_state", "auth"}

\* Nothing of a session exists before it is up, and no error before the end.
Stages ==
    /\ phase # "over" => outcome = "none"
    /\ Before => keepalive = "unborn" /\ heard = "nothing"
    /\ Up => keepalive # "unborn"

\* No read outlives its deadline.
Patience == phase # "over" => waited <= Limit

\* What of connect()'s time the current read of each step can have begun at.
Spent ==
    /\ phase = "opening" => elapsed <= waited
    /\ phase = "setup" => elapsed <= ConnectTimeout + waited
    /\ phase = "auth_state" =>
          elapsed <= ConnectTimeout + HandshakeTimeout + waited
    /\ phase = "auth" =>
          elapsed <= ConnectTimeout + 2 * HandshakeTimeout + waited
    /\ HandshakeIsBounded

\* The reader's deadline runs with the silence, whatever pings arrive.
Silence == Up => unheard = waited

\* A beat that is skipped leaves less than two intervals between two messages.
Beat ==
    Up => /\ interval = KeepaliveIntervalFor(advertised, negotiated)
          /\ keepalive = "waiting" => unsent + next_tick < 2 * interval

IInv ==
    /\ TypeOK
    /\ Stages
    /\ Patience
    /\ Spent
    /\ Silence
    /\ Beat
    /\ SilenceIsReal
    /\ UpMeansAuthorized
    /\ AnswersAreFinal

-----------------------------------------------------------------------------
\* How a handshake read can end.
LEMMA Rejections ==
    ASSUME NEW frame \in Frames \ {"ping"},
           ~(phase = "auth" /\ frame = "AUTHORIZED")
    PROVE  /\ Rejection(frame) \in Errors \ {"Timeout"}
           /\ WorthRetrying(Rejection(frame)) <=> frame \in {"close", "eof"}
BY DEF Rejection, ReadError, WorthRetrying, Frames, AuthStates, Errors

\* keepalive_interval_for: at least a second, and twice it fits any deadline
\* that allows it.
LEMMA IntervalBounds ==
    ASSUME NEW adv \in Nat, NEW neg \in Nat
    PROVE  LET d == IF neg = None THEN adv ELSE neg
               i == KeepaliveIntervalFor(adv, neg)
           IN  i \in Nat /\ i >= Second /\ (d >= 2 => 2 * i <= Second * d)
<1> DEFINE d == IF neg = None THEN adv ELSE neg
           q == (d + 2) \div 3
           n == IF q > 1 THEN q ELSE 1
<1>1. d \in Nat /\ Second \in Nat /\ Second > 0
  BY LinkAssumption
<1>2. q \in Nat /\ 3 * q <= d + 2
  BY <1>1
<1>3. n \in Nat /\ n >= 1 /\ (d >= 2 => 2 * n <= d)
  BY <1>1, <1>2
<1>4. KeepaliveIntervalFor(adv, neg) = Second * n
  BY DEF KeepaliveIntervalFor
<1> HIDE DEF d, n
<1>5. Second * n \in Nat /\ Second * n >= Second
  BY <1>1, <1>3
<1>6. ASSUME d >= 2 PROVE 2 * (Second * n) <= Second * d
  <2>1. Second * (2 * n) <= Second * d
    BY <1>1, <1>3, <1>6
  <2>2. 2 * (Second * n) = Second * (2 * n)
    BY <1>1, <1>3
  <2>3. QED
    BY <2>1, <2>2
<1>7. QED
  BY <1>4, <1>5, <1>6 DEF d

\* The client before connect().
LEMMA InitIInv == Init => IInv
<1> SUFFICES ASSUME Init PROVE IInv
  OBVIOUS
<1>1. TypeOK
  BY LinkAssumption DEF Init, TypeOK, None, Frames, AuthStates
<1>2. Stages /\ Patience /\ Silence /\ Beat
  BY LinkAssumption
     DEF Init, Stages, Before, Up, Patience, Limit, Silence, Beat
<1>3. Spent
  BY LinkAssumption DEF Init, Spent, HandshakeIsBounded
<1>4. SilenceIsReal /\ UpMeansAuthorized /\ AnswersAreFinal
  BY DEF Init, SilenceIsReal, UpMeansAuthorized, AnswersAreFinal, Up
<1>5. QED
  BY <1>1, <1>2, <1>3, <1>4 DEF IInv

-----------------------------------------------------------------------------
(***************************************************************************)
(* The end of a connection, during the handshake or after.                 *)
(***************************************************************************)

\* Whoever fails has to answer for the error only.
LEMMA FailsIInv ==
    ASSUME IInv, NEW error \in Errors, Fails(error),
           waited' \in Nat, unheard' \in Nat, reader' = reader,
           heard' \in Frames \cup {"nothing"},
           said' \in AuthStates \cup {"nothing"},
           SilenceIsReal', AnswersAreFinal'
    PROVE  IInv'
<1>1. TypeOK'
  BY DEF IInv, TypeOK, Fails, writeVars
<1>2. Stages' /\ Patience' /\ Silence' /\ Beat' /\ UpMeansAuthorized'
  BY DEF Fails, Stages, Before, Patience, Silence, Beat, UpMeansAuthorized, Up
<1>3. Spent'
  BY DEF IInv, Spent, Fails, HandshakeIsBounded
<1>4. QED
  BY <1>1, <1>2, <1>3 DEF IInv

\* A deadline that expires while the session is up is the reader's, and then
\* the silence is real.
LEMMA TimesOutIInv == IInv /\ phase # "over" /\ TimesOut(Limit) => IInv'
<1> SUFFICES ASSUME IInv, phase # "over", TimesOut(Limit) PROVE IInv'
  OBVIOUS
<1>1. Fails("Timeout") /\ waited = Limit /\ UNCHANGED <<readVars, serverVars>>
  BY DEF TimesOut
<1>2. SilenceIsReal'
  <2>1. CASE Up
    <3>1. unheard = ReceiveDeadline
      BY <1>1, <2>1 DEF IInv, Silence, Up, Limit, Handshaking
    <3>2. unheard' = unheard /\ ReceiveDeadline' = ReceiveDeadline
      BY <1>1 DEF Fails, readVars, ReceiveDeadline
    <3>3. unheard \in Nat
      BY DEF IInv, TypeOK
    <3>4. QED
      BY <3>1, <3>2, <3>3 DEF SilenceIsReal
  <2>2. CASE ~Up
    <3>1. keepalive' = "unborn"
      BY <1>1, <2>2 DEF IInv, TypeOK, Stages, Before, Up, Handshaking, Fails,
                        writeVars
    <3>2. QED
      BY <3>1 DEF SilenceIsReal
  <2>3. QED
    BY <2>1, <2>2
<1>3. AnswersAreFinal'
  BY <1>1 DEF IInv, TypeOK, Stages, Before, Up, Handshaking, Fails, writeVars,
              serverVars, AnswersAreFinal, WorthRetrying
<1>4. /\ waited' \in Nat /\ unheard' \in Nat /\ reader' = reader
      /\ heard' \in Frames \cup {"nothing"}
      /\ said' \in AuthStates \cup {"nothing"}
  BY <1>1 DEF IInv, TypeOK, readVars, serverVars
<1>5. QED
  BY <1>1, <1>2, <1>3, <1>4, FailsIInv DEF Errors

\* A read that fails, or a close that was answered.
LEMMA SessionFailsIInv ==
    ASSUME IInv, Up, Fails("Connection"), UNCHANGED <<readVars, serverVars>>
    PROVE  IInv'
<1>1. SilenceIsReal' /\ AnswersAreFinal'
  BY DEF IInv, Stages, Fails, writeVars, SilenceIsReal, AnswersAreFinal
<1>2. /\ waited' \in Nat /\ unheard' \in Nat /\ reader' = reader
      /\ heard' \in Frames \cup {"nothing"}
      /\ said' \in AuthStates \cup {"nothing"}
  BY DEF IInv, TypeOK, readVars, serverVars
<1>3. QED
  BY <1>1, <1>2, FailsIInv DEF Errors

-----------------------------------------------------------------------------
(***************************************************************************)
(* The handshake.                                                          *)
(***************************************************************************)

LEMMA OpensIInv == IInv /\ Opens => IInv'
<1> SUFFICES ASSUME IInv, Opens PROVE IInv'
  OBVIOUS
<1>1. CASE Fails("Connection") /\ UNCHANGED waited
  <2>1. /\ waited' \in Nat /\ unheard' \in Nat /\ reader' = reader
        /\ heard' \in Frames \cup {"nothing"}
        /\ said' \in AuthStates \cup {"nothing"}
    BY <1>1 DEF IInv, TypeOK, Opens, serverVars
  <2>2. keepalive' = "unborn" /\ heard' = "nothing"
    BY <1>1 DEF Opens, IInv, Stages, Before, Fails, writeVars, serverVars
  <2>3. SilenceIsReal' /\ AnswersAreFinal'
    BY <1>1, <2>2 DEF Fails, SilenceIsReal, AnswersAreFinal, WorthRetrying
  <2>4. QED
    BY <1>1, <2>1, <2>3, FailsIInv DEF Errors
<1>2. CASE /\ phase' = "setup" /\ waited' = 0
           /\ UNCHANGED <<outcome, advertised, negotiated, interval, writeVars,
                          elapsed>>
  <2>1. TypeOK'
    BY <1>2 DEF Opens, IInv, TypeOK, Handshaking, writeVars, serverVars
  <2>2. Stages' /\ SilenceIsReal' /\ UpMeansAuthorized' /\ AnswersAreFinal'
    BY <1>2 DEF Opens, IInv, Stages, Before, Up, writeVars, serverVars,
                SilenceIsReal, UpMeansAuthorized, AnswersAreFinal
  <2>3. Patience' /\ Silence' /\ Beat'
    BY <1>2, LinkAssumption
       DEF Patience, Limit, Handshaking, Silence, Beat, Up
  <2>4. Spent'
    <3>1. /\ elapsed' = elapsed /\ elapsed <= waited
          /\ waited <= ConnectTimeout
      BY <1>2 DEF Opens, IInv, Spent, Patience, Limit
    <3>2. QED
      BY <1>2, <3>1, LinkAssumption DEF IInv, TypeOK, Spent, HandshakeIsBounded
  <2>5. QED
    BY <2>1, <2>2, <2>3, <2>4 DEF IInv
<1>3. QED
  BY <1>1, <1>2 DEF Opens

\* The answer the handshake waited for: the next read begins.
LEMMA GoesOnIInv ==
    ASSUME IInv, NEW next \in Handshaking, GoesOnTo(next),
           \/ phase = "setup" /\ next = "auth_state"
           \/ phase = "auth_state" /\ next = "auth",
           negotiated' \in Nat, UNCHANGED unheard,
           said' \in AuthStates \cup {"nothing"}
    PROVE  IInv'
<1>1. TypeOK'
  BY DEF IInv, TypeOK, GoesOnTo, ReadsAgain, writeVars, Handshaking
<1>2. Stages' /\ SilenceIsReal' /\ UpMeansAuthorized' /\ AnswersAreFinal'
  BY DEF IInv, Stages, Before, Up, GoesOnTo, writeVars, Handshaking,
         SilenceIsReal, UpMeansAuthorized, AnswersAreFinal
<1>3. Patience' /\ Silence' /\ Beat'
  BY LinkAssumption DEF GoesOnTo, ReadsAgain, Patience, Limit, Handshaking,
                        Silence, Beat, Up
<1>4. Spent'
  <2>1. waited <= HandshakeTimeout
    BY DEF IInv, Patience, Limit, Handshaking
  <2>2. phase' = next /\ elapsed' = elapsed /\ waited' = 0
    BY DEF GoesOnTo, ReadsAgain
  <2>3. elapsed \in Nat /\ waited \in Nat
    BY DEF IInv, TypeOK
  <2>4. CASE phase = "setup" /\ next = "auth_state"
    BY <2>1, <2>2, <2>3, <2>4, LinkAssumption
       DEF IInv, Spent, HandshakeIsBounded
  <2>5. CASE phase = "auth_state" /\ next = "auth"
    BY <2>1, <2>2, <2>3, <2>5, LinkAssumption
       DEF IInv, Spent, HandshakeIsBounded
  <2>6. QED
    BY <2>4, <2>5
<1>5. QED
  BY <1>1, <1>2, <1>3, <1>4 DEF IInv

\* AUTHORIZED: every clock of the session starts.
LEMMA GoesUpIInv ==
    ASSUME IInv, Before, GoesUp, said' = "AUTHORIZED"
    PROVE  IInv'
<1>1. /\ interval' \in Nat /\ interval' >= Second
      /\ interval' = KeepaliveIntervalFor(advertised, negotiated)
  BY IntervalBounds DEF IInv, TypeOK, GoesUp
<1>2. TypeOK'
  BY <1>1 DEF IInv, TypeOK, GoesUp, ReadsAgain, Frames, AuthStates
<1>3. Stages' /\ UpMeansAuthorized'
  BY DEF IInv, Stages, Before, Up, GoesUp, UpMeansAuthorized
<1>4. Patience' /\ Silence'
  <2>1. ReceiveDeadline' >= 0
    BY LinkAssumption DEF IInv, TypeOK, GoesUp, ReceiveDeadline
  <2>2. QED
    BY <2>1 DEF GoesUp, ReadsAgain, Patience, Limit, Handshaking, Silence
<1>5. Beat'
  BY <1>1, LinkAssumption DEF GoesUp, Beat
<1>6. Spent'
  BY LinkAssumption DEF GoesUp, Spent, HandshakeIsBounded
<1>7. SilenceIsReal' /\ AnswersAreFinal'
  BY DEF IInv, Stages, Before, GoesUp, SilenceIsReal, AnswersAreFinal
<1>8. QED
  BY <1>2, <1>3, <1>4, <1>5, <1>6, <1>7 DEF IInv

\* Anything else is an error, of which AnswersAreFinal speaks.
LEMMA RejectsIInv ==
    ASSUME IInv, Before, NEW frame \in Frames \ {"ping"}, Rejects(frame),
           ~(phase = "auth" /\ frame = "AUTHORIZED"), UNCHANGED unheard,
           said' \in AuthStates \cup {"nothing"}
    PROVE  IInv'
<1>1. /\ Rejection(frame) \in Errors \ {"Timeout"}
      /\ WorthRetrying(Rejection(frame)) <=> frame \in {"close", "eof"}
  BY Rejections
<1>2. /\ Fails(Rejection(frame)) /\ outcome' = Rejection(frame)
      /\ heard' = frame /\ waited' = waited /\ reader' = reader
  BY DEF Rejects, Fails
<1>3. SilenceIsReal'
  BY <1>1, <1>2 DEF SilenceIsReal
<1>4. AnswersAreFinal'
  <2>1. frame # "nothing"
    BY DEF Frames, AuthStates
  <2>2. QED
    BY <1>1, <1>2, <2>1 DEF AnswersAreFinal
<1>5. waited' \in Nat /\ unheard' \in Nat /\ heard' \in Frames \cup {"nothing"}
  BY <1>2 DEF IInv, TypeOK
<1>6. QED
  BY <1>1, <1>2, <1>3, <1>4, <1>5, FailsIInv

LEMMA HandshakeReadsIInv ==
    ASSUME IInv, NEW frame \in Frames \ {"ping"}, HandshakeReads(frame)
    PROVE  IInv'
<1>1. Before /\ said' \in AuthStates \cup {"nothing"}
  BY DEF IInv, TypeOK, HandshakeReads, Handshaking, Before
<1>2. CASE phase = "setup" /\ frame = "SETUP"
  <2>1. /\ GoesOnTo("auth_state") /\ UNCHANGED unheard
        /\ negotiated' \in Negotiable \cup {None}
    BY <1>2, Zenon DEF HandshakeReads
  <2>2. negotiated' \in Nat
    BY <2>1, LinkAssumption DEF None
  <2>3. QED
    BY <1>1, <1>2, <2>1, <2>2, GoesOnIInv DEF Handshaking
<1>3. CASE phase = "auth_state" /\ frame = "UNAUTHORIZED"
  <2>1. GoesOnTo("auth") /\ UNCHANGED <<negotiated, unheard>>
    BY <1>3 DEF HandshakeReads, Accepted
  <2>2. negotiated' \in Nat
    BY <2>1 DEF IInv, TypeOK
  <2>3. QED
    BY <1>1, <1>3, <2>1, <2>2, GoesOnIInv DEF Handshaking
<1>4. CASE phase # "setup" /\ frame = "AUTHORIZED"
  <2>1. GoesUp
    BY <1>4 DEF HandshakeReads, Accepted
  <2>2. said' = "AUTHORIZED"
    BY <1>4 DEF HandshakeReads, AuthStates
  <2>3. QED
    BY <1>1, <2>1, <2>2, GoesUpIInv
<1>5. CASE /\ ~(phase = "setup" /\ frame = "SETUP")
           /\ ~(phase = "auth_state" /\ frame = "UNAUTHORIZED")
           /\ ~(phase # "setup" /\ frame = "AUTHORIZED")
  <2>1. Rejects(frame) /\ UNCHANGED unheard
    BY <1>5 DEF HandshakeReads, Accepted
  <2>2. ~(phase = "auth" /\ frame = "AUTHORIZED")
    BY <1>5
  <2>3. QED
    BY <1>1, <2>1, <2>2, RejectsIInv
<1>6. QED
  BY <1>2, <1>3, <1>4, <1>5

-----------------------------------------------------------------------------
(***************************************************************************)
(* The session.                                                            *)
(***************************************************************************)

\* A step within the session keeps the invariant if it keeps the types, the
\* beat, and the two clocks of the reader together.
LEMMA SessionIInv ==
    ASSUME IInv, Up, RestUnchanged, TypeOK', keepalive' # "unborn",
           unheard' = waited', waited' <= ReceiveDeadline,
           keepalive' = "waiting" => unsent' + next_tick' < 2 * interval
    PROVE  IInv'
<1>1. Stages' /\ SilenceIsReal' /\ AnswersAreFinal' /\ UpMeansAuthorized'
  BY DEF IInv, Stages, Before, Up, RestUnchanged, serverVars, SilenceIsReal,
         AnswersAreFinal, UpMeansAuthorized
<1>2. Patience' /\ Silence'
  BY DEF Up, RestUnchanged, Patience, Limit, Handshaking, ReceiveDeadline,
         Silence
<1>3. Beat'
  BY DEF IInv, Beat, Up, RestUnchanged
<1>4. Spent'
  BY DEF IInv, Spent, Up, RestUnchanged, HandshakeIsBounded
<1>5. QED
  BY <1>1, <1>2, <1>3, <1>4 DEF IInv

\* What the reader's clock shows while the session is up.
LEMMA ReaderClock ==
    ASSUME IInv, Up
    PROVE  /\ waited \in Nat /\ unheard = waited /\ waited <= ReceiveDeadline
           /\ ReceiveDeadline \in Nat
           /\ keepalive # "unborn"
BY LinkAssumption DEF IInv, TypeOK, Silence, Patience, Stages, Up, Limit,
                      Handshaking, ReceiveDeadline

LEMMA PingIInv == IInv /\ PingArrives => IInv'
<1> SUFFICES ASSUME IInv, PingArrives PROVE IInv'
  OBVIOUS
<1>1. UNCHANGED vars
  BY DEF PingArrives, Skips, vars, readVars
<1>2. QED
  BY <1>1 DEF vars, writeVars, readVars, serverVars, IInv, TypeOK, Stages,
              Before, Up, Patience, Limit, ReceiveDeadline, Spent,
              HandshakeIsBounded, Silence, Beat, SilenceIsReal,
              UpMeansAuthorized, AnswersAreFinal

LEMMA KeepaliveTicksIInv == IInv /\ KeepaliveTicks => IInv'
<1> SUFFICES ASSUME IInv, KeepaliveTicks PROVE IInv'
  OBVIOUS
<1>1. /\ Up /\ RestUnchanged /\ next_tick' = interval
      /\ UNCHANGED <<unsent, writer, readVars>>
  BY DEF KeepaliveTicks
<1>2. TypeOK'
  BY <1>1 DEF IInv, TypeOK, KeepaliveTicks, RestUnchanged, readVars, serverVars
<1>3. keepalive' = "waiting" => unsent' + next_tick' < 2 * interval
  BY <1>1 DEF IInv, TypeOK, KeepaliveTicks, UsedRecently
<1>4. keepalive' # "unborn"
  BY DEF KeepaliveTicks
<1>5. QED
  BY <1>1, <1>2, <1>3, <1>4, ReaderClock, SessionIInv DEF readVars

LEMMA LocksIInv ==
    ASSUME IInv, NEW who \in {"keepalive", "owner"}, Locks(who)
    PROVE  IInv'
<1>1. /\ Up /\ RestUnchanged
      /\ UNCHANGED <<keepalive, next_tick, unsent, readVars>>
  BY DEF Locks
<1>2. TypeOK'
  BY <1>1 DEF IInv, TypeOK, Locks, RestUnchanged, readVars, serverVars
<1>3. keepalive' = "waiting" => unsent' + next_tick' < 2 * interval
  BY <1>1 DEF IInv, Beat
<1>4. QED
  BY <1>1, <1>2, <1>3, ReaderClock, SessionIInv DEF readVars

LEMMA SendReturnsIInv ==
    ASSUME IInv, NEW who \in {"keepalive", "owner"}, SendReturns(who)
    PROVE  IInv'
<1>1. Up /\ RestUnchanged /\ UNCHANGED <<next_tick, readVars>>
  BY DEF SendReturns
<1>2. TypeOK'
  BY <1>1 DEF IInv, TypeOK, SendReturns, RestUnchanged, readVars, serverVars
<1>3. keepalive' # "unborn"
  BY <1>1, ReaderClock DEF SendReturns
<1>4. ASSUME keepalive' = "waiting" PROVE unsent' + next_tick' < 2 * interval
  <2>1. /\ next_tick \in Nat /\ next_tick <= interval /\ interval \in Nat
        /\ interval > 0
    BY <1>1, LinkAssumption DEF IInv, TypeOK, Up
  <2>2. CASE unsent' = 0
    BY <1>1, <2>1, <2>2
  <2>3. CASE unsent' # 0
    <3>1. unsent' = unsent /\ keepalive = "waiting"
      BY <1>4, <2>3 DEF SendReturns
    <3>2. QED
      BY <1>1, <3>1 DEF IInv, Beat
  <2>4. QED
    BY <2>2, <2>3
<1>5. QED
  BY <1>1, <1>2, <1>3, <1>4, ReaderClock, SessionIInv DEF readVars

\* The next read and the next silence begin together.
LEMMA ReadsOnIInv ==
    ASSUME IInv, Up, ReadsOn, unheard' = 0, UNCHANGED writeVars, RestUnchanged
    PROVE  IInv'
<1>1. TypeOK'
  BY DEF IInv, TypeOK, ReadsOn, ReadsAgain, RestUnchanged, writeVars,
         serverVars
<1>2. keepalive' = "waiting" => unsent' + next_tick' < 2 * interval
  BY DEF IInv, Beat, writeVars
<1>3. unheard' = waited' /\ waited' <= ReceiveDeadline
  BY ReaderClock DEF ReadsOn, ReadsAgain
<1>4. keepalive' # "unborn"
  BY ReaderClock DEF writeVars
<1>5. QED
  BY <1>1, <1>2, <1>3, <1>4, SessionIInv

LEMMA ReadFailsIInv ==
    ASSUME IInv, NEW frame \in {"binary", "eof"}, ReadFails(frame)
    PROVE  IInv'
<1>1. CASE frame = "eof"
  <2>1. ReadError(frame) = "Connection" /\ IsTerminal("Connection")
    BY <1>1 DEF ReadError, IsTerminal
  <2>2. QED
    BY <2>1, SessionFailsIInv DEF ReadFails
<1>2. CASE frame = "binary"
  <2>1. /\ ReadError(frame) = "UnexpectedMessage"
        /\ ~IsTerminal("UnexpectedMessage")
    BY <1>2 DEF ReadError, IsTerminal
  <2>2. QED
    BY <2>1, ReadsOnIInv DEF ReadFails
<1>3. QED
  BY <1>1, <1>2

LEMMA CloseIInv == IInv /\ (CloseArrives \/ CloseAnswered) => IInv'
<1>1. ASSUME IInv, CloseArrives PROVE IInv'
  <2>1. Up /\ RestUnchanged /\ UNCHANGED <<waited, unheard, writeVars>>
    BY <1>1 DEF CloseArrives
  <2>2. TypeOK'
    BY <1>1 DEF IInv, TypeOK, CloseArrives, RestUnchanged, writeVars,
                serverVars
  <2>3. keepalive' = "waiting" => unsent' + next_tick' < 2 * interval
    BY <1>1, <2>1 DEF IInv, Beat, writeVars
  <2>4. /\ keepalive' # "unborn" /\ unheard' = waited'
        /\ waited' <= ReceiveDeadline
    BY <1>1, <2>1, ReaderClock DEF writeVars
  <2>5. QED
    BY <1>1, <2>1, <2>2, <2>3, <2>4, SessionIInv
<1>2. ASSUME IInv, CloseAnswered PROVE IInv'
  <2>1. ReadError("close") = "Connection"
    BY DEF ReadError
  <2>2. QED
    BY <1>2, <2>1, SessionFailsIInv DEF CloseAnswered
<1>3. QED
  BY <1>1, <1>2

-----------------------------------------------------------------------------
(***************************************************************************)
(* Time.                                                                   *)
(***************************************************************************)

LEMMA TimePassesIInv == IInv /\ TimePasses => IInv'
<1> SUFFICES ASSUME IInv, TimePasses PROVE IInv'
  OBVIOUS
<1>1. /\ phase # "over" /\ waited < Limit /\ waited' = waited + 1
      /\ UNCHANGED <<phase, outcome, advertised, negotiated, interval,
                     keepalive, writer, reader, serverVars>>
      /\ waited \in Nat /\ elapsed \in Nat /\ unheard \in Nat
  <2>1. Limit \in Nat
    BY LinkAssumption DEF IInv, TypeOK, Limit, ReceiveDeadline
  <2>2. QED
    BY <2>1 DEF IInv, TypeOK, TimePasses, Due
<1>2. CASE Up
  <2>1. /\ next_tick' = (IF next_tick = 0 THEN interval ELSE next_tick) - 1
        /\ unsent' = unsent + IF unsent < Second * Deadline THEN 1 ELSE 0
        /\ unheard' = unheard + 1 /\ elapsed' = elapsed
    BY <1>2, Zenon DEF TimePasses
  <2>2. /\ interval \in Nat /\ interval > 0 /\ next_tick \in 0 .. interval
        /\ unsent \in Nat
    BY <1>2, LinkAssumption DEF IInv, TypeOK, Up
  <2>3. next_tick' \in 0 .. interval /\ unsent' \in {unsent, unsent + 1}
    BY <2>1, <2>2
  <2>4. TypeOK'
    BY <1>1, <2>1, <2>2, <2>3 DEF IInv, TypeOK, serverVars
  <2>5. ASSUME keepalive' = "waiting" PROVE unsent' + next_tick' < 2 * interval
    <3>1. unsent + next_tick < 2 * interval /\ next_tick # 0
      BY <1>1, <1>2, <2>5 DEF IInv, Beat, TimePasses, Due
    <3>2. QED
      BY <2>1, <2>2, <2>3, <3>1
  <2>6. waited' <= ReceiveDeadline /\ unheard' = waited'
    <3>1. Limit = ReceiveDeadline /\ ReceiveDeadline \in Nat
      BY <1>2, ReaderClock DEF Up, Limit, Handshaking
    <3>2. QED
      BY <1>1, <1>2, <2>1, <3>1, ReaderClock
  <2>7. RestUnchanged /\ keepalive' # "unborn"
    BY <1>1, <1>2, <2>1, ReaderClock DEF RestUnchanged, serverVars
  <2>8. QED
    BY <1>2, <2>4, <2>5, <2>6, <2>7, SessionIInv
<1>3. CASE ~Up
  <2>1. elapsed' = elapsed + 1 /\ UNCHANGED <<next_tick, unsent, unheard>>
    BY <1>3, Zenon DEF TimePasses
  <2>2. TypeOK'
    BY <1>1, <2>1 DEF IInv, TypeOK, serverVars
  <2>3. Stages' /\ SilenceIsReal' /\ UpMeansAuthorized' /\ AnswersAreFinal'
    BY <1>1, <2>1 DEF IInv, Stages, Before, Up, serverVars, SilenceIsReal,
                      ReceiveDeadline, UpMeansAuthorized, AnswersAreFinal
  <2>4. Silence' /\ Beat'
    BY <1>1, <1>3 DEF Silence, Beat, Up
  <2>5. Limit' = Limit /\ Limit \in Nat
    BY <1>1, LinkAssumption DEF IInv, TypeOK, Limit, ReceiveDeadline
  <2>6. Patience'
    BY <1>1, <2>5 DEF Patience
  <2>7. Spent'
    <3>1. phase \in {"opening", "setup", "auth_state", "auth"}
      BY <1>1, <1>3 DEF IInv, TypeOK, Up, Handshaking
    <3>2. CASE phase = "opening"
      <4>1. Limit = ConnectTimeout
        BY <3>2 DEF Limit
      <4>2. QED
        BY <1>1, <2>1, <3>2, <4>1, LinkAssumption
           DEF IInv, Spent, HandshakeIsBounded
    <3>3. CASE phase \in Handshaking
      <4>1. Limit = HandshakeTimeout
        BY <3>3 DEF Limit, Handshaking
      <4>2. QED
        BY <1>1, <2>1, <3>3, <4>1, LinkAssumption
           DEF IInv, Spent, HandshakeIsBounded, Handshaking
    <3>4. QED
      BY <3>1, <3>2, <3>3 DEF Handshaking
  <2>8. QED
    BY <2>2, <2>3, <2>4, <2>6, <2>7 DEF IInv
<1>4. QED
  BY <1>2, <1>3

-----------------------------------------------------------------------------
LEMMA NextIInv == IInv /\ [Next]_vars => IInv'
<1> SUFFICES ASSUME IInv, [Next]_vars PROVE IInv'
  OBVIOUS
<1>1. CASE Opens
  BY <1>1, OpensIInv
<1>2. CASE PingArrives
  BY <1>2, PingIInv
<1>3. ASSUME NEW frame \in Frames \ {"ping"}, HandshakeReads(frame) PROVE IInv'
  BY <1>3, HandshakeReadsIInv
<1>4. CASE phase # "over" /\ TimesOut(Limit)
  BY <1>4, TimesOutIInv
<1>5. CASE KeepaliveTicks
  BY <1>5, KeepaliveTicksIInv
<1>6. ASSUME NEW who \in {"keepalive", "owner"}, Locks(who) PROVE IInv'
  BY <1>6, LocksIInv
<1>7. ASSUME NEW who \in {"keepalive", "owner"}, SendReturns(who) PROVE IInv'
  BY <1>7, SendReturnsIInv
<1>8. CASE MessageArrives
  BY <1>8, ReadsOnIInv DEF MessageArrives
<1>9. CASE CloseArrives \/ CloseAnswered
  BY <1>9, CloseIInv
<1>10. ASSUME NEW frame \in {"binary", "eof"}, ReadFails(frame) PROVE IInv'
  BY <1>10, ReadFailsIInv
<1>11. CASE TimePasses
  BY <1>11, TimePassesIInv
<1>12. CASE UNCHANGED vars
  BY <1>12 DEF vars, writeVars, readVars, serverVars, IInv, TypeOK, Stages,
               Before, Up, Patience, Limit, ReceiveDeadline, Spent,
               HandshakeIsBounded, Silence, Beat, SilenceIsReal,
               UpMeansAuthorized, AnswersAreFinal
<1>13. QED
  BY <1>1, <1>2, <1>3, <1>4, <1>5, <1>6, <1>7, <1>8, <1>9, <1>10, <1>11, <1>12
     DEF Next

LEMMA Invariant == Spec => []IInv
<1>1. QED
  BY InitIInv, NextIInv, PTL DEF Spec

-----------------------------------------------------------------------------
(***************************************************************************)
(* The theorems.                                                           *)
(***************************************************************************)

\* A connection and its clocks are well-typed (handshake, spawn_keepalive,
\* spawn_reader).
THEOREM TypeCorrect == Spec => []TypeOK
<1>1. IInv => TypeOK
  BY DEF IInv
<1>2. QED
  BY <1>1, Invariant, PTL

\* The keepalive meets every deadline of two seconds or more, although it
\* skips beats (keepalive_interval_for, spawn_keepalive).
THEOREM KeepaliveMeetsDeadline == Spec => []HeardInTime
<1>1. IInv => HeardInTime
  <2> SUFFICES ASSUME IInv, Up, keepalive = "waiting", Deadline >= 2
               PROVE  unsent < Second * Deadline
    BY DEF HeardInTime
  <2>1. unsent + next_tick < 2 * interval
    BY DEF IInv, Beat
  <2>2. 2 * interval <= Second * Deadline
    BY IntervalBounds DEF IInv, TypeOK, Beat, Deadline
  <2>3. /\ unsent \in Nat /\ next_tick \in Nat /\ interval \in Nat
        /\ Second * Deadline \in Nat
    BY LinkAssumption DEF IInv, TypeOK, Deadline
  <2>4. QED
    BY <2>1, <2>2, <2>3
<1>2. QED
  BY <1>1, Invariant, PTL

\* Silence never outlasts the advertised deadline, and no session is given up
\* for less (spawn_reader, receive_with_timeout).
THEOREM SilenceIsMeasured == Spec => []SilenceIsTimed
<1>1. IInv => SilenceIsTimed
  BY ReaderClock DEF IInv, SilenceIsNoticed, SilenceIsTimed
<1>2. QED
  BY <1>1, Invariant, PTL

\* connect() returns within the connect timeout and three handshake timeouts,
\* whatever the server sends (handshake, expect_handshake_message).
THEOREM HandshakeEnds == Spec => []HandshakeIsBounded
<1>1. IInv => HandshakeIsBounded
  BY DEF IInv, Spent
<1>2. QED
  BY <1>1, Invariant, PTL

\* No order of the server's messages brings a session up without AUTHORIZED
\* being its last word (handshake).
THEOREM OnlyAuthorized == Spec => []UpMeansAuthorized
<1>1. IInv => UpMeansAuthorized
  BY DEF IInv
<1>2. QED
  BY <1>1, Invariant, PTL

\* A failed handshake is retried exactly when the server gave no answer
\* (worth_retrying).
THEOREM RetriesAreForSilence == Spec => []AnswersAreFinal
<1>1. IInv => AnswersAreFinal
  BY DEF IInv
<1>2. QED
  BY <1>1, Invariant, PTL
=============================================================================
