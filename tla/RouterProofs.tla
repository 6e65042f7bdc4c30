----------------------------- MODULE RouterProofs -----------------------------
(***************************************************************************)
(* Proofs about requests and their answers for every number of callers,    *)
(* channels, kinds of answer, messages and sessions.  The inductive        *)
(* invariant adds to the properties that calls have numbers of their own,  *)
(* that a call has at most one registration, that places in the table are  *)
(* not shared, and that whoever was told something is no longer            *)
(* registered.                                                             *)
(***************************************************************************)
EXTENDS Router, TLAPS, NaturalsInduction, WellFoundedInduction

\* A call that got as far as registering.
Registered(c) == calls[c].at \notin {"idle", "numbered"}

\* next_request_id hands every call a number of its own.
OwnNumbers ==
    /\ \A c \in Callers : calls[c].at # "idle" => calls[c].id \in 1 .. next_id
    /\ \A c, d \in Callers :
          calls[c].at # "idle" /\ calls[d].at # "idle"
              /\ calls[c].id = calls[d].id => c = d

\* A call has at most one registration, none before it registers, and a place
\* in the table that nobody shares.
OwnPlaces ==
    /\ \A q, r \in requests : q.id = r.id \/ q.place = r.place => q = r
    /\ \A r \in requests : r.place <= pushed
    /\ \A c \in Callers : calls[c].at = "numbered" =>
          \A r \in requests : r.id # calls[c].id

\* Whoever was told something and still receives is registered no more, and
\* nobody is told anything before it receives.
ToldOnce ==
    \A c \in Callers :
        /\ Receiving(c) /\ mailbox[c] # Empty =>
              \A r \in requests : r.id # calls[c].id
        /\ ~Registered(c) => mailbox[c] = Empty

IInv == TypeOK /\ OwnNumbers /\ OwnPlaces /\ ToldOnce
            /\ NoStaleRegistration /\ WaiterIsRegistered

-----------------------------------------------------------------------------
(***************************************************************************)
(* The first of some waiters.                                              *)
(***************************************************************************)

Less == {p \in Nat \X Nat : p[1] < p[2]}

\* A set of numbers has a least one.
LEMMA LeastNumber ==
    ASSUME NEW S, S \subseteq Nat, S # {}
    PROVE  \E m \in S : \A k \in S : m <= k
<1>1. IsWellFoundedOn(Less, Nat)
  BY NatLessThanWellFounded, Zenon DEF OpToRel, Less
<1>2. \E m \in S : \A k \in S : <<k, m>> \notin Less
  BY <1>1, WFMin, Zenon
<1>3. \A k, m \in Nat : <<k, m>> \notin Less => m <= k
  BY DEF Less
<1> QED
  BY <1>2, <1>3

\* Among registrations there is always one that no other precedes: a message
\* that fits somebody who still receives is served to somebody.
LEMMA SomeoneIsFirst ==
    ASSUME NEW waiters, waiters \subseteq Request, waiters # {}
    PROVE  FirstOf(waiters) # {}
<1> DEFINE places == {r.place : r \in waiters}
<1>1. places # {} /\ places \subseteq Nat
  BY DEF Request
<1> HIDE DEF places
<1>2. PICK p \in places : \A q \in places : p <= q
  BY <1>1, LeastNumber
<1> USE DEF places
<1>3. PICK r \in waiters : r.place = p
  BY <1>2
<1>4. r \in FirstOf(waiters)
  BY <1>2, <1>3 DEF FirstOf
<1>5. QED
  BY <1>4

\* The caller a message was given to, and the registration it had.
LEMMA ServedFacts ==
    ASSUME IInv, NEW m, NEW r \in Served(m), NEW c \in CallerOf(r)
    PROVE  /\ r \in requests /\ r \in TakenOut(m) /\ Fits(r, m)
           /\ c \in Callers /\ Receiving(c) /\ calls[c].id = r.id
           /\ mailbox[c] = Empty
<1>1. /\ r \in requests /\ Fits(r, m)
      /\ \A q \in Served(m) : r.place <= q.place
  BY DEF Served, FirstOf, Fitting
<1>2. c \in Callers /\ Receiving(c) /\ calls[c].id = r.id
  BY DEF CallerOf
<1>3. mailbox[c] = Empty
  BY <1>1, <1>2 DEF IInv, ToldOnce
<1>4. QED
  BY <1>1, <1>2, <1>3 DEF TakenOut, Fitting

\* A registration that leaves the table while its caller receives is the one
\* that is served.
LEMMA TakenOutIsServed ==
    ASSUME IInv, NEW m, NEW r \in TakenOut(m), NEW c \in CallerOf(r)
    PROVE  r \in Served(m)
<1> DEFINE live == {q \in Fitting(m) : CallerOf(q) # {}}
<1>1. r \in live /\ live \subseteq requests /\ live \subseteq Request
  BY DEF TakenOut, Fitting, IInv, TypeOK
<1>2. PICK q \in Served(m) : TRUE
  BY <1>1, SomeoneIsFirst DEF Served
<1>3. q \in live /\ q.place <= r.place
  BY <1>1, <1>2 DEF Served, FirstOf
<1>4. r.place <= q.place
  BY <1>2 DEF TakenOut
<1>5. r.place \in Nat /\ q.place \in Nat
  BY <1>1, <1>3 DEF Request
<1>6. r = q
  BY <1>1, <1>3, <1>4, <1>5 DEF IInv, OwnPlaces
<1>7. QED
  BY <1>2, <1>6

-----------------------------------------------------------------------------
(***************************************************************************)
(* One step per action, under it one per part of the invariant.            *)
(***************************************************************************)

\* A client starts with an empty table.
LEMMA InitIInv == Init => IInv
<1> SUFFICES ASSUME Init PROVE IInv
  OBVIOUS
<1>1. << >> \in Seq(Message)
  OBVIOUS
<1>2. 1 \in Sessions /\ {1} \subseteq Sessions
  BY RouterAssumption DEF Sessions
<1>3. TypeOK
  BY <1>1, <1>2, RouterAssumption DEF Init, TypeOK, Idle, Empty
<1>4. QED
  BY <1>3 DEF IInv, Init, OwnNumbers, OwnPlaces, ToldOnce, NoStaleRegistration,
     WaiterIsRegistered, Receiving, Registered, Idle

\* TakeId: the number is new.
LEMMA TakeIdKeeps ==
    ASSUME IInv, NEW c \in Callers, TakeId(c)
    PROVE  IInv'
<1> USE DEF IInv, TypeOK
<1>1. /\ next_id \in Nat /\ next_id' = next_id + 1 /\ next_id' \in 0 .. MaxRequests
      /\ calls[c].at = "idle"
      /\ calls' = [calls EXCEPT ![c] = [at |-> "numbered", id |-> next_id + 1,
                                         over |-> slot]]
      /\ UNCHANGED <<supervisor, requests, pushed, mailbox, wire, asked, unasked,
                     born, alive, installed, slot, lost>>
  BY RouterAssumption DEF TakeId, Idle, serverVars, sessionVars
<1>2. TypeOK'
  BY <1>1
<1>3. OwnNumbers'
  BY <1>1 DEF OwnNumbers
<1>4. OwnPlaces'
  BY <1>1 DEF OwnPlaces, NoStaleRegistration, OwnNumbers
<1>5. ToldOnce'
  BY <1>1 DEF ToldOnce, Receiving, Registered
<1>6. NoStaleRegistration' /\ WaiterIsRegistered'
  BY <1>1 DEF NoStaleRegistration, WaiterIsRegistered, Receiving
<1>7. QED
  BY <1>2, <1>3, <1>4, <1>5, <1>6

\* Register: the registration goes behind the others.
LEMMA RegisterKeeps ==
    ASSUME IInv, NEW c \in Callers, Register(c)
    PROVE  IInv'
<1> USE DEF IInv, TypeOK
<1>1. PICK kind \in Kinds, ch \in Channels :
          requests' = requests \cup {[id |-> calls[c].id, place |-> pushed',
                                      expected |-> kind, channel |-> ch]}
  BY DEF Register
<1> DEFINE r0 == [id |-> calls[c].id, place |-> pushed + 1,
                  expected |-> kind, channel |-> ch]
<1>2. /\ calls[c].at = "numbered"
      /\ calls' = [calls EXCEPT ![c].at = "sending"]
      /\ pushed' = pushed + 1 /\ requests' = requests \cup {r0}
      /\ UNCHANGED <<supervisor, next_id, mailbox, wire, asked, unasked,
                     born, alive, installed, slot, lost>>
  BY <1>1 DEF Register, Moves, serverVars, sessionVars
<1>3. calls[c].id \in 1 .. next_id /\ next_id \in 0 .. MaxRequests
      /\ calls[c].id \in Ids
  BY <1>2, RouterAssumption DEF OwnNumbers, Ids
<1>4. r0 \in Request
  BY <1>3 DEF Request
<1>5. TypeOK'
  <2>1. requests' \subseteq Request /\ pushed' \in Nat
    BY <1>2, <1>4
  <2>2. calls' \in [Callers -> [at : {"idle", "numbered", "sending", "waiting",
                                    "expired", "leaving"},
                               id : 0 .. MaxRequests,
                               over : Sessions \cup {NoSession}]]
    BY <1>2
  <2>3. QED
    BY <1>2, <2>1, <2>2
<1>6. OwnNumbers'
  BY <1>2 DEF OwnNumbers
<1>7. OwnPlaces'
  <2>1. \A r \in requests : r.id # r0.id /\ r.place \in Nat
                              /\ r.place <= pushed
    BY <1>2 DEF OwnPlaces, Request
  <2>2. \A d \in Callers : calls'[d].at = "numbered" =>
            d # c /\ calls[d].at = "numbered" /\ calls'[d].id = calls[d].id
    BY <1>2
  <2>3. \A d \in Callers : calls'[d].at = "numbered" => r0.id # calls[d].id
    BY <1>2, <2>2 DEF OwnNumbers
  <2>4. QED
    BY <1>2, <2>1, <2>2, <2>3 DEF OwnPlaces
<1>8. ToldOnce'
  <2>1. mailbox[c] = Empty
    BY <1>2 DEF ToldOnce, Registered
  <2>2. \A d \in Callers : d # c => calls'[d] = calls[d]
    BY <1>2
  <2>3. \A d \in Callers : d # c /\ Receiving(d) => calls[d].id # r0.id
    BY <1>2 DEF OwnNumbers, Receiving
  <2>4. QED
    BY <1>2, <2>1, <2>2, <2>3 DEF ToldOnce, Receiving, Registered
<1>9. NoStaleRegistration'
  <2>1. \A d \in Callers : /\ calls'[d].id = calls[d].id
                           /\ calls[d].at \notin {"idle", "numbered"} \/ d = c
                                => calls'[d].at \notin {"idle", "numbered"}
    BY <1>2
  <2>2. r0.id = calls[c].id
    OBVIOUS
  <2>3. QED
    BY <1>2, <2>1, <2>2 DEF NoStaleRegistration
<1>10. WaiterIsRegistered'
  <2>1. \A d \in Callers : /\ calls'[d].id = calls[d].id
                           /\ Receiving(d)' => Receiving(d) \/ d = c
    BY <1>2 DEF Receiving
  <2>2. r0.id = calls[c].id /\ requests \subseteq requests' /\ r0 \in requests'
    BY <1>2
  <2>3. QED
    BY <1>2, <2>1, <2>2 DEF WaiterIsRegistered
<1>11. QED
  BY <1>5, <1>6, <1>7, <1>8, <1>9, <1>10

\* Waiting, giving up and returning leave the table alone until the guard.
LEMMA CallMovesKeep ==
    ASSUME IInv, NEW c \in Callers,
           Send(c) \/ Abandon(c) \/ Answered(c) \/ Expire(c) \/ StopReceiving(c)
    PROVE  IInv'
<1> USE DEF IInv, TypeOK
<1>1. PICK to \in {"waiting", "leaving", "expired"} :
          /\ calls' = [calls EXCEPT ![c].at = to]
          /\ to # "leaving" => Receiving(c)
          /\ calls[c].at \notin {"idle", "numbered"}
  BY DEF Send, Abandon, Answered, Expire, StopReceiving, Moves, Receiving
<1>2. /\ UNCHANGED <<next_id, requests, pushed, mailbox, wire, unasked,
                     born, alive, installed, slot, lost>>
      /\ supervisor' \in {supervisor, "failing"}
  BY DEF Send, Abandon, Answered, Expire, StopReceiving, WentWrong, tableVars,
     serverVars, sessionVars
<1>3. asked' \in [Sessions -> SUBSET Request]
  BY DEF Send, Abandon, Answered, Expire, StopReceiving, serverVars
<1>4. TypeOK'
  BY <1>1, <1>2, <1>3
<1>5. OwnNumbers' /\ OwnPlaces'
  BY <1>1, <1>2 DEF OwnNumbers, OwnPlaces
<1>6. ToldOnce'
  BY <1>1, <1>2 DEF ToldOnce, Receiving, Registered
<1>7. \A d \in Callers : /\ calls'[d].id = calls[d].id
                         /\ calls[d].at \notin {"idle", "numbered"}
                              => calls'[d].at \notin {"idle", "numbered"}
                         /\ Receiving(d)' => Receiving(d)
  BY <1>1 DEF Receiving
<1>8. NoStaleRegistration' /\ WaiterIsRegistered'
  BY <1>2, <1>7 DEF NoStaleRegistration, WaiterIsRegistered
<1>9. QED
  BY <1>4, <1>5, <1>6, <1>8

\* PendingGuard takes out the call's own registration and no other.
LEMMA GuardKeeps ==
    ASSUME IInv, NEW c \in Callers, Guard(c)
    PROVE  IInv'
<1> USE DEF IInv, TypeOK
<1>1. /\ calls[c].at = "leaving"
      /\ requests' = {r \in requests : r.id # calls[c].id}
      /\ calls' = [calls EXCEPT ![c] = Idle]
      /\ mailbox' = [mailbox EXCEPT ![c] = Empty]
      /\ UNCHANGED <<supervisor, next_id, pushed, wire, asked, unasked,
                     born, alive, installed, slot, lost>>
  BY DEF Guard, KeepAfter, serverVars, sessionVars
<1>2. TypeOK'
  BY <1>1, RouterAssumption DEF Idle
<1>3. OwnNumbers' /\ OwnPlaces'
  BY <1>1 DEF OwnNumbers, OwnPlaces, Idle
<1>4. ToldOnce'
  BY <1>1 DEF ToldOnce, Receiving, Registered, Idle
<1>5. NoStaleRegistration'
  BY <1>1 DEF NoStaleRegistration
<1>6. WaiterIsRegistered'
  <2> SUFFICES ASSUME NEW d \in Callers, Receiving(d)', mailbox'[d] = Empty
               PROVE  \E r \in requests' : r.id = calls'[d].id
    BY DEF WaiterIsRegistered
  <2>1. d # c /\ Receiving(d) /\ mailbox[d] = Empty /\ calls'[d] = calls[d]
    BY <1>1 DEF Receiving, Idle
  <2>2. PICK r \in requests : r.id = calls[d].id
    BY <2>1 DEF WaiterIsRegistered
  <2>3. calls[d].id # calls[c].id
    BY <1>1, <2>1 DEF OwnNumbers, Receiving
  <2>4. QED
    BY <1>1, <2>1, <2>2, <2>3
<1>7. QED
  BY <1>2, <1>3, <1>4, <1>5, <1>6

\* The reader takes out only registrations of calls that walked away, but for
\* the one it serves.
LEMMA RouteKeeps ==
    ASSUME IInv, NEW s \in Sessions, Route(s)
    PROVE  IInv'
<1> USE DEF IInv, TypeOK
<1> DEFINE m == Head(wire[s])
           lucky == UNION {CallerOf(r) : r \in Served(m)}
<1>1. /\ wire[s] # << >> /\ wire' = [wire EXCEPT ![s] = Tail(wire[s])]
      /\ requests' = requests \ TakenOut(m)
      /\ mailbox' = [c \in Callers |-> IF c \in lucky THEN m ELSE mailbox[c]]
      /\ UNCHANGED <<supervisor, next_id, pushed, calls, asked, unasked,
                     born, alive, installed, slot, lost>>
  BY DEF Route, sessionVars
<1>2. m \in Message /\ m # Empty /\ wire' \in [Sessions -> Seq(Message)]
  <2>0. wire[s] \in Seq(Message)
    OBVIOUS
  <2>1. m \in Message /\ wire' \in [Sessions -> Seq(Message)]
    BY <1>1, <2>0
  <2>2. \A x \in Message : x.type # "empty"
    BY RouterAssumption DEF Message
  <2>3. QED
    BY <2>1, <2>2 DEF Empty
<1>3. TypeOK'
  BY <1>1, <1>2
<1>4. OwnNumbers' /\ OwnPlaces'
  BY <1>1 DEF OwnNumbers, OwnPlaces
<1>5. \A c \in Callers : mailbox'[c] # mailbox[c] =>
          \E r \in Served(m) : c \in CallerOf(r)
  BY <1>1
<1>6. ToldOnce'
  <2> SUFFICES ASSUME NEW c \in Callers
               PROVE  /\ Receiving(c) /\ mailbox'[c] # Empty =>
                            \A r \in requests' : r.id # calls[c].id
                      /\ ~Registered(c) => mailbox'[c] = Empty
    BY <1>1 DEF ToldOnce, Receiving, Registered
  <2>1. CASE mailbox'[c] = mailbox[c]
    BY <1>1, <2>1 DEF ToldOnce
  <2>2. CASE mailbox'[c] # mailbox[c]
    <3>1. PICK r \in Served(m) : c \in CallerOf(r)
      BY <1>5, <2>2
    <3>2. /\ r \in requests /\ r \in TakenOut(m)
          /\ Receiving(c) /\ calls[c].id = r.id
      BY <3>1, ServedFacts
    <3>3. \A q \in requests : q.id = r.id => q = r
      BY <3>2 DEF OwnPlaces
    <3>4. Registered(c)
      BY <3>2 DEF Receiving, Registered
    <3>5. QED
      BY <1>1, <3>2, <3>3, <3>4
  <2>3. QED
    BY <2>1, <2>2
<1>7. NoStaleRegistration'
  BY <1>1 DEF NoStaleRegistration
<1>8. WaiterIsRegistered'
  <2> SUFFICES ASSUME NEW c \in Callers, Receiving(c), mailbox'[c] = Empty
               PROVE  \E r \in requests' : r.id = calls[c].id
    BY <1>1 DEF WaiterIsRegistered, Receiving
  <2>1. c \notin lucky /\ mailbox[c] = Empty
    BY <1>1, <1>2
  <2>2. PICK r \in requests : r.id = calls[c].id
    BY <2>1 DEF WaiterIsRegistered
  <2>3. c \in CallerOf(r)
    BY <2>2 DEF CallerOf
  <2>4. r \notin TakenOut(m)
    BY <2>1, <2>3, TakenOutIsServed
  <2>5. QED
    BY <1>1, <2>2, <2>4
<1>9. QED
  BY <1>3, <1>4, <1>6, <1>7, <1>8

\* A report that is read: the table is cleared and every caller that still
\* waits is told.
LEMMA ClearKeeps ==
    ASSUME IInv, ClearRequests
    PROVE  IInv'
<1> USE DEF IInv, TypeOK
<1>1. /\ requests' = {} /\ mailbox' = Woken /\ supervisor' = "rebuilding"
      /\ lost' \subseteq lost
      /\ UNCHANGED <<next_id, pushed, calls, wire, asked, unasked,
                     born, alive, installed, slot>>
  BY DEF ClearRequests, serverVars
<1>2. TypeOK'
  BY <1>1 DEF Woken
<1>3. OwnNumbers' /\ OwnPlaces' /\ NoStaleRegistration'
  BY <1>1 DEF OwnNumbers, OwnPlaces, NoStaleRegistration
<1>4. \A c \in Callers : /\ Receiving(c) => mailbox'[c] # Empty
                         /\ ~Receiving(c) => mailbox'[c] = mailbox[c]
  BY <1>1 DEF Woken, Empty, Closed
<1>5. ToldOnce' /\ WaiterIsRegistered'
  BY <1>1, <1>4 DEF ToldOnce, WaiterIsRegistered, Receiving, Registered
<1>6. QED
  BY <1>2, <1>3, <1>5

\* A supervisor that stops drops the future of the call it may be in.
LEMMA StopKeeps ==
    ASSUME IInv, SupervisorStops
    PROVE  IInv'
<1> USE DEF IInv, TypeOK
<1> DEFINE c == Supervisor
<1>1. /\ c \in Callers
      /\ UNCHANGED <<next_id, requests, pushed, mailbox, wire, asked, unasked,
                     born, alive, installed, slot>>
      /\ supervisor' = "none" /\ lost' = {}
  BY RouterAssumption DEF SupervisorStops, tableVars, serverVars
<1>2. CASE calls' = calls
  BY <1>1, <1>2 DEF OwnNumbers, OwnPlaces, ToldOnce, NoStaleRegistration,
     WaiterIsRegistered, Receiving, Registered
<1>3. CASE calls[c].at # "idle" /\ calls' = [calls EXCEPT ![c].at = "leaving"]
  <2> HIDE DEF c
  <2>1. TypeOK'
    BY <1>1, <1>3
  <2>2. OwnNumbers' /\ OwnPlaces'
    BY <1>1, <1>3 DEF OwnNumbers, OwnPlaces
  <2>3. ToldOnce'
    BY <1>1, <1>3 DEF ToldOnce, Receiving, Registered
  <2>4. \A d \in Callers : /\ calls'[d].id = calls[d].id
                           /\ calls[d].at \notin {"idle", "numbered"}
                                => calls'[d].at \notin {"idle", "numbered"}
                           /\ Receiving(d)' => Receiving(d)
    BY <1>1, <1>3 DEF Receiving
  <2>5. NoStaleRegistration' /\ WaiterIsRegistered'
    BY <1>1, <2>4 DEF NoStaleRegistration, WaiterIsRegistered
  <2>6. QED
    BY <2>1, <2>2, <2>3, <2>5
<1>4. QED
  BY <1>2, <1>3 DEF SupervisorStops, Moves

\* The sessions change what the readers read, never the table or the calls.
LEMMA SessionsKeepTypes ==
    ASSUME TypeOK,
           \/ \E s \in Sessions : LoseSession(s)
           \/ SessionComesUp \/ RebuildSucceeds \/ RebuildFails
    PROVE  /\ UNCHANGED <<next_id, requests, pushed, calls, mailbox>>
           /\ TypeOK'
<1> USE DEF TypeOK
<1>1. << >> \in Seq(Message)
  OBVIOUS
<1>2. ASSUME NEW ended, EndReaders(ended)
      PROVE  /\ wire' \in [Sessions -> Seq(Message)]
             /\ asked' \in [Sessions -> SUBSET Request]
             /\ alive' \subseteq Sessions
  BY <1>1, <1>2 DEF EndReaders
<1>3. ASSUME NEW s \in Sessions, LoseSession(s)
      PROVE  /\ UNCHANGED <<next_id, requests, pushed, calls, mailbox>>
             /\ TypeOK'
  <2>1. /\ EndReaders({s}) /\ lost' \subseteq Sessions
        /\ UNCHANGED <<supervisor, next_id, requests, pushed, calls, mailbox,
                       unasked, born, installed, slot>>
    BY <1>3 DEF LoseSession, tableVars
  <2>2. QED
    BY <1>2, <2>1
<1>4. CASE SessionComesUp
  <2>1. /\ born' \in Sessions /\ slot' = born' /\ alive' = alive \cup {born'}
        /\ supervisor' = "replaying"
        /\ UNCHANGED <<next_id, requests, pushed, calls, mailbox, wire, asked,
                       unasked, installed, lost>>
    BY <1>4, RouterAssumption DEF SessionComesUp, Sessions, tableVars, serverVars
  <2>2. QED
    BY <2>1
<1>5. CASE RebuildSucceeds
  <2>1. /\ EndReaders({installed}) /\ lost' \subseteq Sessions
        /\ supervisor' = "watching" /\ installed' = born
        /\ UNCHANGED <<next_id, requests, pushed, calls, mailbox, unasked, born,
                       slot>>
    BY <1>5 DEF RebuildSucceeds, tableVars
  <2>2. QED
    BY <1>2, <2>1
<1>6. CASE RebuildFails
  <2>1. /\ EndReaders({born}) /\ lost' \subseteq Sessions
        /\ supervisor' = "rebuilding" /\ slot' = NoSession
        /\ UNCHANGED <<next_id, requests, pushed, calls, mailbox, unasked, born,
                       installed>>
    BY <1>6 DEF RebuildFails, tableVars
  <2>2. QED
    BY <1>2, <2>1
<1>7. QED
  BY <1>3, <1>4, <1>5, <1>6

\* The server puts well-typed messages on the wire.
LEMMA ServerKeepsTypes ==
    ASSUME TypeOK, NEW s \in Sessions, ServerAnswers(s) \/ ServerSpeaks(s)
    PROVE  /\ UNCHANGED <<next_id, requests, pushed, calls, mailbox>>
           /\ \E x \in Message : wire' = [wire EXCEPT ![s] = Append(wire[s], x)]
           /\ TypeOK'
<1> USE DEF TypeOK
<1>1. UNCHANGED <<supervisor, next_id, requests, pushed, calls, mailbox,
                  born, alive, installed, slot, lost>>
  BY DEF ServerAnswers, ServerSpeaks, tableVars, sessionVars
<1>2. /\ \E x \in Message : wire' = [wire EXCEPT ![s] = Append(wire[s], x)]
      /\ asked' \in [Sessions -> SUBSET Request]
      /\ unasked' \in 0 .. MaxUnasked
  <2>1. CASE ServerAnswers(s)
    <3>1. PICK r \in asked[s], type \in Kinds \cup {"ERROR"} :
              /\ wire' = [wire EXCEPT ![s] =
                          Append(wire[s], [type |-> type, channel |-> r.channel])]
              /\ asked' = [asked EXCEPT ![s] = asked[s] \ {r}]
      BY <2>1 DEF ServerAnswers
    <3>2. [type |-> type, channel |-> r.channel] \in Message
      BY <3>1 DEF Message, Request
    <3>3. asked' \in [Sessions -> SUBSET Request] /\ unasked' = unasked
      BY <2>1, <3>1 DEF ServerAnswers
    <3>4. QED
      BY <3>1, <3>2, <3>3
  <2>2. CASE ServerSpeaks(s)
    <3>1. \E x \in Message : wire' = [wire EXCEPT ![s] = Append(wire[s], x)]
      BY <2>2, Zenon DEF ServerSpeaks
    <3>2. asked' = asked /\ unasked' \in 0 .. MaxUnasked
      BY <2>2, RouterAssumption DEF ServerSpeaks
    <3>3. QED
      BY <3>1, <3>2
  <2>3. QED
    BY <2>1, <2>2
<1>3. PICK x \in Message : wire' = [wire EXCEPT ![s] = Append(wire[s], x)]
  BY <1>2
<1>4. wire[s] \in Seq(Message)
  OBVIOUS
<1>5. wire' \in [Sessions -> Seq(Message)]
  BY <1>3, <1>4
<1>6. QED
  BY <1>1, <1>2, <1>5

\* The server, the sessions and a stutter.
LEMMA OutsideKeeps ==
    ASSUME IInv,
           \/ \E s \in Sessions :
                 ServerAnswers(s) \/ ServerSpeaks(s) \/ LoseSession(s)
           \/ SessionComesUp \/ RebuildSucceeds \/ RebuildFails
           \/ UNCHANGED vars
    PROVE  IInv'
<1>1. TypeOK
  BY DEF IInv
<1>2. /\ UNCHANGED <<next_id, requests, pushed, calls, mailbox>>
      /\ TypeOK'
  <2>1. CASE \E s \in Sessions : ServerAnswers(s) \/ ServerSpeaks(s)
    BY <1>1, <2>1, ServerKeepsTypes
  <2>2. CASE UNCHANGED vars
    BY <1>1, <2>2 DEF TypeOK, vars, tableVars, serverVars, sessionVars
  <2>3. CASE \/ \E s \in Sessions : LoseSession(s)
             \/ SessionComesUp \/ RebuildSucceeds \/ RebuildFails
    BY <1>1, <2>3, SessionsKeepTypes
  <2>4. QED
    BY <2>1, <2>2, <2>3
<1>3. QED
  BY <1>2 DEF IInv, OwnNumbers, OwnPlaces, ToldOnce, NoStaleRegistration,
     WaiterIsRegistered, Receiving, Registered

-----------------------------------------------------------------------------
(***************************************************************************)
(* The theorems.                                                           *)
(***************************************************************************)
\* Every step of Next, and a stutter, keeps the invariant.
LEMMA NextKeepsIInv == IInv /\ [Next]_vars => IInv'
BY TakeIdKeeps, RegisterKeeps, CallMovesKeep, GuardKeeps, RouteKeeps, ClearKeeps,
   StopKeeps, OutsideKeeps
DEF Next, CallerStep

\* The inductive invariant holds in every reachable state.
THEOREM Invariance == Spec => []IInv
BY InitIInv, NextKeepsIInv, PTL DEF Spec

\* The table, the calls and what is under way are well-typed.
THEOREM TypeCorrect == Spec => []TypeOK
<1>1. IInv => TypeOK
  BY DEF IInv
<1>2. QED
  BY <1>1, Invariance, PTL

\* No registration outlives its call, and no call that is still owed an answer
\* loses its registration (request_response, PendingGuard, spawn_reader).
THEOREM TableIsExact == Spec => []RegistrationsMatchCalls
<1>1. IInv => RegistrationsMatchCalls
  <2>1. NoStaleRegistration /\ WaiterIsRegistered => RegistrationsMatchCalls
    BY DEF RegistrationsMatchCalls
  <2>2. QED
    BY <2>1 DEF IInv
<1>2. QED
  BY <1>1, Invariance, PTL

\* The reader gives a message that fits a live waiter to a live waiter, and to
\* none that registered later (spawn_reader's routing loop).
THEOREM MessagesReachTheFirst == Spec => NothingIsSwallowed
<1> DEFINE Given ==
      \A s \in Sessions, r \in requests, c \in Callers :
          (/\ wire[s] # << >> /\ wire'[s] = Tail(wire[s]) /\ s \in alive'
           /\ Fits(r, Head(wire[s]))
           /\ Receiving(c) /\ calls[c].id = r.id)
            => \E q \in requests, d \in Callers :
                  /\ q.place <= r.place /\ calls[d].id = q.id
                  /\ mailbox[d] = Empty /\ mailbox'[d] = Head(wire[s])
<1>1. ASSUME IInv, [Next]_vars PROVE Given
  <2> SUFFICES ASSUME NEW s \in Sessions, NEW r \in requests, NEW c \in Callers,
                      wire[s] # << >>, wire'[s] = Tail(wire[s]), s \in alive',
                      Fits(r, Head(wire[s])), Receiving(c), calls[c].id = r.id
               PROVE  \E q \in requests, d \in Callers :
                          /\ q.place <= r.place /\ calls[d].id = q.id
                          /\ mailbox[d] = Empty /\ mailbox'[d] = Head(wire[s])
    OBVIOUS
  <2>1. /\ TypeOK /\ wire[s] \in Seq(Message)
        /\ wire'[s] # wire[s] /\ Len(wire'[s]) < Len(wire[s])
    BY <1>1 DEF IInv, TypeOK
  <2>2. Route(s)
    <3>1. ASSUME \/ \E d \in Callers : CallerStep(d)
                 \/ ClearRequests \/ SessionComesUp \/ SupervisorStops
                 \/ UNCHANGED vars
          PROVE  wire' = wire
      BY <3>1 DEF CallerStep, TakeId, Register, Send, Abandon, Answered, Expire,
         StopReceiving, Guard, ClearRequests, SessionComesUp, SupervisorStops, vars,
         serverVars
    <3>2. ASSUME NEW t \in Sessions, ServerAnswers(t) \/ ServerSpeaks(t)
          PROVE  wire'[s] = wire[s] \/ Len(wire'[s]) > Len(wire[s])
      <4>1. PICK x \in Message : wire' = [wire EXCEPT ![t] = Append(wire[t], x)]
        BY <2>1, <3>2, ServerKeepsTypes
      <4>2. CASE s = t
        BY <2>1, <4>1, <4>2 DEF TypeOK
      <4>3. CASE s # t
        BY <2>1, <4>1, <4>3 DEF TypeOK
      <4>4. QED
        BY <4>2, <4>3
    <3>3. ASSUME NEW ended, EndReaders(ended) PROVE wire'[s] = wire[s]
      BY <2>1, <3>3 DEF EndReaders
    <3>4. ASSUME \/ \E t \in Sessions : LoseSession(t)
                 \/ RebuildSucceeds \/ RebuildFails
          PROVE  wire'[s] = wire[s]
      BY <3>3, <3>4 DEF LoseSession, RebuildSucceeds, RebuildFails
    <3>5. ASSUME NEW t \in Sessions, Route(t), t # s PROVE wire'[s] = wire[s]
      BY <2>1, <3>5 DEF Route, TypeOK
    <3>6. QED
      BY <1>1, <2>1, <3>1, <3>2, <3>4, <3>5 DEF Next
  <2> DEFINE m == Head(wire[s])
             live == {q \in Fitting(m) : CallerOf(q) # {}}
  <2>3. r \in live /\ live \subseteq Request
    BY <1>1 DEF Fitting, CallerOf, IInv, TypeOK
  <2>4. PICK q \in Served(m) : TRUE
    BY <2>3, SomeoneIsFirst DEF Served
  <2>5. q \in live /\ q.place <= r.place
    BY <2>3, <2>4 DEF Served, FirstOf
  <2>6. PICK d \in CallerOf(q) : TRUE
    BY <2>5
  <2>7. /\ q \in requests /\ d \in Callers
        /\ calls[d].id = q.id /\ mailbox[d] = Empty
    BY <1>1, <2>4, <2>6, ServedFacts
  <2>8. mailbox'[d] = m
    BY <2>2, <2>4, <2>6, <2>7 DEF Route
  <2>9. QED
    BY <2>5, <2>7, <2>8
<1>2. QED
  BY <1>1, Invariance, PTL DEF Spec, NothingIsSwallowed

\* What a caller was told stays until it has looked: nobody is answered twice.
THEOREM AnswersAreKept == Spec => AnsweredOnce
<1> DEFINE Kept == \A c \in Callers :
          mailbox[c] # Empty => mailbox'[c] = mailbox[c] \/ calls'[c] = Idle
<1>1. ASSUME IInv, [Next]_vars PROVE Kept
  <2>1. ASSUME NEW d \in Callers, Guard(d) PROVE Kept
    BY <1>1, <2>1 DEF Guard, IInv, TypeOK
  <2>2. ASSUME NEW s \in Sessions, Route(s) PROVE Kept
    <3> SUFFICES ASSUME NEW c \in Callers, mailbox[c] # Empty
                 PROVE  mailbox'[c] = mailbox[c]
      OBVIOUS
    <3>1. \A r \in Served(Head(wire[s])) : c \notin CallerOf(r)
      BY <1>1, ServedFacts
    <3>2. QED
      BY <2>2, <3>1 DEF Route
  <2>3. CASE ClearRequests
    BY <2>3 DEF ClearRequests, Woken
  <2>4. ASSUME NEW d \in Callers, CallerStep(d), ~Guard(d)
        PROVE  mailbox' = mailbox
    BY <2>4 DEF CallerStep, TakeId, Register, Send, Abandon, Answered, Expire,
       StopReceiving
  <2>5. ASSUME \/ \E s \in Sessions :
                     ServerAnswers(s) \/ ServerSpeaks(s) \/ LoseSession(s)
               \/ SessionComesUp \/ RebuildSucceeds \/ RebuildFails
               \/ SupervisorStops \/ UNCHANGED vars
        PROVE  mailbox' = mailbox
    BY <2>5 DEF ServerAnswers, ServerSpeaks, LoseSession, SessionComesUp,
       RebuildSucceeds, RebuildFails, SupervisorStops, vars
  <2>6. QED
    BY <1>1, <2>1, <2>2, <2>3, <2>4, <2>5 DEF Next
<1>2. QED
  BY <1>1, Invariance, PTL DEF Spec, AnsweredOnce
=============================================================================
