-------------------------- MODULE StateStreamProofs --------------------------
(***************************************************************************)
(* Proofs about the state stream and the backoff for every capacity, every *)
(* policy and any number of receivers.  That Power is what its recursion   *)
(* says, and so that the backoff does not shrink, is proved with a least   *)
(* counterexample.                                                         *)
(***************************************************************************)
EXTENDS StateStream, WellFoundedInduction, TLAPS

\* The supervisor that runs has a policy.
Paced == states # None => pacing \in Policies

\* The client's sender and the supervisor's lead to one stream.
OneStream ==
    /\ client = "live" => states \in {None, state_sender}
    /\ \A r \in Receivers :
          receivers[r].stream # None /\ ~receivers[r].stale
              => receivers[r].stream = state_sender

\* An attempt is announced with the delay its policy has for its number.
DelayIsThePolicys ==
    /\ announced = "Reconnecting" =>
          /\ pacing \in Policies /\ delay \in MinDelay .. Ceiling(pacing)
          /\ attempt >= 1
          /\ ~pacing.jitter => delay = Unspread(pacing, attempt)
    /\ announced # "Reconnecting" => attempt = 0

IInv == TypeOK /\ Paced /\ OneStream /\ DelayIsThePolicys

-----------------------------------------------------------------------------
(***************************************************************************)
(* delay_for.                                                              *)
(***************************************************************************)

\* What is left of a number is no larger than the number.
LEMMA Remainder ==
    ASSUME NEW a \in Nat, NEW b \in Nat \ {0}
    PROVE  a % b \in 0 .. a
<1>1. a % b <= a
  OBVIOUS
<1>2. a % b \in 0 .. b - 1
  OBVIOUS
<1>3. QED
  BY <1>1, <1>2

\* For every policy and every attempt, however often the product saturates and
\* wherever the jitter falls, delay_for stays between the floor and the ceiling.
LEMMA DelayForIsBounded ==
    ASSUME NEW policy \in Policies, NEW number \in Nat,
           NEW d \in DelayFor(policy, number)
    PROVE  d \in MinDelay .. Ceiling(policy) /\ d \in 0 .. DurationMax
<1>1. /\ policy.initial \in 0 .. DurationMax /\ policy.max \in 0 .. DurationMax
      /\ MinDelay \in Nat /\ DurationMax \in Nat /\ MinDelay <= DurationMax
      /\ Word \in Nat \ {0}
  BY StateStreamAssumption
<1>2. /\ Ceiling(policy) \in 0 .. DurationMax /\ MinDelay <= Ceiling(policy)
  BY <1>1 DEF Ceiling, Greatest
<1>3. Scaled(policy, number) \in 0 .. DurationMax
  BY <1>1 DEF Scaled
<1>4. Unspread(policy, number) \in MinDelay .. Ceiling(policy)
  BY <1>1, <1>2, <1>3 DEF Unspread, Least, Greatest
<1>5. Unspread(policy, number) % Word \in 0 .. Unspread(policy, number)
  BY <1>1, <1>2, <1>4, Remainder
<1>6. CASE d = Unspread(policy, number)
  BY <1>1, <1>2, <1>4, <1>6
<1>7. CASE d # Unspread(policy, number)
  <2>1. PICK e \in 0 .. (Unspread(policy, number) % Word) :
            d = Greatest(e, MinDelay)
    BY <1>7 DEF DelayFor
  <2>2. QED
    BY <1>1, <1>2, <1>4, <1>5, <2>1 DEF Greatest
<1>8. QED
  BY <1>6, <1>7

\* Without jitter it is the delay of the policy.
LEMMA UnspreadDelay ==
    ASSUME NEW policy, NEW number, ~policy.jitter
    PROVE  DelayFor(policy, number) = {Unspread(policy, number)}
BY DEF DelayFor

Less == {p \in Nat \X Nat : p[1] < p[2]}

\* A set of numbers has a least one.
LEMMA LeastNumber ==
    ASSUME NEW S, S \subseteq Nat, S # {}
    PROVE  \E m \in S : \A k \in S : m <= k
<1>1. IsWellFoundedOn(Less, Nat)
  BY NatLessThanWellFounded, Zenon DEF OpToRel, Less
<1>2. \E m \in S : \A k \in S : <<k, m>> \notin Less
  BY <1>1, WFMin, Zenon
<1>3. \A k, m \in Nat : <<k, m>> \notin Less => m <= k
  BY DEF Less
<1> QED
  BY <1>2, <1>3

\* Power is what its recursion says: there is such a function on every 0 .. k,
\* for the least k without one would have the one before it, extended.
LEMMA PowerDoubles ==
    /\ \A n \in 0 .. Doublings : Power[n] \in Nat
    /\ \A n \in 0 .. Doublings : n # 0 => Power[n] = 2 * Power[n - 1]
<1> DEFINE IsPower(g, k) ==
                g = [n \in 0 .. k |-> IF n = 0 THEN 1 ELSE 2 * g[n - 1]]
           Missing == {k \in Nat : ~ \E g : IsPower(g, k)}
<1>1. Doublings \in Nat
  BY StateStreamAssumption
<1>2. Missing = {}
  <2>1. SUFFICES ASSUME Missing # {} PROVE FALSE
    OBVIOUS
  <2>2. PICK k \in Missing : \A j \in Missing : k <= j
    <3>1. Missing \subseteq Nat
      OBVIOUS
    <3> HIDE DEF Missing
    <3> QED
      BY <2>1, <3>1, LeastNumber
  <2>3. k \in Nat /\ ~ \E g : IsPower(g, k)
    OBVIOUS
  <2>4. CASE k = 0
    <3>1. IsPower([n \in 0 .. 0 |-> 1], 0)
      OBVIOUS
    <3> QED
      BY <2>3, <2>4, <3>1
  <2>5. CASE k # 0
    <3>1. k - 1 \in Nat /\ k - 1 \notin Missing
      <4>1. k - 1 \in Nat /\ ~(k <= k - 1)
        BY <2>3, <2>5
      <4> HIDE DEF Missing
      <4> QED
        BY <2>2, <4>1
    <3>2. PICK h : IsPower(h, k - 1)
      BY <3>1
    <3> DEFINE g == [n \in 0 .. k |-> IF n = k THEN 2 * h[k - 1] ELSE h[n]]
    <3>3. ASSUME NEW n \in 0 .. k
          PROVE  g[n] = IF n = 0 THEN 1 ELSE 2 * g[n - 1]
      <4>1. CASE n = k
        BY <2>3, <2>5, <4>1
      <4>2. CASE n # k
        <5>1. n \in 0 .. k - 1 /\ n \in Nat
          BY <2>3, <4>2
        <5>2. h[n] = IF n = 0 THEN 1 ELSE 2 * h[n - 1]
          BY <3>2, <5>1
        <5>3. n # 0 => n - 1 \in 0 .. k /\ n - 1 # k
          BY <2>3, <5>1
        <5> QED
          BY <4>2, <5>1, <5>2, <5>3
      <4> QED
        BY <4>1, <4>2
    <3>4. IsPower(g, k)
      <4>1. g = [n \in 0 .. k |-> g[n]]
        OBVIOUS
      <4> HIDE DEF g
      <4> QED
        BY <3>3, <4>1
    <3> QED
      BY <2>3, <3>4
  <2> QED
    BY <2>4, <2>5
<1>3. PICK f : IsPower(f, Doublings)
  BY <1>1, <1>2
<1>4. IsPower(Power, Doublings)
  BY <1>3, Zenon DEF Power
<1>5. \A n \in 0 .. Doublings : Power[n] = IF n = 0 THEN 1 ELSE 2 * Power[n - 1]
  BY <1>4
<1>6. \A n \in 0 .. Doublings : Power[n] \in Nat
  <2> DEFINE Bad == {n \in 0 .. Doublings : Power[n] \notin Nat}
  <2>1. SUFFICES ASSUME Bad # {} PROVE FALSE
    OBVIOUS
  <2>2. Bad \subseteq Nat
    OBVIOUS
  <2>3. PICK n \in Bad : \A j \in Bad : n <= j
    <3> HIDE DEF Bad
    <3> QED
      BY <2>1, <2>2, LeastNumber
  <2>4. n # 0 => n - 1 \in 0 .. Doublings /\ n - 1 \notin Bad
    BY <1>1, <2>3
  <2> QED
    BY <1>5, <2>3, <2>4
<1> QED
  BY <1>5, <1>6

\* Without jitter the delay does not shrink from one attempt to the next,
\* wherever the product saturates or the exponent stops.
LEMMA UnspreadGrows ==
    ASSUME NEW policy \in Policies, NEW number \in Nat, number >= 1
    PROVE  Unspread(policy, number) <= Unspread(policy, number + 1)
<1> DEFINE a == Least(number - 1, Doublings)
           b == Least(number, Doublings)
           x == policy.initial
<1>1. /\ x \in Nat /\ policy.max \in Nat /\ MinDelay \in Nat
      /\ DurationMax \in Nat /\ Doublings \in Nat
  BY StateStreamAssumption
<1>2. a \in 0 .. Doublings /\ b \in 0 .. Doublings /\ b \in {a, a + 1}
  BY <1>1 DEF Least
<1>3. Power[a] \in Nat /\ Power[b] \in Nat /\ Power[b] \in {Power[a], 2 * Power[a]}
  BY <1>2, PowerDoubles
<1> HIDE DEF a, b, x
<1>4. x * Power[a] \in Nat /\ x * Power[b] \in Nat /\ x * Power[a] <= x * Power[b]
  <2>1. \A u, v \in Nat : u * v \in Nat /\ u * (2 * v) = (u * v) + (u * v)
    OBVIOUS
  <2>2. x * Power[a] \in Nat /\ x * Power[b] \in Nat
    BY <1>1, <1>3, <2>1
  <2>3. x * Power[b] \in {x * Power[a], (x * Power[a]) + (x * Power[a])}
    BY <1>1, <1>3, <2>1
  <2> QED
    BY <2>2, <2>3
<1>5. number + 1 - 1 = number
  OBVIOUS
<1>6. /\ Scaled(policy, number) = IF x * Power[a] \in 0 .. DurationMax
                                  THEN x * Power[a] ELSE DurationMax
      /\ Scaled(policy, number + 1) = IF x * Power[b] \in 0 .. DurationMax
                                      THEN x * Power[b] ELSE DurationMax
  BY <1>5 DEF Scaled, a, b, x
<1>7. /\ Scaled(policy, number) \in Nat /\ Scaled(policy, number + 1) \in Nat
      /\ Scaled(policy, number) <= Scaled(policy, number + 1)
  BY <1>1, <1>4, <1>6
<1>8. Ceiling(policy) \in Nat
  BY <1>1 DEF Ceiling, Greatest
<1> QED
  BY <1>1, <1>7, <1>8 DEF Unspread, Least, Greatest

-----------------------------------------------------------------------------
(***************************************************************************)
(* The channel.                                                            *)
(***************************************************************************)

\* A send leaves the channel within its capacity, whatever it evicts.
LEMMA NotifyKeepsTypes ==
    ASSUME TypeOK, NEW s \in Streams, NEW state \in States, Notify(s, state)
    PROVE  /\ ring' \in [Streams -> Seq(States)] /\ sent' \in [Streams -> Nat]
           /\ \A t \in Streams : Len(ring'[t]) <= Capacity
                                   /\ Len(ring'[t]) <= sent'[t]
<1> USE DEF TypeOK
<1>1. CASE UNCHANGED streamVars
  BY <1>1 DEF streamVars
<1>2. CASE /\ ring' = [ring EXCEPT ![s] = Kept(s, state)]
           /\ sent' = [sent EXCEPT ![s] = @ + 1]
  <2>1. /\ Capacity \in Nat \ {0} /\ ring[s] \in Seq(States)
        /\ Len(ring[s]) <= Capacity /\ Len(ring[s]) <= sent[s]
        /\ sent[s] \in Nat
    BY StateStreamAssumption
  <2>2. /\ Kept(s, state) \in Seq(States)
        /\ Len(Kept(s, state)) <= Capacity
        /\ Len(Kept(s, state)) <= sent[s] + 1
    <3>1. CASE Len(ring[s]) = Capacity
      <4>1. /\ Tail(ring[s]) \in Seq(States)
            /\ Len(Tail(ring[s])) = Len(ring[s]) - 1
        BY <2>1, <3>1
      <4>2. QED
        BY <2>1, <3>1, <4>1 DEF Kept
    <3>2. CASE Len(ring[s]) # Capacity
      BY <2>1, <3>2 DEF Kept
    <3>3. QED
      BY <3>1, <3>2
  <2>3. QED
    BY <1>2, <2>1, <2>2
<1>3. QED
  BY <1>1, <1>2 DEF Notify

-----------------------------------------------------------------------------
(***************************************************************************)
(* One step per action.                                                    *)
(***************************************************************************)

\* A state that is still to be had has its place in the ring.
LEMMA Position ==
    ASSUME NEW n \in Nat, NEW last \in Nat, NEW len \in Nat,
           ~(n > last), ~(n < last - len + 1)
    PROVE  n - (last - len + 1) + 1 \in 1 .. len
OBVIOUS

\* What subscribing, reading on and the end of a session make of a receiver is
\* a receiver.
LEMMA ReceiverTypes ==
    ASSUME NEW x \in Receiver
    PROVE  /\ \A s \in Streams, n \in Nat :
                [x EXCEPT !.stream = s, !.next = n] \in Receiver
           /\ \A heard \in States \cup {"None", "Closed"}, n \in Nat :
                [x EXCEPT !.heard = heard, !.next = n] \in Receiver
           /\ \A b \in BOOLEAN : [x EXCEPT !.stale = b] \in Receiver
BY DEF Receiver

\* A client without a policy, and no stream.
LEMMA InitIInv == Init => IInv
<1> SUFFICES ASSUME Init PROVE IInv
  OBVIOUS
<1>1. << >> \in Seq(States) /\ Len(<< >>) = 0
  OBVIOUS
<1>2. Unused.stale \in BOOLEAN
  BY Zenon DEF Unused
<1>3. TypeOK
  BY <1>1, <1>2, StateStreamAssumption
  DEF Init, TypeOK, Supervisor!Init, Unused, Receiver
<1>4. QED
  BY <1>3 DEF Init, IInv, Paced, OneStream, DelayIsThePolicys,
     Supervisor!Init, Unused

\* An announcement goes to the stream and changes no receiver and no sender,
\* but for the supervisor's own.
LEMMA AnnouncementsKeep ==
    ASSUME IInv, Loses \/ Retries \/ Reconnects \/ GivesUp
    PROVE  IInv'
<1> USE DEF IInv, TypeOK
<1>1. /\ states \in Streams /\ pacing \in Policies /\ MaxAttempts \in Nat
      /\ UNCHANGED <<clientVars, pacing, receivers>>
      /\ states' \in {states, None} /\ outages' \in 0 .. MaxOutages
      /\ Notify(states, announced')
  BY StateStreamAssumption
  DEF Loses, Retries, Reconnects, GivesUp, Announces, Paced, None
<1>2. /\ announced' \in States /\ attempt' \in 0 .. MaxAttempts
      /\ announced' = "Reconnecting" => Retries /\ attempt' \in Nat \ {0}
      /\ announced' # "Reconnecting" => attempt' = 0
  BY <1>1
  DEF Loses, Retries, Reconnects, GivesUp, Announces, Supervisor!Lose,
      Supervisor!Try, Supervisor!Reconnect, Supervisor!GiveUp,
      Supervisor!Announces, States
<1>3. /\ delay' \in 0 .. DurationMax
      /\ announced' = "Reconnecting" =>
            /\ delay' \in MinDelay .. Ceiling(pacing)
            /\ ~pacing.jitter => delay' = Unspread(pacing, attempt)'
  <2>1. CASE Retries
    <3>1. delay' \in DelayFor(pacing, attempt')
      BY <2>1 DEF Retries
    <3>2. attempt' \in Nat /\ pacing \in Policies /\ pacing' = pacing
      BY <1>1, <1>2
    <3>3. ~pacing.jitter => delay' = Unspread(pacing, attempt')
      BY <3>1, UnspreadDelay
    <3> QED
      BY <3>1, <3>2, <3>3, DelayForIsBounded
  <2>2. CASE ~Retries
    BY <1>2, <2>2, StateStreamAssumption DEF Loses, Reconnects, GivesUp
  <2>3. QED
    BY <2>1, <2>2
<1>4. TypeOK'
  BY <1>1, <1>2, <1>3, NotifyKeepsTypes DEF clientVars
<1>5. Paced' /\ OneStream' /\ DelayIsThePolicys'
  BY <1>1, <1>2, <1>3
  DEF Paced, OneStream, DelayIsThePolicys, clientVars, None, Ceiling
<1>6. QED
  BY <1>4, <1>5

\* A consumer subscribes to the stream the client holds.
LEMMA SubscribeKeeps ==
    ASSUME IInv, NEW r \in Receivers, Subscribe(r)
    PROVE  IInv'
<1> USE DEF IInv, TypeOK
<1>1. /\ state_sender \in Streams
      /\ receivers' = [receivers EXCEPT ![r].stream = state_sender,
                                        ![r].next = sent[state_sender] + 1]
      /\ UNCHANGED <<clientVars, supervisorVars, streamVars>>
  BY DEF Subscribe
<1>2. TypeOK'
  <2>1. sent[state_sender] + 1 \in Nat
    BY <1>1
  <2>2. [receivers[r] EXCEPT !.stream = state_sender,
                             !.next = sent[state_sender] + 1] \in Receiver
    BY <1>1, <2>1, ReceiverTypes
  <2>3. receivers' = [receivers EXCEPT ![r] =
            [receivers[r] EXCEPT !.stream = state_sender,
                                 !.next = sent[state_sender] + 1]]
    BY <1>1 DEF Receiver
  <2>4. QED
    BY <1>1, <2>2, <2>3 DEF clientVars, supervisorVars, streamVars
<1>3. OneStream'
  BY <1>1 DEF OneStream, Receiver, clientVars, supervisorVars
<1>4. Paced' /\ DelayIsThePolicys'
  BY <1>1 DEF Paced, DelayIsThePolicys, clientVars, supervisorVars
<1>5. QED
  BY <1>2, <1>3, <1>4

\* A consumer reads on.
LEMMA ReceiveKeeps ==
    ASSUME IInv, NEW r \in Receivers, Receive(r)
    PROVE  IInv'
<1> USE DEF IInv, TypeOK
<1> DEFINE s    == receivers[r].stream
           next == receivers[r].next
<1>1. s \in Streams /\ next \in Nat /\ sent[s] \in Nat
      /\ UNCHANGED <<clientVars, supervisorVars, streamVars>>
  BY DEF Receive, Receiver, None
<1>2. /\ ring[s] \in Seq(States)
      /\ Len(ring[s]) \in Nat /\ Len(ring[s]) <= sent[s]
      /\ Oldest(s) = sent[s] - Len(ring[s]) + 1 /\ Oldest(s) \in Nat
  <2>1. /\ ring[s] \in Seq(States) /\ Len(ring[s]) <= sent[s]
        /\ Oldest(s) = sent[s] - Len(ring[s]) + 1
    BY <1>1 DEF Oldest
  <2>2. Len(ring[s]) \in Nat
    BY <2>1
  <2>3. QED
    BY <1>1, <2>1, <2>2
<1> DEFINE Reads(heard, n) ==
        receivers' = [receivers EXCEPT ![r] =
                          [receivers[r] EXCEPT !.heard = heard, !.next = n]]
<1>3. PICK heard \in States \cup {"None", "Closed"}, n \in Nat : Reads(heard, n)
  <2>0. receivers[r] \in Receiver
    OBVIOUS
  <2>1. CASE next > sent[s]
    <3>1. receivers' = [receivers EXCEPT ![r] =
                            [receivers[r] EXCEPT !.heard = "Closed"]]
      BY <1>1, <2>1 DEF Receive
    <3>2. [receivers[r] EXCEPT !.heard = "Closed"]
              = [receivers[r] EXCEPT !.heard = "Closed", !.next = next]
      BY <2>0 DEF Receiver
    <3>3. Reads("Closed", next)
      BY <3>1, <3>2
    <3>4. QED
      BY <1>1, <3>3
  <2>2. CASE ~(next > sent[s]) /\ next < Oldest(s)
    <3>1. receivers' = [receivers EXCEPT ![r] =
                            [receivers[r] EXCEPT !.next = Oldest(s)]]
      BY <2>2 DEF Receive
    <3>2. [receivers[r] EXCEPT !.next = Oldest(s)]
              = [receivers[r] EXCEPT !.heard = receivers[r].heard,
                                     !.next = Oldest(s)]
      BY <2>0 DEF Receiver
    <3>3. Reads(receivers[r].heard, Oldest(s))
      BY <3>1, <3>2
    <3>4. receivers[r].heard \in States \cup {"None", "Closed"}
      BY <2>0 DEF Receiver
    <3>5. QED
      BY <1>2, <3>3, <3>4
  <2>3. CASE ~(next > sent[s]) /\ ~(next < Oldest(s))
    <3>1. next - Oldest(s) + 1 \in 1 .. Len(ring[s])
      BY <1>1, <1>2, <2>3, Position
    <3>2. ring[s][next - Oldest(s) + 1] \in States
      BY <1>2, <3>1
    <3>3. Reads(ring[s][next - Oldest(s) + 1], next + 1)
      BY <2>3 DEF Receive
    <3>4. next + 1 \in Nat
      BY <1>1
    <3>5. QED
      BY <3>2, <3>3, <3>4, Zenon
  <2>4. QED
    BY <2>1, <2>2, <2>3
<1>4. TypeOK'
  <2>1. [receivers[r] EXCEPT !.heard = heard, !.next = n] \in Receiver
    BY <1>3, ReceiverTypes
  <2>2. QED
    BY <1>1, <1>3, <2>1 DEF clientVars, supervisorVars, streamVars
<1>5. OneStream'
  BY <1>1, <1>3 DEF OneStream, Receiver, clientVars, supervisorVars
<1>6. Paced' /\ DelayIsThePolicys'
  BY <1>1 DEF Paced, DelayIsThePolicys, clientVars, supervisorVars
<1>7. QED
  BY <1>4, <1>5, <1>6

\* The owner opens a stream only when there is none, and lets go of it when
\* the session ends.
LEMMA OwnerKeeps ==
    ASSUME IInv, WithReconnect \/ Connect \/ Disconnect \/ DropClient
    PROVE  IInv'
<1> USE DEF IInv, TypeOK, None
<1>1. CASE WithReconnect
  <2>1. /\ reconnect' \in Policies
        /\ \/ state_sender # None /\ UNCHANGED <<state_sender, opened>>
           \/ /\ state_sender = None /\ state_sender' = opened'
              /\ opened' \in Streams
        /\ UNCHANGED <<client, supervisorVars, streamVars, receivers>>
    BY <1>1, StateStreamAssumption DEF WithReconnect, Opens, Streams
  <2>2. opened' \in 0 .. MaxStreams /\ state_sender' \in Streams \cup {None}
    BY <2>1 DEF Streams
  <2>3. TypeOK'
    BY <2>1, <2>2 DEF supervisorVars, streamVars
  <2>4. Paced' /\ OneStream' /\ DelayIsThePolicys'
    BY <2>1 DEF Paced, OneStream, DelayIsThePolicys, supervisorVars
  <2>5. QED
    BY <2>3, <2>4
<1>2. CASE Connect
  <2>1. CASE reconnect = Off
    <3>1. /\ client' = "live" /\ states = None
          /\ UNCHANGED <<reconnect, state_sender, opened, states, pacing,
                         announced, attempt, delay, outages, streamVars,
                         receivers>>
      BY <1>2, <2>1 DEF Connect
    <3>2. QED
      BY <3>1 DEF Paced, OneStream, DelayIsThePolicys, streamVars
  <2>2. CASE reconnect # Off
    <3>1. /\ client' = "live" /\ pacing' = reconnect /\ reconnect \in Policies
          /\ states' = state_sender' /\ delay' = 0
          /\ announced' = "None" /\ attempt' = 0
          /\ \/ state_sender # None /\ UNCHANGED <<state_sender, opened>>
             \/ /\ state_sender = None /\ state_sender' = opened'
                /\ opened' \in Streams
          /\ UNCHANGED <<reconnect, outages, streamVars, receivers>>
      BY <1>2, <2>2, StateStreamAssumption
      DEF Connect, Opens, OpensForConnect, Streams, Supervisor!Restart,
          Supervisor!Announces
    <3>2. opened' \in 0 .. MaxStreams /\ state_sender' \in Streams
      BY <3>1 DEF Streams
    <3>3. TypeOK'
      BY <3>1, <3>2, StateStreamAssumption DEF streamVars
    <3>4. Paced' /\ OneStream' /\ DelayIsThePolicys'
      BY <3>1 DEF Paced, OneStream, DelayIsThePolicys
    <3>5. QED
      BY <3>3, <3>4
  <2>3. QED
    BY <2>1, <2>2
<1>3. CASE Disconnect \/ DropClient
  <2>1. /\ client' \in {"off", "dropped"} /\ state_sender' = None
        /\ receivers' = [r \in Receivers |->
               [receivers[r] EXCEPT !.stale = receivers[r] # Unused]]
        /\ UNCHANGED <<reconnect, opened, supervisorVars, streamVars>>
    BY <1>3 DEF Disconnect, DropClient, SenderAfter
  <2>2. \A r \in Receivers : (receivers[r] # Unused) \in BOOLEAN
    BY Zenon
  <2>3. receivers' \in [Receivers -> Receiver]
    <3>1. \A r \in Receivers :
              [receivers[r] EXCEPT !.stale = receivers[r] # Unused] \in Receiver
      BY <2>2, ReceiverTypes, Zenon
    <3>2. QED
      BY <2>1, <3>1, Zenon
  <2>4. TypeOK'
    BY <2>1, <2>3 DEF supervisorVars, streamVars
  <2>5. ASSUME NEW r \in Receivers, receivers'[r].stream # None
        PROVE  receivers'[r].stale
    <3>1. receivers[r] \in Receiver
      OBVIOUS
    <3>2. receivers'[r] = [receivers[r] EXCEPT !.stale = receivers[r] # Unused]
      BY <2>1, Zenon
    <3>3. receivers[r] # Unused
      BY <2>5, <3>1, <3>2 DEF Unused, Receiver
    <3>4. receivers'[r] = [receivers[r] EXCEPT !.stale = TRUE]
      BY <3>2, <3>3, Zenon
    <3>5. QED
      BY <3>1, <3>4 DEF Receiver
  <2>6. Paced' /\ OneStream' /\ DelayIsThePolicys'
    BY <2>1, <2>5 DEF Paced, OneStream, DelayIsThePolicys, supervisorVars
  <2>7. QED
    BY <2>4, <2>6
<1>4. QED
  BY <1>1, <1>2, <1>3

\* Every step of Next, and a stutter, keeps the invariant.
LEMMA NextKeepsIInv == IInv /\ [Next]_vars => IInv'
<1>1. ASSUME IInv, Stops PROVE IInv'
  BY <1>1 DEF IInv, TypeOK, Stops, Paced, OneStream, DelayIsThePolicys,
     clientVars, streamVars, None
<1>2. ASSUME IInv, UNCHANGED vars PROVE IInv'
  BY <1>2 DEF IInv, TypeOK, vars, clientVars, supervisorVars, streamVars,
     Paced, OneStream, DelayIsThePolicys
<1>3. QED
  BY <1>1, <1>2, AnnouncementsKeep, SubscribeKeeps, ReceiveKeeps, OwnerKeeps
  DEF Next

-----------------------------------------------------------------------------
(***************************************************************************)
(* The theorems.                                                           *)
(***************************************************************************)

\* The inductive invariant holds in every reachable state.
THEOREM Invariance == Spec => []IInv
BY InitIInv, NextKeepsIInv, PTL DEF Spec

\* Senders, receivers and the ring are well-typed; the ring never outgrows its
\* capacity and the attempts never pass their limit.
THEOREM TypeCorrect == Spec => []TypeOK
<1>1. IInv => TypeOK
  BY DEF IInv
<1>2. QED
  BY <1>1, Invariance, PTL

\* Whatever the order of with_reconnect, connection_states and connect, a
\* receiver listens to the stream the supervisor sends to.
THEOREM ReceiversAreConnected == Spec => []ReceiversListen
<1>1. IInv => ReceiversListen
  BY DEF IInv, OneStream, ReceiversListen
<1>2. QED
  BY <1>1, Invariance, PTL

\* Every Reconnecting carries a delay between MIN_RECONNECT_DELAY and the
\* ceiling of its policy (delay_for).
THEOREM DelaysAreBounded == Spec => []DelayInBounds
<1>1. IInv => DelayInBounds
  BY DEF IInv, DelayIsThePolicys, DelayInBounds
<1>2. QED
  BY <1>1, Invariance, PTL

\* Every attempt is announced with a delay between the floor and the ceiling,
\* and without jitter never a shorter one than the attempt before it
\* (delay_for: "a long outage must not fold the backoff back round to zero").
THEOREM BackoffGrows == Spec => BackoffIsSteady
<1> DEFINE Step ==
        attempt' > attempt =>
          /\ delay' \in MinDelay .. Ceiling(pacing)
          /\ ~pacing.jitter /\ attempt > 0 => delay' >= delay
<1>1. IInv /\ IInv' /\ [Next]_vars => [Step]_vars
  <2> SUFFICES ASSUME IInv, IInv', Next, attempt' > attempt
               PROVE  /\ delay' \in MinDelay .. Ceiling(pacing)
                      /\ ~pacing.jitter /\ attempt > 0 => delay' >= delay
    OBVIOUS
  <2>1. attempt \in Nat /\ attempt' \in Nat
    BY StateStreamAssumption DEF IInv, TypeOK
  <2>2. announced' = "Reconnecting"
    BY <2>1 DEF IInv, DelayIsThePolicys
  <2>3. Retries
    <3>1. Loses \/ Reconnects \/ GivesUp => attempt' = 0
      BY DEF Loses, Reconnects, GivesUp, Announces, Supervisor!Lose,
         Supervisor!Reconnect, Supervisor!GiveUp, Supervisor!Announces
    <3>2. Connect => attempt' \in {0, attempt}
      BY DEF Connect, Supervisor!Restart, Supervisor!Announces
    <3>3. \/ WithReconnect \/ Disconnect \/ DropClient \/ Stops
          \/ \E r \in Receivers : Subscribe(r) \/ Receive(r)
          => attempt' = attempt
      BY DEF WithReconnect, Disconnect, DropClient, Stops, Subscribe, Receive,
         supervisorVars
    <3> QED
      BY <2>1, <3>1, <3>2, <3>3 DEF Next
  <2>4. pacing' = pacing /\ attempt' = attempt + 1
    BY <2>3 DEF Retries, Announces, Supervisor!Try, Supervisor!Announces
  <2>5. /\ pacing \in Policies /\ delay' \in MinDelay .. Ceiling(pacing)
        /\ ~pacing.jitter => delay' = Unspread(pacing, attempt)'
    BY <2>2, <2>4 DEF IInv, DelayIsThePolicys, Ceiling
  <2>6. ASSUME ~pacing.jitter, attempt > 0 PROVE delay' >= delay
    <3>1. delay = Unspread(pacing, attempt) /\ delay' = Unspread(pacing, attempt + 1)
      BY <2>1, <2>4, <2>5, <2>6 DEF IInv, DelayIsThePolicys
    <3>2. Unspread(pacing, attempt) <= Unspread(pacing, attempt + 1)
      BY <2>1, <2>5, <2>6, UnspreadGrows
    <3>3. delay \in Nat /\ delay' \in Nat
      BY StateStreamAssumption DEF IInv, TypeOK
    <3> QED
      BY <3>1, <3>2, <3>3
  <2> QED
    BY <2>5, <2>6
<1> QED
  BY <1>1, Invariance, NextKeepsIInv, InitIInv, PTL DEF Spec, BackoffIsSteady
=============================================================================
