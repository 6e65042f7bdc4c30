--------------------------- MODULE DeliveryProofs ---------------------------
(***************************************************************************)
(* Proofs about the event pipeline for every number of events, every       *)
(* capacity and both overflow policies.  The invariant is inductive: it    *)
(* says which event the worker holds, who can still feed it, and where     *)
(* every event that was offered has gone.                                  *)
(***************************************************************************)
EXTENDS Delivery, SequenceTheorems, TLAPS

\* The worker holds an event exactly while it delivers one.
HandIsFilled == hand # None <=> worker \in {"calling", "streaming"}

\* The worker ends when it is aborted or when nobody can feed it, and the
\* reader only ends between two messages.
EndIsFinal ==
    /\ reader = "ended" => batch = 0
    /\ worker = "ended" => ~sender /\ (aborted \/ reader = "ended")
    /\ ~sender => worker = "ended" \/ consumer = "gone"

\* Events the consumer has or may still get, and events that were counted.
HandLen   == IF hand = None THEN 0 ELSE 1
Accounted == Len(received) + Len(stream) + HandLen + Len(queue) + dropped

\* No event is accounted for twice, and until the consumer leaves or delivery
\* is shut down none is missing.
Accounting ==
    /\ Accounted <= offered
    /\ consumer = "present" /\ ~aborted => Accounted = offered

IInv == TypeOK /\ HandIsFilled /\ EndIsFinal /\ Accounting /\ BurstFits

\* Of the order and the completeness of what is delivered: the events that
\* callbacks see, and those on the way to the consumer, are in order, and no
\* event that was not dropped is missing from what it should be in.
Line        == called \o Awaiting
UpTo(s, n)  == \A x \in Range(s) : x <= n
LineInOrder == InOrder(Line) /\ UpTo(Line, offered)
FifoInOrder ==
    /\ InOrder(received \o Travelling)
    /\ UpTo(received \o Travelling, offered)
CallsAreWatched ==
    /\ worker = "calling" => hand \in Watched
    /\ Range(called) \subseteq Watched
LineIsComplete ==
    dropped = 0 /\ ~aborted =>
        Watched \cap 1 .. offered \subseteq Range(Line)
BlockIsComplete ==
    policy = "Block" /\ consumer = "present" /\ ~aborted =>
        Watched \cap Range(Taken) = Range(called)

OrderInv == LineInOrder /\ FifoInOrder /\ CallsAreWatched /\ LineIsComplete
            /\ BlockIsComplete

-----------------------------------------------------------------------------
\* The queue is at least as deep as the consumer's stream.
LEMMA CapacityIsEnough ==
    Capacity \in Nat \ {0} /\ Capacity >= EventBuffer
BY DeliveryAssumption DEF Capacity

\* Adding one event at the end of a sequence, taking one from its front.
LEMMA Lengths ==
    ASSUME NEW s \in Seq(Events)
    PROVE  /\ Len(s) \in Nat
           /\ \A e \in Events : /\ Append(s, e) \in Seq(Events)
                                /\ Len(Append(s, e)) = Len(s) + 1
           /\ s # << >> => /\ Head(s) \in Events
                           /\ Tail(s) \in Seq(Events)
                           /\ Len(s) = Len(Tail(s)) + 1
<1>1. Len(s) \in Nat
  BY LenProperties
<1>2. ASSUME NEW e \in Events
      PROVE  Append(s, e) \in Seq(Events) /\ Len(Append(s, e)) = Len(s) + 1
  BY AppendProperties
<1>3. ASSUME s # << >>
      PROVE  /\ Head(s) \in Events
             /\ Tail(s) \in Seq(Events)
             /\ Len(s) = Len(Tail(s)) + 1
  BY <1>1, <1>3, HeadTailProperties
<1>4. QED
  BY <1>1, <1>2, <1>3

\* start_event_delivery establishes the invariant.
LEMMA InitIInv == Init => IInv
<1> SUFFICES ASSUME Init PROVE IInv
  OBVIOUS
<1>1. << >> \in Seq(Events) /\ Len(<< >>) = 0
  BY EmptySeq
<1>2. /\ offered \in 0 .. MaxEvents /\ batch \in 0 .. MaxEvents
      /\ offered + batch <= MaxEvents /\ dropped \in 0 .. MaxEvents
      /\ Len(queue) <= Capacity /\ Len(stream) <= EventBuffer
  BY <1>1, DeliveryAssumption, CapacityIsEnough DEF Init
<1>3. TypeOK
  BY <1>1, <1>2 DEF Init, TypeOK
<1>4. HandIsFilled /\ EndIsFinal /\ BurstFits
  BY DEF Init, HandIsFilled, EndIsFinal, BurstFits
<1>5. Accounting
  BY <1>1 DEF Init, Accounting, Accounted, HandLen
<1>6. QED
  BY <1>3, <1>4, <1>5 DEF IInv

-----------------------------------------------------------------------------
(***************************************************************************)
(* One lemma per group of actions.                                         *)
(***************************************************************************)
\* A step of the reader's try_send loop keeps the invariant.
LEMMA ReaderKeepsIInv == IInv /\ ReaderStep => IInv'
<1> SUFFICES ASSUME IInv, ReaderStep PROVE IInv'
  OBVIOUS
<1> USE DEF IInv
<1>t. offered \in Nat /\ batch \in Nat /\ dropped \in Nat
      /\ Len(queue) \in Nat /\ Len(stream) \in Nat /\ Len(received) \in Nat
      /\ HandLen \in Nat
  BY DeliveryAssumption, Lengths DEF TypeOK, HandLen
<1>1. CASE Decode
  <2>1. TypeOK'
    BY <1>1, <1>t, DeliveryAssumption, CapacityIsEnough
    DEF Decode, TypeOK, workerVars, consumerVars, Capacity
  <2>2. HandIsFilled' /\ EndIsFinal' /\ BurstFits'
    BY <1>1 DEF Decode, HandIsFilled, EndIsFinal, BurstFits, workerVars,
                consumerVars
  <2>3. Accounting'
    BY <1>1 DEF Decode, Accounting, Accounted, HandLen, workerVars,
                consumerVars
  <2>4. QED
    BY <2>1, <2>2, <2>3
<1>2. CASE Offer
  <2>1. offered + 1 \in Events /\ offered' = offered + 1
        /\ batch' \in 0 .. MaxEvents /\ offered' + batch' <= MaxEvents
    BY <1>2, <1>t, DeliveryAssumption DEF Offer, TypeOK, Events
  <2>2. CASE QueueHasRoom
    <3>1. queue' = Append(queue, offered + 1) /\ dropped' = dropped
      BY <1>2, <2>2 DEF Offer, Enqueued
    <3>2. queue' \in Seq(Events) /\ Len(queue') = Len(queue) + 1
          /\ Len(queue') <= Capacity /\ dropped' = dropped
      BY <3>1, <2>1, <2>2, <1>t, CapacityIsEnough, Lengths
      DEF QueueHasRoom, TypeOK
    <3>3. TypeOK'
      BY <1>2, <2>1, <3>2, <1>t, DeliveryAssumption
      DEF Offer, TypeOK, workerVars, consumerVars, Events, Capacity
    <3>4. HandIsFilled' /\ EndIsFinal'
      BY <1>2, <1>t DEF Offer, HandIsFilled, EndIsFinal, workerVars,
                        consumerVars
    <3>5. Accounting' /\ BurstFits'
      BY <1>2, <2>1, <3>2, <1>t, DeliveryAssumption
      DEF Offer, Accounting, Accounted, HandLen, workerVars, consumerVars,
          BurstFits
    <3>6. QED
      BY <3>3, <3>4, <3>5
  <2>3. CASE ~QueueHasRoom
    <3>1. queue' = queue /\ dropped' = dropped + 1
      BY <1>2, <2>3 DEF Offer, CountDrop
    <3>2. Accounting'
      BY <1>2, <2>1, <3>1, <1>t
      DEF Offer, Accounting, Accounted, HandLen, workerVars, consumerVars
    <3>3. dropped' \in 0 .. MaxEvents
      BY <1>2, <2>1, <3>1, <1>t, DeliveryAssumption
      DEF Accounting, Accounted, Events
    <3>4. TypeOK'
      BY <1>2, <2>1, <3>1, <3>3, <1>t, DeliveryAssumption
      DEF Offer, TypeOK, workerVars, consumerVars, Events, Capacity
    <3>5. HandIsFilled' /\ EndIsFinal'
      BY <1>2, <1>t DEF Offer, HandIsFilled, EndIsFinal, workerVars,
                        consumerVars
    <3>6. BurstFits'
      BY <2>1, <2>3, <1>t, CapacityIsEnough, DeliveryAssumption
      DEF Accounting, Accounted, QueueHasRoom, BurstFits
    <3>7. QED
      BY <3>2, <3>4, <3>5, <3>6
  <2>4. QED
    BY <2>2, <2>3
<1>3. CASE OfferClosed
  <2>1. aborted /\ reader = "reading"
    BY <1>3, <1>t DEF OfferClosed, EndIsFinal, TypeOK
  <2>2. TypeOK'
    BY <1>3, <1>t, DeliveryAssumption
    DEF OfferClosed, TypeOK, workerVars, consumerVars, Capacity
  <2>3. HandIsFilled' /\ EndIsFinal'
    BY <1>3, <1>t DEF OfferClosed, HandIsFilled, EndIsFinal, workerVars,
                      consumerVars
  <2>4. Accounting' /\ BurstFits'
    BY <1>3, <2>1, <1>t, DeliveryAssumption
    DEF OfferClosed, Accounting, Accounted, HandLen, workerVars,
        consumerVars, BurstFits
  <2>5. QED
    BY <2>2, <2>3, <2>4
<1>4. CASE ReaderEnds
  <2>1. TypeOK' /\ HandIsFilled' /\ EndIsFinal' /\ BurstFits'
    BY <1>4 DEF ReaderEnds, TypeOK, HandIsFilled, EndIsFinal, BurstFits,
                workerVars, consumerVars, Capacity
  <2>2. Accounting'
    BY <1>4 DEF ReaderEnds, Accounting, Accounted, HandLen, workerVars,
                consumerVars
  <2>3. QED
    BY <2>1, <2>2
<1>5. QED
  BY <1>1, <1>2, <1>3, <1>4 DEF ReaderStep

\* The worker has taken its hands off the event it held.
LEMMA HandEmptiedType ==
    HandEmptied => /\ worker' = "receiving" /\ hand' = None /\ HandLen' = 0
BY DEF HandEmptied, HandLen

\* A step of the delivery worker keeps the invariant.
LEMMA WorkerKeepsIInv == IInv /\ WorkerStep => IInv'
<1> SUFFICES ASSUME IInv, WorkerStep PROVE IInv'
  OBVIOUS
<1> USE DEF IInv
<1>t. offered \in Nat /\ batch \in Nat /\ dropped \in Nat
      /\ Len(queue) \in Nat /\ Len(stream) \in Nat /\ Len(received) \in Nat
      /\ HandLen \in Nat
  BY DeliveryAssumption, Lengths DEF TypeOK, HandLen
<1>h. worker \in {"calling", "streaming"} => hand \in Events /\ HandLen = 1
  BY DEF TypeOK, HandIsFilled, HandLen
<1>e. << >> \in Seq(Events) /\ Len(<< >>) = 0
  BY EmptySeq
<1>1. CASE WorkerReceives
  <2>1. queue \in Seq(Events) /\ queue # << >> /\ hand = None
        /\ queue' = Tail(queue) /\ hand' = Head(queue)
    BY <1>1 DEF WorkerReceives, TypeOK, HandIsFilled
  <2>2. hand' \in Events /\ queue' \in Seq(Events)
        /\ Len(queue) = Len(queue') + 1 /\ Len(queue') \in Nat
    BY <2>1, Lengths
  <2>3. hand' # None /\ HandLen' = 1 /\ HandLen = 0
    BY <2>1, <2>2 DEF Events, None, HandLen
  <2>4. Len(queue') <= Capacity
    BY <2>2, <1>t, CapacityIsEnough DEF TypeOK
  <2>5. TypeOK'
    BY <1>1, <2>2, <2>4
    DEF WorkerReceives, TypeOK, readerVars, consumerVars, Capacity
  <2>6. HandIsFilled' /\ EndIsFinal' /\ BurstFits'
    BY <1>1, <2>3 DEF WorkerReceives, HandIsFilled, EndIsFinal, BurstFits,
                      readerVars, consumerVars
  <2>7. Accounting'
    BY <1>1, <2>2, <2>3, <1>t
    DEF WorkerReceives, Accounting, Accounted, readerVars, consumerVars
  <2>8. QED
    BY <2>5, <2>6, <2>7
<1>2. CASE CallbackReturns
  <2>1. called' \in Seq(Events)
    BY <1>2, <1>h, Lengths DEF CallbackReturns, TypeOK
  <2>2. TypeOK'
    BY <1>2, <2>1 DEF CallbackReturns, TypeOK, readerVars, consumerVars,
                       Capacity
  <2>3. HandIsFilled' /\ EndIsFinal' /\ BurstFits'
    BY <1>2 DEF CallbackReturns, HandIsFilled, EndIsFinal, BurstFits,
                readerVars, consumerVars
  <2>4. Accounting'
    BY <1>2 DEF CallbackReturns, Accounting, Accounted, HandLen, readerVars,
                consumerVars
  <2>5. QED
    BY <2>2, <2>3, <2>4
<1>3. CASE StreamAccepts
  <2>1. hand \in Events /\ HandLen = 1 /\ stream \in Seq(Events)
        /\ stream' = Append(stream, hand) /\ Len(stream) < EventBuffer
    BY <1>3, <1>h DEF StreamAccepts, TypeOK
  <2>2. stream' \in Seq(Events) /\ Len(stream') = Len(stream) + 1
        /\ Len(stream') <= EventBuffer
    BY <2>1, <1>t, Lengths, DeliveryAssumption
  <2>3. worker' = "receiving" /\ hand' = None /\ HandLen' = 0
    BY <1>3, HandEmptiedType DEF StreamAccepts
  <2>4. TypeOK'
    BY <1>3, <2>2, <2>3
    DEF StreamAccepts, TypeOK, readerVars, consumerVars, Capacity
  <2>5. HandIsFilled' /\ EndIsFinal' /\ BurstFits'
    BY <1>3, <2>3 DEF StreamAccepts, HandIsFilled, EndIsFinal, BurstFits,
                      readerVars, consumerVars
  <2>6. Accounting'
    BY <1>3, <2>1, <2>2, <2>3, <1>t
    DEF StreamAccepts, Accounting, Accounted, readerVars, consumerVars
  <2>7. QED
    BY <2>4, <2>5, <2>6
<1>4. CASE StreamOverflows
  <2>1. HandLen = 1 /\ Len(stream) = EventBuffer /\ dropped' = dropped + 1
    BY <1>4, <1>h DEF StreamOverflows, CountDrop
  <2>2. worker' = "receiving" /\ hand' = None /\ HandLen' = 0
    BY <1>4, HandEmptiedType DEF StreamOverflows
  <2>3. Accounting'
    BY <1>4, <2>1, <2>2, <1>t
    DEF StreamOverflows, Accounting, Accounted, readerVars, consumerVars
  <2>4. dropped' \in 0 .. MaxEvents /\ EventBuffer < offered
    BY <2>1, <1>t, DeliveryAssumption DEF Accounting, Accounted, TypeOK
  <2>5. TypeOK'
    BY <1>4, <2>2, <2>4
    DEF StreamOverflows, TypeOK, readerVars, consumerVars, Capacity
  <2>6. HandIsFilled' /\ EndIsFinal'
    BY <1>4, <2>2 DEF StreamOverflows, HandIsFilled, EndIsFinal, readerVars,
                      consumerVars
  <2>7. BurstFits'
    BY <1>4, <2>4, <1>t, DeliveryAssumption
    DEF StreamOverflows, BurstFits, readerVars
  <2>8. QED
    BY <2>3, <2>5, <2>6, <2>7
<1>5. CASE StreamClosed
  <2>1. HandLen = 1 /\ consumer = "gone"
    BY <1>5, <1>h DEF StreamClosed, EndIsFinal
  <2>2. worker' = "receiving" /\ hand' = None /\ HandLen' = 0
    BY <1>5, HandEmptiedType DEF StreamClosed
  <2>3. TypeOK'
    BY <1>5, <2>2 DEF StreamClosed, TypeOK, readerVars, consumerVars, Capacity
  <2>4. HandIsFilled' /\ EndIsFinal' /\ BurstFits'
    BY <1>5, <2>1, <2>2 DEF StreamClosed, HandIsFilled, EndIsFinal,
                            BurstFits, readerVars, consumerVars
  <2>5. Accounting'
    BY <1>5, <2>1, <2>2, <1>t
    DEF StreamClosed, Accounting, Accounted, readerVars, consumerVars
  <2>6. QED
    BY <2>3, <2>4, <2>5
<1>6. CASE WorkerEnds
  <2>1. TypeOK' /\ BurstFits'
    BY <1>6 DEF WorkerEnds, TypeOK, BurstFits, readerVars, consumerVars,
                Capacity
  <2>2. HandIsFilled' /\ EndIsFinal'
    BY <1>6 DEF WorkerEnds, NoSenderLeft, HandIsFilled, EndIsFinal,
                readerVars, consumerVars
  <2>3. Accounting'
    BY <1>6 DEF WorkerEnds, Accounting, Accounted, HandLen, readerVars,
                consumerVars
  <2>4. QED
    BY <2>1, <2>2, <2>3
<1>7. CASE WorkerCancelled
  <2>1. called' \in Seq(Events)
    BY <1>7, <1>h, Lengths DEF WorkerCancelled, TypeOK
  <2>2. Len(queue') = 0 /\ HandLen' = 0 /\ queue' \in Seq(Events)
    BY <1>7, <1>e DEF WorkerCancelled, HandLen
  <2>3. Len(queue') <= Capacity
    BY <2>2, CapacityIsEnough
  <2>4. TypeOK'
    BY <1>7, <2>1, <2>2, <2>3
    DEF WorkerCancelled, TypeOK, readerVars, consumerVars, Capacity
  <2>5. HandIsFilled' /\ EndIsFinal' /\ BurstFits'
    BY <1>7 DEF WorkerCancelled, HandIsFilled, EndIsFinal, BurstFits,
                readerVars, consumerVars
  <2>6. Accounting'
    BY <1>7, <2>2, <1>t
    DEF WorkerCancelled, Accounting, Accounted, readerVars, consumerVars
  <2>7. QED
    BY <2>4, <2>5, <2>6
<1>8. QED
  BY <1>1, <1>2, <1>3, <1>4, <1>5, <1>6, <1>7 DEF WorkerStep

\* So does an abort, a step of the consumer, and a stutter.
LEMMA OthersKeepIInv ==
    IInv /\ (Abort \/ ConsumerStep \/ UNCHANGED vars) => IInv'
<1> SUFFICES ASSUME IInv, Abort \/ ConsumerStep \/ UNCHANGED vars PROVE IInv'
  OBVIOUS
<1> USE DEF IInv
<1>t. offered \in Nat /\ batch \in Nat /\ dropped \in Nat
      /\ Len(queue) \in Nat /\ Len(stream) \in Nat /\ Len(received) \in Nat
      /\ HandLen \in Nat
  BY DeliveryAssumption, Lengths DEF TypeOK, HandLen
<1>1. CASE Abort
  <2>1. TypeOK' /\ HandIsFilled' /\ EndIsFinal' /\ BurstFits'
    BY <1>1 DEF Abort, TypeOK, HandIsFilled, EndIsFinal, BurstFits,
                readerVars, consumerVars, Capacity
  <2>2. Accounting'
    BY <1>1 DEF Abort, Accounting, Accounted, HandLen, readerVars,
                consumerVars
  <2>3. QED
    BY <2>1, <2>2
<1>2. CASE ConsumerReceives
  <2>1. stream \in Seq(Events) /\ stream # << >> /\ received \in Seq(Events)
        /\ stream' = Tail(stream) /\ received' = Append(received, Head(stream))
    BY <1>2 DEF ConsumerReceives, TypeOK
  <2>2. stream' \in Seq(Events) /\ received' \in Seq(Events)
        /\ Len(stream) = Len(stream') + 1 /\ Len(stream') \in Nat
        /\ Len(received') = Len(received) + 1
    BY <2>1, Lengths
  <2>3. Len(stream') <= EventBuffer
    BY <2>2, <1>t, DeliveryAssumption DEF TypeOK
  <2>4. TypeOK'
    BY <1>2, <2>2, <2>3
    DEF ConsumerReceives, TypeOK, readerVars, workerVars, Capacity
  <2>5. HandIsFilled' /\ EndIsFinal' /\ BurstFits'
    BY <1>2 DEF ConsumerReceives, HandIsFilled, EndIsFinal, BurstFits,
                readerVars, workerVars
  <2>6. HandLen' = HandLen
    BY <1>2 DEF ConsumerReceives, HandLen, workerVars
  <2>7. Accounted' = Accounted /\ offered' = offered
    BY <1>2, <2>2, <2>6, <1>t
    DEF ConsumerReceives, Accounted, readerVars
  <2>8. Accounting'
    BY <1>2, <2>7 DEF ConsumerReceives, Accounting, workerVars
  <2>9. QED
    BY <2>4, <2>5, <2>8
<1>3. CASE ConsumerLeaves
  <2>1. stream' = << >> /\ stream' \in Seq(Events) /\ Len(stream') = 0
    BY <1>3, EmptySeq DEF ConsumerLeaves
  <2>2. TypeOK'
    BY <1>3, <2>1, DeliveryAssumption
    DEF ConsumerLeaves, TypeOK, readerVars, workerVars, Capacity
  <2>3. HandIsFilled' /\ EndIsFinal' /\ BurstFits'
    BY <1>3 DEF ConsumerLeaves, HandIsFilled, EndIsFinal, BurstFits,
                readerVars, workerVars
  <2>4. Accounting'
    BY <1>3, <2>1, <1>t
    DEF ConsumerLeaves, Accounting, Accounted, HandLen, readerVars, workerVars
  <2>5. QED
    BY <2>2, <2>3, <2>4
<1>4. CASE UNCHANGED vars
  <2>1. TypeOK' /\ HandIsFilled' /\ EndIsFinal' /\ BurstFits'
    BY <1>4 DEF vars, TypeOK, HandIsFilled, EndIsFinal, BurstFits,
                readerVars, workerVars, consumerVars, Capacity
  <2>2. Accounting'
    BY <1>4 DEF vars, Accounting, Accounted, HandLen, readerVars, workerVars,
                consumerVars
  <2>3. QED
    BY <2>1, <2>2
<1>5. QED
  BY <1>1, <1>2, <1>3, <1>4 DEF ConsumerStep
-----------------------------------------------------------------------------
(***************************************************************************)
(* The pipeline implements the FIFO with counted losses.  What the queue,  *)
(* the worker and the stream hold is one sequence; a step that moves an    *)
(* event from one to the next leaves that sequence as it is.               *)
(***************************************************************************)
\* A sequence made of two is cut where the two meet.
LEMMA CutConcat ==
    ASSUME NEW S, NEW s \in Seq(S), NEW t \in Seq(S)
    PROVE  /\ SubSeq(s \o t, 1, Len(s)) = s
           /\ SubSeq(s \o t, Len(s) + 1, Len(s) + Len(t)) = t
<1>1. /\ Len(s) \in Nat /\ Len(t) \in Nat
      /\ s \o t \in Seq(S) /\ Len(s \o t) = Len(s) + Len(t)
      /\ \A i \in 1 .. Len(s) + Len(t) : (s \o t)[i] =
            IF i <= Len(s) THEN s[i] ELSE t[i - Len(s)]
  BY ConcatProperties, LenProperties
<1> DEFINE u == s \o t
<1> HIDE DEF u
<1>2. /\ u \in Seq(S) /\ Len(u) = Len(s) + Len(t)
      /\ \A i \in 1 .. Len(s) : u[i] = s[i]
      /\ \A i \in 1 .. Len(t) : u[Len(s) + i] = t[i]
  BY <1>1 DEF u
<1>3. \A i \in 1 .. Len(u) : u[i] \in S
  BY <1>2, ElementOfSeq
<1>4. SubSeq(u, 1, Len(s)) = s
  <2>1. \A i \in 1 .. Len(s) : u[i] \in S
    BY <1>1, <1>2, <1>3
  <2>2. /\ SubSeq(u, 1, Len(s)) \in Seq(S)
        /\ Len(SubSeq(u, 1, Len(s))) =
              IF 1 <= Len(s) THEN Len(s) - 1 + 1 ELSE 0
        /\ \A i \in 1 .. Len(s) - 1 + 1 :
              SubSeq(u, 1, Len(s))[i] = u[1 + i - 1]
    BY <1>1, <2>1, SubSeqProperties
  <2>3. Len(SubSeq(u, 1, Len(s))) = Len(s)
    BY <1>1, <2>2
  <2>4. \A i \in 1 .. Len(s) : SubSeq(u, 1, Len(s))[i] = s[i]
    BY <1>1, <1>2, <2>2
  <2>5. QED
    BY <2>2, <2>3, <2>4, SeqEqual
<1>5. SubSeq(u, Len(s) + 1, Len(s) + Len(t)) = t
  <2> DEFINE v == SubSeq(u, Len(s) + 1, Len(s) + Len(t))
  <2>1. \A i \in Len(s) + 1 .. Len(s) + Len(t) : u[i] \in S
    BY <1>1, <1>2, <1>3
  <2>2. /\ v \in Seq(S)
        /\ Len(v) = IF Len(s) + 1 <= Len(s) + Len(t)
                    THEN Len(s) + Len(t) - (Len(s) + 1) + 1 ELSE 0
        /\ \A i \in 1 .. Len(s) + Len(t) - (Len(s) + 1) + 1 :
              v[i] = u[Len(s) + 1 + i - 1]
    BY <1>1, <2>1, SubSeqProperties
  <2> HIDE DEF v
  <2>3. Len(v) = Len(t)
    BY <1>1, <2>2
  <2>4. ASSUME NEW i \in 1 .. Len(t)
        PROVE  v[i] = t[i]
    <3>1. Len(s) + 1 + i - 1 = Len(s) + i
          /\ i \in 1 .. Len(s) + Len(t) - (Len(s) + 1) + 1
      BY <1>1
    <3>2. v[i] = u[Len(s) + 1 + i - 1]
      BY <2>2, <3>1
    <3>3. QED
      BY <1>2, <3>1, <3>2
  <2>5. v = t
    BY <2>2, <2>3, <2>4, SeqEqual
  <2>6. QED
    BY <2>5 DEF v
<1>6. QED
  BY <1>4, <1>5 DEF u

\* The first event of a sequence moves to the end of the one before it.
LEMMA PassFirst ==
    ASSUME NEW S, NEW t \in Seq(S), t # << >>
    PROVE  /\ t = <<Head(t)>> \o Tail(t)
           /\ \A s \in Seq(S) : s \o t = Append(s, Head(t)) \o Tail(t)
<1>1. /\ Head(t) \in S /\ Tail(t) \in Seq(S)
      /\ Len(Tail(t)) = Len(t) - 1
      /\ \A i \in 1 .. Len(Tail(t)) : Tail(t)[i] = t[i + 1]
      /\ Len(t) \in Nat \ {0}
  BY HeadTailProperties, EmptySeq
<1>2. Head(t) = t[1]
  OBVIOUS
<1> DEFINE h == Head(t)
           r == Tail(t)
           one == <<h>>
<1>3. one \in Seq(S) /\ Len(one) = 1 /\ one[1] = h
  BY <1>1
<1> HIDE DEF h, r, one
<1>4. /\ one \o r \in Seq(S)
      /\ Len(one \o r) = Len(one) + Len(r)
      /\ \A i \in 1 .. Len(one) + Len(r) : (one \o r)[i] =
            IF i <= Len(one) THEN one[i] ELSE r[i - Len(one)]
  BY <1>1, <1>3, ConcatProperties DEF r
<1>5. Len(one \o r) = Len(t)
  BY <1>1, <1>3, <1>4 DEF r
<1>6. ASSUME NEW i \in 1 .. Len(t)
      PROVE  (one \o r)[i] = t[i]
  <2>1. CASE i = 1
    BY <1>1, <1>2, <1>3, <1>4, <1>5, <2>1 DEF h
  <2>2. CASE i # 1
    <3>1. i - 1 \in 1 .. Len(Tail(t)) /\ (i - 1) + 1 = i
      BY <1>1, <2>2
    <3>2. (one \o r)[i] = r[i - 1]
      BY <1>1, <1>3, <1>4, <1>5, <2>2
    <3>3. r[i - 1] = t[(i - 1) + 1]
      BY <1>1, <3>1 DEF r
    <3>4. QED
      BY <3>1, <3>2, <3>3
  <2>3. QED
    BY <2>1, <2>2
<1>7. t = one \o r
  BY <1>4, <1>5, <1>6, SeqEqual
<1>8. ASSUME NEW s \in Seq(S)
      PROVE  s \o t = Append(s, h) \o r
  <2>1. Append(s, h) = s \o one
    BY <1>1, AppendIsConcat DEF h, one
  <2>2. (s \o one) \o r = s \o (one \o r)
    BY <1>1, <1>3, ConcatAssociative DEF r
  <2>3. QED
    BY <1>7, <2>1, <2>2
<1>9. QED
  BY <1>7, <1>8 DEF h, r, one

\* Taking from the front of a sequence takes from the front of what it begins.
LEMMA TakeFirst ==
    ASSUME NEW S, NEW s \in Seq(S), NEW t \in Seq(S), s # << >>
    PROVE  /\ s \o t # << >>
           /\ Head(s \o t) = Head(s)
           /\ Tail(s \o t) = Tail(s) \o t
<1>1. Head(s) \in S /\ Tail(s) \in Seq(S) /\ s = <<Head(s)>> \o Tail(s)
  BY HeadTailProperties, PassFirst
<1> DEFINE h == Head(s)
           r == Tail(s) \o t
<1>2. <<h>> \in Seq(S) /\ r \in Seq(S)
  BY <1>1, ConcatProperties
<1>3. s \o t = <<h>> \o r
  BY <1>1, <1>2, ConcatAssociative
<1>4. <<h>> \o r # << >>
  BY <1>2, ConcatEqualIffEmpty
<1>5. Head(<<h>> \o r) = h /\ Tail(<<h>> \o r) = r
  <2> HIDE DEF h, r
  <2>0. Len(<<h>>) = 1 /\ <<h>>[1] = h /\ Len(r) \in Nat
    BY <1>2
  <2> DEFINE one == <<h>>
  <2> HIDE DEF one
  <2>1. /\ one \o r \in Seq(S)
        /\ Len(one \o r) = 1 + Len(r)
        /\ \A i \in 1 .. 1 + Len(r) : (one \o r)[i] =
              IF i <= 1 THEN one[i] ELSE r[i - 1]
    BY <1>2, <2>0, ConcatProperties DEF one
  <2> DEFINE w == one \o r
  <2> HIDE DEF w
  <2>2. w \in Seq(S) /\ w # << >> /\ Len(w) = 1 + Len(r)
    BY <1>4, <2>1 DEF w, one
  <2>3. /\ Tail(w) \in Seq(S) /\ Len(Tail(w)) = Len(w) - 1
        /\ \A i \in 1 .. Len(Tail(w)) : Tail(w)[i] = w[i + 1]
    BY <2>2, HeadTailProperties
  <2>4. Head(w) = h
    BY <2>0, <2>1, <2>2 DEF w, one
  <2>5. ASSUME NEW i \in 1 .. Len(r) PROVE Tail(w)[i] = r[i]
    <3>1. Tail(w)[i] = w[i + 1] /\ i + 1 \in 1 .. 1 + Len(r)
          /\ (i + 1) - 1 = i
      BY <2>0, <2>2, <2>3
    <3>2. w[i + 1] = r[(i + 1) - 1]
      BY <2>0, <2>1, <3>1 DEF w
    <3>3. QED
      BY <3>1, <3>2
  <2>6. Tail(w) = r
    BY <1>2, <2>0, <2>2, <2>3, <2>5, SeqEqual
  <2>7. QED
    BY <2>4, <2>6 DEF w, one
<1>6. QED
  BY <1>3, <1>4, <1>5
\* Three sequences in a row make one, however they are grouped.
LEMMA Regroup ==
    \A s, t, u \in Seq(Events) : (s \o t) \o u = s \o (t \o u)
BY ConcatAssociative

\* What every step below uses: the pieces on the way are sequences of events.
LEMMA Pieces ==
    TypeOK =>
           /\ stream \in Seq(Events) /\ InHand \in Seq(Events)
           /\ queue \in Seq(Events) /\ received \in Seq(Events)
           /\ stream \o InHand \in Seq(Events) /\ InHand \o queue \in Seq(Events)
           /\ InFlight \in Seq(Events) /\ Travelling \in Seq(Events)
           /\ InFlight = stream \o (InHand \o queue)
<1> HAVE TypeOK
<1>1. << >> \in Seq(Events) /\ InHand \in Seq(Events)
  BY EmptySeq DEF TypeOK, InHand
<1>2. /\ stream \o InHand \in Seq(Events) /\ InHand \o queue \in Seq(Events)
      /\ InFlight \in Seq(Events)
  BY <1>1, ConcatProperties DEF TypeOK, InFlight
<1>3. InFlight = stream \o (InHand \o queue)
  <2>1. stream \in Seq(Events) /\ queue \in Seq(Events)
    BY DEF TypeOK
  <2>2. (stream \o InHand) \o queue = stream \o (InHand \o queue)
    BY <1>1, <2>1, Regroup
  <2>3. QED
    BY <2>2 DEF InFlight
<1>4. QED
  BY <1>1, <1>2, <1>3 DEF TypeOK, Travelling

\* A sequence is its own longest prefix and has the empty one.
LEMMA Prefixes ==
    ASSUME NEW s \in Seq(Events)
    PROVE  /\ Len(s) \in 0 .. Len(s) /\ s = SubSeq(s, 1, Len(s))
           /\ 0 \in 0 .. Len(s) /\ << >> = SubSeq(s, 1, 0)
BY SubSeqFull, SubSeqEmpty, LenProperties

\* A step that leaves what the consumer can tell as it is stutters.
Stutters == UNCHANGED <<offered, Travelling, received, dropped, IsOpen>>

\* The reader's steps: an event enters the FIFO, overflows, or vanishes.
LEMMA ReaderRefines ==
    ASSUME IInv, IInv', ReaderStep
    PROVE  Fifo!Next \/ Stutters
<1> USE DEF IInv
<1>t. offered \in Nat /\ batch \in Nat /\ dropped \in Nat
  BY DeliveryAssumption DEF TypeOK
<1>p. TypeOK
  OBVIOUS
<1>1. CASE Decode \/ ReaderEnds
  BY <1>1 DEF Decode, ReaderEnds, Stutters, Travelling, InFlight, InHand,
              IsOpen, workerVars, consumerVars
<1>2. CASE Offer
  <2>1. /\ offered < MaxEvents /\ offered' = offered + 1
        /\ offered + 1 \in Events
        /\ UNCHANGED <<received, IsOpen, InHand, stream, consumer>>
    BY <1>2, <1>t, DeliveryAssumption
    DEF Offer, TypeOK, IsOpen, InHand, Events, workerVars, consumerVars
  <2>2. CASE QueueHasRoom
    <3>1. queue' = Append(queue, offered + 1) /\ dropped' = dropped
      BY <1>2, <2>2 DEF Offer, Enqueued
    <3>2. CASE consumer = "present"
      <4>1. queue' = queue \o <<offered + 1>>
            /\ <<offered + 1>> \in Seq(Events)
        BY <2>1, <3>1, AppendIsConcat DEF TypeOK
      <4>2. (stream \o InHand) \o (queue \o <<offered + 1>>)
               = InFlight \o <<offered + 1>>
        <5>1. stream \o InHand \in Seq(Events) /\ queue \in Seq(Events)
          BY <1>p, Pieces
        <5>2. QED
          BY <4>1, <5>1, Regroup DEF InFlight
      <4>3. InFlight' = Append(InFlight, offered + 1)
        BY <1>p, <2>1, <4>1, <4>2, Pieces, AppendIsConcat DEF InFlight
      <4>4. Fifo!Offer
        BY <2>1, <3>1, <3>2, <4>3 DEF Fifo!Offer, Travelling
      <4>5. QED
        BY <4>4 DEF Fifo!Next
    <3>3. CASE consumer # "present"
      <4>1. Travelling = << >> /\ Travelling' = << >> /\ ~IsOpen
        BY <2>1, <3>3 DEF Travelling, IsOpen
      <4>2. offered' \in offered .. MaxEvents
        BY <2>1, <1>t, DeliveryAssumption
      <4>3. Fifo!Vanish
        BY <2>1, <3>1, <4>1, <4>2, <1>p, Pieces, Prefixes DEF Fifo!Vanish
      <4>4. QED
        BY <4>3 DEF Fifo!Next
    <3>4. QED
      BY <3>2, <3>3
  <2>3. CASE ~QueueHasRoom
    <3>1. queue' = queue /\ dropped' = dropped + 1
      BY <1>2, <2>3 DEF Offer, CountDrop
    <3>2. Travelling' = Travelling
      BY <2>1, <3>1 DEF Travelling, InFlight
    <3>3. Fifo!Offer
      BY <2>1, <3>1, <3>2 DEF Fifo!Offer
    <3>4. QED
      BY <3>3 DEF Fifo!Next
  <2>4. QED
    BY <2>2, <2>3
<1>3. CASE OfferClosed
  <2>1. ~IsOpen /\ offered' \in offered .. MaxEvents
    BY <1>3, <1>t, DeliveryAssumption
    DEF OfferClosed, EndIsFinal, TypeOK, IsOpen
  <2>2. /\ UNCHANGED <<Travelling, received, dropped, IsOpen>>
        /\ Travelling \in Seq(Events)
    BY <1>3, <1>p, Pieces DEF OfferClosed, Travelling, InFlight, InHand,
                              IsOpen, workerVars, consumerVars
  <2>3. Fifo!Vanish
    BY <2>1, <2>2, Prefixes DEF Fifo!Vanish
  <2>4. QED
    BY <2>3 DEF Fifo!Next
<1>4. QED
  BY <1>1, <1>2, <1>3 DEF ReaderStep

\* The worker's steps: an event is passed on within the FIFO, overflows from
\* its middle, or what is behind the stream vanishes with the worker.
LEMMA WorkerRefines ==
    ASSUME IInv, IInv', WorkerStep
    PROVE  Fifo!Next \/ Stutters
<1> USE DEF IInv
<1>p. TypeOK
  OBVIOUS
<1>h. worker \in {"calling", "streaming"} => hand \in Events /\ hand # None
  BY DEF TypeOK, HandIsFilled
<1>e. InHand' \in Seq(Events) /\ (hand' = None => InHand' = << >>)
  BY EmptySeq DEF TypeOK, InHand
<1>1. CASE WorkerReceives
  <2>1. /\ hand = None /\ queue # << >> /\ hand' = Head(queue)
        /\ queue' = Tail(queue) /\ Head(queue) \in Events
        /\ UNCHANGED <<offered, stream, received, dropped, consumer, aborted>>
    BY <1>1, <1>p, Pieces, HeadTailProperties
    DEF WorkerReceives, HandIsFilled, readerVars, consumerVars
  <2>2. InHand = << >> /\ InHand' = <<Head(queue)>>
    BY <2>1 DEF InHand, Events, None
  <2>3. stream \o InHand = stream
    BY <2>2, <1>p, Pieces, ConcatEmptySeq
  <2>4. stream \o InHand' = Append(stream, Head(queue))
    BY <2>1, <2>2, <1>p, Pieces, AppendIsConcat
  <2>5. stream \o queue = Append(stream, Head(queue)) \o Tail(queue)
    BY <2>1, <1>p, Pieces, PassFirst
  <2>6. InFlight' = InFlight
    BY <2>1, <2>3, <2>4, <2>5 DEF InFlight
  <2>7. QED
    BY <2>1, <2>6 DEF Stutters, Travelling, IsOpen
<1>2. CASE CallbackReturns \/ WorkerEnds
  BY <1>2 DEF CallbackReturns, WorkerEnds, Stutters, Travelling, InFlight,
              InHand, IsOpen, readerVars, consumerVars
<1>3. CASE StreamAccepts
  <2>1. /\ InHand = <<hand>> /\ hand \in Events /\ InHand' = << >>
        /\ stream' = Append(stream, hand)
        /\ UNCHANGED <<offered, queue, received, dropped, consumer, aborted>>
    BY <1>3, <1>h, <1>e DEF StreamAccepts, HandEmptied, InHand, readerVars,
                            consumerVars
  <2>2. stream' = stream \o InHand /\ stream' \in Seq(Events)
    BY <2>1, <1>p, Pieces, AppendIsConcat, AppendProperties
  <2>3. stream' \o InHand' = stream'
    BY <2>1, <2>2, ConcatEmptySeq
  <2>4. InFlight' = InFlight
    BY <2>1, <2>2, <2>3 DEF InFlight
  <2>5. QED
    BY <2>1, <2>4 DEF Stutters, Travelling, IsOpen
<1>4. CASE StreamOverflows
  <2>1. /\ InHand = <<hand>> /\ hand \in Events /\ InHand' = << >>
        /\ dropped' = dropped + 1 /\ consumer = "present"
        /\ UNCHANGED <<offered, stream, queue, received, consumer, aborted>>
    BY <1>4, <1>h, <1>e DEF StreamOverflows, HandEmptied, CountDrop, InHand,
                            readerVars, consumerVars
  <2> DEFINE front == stream \o InHand
             i == Len(stream) + 1
  <2>2. /\ Len(stream) \in Nat /\ Len(queue) \in Nat
        /\ front \in Seq(Events) /\ Len(front) = i
        /\ InFlight = front \o queue
        /\ Len(InFlight) = i + Len(queue)
    BY <2>1, <1>p, Pieces, ConcatProperties, LenProperties DEF InFlight
  <2>3. SubSeq(InFlight, i + 1, Len(InFlight)) = queue
    BY <2>2, <1>p, Pieces, CutConcat
  <2>4. SubSeq(InFlight, 1, i - 1) = stream
    <3>1. /\ InFlight = stream \o (InHand \o queue)
          /\ SubSeq(stream \o (InHand \o queue), 1, Len(stream)) = stream
      BY <1>p, Pieces, CutConcat
    <3>2. i - 1 = Len(stream)
      BY <2>2
    <3>3. QED
      BY <3>1, <3>2
  <2>5. InFlight' = stream \o queue
    <3>1. stream \o << >> = stream
      BY <1>p, Pieces, ConcatEmptySeq
    <3>2. QED
      BY <2>1, <3>1 DEF InFlight
  <2>6. Travelling' = Fifo!RemoveAt(Travelling, i)
    BY <2>1, <2>3, <2>4, <2>5 DEF Travelling, Fifo!RemoveAt
  <2>7. i \in DOMAIN Travelling
    BY <2>1, <2>2, <1>p, Pieces, LenProperties DEF Travelling
  <2>8. Fifo!Overflow
    BY <2>1, <2>6, <2>7 DEF Fifo!Overflow, IsOpen
  <2>9. QED
    BY <2>8 DEF Fifo!Next
<1>5. CASE StreamClosed
  <2>1. consumer = "gone" /\ consumer' = "gone"
    BY <1>5 DEF StreamClosed, EndIsFinal, consumerVars
  <2>2. QED
    BY <1>5, <2>1 DEF StreamClosed, Stutters, Travelling, IsOpen, readerVars,
                      consumerVars
<1>6. CASE WorkerCancelled
  <2>1. /\ aborted /\ queue' = << >> /\ InHand' = << >>
        /\ UNCHANGED <<offered, stream, received, dropped, consumer, aborted>>
    BY <1>6, <1>e DEF WorkerCancelled, readerVars, consumerVars
  <2>2. ~IsOpen /\ IsOpen' = IsOpen
    BY <2>1 DEF IsOpen
  <2>3. offered' \in offered .. MaxEvents
    BY <2>1, DeliveryAssumption DEF TypeOK
  <2>4. \E n \in 0 .. Len(Travelling) : Travelling' = SubSeq(Travelling, 1, n)
    <3>1. CASE consumer = "present"
      <4>1. Travelling' = stream
        BY <2>1, <3>1, <1>p, Pieces, ConcatEmptySeq DEF Travelling, InFlight
      <4>2. Travelling = stream \o (InHand \o queue)
        BY <3>1, <1>p, Pieces DEF Travelling
      <4>3. /\ SubSeq(Travelling, 1, Len(stream)) = stream
            /\ Len(stream) \in 0 .. Len(Travelling)
        BY <4>2, <1>p, Pieces, CutConcat, ConcatProperties, LenProperties
      <4>4. QED
        BY <4>1, <4>3
    <3>2. CASE consumer # "present"
      BY <2>1, <3>2, <1>p, Pieces, Prefixes DEF Travelling
    <3>3. QED
      BY <3>1, <3>2
  <2>5. Fifo!Vanish
    BY <2>1, <2>2, <2>3, <2>4 DEF Fifo!Vanish
  <2>6. QED
    BY <2>5 DEF Fifo!Next
<1>7. QED
  BY <1>1, <1>2, <1>3, <1>4, <1>5, <1>6 DEF WorkerStep

\* The steps of the client and of the consumer: an abort shuts the FIFO with
\* everything still in it, the consumer takes its first event or leaves.
LEMMA OthersRefine ==
    ASSUME IInv, IInv', Abort \/ ConsumerStep \/ UNCHANGED vars
    PROVE  Fifo!Next \/ Stutters
<1> USE DEF IInv
<1>p. TypeOK
  OBVIOUS
<1>1. CASE Abort
  <2>1. /\ ~aborted /\ aborted'
        /\ UNCHANGED <<offered, Travelling, received, dropped, consumer>>
    BY <1>1 DEF Abort, Travelling, InFlight, InHand, readerVars, consumerVars
  <2>2. CASE consumer = "present"
    <3>1. IsOpen /\ IsOpen' = FALSE
      BY <2>1, <2>2 DEF IsOpen
    <3>2. Fifo!Shut
      BY <2>1, <3>1, <1>p, Pieces, Prefixes DEF Fifo!Shut
    <3>3. QED
      BY <3>2 DEF Fifo!Next
  <2>3. CASE consumer # "present"
    BY <2>1, <2>3 DEF Stutters, IsOpen
  <2>4. QED
    BY <2>2, <2>3
<1>2. CASE ConsumerReceives
  <2>1. /\ consumer = "present" /\ stream # << >>
        /\ received' = Append(received, Head(stream)) /\ stream' = Tail(stream)
        /\ UNCHANGED <<offered, queue, InHand, dropped, consumer, IsOpen>>
    BY <1>2 DEF ConsumerReceives, InHand, IsOpen, readerVars, workerVars
  <2> DEFINE rest == InHand \o queue
  <2>2. /\ InFlight = stream \o rest /\ InFlight' = Tail(stream) \o rest
        /\ rest \in Seq(Events)
    <3>1. Tail(stream) \in Seq(Events)
      BY <2>1, <1>p, Pieces, HeadTailProperties
    <3>p. InHand \in Seq(Events) /\ queue \in Seq(Events)
      BY <1>p, Pieces
    <3>2. (Tail(stream) \o InHand) \o queue = Tail(stream) \o rest
      BY <3>1, <3>p, Regroup
    <3>3. QED
      BY <2>1, <3>2, <1>p, Pieces DEF InFlight
  <2>3. /\ InFlight # << >> /\ Head(InFlight) = Head(stream)
        /\ Tail(InFlight) = Tail(stream) \o rest
    BY <2>1, <2>2, <1>p, Pieces, TakeFirst
  <2>4. Fifo!Receive
    BY <2>1, <2>2, <2>3 DEF Fifo!Receive, Travelling
  <2>5. QED
    BY <2>4 DEF Fifo!Next
<1>3. CASE ConsumerLeaves
  <2>1. /\ consumer = "present" /\ consumer' = "gone" /\ ~IsOpen'
        /\ Travelling' = << >>
        /\ UNCHANGED <<offered, received, dropped>>
    BY <1>3 DEF ConsumerLeaves, Travelling, IsOpen, readerVars
  <2>2. \E n \in 0 .. Len(Travelling) : Travelling' = SubSeq(Travelling, 1, n)
    BY <2>1, <1>p, Pieces, Prefixes
  <2>3. CASE IsOpen
    <3>1. Fifo!Shut
      BY <2>1, <2>2, <2>3 DEF Fifo!Shut, IsOpen
    <3>2. QED
      BY <3>1 DEF Fifo!Next
  <2>4. CASE ~IsOpen
    <3>1. offered' \in offered .. MaxEvents
      BY <2>1, DeliveryAssumption DEF TypeOK
    <3>2. Fifo!Vanish
      BY <2>1, <2>2, <2>4, <3>1 DEF Fifo!Vanish, IsOpen
    <3>3. QED
      BY <3>2 DEF Fifo!Next
  <2>5. QED
    BY <2>3, <2>4
<1>4. CASE UNCHANGED vars
  BY <1>4 DEF vars, Stutters, Travelling, InFlight, InHand, IsOpen,
              readerVars, workerVars, consumerVars
<1>5. QED
  BY <1>1, <1>2, <1>3, <1>4 DEF ConsumerStep

\* start_event_delivery starts with an empty FIFO.
LEMMA InitRefines == Init => Fifo!Init
<1>1. << >> \o << >> = << >>
  BY EmptySeq, ConcatEmptySeq
<1>2. QED
  BY <1>1 DEF Init, Fifo!Init, Travelling, InFlight, InHand, IsOpen

\* Every step of the pipeline is a step of the FIFO or stutters.
LEMMA StepRefines ==
    ASSUME IInv, IInv', [Next]_vars
    PROVE  Fifo!Next \/ Stutters
BY ReaderRefines, WorkerRefines, OthersRefine DEF Next

-----------------------------------------------------------------------------
(***************************************************************************)
(* Order.  A sequence made of two is in order when both are and the first  *)
(* precedes the second.                                                    *)
(***************************************************************************)
Precedes(s, t) == \A x \in Range(s), y \in Range(t) : x < y

\* What a sequence made of two holds, and when it is in order.
LEMMA OrderOfConcat ==
    ASSUME NEW s \in Seq(Events), NEW t \in Seq(Events)
    PROVE  /\ Range(s \o t) = Range(s) \cup Range(t)
           /\ InOrder(s \o t) <=> InOrder(s) /\ InOrder(t) /\ Precedes(s, t)
<1>1. Range(s \o t) = Range(s) \cup Range(t)
  BY RangeConcatenation
<1>2. /\ Len(s) \in Nat /\ Len(t) \in Nat
      /\ DOMAIN s = 1 .. Len(s) /\ DOMAIN t = 1 .. Len(t)
      /\ s \o t \in Seq(Events) /\ Len(s \o t) = Len(s) + Len(t)
      /\ \A i \in 1 .. Len(s) + Len(t) : (s \o t)[i] =
            IF i <= Len(s) THEN s[i] ELSE t[i - Len(s)]
  BY ConcatProperties, LenProperties
<1> DEFINE u == s \o t
<1> HIDE DEF u
<1>3. /\ DOMAIN u = 1 .. Len(s) + Len(t)
      /\ \A i \in 1 .. Len(s) : u[i] = s[i]
      /\ \A i \in 1 .. Len(t) : u[Len(s) + i] = t[i]
  BY <1>2, LenProperties DEF u
<1>4. ASSUME InOrder(u)
      PROVE  InOrder(s) /\ InOrder(t) /\ Precedes(s, t)
  <2>1. InOrder(s)
    BY <1>2, <1>3, <1>4 DEF InOrder
  <2>2. InOrder(t)
    <3> SUFFICES ASSUME NEW i \in 1 .. Len(t), NEW j \in 1 .. Len(t), i < j
                 PROVE  t[i] < t[j]
      BY <1>2 DEF InOrder
    <3>1. /\ Len(s) + i \in DOMAIN u /\ Len(s) + j \in DOMAIN u
          /\ Len(s) + i < Len(s) + j
      BY <1>2, <1>3
    <3>2. u[Len(s) + i] < u[Len(s) + j]
      BY <1>4, <3>1 DEF InOrder
    <3>3. QED
      BY <1>3, <3>2
  <2>3. Precedes(s, t)
    <3> SUFFICES ASSUME NEW i \in 1 .. Len(s), NEW j \in 1 .. Len(t)
                 PROVE  s[i] < t[j]
      BY <1>2 DEF Precedes, Range
    <3>1. /\ i \in DOMAIN u /\ Len(s) + j \in DOMAIN u
          /\ i < Len(s) + j
      BY <1>2, <1>3
    <3>2. u[i] < u[Len(s) + j]
      BY <1>4, <3>1 DEF InOrder
    <3>3. QED
      BY <1>3, <3>2
  <2>4. QED
    BY <2>1, <2>2, <2>3
<1>5. ASSUME InOrder(s), InOrder(t), Precedes(s, t)
      PROVE  InOrder(u)
  <2> SUFFICES ASSUME NEW i \in 1 .. Len(s) + Len(t),
                      NEW j \in 1 .. Len(s) + Len(t), i < j
               PROVE  u[i] < u[j]
    BY <1>3 DEF InOrder
  <2>1. CASE j <= Len(s)
    BY <1>2, <1>3, <1>5, <2>1 DEF InOrder
  <2>2. CASE i <= Len(s) /\ j > Len(s)
    <3>1. i \in DOMAIN s /\ j - Len(s) \in DOMAIN t
          /\ Len(s) + (j - Len(s)) = j
      BY <1>2, <2>2
    <3>2. s[i] < t[j - Len(s)]
      BY <1>5, <3>1 DEF Precedes, Range
    <3>3. QED
      BY <1>2, <1>3, <2>2, <3>1, <3>2
  <2>3. CASE i > Len(s)
    <3>1. /\ i - Len(s) \in DOMAIN t /\ j - Len(s) \in DOMAIN t
          /\ i - Len(s) < j - Len(s)
          /\ Len(s) + (i - Len(s)) = i /\ Len(s) + (j - Len(s)) = j
      BY <1>2, <2>3
    <3>2. t[i - Len(s)] < t[j - Len(s)]
      BY <1>5, <3>1 DEF InOrder
    <3>3. u[i] = t[i - Len(s)] /\ u[j] = t[j - Len(s)]
      BY <1>2, <1>3, <3>1
    <3>4. QED
      BY <3>2, <3>3
  <2>4. QED
    BY <1>2, <2>1, <2>2, <2>3
<1>6. QED
  BY <1>1, <1>4, <1>5 DEF u

\* One event, and none.
LEMMA OrderOfOne ==
    ASSUME NEW e \in Events
    PROVE  /\ <<e>> \in Seq(Events) /\ Range(<<e>>) = {e} /\ InOrder(<<e>>)
           /\ Range(<< >>) = {} /\ InOrder(<< >>)
BY DEF Range, InOrder

\* The next event decoded goes to the end of what is in order.
LEMMA OrderWithNext ==
    ASSUME NEW s \in Seq(Events), NEW n \in Nat, n + 1 \in Events,
           InOrder(s), UpTo(s, n)
    PROVE  /\ InOrder(s \o <<n + 1>>) /\ UpTo(s \o <<n + 1>>, n + 1)
           /\ Range(s \o <<n + 1>>) = Range(s) \cup {n + 1}
<1> DEFINE e == n + 1
           one == <<e>>
<1>1. one \in Seq(Events) /\ Range(one) = {e} /\ InOrder(one)
  BY OrderOfOne
<1>2. \A x \in Range(s) : x \in Nat /\ x <= n
  <2>1. Range(s) \subseteq Events
    BY RangeOfSeq
  <2>2. Events \subseteq Nat
    BY DeliveryAssumption DEF Events
  <2>3. QED
    BY <2>1, <2>2 DEF UpTo
<1>3. Precedes(s, one)
  BY <1>1, <1>2 DEF Precedes
<1> HIDE DEF one
<1>4. Range(s \o one) = Range(s) \cup {e} /\ InOrder(s \o one)
  BY <1>1, <1>3, OrderOfConcat
<1>5. UpTo(s \o one, e)
  BY <1>2, <1>4 DEF UpTo
<1>6. QED
  BY <1>4, <1>5 DEF one

\* One event taken out of the middle of what is in order.
LEMMA OrderWithoutOne ==
    ASSUME NEW s \in Seq(Events), NEW t \in Seq(Events), NEW e \in Events,
           InOrder(s \o (<<e>> \o t))
    PROVE  /\ InOrder(s \o t)
           /\ Range(s \o (<<e>> \o t)) = Range(s \o t) \cup {e}
<1> DEFINE one == <<e>>
           r == one \o t
<1>1. one \in Seq(Events) /\ Range(one) = {e}
  BY OrderOfOne
<1> HIDE DEF one
<1>2. /\ r \in Seq(Events) /\ Range(r) = {e} \cup Range(t)
      /\ InOrder(r) => InOrder(t)
  BY <1>1, OrderOfConcat, ConcatProperties
<1> HIDE DEF r
<1>3. /\ InOrder(s \o r) /\ InOrder(s) /\ InOrder(r) /\ Precedes(s, r)
      /\ Range(s \o r) = Range(s) \cup Range(r)
  BY <1>2, OrderOfConcat DEF r, one
<1>4. Precedes(s, t)
  BY <1>2, <1>3 DEF Precedes
<1>5. InOrder(s \o t) /\ Range(s \o t) = Range(s) \cup Range(t)
  BY <1>2, <1>3, <1>4, OrderOfConcat
<1>6. QED
  BY <1>2, <1>3, <1>5 DEF r, one

\* What is left of a sequence in order when its end is cut off.
LEMMA OrderOfPrefix ==
    ASSUME NEW s \in Seq(Events), NEW t \in Seq(Events), InOrder(s \o t)
    PROVE  InOrder(s) /\ Range(s) \subseteq Range(s \o t)
BY OrderOfConcat

\* The pieces behind Line and Taken.
LEMMA MorePieces ==
    ASSUME TypeOK
    PROVE  /\ Awaiting \in Seq(Events) /\ Line \in Seq(Events)
           /\ Taken \in Seq(Events)
           /\ received \o stream \in Seq(Events)
           /\ (worker # "streaming" =>
                  Awaiting = InHand \o queue /\ Taken = received \o stream)
           /\ (worker = "streaming" =>
                  Awaiting = queue /\ Taken = (received \o stream) \o InHand)
<1>1. /\ << >> \in Seq(Events) /\ InHand \in Seq(Events)
      /\ queue \in Seq(Events) /\ received \o stream \in Seq(Events)
      /\ called \in Seq(Events) /\ InHand \o queue \in Seq(Events)
  BY EmptySeq, Pieces, ConcatProperties DEF TypeOK
<1>2. CASE worker = "streaming"
  <2>1. Awaiting = queue /\ Taken = (received \o stream) \o InHand
    BY <1>1, <1>2, ConcatEmptySeq DEF Awaiting, Taken, CallbackIsOver
  <2>2. Line \in Seq(Events) /\ Taken \in Seq(Events)
    BY <1>1, <2>1, ConcatProperties DEF Line
  <2>3. QED
    BY <1>1, <1>2, <2>1, <2>2
<1>3. CASE worker # "streaming"
  <2>1. Awaiting = InHand \o queue /\ Taken = received \o stream
    BY <1>1, <1>3, ConcatEmptySeq DEF Awaiting, Taken, CallbackIsOver
  <2>2. Line \in Seq(Events)
    BY <1>1, <2>1, ConcatProperties DEF Line
  <2>3. QED
    BY <1>1, <1>3, <2>1, <2>2
<1>4. QED
  BY <1>2, <1>3

\* What a step does to a sequence of events on their way: the next event
\* joins it, one that the callers do not mind loses its place, its end is cut
\* off, or nothing.  The number of events offered only grows.
Grows(s, u, n, m) == m = n + 1 /\ m \in Events /\ u = s \o <<n + 1>>
Thins(s, u, lost) ==
    \E a, b \in Seq(Events), e \in lost : s = a \o (<<e>> \o b) /\ u = a \o b
Shortens(s, u)    == u \in Seq(Events) /\ \E t \in Seq(Events) : s = u \o t
Moves(s, u, n, m, lost) ==
    /\ m \in Nat /\ n <= m
    /\ Grows(s, u, n, m) \/ u = s \/ Thins(s, u, lost) \/ Shortens(s, u)

\* None of these disturbs the order.
LEMMA MoveKeepsOrder ==
    ASSUME NEW s \in Seq(Events), NEW u, NEW n \in Nat, NEW m,
           NEW lost \in SUBSET Events, Moves(s, u, n, m, lost),
           InOrder(s), UpTo(s, n)
    PROVE  InOrder(u) /\ UpTo(u, m)
<1>0. m \in Nat /\ n <= m /\ \A x \in Range(s) : x \in Nat
  <2>1. Range(s) \subseteq Events /\ Events \subseteq Nat
    BY RangeOfSeq, DeliveryAssumption DEF Events
  <2>2. QED
    BY <2>1 DEF Moves
<1>1. CASE Grows(s, u, n, m)
  BY <1>1, OrderWithNext DEF Grows
<1>2. CASE u = s
  BY <1>0, <1>2 DEF UpTo
<1>3. CASE Thins(s, u, lost)
  <2>1. PICK a \in Seq(Events), b \in Seq(Events), e \in lost :
           s = a \o (<<e>> \o b) /\ u = a \o b
    BY <1>3 DEF Thins
  <2>2. InOrder(u) /\ Range(s) = Range(u) \cup {e}
    BY <2>1, OrderWithoutOne
  <2>3. QED
    BY <1>0, <2>2 DEF UpTo
<1>4. CASE Shortens(s, u)
  <2>1. PICK t \in Seq(Events) : u \in Seq(Events) /\ s = u \o t
    BY <1>4 DEF Shortens
  <2>2. InOrder(u) /\ Range(u) \subseteq Range(s)
    BY <2>1, OrderOfPrefix
  <2>3. QED
    BY <1>0, <2>2 DEF UpTo
<1>5. QED
  BY <1>1, <1>2, <1>3, <1>4 DEF Moves

\* Where an event is taken out of a sequence.
LEMMA RemoveSplits ==
    ASSUME NEW t \in Seq(Events), NEW i \in DOMAIN t
    PROVE  \E a, b \in Seq(Events) :
              /\ t = a \o (<<t[i]>> \o b) /\ t[i] \in Events
              /\ Fifo!RemoveAt(t, i) = a \o b
<1> DEFINE a == SubSeq(t, 1, i - 1)
           b == SubSeq(t, i + 1, Len(t))
<1>1. i \in 1 .. Len(t) /\ Len(t) \in Nat /\ \A k \in 1 .. Len(t) : t[k] \in Events
  BY LenProperties, ElementOfSeq
<1>2. a \in Seq(Events) /\ b \in Seq(Events)
  BY <1>1, SubSeqProperties
<1>3. a \o SubSeq(t, (i - 1) + 1, Len(t)) = SubSeq(t, 1, Len(t))
  <2>1. /\ 1 \in 1 .. Len(t) + 1 /\ i - 1 \in 1 - 1 .. Len(t)
        /\ Len(t) \in i - 1 .. Len(t)
    BY <1>1
  <2>2. QED
    BY <2>1, ConcatAdjacentSubSeq
<1>4. (i - 1) + 1 = i /\ SubSeq(t, 1, Len(t)) = t
  BY <1>1, SubSeqFull
<1>5. SubSeq(t, i, Len(t)) = <<t[i]>> \o b
  <2>1. i \in 1 .. Len(t) /\ Len(t) \in i .. Len(t)
    BY <1>1
  <2>2. QED
    BY <2>1, SubSeqRecursiveFirst
<1>6. Fifo!RemoveAt(t, i) = a \o b
  BY DEF Fifo!RemoveAt
<1> HIDE DEF a, b
<1>7. t = a \o (<<t[i]>> \o b)
  BY <1>3, <1>4, <1>5
<1>8. QED
  BY <1>1, <1>2, <1>6, <1>7

\* Of what the consumer has and may still get.
LEMMA FifoMoves ==
    ASSUME IInv, IInv', [Next]_vars
    PROVE  Moves(received \o Travelling, (received \o Travelling)',
                 offered, offered', Events)
<1> DEFINE t == Travelling
           F == received \o Travelling
<1>0. /\ TypeOK /\ TypeOK' /\ received \in Seq(Events) /\ t \in Seq(Events)
      /\ received' \in Seq(Events) /\ t' \in Seq(Events)
      /\ offered \in Nat /\ offered' \in Nat
      /\ F \in Seq(Events) /\ F' \in Seq(Events)
  <2>1. TypeOK /\ TypeOK'
    BY DEF IInv
  <2>2. received \in Seq(Events) /\ t \in Seq(Events)
    BY <2>1, Pieces
  <2>3. received' \in Seq(Events) /\ t' \in Seq(Events)
    <3>1. /\ InHand' \in Seq(Events) /\ stream' \in Seq(Events)
          /\ queue' \in Seq(Events) /\ received' \in Seq(Events)
      BY <2>1, EmptySeq DEF TypeOK, InHand
    <3>2. << >> \in Seq(Events) /\ InFlight' \in Seq(Events)
      BY <3>1, EmptySeq, ConcatProperties DEF InFlight
    <3>3. QED
      BY <3>1, <3>2 DEF Travelling
  <2>4. offered \in Nat /\ offered' \in Nat
    BY <2>1, DeliveryAssumption DEF TypeOK
  <2>5. QED
    BY <2>1, <2>2, <2>3, <2>4, ConcatProperties
<1>1. CASE Stutters
  BY <1>0, <1>1 DEF Stutters, Moves
<1>2. CASE Fifo!Offer
  <2>1. offered + 1 \in Events /\ offered' = offered + 1 /\ received' = received
    BY <1>0, <1>2, DeliveryAssumption DEF Fifo!Offer, Events
  <2>2. CASE t' = Append(t, offered + 1)
    <3>1. t' = t \o <<offered + 1>> /\ <<offered + 1>> \in Seq(Events)
      BY <1>0, <2>1, <2>2, AppendIsConcat
    <3>2. F' = F \o <<offered + 1>>
      BY <1>0, <2>1, <3>1, Regroup
    <3>3. QED
      BY <1>0, <2>1, <3>2 DEF Moves, Grows
  <2>3. CASE t' = t
    BY <1>0, <2>1, <2>3 DEF Moves
  <2>4. QED
    BY <1>2, <2>2, <2>3 DEF Fifo!Offer
<1>3. CASE Fifo!Overflow
  <2>1. PICK i \in DOMAIN t : t' = Fifo!RemoveAt(t, i)
    BY <1>3 DEF Fifo!Overflow
  <2>2. PICK a \in Seq(Events), b \in Seq(Events) :
           /\ t = a \o (<<t[i]>> \o b) /\ t[i] \in Events
           /\ t' = a \o b
    BY <1>0, <2>1, RemoveSplits
  <2>3. received' = received /\ offered' = offered
    BY <1>3 DEF Fifo!Overflow
  <2> DEFINE e == t[i]
  <2>4. <<e>> \o b \in Seq(Events) /\ received \o a \in Seq(Events)
    BY <1>0, <2>2, OrderOfOne, ConcatProperties
  <2> HIDE DEF e
  <2>5. /\ received \o (a \o (<<e>> \o b)) = (received \o a) \o (<<e>> \o b)
        /\ received \o (a \o b) = (received \o a) \o b
    <3>1. received \in Seq(Events) /\ <<e>> \o b \in Seq(Events)
      BY <1>0, <2>4
    <3>2. QED
      BY <3>1, Regroup
  <2>6. F = (received \o a) \o (<<e>> \o b) /\ F' = (received \o a) \o b
    BY <2>2, <2>3, <2>5 DEF e
  <2>7. Thins(F, F', Events)
    BY <2>2, <2>4, <2>6 DEF Thins, e
  <2>8. QED
    BY <1>0, <2>3, <2>7 DEF Moves
<1>4. CASE Fifo!Receive
  <2>1. /\ t # << >> /\ received' = Append(received, Head(t)) /\ t' = Tail(t)
        /\ offered' = offered
    BY <1>4 DEF Fifo!Receive
  <2>2. F' = F
    BY <1>0, <2>1, PassFirst
  <2>3. QED
    BY <1>0, <2>1, <2>2 DEF Moves
<1>5. CASE Fifo!Shut \/ Fifo!Vanish
  <2>1. PICK n \in 0 .. Len(t) : t' = SubSeq(t, 1, n)
    BY <1>5 DEF Fifo!Shut, Fifo!Vanish
  <2>2. received' = received /\ offered <= offered'
    BY <1>0, <1>5 DEF Fifo!Shut, Fifo!Vanish
  <2> DEFINE b == SubSeq(t, n + 1, Len(t))
  <2>3. Len(t) \in Nat /\ \A k \in 1 .. Len(t) : t[k] \in Events
    BY <1>0, LenProperties, ElementOfSeq
  <2>4. b \in Seq(Events)
    BY <2>3, SubSeqProperties
  <2>5. SubSeq(t, 1, n) \o b = SubSeq(t, 1, Len(t))
    <3>1. /\ 1 \in 1 .. Len(t) + 1 /\ n \in 1 - 1 .. Len(t)
          /\ Len(t) \in n .. Len(t)
      BY <2>3
    <3>2. QED
      BY <1>0, <3>1, ConcatAdjacentSubSeq
  <2> HIDE DEF b
  <2>6. t = t' \o b
    BY <1>0, <2>1, <2>5, SubSeqFull
  <2>7. F = F' \o b
    <3>1. received \in Seq(Events) /\ t' \in Seq(Events)
      BY <1>0
    <3>2. received \o (t' \o b) = (received \o t') \o b
      BY <2>4, <3>1, Regroup
    <3>3. QED
      BY <2>2, <2>6, <3>2
  <2>8. Shortens(F, F')
    BY <1>0, <2>4, <2>7 DEF Shortens
  <2>9. QED
    BY <1>0, <2>2, <2>8 DEF Moves
<1>6. QED
  BY <1>1, <1>2, <1>3, <1>4, <1>5, StepRefines DEF Fifo!Next

\* Nothing is taken back: a drop that was counted, an abort, a consumer that
\* has left, the policy.
LEMMA NothingIsTakenBack ==
    ASSUME IInv, [Next]_vars
    PROVE  /\ dropped' = 0 => dropped = 0
           /\ ~aborted' => ~aborted
           /\ consumer' = "present" => consumer = "present"
           /\ policy' = policy
<1>1. dropped \in Nat
  BY DeliveryAssumption DEF IInv, TypeOK
<1>2. CASE ReaderStep
  BY <1>1, <1>2 DEF ReaderStep, Decode, Offer, OfferClosed, ReaderEnds,
                    CountDrop, workerVars, consumerVars
<1>3. CASE WorkerStep
  BY <1>1, <1>3 DEF WorkerStep, WorkerReceives, CallbackReturns,
                    StreamAccepts, StreamOverflows, StreamClosed, WorkerEnds,
                    WorkerCancelled, CountDrop, consumerVars
<1>4. CASE Abort \/ ConsumerStep \/ UNCHANGED vars
  BY <1>4 DEF Abort, ConsumerStep, ConsumerReceives, ConsumerLeaves, vars,
              workerVars, consumerVars
<1>5. QED
  BY <1>2, <1>3, <1>4 DEF Next

\* Of what callbacks were or may still be run for: an event is taken out of
\* the line only when its symbol has no callback, or when the worker is
\* aborted; an event that is offered joins it, unless it is counted as dropped
\* or delivery was shut down.
LineMove ==
    /\ offered' \in Nat /\ offered <= offered'
    /\ \/ Grows(Line, Line', offered, offered')
       \/ Line' = Line /\ (offered' = offered \/ dropped' # 0 \/ aborted')
       \/ offered' = offered /\ Thins(Line, Line', Events \ Watched)
       \/ offered' = offered /\ aborted' /\ Shortens(Line, Line')

LEMMA LineMoves ==
    ASSUME IInv, IInv', [Next]_vars
    PROVE  LineMove
<1> USE DEF IInv
<1>p. TypeOK
  OBVIOUS
<1>t. /\ offered \in Nat /\ offered' \in Nat /\ dropped \in Nat
      /\ called \in Seq(Events) /\ queue \in Seq(Events)
      /\ InHand \in Seq(Events) /\ Awaiting \in Seq(Events)
      /\ Line \in Seq(Events) /\ Line = called \o Awaiting
  BY <1>p, Pieces, MorePieces, DeliveryAssumption DEF TypeOK, Line
<1>h. worker \in {"calling", "streaming"} =>
         hand \in Events /\ InHand = <<hand>> /\ InHand \in Seq(Events)
  BY <1>t DEF TypeOK, HandIsFilled, InHand
<1>s. \A s \in Seq(Events) : s \o << >> = s /\ << >> \o s = s
  BY ConcatEmptySeq
<1>1. CASE \/ Decode \/ ReaderEnds \/ WorkerEnds \/ Abort \/ ConsumerStep
           \/ UNCHANGED vars
  <2>1. /\ UNCHANGED <<offered, called, hand, queue>>
        /\ (worker = "streaming") = (worker' = "streaming")
    BY <1>1 DEF Decode, ReaderEnds, WorkerEnds, Abort, ConsumerStep,
                ConsumerReceives, ConsumerLeaves, vars, readerVars, workerVars
  <2>2. Line' = Line
    BY <2>1 DEF Line, Awaiting, CallbackIsOver, InHand
  <2>3. QED
    BY <2>1, <2>2, <1>t DEF LineMove
<1>2. CASE Offer
  <2>1. /\ UNCHANGED <<called, worker, InHand>>
        /\ offered' = offered + 1 /\ offered + 1 \in Events
    BY <1>2, <1>t, DeliveryAssumption
    DEF Offer, TypeOK, Events, InHand, workerVars
  <2>2. CASE QueueHasRoom
    <3> DEFINE x == IF CallbackIsOver THEN << >> ELSE InHand
               one == <<offered + 1>>
    <3>0. queue' = Append(queue, offered + 1) /\ queue \in Seq(Events)
      BY <1>2, <1>t, <2>2 DEF Offer, Enqueued
    <3>1. queue' = queue \o one /\ one \in Seq(Events)
      BY <3>0, <2>1, AppendIsConcat
    <3>2. x' = x /\ x \in Seq(Events)
      BY <1>t, <2>1, EmptySeq DEF CallbackIsOver
    <3>3. Awaiting = x \o queue /\ Awaiting' = x \o queue'
      BY <2>1 DEF Awaiting, CallbackIsOver
    <3> HIDE DEF x, one
    <3>4. x \o (queue \o one) = (x \o queue) \o one
      BY <1>t, <3>1, <3>2, Regroup
    <3>5. called \o (Awaiting \o one) = (called \o Awaiting) \o one
      <4>1. called \in Seq(Events) /\ Awaiting \in Seq(Events)
        BY <1>t
      <4>2. QED
        BY <3>1, <4>1, Regroup
    <3>6. Line' = Line \o one
      BY <2>1, <3>1, <3>3, <3>4, <3>5 DEF Line
    <3>7. QED
      BY <2>1, <3>6, <1>t DEF LineMove, Grows, one
  <2>3. CASE ~QueueHasRoom
    <3>1. queue' = queue /\ dropped' = dropped + 1
      BY <1>2, <2>3 DEF Offer, CountDrop
    <3>2. Line' = Line
      BY <2>1, <3>1 DEF Line, Awaiting, CallbackIsOver
    <3>3. QED
      BY <2>1, <3>1, <3>2, <1>t DEF LineMove
  <2>4. QED
    BY <2>2, <2>3
<1>3. CASE OfferClosed
  <2>1. /\ UNCHANGED <<called, worker, hand, queue>>
        /\ offered <= offered' /\ aborted'
    BY <1>3, <1>t, DeliveryAssumption
    DEF OfferClosed, TypeOK, EndIsFinal, workerVars
  <2>2. Line' = Line
    BY <2>1 DEF Line, Awaiting, CallbackIsOver, InHand
  <2>3. QED
    BY <2>1, <2>2, <1>t DEF LineMove
<1>4. CASE WorkerReceives
  <2> DEFINE h == Head(queue)
             r == Tail(queue)
  <2>1. /\ hand = None /\ worker = "receiving" /\ queue # << >>
        /\ UNCHANGED <<offered, called>>
        /\ hand' = h /\ queue' = r
        /\ worker' = IF h \in Watched THEN "calling" ELSE "streaming"
    BY <1>4 DEF WorkerReceives, HandIsFilled, readerVars
  <2>2. /\ h \in Events /\ r \in Seq(Events) /\ <<h>> \in Seq(Events)
        /\ queue = <<h>> \o r
    BY <2>1, <1>t, HeadTailProperties, PassFirst
  <2>3. InHand = << >> /\ InHand' = <<h>>
    BY <2>1, <2>2 DEF InHand, Events, None
  <2>4. Awaiting = queue
    BY <2>1, <2>3, <1>t, <1>s DEF Awaiting, CallbackIsOver
  <2> HIDE DEF h, r
  <2>5. CASE h \in Watched
    <3>1. Awaiting' = Awaiting
      BY <2>1, <2>2, <2>3, <2>4, <2>5 DEF Awaiting, CallbackIsOver
    <3>2. QED
      BY <2>1, <3>1, <1>t DEF LineMove, Line
  <2>6. CASE h \notin Watched
    <3>1. Awaiting' = r
      BY <2>1, <2>2, <2>6, <1>s DEF Awaiting, CallbackIsOver
    <3>2. Line = called \o (<<h>> \o r) /\ Line' = called \o r
      BY <2>1, <2>2, <2>4, <3>1, <1>t DEF Line
    <3>3. Thins(Line, Line', Events \ Watched)
      BY <2>2, <2>6, <3>2, <1>t DEF Thins
    <3>4. QED
      BY <2>1, <3>3, <1>t DEF LineMove
  <2>7. QED
    BY <2>5, <2>6
<1>5. CASE CallbackReturns
  <2>1. /\ worker = "calling" /\ worker' = "streaming"
        /\ hand \in Events /\ called' = called \o InHand
        /\ UNCHANGED <<offered, queue>>
    BY <1>5, <1>h, <1>t, AppendIsConcat DEF CallbackReturns, readerVars
  <2>2. Awaiting = InHand \o queue /\ Awaiting' = queue
    BY <2>1, <1>t, <1>s DEF Awaiting, CallbackIsOver
  <2>3. Line' = Line
    BY <2>1, <2>2, <1>t, Regroup DEF Line
  <2>4. QED
    BY <2>1, <2>3, <1>t DEF LineMove
<1>6. CASE StreamAccepts \/ StreamOverflows \/ StreamClosed
  <2>1. /\ worker = "streaming" /\ worker' = "receiving" /\ hand' = None
        /\ UNCHANGED <<offered, called, queue>>
    BY <1>6 DEF StreamAccepts, StreamOverflows, StreamClosed, HandEmptied,
                readerVars
  <2>2. Awaiting = << >> \o queue /\ Awaiting' = << >> \o queue
    BY <2>1 DEF Awaiting, CallbackIsOver, InHand
  <2>3. QED
    BY <2>1, <2>2, <1>t DEF LineMove, Line
<1>7. CASE WorkerCancelled
  <2>1. /\ worker' = "ended" /\ hand' = None /\ queue' = << >>
        /\ aborted' /\ UNCHANGED offered
        /\ called' = IF worker = "calling" THEN Append(called, hand)
                     ELSE called
    BY <1>7 DEF WorkerCancelled, readerVars
  <2>2. Awaiting' = << >> \o << >>
    BY <2>1 DEF Awaiting, CallbackIsOver, InHand
  <2>3. called' \in Seq(Events) /\ Line' = called'
    <3>1. << >> \in Seq(Events) /\ called' \in Seq(Events)
      BY EmptySeq DEF TypeOK
    <3>2. QED
      BY <2>2, <3>1, <1>s DEF Line
  <2>4. \E t \in Seq(Events) : Line = called' \o t
    <3>1. CASE worker = "calling"
      <4>1. called' = called \o InHand /\ Awaiting = InHand \o queue
        BY <2>1, <3>1, <1>h, <1>t, AppendIsConcat DEF Awaiting, CallbackIsOver
      <4>2. InHand \in Seq(Events) /\ called \in Seq(Events)
            /\ queue \in Seq(Events)
        BY <1>t
      <4>3. called \o (InHand \o queue) = (called \o InHand) \o queue
        BY <4>2, Regroup
      <4>4. Line = called' \o queue
        BY <4>1, <4>3 DEF Line
      <4>5. QED
        BY <4>2, <4>4
    <3>2. CASE worker # "calling"
      BY <2>1, <3>2, <1>t
    <3>3. QED
      BY <3>1, <3>2
  <2>5. Shortens(Line, Line')
    BY <2>3, <2>4 DEF Shortens
  <2>6. QED
    BY <2>1, <2>5, <1>t DEF LineMove
<1>8. QED
  BY <1>1, <1>2, <1>3, <1>4, <1>5, <1>6, <1>7
  DEF Next, ReaderStep, WorkerStep

\* Callbacks are only run for the events of their symbols.
LEMMA CallsStayWatched ==
    ASSUME IInv, CallsAreWatched, [Next]_vars
    PROVE  CallsAreWatched'
<1>1. called \in Seq(Events) /\ (worker = "calling" => hand \in Events)
  BY DEF IInv, TypeOK, HandIsFilled
<1>2. CASE worker = "calling" /\ called' = Append(called, hand)
                              /\ worker' # "calling"
  <2>1. /\ called' = called \o <<hand>> /\ <<hand>> \in Seq(Events)
        /\ Range(<<hand>>) = {hand}
    BY <1>1, <1>2, AppendIsConcat, OrderOfOne
  <2>2. Range(called') = Range(called) \cup {hand}
    BY <2>1, <1>1, OrderOfConcat
  <2>3. QED
    BY <1>2, <2>2 DEF CallsAreWatched
<1>3. CASE called' = called /\ (worker' = "calling" => hand' \in Watched)
  BY <1>3 DEF CallsAreWatched
<1>4. \/ worker = "calling" /\ called' = Append(called, hand)
                            /\ worker' # "calling"
      \/ called' = called /\ (worker' = "calling" => hand' \in Watched)
  <2>1. CASE ReaderStep
    BY <2>1 DEF ReaderStep, Decode, Offer, OfferClosed, ReaderEnds,
                workerVars, CallsAreWatched
  <2>2. CASE WorkerStep
    BY <2>2 DEF WorkerStep, WorkerReceives, CallbackReturns, StreamAccepts,
                StreamOverflows, StreamClosed, WorkerEnds, WorkerCancelled,
                HandEmptied, CallsAreWatched
  <2>3. CASE Abort \/ ConsumerStep \/ UNCHANGED vars
    BY <2>3 DEF Abort, ConsumerStep, ConsumerReceives, ConsumerLeaves, vars,
                workerVars, CallsAreWatched
  <2>4. QED
    BY <2>1, <2>2, <2>3 DEF Next
<1>5. QED
  BY <1>2, <1>3, <1>4

\* Under Block, what is past its callback is what callbacks were run for: an
\* event goes through its callback before it goes to the stream, and is never
\* thrown away there.
LEMMA BlockStaysComplete ==
    ASSUME IInv, IInv', CallsAreWatched, BlockIsComplete, [Next]_vars
    PROVE  BlockIsComplete'
<1> SUFFICES ASSUME policy' = "Block", consumer' = "present", ~aborted'
             PROVE  Watched \cap Range(Taken') = Range(called')
  BY DEF BlockIsComplete
<1>p. TypeOK
  BY DEF IInv
<1>1. /\ policy = "Block" /\ consumer = "present" /\ ~aborted
      /\ Watched \cap Range(Taken) = Range(called)
  BY NothingIsTakenBack DEF BlockIsComplete
<1>t. /\ received \in Seq(Events) /\ stream \in Seq(Events)
      /\ called \in Seq(Events) /\ queue \in Seq(Events)
      /\ received \o stream \in Seq(Events)
      /\ Taken \in Seq(Events)
  BY <1>p, Pieces, MorePieces DEF TypeOK
<1>h. worker \in {"calling", "streaming"} =>
         hand \in Events /\ InHand = <<hand>>
  BY DEF IInv, TypeOK, HandIsFilled, InHand
<1>s. \A s \in Seq(Events) : s \o << >> = s
  BY ConcatEmptySeq
<1>k. \/ worker # "streaming" /\ Taken = received \o stream
      \/ worker = "streaming" /\ Taken = (received \o stream) \o InHand
  BY <1>p, MorePieces
<1>2. CASE \/ ReaderStep \/ WorkerEnds \/ UNCHANGED vars
  <2>1. /\ UNCHANGED <<received, stream, called, hand>>
        /\ (worker = "streaming") = (worker' = "streaming")
    BY <1>2 DEF ReaderStep, Decode, Offer, OfferClosed, ReaderEnds,
                WorkerEnds, vars, workerVars, consumerVars
  <2>2. Taken' = Taken
    BY <2>1 DEF Taken, CallbackIsOver, InHand
  <2>3. QED
    BY <1>1, <2>1, <2>2
<1>3. CASE Abort \/ ConsumerLeaves \/ WorkerCancelled \/ StreamClosed
           \/ StreamOverflows
  BY <1>1, <1>3 DEF Abort, ConsumerLeaves, WorkerCancelled, StreamClosed,
                    StreamOverflows, MayDrop, IInv, EndIsFinal
<1>4. CASE WorkerReceives
  <2> DEFINE h == Head(queue)
  <2>1. /\ worker = "receiving" /\ hand' = h /\ h \in Events
        /\ worker' = IF h \in Watched THEN "calling" ELSE "streaming"
        /\ UNCHANGED <<received, stream, called>>
    BY <1>4, <1>t, HeadTailProperties DEF WorkerReceives, consumerVars
  <2> HIDE DEF h
  <2>2. Taken = received \o stream
    BY <1>k, <2>1
  <2>3. CASE h \in Watched
    <3>1. Taken' = (received \o stream) \o << >>
      BY <2>1, <2>3 DEF Taken, CallbackIsOver
    <3>2. QED
      BY <1>1, <1>s, <1>t, <2>1, <2>2, <3>1
  <2>4. CASE h \notin Watched
    <3>1. Taken' = (received \o stream) \o <<h>>
      BY <2>1, <2>4 DEF Taken, CallbackIsOver, InHand, Events, None
    <3>2. Range(Taken') = Range(Taken) \cup {h}
      <4>1. <<h>> \in Seq(Events) /\ Range(<<h>>) = {h}
        BY <2>1, OrderOfOne
      <4>2. Taken \in Seq(Events) /\ Taken' = Taken \o <<h>>
        BY <1>t, <2>2, <3>1
      <4>3. Range(Taken \o <<h>>) = Range(Taken) \cup Range(<<h>>)
        BY <4>1, <4>2, OrderOfConcat
      <4>4. QED
        BY <4>1, <4>2, <4>3
    <3>3. QED
      BY <1>1, <2>1, <2>4, <3>2
  <2>5. QED
    BY <2>3, <2>4
<1>5. CASE CallbackReturns
  <2>1. /\ worker = "calling" /\ worker' = "streaming"
        /\ hand \in Events /\ hand \in Watched /\ InHand' = InHand
        /\ called' = Append(called, hand)
        /\ UNCHANGED <<received, stream>>
    BY <1>5, <1>h DEF CallbackReturns, CallsAreWatched, InHand, consumerVars
  <2>2. /\ <<hand>> \in Seq(Events) /\ Range(<<hand>>) = {hand}
        /\ called' = called \o <<hand>>
    BY <1>t, <2>1, OrderOfOne, AppendIsConcat
  <2>3. Taken = received \o stream
    BY <1>k, <2>1
  <2>4. Taken' = Taken \o <<hand>>
    BY <1>h, <2>1, <2>3 DEF Taken, CallbackIsOver
  <2>5. /\ Range(Taken') = Range(Taken) \cup {hand}
        /\ Range(called') = Range(called) \cup {hand}
    <3>1. Taken \in Seq(Events) /\ called \in Seq(Events)
      BY <1>t
    <3>2. /\ Range(Taken \o <<hand>>) = Range(Taken) \cup Range(<<hand>>)
          /\ Range(called \o <<hand>>) = Range(called) \cup Range(<<hand>>)
      BY <2>2, <3>1, OrderOfConcat
    <3>3. QED
      BY <2>2, <2>4, <3>2
  <2>6. QED
    BY <1>1, <2>1, <2>5
<1>6. CASE StreamAccepts
  <2>1. /\ worker = "streaming" /\ worker' = "receiving"
        /\ hand \in Events /\ InHand = <<hand>>
        /\ stream' = Append(stream, hand)
        /\ UNCHANGED <<received, called>>
    BY <1>6, <1>h DEF StreamAccepts, HandEmptied, consumerVars
  <2>2. stream' = stream \o InHand /\ InHand \in Seq(Events)
        /\ stream' \in Seq(Events)
    BY <1>t, <2>1, AppendIsConcat, AppendProperties
  <2>3. Taken' = (received \o stream') \o << >>
    BY <2>1 DEF Taken, CallbackIsOver
  <2>4. Taken' = received \o stream'
    BY <1>s, <1>t, <2>2, <2>3, ConcatProperties
  <2>5. received \o (stream \o InHand) = (received \o stream) \o InHand
    <3>1. received \in Seq(Events) /\ stream \in Seq(Events)
      BY <1>t
    <3>2. QED
      BY <2>2, <3>1, Regroup
  <2>6. Taken' = Taken
    BY <1>k, <2>1, <2>2, <2>4, <2>5
  <2>7. QED
    BY <1>1, <2>1, <2>6
<1>7. CASE ConsumerReceives
  <2>1. /\ stream # << >> /\ received' = Append(received, Head(stream))
        /\ stream' = Tail(stream)
        /\ UNCHANGED <<worker, InHand, called>>
    BY <1>7 DEF ConsumerReceives, InHand, workerVars
  <2>2. received' \o stream' = received \o stream
    BY <1>t, <2>1, PassFirst
  <2>3. Taken' = Taken
    BY <2>1, <2>2 DEF Taken, CallbackIsOver
  <2>4. QED
    BY <1>1, <2>1, <2>3
<1>8. QED
  BY <1>2, <1>3, <1>4, <1>5, <1>6, <1>7 DEF Next, WorkerStep, ConsumerStep

\* start_event_delivery starts with nothing offered.
LEMMA InitOrder == Init => OrderInv
<1> SUFFICES ASSUME Init PROVE OrderInv
  OBVIOUS
<1>1. /\ << >> \o << >> = << >> /\ Range(<< >>) = {} /\ InOrder(<< >>)
  BY EmptySeq, ConcatEmptySeq DEF Range, InOrder
<1>2. /\ Line = << >> /\ Taken = << >> /\ received \o Travelling = << >>
      /\ called = << >>
  BY <1>1 DEF Init, Line, Awaiting, Taken, Travelling, InFlight, InHand,
              CallbackIsOver
<1>3. 1 .. offered = {} /\ worker # "calling"
  BY DEF Init
<1>4. QED
  BY <1>1, <1>2, <1>3 DEF OrderInv, LineInOrder, FifoInOrder, CallsAreWatched,
                          LineIsComplete, BlockIsComplete, UpTo

\* Every step keeps what is delivered in order and complete.
LEMMA StepOrder ==
    ASSUME IInv, IInv', OrderInv, [Next]_vars
    PROVE  OrderInv'
<1> USE DEF OrderInv
<1>t. /\ offered \in Nat /\ Line \in Seq(Events)
      /\ received \o Travelling \in Seq(Events)
  <2>1. TypeOK
    BY DEF IInv
  <2>2. received \in Seq(Events) /\ Travelling \in Seq(Events)
        /\ Line \in Seq(Events)
    BY <2>1, Pieces, MorePieces
  <2>3. QED
    BY <2>1, <2>2, ConcatProperties, DeliveryAssumption DEF TypeOK
<1>1. FifoInOrder'
  <2>1. Moves(received \o Travelling, (received \o Travelling)',
              offered, offered', Events)
    BY FifoMoves
  <2>2. InOrder((received \o Travelling)')
        /\ UpTo((received \o Travelling)', offered')
    BY <1>t, <2>1, MoveKeepsOrder DEF FifoInOrder
  <2>3. QED
    BY <2>2 DEF FifoInOrder
<1>2. LineMove
  BY LineMoves
<1>3. LineInOrder'
  <2>1. Thins(Line, Line', Events \ Watched) => Thins(Line, Line', Events)
    BY DEF Thins
  <2>2. Moves(Line, Line', offered, offered', Events)
    BY <1>2, <2>1 DEF LineMove, Moves
  <2>3. InOrder(Line') /\ UpTo(Line', offered')
    BY <1>t, <2>2, MoveKeepsOrder DEF LineInOrder
  <2>4. QED
    BY <2>3 DEF LineInOrder
<1>4. CallsAreWatched'
  BY CallsStayWatched
<1>5. LineIsComplete'
  <2> SUFFICES ASSUME dropped' = 0, ~aborted'
               PROVE  Watched \cap 1 .. offered' \subseteq Range(Line')
    BY DEF LineIsComplete
  <2>1. Watched \cap 1 .. offered \subseteq Range(Line)
    BY NothingIsTakenBack DEF LineIsComplete
  <2>2. CASE Grows(Line, Line', offered, offered')
    <3>1. offered' = offered + 1 /\ offered + 1 \in Events
          /\ Line' = Line \o <<offered + 1>>
      BY <2>2 DEF Grows
    <3>2. Range(Line') = Range(Line) \cup {offered + 1}
      BY <1>t, <3>1, OrderWithNext DEF LineInOrder
    <3>3. 1 .. offered' = (1 .. offered) \cup {offered + 1}
      BY <1>t, <3>1
    <3>4. QED
      BY <2>1, <3>2, <3>3
  <2>3. CASE Line' = Line /\ offered' = offered
    BY <2>1, <2>3
  <2>4. CASE offered' = offered /\ Thins(Line, Line', Events \ Watched)
    <3>1. PICK a \in Seq(Events), b \in Seq(Events), e \in Events \ Watched :
             Line = a \o (<<e>> \o b) /\ Line' = a \o b
      BY <2>4 DEF Thins
    <3>2. Range(Line) = Range(Line') \cup {e}
      BY <3>1, OrderWithoutOne DEF LineInOrder
    <3>3. QED
      BY <2>1, <2>4, <3>2
  <2>5. QED
    BY <1>2, <2>2, <2>3, <2>4 DEF LineMove
<1>6. BlockIsComplete'
  BY BlockStaysComplete
<1>7. QED
  BY <1>1, <1>3, <1>4, <1>5, <1>6
-----------------------------------------------------------------------------
(***************************************************************************)
(* The theorems.                                                           *)
(***************************************************************************)
\* The inductive invariant holds in every reachable state.
THEOREM Invariance == Spec => []IInv
<1>1. Init => IInv
  BY InitIInv
<1>2. IInv /\ [Next]_vars => IInv'
  BY ReaderKeepsIInv, WorkerKeepsIInv, OthersKeepIInv DEF Next
<1>3. QED
  BY <1>1, <1>2, PTL DEF Spec

\* The state is well-typed: the queue and the stream stay within their
\* capacities, the counter within the events sent.
THEOREM TypeCorrect == Spec => []TypeOK
<1>1. IInv => TypeOK
  BY DEF IInv
<1>2. QED
  BY <1>1, Invariance, PTL

\* Every event is received, on its way or counted, while the consumer stays
\* and delivery is not shut down.
THEOREM LossAccounting == Spec => []LossesAreCounted
<1>1. IInv => LossesAreCounted
  <2> SUFFICES ASSUME IInv, consumer = "present", ~aborted
               PROVE  offered = Len(received) + Len(InFlight) + dropped
    BY DEF LossesAreCounted
  <2>1. /\ stream \in Seq(Events) /\ queue \in Seq(Events)
        /\ InHand \in Seq(Events) /\ Len(InHand) = HandLen
    <3>1. CASE hand = None
      BY <3>1, EmptySeq DEF IInv, TypeOK, InHand, HandLen
    <3>2. CASE hand # None
      BY <3>2 DEF IInv, TypeOK, InHand, HandLen
    <3>3. QED
      BY <3>1, <3>2
  <2>2. /\ stream \o InHand \in Seq(Events)
        /\ Len(stream \o InHand) = Len(stream) + HandLen
    BY <2>1, ConcatProperties
  <2>3. Len(InFlight) = Len(stream) + HandLen + Len(queue)
    BY <2>1, <2>2, ConcatProperties DEF InFlight
  <2>4. /\ Len(received) \in Nat /\ Len(stream) \in Nat /\ HandLen \in Nat
        /\ Len(queue) \in Nat /\ dropped \in Nat /\ offered \in Nat
    BY <2>1, Lengths, DeliveryAssumption DEF IInv, TypeOK, HandLen
  <2>5. QED
    BY <2>3, <2>4 DEF IInv, Accounting, Accounted
<1>2. QED
  BY <1>1, Invariance, PTL

\* A burst no larger than the event buffer loses nothing, whatever the
\* relation between the two capacities and whether or not anybody reads.
THEOREM NoLossInABurst == Spec => []BurstFits
<1>1. IInv => BurstFits
  BY DEF IInv
<1>2. QED
  BY <1>1, Invariance, PTL

\* The consumer sees a FIFO that loses nothing without counting it: events in
\* the order of decoding, none twice, and every missing one in
\* dropped_event_count() until it leaves or the client shuts delivery down.
THEOREM Refinement == Spec => ImplementsLossyFifo
<1>1. Init => Fifo!Init
  BY InitRefines
<1>2. IInv /\ IInv' /\ [Next]_vars => [Fifo!Next]_(Fifo!vars)
  <2> SUFFICES ASSUME IInv, IInv', [Next]_vars
               PROVE  [Fifo!Next]_(Fifo!vars)
    OBVIOUS
  <2>1. Fifo!Next \/ Stutters
    BY StepRefines
  <2>2. Stutters => UNCHANGED Fifo!vars
    BY DEF Stutters, Fifo!vars
  <2>3. QED
    BY <2>1, <2>2
<1>3. QED
  BY <1>1, <1>2, Invariance, PTL DEF Spec, ImplementsLossyFifo, Fifo!Spec

\* What was not dropped reaches every callback it has, once and in order, also
\* after the consumer has left; under Block the stream gets all of it.
THEOREM NothingIsLostSilently == Spec => []NothingElseIsLost
<1>1. Init => OrderInv
  BY InitOrder
<1>2. IInv /\ IInv' /\ OrderInv /\ [Next]_vars => OrderInv'
  BY StepOrder
<1>3. IInv /\ OrderInv => NothingElseIsLost
  <2> SUFFICES ASSUME IInv, OrderInv PROVE NothingElseIsLost
    OBVIOUS
  <2> USE DEF OrderInv
  <2>1. TypeOK
    BY DEF IInv
  <2>2. /\ Line = called \o Awaiting
        /\ called \in Seq(Events) /\ Awaiting \in Seq(Events)
    BY <2>1, MorePieces DEF TypeOK, Line
  <2>3. /\ InOrder(Line) /\ InOrder(called)
        /\ Range(Line) = Range(called) \cup Range(Awaiting)
    BY <2>2, OrderOfConcat DEF LineInOrder
  <2>4. CallbacksSeeEverything
    <3> SUFFICES ASSUME dropped = 0, ~aborted
                 PROVE  Range(called) \cup (Watched \cap Range(Awaiting))
                           = Watched \cap 1 .. offered
      BY <2>2, <2>3 DEF CallbacksSeeEverything
    <3>1. Watched \cap 1 .. offered \subseteq Range(Line)
      BY DEF LineIsComplete
    <3>2. Range(called) \subseteq Watched
      BY DEF CallsAreWatched
    <3>3. \A x \in Range(Line) : x \in 1 .. offered
      <4>1. Range(Line) \subseteq Events
        BY <2>1, MorePieces, RangeOfSeq
      <4>2. Events \subseteq Nat \ {0} /\ offered \in Nat
        BY <2>1, DeliveryAssumption DEF Events, TypeOK
      <4>3. \A x \in Range(Line) : x <= offered
        BY DEF LineInOrder, UpTo
      <4>4. ASSUME NEW x \in Range(Line)
            PROVE  x \in 1 .. offered
        <5>1. x \in Nat /\ x # 0 /\ x <= offered
          BY <4>1, <4>2, <4>3
        <5>2. QED
          BY <4>2, <5>1
      <4>5. QED
        BY <4>4
    <3>4. QED
      BY <2>3, <3>1, <3>2, <3>3
  <2>5. BlockStreamsEverything
    <3> SUFFICES ASSUME policy = "Block", consumer = "present", ~aborted
                 PROVE  InOrder(Taken)
      BY <2>3 DEF BlockStreamsEverything, BlockIsComplete
    <3>1. /\ received \in Seq(Events) /\ stream \in Seq(Events)
          /\ InHand \in Seq(Events) /\ queue \in Seq(Events)
          /\ received \o stream \in Seq(Events)
          /\ InHand \o queue \in Seq(Events)
          /\ (received \o stream) \o InHand \in Seq(Events)
          /\ InFlight = stream \o (InHand \o queue)
      BY <2>1, Pieces, MorePieces, ConcatProperties
    <3>2. received \o (stream \o (InHand \o queue))
             = (received \o stream) \o (InHand \o queue)
      <4>1. /\ received \in Seq(Events) /\ stream \in Seq(Events)
            /\ InHand \o queue \in Seq(Events)
        BY <3>1
      <4>2. QED
        BY <4>1, Regroup
    <3>3. (received \o stream) \o (InHand \o queue)
             = ((received \o stream) \o InHand) \o queue
      <4>1. /\ received \o stream \in Seq(Events) /\ InHand \in Seq(Events)
            /\ queue \in Seq(Events)
        BY <3>1
      <4>2. QED
        BY <4>1, Regroup
    <3>4. InOrder((received \o stream) \o (InHand \o queue))
      BY <3>1, <3>2 DEF FifoInOrder, Travelling
    <3>5. /\ InOrder(received \o stream)
          /\ InOrder((received \o stream) \o InHand)
      BY <3>1, <3>3, <3>4, OrderOfPrefix
    <3>6. QED
      BY <2>1, <3>5, MorePieces
  <2>6. QED
    BY <2>4, <2>5 DEF NothingElseIsLost
<1>4. QED
  BY <1>1, <1>2, <1>3, Invariance, PTL DEF Spec
=============================================================================
