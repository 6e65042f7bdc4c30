------------------------------ MODULE Delivery ------------------------------
(***************************************************************************)
(* The path of market events: the protocol reader hands decoded batches to *)
(* a bounded queue without ever waiting, the delivery worker takes them    *)
(* out, runs the callback of the symbol and feeds the bounded stream of    *)
(* the consumer, dropping or waiting when it is full (OverflowPolicy).     *)
(*                                                                         *)
(* An event is the number of its place in the order of decoding.           *)
(***************************************************************************)
EXTENDS Naturals, Sequences, Functions

CONSTANTS
    MaxEvents,      \* bound: events the server sends
    MaxBatch,       \* bound: events in one FEED_DATA message
    QueueFloor,     \* DELIVERY_QUEUE_CAPACITY
    EventBuffer,    \* with_event_buffer: capacity of the consumer's stream
    Policies,       \* the overflow policies to choose from: "Drop", "Block"
    Watched         \* events whose symbol has a callback (on_event)

ASSUME DeliveryAssumption ==
    /\ MaxEvents \in Nat
    /\ MaxBatch \in Nat
    /\ QueueFloor \in Nat \ {0}
    /\ EventBuffer \in Nat \ {0}
    /\ Policies \subseteq {"Drop", "Block"}
    /\ Watched \subseteq 1 .. MaxEvents

Events == 1 .. MaxEvents
None   == 0

VARIABLES
    policy,     \* with_overflow_policy, before connect
    offered,    \* events the reader has offered to the queue
    batch,      \* events of the current message it still has to offer
    reader,     \* "reading" or "ended": the senders of the queue
    queue,      \* the delivery queue
    worker,     \* where the delivery worker is
    aborted,    \* its JoinHandle was aborted, by disconnect or drop
    hand,       \* the event it is delivering
    sender,     \* whether it still holds event_sender
    stream,     \* the consumer's stream
    consumer,   \* "present" until it drops its receiver
    dropped,    \* dropped_event_count()
    called,     \* the events callbacks were run for
    received    \* the events the consumer received

readerVars   == <<offered, batch, reader>>
workerVars   == <<worker, aborted, hand, sender>>
consumerVars == <<consumer, received>>
vars == <<policy, readerVars, queue, workerVars, stream, consumerVars, dropped,
          called>>

\* max(DELIVERY_QUEUE_CAPACITY, event_buffer).  (Mutant: the floor alone.)
Capacity_Floor == QueueFloor
Capacity == IF QueueFloor > EventBuffer THEN QueueFloor ELSE EventBuffer

TypeOK ==
    /\ policy \in Policies
    /\ offered \in 0 .. MaxEvents
    /\ batch \in 0 .. MaxEvents
    /\ offered + batch <= MaxEvents
    /\ reader \in {"reading", "ended"}
    /\ queue \in Seq(Events) /\ Len(queue) <= Capacity
    /\ worker \in {"receiving", "calling", "streaming", "ended"}
    /\ aborted \in BOOLEAN
    /\ hand \in Events \cup {None}
    /\ sender \in BOOLEAN
    /\ stream \in Seq(Events) /\ Len(stream) <= EventBuffer
    /\ consumer \in {"present", "gone"}
    /\ dropped \in 0 .. MaxEvents
    /\ called \in Seq(Events)
    /\ received \in Seq(Events)

Init ==
    /\ policy \in Policies
    /\ offered = 0 /\ batch = 0 /\ reader = "reading"
    /\ queue = << >>
    /\ worker = "receiving" /\ aborted = FALSE
    /\ hand = None /\ sender = TRUE
    /\ stream = << >>
    /\ consumer = "present" /\ received = << >>
    /\ dropped = 0
    /\ called = << >>

-----------------------------------------------------------------------------
(***************************************************************************)
(* The reader.                                                             *)
(***************************************************************************)

\* A FEED_DATA message is decoded.
Decode ==
    /\ reader = "reading" /\ batch = 0
    /\ \E n \in 1 .. MaxBatch :
          offered + n <= MaxEvents /\ batch' = n
    /\ UNCHANGED <<policy, offered, reader, queue, workerVars, stream,
                   consumerVars, dropped, called>>

\* (Mutants: the newest event first; a silent drop.)
QueueHasRoom      == Len(queue) < Capacity
Enqueued_First    == <<offered + 1>> \o queue
Enqueued          == Append(queue, offered + 1)
CountDrop_Silent  == UNCHANGED dropped
CountDrop         == dropped' = dropped + 1

\* try_send of the next event: into the queue, or dropped and counted when it
\* is full.
Offer ==
    /\ batch > 0 /\ worker # "ended"
    /\ batch' = batch - 1
    /\ offered' = offered + 1
    /\ IF QueueHasRoom
       THEN queue' = Enqueued /\ UNCHANGED dropped
       ELSE CountDrop /\ UNCHANGED queue
    /\ UNCHANGED <<policy, reader, workerVars, stream, consumerVars, called>>

\* The worker is gone: the rest of the batch is discarded, and not counted.
OfferClosed ==
    /\ batch > 0 /\ worker = "ended"
    /\ offered' = offered + batch /\ batch' = 0
    /\ UNCHANGED <<policy, reader, queue, workerVars, stream, consumerVars,
                   dropped, called>>

\* The last sender of the queue goes away, between two messages.
ReaderEnds ==
    /\ reader = "reading" /\ batch = 0
    /\ reader' = "ended"
    /\ UNCHANGED <<policy, offered, batch, queue, workerVars, stream,
                   consumerVars, dropped, called>>

-----------------------------------------------------------------------------
(***************************************************************************)
(* The delivery worker.                                                    *)
(***************************************************************************)
WorkerReceives ==
    /\ worker = "receiving" /\ queue # << >>
    /\ hand' = Head(queue) /\ queue' = Tail(queue)
    /\ worker' = IF Head(queue) \in Watched THEN "calling" ELSE "streaming"
    /\ UNCHANGED <<policy, readerVars, aborted, sender, stream, consumerVars,
                   dropped, called>>

\* The callback returns, or panics, on the blocking pool.
CallbackReturns ==
    /\ worker = "calling"
    /\ called' = Append(called, hand)
    /\ worker' = "streaming"
    /\ UNCHANGED <<policy, readerVars, queue, aborted, hand, sender, stream,
                   consumerVars, dropped>>

\* The event is done with; the worker receives the next one.
\* (Mutant: it stops once the consumer has left.)
HandEmptied_Stops ==
    worker' = (IF consumer = "gone" THEN "ended" ELSE "receiving") /\ hand' = None
HandEmptied == worker' = "receiving" /\ hand' = None

\* try_send or send into the stream, as long as there is one.
StreamAccepts ==
    /\ worker = "streaming" /\ sender
    /\ consumer = "present" /\ Len(stream) < EventBuffer
    /\ stream' = Append(stream, hand)
    /\ HandEmptied
    /\ UNCHANGED <<policy, readerVars, queue, aborted, sender, consumerVars,
                   dropped, called>>

MayDrop == policy = "Drop"

\* The stream is full.  Under Block the worker waits instead.
StreamOverflows ==
    /\ worker = "streaming" /\ sender
    /\ consumer = "present" /\ Len(stream) = EventBuffer
    /\ MayDrop
    /\ CountDrop
    /\ HandEmptied
    /\ UNCHANGED <<policy, readerVars, queue, aborted, sender, stream,
                   consumerVars, called>>

\* The consumer dropped its receiver: the sender is forgotten, and from then
\* on events only go to callbacks.
StreamClosed ==
    /\ worker = "streaming"
    /\ sender => consumer = "gone"
    /\ sender' = FALSE
    /\ HandEmptied
    /\ UNCHANGED <<policy, readerVars, queue, aborted, stream, consumerVars,
                   dropped, called>>

\* (Mutant: a clone of the sender stays with the client.)
NoSenderLeft_Parked == reader = "ended" /\ aborted
NoSenderLeft        == reader = "ended"

\* recv() yields None: the queue is empty and has no sender left.  The worker
\* drops event_sender, which closes the stream.
WorkerEnds ==
    /\ worker = "receiving" /\ queue = << >> /\ NoSenderLeft
    /\ worker' = "ended" /\ sender' = FALSE
    /\ UNCHANGED <<policy, readerVars, queue, aborted, hand, stream,
                   consumerVars, dropped, called>>

\* disconnect or Drop aborts the worker.
Abort ==
    /\ ~aborted /\ aborted' = TRUE
    /\ UNCHANGED <<policy, readerVars, queue, worker, hand, sender, stream,
                   consumerVars, dropped, called>>

\* The abort lands at an await point: recv, the callback, or the wait for room
\* under Block.  The queue dies with the worker; a callback that is on the
\* blocking pool runs to its end.
WorkerCancelled ==
    /\ aborted
    /\ \/ worker \in {"receiving", "calling"}
       \/ worker = "streaming" /\ sender /\ policy = "Block"
    /\ worker' = "ended" /\ sender' = FALSE
    /\ queue' = << >> /\ hand' = None
    /\ called' = IF worker = "calling" THEN Append(called, hand) ELSE called
    /\ UNCHANGED <<policy, readerVars, aborted, stream, consumerVars,
                   dropped>>

-----------------------------------------------------------------------------
(***************************************************************************)
(* The consumer of the event stream.                                       *)
(***************************************************************************)
ConsumerReceives ==
    /\ consumer = "present" /\ stream # << >>
    /\ received' = Append(received, Head(stream))
    /\ stream' = Tail(stream)
    /\ UNCHANGED <<policy, readerVars, queue, workerVars, consumer, dropped,
                   called>>

ConsumerLeaves ==
    /\ consumer = "present"
    /\ consumer' = "gone" /\ stream' = << >>
    /\ UNCHANGED <<policy, readerVars, queue, workerVars, received, dropped,
                   called>>

ReaderStep   == Decode \/ Offer \/ OfferClosed \/ ReaderEnds
WorkerStep   == \/ WorkerReceives \/ CallbackReturns \/ StreamAccepts
                \/ StreamOverflows \/ StreamClosed \/ WorkerEnds
                \/ WorkerCancelled
ConsumerStep == ConsumerReceives \/ ConsumerLeaves

Next == ReaderStep \/ WorkerStep \/ Abort \/ ConsumerStep

Spec == Init /\ [][Next]_vars

\* The worker and the reader are polled; a callback returns.  Under Block the
\* caller is told to read the stream or to drop it.
FairSpec ==
    /\ Spec
    /\ WF_vars(Offer \/ OfferClosed) /\ WF_vars(WorkerStep)
    /\ WF_vars(policy = "Block" /\ ConsumerStep)

-----------------------------------------------------------------------------
(***************************************************************************)
(* Properties.                                                             *)
(***************************************************************************)
InHand   == IF hand = None THEN << >> ELSE <<hand>>
InFlight == stream \o InHand \o queue

\* The events that callbacks may still be run for, and those that are past
\* their callbacks and with the consumer or on the way to it.
CallbackIsOver == worker = "streaming"
Awaiting == (IF CallbackIsOver THEN << >> ELSE InHand) \o queue
Taken    == received \o stream \o (IF CallbackIsOver THEN InHand ELSE << >>)

\* Events in the order of decoding, none twice.
InOrder(s) == \A i, j \in DOMAIN s : i < j => s[i] < s[j]

\* As long as the consumer stays and delivery is not shut down, an event is
\* received, on its way, or counted in dropped_event_count().
LossesAreCounted ==
    consumer = "present" /\ ~aborted =>
        offered = Len(received) + Len(InFlight) + dropped

\* "A burst that fits the stream must fit here first": a burst no larger than
\* the event buffer is never dropped, even if nobody reads.
BurstFits == offered <= EventBuffer => dropped = 0

\* Callbacks see every event that was not dropped, once and in order, also
\* after the consumer has dropped its stream.
CallbacksSeeEverything ==
    dropped = 0 /\ ~aborted =>
        /\ InOrder(called \o Awaiting)
        /\ Range(called) \cup (Watched \cap Range(Awaiting))
              = Watched \cap 1 .. offered

\* Under Block the stream gets every event the callbacks get.
BlockStreamsEverything ==
    policy = "Block" /\ consumer = "present" /\ ~aborted =>
        /\ InOrder(called) /\ InOrder(Taken)
        /\ Watched \cap Range(Taken) = Range(called)

\* What is not counted as dropped reaches everyone it should.
NothingElseIsLost == CallbacksSeeEverything /\ BlockStreamsEverything

\* Once the session has no reader left, the worker drains its queue and ends,
\* and with it the stream.
StreamCloses == reader = "ended" ~> worker = "ended"

\* What the consumer can tell: order, no duplicates, counted losses.
Travelling == IF consumer = "present" THEN InFlight ELSE << >>
IsOpen     == consumer = "present" /\ ~aborted
Fifo == INSTANCE LossyFifo WITH
            inflight <- Travelling,
            got      <- received,
            lost     <- dropped,
            open     <- IsOpen
ImplementsLossyFifo == Fifo!Spec
=============================================================================
