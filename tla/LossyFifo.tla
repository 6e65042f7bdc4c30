------------------------------ MODULE LossyFifo ------------------------------
(***************************************************************************)
(* What the event pipeline promises the consumer of event_stream(): events *)
(* arrive in the order they were decoded, none twice, and, until the       *)
(* consumer leaves or the client shuts delivery down, every event that     *)
(* does not arrive is counted in dropped_event_count().                    *)
(***************************************************************************)
EXTENDS Naturals, Sequences, SequencesExt

CONSTANT MaxEvents      \* bound: events the server sends

VARIABLES
    offered,    \* events decoded so far; the n-th one is the number n
    inflight,   \* events on their way, oldest first
    got,        \* events the consumer received
    lost,       \* dropped_event_count()
    open        \* nobody has left or shut delivery down

vars == <<offered, inflight, got, lost, open>>

Init ==
    /\ offered = 0
    /\ inflight = << >> /\ got = << >>
    /\ lost = 0
    /\ open = TRUE

\* An event is decoded and either travels on or overflows and is counted.
Offer ==
    /\ offered < MaxEvents
    /\ offered' = offered + 1
    /\ \/ inflight' = Append(inflight, offered + 1) /\ UNCHANGED lost
       \/ lost' = lost + 1 /\ UNCHANGED inflight
    /\ UNCHANGED <<got, open>>

\* An event overflows on the way and is counted.
Overflow ==
    /\ \E i \in DOMAIN inflight : inflight' = RemoveAt(inflight, i)
    /\ lost' = lost + 1
    /\ UNCHANGED <<offered, got, open>>

Receive ==
    /\ inflight # << >>
    /\ got' = Append(got, Head(inflight))
    /\ inflight' = Tail(inflight)
    /\ UNCHANGED <<offered, lost, open>>

\* The consumer leaves, or the client shuts delivery down.
Shut ==
    /\ open /\ open' = FALSE
    /\ \E n \in 0 .. Len(inflight) : inflight' = SubSeq(inflight, 1, n)
    /\ UNCHANGED <<offered, got, lost>>

\* From then on events may vanish without being counted.
Vanish ==
    /\ ~open
    /\ offered' \in offered .. MaxEvents
    /\ \E n \in 0 .. Len(inflight) : inflight' = SubSeq(inflight, 1, n)
    /\ UNCHANGED <<got, lost, open>>

Next == Offer \/ Overflow \/ Receive \/ Shut \/ Vanish

Spec == Init /\ [][Next]_vars
=============================================================================
