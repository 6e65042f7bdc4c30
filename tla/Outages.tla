------------------------------- MODULE Outages -------------------------------
(***************************************************************************)
(* What a client with a reconnect policy tells its consumer, as the docs   *)
(* of ConnectionState promise it: a loss, then attempts numbered from 1,   *)
(* then the session restored or given up, and nothing after giving up      *)
(* until the owner connects again.  A shutdown may cut this off anywhere.  *)
(*                                                                         *)
(* Session implements it (Session!ImplementsOutages), and StateStream      *)
(* carries it to the consumers.                                            *)
(***************************************************************************)
EXTENDS Naturals

CONSTANT MaxAttempts    \* ReconnectPolicy::max_attempts (Some(limit))

VARIABLES
    announced,      \* the last ConnectionState sent, "None" before the first
    attempt         \* the number a Reconnecting carries

outageVars == <<announced, attempt>>

Quiet == announced \in {"None", "Reconnected"}
InOutage == announced \in {"Lost", "Reconnecting"}

Announces(state, number) == announced' = state /\ attempt' = number

Init == announced = "None" /\ attempt = 0

Lose      == Quiet /\ Announces("Lost", 0)
Try       == InOutage /\ attempt < MaxAttempts
                /\ Announces("Reconnecting", attempt + 1)
Reconnect == announced = "Reconnecting" /\ Announces("Reconnected", 0)

\* An answer that will not change, or the limit.
GiveUp ==
    /\ InOutage
    /\ announced = "Lost" => attempt = MaxAttempts
    /\ Announces("GaveUp", 0)

\* connect: a supervisor of its own, which has announced nothing.
Restart == Announces("None", 0)

Next == Lose \/ Try \/ Reconnect \/ GiveUp \/ Restart

Spec == Init /\ [][Next]_outageVars
=============================================================================
