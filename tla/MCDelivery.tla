----------------------------- MODULE MCDelivery -----------------------------
(***************************************************************************)
(* Small instances of Delivery for TLC.                                    *)
(***************************************************************************)
EXTENDS Delivery

\* Every other event is for a symbol with a callback.
OddEvents == { e \in 1 .. MaxEvents : e % 2 = 1 }
=============================================================================
