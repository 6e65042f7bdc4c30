---------------------------- MODULE MCStateStream ----------------------------
(***************************************************************************)
(* A small instance of StateStream for TLC.                                *)
(***************************************************************************)
EXTENDS StateStream

\* A policy that doubles past Duration::MAX, and one that is spread, cut to a
\* word, and below the floor.
MCPolicies == {[initial |-> 5, max |-> 14, jitter |-> FALSE],
               [initial |-> 1, max |-> 3, jitter |-> TRUE]}
=============================================================================
