------------------------------- MODULE MCRouter -------------------------------
(***************************************************************************)
(* A small instance of Router for TLC: two callers and two channels.  The  *)
(* callers are interchangeable, but the run also checks liveness, with     *)
(* which symmetry would not be sound.                                      *)
(***************************************************************************)
EXTENDS Router, TLC
=============================================================================
