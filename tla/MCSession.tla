------------------------------ MODULE MCSession ------------------------------
(***************************************************************************)
(* Small instances of Session for TLC.                                     *)
(***************************************************************************)
EXTENDS Session

\* A client with no channel, whose replay has no await point, and one with
\* something to send and an answer to wait for.
NothingToReplay == { << >> }
OneRequest      == { << >>, <<"send", "answer">> }
=============================================================================
