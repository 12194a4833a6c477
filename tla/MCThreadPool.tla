------------------------------ MODULE MCThreadPool ------------------------------
(***************************************************************************)
(* ThreadPool for TLC.  The runs check liveness, so threads of one kind    *)
(* are not taken for each other.                                           *)
(***************************************************************************)
EXTENDS ThreadPool, TLC
=============================================================================
