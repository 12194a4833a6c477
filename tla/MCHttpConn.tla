------------------------------ MODULE MCHttpConn ------------------------------
(***************************************************************************)
(* HttpConn for TLC.                                                       *)
(***************************************************************************)
EXTENDS HttpConn, TLC

Symmetry == Permutations(Workers)
=============================================================================
