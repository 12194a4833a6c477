------------------------------- MODULE MCShmChat -------------------------------
(***************************************************************************)
(* ShmChat for TLC.                                                        *)
(***************************************************************************)
EXTENDS ShmChat, TLC

Symmetry == Permutations(Pids)
=============================================================================
