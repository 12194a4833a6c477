--------------------------- MODULE MCNonactiveServer ---------------------------
(***************************************************************************)
(* NonactiveServer for TLC: descriptors and addresses are interchangeable. *)
(***************************************************************************)
EXTENDS NonactiveServer, TLC

Symmetry == Permutations(Timer) \cup Permutations(Fd)
=============================================================================
