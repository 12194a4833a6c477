------------------------------- MODULE MCPollChat -------------------------------
(***************************************************************************)
(* PollChat for TLC.                                                       *)
(***************************************************************************)
EXTENDS PollChat, TLC
=============================================================================
