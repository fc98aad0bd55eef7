----------------------------- MODULE MCStageFlow ------------------------------
(***************************************************************************)
(* TLC instances of StageFlow.                                             *)
(***************************************************************************)
EXTENDS StageFlow, TLC

Ids == Permutations(Tickets) \cup Permutations(Clients)
=============================================================================
