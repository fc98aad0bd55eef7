----------------------------- MODULE MCStoneStock -----------------------------
(***************************************************************************)
(* TLC instances of StoneStock.                                            *)
(***************************************************************************)
EXTENDS StoneStock, TLC

Ids == Permutations(Rows) \cup Permutations(Holds) \cup Permutations(Clients)
           \cup Permutations(Tickets)
=============================================================================
