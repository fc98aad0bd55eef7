-------------------------- MODULE MCFinishedGoods --------------------------
(***************************************************************************)
(* TLC instances of FinishedGoods.                                         *)
(***************************************************************************)
EXTENDS FinishedGoods, TLC

Ids == Permutations(Ships) \cup Permutations(Keepers) \cup Permutations(Shippers)
=============================================================================
