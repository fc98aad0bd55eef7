--------------------------- MODULE MCIntakeOrders ---------------------------
(***************************************************************************)
(* TLC instances of IntakeOrders.                                          *)
(***************************************************************************)
EXTENDS IntakeOrders, TLC

Ids == Permutations(Orders) \cup Permutations(Clients)
=============================================================================
