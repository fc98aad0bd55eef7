--------------------------- MODULE MCCastingSlips ---------------------------
(***************************************************************************)
(* TLC instances of CastingSlips.                                          *)
(***************************************************************************)
EXTENDS CastingSlips, TLC

(* Orders, slips, requests and workers are interchangeable ids.            *)
Ids == Permutations(Orders) \cup Permutations(Slips) \cup Permutations(Clients)
         \cup Permutations(Keepers) \cup Permutations(Workers)
=============================================================================
