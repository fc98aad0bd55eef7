----------------------------- MODULE StonePromise -----------------------------
(***************************************************************************)
(* What the stone store promises, without rows, locks or requests: stones   *)
(* can be reserved as far as they are there, a reservation is used up or    *)
(* given back, and nobody takes what is reserved for somebody else.         *)
(***************************************************************************)
EXTENDS Naturals

CONSTANT Stones
VARIABLES stock, held

Free(m) == stock[m] - held[m]

Init == held = [m \in Stones |-> 0] /\ stock \in [Stones -> Nat]

Receive(m) == stock'[m] > stock[m] /\ held'[m] = held[m]
Take(m) == stock'[m] < stock[m] /\ held'[m] = held[m] /\ stock[m] - stock'[m] <= Free(m)
Reserve(m) == stock'[m] = stock[m] /\ held'[m] > held[m] /\ held'[m] - held[m] <= Free(m)
GiveBack(m) == stock'[m] = stock[m] /\ held'[m] < held[m]
(* Part of a reservation is used, the rest of it is free again.            *)
Use(m) == stock'[m] < stock[m] /\ stock[m] - stock'[m] <= held[m] - held'[m]
Leave(m) == stock'[m] = stock[m] /\ held'[m] = held[m]

(* A transfer takes here and receives there in one step.                   *)
Next == \A m \in Stones :
    Receive(m) \/ Take(m) \/ Reserve(m) \/ GiveBack(m) \/ Use(m) \/ Leave(m)

Spec == Init /\ [][Next]_<<stock, held>>
=============================================================================
