---------------------------- MODULE CastingBatch ----------------------------
(***************************************************************************)
(* What the casting department promises, without slips, redos or requests: *)
(* a batch of orders is planned, draws its metal from stock once, is cast  *)
(* (however many attempts it takes) and is cut once, all its orders        *)
(* together.  Its orders never change after it is planned, and an order    *)
(* belongs to at most one batch.                                           *)
(***************************************************************************)
EXTENDS FiniteSets

CONSTANTS Batches, Orders

VARIABLES
    phase,      \* of each batch
    members,    \* the orders of each batch
    drawn,      \* batches whose metal left the stock
    blanked     \* orders whose blanks entered the stock

vars == <<phase, members, drawn, blanked>>

Phases == {"none", "planned", "issued", "cast", "cut"}

Init ==
    /\ phase = [b \in Batches |-> "none"]
    /\ members = [b \in Batches |-> {}]
    /\ drawn = {}
    /\ blanked = {}

Plan(b, os) ==
    /\ phase[b] = "none"
    /\ os # {}
    /\ \A a \in Batches : members[a] \cap os = {}
    /\ phase' = [phase EXCEPT ![b] = "planned"]
    /\ members' = [members EXCEPT ![b] = os]
    /\ UNCHANGED <<drawn, blanked>>

Drop(b) ==
    /\ phase[b] = "planned"
    /\ phase' = [phase EXCEPT ![b] = "none"]
    /\ members' = [members EXCEPT ![b] = {}]
    /\ UNCHANGED <<drawn, blanked>>

Issue(b) ==
    /\ phase[b] = "planned"
    /\ b \notin drawn
    /\ phase' = [phase EXCEPT ![b] = "issued"]
    /\ drawn' = drawn \cup {b}
    /\ UNCHANGED <<members, blanked>>

Cast(b) ==
    /\ phase[b] = "issued"
    /\ phase' = [phase EXCEPT ![b] = "cast"]
    /\ UNCHANGED <<members, drawn, blanked>>

(* One cut may take several batches, each with all its orders.             *)
Cut(bs) ==
    LET os == UNION {members[b] : b \in bs}
    IN  /\ bs # {}
        /\ \A b \in bs : phase[b] = "cast"
        /\ os \cap blanked = {}
        /\ phase' = [b \in Batches |-> IF b \in bs THEN "cut" ELSE phase[b]]
        /\ blanked' = blanked \cup os
        /\ UNCHANGED <<members, drawn>>

Next ==
    \/ \E b \in Batches :
        \/ \E os \in SUBSET Orders : Plan(b, os)
        \/ Drop(b) \/ Issue(b) \/ Cast(b)
    \/ \E bs \in SUBSET Batches : Cut(bs)

Spec == Init /\ [][Next]_vars
=============================================================================
