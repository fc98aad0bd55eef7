----------------------------- MODULE StageWeights -----------------------------
(***************************************************************************)
(* The figures of one ticket on its way through the stages: grams of silver *)
(* handed over, issued, weighed back and recovered (stage-math, order-      *)
(* detail), the bags of stones held for stone setting (stone-holds,         *)
(* material requests, sub-tickets), what QC writes down (returnStage), what *)
(* the keeper books (confirmStage) and the weekly report of losses          *)
(* (loss-reports).                                                          *)
(*                                                                         *)
(* Every step locks the order row and QC refuses to save over a changed     *)
(* order, so each is atomic here; StageFlow has the races, StoneStock the   *)
(* stock the stones are reserved in.  Weights are whole units of the scale, *)
(* and a division is rounded half up to such a unit.  A figure nobody wrote *)
(* down is None.                                                            *)
(***************************************************************************)
EXTENDS Figures

CONSTANTS
    Routes,         \* stages the ticket may go through
    TicketQty,      \* pieces on the ticket
    Blanks,         \* what is left of the order's blanks: <<pieces, weight>>
    Weighings,      \* weights QC reads off the scale
    Recoveries,     \* <<BTP, S925, S999>> recovered of a stage
    MaxMetal,       \* bound: metal issued to a stage
    MaxScrap,       \* bound: weight of the scrap a worker returns
    Stones,         \* <<by the piece, weight the 3D file tells or None>>
    BagLabels,      \* <<stones or None, weight>> on the bags, by the piece or not
    MaxBags,        \* bound: bags given to the stone setter
    MaxEarly,       \* bound: weight he gives back early at once
    SetFigures,     \* stones set and their weight QC may type, None to derive
    Revisions,      \* bound: corrections by QC (MAX_KCS_REVISIONS is 3)
    RevisedGrams    \* bound: weight of the stones of a stage he corrects

ASSUME QtyAssumption ==
    /\ TicketQty \in Nat \ {0} /\ Weighings \subseteq Nat
    /\ \A bound \in {MaxMetal, MaxScrap, MaxBags, MaxEarly, Revisions, RevisedGrams} : bound \in Nat
ASSUME BlanksAssumption == \A blank \in Blanks : blank[1] \in Nat /\ blank[2] \in Nat
ASSUME TypedAssumption ==
    /\ \A lost \in Recoveries : lost[1] \in Nat /\ lost[2] \in Nat /\ lost[3] \in Nat
    /\ \A typed \in SetFigures, i \in {1, 2} : typed[i] \in {None} \cup Nat
    /\ \A stones \in Stones : stones[1] \in BOOLEAN /\ stones[2] \in {None} \cup Nat
ASSUME BagAssumption ==
    \A byThePiece \in BOOLEAN : \A label \in BagLabels[byThePiece] :
        /\ label[1] \in Nat \ {0} \/ (label[1] = None /\ ~byThePiece)
        /\ label[2] \in Nat \ {0}

KEEPER_CONFIRM_STAGES == {"FILING", "STONE_SETTING"}
DEFECT_REPORT_STAGES == {"FILING", "STONE_SETTING", "POLISHING"}
PHOTO_ONLY_STAGES == {"ENGRAVING"}
QC_STOCK_RECOVERY_STAGES == {"POLISHING", "PLATING"}
SELF_TAKE_STAGES == {"POLISHING", "PLATING"}
UNWEIGHED_CARRY_STAGES == {"ENGRAVING", "POLISHING"}
Stages == KEEPER_CONFIRM_STAGES \cup PHOTO_ONLY_STAGES \cup QC_STOCK_RECOVERY_STAGES
STAGE_ORDER == <<"FILING", "STONE_SETTING", "ENGRAVING", "POLISHING", "PLATING">>

(* A new stage comes after the last one; an order sent back as defective    *)
(* begins a course anew, which is another one.                              *)
Place(stage) == CHOOSE i \in DOMAIN STAGE_ORDER : STAGE_ORDER[i] = stage
InOrder(route) == \A j \in DOMAIN route : \A i \in 1..(j - 1) : Place(route[i]) < Place(route[j])
ASSUME RoutesAssumption == \A route \in Routes : route \in Seq(Stages) /\ InOrder(route)

VARIABLES
    order,      \* the order's stages, its blanks and its stones
    entries,    \* production_stage_entries of the ticket, oldest first
    bags,       \* production_stone_holds of its stone setting, oldest first
    stock       \* recovered silver, S999 and scrap taken into the store

weights == <<order, entries, bags, stock>>

OldRoute == <<"STONE_SETTING">>
FiledRoute == <<"FILING", "STONE_SETTING">>
Given == {None} \cup Nat
EntryValues == [
    stage : Stages, phase : {"working", "submitted", "returned", "confirmed"},
    handed : Given, metal : Nat,        \* handedSilverWeight, metal issued
    stones : Given, stoneGrams : Given, \* handedStoneCount, handedStoneWeight
    more : Nat, moreGrams : Given,      \* stones issued on request
    asked : BOOLEAN,                    \* a request is pending
    good : BOOLEAN, returned : Given,   \* any good pieces, returnedSilverWeight
    btp : Nat, silver : Nat, s999 : Nat,
    set : Given, setGrams : Given,      \* stoneCount, stoneWeight
    back : Given, typed : Given,        \* returnedStoneCount, what QC counted
    revisions : Nat]
BagValues == [state : {"HELD", "RELEASED", "CONSUMED"}, qty : Nat, count : Given,
              weight : Nat,             \* 0: an old bag that was not weighed
              backW : Given, backC : Given, earlyW : Nat, earlyC : Nat, out : Nat]

WeightsTypeOK ==
    /\ order \in [route : Routes \cup {OldRoute, FiledRoute}, blank : Blanks, stones : Stones]
    /\ entries \in Seq(EntryValues) /\ Len(entries) <= Len(order.route)
    /\ bags \in Seq(BagValues)
    /\ stock \in [s925 : Nat, s999 : Nat, scrap : 0..MaxScrap]

NewEntry(stage, handed, metal, stones, grams) ==
    [stage |-> stage, phase |-> "working", handed |-> handed, metal |-> metal,
     stones |-> stones, stoneGrams |-> grams, more |-> 0, moreGrams |-> None,
     asked |-> FALSE, good |-> FALSE, returned |-> None, btp |-> 0, silver |-> 0,
     s999 |-> 0, set |-> None, setGrams |-> None, back |-> None, typed |-> None,
     revisions |-> 0]
NewBag(qty, count, weight) ==
    [state |-> "HELD", qty |-> qty, count |-> count, weight |-> weight,
     backW |-> None, backC |-> None, earlyW |-> 0, earlyC |-> 0, out |-> 0]

ByThePiece == order.stones[1]
Gram3d == order.stones[2]
Nothing == [s925 |-> 0, s999 |-> 0, scrap |-> 0]

(* A ticket not begun.                                                     *)
InitNew ==
    /\ order \in [route : Routes, blank : Blanks, stones : Stones]
    /\ entries = <<>> /\ bags = <<>> /\ stock = Nothing

(* A ticket filed: its stones are not given out yet.                       *)
InitFiled ==
    /\ order \in [route : {FiledRoute}, blank : Blanks, stones : Stones]
    /\ \E w \in Weighings \ {0} : entries =
        << [NewEntry("FILING", None, w, None, None) EXCEPT
                !.phase = "confirmed", !.good = TRUE, !.returned = w] >>
    /\ bags = <<>> /\ stock = Nothing

(* A stone setting begun, and perhaps returned, before bags were weighed:   *)
(* QC then counted the stones that came back.                               *)
InitOld ==
    /\ order \in [route : {OldRoute}, blank : Blanks, stones : Stones \cap {<<TRUE, None>>}]
    /\ \E n \in {l[1] : l \in BagLabels[TRUE]}, k \in {1}, silver \in Weighings \ {0}, old \in BOOLEAN :
        LET e == NewEntry("STONE_SETTING", silver, 0, n + k, None) IN
        /\ bags = <<NewBag(n, n, 0), NewBag(k, k, 0)>>
        /\ entries = << IF ~old THEN e
                        ELSE [e EXCEPT !.phase = "returned", !.good = TRUE, !.returned = silver,
                                       !.back = n, !.set = k] >>
    /\ stock = Nothing

WeightsInit == InitNew \/ InitFiled \/ InitOld

-----------------------------------------------------------------------------
(* Silver.                                                                 *)
SilverIn(e) == IF e.handed = None /\ e.metal = 0 THEN None ELSE Or0(e.handed) + e.metal
Recovered(e) == e.btp + e.silver + e.s999
SilverLoss(e) ==
    IF SilverIn(e) = None \/ e.returned = None THEN None
    ELSE SilverIn(e) + Or0(e.setGrams) - e.returned - Recovered(e)
(* Mutant: what was handed over, without the metal issued at the stage.    *)
CarriedHanded(e) ==
    IF e.returned # None THEN e.returned
    ELSE IF e.stage \in UNWEIGHED_CARRY_STAGES THEN e.handed ELSE None

CarriedSilver(e) ==
    IF e.returned # None THEN e.returned
    ELSE IF e.stage \in UNWEIGHED_CARRY_STAGES THEN SilverIn(e) ELSE None

(* The blanks of a ticket: its share of the weight, the last one the rest. *)
FilingBtpLine ==
    IF order.blank[1] = TicketQty THEN order.blank[2]
    ELSE HalfUp(order.blank[2] * TicketQty, order.blank[1])

(* The whole ticket: only its first stage brings silver in.                *)
IsReturned(e) == e.phase \in {"returned", "confirmed"}
TicketSilverIn == IF entries = <<>> THEN 0 ELSE Or0(SilverIn(entries[1]))
TicketLoss == SumOf([i \in DOMAIN entries |-> Or0(SilverLoss(entries[i]))])

-----------------------------------------------------------------------------
(* Mutant: the last element gives all of it, whatever it holds.            *)
AllFromTheLast(xs, amount) == [i \in DOMAIN xs |-> IF i = Len(xs) THEN amount ELSE 0]

(* Stones.  A list of amounts is emptied from its last element.            *)
FromTheLast(xs, amount) ==
    [i \in DOMAIN xs |->
        Lesser(xs[i], NonNegative(amount - SumWhere(xs, LAMBDA j : j > i)))]

FromTheFirst(xs, amount) ==
    [i \in DOMAIN xs |->
        Lesser(xs[i], NonNegative(amount - SumWhere(xs, LAMBDA j : j < i)))]

(* Mutant: by weight alone; a bag that cannot take its share drops it.     *)
SplitByWeight(counts, grams, count) ==
    LET total == SumOf([i \in DOMAIN counts |-> grams[i]])
    IN  [i \in DOMAIN counts |->
            IF total = 0 THEN 0 ELSE Lesser(counts[i], HalfUp(count * grams[i], total))]

(* The stones counted in what is left over, shared out by weight, the last   *)
(* bag counted taking the rest.  What a bag cannot take goes to the first    *)
(* ones that can.                                                           *)
SplitReturnedCount(counts, grams, count) ==
    LET total == SumOf([i \in DOMAIN counts |-> grams[i]])
        share == [i \in DOMAIN counts |->
                    IF total = 0 \/ i = Max(DOMAIN counts) THEN counts[i]
                    ELSE Lesser(counts[i], HalfUp(count * grams[i], total))]
        take == FromTheFirst(share, count)
        room == [i \in DOMAIN counts |-> counts[i] - take[i]]
        extra == FromTheFirst(room, count - SumOf(take))
    IN  [i \in DOMAIN counts |-> take[i] + extra[i]]

StoneReturnedCount(b, grams) ==
    IF b.count = None THEN None
    ELSE IF b.weight = 0 THEN 0
    ELSE Lesser(b.count, HalfUp(b.count * Lesser(grams, b.weight), b.weight))

(* What of a bag leaves the stock: of a stone sold by the piece, the pieces *)
(* not given back, none if the bag came back whole; else by weight.         *)
StoneUsedQty(b, back, grams) ==
    LET whole == b.weight > 0 /\ grams # None /\ grams >= b.weight
        byCount == HalfUp(b.qty * (b.count - Lesser(Or0(back), b.count)), b.count)
        used == IF ByThePiece /\ ~whole /\ b.count # None /\ back # None THEN byCount
                ELSE IF b.weight > 0 /\ grams # None
                THEN HalfUp(b.qty * NonNegative(b.weight - grams), b.weight)
                ELSE IF Or0(b.count) > 0 THEN byCount ELSE b.qty
    IN  NonNegative(used)

(* Mutants: a bag struck off keeps no count of what came back; the quantity *)
(* given back is rounded up.                                                *)
ShrinkRoundedUp(b, grams) ==
    LET backQty == (b.qty * grams + b.weight - 1) \div b.weight
        backCount == StoneReturnedCount(b, grams)
    IN  [b EXCEPT !.qty = @ - backQty,
                  !.count = IF @ = None THEN None ELSE @ - Or0(backCount),
                  !.weight = @ - grams, !.earlyW = @ + grams, !.earlyC = @ + Or0(backCount),
                  !.state = IF backQty = b.qty THEN "RELEASED" ELSE "HELD"]

ShrinkHold(b, grams) ==
    LET backQty == Lesser(HalfUp(b.qty * grams, b.weight), b.qty)
        backCount == StoneReturnedCount(b, grams)
        emptied == backQty = b.qty \/ grams = b.weight
    IN  [b EXCEPT !.qty = @ - backQty,
                  !.count = IF @ = None THEN None ELSE @ - Or0(backCount),
                  !.weight = @ - grams,
                  !.earlyW = @ + grams,
                  !.earlyC = @ + Or0(backCount),
                  !.state = IF emptied THEN "RELEASED" ELSE "HELD"]

IsHeld(b) == b.state = "HELD"
Weighed == [i \in DOMAIN bags |-> IF IsHeld(bags[i]) THEN bags[i].weight ELSE 0]
Counted == [i \in {j \in DOMAIN bags : Weighed[j] > 0 /\ bags[j].count # None} |-> bags[i].count]
Unweighed == [i \in DOMAIN bags |->
                IF IsHeld(bags[i]) /\ Weighed[i] = 0 THEN Or0(bags[i].count) ELSE 0]
AnyHeld == \E i \in DOMAIN bags : IsHeld(bags[i])
EarlyGrams == SumOf([i \in DOMAIN bags |-> bags[i].earlyW])
EarlyCount == SumOf([i \in DOMAIN bags |-> bags[i].earlyC])

(* What QC may type of the stones left over: the weight of the code, their  *)
(* number, and the number from bags that were never weighed.                *)
StoneAskOK(ask) ==
    LET grams == SumOf(Weighed)
    IN  /\ ask.line # None => grams > 0 /\ ask.line <= grams
        /\ ask.typed # None => /\ ask.line # None
                               /\ DOMAIN Counted # {} /\ ask.typed <= SumOf(Counted)
                               /\ ask.typed > 0 => ask.line > 0
        /\ AnyHeld => Or0(ask.legacy) <= SumOf(Unweighed)

TakeBack(b, grams, count) == [b EXCEPT !.backW = grams, !.backC = count]
PlanStoneReturn(ask) ==
    LET grams == FromTheLast(Weighed, Or0(ask.line))
        typed == SplitReturnedCount(Counted, grams, Or0(ask.typed))
        legacy == FromTheLast(Unweighed, Or0(ask.legacy))
    IN  [i \in DOMAIN bags |->
            IF ~IsHeld(bags[i]) THEN bags[i]
            ELSE IF Weighed[i] = 0 THEN TakeBack(bags[i], None, legacy[i])
            ELSE TakeBack(bags[i], grams[i],
                    IF ask.typed # None /\ bags[i].count # None THEN typed[i]
                    ELSE StoneReturnedCount(bags[i], grams[i]))]

-----------------------------------------------------------------------------
(* Handing over.                                                           *)
Last == entries[Len(entries)]
Update(e) == entries' = [entries EXCEPT ![Len(entries)] = e]
Open == entries # <<>> /\ ~IsReturned(Last)
Begin(stage, handed, metal, stones, grams) ==
    entries' = Append(entries, NewEntry(stage, handed, metal, stones, grams))

Labels == {NewBag(IF ByThePiece THEN label[1] ELSE label[2], label[1], label[2]) :
            label \in BagLabels[ByThePiece]}

(* The stage takes over what the stage before gave back: out of the store   *)
(* of half-finished goods when the keeper had put it there, else by hand -   *)
(* never both.  Filing takes its share of the blanks.                       *)
HandOver(bs) ==
    /\ Len(entries) < Len(order.route)
    /\ entries # <<>> => Last.phase = "confirmed" /\ Last.good
    /\ LET stage == order.route[Len(entries) + 1]
           weight == CarriedSilver(Last)
           counted == {i \in DOMAIN bs : bs[i].count # None}
       IN  /\ (stage = "STONE_SETTING") = (bs # <<>>)
           /\ bags' = bags \o bs
           /\ \/ /\ stage = "FILING" /\ order.blank[1] >= TicketQty
                 /\ Begin(stage, None, FilingBtpLine, None, None)
              \/ /\ stage # "FILING" /\ entries # <<>>
                 /\ stage \notin SELF_TAKE_STAGES => weight > 0
                 /\ LET stored == Last.stage \in KEEPER_CONFIRM_STAGES
                    IN  Begin(stage, IF stored THEN None ELSE weight, IF stored THEN weight ELSE 0,
                              IF counted = {} THEN None ELSE SumOf([i \in DOMAIN bs |-> Or0(bs[i].count)]),
                              IF bs = <<>> THEN None ELSE SumOf([i \in DOMAIN bs |-> bs[i].weight]))
              \/ /\ stage \notin KEEPER_CONFIRM_STAGES /\ entries = <<>>
                 /\ Begin(stage, None, 0, None, None)
    /\ UNCHANGED <<order, stock>>

(* The worker asks for more: blanks in filing, stones in stone setting.     *)
CreateRequest ==
    /\ Open /\ Last.phase = "working" /\ ~Last.asked
    /\ Last.stage \in {"FILING", "STONE_SETTING"}
    /\ Update([Last EXCEPT !.asked = TRUE])
    /\ UNCHANGED <<order, bags, stock>>

DropRequest ==
    /\ entries # <<>> /\ Last.asked
    /\ Update([Last EXCEPT !.asked = FALSE])
    /\ UNCHANGED <<order, bags, stock>>

IssueMetal(w) ==
    /\ Open /\ Last.asked /\ Last.stage = "FILING" /\ Last.metal + w <= MaxMetal
    /\ Update([Last EXCEPT !.asked = FALSE, !.metal = @ + w])
    /\ UNCHANGED <<order, bags, stock>>

(* Stones issued on request: a bag is held, and the request keeps its       *)
(* figures.                                                                 *)
IssueStones(b) ==
    /\ Open /\ Last.asked /\ Last.stage = "STONE_SETTING" /\ Len(bags) < MaxBags
    /\ bags' = Append(bags, b)
    /\ Update([Last EXCEPT !.asked = FALSE, !.more = @ + Or0(b.count),
                           !.moreGrams = Or0(@) + b.weight])
    /\ UNCHANGED <<order, stock>>

(* The setter gives some of his stones back: out of the last bags first.    *)
ReturnStoneEarly(grams) ==
    /\ Open /\ Last.stage = "STONE_SETTING" /\ grams <= SumOf(Weighed)
    /\ LET split == FromTheLast(Weighed, grams)
       IN  bags' = [i \in DOMAIN bags |->
                        IF split[i] > 0 THEN ShrinkHold(bags[i], split[i]) ELSE bags[i]]
    /\ UNCHANGED <<order, entries, stock>>

Submit ==
    /\ Open /\ Last.phase = "working"
    /\ Update([Last EXCEPT !.phase = "submitted"])
    /\ UNCHANGED <<order, bags, stock>>

Unsubmit ==
    /\ Open /\ Last.phase = "submitted"
    /\ Update([Last EXCEPT !.phase = "working"])
    /\ UNCHANGED <<order, bags, stock>>

-----------------------------------------------------------------------------
(* Mutant: what he gave back early still counts as given.                  *)
StonesGiven(e) ==
    IF e.stones = None /\ e.more = 0 THEN None ELSE Or0(e.stones) + e.more

(* QC takes the stage back.                                                *)
StonesHanded(e) ==
    IF e.stones = None /\ e.more = 0 THEN None
    ELSE NonNegative(Or0(e.stones) + e.more - EarlyCount)
StoneWeightHanded(e) ==
    IF e.stoneGrams = None /\ e.moreGrams = None THEN None
    ELSE NonNegative(Or0(e.stoneGrams) + Or0(e.moreGrams) - EarlyGrams)

(* The stones that came back, were set, and weigh, as QC typed them or as   *)
(* derived from the bags and the 3D file.                                   *)
StoneFigures(e, ask, typed, plan) ==
    LET given == StonesHanded(e)
        grams == StoneWeightHanded(e)
        held == {i \in DOMAIN bags : IsHeld(bags[i])}
        told == {i \in held : plan[i].backC # None}
        back == IF told # {} THEN SumOf([i \in DOMAIN bags |-> IF i \in told THEN plan[i].backC ELSE 0]) ELSE ask.legacy
        set == IF typed[1] # None THEN typed[1]
               ELSE IF given = None THEN None ELSE NonNegative(given - Or0(back))
        prorated ==
            IF grams = None THEN None
            ELSE IF held # {} /\ \A i \in held : bags[i].weight > 0
            THEN NonNegative(grams - SumWhere([i \in DOMAIN bags |-> Or0(plan[i].backW)],
                                              LAMBDA i : i \in held))
            ELSE IF given # None /\ given > 0 /\ set # None THEN HalfUp(grams * set, given)
            ELSE grams
    IN  [back |-> back, set |-> set,
         setGrams |-> IF typed[2] # None THEN typed[2]
                      ELSE IF Gram3d # None THEN Gram3d ELSE prorated]

NoFigures == [back |-> None, set |-> None, setGrams |-> None]
NoStones == {[line |-> None, typed |-> None, legacy |-> None]}
StoneAsks ==
    LET few(n) == {None} \cup 0..n IN
    [line : few(SumOf(Weighed)), typed : few(SumOf(Counted)), legacy : few(SumOf(Unweighed))]

StonesWithin(e, f, typed) ==
    /\ StonesHanded(e) # None => Or0(f.set) + Or0(f.back) <= StonesHanded(e)
    /\ (typed[2] # None \/ Gram3d = None) /\ StoneWeightHanded(e) # None
        => Or0(f.setGrams) <= StoneWeightHanded(e)

(* Nothing comes back heavier than it was given, so that no loss is below   *)
(* zero.                                                                    *)
SilverWithin(e, setGrams, back) == SilverIn(e) # None => back <= SilverIn(e) + Or0(setGrams)

(* What QC may write down of the silver: weighed or only looked at, whether  *)
(* there is any good piece, and what was recovered.                         *)
SilverAsks(stage) ==
    IF stage \in PHOTO_ONLY_STAGES
    THEN {[good |-> TRUE, returned |-> None, lost |-> <<0, 0, 0>>]}
    ELSE {ask \in [good : BOOLEAN, returned : Weighings \cup {0}, lost : Recoveries] :
            /\ ask.good => ask.returned > 0
            /\ ~ask.good => stage \in DEFECT_REPORT_STAGES}

(* Mutant: a stage the keeper has closed may be corrected.                 *)
MayReturnClosed(revise) ==
    /\ entries # <<>> /\ ~Last.asked
    /\ IF revise THEN IsReturned(Last) /\ Last.revisions < Revisions
                      /\ Last.stage \in KEEPER_CONFIRM_STAGES
       ELSE Last.phase = "submitted"

MayReturn(revise) ==
    /\ entries # <<>> /\ ~Last.asked
    /\ IF revise THEN /\ Last.phase = "returned" /\ Last.revisions < Revisions
                      /\ SumOf(Weighed) <= RevisedGrams
                      /\ Last.stage \in KEEPER_CONFIRM_STAGES
       ELSE Last.phase = "submitted"

Noted(e, revise, ask, f, seen) ==
    [e EXCEPT !.phase = IF e.stage \in KEEPER_CONFIRM_STAGES THEN "returned" ELSE "confirmed",
              !.good = seen.good, !.returned = seen.returned,
              !.btp = seen.lost[1], !.silver = seen.lost[2], !.s999 = seen.lost[3],
              !.set = f.set, !.setGrams = f.setGrams, !.back = f.back,
              !.typed = IF AnyHeld THEN ask.typed ELSE None,
              !.revisions = IF revise THEN @ + 1 ELSE @]

ReturnStage(revise, ask) ==
    LET setting == Last.stage = "STONE_SETTING" IN
    /\ MayReturn(revise) /\ StoneAskOK(ask)
    /\ bags' = IF setting THEN PlanStoneReturn(ask) ELSE bags
    /\ \E typed \in IF setting THEN SetFigures ELSE {<<None, None>>} :
       \E f \in {IF setting THEN StoneFigures(Last, ask, typed, bags') ELSE NoFigures} :
       \E seen \in SilverAsks(Last.stage) :
        LET lost == seen.lost
        IN  /\ StonesWithin(Last, f, typed)
            /\ SilverWithin(Last, f.setGrams, Or0(seen.returned) + lost[1] + lost[2] + lost[3])
            /\ Update(Noted(Last, revise, ask, f, seen))
            /\ stock' = IF Last.stage \in QC_STOCK_RECOVERY_STAGES
                        THEN [stock EXCEPT !.s925 = @ + lost[1] + lost[2], !.s999 = @ + lost[3]]
                        ELSE stock
    /\ UNCHANGED order

(* What the keeper issues of a bag once the stage is closed.  If QC took    *)
(* the stage back before bags were weighed, its one count is split.         *)
Consume(b, used) ==
    IF used = 0 THEN [b EXCEPT !.state = "RELEASED"]
    ELSE [b EXCEPT !.state = "CONSUMED", !.out = used]
ConsumeStoneHolds(e) ==
    LET old == \A i \in DOMAIN bags : IsHeld(bags[i]) => bags[i].backW = None /\ bags[i].backC = None
        counts == [i \in DOMAIN bags |-> IF IsHeld(bags[i]) THEN Or0(bags[i].count) ELSE 0]
        split == FromTheLast(counts, Or0(e.back))
        Used(i) == IF old THEN StoneUsedQty(bags[i], split[i], None)
                   ELSE StoneUsedQty(bags[i], Or0(bags[i].backC), bags[i].backW)
    IN  [i \in DOMAIN bags |->
            IF IsHeld(bags[i]) THEN Consume(bags[i], Used(i)) ELSE bags[i]]

ConfirmStage ==
    /\ entries # <<>> /\ Last.phase = "returned" /\ Last.stage \in KEEPER_CONFIRM_STAGES
    /\ Update([Last EXCEPT !.phase = "confirmed"])
    /\ stock' = [stock EXCEPT !.s925 = @ + Last.btp + Last.silver, !.s999 = @ + Last.s999]
    /\ bags' = IF Last.stage = "STONE_SETTING" THEN ConsumeStoneHolds(Last) ELSE bags
    /\ UNCHANGED order

(* Mutant: the silver taken into the store stays there.                    *)
UndoFiguresOnly ==
    /\ entries # <<>> /\ IsReturned(Last) /\ Last.stage \notin KEEPER_CONFIRM_STAGES
    /\ Last.good
    /\ Update([Last EXCEPT !.phase = "submitted", !.good = FALSE, !.returned = None, !.btp = 0,
                           !.silver = 0, !.s999 = 0])
    /\ UNCHANGED <<order, bags, stock>>

(* An admin takes back what QC saved, and what it took into the store.      *)
UndoReturn ==
    /\ entries # <<>> /\ IsReturned(Last) /\ Last.stage \notin KEEPER_CONFIRM_STAGES
    /\ Last.good
    /\ Update([Last EXCEPT !.phase = "submitted", !.good = FALSE, !.returned = None, !.btp = 0,
                           !.silver = 0, !.s999 = 0])
    /\ stock' = IF Last.stage \in QC_STOCK_RECOVERY_STAGES
                THEN [stock EXCEPT !.s925 = @ - Last.btp - Last.silver, !.s999 = @ - Last.s999]
                ELSE stock
    /\ UNCHANGED <<order, bags>>

CreateScrapReturn(w) ==
    /\ stock.scrap = 0 /\ bags = <<>>     \* bound: by a worker without stones
    /\ stock' = [stock EXCEPT !.scrap = w]
    /\ UNCHANGED <<order, entries, bags>>

RemoveScrapReturn ==
    /\ stock.scrap > 0
    /\ stock' = [stock EXCEPT !.scrap = 0]
    /\ UNCHANGED <<order, entries, bags>>

-----------------------------------------------------------------------------
WeightsNext ==
    \/ \E bs \in {<<>>} \cup {<<b>> : b \in Labels} : HandOver(bs)
    \/ CreateRequest \/ DropRequest
    \/ \E w \in 1..MaxMetal : IssueMetal(w)
    \/ \E b \in Labels : IssueStones(b)
    \/ \E grams \in 1..MaxEarly : ReturnStoneEarly(grams)
    \/ Submit \/ Unsubmit
    \/ \E revise \in BOOLEAN : MayReturn(revise) /\
        \E ask \in (IF Last.stage = "STONE_SETTING" THEN StoneAsks ELSE NoStones) :
            ReturnStage(revise, ask)
    \/ ConfirmStage \/ UndoReturn
    \/ \E w \in 1..MaxScrap : CreateScrapReturn(w)
    \/ RemoveScrapReturn

WeightsSpec == WeightsInit /\ [][WeightsNext]_weights

-----------------------------------------------------------------------------
(* What the ticket shows of a stage, and of the stones of one code.         *)
StoneLoss(e) ==
    LET given == Or0(e.stones) + e.more - EarlyCount
    IN  IF ~IsReturned(e) \/ given = 0 THEN None ELSE given - Or0(e.set) - Or0(e.back)
ToStage(e) ==
    [silverIn |-> SilverIn(e), silverLoss |-> SilverLoss(e),
     stoneLoss |-> IF e.stage = "STONE_SETTING" THEN StoneLoss(e) ELSE None]
StoneLine ==
    [count |-> SumOf([i \in DOMAIN bags |-> Or0(bags[i].count)]),
     weight |-> SumOf([i \in DOMAIN bags |-> bags[i].weight])]

(* The weekly report: stages whose figures are closed.                     *)
Reported(i) ==
    /\ entries[i].phase = "confirmed" /\ entries[i].returned # None
    /\ SilverIn(entries[i]) # None
LossItem(i) ==
    LET e == entries[i] IN
    [stage |-> e.stage, in |-> SilverIn(e), product |-> e.returned - Or0(e.setGrams),
     btp |-> e.btp, nvl |-> e.silver + e.s999]
LossOf(item) == item.in - (item.product + item.btp + item.nvl)
ReportRow(stage) ==
    SumOf([i \in DOMAIN entries |->
            IF Reported(i) /\ entries[i].stage = stage THEN LossOf(LossItem(i)) ELSE 0])
WorkerLoss ==
    SumWhere([i \in DOMAIN entries |-> Or0(SilverIn(entries[i]))], Reported)
        - SumWhere([i \in DOMAIN entries |->
                LossItem(i).product + LossItem(i).btp + LossItem(i).nvl], Reported)
        - stock.scrap
-----------------------------------------------------------------------------
(* Properties.                                                             *)

(* No stage ever shows a negative loss, of silver or of stones, whatever    *)
(* was issued, given back early or corrected meanwhile (the comment at       *)
(* production-orders.service.ts:1973).                                       *)
LossNeverNegative ==
    \A i \in DOMAIN entries :
        Or0(ToStage(entries[i]).silverLoss) >= 0 /\ Or0(ToStage(entries[i]).stoneLoss) >= 0

(* Until the keeper closes the stage, the stones written down as given to    *)
(* the setter - handed over, issued on request, less what he gave back - are *)
(* the stones counted in the bags still held for him; and so is their        *)
(* weight, counting the crumbs left of bags he emptied, as the ticket shows.  *)
HandedIsHeld ==
    \A i \in DOMAIN entries :
        LET e == entries[i] IN
        e.stage = "STONE_SETTING" /\ e.phase # "confirmed" =>
            /\ Or0(e.stones) + e.more - EarlyCount =
                SumWhere([k \in DOMAIN bags |-> Or0(bags[k].count)], LAMBDA k : IsHeld(bags[k]))
            /\ StoneLine.count = SumOf(Counted) + SumOf(Unweighed)
            /\ e.stoneGrams # None =>
                e.stoneGrams + Or0(e.moreGrams) - EarlyGrams = StoneLine.weight

(* What QC counted is what the bags took back in all ("Tong luon bang        *)
(* count", stage-math.ts:153), if every bag was counted and weighed.  Once   *)
(* the keeper has closed the stage, the pieces issued from stock are those   *)
(* given and not taken back - unless a bag came back whole, which the code   *)
(* takes for unused whatever was counted.                                   *)
StockOutMatches ==
    \A i \in DOMAIN entries :
        LET e == entries[i]
            cameBackWhole == \E k \in DOMAIN bags :
                bags[k].weight > 0 /\ bags[k].backW # None /\ bags[k].backW >= bags[k].weight
            unweighed(k) == bags[k].weight = 0 /\ bags[k].count # 0
        IN  e.stage = "STONE_SETTING" /\ IsReturned(e) =>
            /\ e.typed # None /\ (\A k \in DOMAIN bags : bags[k].count # None /\ ~unweighed(k))
                => e.back = e.typed
            /\ e.phase = "confirmed" /\ ByThePiece /\ ~cameBackWhole =>
                SumOf([k \in DOMAIN bags |-> bags[k].out]) = Or0(StonesHanded(e)) - Or0(e.back)

(* The stones add up, from the bags handed out to the stock they leave.     *)
StonesAddUp == HandedIsHeld /\ StockOutMatches

(* No gram is lost or counted twice between the stages: the silver that went *)
(* into the ticket and the stones set in it are what it weighs now, what was *)
(* recovered, and the losses of its stages.  A stage that is not weighed     *)
(* passes its silver on, so its loss shows at the next one.                  *)
ChainBalances ==
    LET Closed(i) == IsReturned(entries[i])
    IN  entries # <<>> /\ SilverIn(entries[1]) # None =>
        TicketSilverIn + SumWhere([i \in DOMAIN entries |-> Or0(entries[i].setGrams)], Closed) =
            TicketLoss + SumWhere([i \in DOMAIN entries |-> Recovered(entries[i])], Closed)
                + (IF IsReturned(Last) THEN CarriedSilver(Last) ELSE SilverIn(Last))

(* The report's two ways to add up agree with the stages' own figures: the   *)
(* worker's row is the sum of his stage rows less his scrap, and that is the *)
(* loss of every stage closed; what it counts as recovered is in the store.  *)
ReportAgrees ==
    LET Closed(i) == entries[i].phase = "confirmed" IN
    /\ WorkerLoss + stock.scrap = SumOf([stage \in Stages |-> ReportRow(stage)])
    /\ WorkerLoss + stock.scrap = 
        SumWhere([i \in DOMAIN entries |-> Or0(SilverLoss(entries[i]))], Closed)
    /\ stock.s925 + stock.s999 = SumWhere([i \in DOMAIN entries |-> Recovered(entries[i])], Closed)

(* Figures the keeper closed are final: the report a week shows of filing    *)
(* and stone setting never changes afterwards.                               *)
ReportedStays ==
    [][\A i \in DOMAIN entries :
        Reported(i) /\ entries[i].stage \in KEEPER_CONFIRM_STAGES =>
            Reported(i)' /\ LossItem(i)' = LossItem(i)]_weights

(* A bag given back early is struck off only when less than half a stone's   *)
(* weight is left in it, by the label of what was still held.                *)
EmptiedBagWeighsLittle ==
    [][\A i \in DOMAIN bags :
        IsHeld(bags[i]) /\ bags'[i].state = "RELEASED" /\ bags'[i].earlyW > bags[i].earlyW =>
            2 * bags[i].qty * bags'[i].weight <= bags[i].weight]_weights
=============================================================================
