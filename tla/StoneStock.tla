------------------------------ MODULE StoneStock ------------------------------
(***************************************************************************)
(* The material stock (InventoryService) and the stones reserved in it for  *)
(* the stone-setting stage (stone-holds, material requests, and the part of *)
(* the sub-ticket service that holds, releases and consumes stones).        *)
(*                                                                         *)
(* What lies in the store is the opening quantity plus the inbound rows     *)
(* less the outbound rows.  stock_balances keeps the result as a ledger; a  *)
(* transaction recomputes it in one SQL statement whose snapshot is taken   *)
(* before it waits for the balance row.  A transaction that may not         *)
(* oversell first locks that row.  So each has the steps                    *)
(*     Xxx        checks, locks and rows, which others do not see yet       *)
(*     Recompute  the snapshot of the sums                                  *)
(*     Commit     rows and ledger show; the locks are released              *)
(* and any of them may fail, which undoes it.  Production steps hold the    *)
(* order row from their first read to the commit.                           *)
(***************************************************************************)
EXTENDS Integers, FiniteSets, FiniteSetsExt

CONSTANTS
    Stones,         \* materials set by the stone setters
    Metals,         \* materials issued without a reservation
    Rows,           \* ids of inbound and outbound rows
    Tickets,        \* sub-tickets of one order
    Holds,          \* ids of stone holds; a hold's outbound has its id
    Wishes,         \* ids of requests for more stones
    Clients,        \* concurrent requests
    MaxQty,         \* bound: quantity on one row
    Opening,        \* opening quantity of every material
    Corrections,    \* whether rows already entered are corrected where the code
                    \* does not look at what is promised of the balance
    Office          \* whether the office moves or removes the order meanwhile

Materials == Stones \cup Metals
AllRows == Rows \cup Holds

ASSUME QtyAssumption == MaxQty \in Nat \ {0} /\ Opening \in Nat
ASSUME SwitchAssumption == Corrections \in BOOLEAN /\ Office \in BOOLEAN
ASSUME DisjointAssumption == Stones \cap Metals = {} /\ Rows \cap Holds = {}
ASSUME FiniteRows == IsFiniteSet(Rows) /\ IsFiniteSet(Holds)

VARIABLES
    opening,    \* stock_balances.opening_qty
    row,        \* stock_inbounds and stock_outbounds that apply to the stock
    ledger,     \* stock_balances.qty
    draft,      \* stock_outbound_drafts, by the hold they were made for
    hold,       \* production_stone_holds
    ticket,     \* where a sub-ticket stands in stone setting
    wish,       \* production_material_requests of stone setters
    req         \* transactions in flight

store == <<opening, row, ledger>>
stage == <<draft, hold, ticket, wish>>
stones == <<store, stage, req>>

Qty == 1..MaxQty
InKinds == {"IN", "AUTO_IN", "TRANSFER_IN"}
OutKinds == {"OUT", "AUTO_OUT"}
NoRow == [kind |-> "NONE"]
Gone == [kind |-> "GONE"]
RowOf(kind, m, q, pair) == [kind |-> kind, mat |-> m, qty |-> q, pair |-> pair]
RowValues == {NoRow, Gone}
    \cup [kind : InKinds \cup OutKinds, mat : Materials, qty : Nat, pair : SUBSET Rows]

NoDraft == [state |-> "NONE"]
DraftValues == {NoDraft} \cup [state : {"DRAFT", "POSTED", "VOID"}, mat : Stones, qty : Nat]

NoHold == [state |-> "NONE"]
Deleted == [state |-> "DELETED"]
HoldValues == {NoHold, Deleted}
    \cup [state : {"HELD", "CONSUMED", "RELEASED"}, ticket : Tickets, qty : Nat,
          entry : BOOLEAN, left : Nat, wish : SUBSET Wishes]

Phases == {"idle", "assigned", "waiting", "working", "returned", "closed", "deleted"}
WishStates == {"NONE", "PENDING", "ISSUED", "CANCELLED", "REJECTED"}

Idle == [op |-> "idle"]
RequestOK(r) ==
    \/ r = Idle
    \/ /\ r.op = "hold"
       /\ r \in [op : {"hold"}, hold : Holds, mat : Stones, qty : Qty, ticket : Tickets,
                 wish : SUBSET Wishes]
    \/ /\ r.op \in {"stock", "consume"}
       /\ DOMAIN r = {"op", "rows", "opening", "locked", "summed", "sum", "tickets"}
       /\ DOMAIN r.rows \subseteq AllRows /\ \A x \in DOMAIN r.rows : r.rows[x] \in RowValues
       /\ DOMAIN r.opening \subseteq Materials /\ \A m \in DOMAIN r.opening : r.opening[m] \in Nat
       /\ r.locked \subseteq Materials /\ r.summed \in BOOLEAN
       /\ r.sum \in [Materials -> Int] /\ r.tickets \subseteq Tickets

StoneTypeOK ==
    /\ opening \in [Materials -> Nat]
    /\ row \in [AllRows -> RowValues]
    /\ ledger \in [Materials -> Int]
    /\ draft \in [Holds -> DraftValues]
    /\ hold \in [Holds -> HoldValues]
    /\ ticket \in [Tickets -> [phase : Phases, worked : BOOLEAN]]
    /\ wish \in [Wishes -> [state : WishStates, ticket : SUBSET Tickets]]
    /\ DOMAIN req = Clients /\ \A c \in Clients : RequestOK(req[c])

Init ==
    /\ opening = [m \in Materials |-> Opening]
    /\ row = [r \in AllRows |-> NoRow]
    /\ ledger = [m \in Materials |-> Opening]
    /\ draft = [h \in Holds |-> NoDraft]
    /\ hold = [h \in Holds |-> NoHold]
    /\ ticket \in [Tickets -> [phase : {"idle"}, worked : BOOLEAN]]
    /\ wish = [w \in Wishes |-> [state |-> "NONE", ticket |-> {}]]
    /\ req = [c \in Clients |-> Idle]

-----------------------------------------------------------------------------
(* What there is, what is promised, and who holds which lock.              *)
Signed(r, m) ==
    IF r.kind \in InKinds /\ r.mat = m THEN r.qty
    ELSE IF r.kind \in OutKinds /\ r.mat = m THEN -r.qty ELSE 0
NetOf(open, rows, m) == open[m] + SumFunctionOnSet([r \in AllRows |-> Signed(rows[r], m)], AllRows)

OnHand(m) == NetOf(opening, row, m)
Open(h) == draft[h].state = "DRAFT"
Promised(h, m) == IF Open(h) /\ draft[h].mat = m THEN draft[h].qty ELSE 0
HeldBy(hs, m) == SumFunctionOnSet([h \in Holds |-> Promised(h, m)], hs)
Held(m) == HeldBy(Holds, m)

InTx(c) == req[c].op \in {"stock", "consume"}
Locks(c) == IF InTx(c) THEN req[c].locked ELSE IF req[c].op = "hold" THEN {req[c].mat} ELSE {}
BalanceFree(m) == \A c \in Clients : m \notin Locks(c)
RowsFree(rs) == \A c \in Clients : InTx(c) => DOMAIN req[c].rows \cap rs = {}
OrderFree == \A c \in Clients : req[c].op \notin {"hold", "consume"}

Exists(r, kinds) == row[r].kind \in kinds
Fresh(r) == Exists(r, {"NONE"}) /\ RowsFree({r})

Begin(c, r) == req[c] = Idle /\ req' = [req EXCEPT ![c] = r] /\ UNCHANGED <<store, stage>>

(* Rows f and openings g are written, the materials locked stay locked.    *)
StockTx(c, op, f, g, locked, ts) ==
    Begin(c, [op |-> op, rows |-> f, opening |-> g, locked |-> locked, summed |-> FALSE,
              sum |-> [m \in Materials |-> 0], tickets |-> ts])
WriteRows(c, f, locked) == StockTx(c, "stock", f, <<>>, locked, {})
One(r, v) == [x \in {r} |-> v]
Two(r, v, s, w) == [x \in {r, s} |-> IF x = r THEN v ELSE w]

-----------------------------------------------------------------------------
(* Movements entered by the storekeepers.                                  *)

(* assertEnoughStock: the balance row is locked, the rest is free.         *)
UnlockedEnough(m, q, was) == q <= OnHand(m) + was - Held(m)     \* fault variant
EnoughStock(m, q, was) == BalanceFree(m) /\ q <= OnHand(m) + was - Held(m)

CreateInbound(c) == \E m \in Materials, q \in Qty, r \in Rows :
    Fresh(r) /\ WriteRows(c, One(r, RowOf("IN", m, q, {})), {})

CreateOutbound(c) == \E m \in Materials, q \in Qty, r \in Rows :
    /\ Fresh(r)
    /\ EnoughStock(m, q, 0)
    /\ WriteRows(c, One(r, RowOf("OUT", m, q, {})), {m})

(* The same with a receiving warehouse: an inbound there, linked both ways. *)
Transfer(c) == \E m, to \in Materials, q \in Qty, r, s \in Rows :
    /\ m # to /\ r # s
    /\ Fresh(r) /\ Fresh(s)
    /\ EnoughStock(m, q, 0)
    /\ WriteRows(c, Two(r, RowOf("OUT", m, q, {s}), s, RowOf("TRANSFER_IN", to, q, {r})), {m})

OneSide(r, v, w) == One(r, v)           \* fault variant: the arrival stays as it was
(* An outbound row with the row of the receiving warehouse, if it has one. *)
WithPair(r, v, w) == [x \in {r} \cup row[r].pair |-> IF x = r THEN v ELSE w[x]]

(* The balance of the row is locked and checked, not that of its pair.      *)
UpdateOutbound(c) == \E r \in Rows, q \in Qty :
    /\ Exists(r, {"OUT"})
    /\ Corrections \/ row[r].pair = {}
    /\ RowsFree({r} \cup row[r].pair)
    /\ EnoughStock(row[r].mat, q, row[r].qty)
    /\ WriteRows(c, WithPair(r, [row[r] EXCEPT !.qty = q],
                     [x \in row[r].pair |-> [row[x] EXCEPT !.qty = q]]), {row[r].mat})

DeleteOutbound(c) == \E r \in Rows :
    /\ Corrections
    /\ Exists(r, {"OUT"})
    /\ RowsFree({r} \cup row[r].pair)
    /\ WriteRows(c, WithPair(r, Gone, [x \in row[r].pair |-> Gone]), {})

(* Rows of a transfer, and those the system entered, are not edited here.  *)
UpdateInbound(c) == \E r \in Rows, q \in Qty :
    /\ Corrections
    /\ Exists(r, {"IN"}) /\ RowsFree({r})
    /\ WriteRows(c, One(r, [row[r] EXCEPT !.qty = q]), {})

(* assertDeleteKeepsStockNonNegative, with no lock.                        *)
KeepsNonNegative(r) == OnHand(row[r].mat) - row[r].qty >= 0

DeleteInbound(c) == \E r \in Rows :
    /\ Corrections
    /\ Exists(r, {"IN"}) /\ RowsFree({r})
    /\ KeepsNonNegative(r)
    /\ WriteRows(c, One(r, Gone), {})

UpdateStock(c) == \E m \in Materials, q \in 0..Opening :
    Corrections /\ BalanceFree(m) /\ StockTx(c, "stock", <<>>, [x \in {m} |-> q], {m}, {})

-----------------------------------------------------------------------------
(* Movements the system enters itself.                                     *)

(* createAutoInbound increments the ledger instead of summing.             *)
CreateAutoInbound(c) == \E m \in Metals, q \in Qty, r \in Rows :
    /\ req[c] = Idle /\ Fresh(r)
    /\ BalanceFree(m)
    /\ row' = [row EXCEPT ![r] = RowOf("AUTO_IN", m, q, {})]
    /\ ledger' = [ledger EXCEPT ![m] = @ + q]
    /\ UNCHANGED <<opening, stage, req>>

RevokeAutoInbounds(c) == \E r \in Rows :
    /\ Exists(r, {"AUTO_IN"}) /\ RowsFree({r})
    /\ KeepsNonNegative(r)
    /\ WriteRows(c, One(r, Gone), {})

(* issueStockForOrder and issueStockForCastingSlip: the price layers must   *)
(* cover the quantity, nothing is locked and promises are not looked at.    *)
IssueStock(c) == \E m \in Metals, q \in Qty, r \in Rows :
    /\ Fresh(r)
    /\ q <= OnHand(m)
    /\ WriteRows(c, One(r, RowOf("AUTO_OUT", m, q, {})), {})

-----------------------------------------------------------------------------
(* recomputeStockBalance and the end of a transaction.                     *)
Written(rows, f) == [r \in AllRows |-> IF r \in DOMAIN f THEN f[r] ELSE rows[r]]
OpeningAfter(c) == [m \in Materials |->
    IF m \in DOMAIN req[c].opening THEN req[c].opening[m] ELSE opening[m]]
RowsAfter(c) == Written(row, req[c].rows)

MatOf(f, r) == IF "mat" \in DOMAIN f[r] THEN f[r].mat ELSE row[r].mat
RowsIn(c, m) == {r \in DOMAIN req[c].rows : MatOf(req[c].rows, r) = m}
SourceOnly(c) == {MatOf(req[c].rows, r) : r \in     \* fault variant: not the receiving store
                    {x \in DOMAIN req[c].rows : row[x].kind # "TRANSFER_IN"}}
                  \cup DOMAIN req[c].opening
Touched(c) == {m \in Materials : RowsIn(c, m) # {}} \cup DOMAIN req[c].opening
(* The second recompute of a material finds the row locked by the first.   *)
Twice(c) == {m \in Materials : Cardinality(RowsIn(c, m)) > 1}

Recompute(c) ==
    /\ InTx(c) /\ ~req[c].summed
    /\ \A m \in Twice(c) \ req[c].locked : BalanceFree(m)
    /\ req' = [req EXCEPT
            ![c].summed = TRUE,
            ![c].locked = @ \cup Twice(c),
            ![c].sum = [m \in Materials |-> NetOf(OpeningAfter(c), RowsAfter(c), m)]]
    /\ UNCHANGED <<store, stage>>

WriteStore(c) ==
    /\ InTx(c) /\ req[c].summed
    /\ \A m \in Touched(c) \ req[c].locked : BalanceFree(m)
    /\ opening' = OpeningAfter(c)
    /\ row' = RowsAfter(c)
    /\ ledger' = [m \in Materials |-> IF m \in Touched(c) THEN req[c].sum[m] ELSE ledger[m]]
    /\ req' = [req EXCEPT ![c] = Idle]

Commit(c) ==
    /\ req[c].op = "stock"
    /\ WriteStore(c)
    /\ UNCHANGED stage

Fail(c) ==
    /\ req[c] # Idle
    /\ req' = [req EXCEPT ![c] = Idle]
    /\ UNCHANGED <<store, stage>>

-----------------------------------------------------------------------------
(* Stones for a sub-ticket.                                                *)
HoldsOf(t) == {h \in Holds : hold[h].state = "HELD" /\ hold[h].ticket = t}
PendingHolds(t) == {h \in HoldsOf(t) : ~hold[h].entry}
EntryHolds(t) == {h \in HoldsOf(t) : hold[h].entry}
At(t, phases) == ticket[t].phase \in phases

SetPhase(t, p) == ticket' = [ticket EXCEPT ![t].phase = p]

(* closeOutboundDraft of the drafts of hs, and the release of those holds. *)
ReleasedIn(hs, holds) == [h \in Holds |->
    IF h \in hs THEN [holds[h] EXCEPT !.state = "RELEASED"] ELSE holds[h]]
KeptDrafts(hs) == draft                         \* fault variant: the store is not told
Voided(hs) == [h \in Holds |-> IF h \in hs /\ Open(h) THEN [draft[h] EXCEPT !.state = "VOID"] ELSE draft[h]]

ReleasePendingHolds(t) ==
    /\ hold' = ReleasedIn(PendingHolds(t), hold)
    /\ draft' = Voided(PendingHolds(t))

(* assertStoneFree under the balance row lock, then draft and hold.        *)
AskHold(c, t, ws) == \E h \in Holds, m \in Stones, q \in Qty :
    /\ hold[h] = NoHold
    /\ BalanceFree(m)
    /\ q <= OnHand(m) - HeldBy(Holds \ PendingHolds(t), m)
    /\ Begin(c, [op |-> "hold", hold |-> h, mat |-> m, qty |-> q, ticket |-> t, wish |-> ws])

NewHold(r, entry) == [state |-> "HELD", ticket |-> r.ticket, qty |-> r.qty, entry |-> entry,
                      left |-> 0, wish |-> r.wish]
NewDraft(r) == [state |-> "DRAFT", mat |-> r.mat, qty |-> r.qty]

(* assign of the stone stage, with the stones for it.                      *)
Assign(c) == \E t \in Tickets :
    OrderFree /\ At(t, {"idle"}) /\ AskHold(c, t, {})

AssignSave(c) ==
    LET r == req[c]
    IN  /\ r.op = "hold" /\ r.wish = {}
        /\ hold' = [ReleasedIn(PendingHolds(r.ticket), hold) EXCEPT ![r.hold] = NewHold(r, FALSE)]
        /\ draft' = [Voided(PendingHolds(r.ticket)) EXCEPT ![r.hold] = NewDraft(r)]
        /\ SetPhase(r.ticket, "assigned")
        /\ req' = [req EXCEPT ![c] = Idle]
        /\ UNCHANGED <<store, wish>>

Unclaim == \E t \in Tickets :
    /\ OrderFree /\ At(t, {"assigned"})
    /\ SetPhase(t, "waiting")
    /\ UNCHANGED <<store, draft, hold, wish, req>>

CancelPending == \E t \in Tickets :
    /\ OrderFree /\ At(t, {"assigned", "waiting"})
    /\ SetPhase(t, "idle")
    /\ ReleasePendingHolds(t)
    /\ UNCHANGED <<store, wish, req>>

(* accept: the worker takes the stage, the stones go into it.              *)
Accept == \E t \in Tickets :
    /\ OrderFree /\ At(t, {"assigned"})
    /\ ticket[t].worked
    /\ PendingHolds(t) # {}
    /\ SetPhase(t, "working")
    /\ hold' = [h \in Holds |-> IF h \in PendingHolds(t) THEN [hold[h] EXCEPT !.entry = TRUE] ELSE hold[h]]
    /\ UNCHANGED <<store, draft, wish, req>>

(* The tickets ts go, and by the foreign key their holds and requests.      *)
DeleteTickets(ts) ==
    /\ hold' = [h \in Holds |->
           IF "ticket" \in DOMAIN hold[h] /\ hold[h].ticket \in ts THEN Deleted ELSE hold[h]]
    /\ ticket' = [t \in Tickets |-> IF t \in ts THEN [ticket[t] EXCEPT !.phase = "deleted"] ELSE ticket[t]]
    /\ UNCHANGED <<store, wish, req>>

Remove == \E t \in Tickets :
    /\ OrderFree /\ At(t, {"idle", "assigned", "waiting", "closed"})
    /\ ~ticket[t].worked
    /\ draft' = Voided(PendingHolds(t))
    /\ DeleteTickets({t})

Live == {t \in Tickets : ~At(t, {"deleted"})}

(* clearSplit undoes the division of an order nobody has begun; it looks at *)
(* the tickets only, not at the holds.                                      *)
ClearSplit ==
    /\ OrderFree /\ Live # {}
    /\ \A t \in Live : At(t, {"idle"}) /\ ~ticket[t].worked
    /\ UNCHANGED draft
    /\ DeleteTickets(Live)

(* changeStatus to DEFECT takes back every stage still waiting.            *)
ChangeStatus ==
    LET pending == {t \in Tickets : At(t, {"assigned", "waiting"})}
    IN  /\ Office /\ OrderFree /\ pending # {}
        /\ ticket' = [t \in Tickets |-> IF t \in pending THEN [ticket[t] EXCEPT !.phase = "idle"] ELSE ticket[t]]
        /\ UNCHANGED <<store, draft, hold, wish, req>>

(* remove of the whole order, while no stage has been handed over.         *)
RemoveOrder ==
    /\ Office /\ OrderFree /\ Live # {}
    /\ \A t \in Live : ~ticket[t].worked
    /\ UNCHANGED draft
    /\ DeleteTickets(Live)

(* setOutcome: only a ticket nothing is going on with.                     *)
Closable(t) == At(t, {"idle"})
SetOutcome == \E t \in Tickets :
    /\ OrderFree /\ At(t, {"idle", "assigned", "waiting"})
    /\ Closable(t)
    /\ SetPhase(t, "closed")
    /\ UNCHANGED <<store, draft, hold, wish, req>>

-----------------------------------------------------------------------------
(* The worker asks for more; somebody else issues, refuses or he cancels.  *)
CreateWish == \E w \in Wishes, t \in Tickets :
    /\ OrderFree /\ At(t, {"working"})
    /\ wish[w].state = "NONE"
    /\ wish' = [wish EXCEPT ![w] = [state |-> "PENDING", ticket |-> {t}]]
    /\ UNCHANGED <<store, draft, hold, ticket, req>>

Pending(w) == wish[w].state = "PENDING"

EndWish == \E w \in Wishes, end \in {"CANCELLED", "REJECTED"} :
    /\ OrderFree /\ Pending(w)
    /\ wish' = [wish EXCEPT ![w].state = end]
    /\ UNCHANGED <<store, draft, hold, ticket, req>>

IssueWish(c) == \E w \in Wishes : \E t \in wish[w].ticket :
    OrderFree /\ Pending(w) /\ At(t, {"working"}) /\ AskHold(c, t, {w})

IssueWishSave(c) ==
    LET r == req[c]
    IN  /\ r.op = "hold" /\ r.wish # {}
        /\ hold' = [hold EXCEPT ![r.hold] = NewHold(r, TRUE)]
        /\ draft' = [draft EXCEPT ![r.hold] = NewDraft(r)]
        /\ wish' = [w \in Wishes |-> IF w \in r.wish THEN [wish[w] EXCEPT !.state = "ISSUED"] ELSE wish[w]]
        /\ req' = [req EXCEPT ![c] = Idle]
        /\ UNCHANGED <<store, ticket>>

-----------------------------------------------------------------------------
(* Back from the worker: early, at quality control, at the confirmation.   *)

AnyBag(h) == Qty                                \* fault variant: more than was held
Bag(h) == 1..hold[h].qty

(* returnStoneEarly: the part handed back leaves the hold and its draft.   *)
ReturnStoneEarly == \E t \in Tickets, h \in Holds :
    /\ OrderFree /\ At(t, {"working"}) /\ h \in EntryHolds(t)
    /\ \E back \in Bag(h) :
        LET kept == hold[h].qty - back
            end == kept = 0
        IN  /\ hold' = [hold EXCEPT ![h].qty = kept, ![h].state = IF end THEN "RELEASED" ELSE @]
            /\ draft' = [draft EXCEPT ![h].qty = kept, ![h].state = IF end THEN "VOID" ELSE @]
    /\ UNCHANGED <<store, ticket, wish, req>>

(* returnStage and its correction: what is left over of every hold.        *)
ReturnStage == \E t \in Tickets :
    /\ OrderFree /\ At(t, {"working", "returned"})
    /\ \E left \in [EntryHolds(t) -> 0..MaxQty] :
        /\ \A h \in EntryHolds(t) : left[h] <= hold[h].qty
        /\ hold' = [h \in Holds |->
               IF h \in EntryHolds(t) THEN [hold[h] EXCEPT !.left = left[h]] ELSE hold[h]]
    /\ SetPhase(t, "returned")
    /\ UNCHANGED <<store, draft, wish, req>>

(* consumeStoneHolds, in the keeper's confirmation: what was used leaves   *)
(* the store, under the order row's lock but not the balance row's.        *)
Used(h) == hold[h].qty - hold[h].left
UsedHolds(t) == {h \in EntryHolds(t) : Used(h) > 0}

ConsumeStoneHolds(c) == \E t \in Tickets :
    /\ OrderFree /\ At(t, {"returned"})
    /\ \A m \in Stones : MapThenSumSet(Used, {h \in UsedHolds(t) : draft[h].mat = m}) <= OnHand(m)
    /\ StockTx(c, "consume",
           [h \in UsedHolds(t) |-> RowOf("AUTO_OUT", draft[h].mat, Used(h), {})], <<>>, {}, {t})

ConfirmSave(c) ==
    /\ req[c].op = "consume"
    /\ WriteStore(c)
    /\ \E t \in req[c].tickets :
        /\ draft' = [h \in Holds |->
               IF h \in DOMAIN req[c].rows THEN [draft[h] EXCEPT !.state = "POSTED"]
               ELSE IF h \in EntryHolds(t) THEN [draft[h] EXCEPT !.state = "VOID"] ELSE draft[h]]
        /\ hold' = [h \in Holds |->
               IF h \in DOMAIN req[c].rows THEN [hold[h] EXCEPT !.state = "CONSUMED"]
               ELSE IF h \in EntryHolds(t) THEN [hold[h] EXCEPT !.state = "RELEASED"] ELSE hold[h]]
        /\ SetPhase(t, "idle")
    /\ UNCHANGED wish

-----------------------------------------------------------------------------
StoreStep(c) ==
    \/ CreateInbound(c) \/ CreateOutbound(c) \/ Transfer(c) \/ UpdateOutbound(c)
    \/ DeleteOutbound(c) \/ UpdateInbound(c) \/ DeleteInbound(c) \/ UpdateStock(c)
    \/ CreateAutoInbound(c) \/ RevokeAutoInbounds(c) \/ IssueStock(c)
    \/ Recompute(c) \/ Commit(c) \/ Fail(c)

StageStep(c) ==
    \/ Assign(c) \/ AssignSave(c) \/ IssueWish(c) \/ IssueWishSave(c)
    \/ ConsumeStoneHolds(c) \/ ConfirmSave(c)

Next ==
    \/ \E c \in Clients : StoreStep(c) \/ StageStep(c)
    \/ Unclaim \/ CancelPending \/ Accept \/ Remove \/ SetOutcome
    \/ ClearSplit \/ ChangeStatus \/ RemoveOrder
    \/ CreateWish \/ EndWish \/ ReturnStoneEarly \/ ReturnStage

Spec == Init /\ [][Next]_stones

-----------------------------------------------------------------------------
(* "Stones held for a stone-setting ticket are not issued by hand for       *)
(* something else" (assertEnoughStock): whatever the desks do at the same    *)
(* moment, what is promised is in the store.  Holds where rows already       *)
(* entered are only corrected against the promises of their balance.         *)
HeldWithinStock == \A m \in Stones : Held(m) <= OnHand(m)

(* The store's side of a reservation and production's side tell the same:   *)
(* what is held by the one is a draft of the other, of the same quantity,    *)
(* and a draft is posted exactly when its hold was consumed.                 *)
DraftsMatchHolds == \A h \in Holds :
    /\ Open(h) <=> hold[h].state = "HELD"
    /\ Open(h) => draft[h].qty = hold[h].qty
    /\ draft[h].state = "POSTED" <=> hold[h].state = "CONSUMED"

(* A promise always has somebody who will end it: the ticket waits for its  *)
(* setter, or works on the stage, or its return is not confirmed yet.       *)
HeldIsOwned == \A t \in Tickets :
    /\ PendingHolds(t) # {} => At(t, {"assigned", "waiting"})
    /\ EntryHolds(t) # {} => At(t, {"working", "returned"})

(* A request for stones is answered once: with one hold, or refused.       *)
WishAnsweredOnce == \A w \in Wishes :
    LET got == {h \in Holds : "wish" \in DOMAIN hold[h] /\ w \in hold[h].wish}
    IN  Cardinality(got) <= 1 /\ (got # {} => wish[w].state = "ISSUED")

(* What left the store for a stage is what its setter kept: nothing more    *)
(* than was held for it and did not come back.                              *)
ConsumedIsUsed == \A h \in Holds :
    hold[h].state = "CONSUMED" => row[h].kind = "AUTO_OUT" /\ row[h].qty = hold[h].qty - hold[h].left

(* Both sides of every reservation agree to its end: in the drafts, with    *)
(* whoever will end it, in what it finally takes out of the store and in    *)
(* the request it answers.                                                  *)
HoldsBacked == DraftsMatchHolds /\ HeldIsOwned /\ ConsumedIsUsed /\ WishAnsweredOnce

(* When nothing is in flight, the ledger says what the rows add up to.      *)
LedgerAgrees ==
    (\A c \in Clients : req[c] = Idle) => \A m \in Materials : ledger[m] = OnHand(m)

(* What a transfer takes from one warehouse is what the other receives,      *)
(* through every later correction of either row, and no arrival is left      *)
(* without its departure.                                                   *)
TransfersWhole == \A r \in Rows :
    "pair" \in DOMAIN row[r] => \A s \in row[r].pair :
        "pair" \in DOMAIN row[s] /\ row[s].pair = {r} /\ row[s].qty = row[r].qty

(* The stock of a material as a promise keeper sees it.                     *)
Promise == INSTANCE StonePromise WITH
    Stones <- Stones, stock <- [m \in Stones |-> OnHand(m)], held <- [m \in Stones |-> Held(m)]
KeepsPromises == Promise!Spec
=============================================================================
