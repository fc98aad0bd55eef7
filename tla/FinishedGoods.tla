---------------------------- MODULE FinishedGoods ----------------------------
(***************************************************************************)
(* The last half of an order: the receipt of its finished pieces into the  *)
(* finished-goods store, the shipments that take them out and the          *)
(* accountant's approval (FinishedGoodsService), with the endpoints of     *)
(* production and office that create, rewrite or drop a receipt.           *)
(*                                                                         *)
(* No endpoint of the store locks a row: each reads and then writes        *)
(* absolute values.  An action XxxAsk is the read outside a transaction,   *)
(* XxxRead the reads inside one (taken as one step) and XxxSave its writes, *)
(* which show at the commit.  The outcome of a sub-ticket is written under *)
(* a lock on the order row; writes to that row wait for it.                *)
(***************************************************************************)
EXTENDS Naturals, FiniteSets, FiniteSetsExt

CONSTANTS
    Orders,         \* order ids
    SplitOrders,    \* the orders divided into sub-tickets, of one piece each
    Ships,          \* shipment ids
    Keepers,        \* concurrent requests that write receipts
    Shippers,       \* concurrent requests that write or approve shipments
    Planners,       \* concurrent requests of production and office
    Pieces,         \* pieces of an order
    MaxQty,         \* bound: pieces on a receipt
    MaxReceipts,    \* bound: receipts an order is given, one after another
    MayDie          \* whether a request may stop between two of its writes

Clients == Keepers \cup Shippers \cup Planners

ASSUME PiecesAssumption == Pieces \in Nat \ {0} /\ MaxQty \in Nat /\ MaxReceipts \in Nat
ASSUME SplitAssumption == SplitOrders \subseteq Orders
ASSUME MayDieAssumption == MayDie \in BOOLEAN
ASSUME ShipsAssumption == IsFiniteSet(Ships)

VARIABLES
    ostatus,    \* production_orders.status; WORK is every status before PLATED
    returned,   \* production_orders.returned_qty
    tickets,    \* how many sub-tickets of the order were closed as passed, as failed
    receipt,    \* finished_goods_receipts row of each order
    ship,       \* shipments rows with their lines
    req         \* what each client has read and not yet written

goods == <<ostatus, returned, tickets, receipt, ship, req>>

Statuses == {"ABSENT", "WORK", "DEFECT", "PLATED", "FINISHING", "DELIVERED"}
FINISHED == {"PLATED", "FINISHING"}

Receipts == [id : Nat, live : BOOLEAN, qty : Nat, stocked : Nat]
NoReceipt == [id |-> 0, live |-> FALSE, qty |-> 0, stocked |-> 0]
NoLines == [o \in Orders |-> 0]
LineChoices == [Orders -> 0..Pieces]
ShipRow == [state : {"ABSENT", "PENDING", "APPROVED", "GONE"}, line : LineChoices]

(* What syncOrders is going to write: the orders it changes and how.       *)
Plans == [Orders -> [write : BOOLEAN, returned : Nat, status : Statuses]]
NoWrite == [write |-> FALSE, returned |-> 0, status |-> "ABSENT"]

Idle == [op |-> "idle"]
Requests ==
    {Idle}
    \cup [op : {"addStock", "receive", "update"}, order : Orders, id : Nat, qty : Nat, stocked : Nat]
    \cup [op : {"delete"}, order : Orders, id : Nat]
    \cup [op : {"sync"}, order : Orders]
    \cup [op : {"syncSave"}, order : Orders, status : Statuses]
    \cup [op : {"updateShip", "removeShip", "approve"}, ship : Ships, orders : SUBSET Orders]
    \cup [op : {"createShipSave"}, line : LineChoices, plan : Plans]
    \cup [op : {"updateShipSave", "removeShipSave", "approveSave"}, ship : Ships,
          line : LineChoices, plan : Plans]
    \cup [op : {"finish", "undoFinish"}, order : Orders]
    \cup [op : {"defect"}, order : Orders, leave : BOOLEAN]
    \cup [op : {"pass", "fail", "clearPass", "clearFail"}, order : Orders,
          held : BOOLEAN, stocked : Nat]

GoodsTypeOK ==
    /\ ostatus \in [Orders -> Statuses]
    /\ returned \in [Orders -> Nat]
    /\ tickets \in [Orders -> [passed : Nat, failed : Nat]]
    /\ receipt \in [Orders -> Receipts]
    /\ ship \in [Ships -> ShipRow]
    /\ req \in [Clients -> Requests]

Init ==
    /\ ostatus = [o \in Orders |-> "ABSENT"]
    /\ returned = [o \in Orders |-> 0]
    /\ tickets = [o \in Orders |-> [passed |-> 0, failed |-> 0]]
    /\ receipt = [o \in Orders |-> NoReceipt]
    /\ ship = [s \in Ships |-> [state |-> "ABSENT", line |-> NoLines]]
    /\ req = [c \in Clients |-> Idle]

-----------------------------------------------------------------------------
HasReceipt(o) == receipt[o].live
finishedStatusOf(r) == IF r.live /\ r.stocked >= r.qty THEN "FINISHING" ELSE "PLATED"

(* Pieces of an order on the lines of some shipments.                      *)
OnLines(o, ss) == SumFunctionOnSet([s \in Ships |-> ship[s].line[o]], ss)
Shipped(o) == OnLines(o, Ships)
OrdersOn(s) == {o \in Orders : ship[s].line[o] > 0}

(* returned_qty is the sum over the shipments that wait for nobody.        *)
ApprovedLine(o) ==
    [s \in Ships |-> IF ship[s].state = "APPROVED" THEN ship[s].line[o] ELSE 0]
SumOf(f) == SumFunctionOnSet(f, Ships)

Ask(c, r) ==
    /\ req[c] = Idle
    /\ req' = [req EXCEPT ![c] = r]
    /\ UNCHANGED <<ostatus, returned, tickets, receipt, ship>>
Go(c, r) == req' = [req EXCEPT ![c] = r]
Reply(c) == Go(c, Idle)

Fail(c) ==
    /\ req[c] # Idle
    /\ req[c].op \in {"sync", "syncSave"} => MayDie
    /\ Reply(c)
    /\ UNCHANGED <<ostatus, returned, tickets, receipt, ship>>

(* SELECT ... FOR UPDATE on the order row, held until the commit.          *)
TicketOps == {"pass", "fail", "clearPass", "clearFail"}
Unlocked(os) ==
    \A c \in Clients : req[c].op \in TicketOps => req[c].order \notin os

(* A transaction that has written the shipment row holds it until it ends.  *)
(* Two rewrites of the same shipment are taken one after the other; that    *)
(* the second's delete may then miss the first's lines is not modelled.    *)
ShipSaves == {"updateShipSave", "removeShipSave", "approveSave"}
ShipUnlocked(s) == \A c \in Clients : req[c].op \in ShipSaves => req[c].ship # s

NewReceipt(o, qty, stocked) ==
    /\ receipt[o].id < MaxReceipts
    /\ receipt' = [receipt EXCEPT ![o] =
            [id |-> @.id + 1, live |-> TRUE, qty |-> qty, stocked |-> stocked]]
DropReceipt(o) ==
    /\ HasReceipt(o)
    /\ receipt' = [receipt EXCEPT ![o] = [NoReceipt EXCEPT !.id = receipt[o].id]]

-----------------------------------------------------------------------------
(* Receipts.                                                               *)

(* createStockEntry: finished pieces that no order produced.               *)
CreateStockEntry(o) ==
    /\ ostatus[o] = "ABSENT"
    /\ o \notin SplitOrders
    /\ \E q \in 0..Pieces : NewReceipt(o, q, q)
    /\ ostatus' = [ostatus EXCEPT ![o] = "FINISHING"]
    /\ UNCHANGED <<returned, tickets, ship, req>>

(* createReceipt on an order: more pieces, already on the shelf.           *)
AddStockAsk(c, o) ==
    \E n \in 1..MaxQty :
        /\ HasReceipt(o)
        /\ receipt[o].qty + n <= MaxQty
        /\ Ask(c, [op |-> "addStock", order |-> o, id |-> receipt[o].id,
                   qty |-> receipt[o].qty + n, stocked |-> receipt[o].stocked + n])

AddStockSave(c) ==
    LET r == req[c]
    IN  /\ r.op = "addStock"
        /\ HasReceipt(r.order) /\ receipt[r.order].id = r.id
        /\ receipt' = [receipt EXCEPT ![r.order].qty = r.qty, ![r.order].stocked = r.stocked]
        /\ Reply(c)
        /\ UNCHANGED <<ostatus, returned, tickets, ship>>

(* receiveReceipt: the keeper counts all or part of what waits.            *)
AnyPending(o, n) == TRUE                    \* fault variant
StillPending(o, n) == receipt[o].stocked + n <= receipt[o].qty

ReceiveAsk(c, o) ==
    \E n \in 1..MaxQty :
        /\ HasReceipt(o)
        /\ StillPending(o, n)
        /\ Ask(c, [op |-> "receive", order |-> o, id |-> receipt[o].id,
                   qty |-> receipt[o].qty, stocked |-> receipt[o].stocked + n])

ReceiveSave(c) ==
    LET r == req[c]
    IN  /\ r.op = "receive"
        /\ HasReceipt(r.order) /\ receipt[r.order].id = r.id
        /\ receipt' = [receipt EXCEPT ![r.order].stocked = r.stocked]
        /\ Go(c, [op |-> "sync", order |-> r.order])
        /\ UNCHANGED <<ostatus, returned, tickets, ship>>

(* updateReceipt: a recount.  A receipt that was full follows the new      *)
(* number, another is only cut.                                            *)
StockedAfter(r, q) ==
    IF r.stocked = r.qty THEN q ELSE IF r.stocked < q THEN r.stocked ELSE q

UpdateReceiptAsk(c, o) ==
    \E q \in 0..MaxQty :
        /\ HasReceipt(o)
        /\ q >= Shipped(o)
        /\ Ask(c, [op |-> "update", order |-> o, id |-> receipt[o].id,
                   qty |-> q, stocked |-> StockedAfter(receipt[o], q)])

UpdateReceiptSave(c) ==
    LET r == req[c]
    IN  /\ r.op = "update"
        /\ HasReceipt(r.order)
        /\ Unlocked({r.order})
        /\ receipt' = [receipt EXCEPT ![r.order].qty = r.qty, ![r.order].stocked = r.stocked]
        /\ Go(c, [op |-> "sync", order |-> r.order])
        /\ UNCHANGED <<ostatus, returned, tickets, ship>>

DeleteReceiptAsk(c, o) ==
    /\ HasReceipt(o)
    /\ Shipped(o) = 0
    /\ Ask(c, [op |-> "delete", order |-> o, id |-> receipt[o].id])

DeleteReceiptSave(c) ==
    /\ req[c].op = "delete"
    /\ receipt[req[c].order].id = req[c].id
    /\ DropReceipt(req[c].order)
    /\ Reply(c)
    /\ UNCHANGED <<ostatus, returned, tickets, ship>>

(* syncFinishedStatus, after the receipt was written: a read and a write.  *)
OnlyReopened(o, to) == ostatus[o] = "FINISHING" /\ to = "PLATED"    \* fault variant
NeedsSync(o, to) == ostatus[o] \in FINISHED \ {to}

SyncAsk(c) ==
    LET o == req[c].order
        to == finishedStatusOf(receipt[o])
    IN  /\ req[c].op = "sync"
        /\ IF HasReceipt(o) /\ NeedsSync(o, to)
           THEN Go(c, [op |-> "syncSave", order |-> o, status |-> to])
           ELSE Reply(c)
        /\ UNCHANGED <<ostatus, returned, tickets, receipt, ship>>

SyncSave(c) ==
    /\ req[c].op = "syncSave"
    /\ Unlocked({req[c].order})
    /\ ostatus' = [ostatus EXCEPT ![req[c].order] = req[c].status]
    /\ Reply(c)
    /\ UNCHANGED <<returned, tickets, receipt, ship>>

-----------------------------------------------------------------------------
(* Shipments.                                                              *)

(* buildLines: every order of the lines has a receipt with enough left,    *)
(* the lines of the shipment being rewritten not counted.                  *)
UncheckedOffers(line, others) ==            \* fault variant
    line # NoLines /\ \A o \in Orders : line[o] > 0 => HasReceipt(o)
Offers(line, others) ==
    /\ line # NoLines
    /\ \A o \in Orders : line[o] > 0 =>
        HasReceipt(o) /\ OnLines(o, others) + line[o] <= receipt[o].stocked

(* syncOrders: what it writes on the orders os when their approved lines   *)
(* are those of the function lines.                                        *)
PlanFor(os, lines) ==
    LET sum(o) == SumOf(lines[o])
        finishedQty(o) == IF HasReceipt(o) THEN receipt[o].qty ELSE Pieces
        delivered(o) == sum(o) > 0 /\ sum(o) >= finishedQty(o)
        next(o) == IF delivered(o) THEN "DELIVERED"
                   ELSE IF ostatus[o] = "DELIVERED" THEN finishedStatusOf(receipt[o])
                   ELSE ostatus[o]
        changed == {o \in os :
            sum(o) # returned[o] \/ next(o) # ostatus[o]}
    IN  [o \in Orders |-> IF o \in changed
            THEN [write |-> TRUE, returned |-> sum(o), status |-> next(o)]
            ELSE NoWrite]

Apply(plan) ==
    /\ Unlocked({o \in Orders : plan[o].write})
    /\ returned' = [o \in Orders |-> IF plan[o].write THEN plan[o].returned ELSE returned[o]]
    /\ ostatus' = [o \in Orders |-> IF plan[o].write THEN plan[o].status ELSE ostatus[o]]
    /\ UNCHANGED <<tickets, receipt>>

(* The approved lines of every order, were s approved with the lines given. *)
ApprovedBefore(s, line) == [o \in Orders |-> ApprovedLine(o)]  \* fault variant
ApprovedWith(s, line) == [o \in Orders |-> [ApprovedLine(o) EXCEPT ![s] = line[o]]]
Approved == [o \in Orders |-> ApprovedLine(o)]
InPlay(line) == {o \in Orders : line[o] > 0}

CreateShipRead(c) ==
    \E line \in LineChoices :
        /\ Offers(line, Ships)
        /\ Ask(c, [op |-> "createShipSave", line |-> line,
                   plan |-> PlanFor(InPlay(line), Approved)])

CreateShipSave(c) ==
    /\ req[c].op = "createShipSave"
    /\ Unlocked(InPlay(req[c].line))
    /\ \E s \in Ships :
        /\ ship[s].state = "ABSENT"
        /\ ship' = [ship EXCEPT ![s] = [state |-> "PENDING", line |-> req[c].line]]
    /\ Apply(req[c].plan)
    /\ Reply(c)

ExistsShip(s) == ship[s].state \in {"PENDING", "APPROVED"}

(* requireShipment and the checks on it, outside the transaction.          *)
AskShip(c, op, s) == Ask(c, [op |-> op, ship |-> s, orders |-> OrdersOn(s)])
UpdateShipAskAny(c, s) == ExistsShip(s) /\ AskShip(c, "updateShip", s)  \* fault variant
UpdateShipAsk(c, s) == ship[s].state = "PENDING" /\ AskShip(c, "updateShip", s)
RemoveShipAsk(c, s) == ExistsShip(s) /\ AskShip(c, "removeShip", s)
ApproveAsk(c, s) == ship[s].state = "PENDING" /\ AskShip(c, "approve", s)

(* The transaction of a shipment that exists: it takes the row and reads.  *)
ReadShip(c, op, line, plan) ==
    /\ ShipUnlocked(req[c].ship)
    /\ Go(c, [op |-> op, ship |-> req[c].ship, line |-> line, plan |-> plan])
    /\ UNCHANGED <<ostatus, returned, tickets, receipt, ship>>

UpdateShipRead(c) ==
    LET s == req[c].ship
    IN  \E line \in LineChoices :
        /\ req[c].op = "updateShip"
        /\ ExistsShip(s)
        /\ Offers(line, Ships \ {s})
        /\ ReadShip(c, "updateShipSave", line,
               PlanFor(req[c].orders \cup InPlay(line),
                       IF ship[s].state = "APPROVED" THEN ApprovedWith(s, line) ELSE Approved))

RemoveShipRead(c) ==
    /\ req[c].op = "removeShip"
    /\ ExistsShip(req[c].ship)
    /\ ReadShip(c, "removeShipSave", NoLines,
           PlanFor(req[c].orders, ApprovedWith(req[c].ship, NoLines)))

(* The claim: pending_approval is in the WHERE of the update.              *)
ApproveRead(c) ==
    LET s == req[c].ship
    IN  /\ req[c].op = "approve"
        /\ ship[s].state = "PENDING"
        /\ ReadShip(c, "approveSave", ship[s].line,
               PlanFor(req[c].orders, ApprovedWith(s, ship[s].line)))

SaveShip(c, op, row) ==
    /\ req[c].op = op
    /\ ship' = [ship EXCEPT ![req[c].ship] = row]
    /\ Apply(req[c].plan)
    /\ Reply(c)

UpdateShipSave(c) ==
    /\ SaveShip(c, "updateShipSave",
                [state |-> ship[req[c].ship].state, line |-> req[c].line])
    /\ Unlocked(InPlay(req[c].line))
RemoveShipSave(c) == SaveShip(c, "removeShipSave", [state |-> "GONE", line |-> NoLines])
ApproveSave(c) == SaveShip(c, "approveSave", [state |-> "APPROVED", line |-> req[c].line])

-----------------------------------------------------------------------------
(* Production and office.                                                  *)
Split(o) == o \in SplitOrders
Closed(o) == tickets[o].passed + tickets[o].failed
OpenTickets(o) == Split(o) /\ Closed(o) < Pieces

(* An order goes into the stages, for the first time or after a defect.    *)
Enter(o) ==
    /\ ostatus[o] \in {"ABSENT", "DEFECT"}
    /\ ~HasReceipt(o)
    /\ Split(o) => OpenTickets(o)
    /\ Unlocked({o})
    /\ ostatus' = [ostatus EXCEPT ![o] = "WORK"]
    /\ UNCHANGED <<returned, tickets, receipt, ship, req>>

(* finish, and advanceAfterQc for an order without sub-tickets: the number *)
(* of good pieces of the last stage becomes the receipt.                   *)
FinishAsk(c, o) ==
    /\ ~Split(o)
    /\ ostatus[o] \notin {"ABSENT", "DELIVERED"}
    /\ ~HasReceipt(o)
    /\ Ask(c, [op |-> "finish", order |-> o])

FinishSave(c) ==
    LET o == req[c].order
    IN  /\ req[c].op = "finish"
        /\ ~HasReceipt(o)                   \* order_id is unique
        /\ \E q \in 1..Pieces : NewReceipt(o, q, 0)
        /\ ostatus' = [ostatus EXCEPT ![o] = "PLATED"]
        /\ Reply(c)
        /\ UNCHANGED <<returned, tickets, ship>>

UndoFinishAsk(c, o) ==
    /\ HasReceipt(o)
    /\ Closed(o) = 0
    /\ Shipped(o) = 0
    /\ Ask(c, [op |-> "undoFinish", order |-> o])

UndoFinishSave(c) ==
    LET o == req[c].order
    IN  /\ req[c].op = "undoFinish"
        /\ Unlocked({o})
        /\ DropReceipt(o)
        /\ ostatus' = [ostatus EXCEPT ![o] = "WORK"]
        /\ Reply(c)
        /\ UNCHANGED <<returned, tickets, ship>>

(* changeStatus to DEFECT: what is in the store and not shipped leaves it. *)
DefectAsk(c, o) ==
    /\ ostatus[o] \notin {"ABSENT", "DEFECT", "DELIVERED"}
    /\ HasReceipt(o) => Shipped(o) = 0
    /\ Ask(c, [op |-> "defect", order |-> o, leave |-> HasReceipt(o)])

DefectSave(c) ==
    LET o == req[c].order
    IN  /\ req[c].op = "defect"
        /\ Unlocked({o})
        /\ IF req[c].leave THEN DropReceipt(o) ELSE UNCHANGED receipt
        /\ ostatus' = [ostatus EXCEPT ![o] = "DEFECT"]
        /\ Reply(c)
        /\ UNCHANGED <<returned, tickets, ship>>

(* A sub-ticket is closed (setOutcome, advanceAfterQc, closeTicketAsDefect) *)
(* or its outcome is taken back (clearOutcome).  The transaction locks the *)
(* order and reads it with its receipt.  setOutcome refuses a DELIVERED     *)
(* order, advanceAfterQc and closeTicketAsDefect do not.                    *)
AskTicket(c, op, o) ==
    /\ Split(o)
    /\ Unlocked({o})
    /\ Ask(c, [op |-> op, order |-> o, held |-> HasReceipt(o), stocked |-> receipt[o].stocked])

CloseTicketAsk(c, o) ==
    /\ OpenTickets(o)
    /\ ostatus[o] # "ABSENT"
    /\ \E op \in {"pass", "fail"} : AskTicket(c, op, o)

ClearOutcomeAsk(c, o) ==
    /\ Shipped(o) = 0
    /\ \/ tickets[o].passed > 0 /\ AskTicket(c, "clearPass", o)
       \/ tickets[o].failed > 0 /\ AskTicket(c, "clearFail", o)

TicketsAfter(op, t) ==
    CASE op = "pass"      -> [t EXCEPT !.passed = @ + 1]
      [] op = "fail"      -> [t EXCEPT !.failed = @ + 1]
      [] op = "clearPass" -> [t EXCEPT !.passed = @ - 1]
      [] op = "clearFail" -> [t EXCEPT !.failed = @ - 1]

(* syncOrder: the passed tickets are the receipt, and the order is done    *)
(* when its last ticket is.                                                *)
SyncOrderSave(c) ==
    LET r == req[c]
        o == r.order
        t == TicketsAfter(r.op, tickets[o])
        done == t.passed + t.failed = Pieces
        kept == IF r.stocked < t.passed THEN r.stocked ELSE t.passed
    IN  /\ r.op \in TicketOps
        /\ tickets' = [tickets EXCEPT ![o] = t]
        /\ IF t.passed > 0 THEN
               IF HasReceipt(o)
               THEN receipt' = [receipt EXCEPT ![o].qty = t.passed, ![o].stocked = kept]
               ELSE NewReceipt(o, t.passed, 0)
           ELSE IF r.held THEN DropReceipt(o) ELSE UNCHANGED receipt
        /\ ostatus' = [ostatus EXCEPT ![o] =
               IF done THEN IF t.passed > 0 THEN finishedStatusOf(receipt'[o]) ELSE "DEFECT"
               ELSE IF @ \in FINISHED \cup {"DEFECT"} THEN "WORK" ELSE @]
        /\ Reply(c)
        /\ UNCHANGED <<returned, ship>>

-----------------------------------------------------------------------------
KeeperStep(c) ==
    \/ \E o \in Orders : AddStockAsk(c, o) \/ ReceiveAsk(c, o)
                            \/ UpdateReceiptAsk(c, o) \/ DeleteReceiptAsk(c, o)
    \/ AddStockSave(c) \/ ReceiveSave(c) \/ UpdateReceiptSave(c) \/ DeleteReceiptSave(c)
    \/ SyncAsk(c) \/ SyncSave(c)

ShipperStep(c) ==
    \/ CreateShipRead(c)
    \/ \E s \in Ships : UpdateShipAsk(c, s) \/ RemoveShipAsk(c, s) \/ ApproveAsk(c, s)
    \/ UpdateShipRead(c) \/ RemoveShipRead(c) \/ ApproveRead(c)
    \/ CreateShipSave(c) \/ UpdateShipSave(c) \/ RemoveShipSave(c) \/ ApproveSave(c)

PlannerStep(c) ==
    \/ \E o \in Orders : FinishAsk(c, o) \/ UndoFinishAsk(c, o) \/ DefectAsk(c, o)
                            \/ CloseTicketAsk(c, o) \/ ClearOutcomeAsk(c, o)
    \/ FinishSave(c) \/ UndoFinishSave(c) \/ DefectSave(c) \/ SyncOrderSave(c)

Next ==
    \/ \E o \in Orders : CreateStockEntry(o) \/ Enter(o)
    \/ \E c \in Keepers : KeeperStep(c)
    \/ \E c \in Shippers : ShipperStep(c)
    \/ \E c \in Planners : PlannerStep(c)
    \/ \E c \in Clients : Fail(c)

Spec == Init /\ [][Next]_goods

-----------------------------------------------------------------------------
(* The comment in updateReceipt: "stockedQty never exceeds qty", whatever   *)
(* production and the shipments do meanwhile.                               *)
StockedWithinQty == \A o \in Orders : receipt[o].stocked <= receipt[o].qty

(* What an order says is delivered is what the accountant has approved.     *)
ReturnedIsSum == \A o \in Orders : returned[o] = SumOf(ApprovedLine(o))

(* Once approved, the lines of a shipment only change by its removal.       *)
ApprovedIsFrozen ==
    [][\A s \in Ships : ship[s].state = "APPROVED" => ship'[s] = ship[s] \/ ship'[s].state = "GONE"]_goods

(* Nothing is shipped that the keeper has not taken in, for orders that are *)
(* not divided into tickets.                                                *)
ShippedWithinStocked ==
    \A o \in Orders \ SplitOrders : Shipped(o) <= receipt[o].stocked

(* When no request is in hand, an order in the store says it is complete    *)
(* (FINISHING) exactly when its keeper has taken in all of it.              *)
Quiet == \A c \in Clients : req[c] = Idle
FinishedStatusRight ==
    Quiet => \A o \in Orders : ostatus[o] \in FINISHED /\ HasReceipt(o) =>
                 ostatus[o] = finishedStatusOf(receipt[o])

(* assertOrderActive: finished pieces go into the store at once "and the    *)
(* rest is still worked on; only an order closed as a whole is blocked".    *)
(* Its first test blocks a DELIVERED order, so no order with open tickets    *)
(* may be DELIVERED.                                                        *)
OpenTicketsWorkOn == \A o \in Orders : OpenTickets(o) => ostatus[o] # "DELIVERED"
=============================================================================
