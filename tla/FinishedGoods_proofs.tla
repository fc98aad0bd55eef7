------------------------ MODULE FinishedGoods_proofs ------------------------
(***************************************************************************)
(* Types of the finished-goods store for every instance, the two counts it *)
(* keeps when the requests that write them do not overlap, and what holds  *)
(* when no two requests do: nothing is shipped that is not in the store,   *)
(* and every order in it has the status its receipt says.                  *)
(***************************************************************************)
EXTENDS FinishedGoods, SumLemmas, TLAPS

(* The lock on the order row: one sub-ticket of an order is closed at a    *)
(* time, and the outcome it takes back is still there.                     *)
TicketLock ==
    \A c \in Clients : req[c].op \in TicketOps =>
        /\ req[c].op = "clearPass" => tickets[req[c].order].passed > 0
        /\ req[c].op = "clearFail" => tickets[req[c].order].failed > 0
        /\ \A d \in Clients \ {c} : req[d].op \in TicketOps => req[d].order # req[c].order

TInv == GoodsTypeOK /\ TicketLock

-----------------------------------------------------------------------------
(* What a request carries.                                                 *)
StockOps == {"addStock", "receive", "update"}
ShipAsks == {"updateShip", "removeShip", "approve"}
OrderOps == {"sync", "finish", "undoFinish"}
Ops == {"idle", "delete", "syncSave", "createShipSave", "defect"}
          \cup StockOps \cup ShipAsks \cup ShipSaves \cup OrderOps \cup TicketOps

LEMMA RequestShape ==
    ASSUME NEW r \in Requests
    PROVE  /\ r.op \in Ops
           /\ r.op \in StockOps => r.order \in Orders /\ r.id \in Nat /\ r.qty \in Nat /\ r.stocked \in Nat
           /\ r.op = "delete" => r.order \in Orders /\ r.id \in Nat
           /\ r.op \in OrderOps => r.order \in Orders
           /\ r.op = "syncSave" => r.order \in Orders /\ r.status \in Statuses
           /\ r.op \in ShipAsks => r.ship \in Ships /\ r.orders \in SUBSET Orders
           /\ r.op = "createShipSave" => r.line \in LineChoices /\ r.plan \in Plans
           /\ r.op \in ShipSaves => r.ship \in Ships /\ r.line \in LineChoices /\ r.plan \in Plans
           /\ r.op = "defect" => r.order \in Orders /\ r.leave \in BOOLEAN
           /\ r.op \in TicketOps => r.order \in Orders /\ r.held \in BOOLEAN /\ r.stocked \in Nat
  BY DEF Requests, Idle, StockOps, ShipAsks, OrderOps, Ops, ShipSaves, TicketOps

(* The replies of the handlers.                                            *)
LEMMA GoType ==
    ASSUME req \in [Clients -> Requests], NEW c \in Clients, NEW r \in Requests, Go(c, r)
    PROVE  /\ req' \in [Clients -> Requests]
           /\ req'[c] = r
           /\ \A d \in Clients \ {c} : req'[d] = req[d]
  BY DEF Go

LEMMA IdleType == Idle \in Requests /\ Idle.op = "idle"
  BY DEF Requests, Idle

(* A request enters or leaves without touching a row, and takes no lock.   *)
LEMMA QuietInv ==
    ASSUME TInv, NEW c \in Clients, NEW r \in Requests, Go(c, r),
           r.op \notin TicketOps,
           UNCHANGED <<ostatus, returned, tickets, receipt, ship>>
    PROVE  TInv'
<1>1. /\ req' \in [Clients -> Requests]
      /\ req'[c] = r
      /\ \A d \in Clients \ {c} : req'[d] = req[d]
  BY GoType DEF TInv, GoodsTypeOK
<1>2. GoodsTypeOK'
  BY <1>1 DEF TInv, GoodsTypeOK
<1>3. TicketLock'
  BY <1>1 DEF TInv, TicketLock
<1> QED
  BY <1>2, <1>3 DEF TInv

LEMMA AskInv ==
    ASSUME TInv, NEW c \in Clients, NEW r \in Requests, r.op \notin TicketOps, Ask(c, r)
    PROVE  TInv'
  BY QuietInv DEF Ask, Go

(* A writer leaves its request, or goes on to the next step of its handler, *)
(* and the rows it wrote are rows.                                         *)
LEMMA SaveInv ==
    ASSUME TInv, NEW c \in Clients, NEW r \in Requests, Go(c, r),
           r.op \notin TicketOps,
           tickets' = tickets,
           ostatus' \in [Orders -> Statuses],
           returned' \in [Orders -> Nat],
           receipt' \in [Orders -> Receipts],
           ship' \in [Ships -> ShipRow]
    PROVE  TInv'
<1>1. /\ req' \in [Clients -> Requests]
      /\ req'[c] = r
      /\ \A d \in Clients \ {c} : req'[d] = req[d]
  BY GoType DEF TInv, GoodsTypeOK
<1>2. GoodsTypeOK'
  BY <1>1 DEF TInv, GoodsTypeOK
<1>3. TicketLock'
  BY <1>1 DEF TInv, TicketLock
<1> QED
  BY <1>2, <1>3 DEF TInv

LEMMA ReceiptTypes ==
    ASSUME TInv, NEW o \in Orders
    PROVE  /\ receipt[o] \in Receipts
           /\ \A q \in Nat, t \in Nat : NewReceipt(o, q, t) => receipt' \in [Orders -> Receipts]
           /\ DropReceipt(o) => receipt' \in [Orders -> Receipts]
           /\ \A q \in Nat, t \in Nat :
                [receipt EXCEPT ![o].qty = q, ![o].stocked = t] \in [Orders -> Receipts]
           /\ \A t \in Nat : [receipt EXCEPT ![o].stocked = t] \in [Orders -> Receipts]
<1>1. receipt \in [Orders -> Receipts] /\ receipt[o] \in Receipts
  BY DEF TInv, GoodsTypeOK
<1>2. ASSUME NEW q \in Nat, NEW t \in Nat, NewReceipt(o, q, t)
      PROVE  receipt' \in [Orders -> Receipts]
  BY <1>1, <1>2 DEF NewReceipt, Receipts
<1>3. ASSUME DropReceipt(o) PROVE receipt' \in [Orders -> Receipts]
  BY <1>1, <1>3 DEF DropReceipt, Receipts, NoReceipt
<1>4. ASSUME NEW q \in Nat, NEW t \in Nat
      PROVE  [receipt EXCEPT ![o].qty = q, ![o].stocked = t] \in [Orders -> Receipts]
  <2>1. [receipt EXCEPT ![o].qty = q] \in [Orders -> Receipts]
    BY <1>1 DEF Receipts
  <2> QED
    BY <1>1, <2>1 DEF Receipts
<1>5. ASSUME NEW t \in Nat
      PROVE  [receipt EXCEPT ![o].stocked = t] \in [Orders -> Receipts]
  BY <1>1 DEF Receipts
<1> QED
  BY <1>1, <1>2, <1>3, <1>4, <1>5

LEMMA FinishedStatusType == \A r : finishedStatusOf(r) \in Statuses
  BY DEF finishedStatusOf, Statuses

-----------------------------------------------------------------------------
LEMMA OfficeInv ==
    ASSUME TInv, NEW o \in Orders, CreateStockEntry(o) \/ Enter(o)
    PROVE  TInv'
<1>1. CASE CreateStockEntry(o)
  <2>1. receipt' \in [Orders -> Receipts]
    BY <1>1, ReceiptTypes, PiecesAssumption DEF CreateStockEntry
  <2>2. ostatus' \in [Orders -> Statuses]
    BY <1>1 DEF CreateStockEntry, TInv, GoodsTypeOK, Statuses
  <2> QED
    BY <1>1, <2>1, <2>2 DEF CreateStockEntry, TInv, GoodsTypeOK, TicketLock
<1>2. CASE Enter(o)
  <2>1. ostatus' \in [Orders -> Statuses]
    BY <1>2 DEF Enter, TInv, GoodsTypeOK, Statuses
  <2> QED
    BY <1>2, <2>1 DEF Enter, TInv, GoodsTypeOK, TicketLock
<1> QED
  BY <1>1, <1>2

LEMMA KeeperInv == ASSUME TInv, NEW c \in Keepers, KeeperStep(c) PROVE TInv'
<1> c \in Clients /\ req[c] \in Requests
  BY DEF Clients, TInv, GoodsTypeOK
<1>1. ASSUME NEW o \in Orders, AddStockAsk(c, o) PROVE TInv'
  <2>1. PICK n \in 1..MaxQty :
          Ask(c, [op |-> "addStock", order |-> o, id |-> receipt[o].id,
                  qty |-> receipt[o].qty + n, stocked |-> receipt[o].stocked + n])
    BY <1>1 DEF AddStockAsk
  <2> DEFINE r == [op |-> "addStock", order |-> o, id |-> receipt[o].id,
                   qty |-> receipt[o].qty + n, stocked |-> receipt[o].stocked + n]
  <2>2. r \in Requests /\ r.op \notin TicketOps
    BY PiecesAssumption, ReceiptTypes DEF Requests, Receipts, TicketOps
  <2> QED
    BY <2>1, <2>2, AskInv
<1>2. ASSUME NEW o \in Orders, ReceiveAsk(c, o) PROVE TInv'
  <2>1. PICK n \in 1..MaxQty :
          Ask(c, [op |-> "receive", order |-> o, id |-> receipt[o].id,
                  qty |-> receipt[o].qty, stocked |-> receipt[o].stocked + n])
    BY <1>2 DEF ReceiveAsk
  <2> DEFINE r == [op |-> "receive", order |-> o, id |-> receipt[o].id,
                   qty |-> receipt[o].qty, stocked |-> receipt[o].stocked + n]
  <2>2. r \in Requests /\ r.op \notin TicketOps
    BY PiecesAssumption, ReceiptTypes DEF Requests, Receipts, TicketOps
  <2> QED
    BY <2>1, <2>2, AskInv
<1>3. ASSUME NEW o \in Orders, UpdateReceiptAsk(c, o) PROVE TInv'
  <2>1. PICK q \in 0..MaxQty :
          Ask(c, [op |-> "update", order |-> o, id |-> receipt[o].id,
                  qty |-> q, stocked |-> StockedAfter(receipt[o], q)])
    BY <1>3 DEF UpdateReceiptAsk
  <2> DEFINE r == [op |-> "update", order |-> o, id |-> receipt[o].id,
                   qty |-> q, stocked |-> StockedAfter(receipt[o], q)]
  <2>2. r \in Requests /\ r.op \notin TicketOps
    BY PiecesAssumption, ReceiptTypes DEF Requests, Receipts, TicketOps, StockedAfter
  <2> QED
    BY <2>1, <2>2, AskInv
<1>4. ASSUME NEW o \in Orders, DeleteReceiptAsk(c, o) PROVE TInv'
  <2> DEFINE r == [op |-> "delete", order |-> o, id |-> receipt[o].id]
  <2>1. r \in Requests /\ r.op \notin TicketOps
    BY ReceiptTypes DEF Requests, Receipts, TicketOps
  <2> QED
    BY <1>4, <2>1, AskInv DEF DeleteReceiptAsk
<1>5. CASE AddStockSave(c)
  <2>1. receipt' \in [Orders -> Receipts]
    BY <1>5, ReceiptTypes, RequestShape DEF AddStockSave, StockOps
  <2> QED
    BY <1>5, <2>1, IdleType, SaveInv DEF AddStockSave, Reply, TicketOps, TInv, GoodsTypeOK
<1>6. CASE ReceiveSave(c)
  <2>1. receipt' \in [Orders -> Receipts]
    BY <1>6, ReceiptTypes, RequestShape DEF ReceiveSave, StockOps
  <2> DEFINE r == [op |-> "sync", order |-> req[c].order]
  <2>2. r \in Requests /\ r.op \notin TicketOps
    BY <1>6, RequestShape DEF ReceiveSave, StockOps, Requests, TicketOps
  <2> QED
    BY <1>6, <2>1, <2>2, SaveInv DEF ReceiveSave, TInv, GoodsTypeOK
<1>7. CASE UpdateReceiptSave(c)
  <2>1. receipt' \in [Orders -> Receipts]
    BY <1>7, ReceiptTypes, RequestShape DEF UpdateReceiptSave, StockOps
  <2> DEFINE r == [op |-> "sync", order |-> req[c].order]
  <2>2. r \in Requests /\ r.op \notin TicketOps
    BY <1>7, RequestShape DEF UpdateReceiptSave, StockOps, Requests, TicketOps
  <2> QED
    BY <1>7, <2>1, <2>2, SaveInv DEF UpdateReceiptSave, TInv, GoodsTypeOK
<1>8. CASE DeleteReceiptSave(c)
  <2>1. receipt' \in [Orders -> Receipts]
    BY <1>8, ReceiptTypes, RequestShape DEF DeleteReceiptSave
  <2> QED
    BY <1>8, <2>1, IdleType, SaveInv DEF DeleteReceiptSave, Reply, TicketOps, TInv, GoodsTypeOK
<1>9. CASE SyncAsk(c)
  <2> DEFINE o == req[c].order
             r == [op |-> "syncSave", order |-> o, status |-> finishedStatusOf(receipt[o])]
  <2>1. r \in Requests /\ r.op \notin TicketOps
    BY <1>9, RequestShape, FinishedStatusType DEF SyncAsk, OrderOps, Requests, TicketOps
  <2>2. Go(c, r) \/ Go(c, Idle)
    BY <1>9 DEF SyncAsk, Reply
  <2>3. CASE Go(c, r)
    BY <1>9, <2>1, <2>3, QuietInv DEF SyncAsk
  <2>4. CASE Go(c, Idle)
    BY <1>9, <2>4, IdleType, QuietInv DEF SyncAsk, TicketOps
  <2> QED
    BY <2>2, <2>3, <2>4
<1>10. CASE SyncSave(c)
  <2>1. ostatus' \in [Orders -> Statuses]
    BY <1>10, RequestShape DEF SyncSave, TInv, GoodsTypeOK
  <2> QED
    BY <1>10, <2>1, IdleType, SaveInv DEF SyncSave, Reply, TicketOps, TInv, GoodsTypeOK
<1> QED
  BY <1>1, <1>2, <1>3, <1>4, <1>5, <1>6, <1>7, <1>8, <1>9, <1>10 DEF KeeperStep

-----------------------------------------------------------------------------
(* Shipments: the plan of syncOrders is made of numbers and statuses.      *)
LEMMA LinesType ==
    ASSUME TInv
    PROVE  /\ \A o \in Orders : ApprovedLine(o) \in [Ships -> 0..Pieces]
           /\ Approved \in [Orders -> [Ships -> 0..Pieces]]
           /\ \A s \in Ships, line \in LineChoices :
                ApprovedWith(s, line) \in [Orders -> [Ships -> 0..Pieces]]
           /\ NoLines \in LineChoices
<1>1. ASSUME NEW o \in Orders PROVE ApprovedLine(o) \in [Ships -> 0..Pieces]
  BY PiecesAssumption DEF TInv, GoodsTypeOK, ShipRow, LineChoices, ApprovedLine
<1>2. ASSUME NEW s \in Ships, NEW line \in LineChoices
      PROVE  ApprovedWith(s, line) \in [Orders -> [Ships -> 0..Pieces]]
  BY <1>1 DEF ApprovedWith, LineChoices
<1> QED
  BY <1>1, <1>2, PiecesAssumption DEF Approved, NoLines, LineChoices

LEMMA SumOfLines ==
    /\ SumOf([s \in Ships |-> 0]) = 0
    /\ \A f \in [Ships -> 0..Pieces] : SumOf(f) \in Nat
<1>1. SumOf([s \in Ships |-> 0]) = 0
  BY ShipsAssumption, SumOfZeros DEF SumOf
<1>2. ASSUME NEW f \in [Ships -> 0..Pieces] PROVE SumOf(f) \in Nat
  <2>1. \A s \in Ships : f[s] \in Nat
    BY PiecesAssumption
  <2> QED
    BY <2>1, ShipsAssumption, SumIsNat DEF SumOf
<1> QED
  BY <1>1, <1>2

LEMMA PlanType ==
    ASSUME TInv, NEW os, NEW lines \in [Orders -> [Ships -> 0..Pieces]]
    PROVE  PlanFor(os, lines) \in Plans
<1> DEFINE sum(o) == SumOf(lines[o])
           finishedQty(o) == IF HasReceipt(o) THEN receipt[o].qty ELSE Pieces
           delivered(o) == sum(o) > 0 /\ sum(o) >= finishedQty(o)
           next(o) == IF delivered(o) THEN "DELIVERED"
                      ELSE IF ostatus[o] = "DELIVERED" THEN finishedStatusOf(receipt[o])
                      ELSE ostatus[o]
           changed == {o \in os : sum(o) # returned[o] \/ next(o) # ostatus[o]}
           row(o) == IF o \in changed
                     THEN [write |-> TRUE, returned |-> sum(o), status |-> next(o)]
                     ELSE NoWrite
           Rows == [write : BOOLEAN, returned : Nat, status : Statuses]
<1>1. PlanFor(os, lines) = [o \in Orders |-> row(o)]
  BY DEF PlanFor
<1>2. ASSUME NEW o \in Orders PROVE row(o) \in Rows
  <2>1. sum(o) \in Nat
    BY SumOfLines
  <2>2. next(o) \in Statuses
    BY FinishedStatusType DEF TInv, GoodsTypeOK, Statuses
  <2>3. NoWrite \in Rows
    BY DEF NoWrite, Statuses
  <2> HIDE DEF sum, next, changed
  <2> QED
    BY <2>1, <2>2, <2>3
<1> HIDE DEF row
<1> QED
  BY <1>1, <1>2 DEF Plans

LEMMA ApplyType ==
    ASSUME TInv, NEW plan \in Plans, Apply(plan)
    PROVE  /\ ostatus' \in [Orders -> Statuses]
           /\ returned' \in [Orders -> Nat]
           /\ receipt' \in [Orders -> Receipts]
           /\ tickets' = tickets
  BY DEF Apply, Plans, TInv, GoodsTypeOK

LEMMA SaveShipInv ==
    ASSUME TInv, NEW c \in Clients, NEW op \in ShipSaves, NEW row \in ShipRow, SaveShip(c, op, row)
    PROVE  TInv'
<1>1. req[c] \in Requests
  BY DEF TInv, GoodsTypeOK
<1>2. req[c].ship \in Ships /\ req[c].plan \in Plans
  BY <1>1, RequestShape DEF SaveShip
<1>3. ship' \in [Ships -> ShipRow]
  BY <1>2 DEF SaveShip, TInv, GoodsTypeOK
<1> QED
  BY <1>2, <1>3, ApplyType, IdleType, SaveInv DEF SaveShip, Reply, TicketOps

LEMMA AskShipInv ==
    ASSUME TInv, NEW c \in Clients, NEW op \in ShipAsks, NEW s \in Ships, AskShip(c, op, s)
    PROVE  TInv'
<1> DEFINE r == [op |-> op, ship |-> s, orders |-> OrdersOn(s)]
<1>1. r \in Requests /\ r.op \notin TicketOps
  BY DEF Requests, ShipAsks, TicketOps, OrdersOn
<1> QED
  BY <1>1, AskInv DEF AskShip

LEMMA ReadShipInv ==
    ASSUME TInv, NEW c \in Clients, NEW op \in ShipSaves, req[c].op \in ShipAsks,
           NEW line \in LineChoices, NEW plan \in Plans, ReadShip(c, op, line, plan)
    PROVE  TInv'
<1> DEFINE r == [op |-> op, ship |-> req[c].ship, line |-> line, plan |-> plan]
<1>1. req[c].ship \in Ships
  BY RequestShape DEF TInv, GoodsTypeOK
<1>2. r \in Requests /\ r.op \notin TicketOps
  BY <1>1 DEF Requests, ShipSaves, TicketOps
<1> QED
  BY <1>2, QuietInv DEF ReadShip

LEMMA ShipperInv == ASSUME TInv, NEW c \in Shippers, ShipperStep(c) PROVE TInv'
<1> c \in Clients /\ req[c] \in Requests
  BY DEF Clients, TInv, GoodsTypeOK
<1>1. CASE CreateShipRead(c)
  <2>1. PICK line \in LineChoices :
          Ask(c, [op |-> "createShipSave", line |-> line, plan |-> PlanFor(InPlay(line), Approved)])
    BY <1>1 DEF CreateShipRead
  <2> DEFINE r == [op |-> "createShipSave", line |-> line, plan |-> PlanFor(InPlay(line), Approved)]
  <2>2. r \in Requests /\ r.op \notin TicketOps
    BY LinesType, PlanType DEF Requests, TicketOps
  <2> QED
    BY <2>1, <2>2, AskInv
<1>2. ASSUME NEW s \in Ships, UpdateShipAsk(c, s) \/ RemoveShipAsk(c, s) \/ ApproveAsk(c, s)
      PROVE  TInv'
  BY <1>2, AskShipInv DEF UpdateShipAsk, RemoveShipAsk, ApproveAsk, ShipAsks
<1>3. CASE UpdateShipRead(c)
  <2> DEFINE s == req[c].ship
             from(line) == IF ship[s].state = "APPROVED" THEN ApprovedWith(s, line) ELSE Approved
  <2>1. PICK line \in LineChoices :
          /\ req[c].op = "updateShip"
          /\ ReadShip(c, "updateShipSave", line, PlanFor(req[c].orders \cup InPlay(line), from(line)))
    BY <1>3 DEF UpdateShipRead
  <2>2. s \in Ships
    BY <2>1, RequestShape DEF ShipAsks
  <2>3. PlanFor(req[c].orders \cup InPlay(line), from(line)) \in Plans
    BY <2>2, LinesType, PlanType
  <2> QED
    BY <2>1, <2>3, ReadShipInv DEF ShipAsks, ShipSaves
<1>4. CASE RemoveShipRead(c)
  <2>1. req[c].ship \in Ships
    BY <1>4, RequestShape DEF RemoveShipRead, ShipAsks
  <2>2. PlanFor(req[c].orders, ApprovedWith(req[c].ship, NoLines)) \in Plans
    BY <2>1, LinesType, PlanType
  <2> QED
    BY <1>4, <2>2, LinesType, ReadShipInv DEF RemoveShipRead, ShipAsks, ShipSaves
<1>5. CASE ApproveRead(c)
  <2>1. req[c].ship \in Ships
    BY <1>5, RequestShape DEF ApproveRead, ShipAsks
  <2>2. ship[req[c].ship].line \in LineChoices
    BY <2>1 DEF TInv, GoodsTypeOK, ShipRow
  <2>3. PlanFor(req[c].orders, ApprovedWith(req[c].ship, ship[req[c].ship].line)) \in Plans
    BY <2>1, <2>2, LinesType, PlanType
  <2> QED
    BY <1>5, <2>2, <2>3, ReadShipInv DEF ApproveRead, ShipAsks, ShipSaves
<1>6. CASE CreateShipSave(c)
  <2>1. req[c].line \in LineChoices /\ req[c].plan \in Plans
    BY <1>6, RequestShape DEF CreateShipSave
  <2>2. ship' \in [Ships -> ShipRow]
    BY <1>6, <2>1 DEF CreateShipSave, TInv, GoodsTypeOK, ShipRow
  <2> QED
    BY <1>6, <2>1, <2>2, ApplyType, IdleType, SaveInv DEF CreateShipSave, Reply, TicketOps
<1>7. CASE UpdateShipSave(c)
  <2> DEFINE row == [state |-> ship[req[c].ship].state, line |-> req[c].line]
  <2>1. req[c].ship \in Ships /\ req[c].line \in LineChoices
    BY <1>7, RequestShape DEF UpdateShipSave, SaveShip, ShipSaves
  <2>2. row \in ShipRow
    BY <2>1 DEF TInv, GoodsTypeOK, ShipRow
  <2> QED
    BY <1>7, <2>2, SaveShipInv DEF UpdateShipSave, ShipSaves
<1>8. CASE RemoveShipSave(c)
  <2>1. [state |-> "GONE", line |-> NoLines] \in ShipRow
    BY LinesType DEF ShipRow
  <2> QED
    BY <1>8, <2>1, SaveShipInv DEF RemoveShipSave, ShipSaves
<1>9. CASE ApproveSave(c)
  <2>1. [state |-> "APPROVED", line |-> req[c].line] \in ShipRow
    BY <1>9, RequestShape DEF ApproveSave, SaveShip, ShipSaves, ShipRow
  <2> QED
    BY <1>9, <2>1, SaveShipInv DEF ApproveSave, ShipSaves
<1> QED
  BY <1>1, <1>2, <1>3, <1>4, <1>5, <1>6, <1>7, <1>8, <1>9 DEF ShipperStep

-----------------------------------------------------------------------------
LEMMA AskTicketInv ==
    ASSUME TInv, NEW c \in Clients, NEW o \in Orders, NEW op \in TicketOps, AskTicket(c, op, o),
           op = "clearPass" => tickets[o].passed > 0,
           op = "clearFail" => tickets[o].failed > 0
    PROVE  TInv'
<1> DEFINE r == [op |-> op, order |-> o, held |-> HasReceipt(o), stocked |-> receipt[o].stocked]
<1>1. r \in Requests
  BY ReceiptTypes DEF Requests, TicketOps, Receipts, HasReceipt
<1>2. /\ req' \in [Clients -> Requests]
      /\ req'[c] = r
      /\ \A d \in Clients \ {c} : req'[d] = req[d]
      /\ UNCHANGED <<ostatus, returned, tickets, receipt, ship>>
  BY <1>1, GoType DEF AskTicket, Ask, Go, TInv, GoodsTypeOK
<1>3. \A d \in Clients : req[d].op \in TicketOps => req[d].order # o
  BY DEF AskTicket, Unlocked
<1>4. TicketLock'
  BY <1>2, <1>3 DEF TInv, TicketLock
<1> QED
  BY <1>2, <1>4 DEF TInv, GoodsTypeOK

(* The lock makes the outcome taken back still the one that was read, and  *)
(* leaves the other requests their orders.                                 *)
LEMMA SyncOrderInv == ASSUME TInv, NEW c \in Clients, SyncOrderSave(c) PROVE TInv'
<1> DEFINE r == req[c]
           o == r.order
           t == TicketsAfter(r.op, tickets[o])
           done == t.passed + t.failed = Pieces
           kept == IF r.stocked < t.passed THEN r.stocked ELSE t.passed
<1>1. /\ r \in Requests /\ r.op \in TicketOps
      /\ tickets' = [tickets EXCEPT ![o] = t]
      /\ UNCHANGED <<returned, ship>>
      /\ Go(c, Idle)
  BY DEF SyncOrderSave, TInv, GoodsTypeOK, Reply
<1>2. o \in Orders /\ r.stocked \in Nat
  BY <1>1, RequestShape
<1>3. t \in [passed : Nat, failed : Nat]
  <2>1. tickets[o] \in [passed : Nat, failed : Nat]
    BY <1>2 DEF TInv, GoodsTypeOK
  <2>2. r.op = "clearPass" => tickets[o].passed > 0
    BY <1>1 DEF TInv, TicketLock
  <2>3. r.op = "clearFail" => tickets[o].failed > 0
    BY <1>1 DEF TInv, TicketLock
  <2> QED
    BY <1>1, <2>1, <2>2, <2>3 DEF TicketsAfter, TicketOps
<1>4. receipt' \in [Orders -> Receipts]
  <2> HIDE DEF t
  <2>1. t.passed \in Nat /\ kept \in Nat
    BY <1>2, <1>3
  <2>2. \/ receipt' = [receipt EXCEPT ![o].qty = t.passed, ![o].stocked = kept]
        \/ NewReceipt(o, t.passed, 0)
        \/ DropReceipt(o)
        \/ receipt' = receipt
    BY DEF SyncOrderSave, t
  <2> HIDE DEF kept
  <2>3. /\ [receipt EXCEPT ![o].qty = t.passed, ![o].stocked = kept] \in [Orders -> Receipts]
        /\ NewReceipt(o, t.passed, 0) => receipt' \in [Orders -> Receipts]
        /\ DropReceipt(o) => receipt' \in [Orders -> Receipts]
    <3> HIDE DEF o
    <3>1. o \in Orders /\ 0 \in Nat
      BY <1>2
    <3> QED
      BY <2>1, <3>1, ReceiptTypes
  <2>4. receipt \in [Orders -> Receipts]
    BY DEF TInv, GoodsTypeOK
  <2> QED
    BY <2>2, <2>3, <2>4
<1>5. ostatus' \in [Orders -> Statuses]
  <2>1. PICK x :
          /\ x \in {finishedStatusOf(receipt'[o]), "DEFECT", "WORK", ostatus[o]}
          /\ ostatus' = [ostatus EXCEPT ![o] = x]
    BY <1>2 DEF SyncOrderSave, TInv, GoodsTypeOK
  <2>2. x \in Statuses
    BY <1>2, <2>1, FinishedStatusType DEF TInv, GoodsTypeOK, Statuses
  <2> QED
    BY <2>1, <2>2 DEF TInv, GoodsTypeOK
<1>6. /\ req' \in [Clients -> Requests]
      /\ req'[c] = Idle
      /\ \A d \in Clients \ {c} : req'[d] = req[d]
  BY <1>1, IdleType, GoType DEF TInv, GoodsTypeOK
<1>7. tickets' \in [Orders -> [passed : Nat, failed : Nat]]
  <2> HIDE DEF t
  <2> QED
    BY <1>1, <1>2, <1>3 DEF TInv, GoodsTypeOK
<1>8. \A d \in Clients \ {c} : req[d].op \in TicketOps =>
          req[d].order # o /\ tickets'[req[d].order] = tickets[req[d].order]
  <2> SUFFICES ASSUME NEW d \in Clients \ {c}, req[d].op \in TicketOps
               PROVE  req[d].order # o /\ tickets'[req[d].order] = tickets[req[d].order]
    OBVIOUS
  <2>1. req[d].order # o
    BY <1>1 DEF TInv, TicketLock
  <2>2. req[d].order \in Orders
    BY RequestShape DEF TInv, GoodsTypeOK
  <2> HIDE DEF t
  <2> QED
    BY <1>1, <2>1, <2>2 DEF TInv, GoodsTypeOK
<1>9. TicketLock'
  BY <1>6, <1>8, IdleType DEF TInv, TicketLock, TicketOps
<1> QED
  BY <1>1, <1>4, <1>5, <1>6, <1>7, <1>9 DEF TInv, GoodsTypeOK

LEMMA PlannerInv == ASSUME TInv, NEW c \in Planners, PlannerStep(c) PROVE TInv'
<1> c \in Clients /\ req[c] \in Requests
  BY DEF Clients, TInv, GoodsTypeOK
<1>1. ASSUME NEW o \in Orders, FinishAsk(c, o) \/ UndoFinishAsk(c, o) PROVE TInv'
  <2>1. PICK op \in {"finish", "undoFinish"} : Ask(c, [op |-> op, order |-> o])
    BY <1>1 DEF FinishAsk, UndoFinishAsk
  <2> DEFINE r == [op |-> op, order |-> o]
  <2>2. r \in Requests /\ r.op \notin TicketOps
    BY DEF Requests, TicketOps
  <2> QED
    BY <2>1, <2>2, AskInv
<1>2. ASSUME NEW o \in Orders, DefectAsk(c, o) PROVE TInv'
  <2> DEFINE r == [op |-> "defect", order |-> o, leave |-> HasReceipt(o)]
  <2>1. r \in Requests /\ r.op \notin TicketOps
    BY ReceiptTypes DEF Requests, TicketOps, Receipts, HasReceipt
  <2> QED
    BY <1>2, <2>1, AskInv DEF DefectAsk
<1>3. ASSUME NEW o \in Orders, CloseTicketAsk(c, o) PROVE TInv'
  BY <1>3, AskTicketInv DEF CloseTicketAsk, TicketOps
<1>4. ASSUME NEW o \in Orders, ClearOutcomeAsk(c, o) PROVE TInv'
  BY <1>4, AskTicketInv DEF ClearOutcomeAsk, TicketOps
<1>5. CASE FinishSave(c)
  <2>1. req[c].order \in Orders
    BY <1>5, RequestShape DEF FinishSave, OrderOps
  <2>2. receipt' \in [Orders -> Receipts]
    BY <1>5, <2>1, ReceiptTypes, PiecesAssumption DEF FinishSave
  <2>3. ostatus' \in [Orders -> Statuses]
    BY <1>5 DEF FinishSave, TInv, GoodsTypeOK, Statuses
  <2> QED
    BY <1>5, <2>2, <2>3, IdleType, SaveInv DEF FinishSave, Reply, TicketOps, TInv, GoodsTypeOK
<1>6. CASE UndoFinishSave(c)
  <2>1. req[c].order \in Orders
    BY <1>6, RequestShape DEF UndoFinishSave, OrderOps
  <2>2. receipt' \in [Orders -> Receipts]
    BY <1>6, <2>1, ReceiptTypes DEF UndoFinishSave
  <2>3. ostatus' \in [Orders -> Statuses]
    BY <1>6 DEF UndoFinishSave, TInv, GoodsTypeOK, Statuses
  <2> QED
    BY <1>6, <2>2, <2>3, IdleType, SaveInv DEF UndoFinishSave, Reply, TicketOps, TInv, GoodsTypeOK
<1>7. CASE DefectSave(c)
  <2>1. req[c].order \in Orders
    BY <1>7, RequestShape DEF DefectSave
  <2>2. receipt' \in [Orders -> Receipts]
    BY <1>7, <2>1, ReceiptTypes DEF DefectSave, TInv, GoodsTypeOK
  <2>3. ostatus' \in [Orders -> Statuses]
    BY <1>7 DEF DefectSave, TInv, GoodsTypeOK, Statuses
  <2> QED
    BY <1>7, <2>2, <2>3, IdleType, SaveInv DEF DefectSave, Reply, TicketOps, TInv, GoodsTypeOK
<1>8. CASE SyncOrderSave(c)
  BY <1>8, SyncOrderInv
<1> QED
  BY <1>1, <1>2, <1>3, <1>4, <1>5, <1>6, <1>7, <1>8 DEF PlannerStep

LEMMA TypeInit == Init => TInv
<1> SUFFICES ASSUME Init PROVE TInv
  OBVIOUS
<1>1. NoLines \in LineChoices
  BY PiecesAssumption DEF NoLines, LineChoices
<1>2. Idle \in Requests /\ Idle.op \notin TicketOps
  BY IdleType DEF TicketOps
<1> QED
  BY <1>1, <1>2 DEF Init, TInv, GoodsTypeOK, TicketLock, Statuses, Receipts, NoReceipt, ShipRow

LEMMA TypeStep == TInv /\ [Next]_goods => TInv'
<1> SUFFICES ASSUME TInv, [Next]_goods PROVE TInv'
  OBVIOUS
<1>1. ASSUME NEW c \in Clients, Fail(c) PROVE TInv'
  BY <1>1, IdleType, QuietInv DEF Fail, Reply, TicketOps
<1>2. CASE UNCHANGED goods
  BY <1>2 DEF goods, TInv, GoodsTypeOK, TicketLock
<1> QED
  BY <1>1, <1>2, OfficeInv, KeeperInv, ShipperInv, PlannerInv DEF Next

(* Rows and requests of the store keep their types, and two sub-tickets of *)
(* an order are never closed at once, for every instance.                  *)
THEOREM GoodsTypeCorrect == Spec => []GoodsTypeOK
<1>1. TInv => GoodsTypeOK
  BY DEF TInv
<1> QED
  BY <1>1, TypeInit, TypeStep, PTL DEF Spec

-----------------------------------------------------------------------------
(* With one keeper and orders that are not divided into tickets, a receipt *)
(* keeps its number of pieces between a keeper's read and his write, unless *)
(* it is another receipt by then.                                          *)
OneKeeper == \A c, d \in Keepers : c = d
NoTickets == SplitOrders = {}

KeeperInHand ==
    \A c \in Clients :
        /\ req[c].op \notin TicketOps
        /\ req[c].op \in StockOps =>
            /\ c \in Keepers
            /\ req[c].id <= receipt[req[c].order].id
            /\ req[c].op \in {"addStock", "update"} => req[c].stocked <= req[c].qty
            /\ req[c].op = "receive" /\ req[c].id = receipt[req[c].order].id
                  /\ HasReceipt(req[c].order) =>
                req[c].stocked <= receipt[req[c].order].qty

KInv == TInv /\ StockedWithinQty /\ KeeperInHand

(* What a step that is not the keeper's does to the receipts: it leaves    *)
(* them, opens a new one or drops one.                                     *)
OtherMoves ==
    /\ \A o \in Orders :
        \/ receipt'[o] = receipt[o]
        \/ receipt'[o].id = receipt[o].id + 1 /\ receipt'[o].stocked <= receipt'[o].qty
        \/ /\ receipt'[o].id = receipt[o].id /\ ~receipt'[o].live
           /\ receipt'[o].stocked <= receipt'[o].qty
    /\ \A d \in Clients : req'[d] = req[d] \/ req'[d].op \notin StockOps \cup TicketOps

LEMMA OtherMovesInv == ASSUME KInv, TInv', OtherMoves PROVE KInv'
<1>1. StockedWithinQty'
  BY DEF KInv, OtherMoves, StockedWithinQty
<1>2. ASSUME NEW d \in Clients, req'[d] = req[d], req[d].op \in StockOps
      PROVE  /\ req[d].id <= receipt'[req[d].order].id
             /\ req[d].op = "receive" /\ req[d].id = receipt'[req[d].order].id
                   /\ receipt'[req[d].order].live =>
                 req[d].stocked <= receipt'[req[d].order].qty
  <2>1. req[d].order \in Orders /\ req[d].id \in Nat
    BY <1>2, RequestShape DEF KInv, TInv, GoodsTypeOK
  <2>2. receipt[req[d].order].id \in Nat /\ receipt'[req[d].order].id \in Nat
    BY <2>1 DEF KInv, TInv, GoodsTypeOK, Receipts
  <2>3. req[d].id <= receipt[req[d].order].id
    BY <1>2 DEF KInv, KeeperInHand
  <2>4. CASE receipt'[req[d].order] = receipt[req[d].order]
    BY <1>2, <2>4 DEF KInv, KeeperInHand, HasReceipt
  <2>5. CASE receipt'[req[d].order].id = receipt[req[d].order].id + 1
    BY <2>1, <2>2, <2>3, <2>5
  <2>6. CASE receipt'[req[d].order].id = receipt[req[d].order].id /\ ~receipt'[req[d].order].live
    BY <2>3, <2>6
  <2> QED
    BY <2>1, <2>4, <2>5, <2>6 DEF OtherMoves
<1>3. KeeperInHand'
  <2> SUFFICES ASSUME NEW d \in Clients
               PROVE  /\ req'[d].op \notin TicketOps
                      /\ req'[d].op \in StockOps =>
                          /\ d \in Keepers
                          /\ req'[d].id <= receipt'[req'[d].order].id
                          /\ req'[d].op \in {"addStock", "update"} => req'[d].stocked <= req'[d].qty
                          /\ req'[d].op = "receive" /\ req'[d].id = receipt'[req'[d].order].id
                                /\ receipt'[req'[d].order].live =>
                              req'[d].stocked <= receipt'[req'[d].order].qty
    BY DEF KeeperInHand, HasReceipt
  <2>1. CASE req'[d] = req[d]
    BY <1>2, <2>1 DEF KInv, KeeperInHand
  <2>2. CASE req'[d].op \notin StockOps \cup TicketOps
    BY <2>2
  <2> QED
    BY <2>1, <2>2 DEF OtherMoves
<1> QED
  BY <1>1, <1>3 DEF KInv

(* The rows a step of office, shippers or production leaves alone.         *)
LEMMA GoMoves ==
    ASSUME KInv, NEW c \in Clients, NEW r, r.op \notin StockOps \cup TicketOps, Go(c, r)
    PROVE  \A d \in Clients : req'[d] = req[d] \/ req'[d].op \notin StockOps \cup TicketOps
  BY DEF KInv, TInv, GoodsTypeOK, Go

LEMMA ReceiptMoves ==
    ASSUME KInv, NEW o \in Orders,
           \/ \E q \in 0..Pieces : NewReceipt(o, q, q) \/ NewReceipt(o, q, 0)
           \/ DropReceipt(o)
           \/ receipt' = receipt
    PROVE  \A p \in Orders :
        \/ receipt'[p] = receipt[p]
        \/ receipt'[p].id = receipt[p].id + 1 /\ receipt'[p].stocked <= receipt'[p].qty
        \/ /\ receipt'[p].id = receipt[p].id /\ ~receipt'[p].live
           /\ receipt'[p].stocked <= receipt'[p].qty
<1>1. CASE DropReceipt(o)
  BY <1>1 DEF DropReceipt, NoReceipt, KInv, TInv, GoodsTypeOK
<1>2. ASSUME NEW q \in 0..Pieces, NewReceipt(o, q, q) \/ NewReceipt(o, q, 0)
      PROVE  \A p \in Orders :
                \/ receipt'[p] = receipt[p]
                \/ receipt'[p].id = receipt[p].id + 1 /\ receipt'[p].stocked <= receipt'[p].qty
  BY <1>2, PiecesAssumption DEF NewReceipt, KInv, TInv, GoodsTypeOK
<1> QED
  BY <1>1, <1>2

(* A request of the shippers never carries pieces for a receipt.           *)
LEMMA ShipperMoves == ASSUME KInv, NEW c \in Shippers, ShipperStep(c) PROVE OtherMoves
<1> c \in Clients
  BY DEF Clients
<1>1. receipt' = receipt
  BY DEF ShipperStep, CreateShipRead, UpdateShipAsk, RemoveShipAsk, ApproveAsk, UpdateShipRead,
     RemoveShipRead, ApproveRead, CreateShipSave, UpdateShipSave, RemoveShipSave, ApproveSave,
     AskShip, Ask, ReadShip, SaveShip, Apply
<1>2. \E r : r.op \notin StockOps \cup TicketOps /\ Go(c, r)
  <2>1. CASE CreateShipRead(c)
    BY <2>1 DEF CreateShipRead, Ask, Go, StockOps, TicketOps
  <2>2. ASSUME NEW s \in Ships, UpdateShipAsk(c, s) \/ RemoveShipAsk(c, s) \/ ApproveAsk(c, s)
        PROVE  \E r : r.op \notin StockOps \cup TicketOps /\ Go(c, r)
    BY <2>2 DEF UpdateShipAsk, RemoveShipAsk, ApproveAsk, AskShip, Ask, Go, StockOps, TicketOps
  <2>3. CASE UpdateShipRead(c) \/ RemoveShipRead(c) \/ ApproveRead(c)
    BY <2>3 DEF UpdateShipRead, RemoveShipRead, ApproveRead, ReadShip, StockOps, TicketOps
  <2>4. CASE CreateShipSave(c) \/ UpdateShipSave(c) \/ RemoveShipSave(c) \/ ApproveSave(c)
    BY <2>4 DEF CreateShipSave, UpdateShipSave, RemoveShipSave, ApproveSave, SaveShip, Reply,
       Idle, StockOps, TicketOps
  <2> QED
    BY <2>1, <2>2, <2>3, <2>4 DEF ShipperStep
<1> QED
  BY <1>1, <1>2, GoMoves DEF OtherMoves

LEMMA PlannerMoves ==
    ASSUME KInv, NoTickets, NEW c \in Planners, PlannerStep(c)
    PROVE  OtherMoves
<1> c \in Clients /\ req[c] \in Requests
  BY DEF Clients, KInv, TInv, GoodsTypeOK
<1>1. ASSUME NEW o \in Orders, FinishAsk(c, o) \/ UndoFinishAsk(c, o) \/ DefectAsk(c, o)
      PROVE  OtherMoves
  <2>1. \E r : r.op \notin StockOps \cup TicketOps /\ Go(c, r)
    BY <1>1 DEF FinishAsk, UndoFinishAsk, DefectAsk, Ask, Go, StockOps, TicketOps
  <2> QED
    BY <1>1, <2>1, GoMoves DEF FinishAsk, UndoFinishAsk, DefectAsk, Ask, OtherMoves
<1>2. ASSUME NEW o \in Orders, CloseTicketAsk(c, o) \/ ClearOutcomeAsk(c, o)
      PROVE  FALSE
  BY <1>2 DEF CloseTicketAsk, ClearOutcomeAsk, AskTicket, Split, NoTickets
<1>3. CASE FinishSave(c) \/ UndoFinishSave(c) \/ DefectSave(c)
  <2>1. req[c].order \in Orders
    BY <1>3, RequestShape DEF FinishSave, UndoFinishSave, DefectSave, OrderOps
  <2>2. Go(c, Idle) /\ Idle.op \notin StockOps \cup TicketOps
    BY <1>3 DEF FinishSave, UndoFinishSave, DefectSave, Reply, Idle, StockOps, TicketOps
  <2>3. \/ \E q \in 0..Pieces : NewReceipt(req[c].order, q, 0)
        \/ DropReceipt(req[c].order)
        \/ receipt' = receipt
    BY <1>3, PiecesAssumption DEF FinishSave, UndoFinishSave, DefectSave
  <2> QED
    BY <2>1, <2>2, <2>3, GoMoves, ReceiptMoves DEF OtherMoves
<1>4. CASE SyncOrderSave(c)
  BY <1>4 DEF SyncOrderSave, KInv, KeeperInHand
<1> QED
  BY <1>1, <1>2, <1>3, <1>4 DEF PlannerStep

(* The keeper's own steps.                                                 *)
LEMMA KeeperStockInv ==
    ASSUME KInv, TInv', OneKeeper, NEW c \in Keepers, KeeperStep(c)
    PROVE  KInv'
<1> c \in Clients /\ req[c] \in Requests
  BY DEF Clients, KInv, TInv, GoodsTypeOK
<1>1. ASSUME NEW o \in Orders,
             AddStockAsk(c, o) \/ ReceiveAsk(c, o) \/ UpdateReceiptAsk(c, o)
      PROVE  KInv'
  <2>1. PICK r :
          /\ Go(c, r) /\ r.order = o /\ r.id = receipt[o].id /\ r.op \in StockOps
          /\ r.op \in {"addStock", "update"} => r.stocked <= r.qty
          /\ r.op = "receive" => r.stocked <= receipt[o].qty
          /\ UNCHANGED receipt
    <3>1. receipt[o] \in Receipts /\ receipt[o].stocked <= receipt[o].qty
      BY ReceiptTypes DEF KInv, StockedWithinQty
    <3>2. CASE AddStockAsk(c, o)
      <4>1. PICK n \in 1..MaxQty : Ask(c, [op |-> "addStock", order |-> o, id |-> receipt[o].id,
                                     qty |-> receipt[o].qty + n, stocked |-> receipt[o].stocked + n])
        BY <3>2 DEF AddStockAsk
      <4> DEFINE w == [op |-> "addStock", order |-> o, id |-> receipt[o].id,
                       qty |-> receipt[o].qty + n, stocked |-> receipt[o].stocked + n]
      <4>2. /\ Go(c, w) /\ UNCHANGED receipt
            /\ w.order = o /\ w.id = receipt[o].id /\ w.op \in StockOps
        BY <4>1 DEF Ask, Go, StockOps
      <4>3. /\ w.op \in {"addStock", "update"} => w.stocked <= w.qty
            /\ w.op = "receive" => w.stocked <= receipt[o].qty
        BY <3>1, <4>1, PiecesAssumption DEF Receipts, StillPending, StockedAfter
      <4> HIDE DEF w
      <4> QED
        BY <4>2, <4>3
    <3>3. CASE ReceiveAsk(c, o)
      <4>1. PICK n \in 1..MaxQty : Ask(c, [op |-> "receive", order |-> o, id |-> receipt[o].id,
                                     qty |-> receipt[o].qty, stocked |-> receipt[o].stocked + n]) /\ StillPending(o, n)
        BY <3>3 DEF ReceiveAsk
      <4> DEFINE w == [op |-> "receive", order |-> o, id |-> receipt[o].id,
                       qty |-> receipt[o].qty, stocked |-> receipt[o].stocked + n]
      <4>2. /\ Go(c, w) /\ UNCHANGED receipt
            /\ w.order = o /\ w.id = receipt[o].id /\ w.op \in StockOps
        BY <4>1 DEF Ask, Go, StockOps
      <4>3. /\ w.op \in {"addStock", "update"} => w.stocked <= w.qty
            /\ w.op = "receive" => w.stocked <= receipt[o].qty
        BY <3>1, <4>1, PiecesAssumption DEF Receipts, StillPending, StockedAfter
      <4> HIDE DEF w
      <4> QED
        BY <4>2, <4>3
    <3>4. CASE UpdateReceiptAsk(c, o)
      <4>1. PICK n \in 0..MaxQty : Ask(c, [op |-> "update", order |-> o, id |-> receipt[o].id,
                                     qty |-> n, stocked |-> StockedAfter(receipt[o], n)])
        BY <3>4 DEF UpdateReceiptAsk
      <4> DEFINE w == [op |-> "update", order |-> o, id |-> receipt[o].id,
                       qty |-> n, stocked |-> StockedAfter(receipt[o], n)]
      <4>2. /\ Go(c, w) /\ UNCHANGED receipt
            /\ w.order = o /\ w.id = receipt[o].id /\ w.op \in StockOps
        BY <4>1 DEF Ask, Go, StockOps
      <4>3. /\ w.op \in {"addStock", "update"} => w.stocked <= w.qty
            /\ w.op = "receive" => w.stocked <= receipt[o].qty
        BY <3>1, <4>1, PiecesAssumption DEF Receipts, StillPending, StockedAfter
      <4> HIDE DEF w
      <4> QED
        BY <4>2, <4>3
    <3> QED
      BY <1>1, <3>2, <3>3, <3>4
  <2>2. req'[c] = r /\ \A d \in Clients \ {c} : req'[d] = req[d]
    BY <2>1 DEF KInv, TInv, GoodsTypeOK, Go
  <2>3. receipt[o].id \in Nat /\ r.op \notin TicketOps
    BY <2>1, ReceiptTypes DEF KInv, Receipts, StockOps, TicketOps
  <2>4. KeeperInHand'
    BY <2>1, <2>2, <2>3 DEF KInv, KeeperInHand, HasReceipt
  <2> QED
    BY <2>1, <2>4 DEF KInv, StockedWithinQty
<1>2. ASSUME NEW o \in Orders, DeleteReceiptAsk(c, o) PROVE KInv'
  <2>1. \E r : r.op \notin StockOps \cup TicketOps /\ Go(c, r)
    BY <1>2 DEF DeleteReceiptAsk, Ask, Go, StockOps, TicketOps
  <2> QED
    BY <1>2, <2>1, GoMoves, OtherMovesInv DEF DeleteReceiptAsk, Ask, OtherMoves
<1>3. CASE AddStockSave(c) \/ ReceiveSave(c) \/ UpdateReceiptSave(c)
  <2> DEFINE r == req[c]
  <2>1. r.op \in StockOps /\ r.order \in Orders /\ r.qty \in Nat /\ r.stocked \in Nat
    BY <1>3, RequestShape DEF AddStockSave, ReceiveSave, UpdateReceiptSave, StockOps
  <2>2. StockedWithinQty'
    <3>1. CASE AddStockSave(c) \/ UpdateReceiptSave(c)
      <4>1. receipt'[r.order].qty = r.qty /\ receipt'[r.order].stocked = r.stocked
        BY <2>1, <3>1 DEF AddStockSave, UpdateReceiptSave, KInv, TInv, GoodsTypeOK, Receipts
      <4>2. \A p \in Orders \ {r.order} : receipt'[p] = receipt[p]
        BY <2>1, <3>1 DEF AddStockSave, UpdateReceiptSave, KInv, TInv, GoodsTypeOK
      <4>3. r.stocked <= r.qty
        BY <3>1 DEF AddStockSave, UpdateReceiptSave, KInv, KeeperInHand, StockOps
      <4> QED
        BY <4>1, <4>2, <4>3 DEF KInv, StockedWithinQty
    <3>2. CASE ReceiveSave(c)
      <4>1. receipt'[r.order].qty = receipt[r.order].qty /\ receipt'[r.order].stocked = r.stocked
        BY <2>1, <3>2 DEF ReceiveSave, KInv, TInv, GoodsTypeOK, Receipts
      <4>2. \A p \in Orders \ {r.order} : receipt'[p] = receipt[p]
        BY <2>1, <3>2 DEF ReceiveSave, KInv, TInv, GoodsTypeOK
      <4>3. r.stocked <= receipt[r.order].qty
        BY <2>1, <3>2 DEF ReceiveSave, KInv, KeeperInHand
      <4> QED
        BY <4>1, <4>2, <4>3 DEF KInv, StockedWithinQty
    <3> QED
      BY <1>3, <3>1, <3>2
  <2>3. \A d \in Clients \ {c} : req[d].op \notin StockOps /\ req'[d] = req[d]
    BY <1>3 DEF KInv, KeeperInHand, OneKeeper, AddStockSave, ReceiveSave, UpdateReceiptSave,
       Reply, Go, TInv, GoodsTypeOK
  <2>4. req'[c].op \notin StockOps \cup TicketOps
    BY <1>3 DEF AddStockSave, ReceiveSave, UpdateReceiptSave, Reply, Go, Idle, StockOps, TicketOps,
       KInv, TInv, GoodsTypeOK
  <2>5. KeeperInHand'
    BY <2>3, <2>4 DEF KInv, KeeperInHand
  <2> QED
    BY <2>2, <2>5 DEF KInv
<1>4. CASE DeleteReceiptSave(c)
  <2>1. req[c].order \in Orders
    BY <1>4, RequestShape DEF DeleteReceiptSave
  <2>2. Idle.op \notin StockOps \cup TicketOps
    BY DEF Idle, StockOps, TicketOps
  <2> QED
    BY <1>4, <2>1, <2>2, GoMoves, ReceiptMoves, OtherMovesInv DEF DeleteReceiptSave, Reply, OtherMoves
<1>5. CASE SyncAsk(c) \/ SyncSave(c)
  <2>1. \E r : r.op \notin StockOps \cup TicketOps /\ Go(c, r)
    BY <1>5 DEF SyncAsk, SyncSave, Reply, Idle, StockOps, TicketOps
  <2> QED
    BY <1>5, <2>1, GoMoves, OtherMovesInv DEF SyncAsk, SyncSave, OtherMoves
<1> QED
  BY <1>1, <1>2, <1>3, <1>4, <1>5 DEF KeeperStep

LEMMA StockStep == ASSUME OneKeeper, NoTickets, KInv, [Next]_goods PROVE KInv'
<1>1. TInv'
  BY TypeStep DEF KInv
<1>2. Idle.op \notin StockOps \cup TicketOps
  BY DEF Idle, StockOps, TicketOps
<1>3. ASSUME NEW o \in Orders, CreateStockEntry(o) \/ Enter(o) PROVE KInv'
  BY <1>1, <1>3, ReceiptMoves, OtherMovesInv DEF CreateStockEntry, Enter, OtherMoves
<1>4. ASSUME NEW c \in Clients, Fail(c) PROVE KInv'
  BY <1>1, <1>2, <1>4, GoMoves, OtherMovesInv DEF Fail, Reply, OtherMoves
<1>5. CASE UNCHANGED goods
  BY <1>1, <1>5, OtherMovesInv DEF goods, OtherMoves
<1> QED
  BY <1>1, <1>3, <1>4, <1>5, KeeperStockInv, ShipperMoves, PlannerMoves, OtherMovesInv DEF Next

(* The invariant of the comment in updateReceipt holds as long as one      *)
(* keeper writes receipts and no order is divided into tickets, whatever    *)
(* office, production and shipments do meanwhile.                           *)
THEOREM OneKeeperStocksWithinQty ==
    ASSUME OneKeeper, NoTickets
    PROVE  Spec => []StockedWithinQty
<1>1. Init => KInv
  <2>1. Init => StockedWithinQty /\ KeeperInHand
    BY DEF Init, StockedWithinQty, NoReceipt, KeeperInHand, Idle, StockOps, TicketOps
  <2> QED
    BY <2>1, TypeInit DEF KInv
<1>2. KInv /\ [Next]_goods => KInv'
  BY StockStep
<1>3. KInv => StockedWithinQty
  BY DEF KInv
<1> QED
  BY <1>1, <1>2, <1>3, PTL DEF Spec

-----------------------------------------------------------------------------
(* With one shipper, the lines from which syncOrders computes its sums are *)
(* the approved lines once the request is written.                         *)
OneShipper == \A c, d \in Shippers : c = d

LineSaves == {"createShipSave"} \cup ShipSaves
ShipOps == ShipAsks \cup LineSaves

LinesAfter(c) ==
    CASE req[c].op = "approveSave" -> ApprovedWith(req[c].ship, req[c].line)
      [] req[c].op = "removeShipSave" -> ApprovedWith(req[c].ship, NoLines)
      [] OTHER -> Approved

PlanSums(plan, lines) ==
    \A o \in Orders :
        SumOf(lines[o]) = IF plan[o].write THEN plan[o].returned ELSE returned[o]

ShipperInHand ==
    \A c \in Clients : req[c].op \in ShipOps =>
        /\ c \in Shippers
        /\ req[c].op \in ShipAsks => req[c].orders = OrdersOn(req[c].ship)
        /\ req[c].op \in {"updateShip", "approve", "updateShipSave", "approveSave"} =>
               ship[req[c].ship].state = "PENDING"
        /\ req[c].op \in LineSaves => PlanSums(req[c].plan, LinesAfter(c))

SInv == TInv /\ ReturnedIsSum /\ ShipperInHand

(* syncOrders writes every order whose sum changes, if the lines it looks  *)
(* at differ from the approved ones on no other order.                     *)
LEMMA PlanIsSums ==
    ASSUME ReturnedIsSum, NEW os, NEW lines,
           \A o \in Orders \ os : lines[o] = ApprovedLine(o)
    PROVE  PlanSums(PlanFor(os, lines), lines)
<1> DEFINE plan == PlanFor(os, lines)
<1> SUFFICES ASSUME NEW o \in Orders
             PROVE  SumOf(lines[o]) = IF plan[o].write THEN plan[o].returned ELSE returned[o]
  BY DEF PlanSums
<1>1. CASE o \notin os
  <2>1. plan[o] = NoWrite
    BY <1>1 DEF PlanFor
  <2>2. SumOf(lines[o]) = SumOf(ApprovedLine(o))
    BY <1>1
  <2> QED
    BY <2>1, <2>2 DEF NoWrite, ReturnedIsSum
<1>2. CASE o \in os
  <2>1. \/ plan[o].write /\ plan[o].returned = SumOf(lines[o])
        \/ ~plan[o].write /\ SumOf(lines[o]) = returned[o]
    BY <1>2 DEF PlanFor, NoWrite
  <2> QED
    BY <2>1
<1> QED
  BY <1>1, <1>2

(* A step of anybody else leaves the shipments and what is in hand for them. *)
OtherShipMoves ==
    /\ ship' = ship /\ returned' = returned
    /\ \A d \in Clients : req'[d] = req[d] \/ req'[d].op \notin ShipOps

LEMMA ApprovedSame ==
    ASSUME ship' = ship
    PROVE  /\ \A o : ApprovedLine(o)' = ApprovedLine(o)
           /\ Approved' = Approved
           /\ \A s \in Ships : OrdersOn(s)' = OrdersOn(s)
           /\ \A s, line : ApprovedWith(s, line)' = ApprovedWith(s, line)
  BY DEF ApprovedLine, Approved, OrdersOn, ApprovedWith

LEMMA OtherShipMovesInv == ASSUME SInv, TInv', OtherShipMoves PROVE SInv'
<1>1. ReturnedIsSum'
  BY ApprovedSame DEF SInv, ReturnedIsSum, OtherShipMoves
<1>2. ShipperInHand'
  <2> SUFFICES ASSUME NEW c \in Clients, req'[c] = req[c], req[c].op \in ShipOps
               PROVE  /\ c \in Shippers
                      /\ req[c].op \in ShipAsks => req[c].orders = OrdersOn(req[c].ship)'
                      /\ req[c].op \in {"updateShip", "approve", "updateShipSave", "approveSave"} =>
                             ship[req[c].ship].state = "PENDING"
                      /\ req[c].op \in LineSaves => PlanSums(req[c].plan, LinesAfter(c))'
    BY DEF ShipperInHand, OtherShipMoves
  <2>1. LinesAfter(c)' = LinesAfter(c)
    BY ApprovedSame DEF LinesAfter, OtherShipMoves
  <2>2. OrdersOn(req[c].ship)' = OrdersOn(req[c].ship)
    BY DEF OrdersOn, OtherShipMoves
  <2>3. PlanSums(req[c].plan, LinesAfter(c))' <=> PlanSums(req[c].plan, LinesAfter(c))
    BY <2>1 DEF PlanSums, OtherShipMoves
  <2> QED
    BY <2>2, <2>3 DEF SInv, ShipperInHand
<1> QED
  BY <1>1, <1>2 DEF SInv

LEMMA GoShipMoves ==
    ASSUME SInv, NEW c \in Clients, NEW r, r.op \notin ShipOps, Go(c, r),
           ship' = ship, returned' = returned
    PROVE  OtherShipMoves
  BY DEF SInv, TInv, GoodsTypeOK, Go, OtherShipMoves

LEMMA KeeperShipMoves == ASSUME SInv, NEW c \in Keepers, KeeperStep(c) PROVE OtherShipMoves
<1> c \in Clients
  BY DEF Clients
<1>1. ship' = ship /\ returned' = returned
  BY DEF KeeperStep, AddStockAsk, ReceiveAsk, UpdateReceiptAsk, DeleteReceiptAsk, Ask, AddStockSave,
     ReceiveSave, UpdateReceiptSave, DeleteReceiptSave, SyncAsk, SyncSave
<1>2. \E r : r.op \notin ShipOps /\ Go(c, r)
  <2>1. ASSUME NEW o \in Orders,
               \/ AddStockAsk(c, o) \/ ReceiveAsk(c, o)
               \/ UpdateReceiptAsk(c, o) \/ DeleteReceiptAsk(c, o)
        PROVE  \E r : r.op \notin ShipOps /\ Go(c, r)
    <3>1. CASE AddStockAsk(c, o)
      BY <3>1 DEF AddStockAsk, Ask, Go, ShipOps, ShipAsks, LineSaves, ShipSaves
    <3>2. CASE ReceiveAsk(c, o)
      BY <3>2 DEF ReceiveAsk, Ask, Go, ShipOps, ShipAsks, LineSaves, ShipSaves
    <3>3. CASE UpdateReceiptAsk(c, o)
      BY <3>3 DEF UpdateReceiptAsk, Ask, Go, ShipOps, ShipAsks, LineSaves, ShipSaves
    <3>4. CASE DeleteReceiptAsk(c, o)
      BY <3>4 DEF DeleteReceiptAsk, Ask, Go, ShipOps, ShipAsks, LineSaves, ShipSaves
    <3> QED
      BY <2>1, <3>1, <3>2, <3>3, <3>4
  <2>2. CASE AddStockSave(c) \/ DeleteReceiptSave(c) \/ SyncSave(c)
    BY <2>2 DEF AddStockSave, DeleteReceiptSave, SyncSave, Reply, Idle, ShipOps, ShipAsks, LineSaves, ShipSaves
  <2>3. CASE ReceiveSave(c) \/ UpdateReceiptSave(c)
    BY <2>3 DEF ReceiveSave, UpdateReceiptSave, ShipOps, ShipAsks, LineSaves, ShipSaves
  <2>4. CASE SyncAsk(c)
    BY <2>4 DEF SyncAsk, Reply, Idle, ShipOps, ShipAsks, LineSaves, ShipSaves
  <2> QED
    BY <2>1, <2>2, <2>3, <2>4 DEF KeeperStep
<1> QED
  BY <1>1, <1>2, GoShipMoves

LEMMA PlannerShipMoves == ASSUME SInv, NEW c \in Planners, PlannerStep(c) PROVE OtherShipMoves
<1> c \in Clients
  BY DEF Clients
<1>1. ship' = ship /\ returned' = returned
  BY DEF PlannerStep, FinishAsk, UndoFinishAsk, DefectAsk, CloseTicketAsk, ClearOutcomeAsk, AskTicket,
     Ask, FinishSave, UndoFinishSave, DefectSave, SyncOrderSave
<1>2. \E r : r.op \notin ShipOps /\ Go(c, r)
  <2>1. ASSUME NEW o \in Orders, FinishAsk(c, o) \/ UndoFinishAsk(c, o) \/ DefectAsk(c, o)
        PROVE  \E r : r.op \notin ShipOps /\ Go(c, r)
    BY <2>1 DEF FinishAsk, UndoFinishAsk, DefectAsk, Ask, Go, ShipOps, ShipAsks, LineSaves, ShipSaves
  <2>2. ASSUME NEW o \in Orders, NEW op \in TicketOps, AskTicket(c, op, o)
        PROVE  \E r : r.op \notin ShipOps /\ Go(c, r)
    BY <2>2 DEF AskTicket, TicketOps, Ask, Go, ShipOps, ShipAsks, LineSaves, ShipSaves
  <2>3. CASE FinishSave(c) \/ UndoFinishSave(c) \/ DefectSave(c) \/ SyncOrderSave(c)
    BY <2>3 DEF FinishSave, UndoFinishSave, DefectSave, SyncOrderSave, Reply, Idle,
       ShipOps, ShipAsks, LineSaves, ShipSaves
  <2> QED
    BY <2>1, <2>2, <2>3 DEF PlannerStep, CloseTicketAsk, ClearOutcomeAsk, TicketOps
<1> QED
  BY <1>1, <1>2, GoShipMoves

(* The shipper's reads leave every row, so a request that says what they   *)
(* found is good.                                                          *)
LEMMA ShipReadInv ==
    ASSUME SInv, TInv', OneShipper, NEW c \in Shippers, NEW r, Go(c, r),
           ship' = ship, returned' = returned,
           r.op \in ShipAsks => r.orders = OrdersOn(r.ship),
           r.op \in {"updateShip", "approve", "updateShipSave", "approveSave"} =>
               ship[r.ship].state = "PENDING",
           r.op \in {"createShipSave", "updateShipSave"} => PlanSums(r.plan, Approved),
           r.op = "removeShipSave" => PlanSums(r.plan, ApprovedWith(r.ship, NoLines)),
           r.op = "approveSave" => PlanSums(r.plan, ApprovedWith(r.ship, r.line))
    PROVE  SInv'
<1> c \in Clients
  BY DEF Clients
<1>1. req'[c] = r /\ \A d \in Clients \ {c} : req'[d] = req[d]
  BY DEF SInv, TInv, GoodsTypeOK, Go
<1>2. ReturnedIsSum'
  BY ApprovedSame DEF SInv, ReturnedIsSum
<1>3. ASSUME NEW d \in Clients \ {c} PROVE req'[d].op \notin ShipOps \/ d \notin Shippers
  BY <1>1, <1>3 DEF SInv, ShipperInHand, OneShipper
<1>4. ASSUME NEW d \in Clients \ {c}, req'[d].op \in ShipOps PROVE FALSE
  BY <1>1, <1>3, <1>4 DEF SInv, ShipperInHand
<1>5. r.op \in LineSaves => PlanSums(r.plan, LinesAfter(c))'
  <2> SUFFICES ASSUME r.op \in LineSaves PROVE PlanSums(r.plan, LinesAfter(c))'
    OBVIOUS
  <2>1. CASE r.op \in {"createShipSave", "updateShipSave"}
    <3>1. LinesAfter(c)' = Approved
      BY <1>1, <2>1, ApprovedSame DEF LinesAfter
    <3> QED
      BY <2>1, <3>1 DEF PlanSums
  <2>2. CASE r.op = "removeShipSave"
    <3>1. LinesAfter(c)' = ApprovedWith(r.ship, NoLines)
      BY <1>1, <2>2, ApprovedSame DEF LinesAfter
    <3> QED
      BY <2>2, <3>1 DEF PlanSums
  <2>3. CASE r.op = "approveSave"
    <3>1. LinesAfter(c)' = ApprovedWith(r.ship, r.line)
      BY <1>1, <2>3, ApprovedSame DEF LinesAfter
    <3> QED
      BY <2>3, <3>1 DEF PlanSums
  <2> QED
    BY <2>1, <2>2, <2>3 DEF LineSaves, ShipSaves
<1>6. r.op \in ShipAsks => r.orders = OrdersOn(r.ship)'
  BY DEF OrdersOn
<1>7. ShipperInHand'
  BY <1>1, <1>4, <1>5, <1>6 DEF ShipperInHand
<1> QED
  BY <1>2, <1>7 DEF SInv

(* A shipment without lines of an order adds nothing to its approved lines. *)
LEMMA NoLineNoChange ==
    ASSUME SInv, NEW s \in Ships, NEW o \in Orders \ OrdersOn(s), NEW line, line[o] = 0
    PROVE  ApprovedWith(s, line)[o] = ApprovedLine(o)
<1>1. ship[s].line[o] = 0
  BY PiecesAssumption DEF SInv, TInv, GoodsTypeOK, ShipRow, LineChoices, OrdersOn
<1>2. ApprovedLine(o) \in [Ships -> 0..Pieces] /\ ApprovedLine(o)[s] = 0
  BY <1>1, LinesType DEF SInv, ApprovedLine
<1> DEFINE f == ApprovedLine(o)
<1>3. [f EXCEPT ![s] = 0] = f
  <2> HIDE DEF f
  <2>1. f \in [Ships -> 0..Pieces] /\ f[s] = 0
    BY <1>2 DEF f
  <2> QED
    BY <2>1
<1> QED
  BY <1>3 DEF ApprovedWith

LEMMA ShipperReadsInv ==
    ASSUME SInv, TInv', OneShipper, NEW c \in Shippers,
           \/ CreateShipRead(c) \/ UpdateShipRead(c) \/ RemoveShipRead(c) \/ ApproveRead(c)
           \/ \E s \in Ships : UpdateShipAsk(c, s) \/ RemoveShipAsk(c, s) \/ ApproveAsk(c, s)
    PROVE  SInv'
<1> c \in Clients /\ req[c] \in Requests
  BY DEF Clients, SInv, TInv, GoodsTypeOK
<1>1. CASE CreateShipRead(c)
  <2>1. PICK line \in LineChoices :
          Ask(c, [op |-> "createShipSave", line |-> line, plan |-> PlanFor(InPlay(line), Approved)])
    BY <1>1 DEF CreateShipRead
  <2> DEFINE p == PlanFor(InPlay(line), Approved)
             r == [op |-> "createShipSave", line |-> line, plan |-> p]
  <2>2. PlanSums(p, Approved)
    BY PlanIsSums DEF SInv, Approved
  <2>3. Go(c, r) /\ ship' = ship /\ returned' = returned
    BY <2>1 DEF Ask, Go
  <2> HIDE DEF p
  <2> QED
    BY <2>2, <2>3, ShipReadInv DEF ShipAsks
<1>2. ASSUME NEW s \in Ships, UpdateShipAsk(c, s) \/ RemoveShipAsk(c, s) \/ ApproveAsk(c, s)
      PROVE  SInv'
  <2>1. PICK op \in ShipAsks :
          /\ AskShip(c, op, s)
          /\ op # "removeShip" => ship[s].state = "PENDING"
    BY <1>2 DEF UpdateShipAsk, RemoveShipAsk, ApproveAsk, ShipAsks
  <2> DEFINE r == [op |-> op, ship |-> s, orders |-> OrdersOn(s)]
  <2>2. Go(c, r) /\ ship' = ship /\ returned' = returned
    BY <2>1 DEF AskShip, Ask, Go
  <2> QED
    BY <2>1, <2>2, ShipReadInv DEF ShipAsks
<1>3. CASE UpdateShipRead(c)
  <2> DEFINE s == req[c].ship
  <2>1. ship[s].state = "PENDING"
    BY <1>3 DEF UpdateShipRead, SInv, ShipperInHand, ShipOps, ShipAsks
  <2>2. PICK line \in LineChoices :
          ReadShip(c, "updateShipSave", line, PlanFor(req[c].orders \cup InPlay(line), Approved))
    BY <1>3, <2>1 DEF UpdateShipRead
  <2> DEFINE p == PlanFor(req[c].orders \cup InPlay(line), Approved)
             r == [op |-> "updateShipSave", ship |-> s, line |-> line, plan |-> p]
  <2>3. PlanSums(p, Approved)
    BY PlanIsSums DEF SInv, Approved
  <2>4. Go(c, r) /\ ship' = ship /\ returned' = returned
    BY <2>2 DEF ReadShip
  <2> HIDE DEF p
  <2> QED
    BY <2>1, <2>3, <2>4, ShipReadInv DEF ShipAsks
<1>4. CASE RemoveShipRead(c)
  <2> DEFINE s == req[c].ship
             p == PlanFor(req[c].orders, ApprovedWith(s, NoLines))
             r == [op |-> "removeShipSave", ship |-> s, line |-> NoLines, plan |-> p]
  <2>1. s \in Ships /\ req[c].orders = OrdersOn(s)
    BY <1>4, RequestShape DEF RemoveShipRead, SInv, ShipperInHand, ShipOps, ShipAsks
  <2>2. PlanSums(p, ApprovedWith(s, NoLines))
    <3>1. \A o \in Orders \ req[c].orders : ApprovedWith(s, NoLines)[o] = ApprovedLine(o)
      BY <2>1, NoLineNoChange DEF NoLines
    <3> QED
      BY <3>1, PlanIsSums DEF SInv
  <2>3. Go(c, r) /\ ship' = ship /\ returned' = returned
    BY <1>4 DEF RemoveShipRead, ReadShip
  <2> HIDE DEF p
  <2> QED
    BY <2>2, <2>3, ShipReadInv DEF ShipAsks
<1>5. CASE ApproveRead(c)
  <2> DEFINE s == req[c].ship
             line == ship[s].line
             p == PlanFor(req[c].orders, ApprovedWith(s, line))
             r == [op |-> "approveSave", ship |-> s, line |-> line, plan |-> p]
  <2>1. s \in Ships /\ req[c].orders = OrdersOn(s) /\ ship[s].state = "PENDING"
    BY <1>5, RequestShape DEF ApproveRead, SInv, ShipperInHand, ShipOps, ShipAsks
  <2>2. PlanSums(p, ApprovedWith(s, line))
    <3>1. \A o \in Orders \ OrdersOn(s) : line[o] = 0
      BY <2>1, PiecesAssumption DEF SInv, TInv, GoodsTypeOK, ShipRow, LineChoices, OrdersOn
    <3>2. \A o \in Orders \ req[c].orders : ApprovedWith(s, line)[o] = ApprovedLine(o)
      BY <2>1, <3>1, NoLineNoChange
    <3> QED
      BY <3>2, PlanIsSums DEF SInv
  <2>3. Go(c, r) /\ ship' = ship /\ returned' = returned
    BY <1>5 DEF ApproveRead, ReadShip
  <2> HIDE DEF p, line
  <2> QED
    BY <2>1, <2>2, <2>3, ShipReadInv DEF ShipAsks
<1> QED
  BY <1>1, <1>2, <1>3, <1>4, <1>5

(* A write: the approved lines become those the plan was made for, and the *)
(* shipper has nothing else in hand.                                       *)
LEMMA ShipSaveInv ==
    ASSUME SInv, TInv', OneShipper, NEW c \in Shippers, req[c].op \in LineSaves,
           Apply(req[c].plan), Reply(c),
           \A o \in Orders : ApprovedLine(o)' = LinesAfter(c)[o]
    PROVE  SInv'
<1> c \in Clients
  BY DEF Clients
<1>1. PlanSums(req[c].plan, LinesAfter(c))
  BY DEF SInv, ShipperInHand, ShipOps
<1>2. ReturnedIsSum'
  <2> SUFFICES ASSUME NEW o \in Orders PROVE returned'[o] = SumOf(ApprovedLine(o)')
    BY DEF ReturnedIsSum
  <2>1. ApprovedLine(o)' = LinesAfter(c)[o]
    OBVIOUS
  <2>2. returned'[o] = IF req[c].plan[o].write THEN req[c].plan[o].returned ELSE returned[o]
    BY DEF Apply
  <2>3. SumOf(LinesAfter(c)[o]) = returned'[o]
    BY <1>1, <2>2 DEF PlanSums
  <2> QED
    BY <2>1, <2>3
<1>3. req'[c] = Idle /\ \A d \in Clients \ {c} : req'[d] = req[d]
  BY DEF SInv, TInv, GoodsTypeOK, Reply, Go
<1>4. \A d \in Clients : req'[d].op \notin ShipOps
  BY <1>3 DEF SInv, ShipperInHand, OneShipper, Idle, ShipOps, ShipAsks, LineSaves, ShipSaves
<1>5. ShipperInHand'
  BY <1>4 DEF ShipperInHand
<1> QED
  BY <1>2, <1>5 DEF SInv

(* The approved lines when one shipment is written.                        *)
LEMMA UnapprovedWrite ==
    ASSUME SInv, NEW s \in Ships, NEW row, row.state # "APPROVED",
           ship' = [ship EXCEPT ![s] = row], NEW o \in Orders
    PROVE  ApprovedLine(o)' = [ApprovedLine(o) EXCEPT ![s] = 0]
  BY DEF SInv, TInv, GoodsTypeOK, ApprovedLine

LEMMA ApprovedWrite ==
    ASSUME SInv, NEW s \in Ships, NEW row, row.state = "APPROVED",
           ship' = [ship EXCEPT ![s] = row], NEW o \in Orders
    PROVE  ApprovedLine(o)' = [ApprovedLine(o) EXCEPT ![s] = row.line[o]]
  BY DEF SInv, TInv, GoodsTypeOK, ApprovedLine

LEMMA NotApprovedSame ==
    ASSUME SInv, NEW s \in Ships, ship[s].state # "APPROVED", NEW o \in Orders
    PROVE  [ApprovedLine(o) EXCEPT ![s] = 0] = ApprovedLine(o)
  BY DEF ApprovedLine

LEMMA ShipperSavesInv ==
    ASSUME SInv, TInv', OneShipper, NEW c \in Shippers,
           CreateShipSave(c) \/ UpdateShipSave(c) \/ RemoveShipSave(c) \/ ApproveSave(c)
    PROVE  SInv'
<1> c \in Clients /\ req[c] \in Requests
  BY DEF Clients, SInv, TInv, GoodsTypeOK
<1>1. CASE CreateShipSave(c)
  <2>1. PICK s \in Ships :
          /\ ship[s].state = "ABSENT"
          /\ ship' = [ship EXCEPT ![s] = [state |-> "PENDING", line |-> req[c].line]]
    BY <1>1 DEF CreateShipSave
  <2>2. ASSUME NEW o \in Orders PROVE ApprovedLine(o)' = ApprovedLine(o)
    <3>0. [state |-> "PENDING", line |-> req[c].line].state # "APPROVED"
      OBVIOUS
    <3>1. ApprovedLine(o)' = [ApprovedLine(o) EXCEPT ![s] = 0]
      BY <2>1, <3>0, UnapprovedWrite, Zenon
    <3>2. [ApprovedLine(o) EXCEPT ![s] = 0] = ApprovedLine(o)
      BY <2>1, NotApprovedSame
    <3> QED
      BY <3>1, <3>2
  <2>3. LinesAfter(c) = Approved
    BY <1>1 DEF CreateShipSave, LinesAfter
  <2> QED
    BY <1>1, <2>2, <2>3, ShipSaveInv DEF CreateShipSave, LineSaves, Approved
<1>2. CASE UpdateShipSave(c)
  <2> DEFINE s == req[c].ship
  <2>1. s \in Ships /\ ship[s].state = "PENDING"
    BY <1>2, RequestShape DEF UpdateShipSave, SaveShip, SInv, ShipperInHand, ShipOps, LineSaves, ShipSaves
  <2>2. ship' = [ship EXCEPT ![s] = [state |-> "PENDING", line |-> req[c].line]]
    BY <1>2, <2>1 DEF UpdateShipSave, SaveShip
  <2>3. ASSUME NEW o \in Orders PROVE ApprovedLine(o)' = ApprovedLine(o)
    <3>0. [state |-> "PENDING", line |-> req[c].line].state # "APPROVED"
      OBVIOUS
    <3>1. ApprovedLine(o)' = [ApprovedLine(o) EXCEPT ![s] = 0]
      BY <2>1, <2>2, <3>0, UnapprovedWrite, Zenon
    <3>2. [ApprovedLine(o) EXCEPT ![s] = 0] = ApprovedLine(o)
      BY <2>1, NotApprovedSame
    <3> QED
      BY <3>1, <3>2
  <2>4. LinesAfter(c) = Approved
    BY <1>2 DEF UpdateShipSave, SaveShip, LinesAfter
  <2> QED
    BY <1>2, <2>3, <2>4, ShipSaveInv DEF UpdateShipSave, SaveShip, LineSaves, ShipSaves, Approved
<1>3. CASE RemoveShipSave(c)
  <2> DEFINE s == req[c].ship
  <2>1. s \in Ships
    BY <1>3, RequestShape DEF RemoveShipSave, SaveShip, ShipSaves
  <2>2. ASSUME NEW o \in Orders PROVE ApprovedLine(o)' = ApprovedWith(s, NoLines)[o]
    <3>1. ship' = [ship EXCEPT ![s] = [state |-> "GONE", line |-> NoLines]]
      BY <1>3 DEF RemoveShipSave, SaveShip
    <3>0. [state |-> "GONE", line |-> NoLines].state # "APPROVED"
      OBVIOUS
    <3>2. ApprovedLine(o)' = [ApprovedLine(o) EXCEPT ![s] = 0]
      BY <2>1, <3>0, <3>1, UnapprovedWrite, Zenon
    <3> QED
      BY <3>2 DEF ApprovedWith, NoLines
  <2>3. LinesAfter(c) = ApprovedWith(s, NoLines)
    BY <1>3 DEF RemoveShipSave, SaveShip, LinesAfter
  <2> QED
    BY <1>3, <2>2, <2>3, ShipSaveInv DEF RemoveShipSave, SaveShip, LineSaves, ShipSaves
<1>4. CASE ApproveSave(c)
  <2> DEFINE s == req[c].ship
  <2>1. s \in Ships
    BY <1>4, RequestShape DEF ApproveSave, SaveShip, ShipSaves
  <2>2. ASSUME NEW o \in Orders PROVE ApprovedLine(o)' = ApprovedWith(s, req[c].line)[o]
    <3> DEFINE row == [state |-> "APPROVED", line |-> req[c].line]
    <3>1. ship' = [ship EXCEPT ![s] = row]
      BY <1>4 DEF ApproveSave, SaveShip
    <3>2. row.state = "APPROVED" /\ row.line = req[c].line
      OBVIOUS
    <3>3. ApprovedLine(o)' = [ApprovedLine(o) EXCEPT ![s] = row.line[o]]
      <4> HIDE DEF row, s
      <4> QED
        BY <2>1, <3>1, <3>2, ApprovedWrite, Zenon
    <3> QED
      BY <3>2, <3>3 DEF ApprovedWith
  <2>3. LinesAfter(c) = ApprovedWith(s, req[c].line)
    BY <1>4 DEF ApproveSave, SaveShip, LinesAfter
  <2> QED
    BY <1>4, <2>2, <2>3, ShipSaveInv DEF ApproveSave, SaveShip, LineSaves, ShipSaves
<1> QED
  BY <1>1, <1>2, <1>3, <1>4

LEMMA ShipStep == ASSUME OneShipper, SInv, [Next]_goods PROVE SInv'
<1>1. TInv'
  BY TypeStep DEF SInv
<1>2. Idle.op \notin ShipOps
  BY DEF Idle, ShipOps, ShipAsks, LineSaves, ShipSaves
<1>3. ASSUME NEW o \in Orders, CreateStockEntry(o) \/ Enter(o) PROVE SInv'
  BY <1>1, <1>3, OtherShipMovesInv DEF CreateStockEntry, Enter, OtherShipMoves
<1>4. ASSUME NEW c \in Clients, Fail(c) PROVE SInv'
  BY <1>1, <1>2, <1>4, GoShipMoves, OtherShipMovesInv DEF Fail, Reply
<1>5. CASE UNCHANGED goods
  BY <1>1, <1>5, OtherShipMovesInv DEF goods, OtherShipMoves
<1>6. ASSUME NEW c \in Shippers, ShipperStep(c) PROVE SInv'
  BY <1>1, <1>6, ShipperReadsInv, ShipperSavesInv DEF ShipperStep
<1> QED
  BY <1>1, <1>3, <1>4, <1>5, <1>6, KeeperShipMoves, PlannerShipMoves, OtherShipMovesInv DEF Next

LEMMA ShipInit == Init => SInv
<1> SUFFICES ASSUME Init PROVE SInv
  OBVIOUS
<1>1. \A o \in Orders : ApprovedLine(o) = [s \in Ships |-> 0]
  BY DEF Init, ApprovedLine
<1>2. ReturnedIsSum
  BY <1>1, SumOfLines DEF Init, ReturnedIsSum
<1>3. ShipperInHand
  BY DEF Init, ShipperInHand, Idle, ShipOps, ShipAsks, LineSaves, ShipSaves
<1> QED
  BY <1>2, <1>3, TypeInit DEF SInv

(* What an order says is delivered is the sum of its approved lines as long *)
(* as one shipper at a time writes shipments, whatever the keepers and     *)
(* production do to the receipts meanwhile.                                *)
THEOREM OneShipperReturnedIsSum ==
    ASSUME OneShipper
    PROVE  Spec => []ReturnedIsSum
<1>1. SInv /\ [Next]_goods => SInv'
  BY ShipStep
<1>2. SInv => ReturnedIsSum
  BY DEF SInv
<1> QED
  BY <1>1, <1>2, ShipInit, PTL DEF Spec

(* With one shipper at a time nobody rewrites an approved shipment.        *)
THEOREM OneShipperApprovedIsFrozen ==
    ASSUME OneShipper
    PROVE  Spec => ApprovedIsFrozen
<1> DEFINE Frozen == \A s \in Ships :
              ship[s].state = "APPROVED" => ship'[s] = ship[s] \/ ship'[s].state = "GONE"
<1>1. SInv /\ [Next]_goods => [Frozen]_goods
  <2> SUFFICES ASSUME SInv, Next PROVE Frozen
    OBVIOUS
  <2>1. ASSUME NEW c \in Shippers, ShipperStep(c) PROVE Frozen
    <3> c \in Clients /\ req[c] \in Requests
      BY DEF Clients, SInv, TInv, GoodsTypeOK
    <3>1. CASE CreateShipSave(c)
      BY <3>1 DEF CreateShipSave, SInv, TInv, GoodsTypeOK
    <3>2. CASE UpdateShipSave(c) \/ ApproveSave(c)
      <4>1. ship[req[c].ship].state = "PENDING"
        BY <3>2 DEF UpdateShipSave, ApproveSave, SaveShip, SInv, ShipperInHand, ShipOps, LineSaves, ShipSaves
      <4> QED
        BY <3>2, <4>1 DEF UpdateShipSave, ApproveSave, SaveShip, SInv, TInv, GoodsTypeOK
    <3>3. CASE RemoveShipSave(c)
      BY <3>3 DEF RemoveShipSave, SaveShip, SInv, TInv, GoodsTypeOK
    <3>4. ship' = ship => Frozen
      OBVIOUS
    <3> QED
      BY <2>1, <3>1, <3>2, <3>3, <3>4 DEF ShipperStep, CreateShipRead, UpdateShipAsk, RemoveShipAsk,
         ApproveAsk, UpdateShipRead, RemoveShipRead, ApproveRead, AskShip, Ask, ReadShip
  <2>2. ship' = ship => Frozen
    OBVIOUS
  <2> QED
    BY <2>1, <2>2, KeeperShipMoves, PlannerShipMoves
       DEF Next, CreateStockEntry, Enter, Fail, OtherShipMoves
<1>2. SInv /\ [Next]_goods => SInv'
  BY ShipStep
<1> QED
  BY <1>1, <1>2, ShipInit, PTL DEF Spec, ApprovedIsFrozen
-----------------------------------------------------------------------------
(* One request of the store at a time.                                     *)
OneAtATime == \A c, d \in Clients : c = d

Known(o) == ostatus[o] # "ABSENT"
StatusFits(o, st) == st \in FINISHED /\ HasReceipt(o) => st = finishedStatusOf(receipt[o])

(* A receipt that was dropped holds nothing, and an order nobody made has  *)
(* no receipt, no closed ticket and no line on a shipment.                 *)
UnknownIsEmpty ==
    \A o \in Orders :
        /\ ~HasReceipt(o) => receipt[o].stocked = 0
        /\ ~Known(o) => ~HasReceipt(o) /\ Closed(o) = 0 /\ \A s \in Ships : ship[s].line[o] = 0

(* The status is right but for the order a keeper is about to synchronise. *)
SyncOps == {"sync", "syncSave"}
StatusKept ==
    MayDie = FALSE => \A o \in Orders :
        \/ StatusFits(o, ostatus[o])
        \/ \E c \in Clients : req[c].op \in SyncOps /\ req[c].order = o

(* What a request in hand found is still so.                               *)
KnownOps == StockOps \cup {"delete", "syncSave", "undoFinish", "defect"} \cup TicketOps
OrderInHand(r) ==
    LET o == r.order
    IN  /\ r.op \in KnownOps => Known(o)
        /\ r.op = "addStock" => (r.stocked >= r.qty <=> receipt[o].stocked >= receipt[o].qty)
        /\ r.op \in StockOps /\ ~Split(o) => Shipped(o) <= r.stocked
        /\ r.op \in {"delete", "undoFinish"} => Shipped(o) = 0
        /\ r.op = "defect" => IF r.leave THEN Shipped(o) = 0 ELSE ~HasReceipt(o)
        /\ r.op = "syncSave" => r.status \in FINISHED /\ StatusFits(o, r.status)
        /\ r.op \in TicketOps => Split(o)

PlanFits(p) ==
    \A o \in Orders : p[o].write =>
        /\ Known(o) /\ p[o].status # "ABSENT"
        /\ MayDie = FALSE => StatusFits(o, p[o].status)

Room(line, others) ==
    \A o \in Orders :
        /\ line[o] > 0 => Known(o)
        /\ ~Split(o) => OnLines(o, others) + line[o] <= receipt[o].stocked

ShipInHand(r) ==
    /\ r.op \in ShipAsks => \A o \in r.orders : Known(o)
    /\ r.op \in LineSaves => PlanFits(r.plan)
    /\ r.op = "createShipSave" => Room(r.line, Ships)
    /\ r.op = "updateShipSave" => Room(r.line, Ships \ {r.ship})
    /\ r.op = "approveSave" => r.line = ship[r.ship].line

OneInHand == \A c \in Clients : OrderInHand(req[c]) /\ ShipInHand(req[c])

OInv == TInv /\ ShippedWithinStocked /\ UnknownIsEmpty /\ StatusKept /\ OneInHand

(* Sums of lines are numbers, and a part of them is not more.              *)
LEMMA LineSums ==
    ASSUME TInv, NEW o \in Orders
    PROVE  /\ \A s \in Ships : ship[s].line[o] \in Nat
           /\ \A ss \in SUBSET Ships : OnLines(o, ss) \in Nat /\ OnLines(o, ss) <= Shipped(o)
           /\ \A s \in Ships : Shipped(o) = ship[s].line[o] + OnLines(o, Ships \ {s})
<1> DEFINE f == [s \in Ships |-> ship[s].line[o]]
<1>1. \A s \in Ships : ship[s].line[o] \in Nat
  BY PiecesAssumption DEF TInv, GoodsTypeOK, ShipRow, LineChoices
<1>2. \A s \in Ships : f[s] = ship[s].line[o] /\ f[s] \in Nat /\ f[s] \in Int
  BY <1>1
<1>3. \A ss : OnLines(o, ss) = SumFunctionOnSet(f, ss)
  BY DEF OnLines
<1> HIDE DEF f
<1>4. ASSUME NEW ss \in SUBSET Ships
      PROVE  SumFunctionOnSet(f, ss) \in Nat /\ SumFunctionOnSet(f, ss) <= SumFunctionOnSet(f, Ships)
  <2>1. IsFiniteSet(ss)
    BY ShipsAssumption, FS_Subset
  <2> QED
    BY <1>2, <2>1, ShipsAssumption, SumIsNat, SumOfPart
<1>5. ASSUME NEW s \in Ships
      PROVE  SumFunctionOnSet(f, Ships) = f[s] + SumFunctionOnSet(f, Ships \ {s})
  BY <1>2, ShipsAssumption, SumTakeOut
<1> QED
  BY <1>1, <1>2, <1>3, <1>4, <1>5 DEF Shipped

(* The rows stand, and the one request goes on to r.                       *)
LEMMA GoesOn ==
    ASSUME OInv, TInv', NEW c \in Clients, OneAtATime, NEW r, Go(c, r),
           UNCHANGED <<ostatus, returned, tickets, receipt, ship>>,
           OrderInHand(r), ShipInHand(r),
           MayDie = FALSE => \A o \in Orders :
               StatusFits(o, ostatus[o]) \/ (r.op \in SyncOps /\ r.order = o)
    PROVE  OInv'
<1>1. req'[c] = r /\ \A d \in Clients : d = c
  BY DEF OInv, TInv, GoodsTypeOK, Go, OneAtATime
<1>2. /\ \A o : Known(o)' = Known(o) /\ HasReceipt(o)' = HasReceipt(o) /\ Closed(o)' = Closed(o)
      /\ \A o, ss : OnLines(o, ss)' = OnLines(o, ss)
      /\ \A o : Shipped(o)' = Shipped(o)
  BY DEF Known, HasReceipt, Closed, OnLines, Shipped
<1>3. \A o, st : StatusFits(o, st)' = StatusFits(o, st)
  BY DEF StatusFits, HasReceipt
<1>4. ShippedWithinStocked' /\ UnknownIsEmpty'
  BY <1>2 DEF OInv, ShippedWithinStocked, UnknownIsEmpty
<1>5. StatusKept'
  BY <1>1, <1>3 DEF StatusKept
<1>6. OrderInHand(req[c])'
  BY <1>1, <1>2, <1>3 DEF OrderInHand
<1>7. ShipInHand(req[c])'
  BY <1>1, <1>2, <1>3 DEF ShipInHand, PlanFits, Room
<1> QED
  BY <1>1, <1>4, <1>5, <1>6, <1>7 DEF OInv, OneInHand

(* No request waits to synchronise a status.                               *)
LEMMA RightWhenIdle ==
    ASSUME OInv, NEW c \in Clients, OneAtATime, req[c].op \notin SyncOps, MayDie = FALSE
    PROVE  \A o \in Orders : StatusFits(o, ostatus[o])
  BY DEF OInv, StatusKept, OneAtATime

LEMMA AsksOn ==
    ASSUME OInv, TInv', NEW c \in Clients, OneAtATime, NEW r, Ask(c, r),
           OrderInHand(r), ShipInHand(r)
    PROVE  OInv'
<1>1. req[c].op \notin SyncOps
  BY DEF Ask, Idle, SyncOps
<1>2. Go(c, r)
  BY DEF Ask, Go
<1> QED
  <2>1. MayDie = FALSE => \A o \in Orders : StatusFits(o, ostatus[o])
    BY <1>1, RightWhenIdle
  <2>2. UNCHANGED <<ostatus, returned, tickets, receipt, ship>>
    BY DEF Ask
  <2> QED
    BY <1>2, <2>1, <2>2, GoesOn

(* The rows of one order were written, and the request is done or goes on  *)
(* to synchronise that order.                                              *)
LEMMA OneOrderWritten ==
    ASSUME OInv, TInv', NEW c \in Clients, OneAtATime, NEW o \in Orders, NEW r, Go(c, r),
           req[c].op \in SyncOps => req[c].order = o,
           r.op = "idle" \/ (r.op = "sync" /\ r.order = o),
           ship' = ship,
           \A p \in Orders \ {o} :
               receipt'[p] = receipt[p] /\ ostatus'[p] = ostatus[p] /\ tickets'[p] = tickets[p],
           ~HasReceipt(o)' => receipt'[o].stocked = 0,
           Known(o)',
           ~Split(o) => Shipped(o) <= receipt'[o].stocked,
           r.op = "idle" /\ MayDie = FALSE => StatusFits(o, ostatus[o])'
    PROVE  OInv'
<1>1. req'[c] = r /\ \A d \in Clients : d = c
  BY DEF OInv, TInv, GoodsTypeOK, Go, OneAtATime
<1>2. \A p \in Orders : Shipped(p)' = Shipped(p)
  BY DEF Shipped, OnLines
<1>3. ShippedWithinStocked'
  BY <1>2 DEF OInv, ShippedWithinStocked, Split
<1>4. UnknownIsEmpty'
  BY DEF OInv, UnknownIsEmpty, Known, HasReceipt, Closed
<1>5. StatusKept'
  <2> SUFFICES ASSUME MayDie = FALSE, NEW p \in Orders
               PROVE  StatusFits(p, ostatus[p])' \/ (req'[c].op \in SyncOps /\ req'[c].order = p)
    BY DEF StatusKept
  <2>1. CASE p = o
    BY <1>1, <2>1 DEF SyncOps
  <2>2. CASE p # o
    <3>1. StatusFits(p, ostatus[p])
      BY <1>1, <2>2 DEF OInv, StatusKept
    <3> QED
      BY <2>2, <3>1 DEF StatusFits, HasReceipt
  <2> QED
    BY <2>1, <2>2
<1>6. OneInHand'
  <2>1. /\ r.op \notin KnownOps \cup ShipAsks \cup LineSaves
        /\ r.op \notin StockOps /\ r.op \notin TicketOps
    BY DEF KnownOps, StockOps, TicketOps, ShipAsks, LineSaves, ShipSaves
  <2>2. OrderInHand(req[c])'
    BY <1>1, <2>1 DEF OrderInHand, KnownOps, StockOps
  <2>3. ShipInHand(req[c])'
    BY <1>1, <2>1 DEF ShipInHand, LineSaves, ShipSaves
  <2> QED
    BY <1>1, <2>2, <2>3 DEF OneInHand
<1> QED
  BY <1>3, <1>4, <1>5, <1>6 DEF OInv

(* What the rows say of an order with a receipt.                           *)
LEMMA OrderFacts ==
    ASSUME OInv, NEW o \in Orders
    PROVE  /\ receipt[o] \in Receipts /\ tickets[o] \in [passed : Nat, failed : Nat]
           /\ Shipped(o) \in Nat
           /\ ~Split(o) => Shipped(o) <= receipt[o].stocked
           /\ HasReceipt(o) => Known(o)
           /\ ~HasReceipt(o) => receipt[o].stocked = 0
           /\ \A s \in Ships : ship[s].line[o] > 0 => Known(o)
<1>1. receipt[o] \in Receipts /\ tickets[o] \in [passed : Nat, failed : Nat]
  BY DEF OInv, TInv, GoodsTypeOK
<1>2. Shipped(o) \in Nat
  BY LineSums DEF OInv, Shipped
<1>3. ~Split(o) => Shipped(o) <= receipt[o].stocked
  BY DEF OInv, ShippedWithinStocked, Split
<1> QED
  BY <1>1, <1>2, <1>3 DEF OInv, UnknownIsEmpty

(* The keeper's requests.                                                  *)
LEMMA KeeperAsksOne ==
    ASSUME OInv, TInv', NEW c \in Keepers, OneAtATime, NEW o \in Orders,
           AddStockAsk(c, o) \/ ReceiveAsk(c, o) \/ UpdateReceiptAsk(c, o) \/ DeleteReceiptAsk(c, o)
    PROVE  OInv'
<1> c \in Clients
  BY DEF Clients
<1> DEFINE row == receipt[o]
<1>0. /\ row \in Receipts /\ Shipped(o) \in Nat
      /\ HasReceipt(o) => Known(o)
      /\ ~Split(o) => Shipped(o) <= row.stocked
  BY OrderFacts
<1>1. CASE AddStockAsk(c, o)
  <2>1. PICK n \in 1..MaxQty :
          /\ HasReceipt(o)
          /\ Ask(c, [op |-> "addStock", order |-> o, id |-> row.id,
                  qty |-> row.qty + n, stocked |-> row.stocked + n])
    BY <1>1 DEF AddStockAsk
  <2>2. PICK r : r = [op |-> "addStock", order |-> o, id |-> row.id,
                  qty |-> row.qty + n, stocked |-> row.stocked + n]
    OBVIOUS
  <2>3. r.op = "addStock" /\ r.order = o /\ r.qty = row.qty + n /\ r.stocked = row.stocked + n
    BY <2>2
  <2>4. n \in Nat /\ row.qty \in Nat /\ row.stocked \in Nat
    BY <1>0, <2>1, PiecesAssumption DEF Receipts
  <2>5. (r.stocked >= r.qty <=> row.stocked >= row.qty) /\ (~Split(o) => Shipped(o) <= r.stocked)
    BY <1>0, <2>3, <2>4
  <2>6. OrderInHand(r)
    BY <1>0, <2>1, <2>3, <2>5 DEF OrderInHand, KnownOps, StockOps, TicketOps
  <2>7. ShipInHand(r)
    BY <2>3 DEF ShipInHand, ShipAsks, LineSaves, ShipSaves
  <2> QED
    BY <2>1, <2>2, <2>6, <2>7, AsksOn
<1>2. CASE ReceiveAsk(c, o)
  <2>1. PICK n \in 1..MaxQty :
          /\ HasReceipt(o)
          /\ Ask(c, [op |-> "receive", order |-> o, id |-> row.id,
                     qty |-> row.qty, stocked |-> row.stocked + n])
    BY <1>2 DEF ReceiveAsk
  <2>2. PICK r : r = [op |-> "receive", order |-> o, id |-> row.id,
                      qty |-> row.qty, stocked |-> row.stocked + n]
    OBVIOUS
  <2>3. r.op = "receive" /\ r.order = o /\ r.stocked = row.stocked + n
    BY <2>2
  <2>4. n \in Nat /\ row.stocked \in Nat
    BY <1>0, <2>1, PiecesAssumption DEF Receipts
  <2>5. ~Split(o) => Shipped(o) <= r.stocked
    BY <1>0, <2>3, <2>4
  <2>6. OrderInHand(r)
    BY <1>0, <2>1, <2>3, <2>5 DEF OrderInHand, KnownOps, StockOps, TicketOps
  <2>7. ShipInHand(r)
    BY <2>3 DEF ShipInHand, ShipAsks, LineSaves, ShipSaves
  <2> QED
    BY <2>1, <2>2, <2>6, <2>7, AsksOn
<1>3. CASE UpdateReceiptAsk(c, o)
  <2>1. PICK q \in 0..MaxQty :
          /\ HasReceipt(o) /\ q >= Shipped(o)
          /\ Ask(c, [op |-> "update", order |-> o, id |-> row.id,
                     qty |-> q, stocked |-> StockedAfter(row, q)])
    BY <1>3 DEF UpdateReceiptAsk
  <2>2. PICK r : r = [op |-> "update", order |-> o, id |-> row.id,
                      qty |-> q, stocked |-> StockedAfter(row, q)]
    OBVIOUS
  <2>3. r.op = "update" /\ r.order = o /\ r.stocked = StockedAfter(row, q)
    BY <2>2
  <2>4. q \in Nat /\ row.stocked \in Nat
    BY <1>0, <2>1, PiecesAssumption DEF Receipts
  <2>5. ~Split(o) => Shipped(o) <= r.stocked
    BY <1>0, <2>1, <2>3, <2>4 DEF StockedAfter
  <2>6. OrderInHand(r)
    BY <1>0, <2>1, <2>3, <2>5 DEF OrderInHand, KnownOps, StockOps, TicketOps
  <2>7. ShipInHand(r)
    BY <2>3 DEF ShipInHand, ShipAsks, LineSaves, ShipSaves
  <2> QED
    BY <2>1, <2>2, <2>6, <2>7, AsksOn
<1>4. CASE DeleteReceiptAsk(c, o)
  <2>1. HasReceipt(o) /\ Shipped(o) = 0 /\ Ask(c, [op |-> "delete", order |-> o, id |-> row.id])
    BY <1>4 DEF DeleteReceiptAsk
  <2>2. PICK r : r = [op |-> "delete", order |-> o, id |-> row.id]
    OBVIOUS
  <2>3. r.op = "delete" /\ r.order = o
    BY <2>2
  <2>6. OrderInHand(r)
    BY <1>0, <2>1, <2>3 DEF OrderInHand, KnownOps, StockOps, TicketOps
  <2>7. ShipInHand(r)
    BY <2>3 DEF ShipInHand, ShipAsks, LineSaves, ShipSaves
  <2> QED
    BY <2>1, <2>2, <2>6, <2>7, AsksOn
<1> QED
  BY <1>1, <1>2, <1>3, <1>4

(* The keeper's writes.                                                    *)
LEMMA KeeperSavesOne ==
    ASSUME OInv, TInv', NEW c \in Keepers, OneAtATime,
           AddStockSave(c) \/ ReceiveSave(c) \/ UpdateReceiptSave(c) \/ DeleteReceiptSave(c)
    PROVE  OInv'
<1>0. c \in Clients /\ req[c] \in Requests
  BY DEF Clients, OInv, TInv, GoodsTypeOK
<1>a. req[c].order \in Orders /\ req[c].op \in StockOps \cup {"delete"}
  BY <1>0, RequestShape DEF AddStockSave, ReceiveSave, UpdateReceiptSave, DeleteReceiptSave, StockOps
<1>1. PICK o \in Orders : req[c].order = o /\ req[c].op \in StockOps \cup {"delete"}
  BY <1>a
<1>2. OrderInHand(req[c])
  BY <1>0 DEF OInv, OneInHand
<1>3. receipt \in [Orders -> Receipts] /\ receipt[o] \in Receipts
  BY <1>1 DEF OInv, TInv, GoodsTypeOK
<1>4. Known(o) /\ req[c].op \notin SyncOps
  BY <1>1, <1>2 DEF OrderInHand, KnownOps, StockOps, SyncOps
<1>5. /\ ostatus' = ostatus /\ tickets' = tickets /\ ship' = ship
      /\ \A p \in Orders \ {o} : receipt'[p] = receipt[p]
      /\ Known(o)'
  <2>1. ostatus' = ostatus /\ tickets' = tickets /\ ship' = ship
    BY DEF AddStockSave, ReceiveSave, UpdateReceiptSave, DeleteReceiptSave
  <2>2. Known(o)'
    BY <1>4, <2>1 DEF Known
  <2>3. ASSUME NEW p \in Orders \ {o} PROVE receipt'[p] = receipt[p]
    <3>1. CASE AddStockSave(c) \/ UpdateReceiptSave(c)
      BY <1>1, <1>3, <3>1 DEF AddStockSave, UpdateReceiptSave
    <3>2. CASE ReceiveSave(c)
      BY <1>1, <1>3, <3>2 DEF ReceiveSave
    <3>3. CASE DeleteReceiptSave(c)
      BY <1>1, <1>3, <3>3 DEF DeleteReceiptSave, DropReceipt
    <3> QED
      BY <3>1, <3>2, <3>3
  <2> QED
    BY <2>1, <2>2, <2>3
<1>6. CASE AddStockSave(c)
  <2>1. /\ receipt'[o].live /\ receipt'[o].qty = req[c].qty /\ receipt'[o].stocked = req[c].stocked
        /\ HasReceipt(o) /\ Go(c, Idle)
    BY <1>1, <1>3, <1>6 DEF AddStockSave, HasReceipt, Receipts, Reply
  <2>2. /\ ~Split(o) => Shipped(o) <= req[c].stocked
        /\ req[c].stocked >= req[c].qty <=> receipt[o].stocked >= receipt[o].qty
    BY <1>1, <1>2, <1>6 DEF OrderInHand, AddStockSave, StockOps
  <2>3. MayDie = FALSE => StatusFits(o, ostatus[o])'
    <3>1. MayDie = FALSE => StatusFits(o, ostatus[o])
      BY <1>0, <1>1, <1>4, RightWhenIdle
    <3>2. finishedStatusOf(receipt[o])' = finishedStatusOf(receipt[o])
      BY <2>1, <2>2 DEF finishedStatusOf, HasReceipt
    <3> QED
      BY <1>5, <2>1, <3>1, <3>2 DEF StatusFits, HasReceipt
  <2>4. PICK r : r = Idle
    OBVIOUS
  <2> QED
    BY <1>0, <1>1, <1>4, <1>5, <2>1, <2>2, <2>3, <2>4, IdleType, OneOrderWritten DEF HasReceipt
<1>7. CASE ReceiveSave(c) \/ UpdateReceiptSave(c)
  <2>1. /\ receipt'[o].live /\ receipt'[o].stocked = req[c].stocked
        /\ Go(c, [op |-> "sync", order |-> o])
    BY <1>1, <1>3, <1>7 DEF ReceiveSave, UpdateReceiptSave, HasReceipt, Receipts
  <2>2. ~Split(o) => Shipped(o) <= req[c].stocked
    BY <1>1, <1>2, <1>7 DEF OrderInHand, ReceiveSave, UpdateReceiptSave, StockOps
  <2>3. PICK r : r = [op |-> "sync", order |-> o]
    OBVIOUS
  <2>4. r.op = "sync" /\ r.order = o /\ Go(c, r)
    BY <2>1, <2>3
  <2> QED
    BY <1>0, <1>1, <1>4, <1>5, <2>1, <2>2, <2>4, OneOrderWritten DEF HasReceipt
<1>8. CASE DeleteReceiptSave(c)
  <2>1. ~receipt'[o].live /\ receipt'[o].stocked = 0 /\ Go(c, Idle)
    BY <1>1, <1>3, <1>8 DEF DeleteReceiptSave, DropReceipt, NoReceipt, Reply
  <2>2. Shipped(o) = 0
    BY <1>1, <1>2, <1>8 DEF OrderInHand, DeleteReceiptSave
  <2>3. StatusFits(o, ostatus[o])' /\ Shipped(o) <= receipt'[o].stocked
    BY <2>1, <2>2 DEF StatusFits, HasReceipt
  <2>4. PICK r : r = Idle
    OBVIOUS
  <2> QED
    BY <1>0, <1>1, <1>4, <1>5, <2>1, <2>2, <2>3, <2>4, IdleType, OneOrderWritten
<1> QED
  BY <1>6, <1>7, <1>8

(* syncFinishedStatus: a read and a write.                                 *)
LEMMA SyncOne ==
    ASSUME OInv, TInv', NEW c \in Keepers, OneAtATime, SyncAsk(c) \/ SyncSave(c)
    PROVE  OInv'
<1>0. c \in Clients /\ req[c] \in Requests /\ (\A d \in Clients : d = c)
  BY DEF Clients, OInv, TInv, GoodsTypeOK, OneAtATime
<1>a. req[c].order \in Orders /\ req[c].op \in SyncOps
  BY <1>0, RequestShape DEF SyncAsk, SyncSave, SyncOps, OrderOps
<1>1. PICK o \in Orders : req[c].order = o /\ req[c].op \in SyncOps
  BY <1>a
<1> DEFINE to == finishedStatusOf(receipt[o])
<1>2. \A p \in Orders \ {o} : MayDie = FALSE => StatusFits(p, ostatus[p])
  BY <1>0, <1>1 DEF OInv, StatusKept
<1>3. CASE SyncAsk(c)
  <2>1. CASE HasReceipt(o) /\ NeedsSync(o, to)
    <3>1. Go(c, [op |-> "syncSave", order |-> o, status |-> to])
      BY <1>1, <1>3, <2>1 DEF SyncAsk
    <3>2. PICK r : r = [op |-> "syncSave", order |-> o, status |-> to]
      OBVIOUS
    <3>3. r.op = "syncSave" /\ r.order = o /\ r.status = to
      BY <3>2
    <3>4. Known(o) /\ StatusFits(o, to) /\ to \in FINISHED
      BY <1>1, <2>1, OrderFacts DEF StatusFits, finishedStatusOf, FINISHED
    <3>5. OrderInHand(r)
      BY <3>3, <3>4 DEF OrderInHand, KnownOps, StockOps, TicketOps
    <3>6. ShipInHand(r)
      BY <3>3 DEF ShipInHand, ShipAsks, LineSaves, ShipSaves
    <3>7. MayDie = FALSE => \A p \in Orders :
               StatusFits(p, ostatus[p]) \/ (r.op \in SyncOps /\ r.order = p)
      BY <1>2, <3>3 DEF SyncOps
    <3>8. Go(c, r) /\ UNCHANGED <<ostatus, returned, tickets, receipt, ship>>
      BY <1>3, <3>1, <3>2 DEF SyncAsk
    <3> QED
      BY <1>0, <3>5, <3>6, <3>7, <3>8, GoesOn
  <2>2. CASE ~(HasReceipt(o) /\ NeedsSync(o, to))
    <3>1. Go(c, Idle) /\ UNCHANGED <<ostatus, returned, tickets, receipt, ship>>
      BY <1>1, <1>3, <2>2 DEF SyncAsk, Reply
    <3>2. StatusFits(o, ostatus[o])
      BY <2>2 DEF StatusFits, NeedsSync
    <3>3. OrderInHand(Idle)
      BY IdleType DEF OrderInHand, KnownOps, StockOps, TicketOps
    <3>4. ShipInHand(Idle)
      BY IdleType DEF ShipInHand, ShipAsks, LineSaves, ShipSaves
    <3>5. MayDie = FALSE => \A p \in Orders : StatusFits(p, ostatus[p])
      BY <1>2, <3>2
    <3> QED
      BY <1>0, <3>1, <3>3, <3>4, <3>5, GoesOn
  <2> QED
    BY <2>1, <2>2
<1>4. CASE SyncSave(c)
  <2>1. /\ ostatus' = [ostatus EXCEPT ![o] = req[c].status]
        /\ Go(c, Idle) /\ tickets' = tickets /\ receipt' = receipt /\ ship' = ship
    BY <1>1, <1>4 DEF SyncSave, Reply
  <2>2. req[c].status \in FINISHED /\ StatusFits(o, req[c].status)
    BY <1>0, <1>1, <1>4 DEF SyncSave, OInv, OneInHand, OrderInHand
  <2>3. ostatus'[o] = req[c].status /\ (\A p \in Orders \ {o} : ostatus'[p] = ostatus[p])
    BY <1>1, <2>1 DEF OInv, TInv, GoodsTypeOK
  <2>4. Known(o)' /\ StatusFits(o, ostatus[o])'
    BY <2>1, <2>2, <2>3 DEF Known, StatusFits, HasReceipt, FINISHED
  <2>5. (~HasReceipt(o)' => receipt'[o].stocked = 0) /\ (~Split(o) => Shipped(o) <= receipt'[o].stocked)
    BY <1>1, <2>1, OrderFacts DEF HasReceipt
  <2>6. PICK r : r = Idle
    OBVIOUS
  <2> QED
    BY <1>0, <1>1, <2>1, <2>3, <2>4, <2>5, <2>6, IdleType, OneOrderWritten
<1> QED
  BY <1>3, <1>4

(* Production and office: what they find.                                  *)
LEMMA PlannerAsksOne ==
    ASSUME OInv, TInv', NEW c \in Planners, OneAtATime, NEW o \in Orders,
           \/ FinishAsk(c, o) \/ UndoFinishAsk(c, o) \/ DefectAsk(c, o)
           \/ CloseTicketAsk(c, o) \/ ClearOutcomeAsk(c, o)
    PROVE  OInv'
<1> c \in Clients
  BY DEF Clients
<1>0. HasReceipt(o) => Known(o)
  BY OrderFacts
<1>1. CASE FinishAsk(c, o)
  <2>1. PICK r : r = [op |-> "finish", order |-> o]
    OBVIOUS
  <2>2. r.op = "finish" /\ Ask(c, r)
    BY <1>1, <2>1 DEF FinishAsk
  <2>3. OrderInHand(r)
    BY <2>2 DEF OrderInHand, KnownOps, StockOps, TicketOps
  <2>4. ShipInHand(r)
    BY <2>2 DEF ShipInHand, ShipAsks, LineSaves, ShipSaves
  <2> QED
    BY <2>2, <2>3, <2>4, AsksOn
<1>2. CASE UndoFinishAsk(c, o)
  <2>1. PICK r : r = [op |-> "undoFinish", order |-> o]
    OBVIOUS
  <2>2. r.op = "undoFinish" /\ r.order = o /\ Ask(c, r) /\ Shipped(o) = 0 /\ Known(o)
    BY <1>0, <1>2, <2>1 DEF UndoFinishAsk
  <2>3. OrderInHand(r)
    BY <2>2 DEF OrderInHand, KnownOps, StockOps, TicketOps
  <2>4. ShipInHand(r)
    BY <2>2 DEF ShipInHand, ShipAsks, LineSaves, ShipSaves
  <2> QED
    BY <2>2, <2>3, <2>4, AsksOn
<1>3. CASE DefectAsk(c, o)
  <2>1. PICK r : r = [op |-> "defect", order |-> o, leave |-> HasReceipt(o)]
    OBVIOUS
  <2>2. r.op = "defect" /\ r.order = o /\ r.leave = HasReceipt(o) /\ Ask(c, r)
    BY <1>3, <2>1 DEF DefectAsk
  <2>3. Known(o) /\ (HasReceipt(o) => Shipped(o) = 0)
    BY <1>3 DEF DefectAsk, Known
  <2>4. OrderInHand(r)
    BY <2>2, <2>3 DEF OrderInHand, KnownOps, StockOps, TicketOps
  <2>5. ShipInHand(r)
    BY <2>2 DEF ShipInHand, ShipAsks, LineSaves, ShipSaves
  <2> QED
    BY <2>2, <2>4, <2>5, AsksOn
<1>4. CASE CloseTicketAsk(c, o) \/ ClearOutcomeAsk(c, o)
  <2>1. PICK op \in TicketOps : AskTicket(c, op, o)
    BY <1>4 DEF CloseTicketAsk, ClearOutcomeAsk, TicketOps
  <2>2. PICK r : r = [op |-> op, order |-> o, held |-> HasReceipt(o), stocked |-> receipt[o].stocked]
    OBVIOUS
  <2>3. r.op \in TicketOps /\ r.order = o /\ Ask(c, r) /\ Split(o)
    BY <2>1, <2>2 DEF AskTicket
  <2>4. Known(o)
    <3>1. CASE CloseTicketAsk(c, o)
      BY <3>1 DEF CloseTicketAsk, Known
    <3>2. CASE ClearOutcomeAsk(c, o)
      <4>1. tickets[o].passed > 0 \/ tickets[o].failed > 0
        BY <3>2 DEF ClearOutcomeAsk
      <4>2. Closed(o) # 0
        BY <4>1, OrderFacts DEF Closed
      <4> QED
        BY <4>2 DEF OInv, UnknownIsEmpty
    <3> QED
      BY <1>4, <3>1, <3>2
  <2>5. OrderInHand(r)
    BY <2>3, <2>4 DEF OrderInHand, KnownOps, StockOps, TicketOps
  <2>6. ShipInHand(r)
    BY <2>3 DEF ShipInHand, ShipAsks, LineSaves, ShipSaves, TicketOps
  <2> QED
    BY <2>3, <2>5, <2>6, AsksOn
<1> QED
  BY <1>1, <1>2, <1>3, <1>4

(* A new receipt, and a receipt that is dropped.                           *)
LEMMA ReceiptWrites ==
    ASSUME TInv, NEW o \in Orders
    PROVE  /\ \A q, t : NewReceipt(o, q, t) =>
                  receipt'[o].live /\ receipt'[o].qty = q /\ receipt'[o].stocked = t
           /\ DropReceipt(o) => ~receipt'[o].live /\ receipt'[o].stocked = 0
           /\ (DropReceipt(o) \/ \E q, t : NewReceipt(o, q, t)) =>
                  \A p \in Orders \ {o} : receipt'[p] = receipt[p]
<1>1. receipt \in [Orders -> Receipts]
  BY DEF TInv, GoodsTypeOK
<1>2. ASSUME NEW q, NEW t, NewReceipt(o, q, t)
      PROVE  /\ receipt'[o].live /\ receipt'[o].qty = q /\ receipt'[o].stocked = t
             /\ \A p \in Orders \ {o} : receipt'[p] = receipt[p]
  BY <1>1, <1>2 DEF NewReceipt
<1>3. ASSUME DropReceipt(o)
      PROVE  /\ ~receipt'[o].live /\ receipt'[o].stocked = 0
             /\ \A p \in Orders \ {o} : receipt'[p] = receipt[p]
  BY <1>1, <1>3 DEF DropReceipt, NoReceipt
<1> QED
  BY <1>2, <1>3

(* Production and office: what they write.                                 *)
LEMMA PlannerSavesOne ==
    ASSUME OInv, TInv', NEW c \in Planners, OneAtATime,
           FinishSave(c) \/ UndoFinishSave(c) \/ DefectSave(c)
    PROVE  OInv'
<1>0. c \in Clients /\ req[c] \in Requests
  BY DEF Clients, OInv, TInv, GoodsTypeOK
<1>a. req[c].order \in Orders
  BY <1>0, RequestShape DEF FinishSave, UndoFinishSave, DefectSave, OrderOps
<1>1. PICK o \in Orders : req[c].order = o
  BY <1>a
<1>2. OrderInHand(req[c]) /\ req[c].op \notin SyncOps
  BY <1>0 DEF OInv, OneInHand, FinishSave, UndoFinishSave, DefectSave, SyncOps
<1>3. ostatus \in [Orders -> Statuses] /\ TInv
  BY DEF OInv, TInv, GoodsTypeOK
<1>4. /\ Shipped(o) \in Nat
      /\ ~Split(o) => Shipped(o) <= receipt[o].stocked
      /\ ~HasReceipt(o) => receipt[o].stocked = 0
  BY OrderFacts
<1>5. Go(c, Idle) /\ tickets' = tickets /\ ship' = ship
  BY DEF FinishSave, UndoFinishSave, DefectSave, Reply
<1>6. PICK st \in {"PLATED", "WORK", "DEFECT"} :
          /\ ostatus' = [ostatus EXCEPT ![o] = st]
          /\ st = "PLATED" => FinishSave(c)
  BY <1>1 DEF FinishSave, UndoFinishSave, DefectSave
<1>7. /\ ostatus'[o] = st /\ Known(o)'
      /\ \A p \in Orders \ {o} : ostatus'[p] = ostatus[p]
  BY <1>3, <1>6 DEF Known
<1>8. /\ \A p \in Orders \ {o} : receipt'[p] = receipt[p]
      /\ ~receipt'[o].live => receipt'[o].stocked = 0
      /\ ~Split(o) => Shipped(o) <= receipt'[o].stocked
      /\ StatusFits(o, ostatus[o])'
  <2>1. CASE FinishSave(c)
    <3>1. ~HasReceipt(o) /\ \E q \in 1..Pieces : NewReceipt(o, q, 0)
      BY <1>1, <2>1 DEF FinishSave
    <3>2. PICK q \in 1..Pieces : NewReceipt(o, q, 0)
      BY <3>1
    <3>3. /\ receipt'[o].live /\ receipt'[o].qty = q /\ receipt'[o].stocked = 0
          /\ \A p \in Orders \ {o} : receipt'[p] = receipt[p]
      BY <1>3, <3>2, ReceiptWrites
    <3>4. finishedStatusOf(receipt[o])' = "PLATED"
      BY <3>3, PiecesAssumption DEF finishedStatusOf
    <3>5. ostatus'[o] = "PLATED"
      BY <1>1, <1>3, <2>1 DEF FinishSave
    <3>6. StatusFits(o, ostatus[o])'
      BY <3>4, <3>5 DEF StatusFits
    <3> QED
      BY <1>4, <3>1, <3>3, <3>6
  <2>2. CASE UndoFinishSave(c) \/ DefectSave(c)
    <3>1. st \notin FINISHED
      BY <1>1, <1>3, <1>7, <2>2 DEF UndoFinishSave, DefectSave, FINISHED
    <3>2. StatusFits(o, ostatus[o])'
      BY <1>7, <3>1 DEF StatusFits
    <3>3. \/ DropReceipt(o) /\ Shipped(o) = 0
          \/ receipt' = receipt /\ ~HasReceipt(o)
      BY <1>1, <1>2, <2>2 DEF UndoFinishSave, DefectSave, OrderInHand
    <3>4. CASE DropReceipt(o) /\ Shipped(o) = 0
      BY <1>3, <3>2, <3>4, ReceiptWrites
    <3>5. CASE receipt' = receipt /\ ~HasReceipt(o)
      BY <1>4, <3>2, <3>5
    <3> QED
      BY <3>3, <3>4, <3>5
  <2> QED
    BY <2>1, <2>2
<1> QED
  BY <1>0, <1>1, <1>2, <1>5, <1>7, <1>8, IdleType, OneOrderWritten DEF HasReceipt

(* A sub-ticket is closed or its outcome taken back: syncOrder leaves the  *)
(* status that the receipt says.                                           *)
LEMMA SyncOrderOne ==
    ASSUME OInv, TInv', NEW c \in Planners, OneAtATime, SyncOrderSave(c)
    PROVE  OInv'
<1>0. c \in Clients /\ req[c] \in Requests /\ req[c].op \in TicketOps
  BY DEF Clients, OInv, TInv, GoodsTypeOK, SyncOrderSave
<1>1. PICK o \in Orders : req[c].order = o
  BY <1>0, RequestShape
<1>2. Known(o) /\ Split(o) /\ req[c].op \notin SyncOps
  BY <1>0, <1>1 DEF OInv, OneInHand, OrderInHand, KnownOps, SyncOps, TicketOps
<1>3. /\ ostatus \in [Orders -> Statuses] /\ receipt \in [Orders -> Receipts] /\ TInv
      /\ tickets \in [Orders -> [passed : Nat, failed : Nat]]
  BY DEF OInv, TInv, GoodsTypeOK
<1> DEFINE t == TicketsAfter(req[c].op, tickets[o])
           kept == IF req[c].stocked < t.passed THEN req[c].stocked ELSE t.passed
<1>4. /\ Go(c, Idle) /\ ship' = ship
      /\ tickets' = [tickets EXCEPT ![o] = t]
      /\ \/ HasReceipt(o) /\ receipt' = [receipt EXCEPT ![o].qty = t.passed, ![o].stocked = kept]
         \/ NewReceipt(o, t.passed, 0)
         \/ DropReceipt(o)
         \/ receipt' = receipt
      /\ \E st \in {finishedStatusOf(receipt'[o]), "DEFECT", "WORK", ostatus[o]} :
            /\ ostatus' = [ostatus EXCEPT ![o] = st]
            /\ st \in FINISHED => st = finishedStatusOf(receipt'[o])
  <2>2. ostatus' = [ostatus EXCEPT ![o] =
               IF t.passed + t.failed = Pieces
               THEN IF t.passed > 0 THEN finishedStatusOf(receipt'[o]) ELSE "DEFECT"
               ELSE IF ostatus[o] \in FINISHED \cup {"DEFECT"} THEN "WORK" ELSE ostatus[o]]
    BY <1>1, <1>3 DEF SyncOrderSave
  <2>3. \E st \in {finishedStatusOf(receipt'[o]), "DEFECT", "WORK", ostatus[o]} :
            /\ ostatus' = [ostatus EXCEPT ![o] = st]
            /\ st \in FINISHED => st = finishedStatusOf(receipt'[o])
    <3> HIDE DEF t
    <3> QED
      BY <2>2 DEF FINISHED
  <2>4. \/ HasReceipt(o) /\ receipt' = [receipt EXCEPT ![o].qty = t.passed, ![o].stocked = kept]
        \/ NewReceipt(o, t.passed, 0)
        \/ DropReceipt(o)
        \/ receipt' = receipt
    BY <1>1 DEF SyncOrderSave
  <2> QED
    BY <1>1, <2>3, <2>4 DEF SyncOrderSave, Reply
<1> HIDE DEF t, kept
<1>5. PICK st \in {finishedStatusOf(receipt'[o]), "DEFECT", "WORK", ostatus[o]} :
            /\ ostatus' = [ostatus EXCEPT ![o] = st]
            /\ st \in FINISHED => st = finishedStatusOf(receipt'[o])
  BY <1>4
<1>6. /\ Known(o)' /\ StatusFits(o, ostatus[o])'
      /\ \A p \in Orders \ {o} : ostatus'[p] = ostatus[p] /\ tickets'[p] = tickets[p]
  <2>1. ostatus'[o] = st
    BY <1>3, <1>5
  <2>2. st # "ABSENT"
    BY <1>2, <1>5 DEF Known, finishedStatusOf
  <2>3. finishedStatusOf(receipt'[o]) = finishedStatusOf(receipt[o])'
    OBVIOUS
  <2>4. Known(o)' /\ StatusFits(o, ostatus[o])'
    BY <1>5, <2>1, <2>2, <2>3 DEF Known, StatusFits
  <2> QED
    BY <1>3, <1>4, <1>5, <2>4
<1>7. /\ \A p \in Orders \ {o} : receipt'[p] = receipt[p]
      /\ ~receipt'[o].live => receipt'[o].stocked = 0
  <2>1. CASE HasReceipt(o) /\ receipt' = [receipt EXCEPT ![o].qty = t.passed, ![o].stocked = kept]
    <3>1. \A p \in Orders \ {o} : receipt'[p] = receipt[p]
      BY <1>3, <2>1
    <3>2. receipt'[o].live
      BY <1>3, <2>1 DEF HasReceipt, Receipts
    <3> QED
      BY <3>1, <3>2
  <2>2. CASE NewReceipt(o, t.passed, 0) \/ DropReceipt(o)
    BY <1>3, <2>2, ReceiptWrites
  <2>3. CASE receipt' = receipt
    BY <2>3, OrderFacts DEF HasReceipt
  <2> QED
    BY <1>4, <2>1, <2>2, <2>3
<1> QED
  BY <1>0, <1>1, <1>2, <1>4, <1>6, <1>7, IdleType, OneOrderWritten DEF HasReceipt

(* syncOrders plans a right status for orders that exist.                  *)
LEMMA PlanFitsNow ==
    ASSUME OInv, NEW c \in Clients, OneAtATime, req[c].op \notin SyncOps,
           NEW os, \A o \in Orders : o \in os => Known(o), NEW lines
    PROVE  PlanFits(PlanFor(os, lines))
<1> DEFINE plan == PlanFor(os, lines)
<1> SUFFICES ASSUME NEW o \in Orders, plan[o].write
             PROVE  /\ Known(o) /\ plan[o].status # "ABSENT"
                    /\ MayDie = FALSE => StatusFits(o, plan[o].status)
  BY DEF PlanFits
<1>1. o \in os /\ plan[o].status \in {"DELIVERED", finishedStatusOf(receipt[o]), ostatus[o]}
  BY DEF PlanFor, NoWrite
<1>2. Known(o)
  BY <1>1
<1>3. MayDie = FALSE => StatusFits(o, ostatus[o])
  BY RightWhenIdle
<1>4. StatusFits(o, "DELIVERED") /\ StatusFits(o, finishedStatusOf(receipt[o]))
  BY DEF StatusFits, FINISHED
<1> HIDE DEF plan
<1>5. finishedStatusOf(receipt[o]) # "ABSENT"
  BY DEF finishedStatusOf
<1> QED
  BY <1>1, <1>2, <1>3, <1>4, <1>5 DEF Known

(* Room for new lines, as buildLines checks it.                            *)
LEMMA RoomNow ==
    ASSUME OInv, NEW line \in LineChoices, NEW others \in SUBSET Ships, Offers(line, others)
    PROVE  Room(line, others)
<1> SUFFICES ASSUME NEW o \in Orders
             PROVE  /\ line[o] > 0 => Known(o)
                    /\ ~Split(o) => OnLines(o, others) + line[o] <= receipt[o].stocked
  BY DEF Room
<1>1. /\ line[o] \in Nat /\ OnLines(o, others) \in Nat /\ OnLines(o, others) <= Shipped(o)
      /\ Shipped(o) \in Nat /\ receipt[o].stocked \in Nat
      /\ ~Split(o) => Shipped(o) <= receipt[o].stocked
      /\ HasReceipt(o) => Known(o)
  BY LineSums, OrderFacts, PiecesAssumption DEF OInv, LineChoices, Receipts
<1>2. CASE line[o] > 0
  BY <1>1, <1>2 DEF Offers
<1>3. CASE line[o] = 0
  BY <1>1, <1>3
<1> QED
  BY <1>1, <1>2, <1>3

(* The shippers' reads.                                                    *)
LEMMA ShipperAsksOne ==
    ASSUME OInv, TInv', NEW c \in Shippers, OneAtATime,
           \/ CreateShipRead(c)
           \/ \E s \in Ships : UpdateShipAsk(c, s) \/ RemoveShipAsk(c, s) \/ ApproveAsk(c, s)
    PROVE  OInv'
<1>0. c \in Clients
  BY DEF Clients
<1>1. CASE CreateShipRead(c)
  <2>1. PICK line \in LineChoices :
          /\ Offers(line, Ships)
          /\ Ask(c, [op |-> "createShipSave", line |-> line, plan |-> PlanFor(InPlay(line), Approved)])
    BY <1>1 DEF CreateShipRead
  <2>2. PICK p : p = PlanFor(InPlay(line), Approved)
    OBVIOUS
  <2>3. PICK r : r = [op |-> "createShipSave", line |-> line, plan |-> p]
    OBVIOUS
  <2>4. r.op = "createShipSave" /\ r.line = line /\ r.plan = p /\ Ask(c, r)
    BY <2>1, <2>2, <2>3
  <2>5. Room(line, Ships)
    BY <2>1, RoomNow
  <2>6. PlanFits(p)
    <3>1. \A o \in Orders : o \in InPlay(line) => Known(o)
      BY <2>5 DEF InPlay, Room
    <3>2. req[c].op \notin SyncOps
      BY <2>4 DEF Ask, Idle, SyncOps
    <3> QED
      BY <1>0, <2>2, <3>1, <3>2, PlanFitsNow
  <2>7. OrderInHand(r)
    BY <2>4 DEF OrderInHand, KnownOps, StockOps, TicketOps
  <2>8. ShipInHand(r)
    BY <2>4, <2>5, <2>6 DEF ShipInHand, ShipAsks
  <2> QED
    BY <1>0, <2>4, <2>7, <2>8, AsksOn
<1>2. ASSUME NEW s \in Ships, UpdateShipAsk(c, s) \/ RemoveShipAsk(c, s) \/ ApproveAsk(c, s)
      PROVE  OInv'
  <2>1. PICK op \in ShipAsks : AskShip(c, op, s)
    BY <1>2 DEF UpdateShipAsk, RemoveShipAsk, ApproveAsk, ShipAsks
  <2>2. PICK r : r = [op |-> op, ship |-> s, orders |-> OrdersOn(s)]
    OBVIOUS
  <2>3. r.op \in ShipAsks /\ r.orders = OrdersOn(s) /\ Ask(c, r)
    BY <2>1, <2>2 DEF AskShip
  <2>4. \A o \in OrdersOn(s) : Known(o)
    BY OrderFacts DEF OrdersOn
  <2>5. OrderInHand(r)
    BY <2>3 DEF OrderInHand, KnownOps, StockOps, TicketOps, ShipAsks
  <2>6. ShipInHand(r)
    BY <2>3, <2>4 DEF ShipInHand, ShipAsks, LineSaves, ShipSaves
  <2> QED
    BY <1>0, <2>3, <2>5, <2>6, AsksOn
<1> QED
  BY <1>1, <1>2

LEMMA ShipperReadsOne ==
    ASSUME OInv, TInv', NEW c \in Shippers, OneAtATime,
           UpdateShipRead(c) \/ RemoveShipRead(c) \/ ApproveRead(c)
    PROVE  OInv'
<1>0. c \in Clients /\ req[c] \in Requests /\ req[c].op \in ShipAsks
  BY DEF Clients, OInv, TInv, GoodsTypeOK, UpdateShipRead, RemoveShipRead, ApproveRead, ShipAsks
<1>1. PICK s \in Ships : req[c].ship = s
  BY <1>0, RequestShape
<1>2. req[c].op \notin SyncOps /\ \A o \in req[c].orders : Known(o)
  BY <1>0 DEF OInv, OneInHand, ShipInHand, ShipAsks, SyncOps
<1>3. \E op \in ShipSaves, line \in LineChoices : \E os, lines :
          /\ \A o \in Orders : o \in os => Known(o)
          /\ ReadShip(c, op, line, PlanFor(os, lines))
          /\ op = "updateShipSave" => Room(line, Ships \ {s})
          /\ op = "approveSave" => line = ship[s].line
  <2>1. CASE UpdateShipRead(c)
    <3>1. PICK line \in LineChoices :
            /\ Offers(line, Ships \ {s})
            /\ ReadShip(c, "updateShipSave", line,
                 PlanFor(req[c].orders \cup InPlay(line),
                    IF ship[s].state = "APPROVED" THEN ApprovedWith(s, line) ELSE Approved))
      BY <1>1, <2>1 DEF UpdateShipRead
    <3>2. Room(line, Ships \ {s})
      BY <3>1, RoomNow
    <3>3. \A o \in Orders : o \in req[c].orders \cup InPlay(line) => Known(o)
      BY <1>2, <3>2 DEF Room, InPlay
    <3> QED
      BY <3>1, <3>2, <3>3 DEF ShipSaves
  <2>2. CASE RemoveShipRead(c)
    <3>1. ReadShip(c, "removeShipSave", NoLines, PlanFor(req[c].orders, ApprovedWith(s, NoLines)))
      BY <1>1, <2>2 DEF RemoveShipRead
    <3>2. NoLines \in LineChoices
      BY LinesType DEF OInv
    <3> QED
      BY <1>2, <3>1, <3>2 DEF ShipSaves
  <2>3. CASE ApproveRead(c)
    <3>1. ReadShip(c, "approveSave", ship[s].line,
                   PlanFor(req[c].orders, ApprovedWith(s, ship[s].line)))
      BY <1>1, <2>3 DEF ApproveRead
    <3>2. ship[s].line \in LineChoices
      BY DEF OInv, TInv, GoodsTypeOK, ShipRow
    <3> QED
      BY <1>2, <3>1, <3>2 DEF ShipSaves
  <2> QED
    BY <2>1, <2>2, <2>3
<1>4. PICK op \in ShipSaves, line \in LineChoices : \E p :
          /\ PlanFits(p)
          /\ ReadShip(c, op, line, p)
          /\ op = "updateShipSave" => Room(line, Ships \ {s})
          /\ op = "approveSave" => line = ship[s].line
  BY <1>0, <1>2, <1>3, PlanFitsNow
<1>5. PICK p :
          /\ PlanFits(p)
          /\ ReadShip(c, op, line, p)
          /\ op = "updateShipSave" => Room(line, Ships \ {s})
          /\ op = "approveSave" => line = ship[s].line
  BY <1>4
<1>6. PICK r : r = [op |-> op, ship |-> s, line |-> line, plan |-> p]
  OBVIOUS
<1>7. r.op \in ShipSaves /\ r.op = op /\ r.ship = s /\ r.line = line /\ r.plan = p
  BY <1>6
<1>8. Go(c, r) /\ UNCHANGED <<ostatus, returned, tickets, receipt, ship>>
  BY <1>1, <1>5, <1>6 DEF ReadShip
<1>9. OrderInHand(r)
  BY <1>7 DEF OrderInHand, KnownOps, StockOps, TicketOps, ShipSaves
<1>10. ShipInHand(r)
  BY <1>5, <1>7 DEF ShipInHand, ShipAsks, ShipSaves
<1>11. MayDie = FALSE => \A o \in Orders : StatusFits(o, ostatus[o])
  BY <1>0, <1>2, RightWhenIdle
<1> QED
  BY <1>0, <1>8, <1>9, <1>10, <1>11, GoesOn

(* The shippers' writes: one shipment gets the lines of the request.       *)
LEMMA LinesWritten ==
    ASSUME OInv, TInv', NEW s \in Ships, NEW row \in ShipRow,
           ship' = [ship EXCEPT ![s] = row], NEW o \in Orders
    PROVE  Shipped(o)' = OnLines(o, Ships \ {s}) + row.line[o]
<1>1. /\ ship'[s] = row
      /\ \A t \in Ships \ {s} : ship'[t] = ship[t]
  BY DEF OInv, TInv, GoodsTypeOK
<1> DEFINE f == [t \in Ships |-> ship[t].line[o]]
           g == [t \in Ships |-> ship'[t].line[o]]
<1>2. /\ g[s] = row.line[o] /\ (\A t \in Ships \ {s} : g[t] = f[t])
      /\ \A t \in Ships : g[t] \in Int
  <2>1. \A t \in Ships : ship'[t].line[o] \in Int
    BY PiecesAssumption DEF TInv, GoodsTypeOK, ShipRow, LineChoices
  <2> QED
    BY <1>1, <2>1
<1>3. Shipped(o)' = SumFunctionOnSet(g, Ships) /\ OnLines(o, Ships \ {s}) = SumFunctionOnSet(f, Ships \ {s})
  BY DEF Shipped, OnLines
<1> HIDE DEF f, g
<1>4. SumFunctionOnSet(g, Ships) = g[s] + SumFunctionOnSet(g, Ships \ {s})
  BY <1>2, ShipsAssumption, SumTakeOut
<1>5. SumFunctionOnSet(g, Ships \ {s}) = SumFunctionOnSet(f, Ships \ {s})
  <2>1. IsFiniteSet(Ships \ {s})
    BY ShipsAssumption, FS_RemoveElement
  <2> QED
    BY <1>2, <2>1, SumSame
<1>6. row.line[o] \in Nat /\ OnLines(o, Ships \ {s}) \in Nat
  BY LineSums, PiecesAssumption DEF OInv, ShipRow, LineChoices
<1> QED
  BY <1>2, <1>3, <1>4, <1>5, <1>6

LEMMA ShipWritten ==
    ASSUME OInv, TInv', NEW c \in Clients, OneAtATime, NEW s \in Ships, NEW row \in ShipRow,
           req[c].op \in LineSaves, PlanFits(req[c].plan), Apply(req[c].plan), Reply(c),
           ship' = [ship EXCEPT ![s] = row],
           Room(row.line, Ships \ {s})
    PROVE  OInv'
<1>1. req'[c] = Idle /\ \A d \in Clients : d = c
  BY DEF OInv, TInv, GoodsTypeOK, Reply, Go, OneAtATime
<1> DEFINE p == req[c].plan
<1>2. /\ tickets' = tickets /\ receipt' = receipt
      /\ \A o \in Orders : ostatus'[o] = IF p[o].write THEN p[o].status ELSE ostatus[o]
  BY DEF Apply
<1>3. \A o \in Orders : Known(o) => Known(o)'
  BY <1>2 DEF PlanFits, Known
<1>4. ShippedWithinStocked'
  <2> SUFFICES ASSUME NEW o \in Orders \ SplitOrders PROVE Shipped(o)' <= receipt'[o].stocked
    BY DEF ShippedWithinStocked
  <2>1. Shipped(o)' = OnLines(o, Ships \ {s}) + row.line[o]
    BY LinesWritten
  <2>2. OnLines(o, Ships \ {s}) + row.line[o] <= receipt[o].stocked
    BY DEF Room, Split
  <2> QED
    BY <1>2, <2>1, <2>2
<1>5. UnknownIsEmpty'
  <2> SUFFICES ASSUME NEW o \in Orders
               PROVE  /\ ~HasReceipt(o)' => receipt'[o].stocked = 0
                      /\ ~Known(o)' => /\ ~HasReceipt(o)' /\ Closed(o)' = 0
                                       /\ \A t \in Ships : ship'[t].line[o] = 0
    BY DEF UnknownIsEmpty
  <2>1. ~Known(o) => row.line[o] = 0
    <3>1. row.line[o] \in Nat
      BY PiecesAssumption DEF ShipRow, LineChoices
    <3> QED
      BY <3>1 DEF Room
  <2>2. \A t \in Ships : ship'[t] = ship[t] \/ ship'[t] = row
    BY DEF OInv, TInv, GoodsTypeOK
  <2>3. HasReceipt(o)' = HasReceipt(o) /\ Closed(o)' = Closed(o)
    BY <1>2 DEF HasReceipt, Closed
  <2> QED
    BY <1>2, <1>3, <2>1, <2>2, <2>3 DEF OInv, UnknownIsEmpty
<1>6. StatusKept'
  <2> SUFFICES ASSUME MayDie = FALSE, NEW o \in Orders PROVE StatusFits(o, ostatus[o])'
    BY DEF StatusKept
  <2>1. req[c].op \notin SyncOps
    BY DEF LineSaves, ShipSaves, SyncOps
  <2>2. StatusFits(o, ostatus[o]) /\ (p[o].write => StatusFits(o, p[o].status))
    BY <2>1, RightWhenIdle DEF PlanFits
  <2>3. StatusFits(o, ostatus'[o])
    BY <1>2, <2>2
  <2> QED
    BY <1>2, <2>3 DEF StatusFits, HasReceipt
<1>7. OneInHand'
  <2>1. OrderInHand(req[c])'
    BY <1>1, IdleType DEF OrderInHand, KnownOps, StockOps, TicketOps
  <2>2. ShipInHand(req[c])'
    BY <1>1, IdleType DEF ShipInHand, ShipAsks, LineSaves, ShipSaves
  <2> QED
    BY <1>1, <2>1, <2>2 DEF OneInHand
<1> QED
  BY <1>4, <1>5, <1>6, <1>7 DEF OInv

LEMMA ShipperSavesOne ==
    ASSUME OInv, TInv', NEW c \in Shippers, OneAtATime,
           CreateShipSave(c) \/ UpdateShipSave(c) \/ RemoveShipSave(c) \/ ApproveSave(c)
    PROVE  OInv'
<1>0. c \in Clients /\ req[c] \in Requests /\ req[c].op \in LineSaves
  BY DEF Clients, OInv, TInv, GoodsTypeOK, CreateShipSave, UpdateShipSave, RemoveShipSave,
         ApproveSave, SaveShip, LineSaves, ShipSaves
<1>1. ShipInHand(req[c]) /\ Apply(req[c].plan) /\ Reply(c)
  BY <1>0 DEF OInv, OneInHand, CreateShipSave, UpdateShipSave, RemoveShipSave, ApproveSave, SaveShip
<1>2. PlanFits(req[c].plan)
  BY <1>0, <1>1 DEF ShipInHand
<1>3. \A o \in Orders, s \in Ships :
          /\ OnLines(o, Ships \ {s}) \in Nat /\ OnLines(o, Ships \ {s}) <= Shipped(o)
          /\ Shipped(o) = ship[s].line[o] + OnLines(o, Ships \ {s})
          /\ Shipped(o) \in Nat /\ receipt[o].stocked \in Nat
          /\ ~Split(o) => Shipped(o) <= receipt[o].stocked
          /\ ship[s].line[o] > 0 => Known(o)
          /\ ship[s].line[o] \in Nat
  BY LineSums, OrderFacts DEF OInv, Receipts
<1>4. CASE CreateShipSave(c)
  <2>1. req[c].line \in LineChoices /\ Room(req[c].line, Ships)
    BY <1>0, <1>1, <1>4, RequestShape DEF CreateShipSave, ShipInHand
  <2>2. PICK s \in Ships : ship' = [ship EXCEPT ![s] = [state |-> "PENDING", line |-> req[c].line]]
    BY <1>4 DEF CreateShipSave
  <2>3. PICK row : row = [state |-> "PENDING", line |-> req[c].line]
    OBVIOUS
  <2>4. row \in ShipRow /\ row.line = req[c].line /\ ship' = [ship EXCEPT ![s] = row]
    BY <2>1, <2>2, <2>3 DEF ShipRow
  <2>5. Room(row.line, Ships \ {s})
    <3> SUFFICES ASSUME NEW o \in Orders
                 PROVE  /\ row.line[o] > 0 => Known(o)
                        /\ ~Split(o) => OnLines(o, Ships \ {s}) + row.line[o] <= receipt[o].stocked
      BY DEF Room
    <3>1. row.line[o] \in Nat
      BY <2>4, PiecesAssumption DEF ShipRow, LineChoices
    <3>2. /\ row.line[o] > 0 => Known(o)
          /\ ~Split(o) => Shipped(o) + row.line[o] <= receipt[o].stocked
      BY <2>1, <2>4 DEF Room, Shipped
    <3> QED
      BY <1>3, <3>1, <3>2
  <2> QED
    BY <1>0, <1>1, <1>2, <2>4, <2>5, ShipWritten
<1>5. CASE UpdateShipSave(c) \/ RemoveShipSave(c) \/ ApproveSave(c)
  <2>1. PICK s \in Ships : req[c].ship = s
    BY <1>0, <1>5, RequestShape DEF UpdateShipSave, RemoveShipSave, ApproveSave, SaveShip, ShipSaves
  <2>2. \E row \in ShipRow :
            /\ ship' = [ship EXCEPT ![s] = row]
            /\ Room(row.line, Ships \ {s})
    <3>1. CASE UpdateShipSave(c)
      <4>1. PICK row : row = [state |-> ship[s].state, line |-> req[c].line]
        OBVIOUS
      <4>2. row \in ShipRow /\ row.line = req[c].line
        BY <1>0, <3>1, <4>1, RequestShape
           DEF UpdateShipSave, SaveShip, ShipSaves, OInv, TInv, GoodsTypeOK, ShipRow
      <4>3. ship' = [ship EXCEPT ![s] = row]
        BY <2>1, <3>1, <4>1 DEF UpdateShipSave, SaveShip
      <4>4. Room(req[c].line, Ships \ {s})
        BY <1>1, <2>1, <3>1 DEF UpdateShipSave, SaveShip, ShipInHand
      <4> QED
        BY <4>2, <4>3, <4>4
    <3>2. CASE RemoveShipSave(c)
      <4>1. PICK row : row = [state |-> "GONE", line |-> NoLines]
        OBVIOUS
      <4>2. row \in ShipRow /\ row.line = NoLines
        BY <4>1, LinesType DEF ShipRow, OInv
      <4>3. ship' = [ship EXCEPT ![s] = row]
        BY <2>1, <3>2, <4>1 DEF RemoveShipSave, SaveShip
      <4>4. Room(NoLines, Ships \ {s})
        <5> SUFFICES ASSUME NEW o \in Orders
                     PROVE  ~Split(o) => OnLines(o, Ships \ {s}) + 0 <= receipt[o].stocked
          BY DEF Room, NoLines
        <5> QED
          BY <1>3
      <4> QED
        BY <4>2, <4>3, <4>4
    <3>3. CASE ApproveSave(c)
      <4>1. PICK row : row = [state |-> "APPROVED", line |-> req[c].line]
        OBVIOUS
      <4>2. row \in ShipRow /\ row.line = req[c].line
        BY <1>0, <3>3, <4>1, RequestShape DEF ApproveSave, SaveShip, ShipSaves, ShipRow
      <4>3. ship' = [ship EXCEPT ![s] = row]
        BY <2>1, <3>3, <4>1 DEF ApproveSave, SaveShip
      <4>4. row.line = ship[s].line
        BY <1>1, <2>1, <3>3, <4>2 DEF ApproveSave, SaveShip, ShipInHand
      <4>5. Room(ship[s].line, Ships \ {s})
        BY <1>3 DEF Room
      <4> QED
        BY <4>2, <4>3, <4>4, <4>5
    <3> QED
      BY <1>5, <3>1, <3>2, <3>3
  <2> QED
    BY <1>0, <1>1, <1>2, <2>2, ShipWritten
<1> QED
  BY <1>4, <1>5

(* Office: an order is made, or goes into the stages.                      *)
LEMMA OfficeOne ==
    ASSUME OInv, TInv', NEW o \in Orders, CreateStockEntry(o) \/ Enter(o)
    PROVE  OInv'
<1>0. /\ ostatus \in [Orders -> Statuses] /\ receipt \in [Orders -> Receipts]
      /\ req \in [Clients -> Requests] /\ TInv
  BY DEF OInv, TInv, GoodsTypeOK
<1>1. req' = req /\ ship' = ship /\ tickets' = tickets
  BY DEF CreateStockEntry, Enter
<1>2. /\ \A p, ss : OnLines(p, ss)' = OnLines(p, ss)
      /\ \A p : Shipped(p)' = Shipped(p) /\ Closed(p)' = Closed(p)
  BY <1>1 DEF OnLines, Shipped, Closed
<1>3. /\ \A p \in Orders \ {o} : receipt'[p] = receipt[p] /\ ostatus'[p] = ostatus[p]
      /\ Known(o)' /\ StatusFits(o, ostatus[o])'
      /\ receipt'[o].stocked >= receipt[o].stocked
      /\ ~HasReceipt(o)' => receipt'[o].stocked = 0
      /\ Known(o) => receipt'[o] = receipt[o]
  <2>1. CASE CreateStockEntry(o)
    <3>1. ~Known(o)
      BY <2>1 DEF CreateStockEntry, Known
    <3>2. PICK q \in 0..Pieces : NewReceipt(o, q, q)
      BY <2>1 DEF CreateStockEntry
    <3>3. /\ receipt'[o].live /\ receipt'[o].qty = q /\ receipt'[o].stocked = q
          /\ \A p \in Orders \ {o} : receipt'[p] = receipt[p]
      BY <1>0, <3>2, ReceiptWrites
    <3>4. receipt[o].stocked = 0 /\ q \in Nat
      BY <3>1, OrderFacts, PiecesAssumption DEF OInv, UnknownIsEmpty
    <3>5. ostatus'[o] = "FINISHING" /\ \A p \in Orders \ {o} : ostatus'[p] = ostatus[p]
      BY <1>0, <2>1 DEF CreateStockEntry
    <3>6. StatusFits(o, ostatus[o])'
      BY <3>3, <3>4, <3>5 DEF StatusFits, finishedStatusOf
    <3> QED
      BY <3>1, <3>3, <3>4, <3>5, <3>6 DEF Known, HasReceipt
  <2>2. CASE Enter(o)
    <3>1. receipt' = receipt /\ ~HasReceipt(o)
      BY <2>2 DEF Enter
    <3>2. ostatus'[o] = "WORK" /\ \A p \in Orders \ {o} : ostatus'[p] = ostatus[p]
      BY <1>0, <2>2 DEF Enter
    <3>3. receipt[o].stocked = 0
      BY <3>1, OrderFacts
    <3> QED
      BY <3>1, <3>2, <3>3 DEF Known, HasReceipt, StatusFits, FINISHED
  <2> QED
    BY <2>1, <2>2
<1>4. /\ \A p \in Orders : Known(p) => Known(p)' /\ receipt'[p] = receipt[p]
      /\ \A p \in Orders : receipt'[p].stocked >= receipt[p].stocked
  <2>1. ASSUME NEW p \in Orders \ {o}
        PROVE  /\ Known(p) => Known(p)'
               /\ receipt'[p] = receipt[p] /\ receipt'[p].stocked >= receipt[p].stocked
    <3>1. receipt[p].stocked \in Nat
      BY <1>0 DEF Receipts
    <3> QED
      BY <1>3, <3>1 DEF Known
  <2> QED
    BY <1>3, <2>1
<1>5. \A p \in Orders : receipt[p].stocked \in Nat /\ receipt'[p].stocked \in Nat /\ Shipped(p) \in Nat
  BY OrderFacts DEF TInv, GoodsTypeOK, Receipts
<1>6. ShippedWithinStocked'
  <2> SUFFICES ASSUME NEW p \in Orders \ SplitOrders PROVE Shipped(p) <= receipt'[p].stocked
    BY <1>2 DEF ShippedWithinStocked
  <2>1. Shipped(p) <= receipt[p].stocked
    BY DEF OInv, ShippedWithinStocked
  <2> QED
    BY <1>4, <1>5, <2>1
<1>7. UnknownIsEmpty'
  BY <1>1, <1>2, <1>3 DEF OInv, UnknownIsEmpty, Known, HasReceipt
<1>8. StatusKept'
  <2> SUFFICES ASSUME MayDie = FALSE, NEW p \in Orders
               PROVE  \/ StatusFits(p, ostatus[p])'
                      \/ \E c \in Clients : req[c].op \in SyncOps /\ req[c].order = p
    BY <1>1 DEF StatusKept
  <2>1. CASE p = o
    BY <1>3, <2>1
  <2>2. CASE p # o
    BY <1>3, <2>2 DEF OInv, StatusKept, StatusFits, HasReceipt
  <2> QED
    BY <2>1, <2>2
<1>9. ASSUME NEW c \in Clients PROVE OrderInHand(req[c])' /\ ShipInHand(req[c])'
  <2>1. PICK r \in Requests : req[c] = r
    BY <1>0
  <2>2. OrderInHand(r) /\ ShipInHand(r) /\ req'[c] = r
    BY <1>1, <2>1 DEF OInv, OneInHand
  <2>3. OrderInHand(req[c])'
    <3>1. CASE r.op \in KnownOps
      <4>1. r.order \in Orders
        BY <3>1, RequestShape DEF KnownOps, OrderOps
      <4>2. Known(r.order)
        BY <2>2, <3>1 DEF OrderInHand
      <4>3. Known(r.order)' /\ receipt'[r.order] = receipt[r.order]
        BY <1>4, <4>1, <4>2
      <4> QED
        BY <1>2, <2>2, <4>3 DEF OrderInHand, StatusFits, HasReceipt
    <3>2. CASE r.op \notin KnownOps
      BY <2>2, <3>2 DEF OrderInHand, KnownOps, StockOps
    <3> QED
      BY <3>1, <3>2
  <2>4. \A p : PlanFits(p) => PlanFits(p)'
    BY <1>4 DEF PlanFits, StatusFits, HasReceipt
  <2>5. ASSUME NEW line \in LineChoices, NEW others \in SUBSET Ships, Room(line, others)
        PROVE  Room(line, others)'
    <3> SUFFICES ASSUME NEW p \in Orders
                 PROVE  /\ line[p] > 0 => Known(p)'
                        /\ ~Split(p) => OnLines(p, others) + line[p] <= receipt'[p].stocked
      BY <1>2 DEF Room, Split
    <3>1. /\ line[p] > 0 => Known(p)
          /\ ~Split(p) => OnLines(p, others) + line[p] <= receipt[p].stocked
      BY <2>5 DEF Room
    <3>2. OnLines(p, others) \in Nat /\ line[p] \in Nat
      BY <1>0, LineSums, PiecesAssumption DEF LineChoices
    <3> QED
      BY <1>4, <1>5, <3>1, <3>2
  <2>6. ShipInHand(req[c])'
    <3>1. r.op \in ShipAsks => \A p \in r.orders : Known(p)'
      BY <1>4, <2>2, RequestShape DEF ShipInHand
    <3>2. r.op \in LineSaves => PlanFits(r.plan)'
      BY <2>2, <2>4 DEF ShipInHand
    <3>3. r.op = "createShipSave" => Room(r.line, Ships)'
      BY <2>2, <2>5, RequestShape DEF ShipInHand
    <3>4. r.op = "updateShipSave" => Room(r.line, Ships \ {r.ship})'
      BY <2>2, <2>5, RequestShape DEF ShipInHand, ShipSaves
    <3> QED
      BY <1>1, <2>2, <3>1, <3>2, <3>3, <3>4 DEF ShipInHand
  <2> QED
    BY <2>3, <2>6
<1> QED
  BY <1>6, <1>7, <1>8, <1>9 DEF OInv, OneInHand

(* A request that ends early writes nothing.                               *)
LEMMA FailOne == ASSUME OInv, TInv', NEW c \in Clients, OneAtATime, Fail(c) PROVE OInv'
<1>1. Go(c, Idle) /\ UNCHANGED <<ostatus, returned, tickets, receipt, ship>>
  BY DEF Fail, Reply
<1>2. OrderInHand(Idle) /\ ShipInHand(Idle)
  BY IdleType DEF OrderInHand, KnownOps, StockOps, TicketOps, ShipInHand, ShipAsks, LineSaves, ShipSaves
<1>3. MayDie = FALSE => \A o \in Orders : StatusFits(o, ostatus[o])
  BY RightWhenIdle DEF Fail, SyncOps
<1> QED
  BY <1>1, <1>2, <1>3, GoesOn

LEMMA OneStep == ASSUME OneAtATime, OInv, [Next]_goods PROVE OInv'
<1>1. TInv'
  BY TypeStep DEF OInv
<1>2. CASE UNCHANGED goods
  <2>1. UNCHANGED <<ostatus, returned, tickets, receipt, ship, req>>
    BY <1>2 DEF goods
  <2>2. /\ \A o : Known(o)' = Known(o) /\ HasReceipt(o)' = HasReceipt(o) /\ Closed(o)' = Closed(o)
        /\ \A o, ss : OnLines(o, ss)' = OnLines(o, ss)
        /\ \A o : Shipped(o)' = Shipped(o)
        /\ \A o, st : StatusFits(o, st)' = StatusFits(o, st)
    BY <2>1 DEF Known, HasReceipt, Closed, OnLines, Shipped, StatusFits
  <2>3. ShippedWithinStocked' /\ UnknownIsEmpty' /\ StatusKept'
    BY <2>1, <2>2 DEF OInv, ShippedWithinStocked, UnknownIsEmpty, StatusKept
  <2>4. ASSUME NEW c \in Clients PROVE OrderInHand(req[c])' /\ ShipInHand(req[c])'
    <3>1. OrderInHand(req[c])'
      BY <2>1, <2>2 DEF OInv, OneInHand, OrderInHand
    <3>2. ShipInHand(req[c])'
      BY <2>1, <2>2 DEF OInv, OneInHand, ShipInHand, PlanFits, Room
    <3> QED
      BY <3>1, <3>2
  <2> QED
    BY <1>1, <2>3, <2>4 DEF OInv, OneInHand
<1>3. ASSUME NEW c \in Keepers, KeeperStep(c) PROVE OInv'
  BY <1>1, <1>3, KeeperAsksOne, KeeperSavesOne, SyncOne DEF KeeperStep
<1>4. ASSUME NEW c \in Shippers, ShipperStep(c) PROVE OInv'
  BY <1>1, <1>4, ShipperAsksOne, ShipperReadsOne, ShipperSavesOne DEF ShipperStep
<1>5. ASSUME NEW c \in Planners, PlannerStep(c) PROVE OInv'
  BY <1>1, <1>5, PlannerAsksOne, PlannerSavesOne, SyncOrderOne DEF PlannerStep
<1> QED
  BY <1>1, <1>2, <1>3, <1>4, <1>5, OfficeOne, FailOne DEF Next

LEMMA OneInit == Init => OInv
<1> SUFFICES ASSUME Init PROVE OInv
  OBVIOUS
<1>1. TInv
  BY TypeInit
<1>2. \A o \in Orders : Shipped(o) = 0
  <2> SUFFICES ASSUME NEW o \in Orders PROVE Shipped(o) = 0
    OBVIOUS
  <2> DEFINE f == [s \in Ships |-> ship[s].line[o]]
  <2>1. \A s \in Ships : f[s] = 0
    BY DEF Init, NoLines
  <2> HIDE DEF f
  <2>2. SumFunctionOnSet(f, Ships) = 0
    BY <2>1, ShipsAssumption, SumOfZeros
  <2> QED
    BY <2>2 DEF Shipped, OnLines, f
<1>3. ShippedWithinStocked
  BY <1>2 DEF Init, ShippedWithinStocked, NoReceipt
<1>4. UnknownIsEmpty
  BY DEF Init, UnknownIsEmpty, HasReceipt, NoReceipt, Known, Closed, NoLines
<1>5. StatusKept
  BY DEF Init, StatusKept, StatusFits, HasReceipt, NoReceipt
<1>6. OneInHand
  BY IdleType DEF Init, OneInHand, OrderInHand, KnownOps, StockOps, TicketOps, ShipInHand, ShipAsks,
     LineSaves, ShipSaves
<1> QED
  BY <1>1, <1>3, <1>4, <1>5, <1>6 DEF OInv

(* Served one after the other, no request ships what the keeper has not    *)
(* taken in, or takes from under the lines what was shipped: the limit of   *)
(* buildLines, the recount of updateReceipt and the guards of delete, undo  *)
(* and defect keep it together, even when requests stop half way.           *)
THEOREM OneAtATimeShipsStocked ==
    ASSUME OneAtATime
    PROVE  Spec => []ShippedWithinStocked
<1>1. OInv /\ [Next]_goods => OInv'
  BY OneStep
<1>2. OInv => ShippedWithinStocked
  BY DEF OInv
<1> QED
  BY <1>1, <1>2, OneInit, PTL DEF Spec

(* Served one after the other and to its end, every request leaves an order *)
(* in the store with the status its receipt says, whoever wrote last: the    *)
(* keeper, the shipments that take an order back from DELIVERED, or a        *)
(* sub-ticket.                                                              *)
THEOREM OneAtATimeStatusRight ==
    ASSUME OneAtATime, MayDie = FALSE
    PROVE  Spec => []FinishedStatusRight
<1>1. OInv /\ [Next]_goods => OInv'
  BY OneStep
<1>2. OInv => FinishedStatusRight
  BY DEF OInv, FinishedStatusRight, StatusKept, StatusFits, Quiet, Idle, SyncOps
<1> QED
  BY <1>1, <1>2, OneInit, PTL DEF Spec
=============================================================================
