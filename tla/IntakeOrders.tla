---------------------------- MODULE IntakeOrders ----------------------------
(***************************************************************************)
(* The pre-production half of one row of production_orders: from the order *)
(* form to "wax confirmed", the point where a casting slip may take the    *)
(* order (IntakeOrdersService), and the three office endpoints of          *)
(* ProductionOrdersService that may rewrite the status of any order.       *)
(*                                                                         *)
(* Every endpoint here first reads the order with a plain query and then   *)
(* writes it in a transaction of its own, so each is two steps: XxxAsk is  *)
(* the read with its checks, XxxSave the write.  Between them anything may *)
(* happen.  Only the two wax-print batches check the status again in the   *)
(* WHERE clause of their update.                                           *)
(***************************************************************************)
EXTENDS Naturals, FiniteSets

CONSTANTS
    Orders,         \* order ids
    Clients,        \* concurrent requests of the office, one at a time each
    Ops,            \* bound: the endpoints this instance uses
    ManualTargets   \* bound: the statuses the office sets by hand

AllOps == {"approve", "reject", "attachModel3d", "submitProductSpecs",
           "waxPrintBatch", "confirmWarehouseSpecs", "submitCastingTreeSpecs",
           "remove", "changeStatus", "updateCasting", "removeProduction"}

(* MANUAL_STATUSES *)
Manual == {"NEW", "REDO_3D", "DEFECT"}

ASSUME OpsAssumption == Ops \subseteq AllOps
ASSUME ManualTargetsAssumption == ManualTargets \subseteq Manual

VARIABLES
    status,     \* production_orders.status; ABSENT: no row yet, DELETED: row gone
    hasMold,    \* production_orders.has_mold: null, TRUE or FALSE
    rejected,   \* production_orders.rejected_at is set
    cutAt,      \* production_orders.cut_at is set (written by CastingSlips only)
    req         \* the request each client has read for and not yet written

row  == <<status, hasMold, rejected, cutAt>>
desk == <<status, hasMold, rejected, cutAt, req>>

IntakeStatuses == {"PENDING_APPROVAL", "REJECTED", "APPROVED",
                   "READY_FOR_PRODUCTION", "WAX_PRINTED",
                   "PENDING_WAREHOUSE_CONFIRMATION", "WAX_CONFIRMED"}
CastStatuses == {"WAIT_CASTING", "CASTING", "CAST_PENDING_CONFIRMATION", "CAST_DONE"}
Statuses == IntakeStatuses \cup CastStatuses \cup Manual
                \cup {"WAIT_FILING", "ABSENT", "DELETED"}

Molds == {"null", "mold", "noMold"}
Idle  == [op |-> "idle", orders |-> {}, arg |-> "none"]
Requests ==
    LET Of(ops, args) == [op : ops, orders : SUBSET Orders, arg : args]
    IN  {Idle} \cup Of({"approve"}, {"mold", "noMold"})
          \cup Of({"submitProductSpecs"}, {"WAX_PRINTED", "PENDING_WAREHOUSE_CONFIRMATION"})
          \cup Of({"changeStatus"}, Manual)
          \cup Of(AllOps \ {"approve", "submitProductSpecs", "changeStatus"}, {"none"})

TypeOK ==
    /\ status \in [Orders -> Statuses]
    /\ hasMold \in [Orders -> Molds]
    /\ rejected \in [Orders -> BOOLEAN]
    /\ cutAt \in [Orders -> BOOLEAN]
    /\ req \in [Clients -> Requests]

Exists(o) == status[o] \notin {"ABSENT", "DELETED"}

Init ==
    /\ status = [o \in Orders |-> "ABSENT"]
    /\ hasMold = [o \in Orders |-> "null"]
    /\ rejected = [o \in Orders |-> FALSE]
    /\ cutAt = [o \in Orders |-> FALSE]
    /\ req = [c \in Clients |-> Idle]

-----------------------------------------------------------------------------
(* The frame of a request.                                                 *)

(* The read outside the transaction: the request remembers what it found.  *)
Ask(c, op, os, arg) ==
    /\ op \in Ops
    /\ req[c] = Idle
    /\ req' = [req EXCEPT ![c] = [op |-> op, orders |-> os, arg |-> arg]]
    /\ UNCHANGED row

(* The write of a request on rows that are still there: Prisma's update    *)
(* throws on a missing row.                                                *)
Serve(c, op) == req[c].op = op /\ \A o \in req[c].orders : Exists(o)

Reply(c) == req' = [req EXCEPT ![c] = Idle]

(* runTx: when the acknowledgement of the commit is lost (P1017, P2028)    *)
(* the same function runs again, so the request may stay in hand.          *)
CommitOrRetry(c) == Reply(c) \/ req' = req

SetStatus(os, s) == status' = [o \in Orders |-> IF o \in os THEN s ELSE status[o]]

(* A request that errs (row gone, conflict, connection) writes nothing.    *)
Fail(c) ==
    /\ req[c] # Idle
    /\ Reply(c)
    /\ UNCHANGED row

-----------------------------------------------------------------------------
(* Order form: create, approve, reject, remove.                            *)

Create(o) ==
    /\ status[o] = "ABSENT"
    /\ SetStatus({o}, "PENDING_APPROVAL")
    /\ UNCHANGED <<hasMold, rejected, cutAt, req>>

(* Fault variant: approve does not look at the status.                     *)
ApproveAskUnchecked(c, o) ==
    /\ Exists(o)
    /\ \E m \in {"mold", "noMold"} : Ask(c, "approve", {o}, m)

ApproveAsk(c, o) ==
    /\ status[o] = "PENDING_APPROVAL"
    /\ \E m \in {"mold", "noMold"} : Ask(c, "approve", {o}, m)

ApproveSave(c) ==
    LET os == req[c].orders
        m  == req[c].arg
    IN  /\ Serve(c, "approve")
        /\ SetStatus(os, IF m = "mold" THEN "READY_FOR_PRODUCTION" ELSE "APPROVED")
        /\ hasMold' = [o \in Orders |-> IF o \in os THEN m ELSE hasMold[o]]
        /\ CommitOrRetry(c)
        /\ UNCHANGED <<rejected, cutAt>>

RejectAsk(c, o) ==
    /\ status[o] = "PENDING_APPROVAL"
    /\ Ask(c, "reject", {o}, "none")

RejectSave(c) ==
    LET os == req[c].orders
    IN  /\ Serve(c, "reject")
        /\ SetStatus(os, "REJECTED")
        /\ hasMold' = [o \in Orders |-> IF o \in os THEN "null" ELSE hasMold[o]]
        /\ rejected' = [o \in Orders |-> rejected[o] \/ o \in os]
        /\ CommitOrRetry(c)
        /\ UNCHANGED cutAt

RemoveAsk(c, o) ==
    /\ status[o] = "PENDING_APPROVAL"
    /\ Ask(c, "remove", {o}, "none")

RemoveSave(c) ==
    /\ Serve(c, "remove")
    /\ SetStatus(req[c].orders, "DELETED")
    /\ Reply(c)
    /\ UNCHANGED <<hasMold, rejected, cutAt>>

-----------------------------------------------------------------------------
(* 3D model, wax, warehouse.                                               *)

AttachModel3dAsk(c, o) ==
    /\ status[o] = "APPROVED"
    /\ Ask(c, "attachModel3d", {o}, "none")

AttachModel3dSave(c) ==
    /\ Serve(c, "attachModel3d")
    /\ SetStatus(req[c].orders, "READY_FOR_PRODUCTION")
    /\ CommitOrRetry(c)
    /\ UNCHANGED <<hasMold, rejected, cutAt>>

(* The next status is chosen from the has_mold read before the transaction. *)
SubmitProductSpecsAsk(c, o) ==
    /\ status[o] = "READY_FOR_PRODUCTION"
    /\ Ask(c, "submitProductSpecs", {o},
           IF hasMold[o] = "mold" THEN "PENDING_WAREHOUSE_CONFIRMATION"
                                  ELSE "WAX_PRINTED")

SubmitProductSpecsSave(c) ==
    /\ Serve(c, "submitProductSpecs")
    /\ SetStatus(req[c].orders, req[c].arg)
    /\ CommitOrRetry(c)
    /\ UNCHANGED <<hasMold, rejected, cutAt>>

(* submitWaxPrintBatch and waxPrintBatch: one tray of several orders.  The  *)
(* first wants has_mold = false, the second only refuses has_mold = true.   *)
WaxPrintBatchAskAnyMold(c) ==               \* fault variant: has_mold is not looked at
    \E os \in (SUBSET Orders) \ {{}} :
        /\ \A o \in os : status[o] = "READY_FOR_PRODUCTION"
        /\ Ask(c, "waxPrintBatch", os, "none")

WaxPrintBatchAsk(c) ==
    \E os \in (SUBSET Orders) \ {{}} :
        /\ \A o \in os : status[o] = "READY_FOR_PRODUCTION" /\ hasMold[o] # "mold"
        /\ Ask(c, "waxPrintBatch", os, "none")

(* The batch does re-check: every row must still be READY_FOR_PRODUCTION.   *)
WaxPrintBatchSave(c) ==
    /\ Serve(c, "waxPrintBatch")
    /\ \A o \in req[c].orders : status[o] = "READY_FOR_PRODUCTION"
    /\ SetStatus(req[c].orders, "WAX_PRINTED")
    /\ CommitOrRetry(c)
    /\ UNCHANGED <<hasMold, rejected, cutAt>>

SubmitCastingTreeSpecsAsk(c, o) ==
    /\ status[o] = "WAX_PRINTED"
    /\ Ask(c, "submitCastingTreeSpecs", {o}, "none")

SubmitCastingTreeSpecsSave(c) ==
    /\ Serve(c, "submitCastingTreeSpecs")
    /\ SetStatus(req[c].orders, "PENDING_WAREHOUSE_CONFIRMATION")
    /\ CommitOrRetry(c)
    /\ UNCHANGED <<hasMold, rejected, cutAt>>

ConfirmWarehouseSpecsAsk(c, o) ==
    /\ status[o] = "PENDING_WAREHOUSE_CONFIRMATION"
    /\ Ask(c, "confirmWarehouseSpecs", {o}, "none")

ConfirmWarehouseSpecsSave(c) ==
    /\ Serve(c, "confirmWarehouseSpecs")
    /\ SetStatus(req[c].orders, "WAX_CONFIRMED")
    /\ CommitOrRetry(c)
    /\ UNCHANGED <<hasMold, rejected, cutAt>>

-----------------------------------------------------------------------------
(* The office endpoints on any order (no stages, no receipt before         *)
(* filing).  changeStatus keeps an order that is in a stage out of NEW and *)
(* REDO_3D; WAIT_FILING is the only stage status of this half.             *)

ChangeStatusAsk(c, o) ==
    \E target \in ManualTargets :
        /\ Exists(o)
        /\ status[o] # target
        /\ target = "DEFECT" \/ status[o] # "WAIT_FILING"
        /\ Ask(c, "changeStatus", {o}, target)

ChangeStatusSave(c) ==
    /\ Serve(c, "changeStatus")
    /\ SetStatus(req[c].orders, req[c].arg)
    /\ Reply(c)
    /\ UNCHANGED <<hasMold, rejected, cutAt>>

(* Report casting by hand: an order in NEW, REDO_3D or DEFECT goes to CASTING; *)
(* for any other status only the dates change, which this module leaves out.   *)
UpdateCastingAsk(c, o) ==
    /\ status[o] \in Manual
    /\ ~cutAt[o]
    /\ Ask(c, "updateCasting", {o}, "none")

UpdateCastingSave(c) ==
    /\ Serve(c, "updateCasting")
    /\ SetStatus(req[c].orders, "CASTING")
    /\ Reply(c)
    /\ UNCHANGED <<hasMold, rejected, cutAt>>

(* ProductionOrdersService.remove: only a NEW order without stages.         *)
RemoveProductionAsk(c, o) ==
    /\ status[o] = "NEW"
    /\ Ask(c, "removeProduction", {o}, "none")

RemoveProductionSave(c) ==
    /\ Serve(c, "removeProduction")
    /\ SetStatus(req[c].orders, "DELETED")
    /\ CommitOrRetry(c)
    /\ UNCHANGED <<hasMold, rejected, cutAt>>

-----------------------------------------------------------------------------
(* Deletes apart, because a casting slip line forbids them.                 *)
Deletes(c) == RemoveSave(c) \/ RemoveProductionSave(c)

Asks(c) ==
    \/ \E o \in Orders :
        \/ ApproveAsk(c, o) \/ RejectAsk(c, o) \/ RemoveAsk(c, o)
        \/ AttachModel3dAsk(c, o) \/ SubmitProductSpecsAsk(c, o)
        \/ SubmitCastingTreeSpecsAsk(c, o) \/ ConfirmWarehouseSpecsAsk(c, o)
        \/ ChangeStatusAsk(c, o) \/ UpdateCastingAsk(c, o) \/ RemoveProductionAsk(c, o)
    \/ WaxPrintBatchAsk(c)

Saves(c) ==
    \/ ApproveSave(c) \/ RejectSave(c) \/ AttachModel3dSave(c)
    \/ SubmitProductSpecsSave(c) \/ WaxPrintBatchSave(c)
    \/ SubmitCastingTreeSpecsSave(c) \/ ConfirmWarehouseSpecsSave(c)
    \/ ChangeStatusSave(c) \/ UpdateCastingSave(c)

Next ==
    \/ \E o \in Orders : Create(o)
    \/ \E c \in Clients : Asks(c) \/ Saves(c) \/ Deletes(c) \/ Fail(c)

Spec == Init /\ [][Next]_desk

-----------------------------------------------------------------------------
(* A rejection stands: once a keeper has rejected an order, nobody goes on  *)
(* producing it.  The office may still rewrite its status by hand.          *)
RejectionStands ==
    \A o \in Orders : rejected[o] => status[o] \in {"REJECTED", "DELETED"} \cup Manual \cup {"CASTING"}

(* An order with a mold never enters the resin print path, whose wax nobody *)
(* would then inject.                                                       *)
MoldDecidesWaxPath ==
    \A o \in Orders :
        /\ status[o] \in {"APPROVED", "WAX_PRINTED"} => hasMold[o] = "noMold"
        /\ status[o] = "READY_FOR_PRODUCTION" => hasMold[o] # "null"
=============================================================================
